------------------------------- MODULE Upkeep -------------------------------
(* The AI section and the full backup of the server.  They share nothing, so *)
(* one of them runs at a time while the other waits where it starts: `turn`  *)
(* says which.                                                               *)
EXTENDS Ai

CONSTANTS Goods, Breakdowns, Jobs, Commands   \* Backup

VARIABLES turn, live, clients, main, wal, up, conn, cmd, undo, archives, web, budget

B == INSTANCE Backup WITH
  Orders <- Goods, MaxFaults <- Breakdowns, MaxJobs <- Jobs, MaxCommands <- Commands

\* The bounds are numbers.
ASSUME UpkeepAssumption == Breakdowns \in Nat /\ Jobs \in Nat /\ Commands \in Nat

server == <<live, clients, main, wal, up, conn, cmd, undo, archives, web, budget>>

UpkeepInit == turn \in {"ai", "backup"} /\ Init /\ B!Init
UpkeepNext ==
  /\ UNCHANGED turn
  /\ \/ turn = "ai" /\ Next /\ UNCHANGED server
     \/ turn = "backup" /\ B!Next /\ UNCHANGED vars
UpkeepSpec == UpkeepInit /\ [][UpkeepNext]_<<turn, vars, server>>

-----------------------------------------------------------------------------
(* What Backup states, under names of its own.                               *)

\* A restore that fails leaves every file, order, client and service as it was;
\* one that succeeds has replaced every file and holds the bot back; and there
\* is an archive of what was there before (see Backup).
BackupInv == turn = "backup" => B!Inv
\* An archive taken with the services stopped holds each order's client.
QuiescedIsSound == turn = "backup" => B!QuiescedIsSound
=============================================================================
