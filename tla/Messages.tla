------------------------------ MODULE Messages ------------------------------
(* The two queues of the worker between the bot and Telegram: what is said   *)
(* to users (Outbox) and what they send (UpdateQueue).  One loop serves both *)
(* in turn, and neither looks into the other's tables but for the answers a  *)
(* handler enqueues, which Outbox lets anybody do at any time.  So one of    *)
(* them runs at a time while the other waits where it starts: `turn` says    *)
(* which.                                                                    *)
EXTENDS Outbox, UpdateQueue

VARIABLES
  turn,    \* "outbox" or "intake"
  watched  \* an update, any of them: EveryUpdateSettles is about it

messages == <<turn, watched, vars, queue_vars>>

MessagesInit ==
  /\ turn \in {"outbox", "intake"} /\ watched \in UpdateIds
  /\ Init /\ QueueInit
  /\ turn = "intake" => ready /\ ~gate
  /\ turn = "outbox" => watched = 1

MessagesNext ==
  /\ UNCHANGED <<turn, watched>>
  /\ \/ turn = "outbox" /\ Next /\ UNCHANGED queue_vars
     \/ turn = "intake" /\ QueueNext /\ UNCHANGED vars

\* main runs tick for ever, and time passes.
OutboxFairness ==
  /\ WF_vars(turn = "outbox" /\ Worker)
  /\ \A r \in Ids : WF_vars(turn = "outbox" /\ BecomeDue(r))

\* main runs tick for ever and time passes.  A replay whose turn can come for ever
\* gets its turn (rows are taken in the order of their next_try), and the watched
\* update does not fail at every attempt; others may.
IntakeFairness ==
  /\ WF_queue_vars(turn = "intake" /\ Intake)
  /\ WF_queue_vars(turn = "intake" /\ FallDue(watched))
  /\ SF_queue_vars(turn = "intake" /\ \E S \in SUBSET due : watched \in S /\ BeginRetry(S))
  /\ SF_queue_vars(turn = "intake" /\ (HandleOk(watched) \/ HandleValueError(watched, "invalid")))

MessagesSpec == MessagesInit /\ [][MessagesNext]_messages /\ OutboxFairness /\ IntakeFairness

-----------------------------------------------------------------------------
(* Properties *)

\* Every update takes effect or is refused in the end: one that fails does not
\* hold up later ones, and a saved one is replayed until then, also when others
\* fail for ever.  Excepted are the updates the code drops when a peer is not
\* reached, at the first attempt or at a replay (see Dropped).
EveryUpdateSettles == watched <= inbox ~> Settled(watched) \/ Dropped(watched)
=============================================================================
