---------------------------- MODULE UpdateQueue ----------------------------
(***************************************************************************)
(* How the worker takes updates from Telegram (tick and                    *)
(* retry_failed_updates, runtime/sales_worker.py).                         *)
(*                                                                         *)
(* Telegram numbers what users send and keeps an update until a later      *)
(* offset is asked for.  A run of tick first replays saved updates whose   *)
(* time has come, then polls and handles what it gets in order.  An update *)
(* is handled in one transaction with the record that it was: a handler    *)
(* that raises ValueError is rolled back and answered, any other exception *)
(* saves the update for a replay; in both cases the offset moves on.       *)
(*                                                                         *)
(* What the handlers do is the subject of Sales; here it counts how often  *)
(* a handler took effect.  Panel.call, vpn and tg turn every failure of    *)
(* the network into ValueError, so that both kinds of it look alike.       *)
(***************************************************************************)
EXTENDS Integers, FiniteSets

CONSTANTS
  MaxUpdates,  \* bound: number of updates
  PollLimit,   \* updates of one poll (20)
  RetryLimit,  \* saved updates replayed in one run (10)
  MaxDeaths    \* bound: crashes of the worker

ASSUME UpdateQueueAssumption ==
  /\ MaxUpdates \in Nat /\ MaxDeaths \in Nat
  /\ PollLimit \in Nat \ {0} /\ RetryLimit \in Nat \ {0}

VARIABLES
  inbox,      \* the last update Telegram has received
  offset,     \* setting: the first update to ask for
  updates,    \* table: updates that are dealt with
  saved, due, \* table bot_retry_updates: its ids, and those whose time has come
  phase,      \* "idle", "retry" or "poll"
  work,       \* updates in hand that are not yet handled
  effects,    \* history: how often the handler of an update was committed
  refusals,   \* history: why the user was told that an update is dropped
  deaths

queue_vars == <<inbox, offset, updates, saved, due, phase, work, effects, refusals, deaths>>

UpdateIds == 1 .. MaxUpdates
Causes == {"none", "invalid", "unreachable"}

QueueInit ==
  /\ inbox = 0 /\ offset = 1
  /\ updates = {} /\ saved = {} /\ due = {}
  /\ phase = "idle" /\ work = {}
  /\ effects = [u \in UpdateIds |-> 0]
  /\ refusals = [u \in UpdateIds |-> "none"]
  /\ deaths = 0

-----------------------------------------------------------------------------
Arrive ==
  /\ inbox < MaxUpdates /\ inbox' = inbox + 1
  /\ UNCHANGED <<offset, updates, saved, due, phase, work, effects, refusals, deaths>>

FallDue(u) ==
  /\ u \in saved \ due /\ due' = due \cup {u}
  /\ UNCHANGED <<inbox, offset, updates, saved, phase, work, effects, refusals, deaths>>

\* A run begins with saved updates that are due: as many as the limit allows.
\* Which ones come first (next_try) is left open.
BeginRetry(S) ==
  /\ phase = "idle"
  /\ S \subseteq due /\ (S = due \/ Cardinality(S) = RetryLimit)
  /\ Cardinality(S) <= RetryLimit
  /\ phase' = "retry" /\ work' = S
  /\ UNCHANGED <<inbox, offset, updates, saved, due, effects, refusals, deaths>>

First(n, S) == {u \in S : Cardinality({v \in S : v < u}) < n}
Waiting == {u \in UpdateIds : offset <= u /\ u <= inbox}

Poll ==
  /\ phase = "retry" /\ work = {}
  /\ phase' = "poll" /\ work' = First(PollLimit, Waiting)
  /\ UNCHANGED <<inbox, offset, updates, saved, due, effects, refusals, deaths>>

\* The next update of a poll: ones that are recorded already are passed over.
Current(u) ==
  /\ phase \in {"retry", "poll"} /\ u \in work
  /\ phase = "poll" => u \notin updates /\ \A v \in work \ updates : u <= v

EndTick ==
  /\ phase = "poll" /\ work \subseteq updates
  /\ phase' = "idle" /\ work' = {}
  /\ UNCHANGED <<inbox, offset, updates, saved, due, effects, refusals, deaths>>

\* Only an update of a poll moves the offset.
Advance(u) == offset' = IF phase = "poll" THEN u + 1 ELSE offset

\* Mutant of Record: a replayed update stays in the table of saved ones.
RecordKeepsSaved(u) ==
  /\ updates' = updates \cup {u}
  /\ UNCHANGED <<saved, due>>

\* The update is dealt with.
Record(u) ==
  /\ updates' = updates \cup {u}
  /\ saved' = saved \ {u} /\ due' = due \ {u}

HandleOk(u) ==
  /\ Current(u)
  /\ effects' = [effects EXCEPT ![u] = @ + 1]
  /\ Record(u) /\ Advance(u) /\ work' = work \ {u}
  /\ UNCHANGED <<inbox, phase, refusals, deaths>>

\* ValueError: the handler is rolled back and its message is the answer.
HandleValueError(u, cause) ==
  /\ Current(u) /\ cause \in {"invalid", "unreachable"}
  /\ refusals' = [refusals EXCEPT ![u] = cause]
  /\ Record(u) /\ Advance(u) /\ work' = work \ {u}
  /\ UNCHANGED <<inbox, phase, effects, deaths>>

\* Mutants of HandleException: the offset is moved and the update not saved;
\* a replay that fails is not tried again.
HandleExceptionUnsaved(u) ==
  /\ Current(u)
  /\ Advance(u) /\ work' = work \ {u}
  /\ UNCHANGED <<inbox, updates, saved, due, phase, effects, refusals, deaths>>

HandleExceptionOnce(u) ==
  /\ Current(u)
  /\ saved' = (IF phase = "poll" THEN saved \cup {u} ELSE saved \ {u})
  /\ due' = due \ {u}
  /\ Advance(u) /\ work' = work \ {u}
  /\ UNCHANGED <<inbox, updates, phase, effects, refusals, deaths>>

\* Any other exception: the update is saved, or stays saved, for later.
HandleException(u) ==
  /\ Current(u)
  /\ saved' = saved \cup {u} /\ due' = due \ {u}
  /\ Advance(u) /\ work' = work \ {u}
  /\ UNCHANGED <<inbox, updates, phase, effects, refusals, deaths>>

\* The process dies, or the poll fails and ends the run.
Die ==
  /\ phase # "idle" /\ deaths < MaxDeaths
  /\ phase' = "idle" /\ work' = {} /\ deaths' = deaths + 1
  /\ UNCHANGED <<inbox, offset, updates, saved, due, effects, refusals>>

-----------------------------------------------------------------------------
Handle(u) ==
  \/ HandleOk(u)
  \/ \E cause \in Causes : HandleValueError(u, cause)
  \/ HandleException(u)

Intake ==
  \/ \E S \in SUBSET due : BeginRetry(S)
  \/ Poll \/ EndTick
  \/ \E u \in UpdateIds : Handle(u)

QueueNext == Arrive \/ Intake \/ Die \/ \E u \in UpdateIds : FallDue(u)

QueueSpec == QueueInit /\ [][QueueNext]_queue_vars

-----------------------------------------------------------------------------
(* Properties *)

\* Every variable has its type.
QueueTypeOK ==
  /\ inbox \in 0 .. MaxUpdates /\ offset \in 1 .. MaxUpdates + 1
  /\ updates \subseteq UpdateIds /\ saved \subseteq UpdateIds /\ due \subseteq saved
  /\ phase \in {"idle", "retry", "poll"} /\ work \subseteq UpdateIds
  /\ effects \in [UpdateIds -> Nat] /\ refusals \in [UpdateIds -> Causes]
  /\ deaths \in 0 .. MaxDeaths

\* The update took effect, or its user was told what was wrong with it.
Settled(u) == effects[u] > 0 \/ refusals[u] = "invalid"
\* The update is gone because the panel, Telegram or the VPN's manager was not
\* reached: the handler's ValueError looks like one of the user's mistakes.
Dropped(u) == refusals[u] = "unreachable"

\* sales_worker.py:747: an update that Telegram may forget, since a later
\* offset was asked for, took effect, was refused for good or is saved.  Updates
\* whose handler did not reach a peer are excepted: the code drops them.
NothingLost == \A u \in UpdateIds : u < offset => u \in saved \/ Settled(u) \/ Dropped(u)

\* docs/TELEGRAM_BOT_FA.md:162: an update that fails on a temporary error of the
\* network or the panel is not confirmed and deleted.  The code does delete it.
UpdateKept == \A u \in UpdateIds : u < offset => u \in saved \/ Settled(u)

\* A handler takes effect at most once, and never after its user was told that
\* the update is dropped, whatever crashed, was replayed or delivered again.
HandledOnce ==
  \A u \in UpdateIds : effects[u] + (IF refusals[u] = "none" THEN 0 ELSE 1) <= 1

\* What the user was told and what took effect is recorded, so that it is not
\* handled again, and only that is recorded.
RecordIsTrue ==
  \A u \in UpdateIds : u \in updates <=> effects[u] > 0 \/ refusals[u] # "none"
=============================================================================
