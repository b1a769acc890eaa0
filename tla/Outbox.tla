------------------------------- MODULE Outbox -------------------------------
(***************************************************************************)
(* The Telegram outbox (table outbox, the delivery loop of tick in         *)
(* runtime/sales_worker.py).                                               *)
(*                                                                         *)
(* Whatever the program says to a user is a row first.  The one worker     *)
(* fetches the first Limit rows that are pending and due, sends them one   *)
(* by one and records each outcome in a transaction of its own.  While it  *)
(* works, other processes insert rows, switch media notifications off,     *)
(* put failed rows back, and the right to post to the channel lapses.      *)
(* While the setting require_contact is on, rows whose reader has shared   *)
(* no phone number are passed over, except prompts and channel posts.      *)
(* Telegram may take a message whose answer is lost, and the worker may    *)
(* die between sending and recording.                                      *)
(*                                                                         *)
(* Texts and methods are left out; of a payload it matters whether the     *)
(* cancellation has emptied it, since Telegram refuses an empty one.       *)
(***************************************************************************)
EXTENDS Integers, FiniteSets

CONSTANTS
  N,            \* bound: number of rows
  Limit,        \* rows the loop fetches (15)
  MaxAttempts,  \* failures after which a row is a dead letter (16)
  MaxPosts,     \* bound: channel posts among the rows (three a day, less than Limit)
  MaxLost,      \* bound: answers lost
  MaxCrashes    \* bound: crashes of the worker

ASSUME OutboxAssumption ==
  /\ N \in Nat /\ Limit \in Nat \ {0} /\ MaxAttempts \in Nat \ {0}
  /\ MaxPosts \in 0 .. Limit - 1 /\ MaxLost \in Nat /\ MaxCrashes \in Nat

VARIABLES
  rows,       \* the table: what a row is for, its state, attempts, ...
  ready,      \* whether the channel may be posted to (_posting_ready)
  gate,       \* setting require_contact
  phones,     \* rows whose reader has shared a phone number
  batch,      \* id -> the row as it was fetched, for the rows left
  outcome,    \* how the transmission under way ended, or "none"
  delivered,  \* history: how often Telegram showed the row to its reader
  lost, crashes

vars == <<rows, ready, gate, phones, batch, outcome, delivered, lost, crashes>>
gate_vars == <<gate, phones>>

Ids == 1 .. N
\* A message to a user, a media notification, a post of the channel, and what
\* the gate lets pass: prompts for phone number or channel, news of a first
\* contact, the channel manager's answers and reviews.
Kinds == {"message", "broadcast", "post", "prompt"}
Row == [kind : Kinds, done : {"absent", "pending", "sent", "dead", "cancelled"},
        attempts : 0 .. MaxAttempts, due : BOOLEAN, empty : BOOLEAN]
NoRow == [kind |-> "message", done |-> "absent", attempts |-> 0, due |-> TRUE, empty |-> FALSE]

Init ==
  /\ rows = [r \in Ids |-> NoRow]
  /\ ready \in BOOLEAN /\ gate \in BOOLEAN /\ phones = {}
  /\ batch = <<>> /\ outcome = "none"
  /\ delivered = [r \in Ids |-> 0]
  /\ lost = 0 /\ crashes = 0

-----------------------------------------------------------------------------
(* Other transactions, of the worker's handlers and of other processes *)

Enqueue(r, kind) ==
  /\ \A q \in Ids : rows[q].done = "absent" <=> q >= r
  /\ kind = "post" => ready /\ Cardinality({q \in Ids : rows[q].kind = "post"}) < MaxPosts
  /\ rows' = [rows EXCEPT ![r] = [NoRow EXCEPT !.kind = kind, !.done = "pending"]]
  /\ UNCHANGED <<gate_vars, ready, batch, outcome, delivered, lost, crashes>>

\* Switching a kind of media notification off cancels the pending ones; it may be
\* switched on again before the next one, so that the setting itself is left out.
DisableBroadcasts ==
  /\ rows' = [r \in Ids |->
       IF rows[r].done = "pending" /\ rows[r].kind = "broadcast"
       THEN [rows[r] EXCEPT !.done = "cancelled", !.empty = TRUE] ELSE rows[r]]
  /\ UNCHANGED <<gate_vars, ready, batch, outcome, delivered, lost, crashes>>

SwitchChannel ==
  /\ ready' = ~ready
  /\ UNCHANGED <<gate_vars, rows, batch, outcome, delivered, lost, crashes>>

\* Switching the gate on also enqueues prompts (Enqueue).
SwitchGate ==
  /\ gate' = ~gate
  /\ UNCHANGED <<rows, ready, phones, batch, outcome, delivered, lost, crashes>>

\* The reader of row r shares the number; a reader who did so before the row was
\* written is one who does so right after it.
ShareContact(r) ==
  /\ r \notin phones /\ rows[r].done = "pending" /\ rows[r].kind \notin {"post", "prompt"}
  /\ phones' = phones \cup {r}
  /\ UNCHANGED <<rows, ready, gate, batch, outcome, delivered, lost, crashes>>

RetryOutbox(r) ==
  /\ rows[r].done = "dead"
  /\ rows' = [rows EXCEPT ![r].done = "pending", ![r].attempts = 0, ![r].due = TRUE]
  /\ UNCHANGED <<gate_vars, ready, batch, outcome, delivered, lost, crashes>>

BecomeDue(r) ==
  /\ ~rows[r].due
  /\ rows' = [rows EXCEPT ![r].due = TRUE]
  /\ UNCHANGED <<gate_vars, ready, batch, outcome, delivered, lost, crashes>>

-----------------------------------------------------------------------------
(* The delivery loop *)

\* The gate holds row r back.
Held(r) == gate /\ r \notin phones /\ rows[r].kind \notin {"post", "prompt"}

Sendable == {r \in Ids : rows[r].done = "pending" /\ rows[r].due /\ ~Held(r)}
Earliest(n, S) == {r \in S : Cardinality({q \in S : q < r}) < n}
Cur == CHOOSE r \in DOMAIN batch : \A q \in DOMAIN batch : r <= q
Rest == [r \in DOMAIN batch \ {Cur} |-> batch[r]]

Fetch ==
  /\ DOMAIN batch = {} /\ Sendable # {}
  /\ batch' = [r \in Earliest(Limit, Sendable) |-> rows[r]]
  /\ UNCHANGED <<gate_vars, rows, ready, outcome, delivered, lost, crashes>>

Paused(r) == batch[r].kind = "post" /\ ~ready

\* Mutant of Skip: a paused post ends the loop.
SkipAll ==
  /\ DOMAIN batch # {} /\ outcome = "none" /\ Paused(Cur)
  /\ batch' = <<>>
  /\ UNCHANGED <<gate_vars, rows, ready, outcome, delivered, lost, crashes>>

\* _posting_ready is asked again for every row.
Skip ==
  /\ DOMAIN batch # {} /\ outcome = "none" /\ Paused(Cur)
  /\ batch' = Rest
  /\ UNCHANGED <<gate_vars, rows, ready, outcome, delivered, lost, crashes>>

Sending == DOMAIN batch # {} /\ outcome = "none" /\ ~Paused(Cur)

\* Telegram takes the message as it was fetched; its answer arrives or not.
Transmit ==
  /\ Sending /\ ~batch[Cur].empty
  /\ delivered' = [delivered EXCEPT ![Cur] = @ + 1]
  /\ \/ outcome' = "ok" /\ UNCHANGED lost
     \/ outcome' = "failed" /\ lost < MaxLost /\ lost' = lost + 1
  /\ UNCHANGED <<gate_vars, rows, ready, batch, crashes>>

\* Telegram is not reached or refuses.
TransmitFails ==
  /\ Sending
  /\ outcome' = "failed"
  /\ UNCHANGED <<gate_vars, rows, ready, batch, delivered, lost, crashes>>

\* The worker turns to the next row.
Proceed == batch' = Rest /\ outcome' = "none"

RecordSent ==
  /\ outcome = "ok"
  /\ rows' = [rows EXCEPT ![Cur].done = "sent", ![Cur].empty = TRUE]
  /\ Proceed /\ UNCHANGED <<gate_vars, ready, delivered, lost, crashes>>

\* Mutant of FailedRow: a row is given up as if it had been sent.
FailedRowAsSent(r) ==
  LET attempts == batch[r].attempts + 1 IN
  [rows[r] EXCEPT !.attempts = attempts, !.due = FALSE,
                  !.done = IF attempts >= MaxAttempts THEN "sent" ELSE "pending"]

\* The outcome is counted on the row as it was fetched, and written whatever
\* the row has become.
FailedRow(r) ==
  LET attempts == batch[r].attempts + 1 IN
  [rows[r] EXCEPT !.attempts = attempts, !.due = FALSE,
                  !.done = IF attempts >= MaxAttempts THEN "dead" ELSE "pending"]

RecordFailure ==
  /\ outcome = "failed"
  /\ rows' = [rows EXCEPT ![Cur] = FailedRow(Cur)]
  /\ Proceed /\ UNCHANGED <<gate_vars, ready, delivered, lost, crashes>>

Crash ==
  /\ DOMAIN batch # {} /\ crashes < MaxCrashes
  /\ batch' = <<>> /\ outcome' = "none"
  /\ crashes' = crashes + 1
  /\ UNCHANGED <<gate_vars, rows, ready, delivered, lost>>

-----------------------------------------------------------------------------
Worker == Fetch \/ Skip \/ Transmit \/ TransmitFails \/ RecordSent \/ RecordFailure

Next ==
  \/ Worker
  \/ \E r \in Ids, kind \in Kinds : Enqueue(r, kind)
  \/ DisableBroadcasts \/ SwitchChannel \/ SwitchGate
  \/ \E r \in Ids : RetryOutbox(r) \/ BecomeDue(r) \/ ShareContact(r)
  \/ Crash

Spec == Init /\ [][Next]_vars

-----------------------------------------------------------------------------
(* Properties *)

\* Every variable has its type; attempts of a pending row are below the limit.
TypeOK ==
  /\ rows \in [Ids -> Row]
  /\ ready \in BOOLEAN /\ gate \in BOOLEAN /\ phones \subseteq Ids
  /\ DOMAIN batch \subseteq Ids
  /\ \A r \in DOMAIN batch : batch[r] \in Row /\ batch[r].attempts < MaxAttempts
  /\ \A r \in Ids : rows[r].done = "pending" => rows[r].attempts < MaxAttempts
  /\ outcome \in {"none", "ok", "failed"} /\ (outcome # "none" => DOMAIN batch # {})
  /\ delivered \in [Ids -> Nat]
  /\ lost \in 0 .. MaxLost /\ crashes \in 0 .. MaxCrashes

\* docs/TELEGRAM_BOT_FA.md:162: a message that failed is never counted as
\* sent; what is recorded as sent was shown to its reader, also when the row
\* was cancelled, retried or given up on the way.
SentMeansDelivered == \A r \in Ids : rows[r].done = "sent" => delivered[r] > 0

\* A message is shown twice only when an answer was lost or the worker died
\* between sending and recording; no retry repeats what is known to be sent.
RepeatsExplained == \A r \in Ids : delivered[r] <= 1 + lost + crashes

\* What the rows say of a message and what its reader has seen, through lost
\* answers, crashes, cancellations and the retry of dead letters.
DeliveryInv == TypeOK /\ SentMeansDelivered /\ RepeatsExplained

\* Every message is sent, cancelled, visibly given up or held by the gate,
\* whichever held messages and posts of a paused channel stand before it, as
\* long as administrators do not put dead letters back for ever.
EveryMessageSettles ==
  <>[][~\E r \in Ids : RetryOutbox(r)]_vars =>
    \A r \in Ids : rows[r].done = "pending" /\ rows[r].kind # "post" ~>
                     rows[r].done # "pending" \/ Held(r)
=============================================================================
