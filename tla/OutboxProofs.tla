---------------------------- MODULE OutboxProofs ----------------------------
(***************************************************************************)
(* For every number of rows, attempts, lost answers and crashes: what is   *)
(* recorded as sent was shown to its reader, and what was shown more often *)
(* than once is explained by lost answers and crashes (DeliveryInv).       *)
(*                                                                         *)
(* Both rest on the one worker: a row of its batch can be cancelled, given *)
(* up or put back by others, but only the worker makes it sent, so that    *)
(* what it is about to send is never sent already (BatchUnsent).           *)
(***************************************************************************)
EXTENDS Outbox, WellFoundedInduction, TLAPS

BatchUnsent == \A r \in DOMAIN batch : rows[r].done \notin {"absent", "sent"}

\* The transmission of row r is over, and is still to be recorded.
Shown(r) == outcome = "ok" /\ r = Cur

OkMeansDelivered == outcome = "ok" => delivered[Cur] > 0

\* Telegram showed row r once, and once more for each accident; the once is
\* spent only for a row that is recorded as sent or about to be.
Explained(r) ==
  /\ delivered[r] <= 1 + lost + crashes
  /\ rows[r].done # "sent" /\ ~Shown(r) => delivered[r] <= lost + crashes

IInv ==
  /\ TypeOK /\ BatchUnsent /\ OkMeansDelivered /\ SentMeansDelivered
  /\ \A r \in Ids : Explained(r)

-----------------------------------------------------------------------------
\* The worker's first row is one of its batch (Cur).
LEMMA CurIn == ASSUME TypeOK, DOMAIN batch # {} PROVE Cur \in DOMAIN batch /\ Cur \in Ids
<1>1. DOMAIN batch \subseteq Nat /\ DOMAIN batch \subseteq Ids
  BY DEF TypeOK, Ids
<1>2. PICK x \in DOMAIN batch : \A y \in DOMAIN batch : ~(<<y, x>> \in OpToRel(<, Nat))
  BY <1>1, WFMin, NatLessThanWellFounded
<1>3. \A y \in DOMAIN batch : x <= y
  <2> SUFFICES ASSUME NEW y \in DOMAIN batch, y < x PROVE FALSE
    BY <1>1
  <2>1. <<y, x>> \in Nat \X Nat
    BY <1>1
  <2> QED
    BY <1>2, <2>1 DEF OpToRel
<1> QED
  BY <1>1, <1>3 DEF Cur

LEMMA InitInv == Init => IInv
<1> SUFFICES ASSUME Init PROVE IInv
  OBVIOUS
<1>1. TypeOK
  BY OutboxAssumption DEF Init, TypeOK, NoRow, Row, Kinds
<1> QED
  BY <1>1 DEF Init, IInv, BatchUnsent, OkMeansDelivered, SentMeansDelivered, Explained,
     Shown, NoRow, Ids

-----------------------------------------------------------------------------
(* Steps of others: the worker's batch and what was shown stay as they are *)

\* Rows change, but none becomes or ceases to be sent, and none disappears.
OthersMove ==
  /\ UNCHANGED <<batch, outcome, delivered, lost, crashes>>
  /\ \A r \in Ids : /\ rows'[r].done = "sent" <=> rows[r].done = "sent"
                    /\ rows'[r].done = "absent" => rows[r].done = "absent"

LEMMA OthersKeep == ASSUME IInv, TypeOK', OthersMove PROVE IInv'
<1> USE DEF IInv, OthersMove
<1>1. Cur' = Cur
  BY DEF Cur
<1>2. BatchUnsent'
  BY DEF BatchUnsent, TypeOK
<1>3. OkMeansDelivered' /\ SentMeansDelivered'
  BY <1>1 DEF OkMeansDelivered, SentMeansDelivered
<1>4. \A r \in Ids : Explained(r)'
  BY <1>1 DEF Explained, Shown
<1> QED
  BY <1>2, <1>3, <1>4

LEMMA EnqueueKeeps ==
  ASSUME IInv, NEW r \in Ids, NEW kind \in Kinds, Enqueue(r, kind)
  PROVE  IInv'
<1> DEFINE row == [NoRow EXCEPT !.kind = kind, !.done = "pending"]
<1>1. /\ rows[r].done = "absent" /\ rows' = [rows EXCEPT ![r] = row]
      /\ UNCHANGED <<gate_vars, ready, batch, outcome, delivered, lost, crashes>>
  BY DEF Enqueue, Ids
<1>2. row \in Row /\ row.done = "pending" /\ row.attempts = 0
  <2>1. 0 \in 0 .. MaxAttempts
    BY OutboxAssumption
  <2>2. NoRow \in Row /\ NoRow.attempts = 0
    BY <2>1 DEF NoRow, Row, Kinds
  <2> QED
    BY <2>2 DEF Row
<1> HIDE DEF row
<1>3. TypeOK'
  BY <1>1, <1>2, OutboxAssumption DEF IInv, TypeOK, gate_vars
<1>4. OthersMove
  BY <1>1, <1>2 DEF IInv, TypeOK, OthersMove
<1> QED
  BY <1>3, <1>4, OthersKeep

LEMMA DisableKeeps == ASSUME IInv, DisableBroadcasts PROVE IInv'
<1>1. \A r \in Ids : /\ rows'[r] \in Row /\ rows'[r].attempts = rows[r].attempts
                     /\ rows'[r].done = rows[r].done \/
                          (rows[r].done = "pending" /\ rows'[r].done = "cancelled")
  <2> TAKE r \in Ids
  <2>1. rows[r] \in Row
    BY DEF IInv, TypeOK
  <2>2. CASE rows[r].done = "pending" /\ rows[r].kind = "broadcast"
    <3>1. rows'[r] = [rows[r] EXCEPT !.done = "cancelled", !.empty = TRUE]
      BY <2>2 DEF DisableBroadcasts
    <3> QED
      BY <2>1, <2>2, <3>1 DEF Row
  <2>3. CASE ~(rows[r].done = "pending" /\ rows[r].kind = "broadcast")
    <3>1. rows'[r] = rows[r]
      BY <2>3 DEF DisableBroadcasts
    <3> QED
      BY <2>1, <3>1
  <2> QED
    BY <2>2, <2>3
<1>2. TypeOK'
  <2>1. rows' \in [Ids -> Row]
    BY <1>1 DEF DisableBroadcasts
  <2>2. \A r \in Ids : rows'[r].done = "pending" => rows'[r].attempts < MaxAttempts
    BY <1>1 DEF IInv, TypeOK
  <2> QED
    BY <2>1, <2>2 DEF IInv, TypeOK, DisableBroadcasts, gate_vars
<1>3. OthersMove
  BY <1>1 DEF OthersMove, DisableBroadcasts
<1> QED
  BY <1>2, <1>3, OthersKeep

LEMMA RetryKeeps ==
  ASSUME IInv, NEW r \in Ids, RetryOutbox(r) \/ BecomeDue(r)
  PROVE  IInv'
<1>1. rows[r] \in Row /\ UNCHANGED <<gate_vars, ready, batch, outcome, delivered,
                                     lost, crashes>>
  BY DEF IInv, TypeOK, RetryOutbox, BecomeDue
<1>2. /\ rows' \in [Ids -> Row] /\ \A q \in Ids \ {r} : rows'[q] = rows[q]
      /\ rows'[r].done = "pending" => rows'[r].attempts < MaxAttempts
      /\ rows'[r].done = rows[r].done \/ (rows[r].done = "dead" /\ rows'[r].done = "pending")
  <2>1. CASE RetryOutbox(r)
    <3> DEFINE row == [rows[r] EXCEPT !.done = "pending", !.attempts = 0, !.due = TRUE]
    <3>0. 0 \in 0 .. MaxAttempts /\ 0 < MaxAttempts
      BY OutboxAssumption
    <3>1. row \in Row /\ row.done = "pending" /\ row.attempts = 0
      BY <1>1, <3>0 DEF Row
    <3>2. rows' = [rows EXCEPT ![r] = row] /\ rows[r].done = "dead"
      BY <1>1, <2>1 DEF RetryOutbox, IInv, TypeOK
    <3> HIDE DEF row
    <3> QED
      BY <3>0, <3>1, <3>2 DEF IInv, TypeOK
  <2>2. CASE BecomeDue(r)
    <3> DEFINE row == [rows[r] EXCEPT !.due = TRUE]
    <3>1. row \in Row /\ row.done = rows[r].done /\ row.attempts = rows[r].attempts
      BY <1>1 DEF Row
    <3>2. rows' = [rows EXCEPT ![r] = row]
      BY <2>2 DEF BecomeDue
    <3> HIDE DEF row
    <3> QED
      BY <3>1, <3>2 DEF IInv, TypeOK
  <2> QED
    BY <2>1, <2>2
<1>3. TypeOK'
  BY <1>1, <1>2 DEF IInv, TypeOK, gate_vars
<1>4. OthersMove
  BY <1>1, <1>2 DEF IInv, TypeOK, OthersMove
<1> QED
  BY <1>3, <1>4, OthersKeep

LEMMA SwitchKeeps ==
  ASSUME IInv, \/ SwitchChannel \/ SwitchGate
               \/ \E r \in Ids : ShareContact(r)
               \/ UNCHANGED vars
  PROVE  IInv'
<1>1. TypeOK'
  BY DEF IInv, TypeOK, SwitchChannel, SwitchGate, ShareContact, vars, gate_vars
<1>2. OthersMove
  BY DEF OthersMove, SwitchChannel, SwitchGate, ShareContact, vars
<1> QED
  BY <1>1, <1>2, OthersKeep

-----------------------------------------------------------------------------
(* The worker *)

\* A loop begins with rows that are pending.
LEMMA FetchKeeps == ASSUME IInv, Fetch PROVE IInv'
<1> USE DEF IInv
<1>1. /\ DOMAIN batch = {} /\ outcome = "none"
      /\ UNCHANGED <<gate_vars, rows, ready, outcome, delivered, lost, crashes>>
  BY DEF Fetch, TypeOK
<1>2. /\ DOMAIN batch' \subseteq Ids
      /\ \A r \in DOMAIN batch' : batch'[r] = rows[r] /\ rows[r].done = "pending"
  BY DEF Fetch, Earliest, Sendable
<1>3. TypeOK'
  BY <1>1, <1>2 DEF TypeOK, gate_vars
<1>4. BatchUnsent'
  BY <1>1, <1>2 DEF BatchUnsent
<1>5. /\ OkMeansDelivered' /\ SentMeansDelivered'
      /\ \A r \in Ids : Explained(r)'
  BY <1>1 DEF OkMeansDelivered, SentMeansDelivered, Explained, Shown
<1> QED
  BY <1>3, <1>4, <1>5

\* The batch loses rows and nothing is left to record, while delivered stays
\* explained.
LEMMA BatchShrinks ==
  ASSUME IInv, TypeOK', outcome' = "none", delivered' = delivered,
         DOMAIN batch' \subseteq DOMAIN batch,
         \A r \in DOMAIN batch' : rows'[r] = rows[r],
         SentMeansDelivered', \A r \in Ids : Explained(r)'
  PROVE  IInv'
BY DEF IInv, BatchUnsent, OkMeansDelivered

LEMMA SkipKeeps == ASSUME IInv, Skip PROVE IInv'
<1> USE DEF IInv
<1>1. /\ outcome = "none" /\ batch' = Rest
      /\ UNCHANGED <<gate_vars, rows, ready, outcome, delivered, lost, crashes>>
  BY DEF Skip
<1>2. DOMAIN batch' \subseteq DOMAIN batch /\ \A r \in DOMAIN batch' : batch'[r] = batch[r]
  BY <1>1 DEF Rest
<1>3. TypeOK'
  BY <1>1, <1>2 DEF TypeOK, gate_vars
<1>4. SentMeansDelivered' /\ \A r \in Ids : Explained(r)'
  BY <1>1 DEF SentMeansDelivered, Explained, Shown
<1> QED
  BY <1>1, <1>2, <1>3, <1>4, BatchShrinks

LEMMA CrashKeeps == ASSUME IInv, Crash PROVE IInv'
<1> USE DEF IInv
<1>1. /\ batch' = <<>> /\ outcome' = "none" /\ crashes < MaxCrashes /\ crashes' = crashes + 1
      /\ UNCHANGED <<gate_vars, rows, ready, delivered, lost>>
  BY DEF Crash
<1>2. crashes' \in 0 .. MaxCrashes /\ lost \in Nat /\ crashes \in Nat
  BY <1>1, OutboxAssumption DEF TypeOK
<1>3. TypeOK'
  BY <1>1, <1>2 DEF TypeOK, gate_vars
<1>4. SentMeansDelivered'
  BY <1>1 DEF SentMeansDelivered
<1>5. ASSUME NEW r \in Ids PROVE Explained(r)'
  <2>1. delivered[r] \in Nat /\ delivered[r] <= 1 + lost + crashes
    BY DEF TypeOK, Explained
  <2> QED
    BY <1>1, <1>2, <2>1 DEF Explained
<1>6. DOMAIN batch' = {}
  BY <1>1
<1> QED
  BY <1>1, <1>3, <1>4, <1>5, <1>6, BatchShrinks

\* Telegram shows the row; when the answer is lost, that is the accident which
\* explains it.
LEMMA TransmitKeeps == ASSUME IInv, Transmit \/ TransmitFails PROVE IInv'
<1> USE DEF IInv
<1>1. /\ DOMAIN batch # {} /\ outcome = "none" /\ outcome' \in {"ok", "failed"}
      /\ UNCHANGED <<gate_vars, rows, ready, batch, crashes>>
      /\ \/ /\ delivered' = [delivered EXCEPT ![Cur] = @ + 1]
            /\ \/ outcome' = "ok" /\ lost' = lost
               \/ outcome' = "failed" /\ lost < MaxLost /\ lost' = lost + 1
         \/ outcome' = "failed" /\ UNCHANGED <<delivered, lost>>
  BY DEF Transmit, TransmitFails, Sending
<1>2. Cur \in DOMAIN batch /\ Cur \in Ids /\ Cur' = Cur
  <2>1. Cur' = Cur
    BY <1>1 DEF Cur
  <2> QED
    BY <1>1, <2>1, CurIn
<1> DEFINE x == Cur
<1> HIDE DEF x
<1>3. /\ delivered' \in [Ids -> Nat]
      /\ \A r \in Ids : \/ delivered'[r] = delivered[r]
                        \/ r = x /\ delivered'[r] = delivered[r] + 1
      /\ delivered \in [Ids -> Nat]
  <2>1. delivered[x] + 1 \in Nat /\ delivered \in [Ids -> Nat]
    BY <1>2 DEF TypeOK, x
  <2>2. CASE delivered' = delivered
    BY <2>1, <2>2
  <2>3. CASE delivered' = [delivered EXCEPT ![x] = delivered[x] + 1]
    BY <2>1, <2>3
  <2> QED
    BY <1>1, <2>2, <2>3 DEF x
<1>4. /\ lost' \in 0 .. MaxLost /\ lost \in Nat /\ crashes \in Nat
      /\ lost' = lost \/ lost' = lost + 1
  BY <1>1, OutboxAssumption DEF TypeOK
<1>5. TypeOK'
  BY <1>1, <1>3, <1>4 DEF TypeOK, gate_vars
<1>6. BatchUnsent'
  BY <1>1 DEF BatchUnsent
<1>7. OkMeansDelivered'
  <2>1. outcome' = "ok" => delivered'[x] = delivered[x] + 1
    BY <1>1, <1>2, <1>3 DEF x
  <2> QED
    BY <1>2, <1>3, <2>1 DEF OkMeansDelivered, x
<1>8. SentMeansDelivered'
  BY <1>1, <1>3 DEF SentMeansDelivered
<1>9. ASSUME NEW r \in Ids PROVE Explained(r)'
  <2>1. /\ delivered[r] <= 1 + lost + crashes
        /\ rows[r].done # "sent" => delivered[r] <= lost + crashes
        /\ delivered[r] \in Nat
    BY <1>1, <1>3 DEF Explained, Shown
  <2>2. CASE delivered'[r] = delivered[r]
    BY <1>1, <1>4, <2>1, <2>2 DEF Explained
  <2>3. CASE r = x /\ delivered'[r] = delivered[r] + 1
    <3>1. rows[r].done # "sent"
      BY <1>2, <2>3 DEF BatchUnsent, x
    <3>2. outcome' = "ok" \/ lost' = lost + 1
      BY <1>1, <1>3, <2>3, <2>1
    <3>3. CASE outcome' = "ok"
      BY <1>1, <1>2, <1>4, <2>1, <2>3, <3>1, <3>3 DEF Explained, Shown, x
    <3>4. CASE lost' = lost + 1
      BY <1>1, <1>4, <2>1, <2>3, <3>1, <3>4 DEF Explained
    <3> QED
      BY <3>2, <3>3, <3>4
  <2> QED
    BY <1>3, <2>2, <2>3
<1> QED
  BY <1>5, <1>6, <1>7, <1>8, <1>9

\* The outcome is recorded: only one that is known makes the row sent.
LEMMA RecordKeeps == ASSUME IInv, RecordSent \/ RecordFailure PROVE IInv'
<1> USE DEF IInv
<1> DEFINE x == Cur
<1>1. /\ outcome \in {"ok", "failed"} /\ batch' = Rest /\ outcome' = "none"
      /\ UNCHANGED <<gate_vars, ready, delivered, lost, crashes>>
  BY DEF RecordSent, RecordFailure, Proceed
<1>2. x \in DOMAIN batch /\ x \in Ids /\ rows[x] \in Row /\ batch[x] \in Row
      /\ batch[x].attempts < MaxAttempts
  BY <1>1, CurIn DEF TypeOK
<1>3. DOMAIN batch' = DOMAIN batch \ {x} /\ \A r \in DOMAIN batch' : batch'[r] = batch[r]
  BY <1>1 DEF Rest
<1>4. /\ rows' \in [Ids -> Row] /\ \A r \in Ids \ {x} : rows'[r] = rows[r]
      /\ rows'[x].done = "pending" => rows'[x].attempts < MaxAttempts
      /\ outcome = "ok" => rows'[x].done = "sent"
      /\ outcome # "ok" => rows'[x].done \in {"pending", "dead"}
  <2>1. CASE RecordSent
    <3> DEFINE row == [rows[x] EXCEPT !.done = "sent", !.empty = TRUE]
    <3>1. row \in Row /\ row.done = "sent"
      BY <1>2 DEF Row
    <3>2. rows' = [rows EXCEPT ![x] = row] /\ outcome = "ok"
      BY <1>2, <2>1 DEF RecordSent, TypeOK
    <3> HIDE DEF row
    <3> QED
      BY <1>2, <3>1, <3>2 DEF TypeOK
  <2>2. CASE RecordFailure
    <3> DEFINE attempts == batch[x].attempts + 1
               row == [rows[x] EXCEPT !.attempts = attempts, !.due = FALSE,
                         !.done = IF attempts >= MaxAttempts THEN "dead" ELSE "pending"]
    <3>1. attempts \in 0 .. MaxAttempts
      BY <1>2, OutboxAssumption DEF Row
    <3> HIDE DEF attempts
    <3>2. /\ row \in Row /\ row.attempts = attempts
          /\ row.done = IF attempts >= MaxAttempts THEN "dead" ELSE "pending"
      BY <1>2, <3>1 DEF Row
    <3>3. rows' = [rows EXCEPT ![x] = row] /\ outcome = "failed"
      BY <2>2 DEF RecordFailure, FailedRow, attempts
    <3> HIDE DEF row
    <3>4. rows' \in [Ids -> Row] /\ rows'[x] = row /\ \A r \in Ids \ {x} : rows'[r] = rows[r]
      BY <1>2, <3>2, <3>3 DEF TypeOK
    <3>5. ~(attempts >= MaxAttempts) => attempts < MaxAttempts
      BY <3>1, OutboxAssumption
    <3> QED
      BY <3>2, <3>3, <3>4, <3>5
  <2> QED
    BY <2>1, <2>2
<1> HIDE DEF x
<1>6. TypeOK'
  <2>1. \A r \in Ids : rows'[r].done = "pending" => rows'[r].attempts < MaxAttempts
    BY <1>4 DEF TypeOK
  <2> QED
    BY <1>1, <1>3, <1>4, <2>1 DEF TypeOK, gate_vars
<1>7. SentMeansDelivered'
  <2>1. rows'[x].done = "sent" => delivered[x] > 0
    BY <1>1, <1>4 DEF OkMeansDelivered, x
  <2> QED
    BY <1>1, <1>4, <2>1 DEF SentMeansDelivered
<1>8. ASSUME NEW r \in Ids PROVE Explained(r)'
  <2>1. CASE r = x
    BY <1>1, <1>2, <1>4, <2>1 DEF Explained, Shown, BatchUnsent
  <2>2. CASE r # x
    BY <1>1, <1>4, <2>2 DEF Explained, Shown, x
  <2> QED
    BY <2>1, <2>2
<1>9. \A r \in DOMAIN batch' : rows'[r] = rows[r]
  BY <1>3, <1>4 DEF TypeOK
<1> QED
  BY <1>1, <1>3, <1>6, <1>7, <1>8, <1>9, BatchShrinks

-----------------------------------------------------------------------------
LEMMA NextInv == IInv /\ [Next]_vars => IInv'
<1> SUFFICES ASSUME IInv, [Next]_vars PROVE IInv'
  OBVIOUS
<1>1. CASE Worker
  BY <1>1, FetchKeeps, SkipKeeps, TransmitKeeps, RecordKeeps DEF Worker
<1>2. ASSUME NEW r \in Ids, NEW kind \in Kinds, Enqueue(r, kind) PROVE IInv'
  BY <1>2, EnqueueKeeps
<1>3. ASSUME NEW r \in Ids, RetryOutbox(r) \/ BecomeDue(r) PROVE IInv'
  BY <1>3, RetryKeeps
<1> QED
  BY <1>1, <1>2, <1>3, DisableKeeps, SwitchKeeps, CrashKeeps DEF Next

\* docs/TELEGRAM_BOT_FA.md:162, for any number of rows, attempts and accidents:
\* the delivery loop of tick counts no failed message as sent, and repeats a
\* message only after a lost answer or its own death (runtime/sales_worker.py).
THEOREM OutboxDelivery == Spec => []DeliveryInv
<1>1. IInv => DeliveryInv
  BY DEF IInv, DeliveryInv, RepeatsExplained, Explained
<1> QED
  BY <1>1, InitInv, NextInv, PTL DEF Spec
=============================================================================
