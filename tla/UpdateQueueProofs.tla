------------------------- MODULE UpdateQueueProofs -------------------------
(***************************************************************************)
(* For every number of updates, limits and crashes: no update is lost but *)
(* those the code drops when a peer is not reached (NothingLost), none is  *)
(* handled twice (HandledOnce) and the table of updates says the truth     *)
(* (RecordIsTrue).                                                         *)
(*                                                                         *)
(* HandledOnce is not inductive by itself: that an update in hand has not  *)
(* been dealt with before follows from where it came from, a saved row     *)
(* that is not recorded (Disjoint, RetriesSaved) or a poll from the        *)
(* present offset, below which everything recorded or saved lies (Below).  *)
(***************************************************************************)
EXTENDS UpdateQueue, FiniteSetTheorems, TLAPS

\* A saved update is not recorded as dealt with.
Disjoint == updates \cap saved = {}

\* What the offset has passed is recorded or saved.
Kept == \A u \in UpdateIds : u < offset => u \in updates \cup saved

\* What is recorded or saved has been taken off the queue.
Below == \A u \in updates \cup saved : u < offset

\* A replay works on saved updates.
RetriesSaved == phase = "retry" => work \subseteq saved

\* A poll has in hand what it has not handled yet.
PollsFresh == phase = "poll" => \A u \in work : offset <= u /\ u <= inbox

\* ... without gaps, so that moving the offset to the next one skips none.
NoGap == phase = "poll" => \A u \in UpdateIds, v \in work : offset <= u /\ u <= v => u \in work

OffsetBound == offset <= inbox + 1

IInv == /\ QueueTypeOK /\ Kept /\ HandledOnce /\ RecordIsTrue
        /\ Disjoint /\ Below /\ RetriesSaved /\ PollsFresh /\ NoGap /\ OffsetBound

-----------------------------------------------------------------------------
\* A poll takes a piece of the queue without gaps (First, of Poll).
LEMMA FirstNoGap ==
  ASSUME MaxUpdates \in Nat, NEW n \in Nat, NEW S \in SUBSET UpdateIds,
         NEW u \in S, NEW v \in First(n, S), u <= v
  PROVE  u \in First(n, S)
<1> DEFINE Before(x) == {w \in S : w < x}
<1>1. IsFiniteSet(UpdateIds)
  BY FS_Interval DEF UpdateIds
<1>2. IsFiniteSet(Before(v))
  BY <1>1, FS_Subset
<1>3. Before(u) \subseteq Before(v)
  <2> SUFFICES ASSUME NEW w \in S, w < u PROVE w < v
    OBVIOUS
  <2>1. w \in Int /\ u \in Int /\ v \in Int
    BY DEF First, UpdateIds
  <2> QED
    BY <2>1
<1>4. /\ IsFiniteSet(Before(u))
      /\ Cardinality(Before(u)) <= Cardinality(Before(v))
  BY <1>2, <1>3, FS_Subset
<1>5. Cardinality(Before(u)) \in Nat /\ Cardinality(Before(v)) \in Nat
  BY <1>2, <1>4, FS_CardinalityType
<1>6. Cardinality(Before(v)) < n
  BY DEF First
<1> QED
  BY <1>4, <1>5, <1>6 DEF First

\* Every way to deal with an update keeps the bookkeeping in order: the
\* update in hand is new to the record, and moving the offset past it skips
\* nothing (HandleOk, HandleValueError, HandleException).
LEMMA HandledIsNew ==
  ASSUME IInv, NEW u \in UpdateIds, Current(u)
  PROVE  /\ u \notin updates
         /\ effects[u] = 0 /\ refusals[u] = "none"
         /\ phase = "retry" => u \in saved
         /\ phase = "poll" => /\ offset <= u /\ u <= inbox /\ u \notin saved
                              /\ \A x \in UpdateIds : offset <= x => u <= x
<1> USE DEF IInv, Current
<1>1. u \notin updates
  BY DEF Disjoint, RetriesSaved
<1>2. effects[u] = 0 /\ refusals[u] = "none"
  BY <1>1 DEF RecordIsTrue, QueueTypeOK
<1>3. phase = "retry" => u \in saved
  BY DEF RetriesSaved
<1>4. ASSUME phase = "poll"
      PROVE  offset <= u /\ u <= inbox /\ u \notin saved
  BY <1>4 DEF PollsFresh, Below, QueueTypeOK, UpdateIds
<1>5. ASSUME phase = "poll", NEW x \in UpdateIds, offset <= x
      PROVE  u <= x
  <2>1. CASE x <= u
    <3>1. x \in work
      BY <1>5, <2>1 DEF NoGap
    <3>2. x \notin updates
      BY <1>5 DEF Below, QueueTypeOK, UpdateIds
    <3> QED
      BY <1>5, <3>1, <3>2
  <2>2. CASE ~(x <= u)
    BY <2>2 DEF UpdateIds
  <2> QED
    BY <2>1, <2>2
<1> QED
  BY <1>1, <1>2, <1>3, <1>4, <1>5

\* The initial state satisfies the invariant.
LEMMA InitInv == QueueInit => IInv
BY UpdateQueueAssumption
   DEF QueueInit, IInv, QueueTypeOK, Kept, HandledOnce, RecordIsTrue, Disjoint, Below,
       RetriesSaved, PollsFresh, NoGap, OffsetBound, UpdateIds, Causes

\* What a step leaves of the queue and of the record once an update has left
\* the hand of the worker: shared by the three handlers.
LEMMA HandStep ==
  ASSUME IInv, MaxUpdates \in Nat, NEW u \in UpdateIds, Current(u), Advance(u),
         work' = work \ {u}, phase' = phase, inbox' = inbox,
         u \in updates' \cup saved',
         updates \subseteq updates' , updates' \subseteq updates \cup {u},
         saved \ {u} \subseteq saved', saved' \subseteq saved \cup {u}
  PROVE  /\ offset' \in 1 .. MaxUpdates + 1
         /\ Kept' /\ Below' /\ PollsFresh' /\ NoGap' /\ OffsetBound'
         /\ (phase = "retry" => work \subseteq saved)
<1> USE DEF IInv
<1>1. /\ phase \in {"retry", "poll"} /\ u \in work
      /\ phase = "poll" => /\ offset <= u /\ u <= inbox
                           /\ \A x \in UpdateIds : offset <= x => u <= x
  BY HandledIsNew DEF Current
<1>2. /\ offset \in 1 .. MaxUpdates + 1 /\ inbox \in 0 .. MaxUpdates /\ offset' \in 1 .. MaxUpdates + 1
      /\ phase = "poll" => offset' = u + 1
      /\ phase = "retry" => offset' = offset
      /\ updates \subseteq UpdateIds /\ saved \subseteq UpdateIds /\ work \subseteq UpdateIds
  BY <1>1 DEF QueueTypeOK, Advance, UpdateIds
<1>3. Kept'
  BY <1>1, <1>2 DEF Kept, UpdateIds
<1>4. Below'
  <2> SUFFICES ASSUME NEW x \in updates' \cup saved' PROVE x < offset'
    BY DEF Below
  <2>1. CASE phase = "poll"
    BY <1>1, <1>2, <2>1 DEF Below, UpdateIds
  <2>2. CASE phase = "retry"
    BY <1>1, <1>2, <2>2 DEF Below, UpdateIds, RetriesSaved
  <2> QED
    BY <1>1, <2>1, <2>2
<1>5. PollsFresh'
  BY <1>1, <1>2 DEF PollsFresh, UpdateIds
<1>6. NoGap'
  BY <1>1, <1>2 DEF NoGap, UpdateIds
<1>7. OffsetBound'
  BY <1>1, <1>2 DEF OffsetBound, UpdateIds
<1> QED
  BY <1>2, <1>3, <1>4, <1>5, <1>6, <1>7 DEF RetriesSaved

\* Every step keeps the invariant.
LEMMA NextInv == IInv /\ [QueueNext]_queue_vars => IInv'
<1> SUFFICES ASSUME IInv, [QueueNext]_queue_vars PROVE IInv'
  OBVIOUS
<1> USE UpdateQueueAssumption DEF IInv
<1>1. CASE Arrive
  BY <1>1 DEF Arrive, QueueTypeOK, Kept, HandledOnce, RecordIsTrue, Disjoint, Below,
              RetriesSaved, PollsFresh, NoGap, OffsetBound, UpdateIds, Causes
<1>2. ASSUME NEW u \in UpdateIds, FallDue(u) PROVE IInv'
  BY <1>2 DEF FallDue, QueueTypeOK, Kept, HandledOnce, RecordIsTrue, Disjoint, Below,
              RetriesSaved, PollsFresh, NoGap, OffsetBound, UpdateIds, Causes
<1>3. ASSUME NEW S \in SUBSET due, BeginRetry(S) PROVE IInv'
  BY <1>3 DEF BeginRetry, QueueTypeOK, Kept, HandledOnce, RecordIsTrue, Disjoint, Below,
              RetriesSaved, PollsFresh, NoGap, OffsetBound, UpdateIds, Causes
<1>4. CASE Poll
  <2>1. First(PollLimit, Waiting) \subseteq Waiting /\ Waiting \subseteq UpdateIds
    BY DEF First, Waiting
  <2>2. \A u \in UpdateIds, v \in First(PollLimit, Waiting) :
          offset <= u /\ u <= v => u \in First(PollLimit, Waiting)
    <3> SUFFICES ASSUME NEW u \in UpdateIds, NEW v \in First(PollLimit, Waiting), offset <= u, u <= v
                 PROVE  u \in First(PollLimit, Waiting)
      OBVIOUS
    <3>1. u \in Waiting
      BY <2>1 DEF Waiting, QueueTypeOK, UpdateIds
    <3> QED
      BY <2>1, <3>1, FirstNoGap
  <2>3. NoGap' /\ PollsFresh'
    BY <1>4, <2>1, <2>2 DEF Poll, NoGap, PollsFresh, Waiting
  <2> QED
    BY <1>4, <2>1, <2>3 DEF Poll, QueueTypeOK, Kept, HandledOnce, RecordIsTrue, Disjoint,
                            Below, RetriesSaved, OffsetBound, UpdateIds, Causes
<1>5. CASE EndTick
  BY <1>5 DEF EndTick, QueueTypeOK, Kept, HandledOnce, RecordIsTrue, Disjoint, Below,
              RetriesSaved, PollsFresh, NoGap, OffsetBound, UpdateIds, Causes
<1>6. ASSUME NEW u \in UpdateIds, HandleOk(u) PROVE IInv'
  <2>1. u \notin updates /\ effects[u] = 0 /\ refusals[u] = "none"
    BY <1>6, HandledIsNew DEF HandleOk
  <2>2. /\ offset' \in 1 .. MaxUpdates + 1
        /\ Kept' /\ Below' /\ PollsFresh' /\ NoGap' /\ OffsetBound'
        /\ (phase = "retry" => work \subseteq saved)
    BY <1>6, HandStep DEF HandleOk, Record
  <2>3. QueueTypeOK' /\ Disjoint' /\ RetriesSaved'
    BY <1>6, <2>2 DEF HandleOk, Record, QueueTypeOK, Disjoint, RetriesSaved
  <2>4. HandledOnce' /\ RecordIsTrue'
    BY <1>6, <2>1 DEF HandleOk, Record, QueueTypeOK, HandledOnce, RecordIsTrue
  <2> QED
    BY <2>2, <2>3, <2>4
<1>7. ASSUME NEW u \in UpdateIds, NEW cause \in Causes, HandleValueError(u, cause) PROVE IInv'
  <2>1. u \notin updates /\ effects[u] = 0 /\ refusals[u] = "none"
    BY <1>7, HandledIsNew DEF HandleValueError
  <2>2. /\ offset' \in 1 .. MaxUpdates + 1
        /\ Kept' /\ Below' /\ PollsFresh' /\ NoGap' /\ OffsetBound'
        /\ (phase = "retry" => work \subseteq saved)
    BY <1>7, HandStep DEF HandleValueError, Record
  <2>3. QueueTypeOK' /\ Disjoint' /\ RetriesSaved'
    BY <1>7, <2>2 DEF HandleValueError, Record, QueueTypeOK, Disjoint, RetriesSaved
  <2>4. HandledOnce' /\ RecordIsTrue'
    BY <1>7, <2>1 DEF HandleValueError, Record, QueueTypeOK, HandledOnce, RecordIsTrue, Causes
  <2> QED
    BY <2>2, <2>3, <2>4
<1>8. ASSUME NEW u \in UpdateIds, HandleException(u) PROVE IInv'
  <2>1. u \notin updates
    BY <1>8, HandledIsNew DEF HandleException
  <2>2. /\ offset' \in 1 .. MaxUpdates + 1
        /\ Kept' /\ Below' /\ PollsFresh' /\ NoGap' /\ OffsetBound'
        /\ (phase = "retry" => work \subseteq saved)
    BY <1>8, HandStep DEF HandleException
  <2>3. QueueTypeOK' /\ Disjoint' /\ RetriesSaved'
    BY <1>8, <2>1, <2>2 DEF HandleException, QueueTypeOK, Disjoint, RetriesSaved
  <2>4. HandledOnce' /\ RecordIsTrue'
    BY <1>8 DEF HandleException, HandledOnce, RecordIsTrue
  <2> QED
    BY <2>2, <2>3, <2>4
<1>9. CASE Die
  BY <1>9 DEF Die, QueueTypeOK, Kept, HandledOnce, RecordIsTrue, Disjoint, Below,
              RetriesSaved, PollsFresh, NoGap, OffsetBound, UpdateIds, Causes
<1>10. CASE UNCHANGED queue_vars
  BY <1>10 DEF queue_vars, QueueTypeOK, Kept, HandledOnce, RecordIsTrue, Disjoint, Below,
               RetriesSaved, PollsFresh, NoGap, OffsetBound, UpdateIds, Causes
<1> QED
  BY <1>1, <1>2, <1>3, <1>4, <1>5, <1>6, <1>7, <1>8, <1>9, <1>10 DEF QueueNext, Intake, Handle

\* The invariant holds throughout.
THEOREM QueueInvariant == QueueSpec => []IInv
BY InitInv, NextInv, PTL DEF QueueSpec

\* Types are kept in every behaviour of the queue (tick, retry_failed_updates).
THEOREM QueueTypes == QueueSpec => []QueueTypeOK
<1>1. IInv => QueueTypeOK
  BY DEF IInv
<1> QED
  BY <1>1, QueueInvariant, PTL

\* However many updates, crashes and failures: moving the offset never makes
\* Telegram forget an update that neither took effect nor was refused nor is saved,
\* but for those whose handler did not reach a peer, which tick drops.
THEOREM NoUpdateLost == QueueSpec => []NothingLost
<1>1. IInv => NothingLost
  BY DEF IInv, QueueTypeOK, Kept, RecordIsTrue, NothingLost, Settled, Dropped, Causes
<1> QED
  BY <1>1, QueueInvariant, PTL

\* A handler is committed at most once for an update, and not after its user
\* was told that the update is dropped.
THEOREM NoUpdateRepeated == QueueSpec => []HandledOnce
<1>1. IInv => HandledOnce
  BY DEF IInv
<1> QED
  BY <1>1, QueueInvariant, PTL

\* The table of updates names exactly those that took effect or were refused.
THEOREM RecordTrue == QueueSpec => []RecordIsTrue
<1>1. IInv => RecordIsTrue
  BY DEF IInv
<1> QED
  BY <1>1, QueueInvariant, PTL
=============================================================================
