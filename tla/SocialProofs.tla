---------------------------- MODULE SocialProofs ----------------------------
(***************************************************************************)
(* Conversations of the social club, for any number of users, prices and   *)
(* edits: queue, conversations, prompts and points stay in step (ClubInv), *)
(* nobody talks across a block, whoever is connected pays what was         *)
(* registered for him, nobody who fits is left waiting, and the club       *)
(* implements Matching.                                                    *)
(*                                                                         *)
(* All but the prices depend on one thing: what a step does to the queue   *)
(* and to the conversations.  The handlers do one of five things to them   *)
(* (ChatSteps); the rest of what they change is looked at only where a     *)
(* property speaks of it.                                                  *)
(*                                                                         *)
(* The last part is about the media library: its tables agree, points keep *)
(* the daily limits, and what was decided about a file stands.             *)
(***************************************************************************)
EXTENDS Community, Sums, SequenceTheorems, TLAPS

-----------------------------------------------------------------------------
(* Rows of the queue that stay                                             *)

\* A finite set of numbers can be counted through from below: the number of an
\* element is how many are not above it.
LEMMA Enumeration ==
  ASSUME NEW K \in SUBSET Nat, IsFiniteSet(K)
  PROVE  \E f \in [1 .. Cardinality(K) -> K] : \A m, n \in DOMAIN f : m < n => f[m] < f[n]
<1> DEFINE n == Cardinality(K)
           Upto(k) == {i \in K : i <= k}
           rank == [k \in K |-> Cardinality(Upto(k))]
<1>1. n \in Nat
  BY FS_CardinalityType
<1>2. \A k \in K : /\ IsFiniteSet(Upto(k)) /\ Cardinality(Upto(k)) \in 1 .. n
  <2> TAKE k \in K
  <2>1. Upto(k) \in SUBSET K /\ k \in Upto(k)
    OBVIOUS
  <2>2. IsFiniteSet(Upto(k)) /\ Cardinality(Upto(k)) <= n
    BY <2>1, FS_Subset
  <2>3. Cardinality(Upto(k)) \in Nat /\ Cardinality(Upto(k)) # 0
    BY <2>1, <2>2, FS_CardinalityType, FS_EmptySet
  <2> QED
    BY <1>1, <2>2, <2>3
<1>3. \A j, k \in K : j < k => rank[j] < rank[k]
  <2> SUFFICES ASSUME NEW j \in K, NEW k \in K, j < k PROVE Cardinality(Upto(j)) < Cardinality(Upto(k))
    OBVIOUS
  <2>1. j \in Nat /\ k \in Nat /\ \A i \in K : i \in Nat
    OBVIOUS
  <2>2. Upto(j) \in SUBSET Upto(k) /\ k \in Upto(k) /\ k \notin Upto(j)
    <3>1. Upto(j) \subseteq Upto(k)
      <4> SUFFICES ASSUME NEW i \in K, i <= j PROVE i <= k
        OBVIOUS
      <4> QED
        BY <2>1
    <3>2. k \in Upto(k) /\ k \notin Upto(j)
      BY <2>1
    <3> QED
      BY <3>1, <3>2
  <2>3. /\ Cardinality(Upto(j)) <= Cardinality(Upto(k))
        /\ Cardinality(Upto(j)) # Cardinality(Upto(k))
    BY <1>2, <2>2, FS_Subset
  <2> QED
    BY <1>1, <1>2, <2>3
<1>4. rank \in [K -> 1 .. n]
  BY <1>2
<1> HIDE DEF rank, Upto
<1>5. rank \in Injection(K, 1 .. n)
  <2>1. \A j, k \in K : rank[j] = rank[k] => j = k
    <3> TAKE j, k \in K
    <3>1. j \in Nat /\ k \in Nat /\ rank[j] \in Nat /\ rank[k] \in Nat
      BY <1>4
    <3> QED
      BY <1>3, <3>1
  <2> QED
    BY <1>4, <2>1 DEF Injection, IsInjective
<1>6. rank \in Surjection(K, 1 .. n)
  <2>1. IsFiniteSet(1 .. n) /\ Cardinality(1 .. n) = n
    BY <1>1, FS_Interval
  <2> QED
    BY <1>5, <2>1, FS_Injection
<1>7. PICK f : f = [m \in 1 .. n |-> CHOOSE k \in K : rank[k] = m]
  OBVIOUS
<1>8. \A m \in 1 .. n : f[m] \in K /\ rank[f[m]] = m
  BY <1>6, <1>7 DEF Surjection
<1>9. f \in [1 .. n -> K]
  BY <1>7, <1>8
<1>10. \A l, m \in 1 .. n : l < m => f[l] < f[m]
  <2> SUFFICES ASSUME NEW l \in 1 .. n, NEW m \in 1 .. n, l < m, ~(f[l] < f[m]) PROVE FALSE
    OBVIOUS
  <2>1. f[l] \in K /\ f[m] \in K /\ f[l] \in Nat /\ f[m] \in Nat /\ rank[f[l]] = l /\ rank[f[m]] = m
    BY <1>8
  <2>2. f[l] = f[m] \/ f[m] < f[l]
    BY <2>1
  <2> QED
    BY <1>3, <2>1, <2>2
<1> QED
  BY <1>9, <1>10

Row == [user : Users, mode : Modes, price : Prices \cup {0}]

\* The rows of `new' are rows of the queue and in its order.
Among(new) ==
  /\ new \in Seq(Row)
  /\ \A m \in DOMAIN new : \E k \in DOMAIN queue : new[m] = queue[k]
  /\ \A m, n \in DOMAIN new : m < n =>
       \E k, l \in DOMAIN queue : k < l /\ new[m] = queue[k] /\ new[n] = queue[l]

\* The rows that are kept are rows of the queue, in their order (Kept).
LEMMA KeptAmong ==
  ASSUME queue \in Seq(Row), NEW K \in SUBSET DOMAIN queue
  PROVE  /\ Among(Kept(K))
         /\ \A m \in DOMAIN Kept(K) : \E k \in K : Kept(K)[m] = queue[k]
<1>1. /\ Len(queue) \in Nat /\ DOMAIN queue = 1 .. Len(queue)
      /\ \A k \in DOMAIN queue : queue[k] \in Row
  BY LenProperties
<1>2. K \in SUBSET Nat /\ IsFiniteSet(K) /\ Cardinality(K) \in Nat
  <2>1. IsFiniteSet(1 .. Len(queue)) /\ K \in SUBSET (1 .. Len(queue)) /\ 1 .. Len(queue) \subseteq Nat
    BY <1>1, FS_Interval
  <2>2. IsFiniteSet(K) /\ K \in SUBSET Nat
    BY <2>1, FS_Subset
  <2> QED
    BY <2>2, FS_CardinalityType
<1> DEFINE at == CHOOSE f \in [1 .. Cardinality(K) -> K] : \A m, n \in DOMAIN f : m < n => f[m] < f[n]
<1>3. at \in [1 .. Cardinality(K) -> K] /\ \A m, n \in DOMAIN at : m < n => at[m] < at[n]
  BY <1>2, Enumeration
<1>4. Kept(K) = [m \in 1 .. Cardinality(K) |-> queue[at[m]]]
  BY DEF Kept
<1> HIDE DEF at
<1>5. DOMAIN Kept(K) = 1 .. Cardinality(K) /\ DOMAIN at = 1 .. Cardinality(K)
  BY <1>3, <1>4
<1>6. \A m \in 1 .. Cardinality(K) : at[m] \in K /\ Kept(K)[m] = queue[at[m]]
  BY <1>3, <1>4
<1>7. Kept(K) \in [1 .. Cardinality(K) -> Row]
  BY <1>1, <1>3, <1>4
<1>8. Kept(K) \in Seq(Row)
  BY <1>2, <1>7, SeqDef
<1>9. \A m, n \in 1 .. Cardinality(K) : m < n =>
        \E k, l \in DOMAIN queue : k < l /\ Kept(K)[m] = queue[k] /\ Kept(K)[n] = queue[l]
  <2> TAKE m, n \in 1 .. Cardinality(K)
  <2> HAVE m < n
  <2>1. at[m] < at[n] /\ at[m] \in DOMAIN queue /\ at[n] \in DOMAIN queue
    BY <1>3, <1>5, <1>6
  <2> QED
    BY <1>6, <2>1
<1>10. \A m \in DOMAIN Kept(K) : \E k \in K : Kept(K)[m] = queue[k]
  BY <1>5, <1>6
<1> QED
  BY <1>5, <1>8, <1>9, <1>10 DEF Among

LEMMA WithoutAmong ==
  ASSUME queue \in Seq(Row), NEW us
  PROVE  Among(Without(us)) /\ \A m \in DOMAIN Without(us) : Without(us)[m].user \notin us
BY KeptAmong DEF Without

-----------------------------------------------------------------------------
(* The invariant of the two tables, and what steps do to them              *)

Prompts == {Blank, Waiting, Other} \cup {Chat(t) : t \in SUBSET Users}

Couples(convs) == \A t \in convs : \E u, v \in Users : u # v /\ t = {u, v}

TypeInv ==
  /\ TypeOK /\ Couples(pairs)
  /\ queue \in Seq(Row) /\ prompt \in [Users -> Prompts]
  /\ \A q \in quotes \cup invites : q.by # q.to
  /\ \A u \in Users : <<u, u>> \notin blocks

\* OnePlaceEach, without counting.
Apart ==
  /\ \A i, j \in DOMAIN queue : queue[i].user = queue[j].user => i = j
  /\ \A s, t \in pairs : s \cap t # {} => s = t
  /\ \A i \in DOMAIN queue, t \in pairs : queue[i].user \notin t

\* u leaves queue and conversation.
Departs(u) ==
  /\ Among(queue') /\ \A m \in DOMAIN queue' : queue'[m].user # u
  /\ pairs' = Closed({u})
  /\ \A v \in Users \ {u} : prompt'[v] = prompt[v]

\* Of the others, those in `gone' lost their place in the queue.
Others(us, gone) ==
  \A v \in Users \ us : \/ prompt'[v] = prompt[v]
                        \/ v \in gone /\ prompt'[v] = Blank /\ ActiveChat(v) = {}

\* u found nobody and waits; those of whom he saw that they cannot pay do not.
Waits(u, mode, gone) ==
  /\ StartMatching(u, mode) /\ Hits(u, mode) = {} /\ gone = Broke(u, mode)
  /\ \E rest : /\ Among(rest) /\ \A m \in DOMAIN rest : rest[m].user \notin {u} \cup gone
               /\ queue' = Append(rest, [user |-> u, mode |-> mode, price |-> ChatCost(u, mode)])
  /\ pairs' = Closed({u})
  /\ prompt'[u] = Waiting /\ Others({u}, gone)

\* u, who leaves the conversation he had, is brought together with v, who had
\* none, unless it was the same.
Joined(u, v, gone) ==
  /\ u # v /\ ~Blocked(u, v) /\ ActiveChat(v) \subseteq ActiveChat(u)
  /\ Among(queue') /\ \A m \in DOMAIN queue' : queue'[m].user \notin {u, v} \cup gone
  /\ pairs' = Closed({u}) \cup {{u, v}}
  /\ prompt'[u] = Chat({u, v}) /\ prompt'[v] = Chat({u, v}) /\ Others({u, v}, gone)

ChatSteps ==
  \/ UNCHANGED <<queue, pairs, prompt>>
  \/ UNCHANGED <<queue, pairs>>
     /\ \E u \in Users : prompt'[u] = Other /\ \A v \in Users \ {u} : prompt'[v] = prompt[v]
  \/ \E u \in Users : Departs(u)
  \/ \E u \in Users, mode \in Modes, gone \in SUBSET Users : Waits(u, mode, gone)
  \/ \E u, v \in Users, gone \in SUBSET Users : Joined(u, v, gone)

-----------------------------------------------------------------------------
LEMMA PromptTypes ==
  /\ Blank \in Prompts /\ Waiting \in Prompts /\ Other \in Prompts
  /\ \A u, v \in Users : Chat({u, v}) \in Prompts
BY DEF Prompts

\* Every button that is no button of a conversation (Pressed), and leaving.
LEMMA LeaveDeparts ==
  ASSUME TypeInv, NEW u \in Users, Leave({u}), \A v \in Users \ {u} : prompt'[v] = prompt[v]
  PROVE  Departs(u)
BY WithoutAmong DEF Leave, Departs, TypeInv

LEMMA SayType ==
  ASSUME TypeInv, NEW u \in Users, NEW p \in Prompts, Say(u, p)
  PROVE  /\ prompt' \in [Users -> Prompts] /\ prompt'[u] = p
         /\ \A v \in Users \ {u} : prompt'[v] = prompt[v]
BY DEF TypeInv, Say

LEMMA QueueSelf == queue \in Seq(Row) => Among(queue)
BY LenProperties DEF Among

LEMMA PressedDeparts ==
  ASSUME TypeInv, NEW u \in Users, Pressed(u)
  PROVE  Departs(u) /\ prompt' \in [Users -> Prompts]
<1>1. CASE Busy(u)
  <2>1. /\ prompt' \in [Users -> Prompts] /\ \A v \in Users \ {u} : prompt'[v] = prompt[v]
    BY <1>1, SayType, PromptTypes DEF Pressed
  <2> QED
    BY <1>1, <2>1, LeaveDeparts DEF Pressed
<1>2. CASE ~Busy(u)
  <2>1. UNCHANGED <<queue, pairs, prompt>>
    BY <1>2 DEF Pressed
  <2>2. pairs = Closed({u})
    BY <1>2 DEF Busy, ActiveChat, Closed
  <2>3. \A m \in DOMAIN queue : queue[m].user # u
    BY <1>2 DEF Busy, Queued
  <2>4. Among(queue) /\ prompt \in [Users -> Prompts]
    BY QueueSelf DEF TypeInv
  <2> QED
    BY <2>1, <2>2, <2>3, <2>4 DEF Departs, Among
<1> QED
  BY <1>1, <1>2

\* Prices are those of the tariff, or nothing for an administrator.
LEMMA CostType ==
  ASSUME TypeOK, NEW u \in Users, NEW route \in Routes
  PROVE  ChatCost(u, route) \in Prices \cup {0}
<1>1. tariff \in [Routes -> Prices] /\ "found" \in Routes /\ "direct" \in Routes
  BY DEF TypeOK, Routes
<1> QED
  BY <1>1 DEF ChatCost

\* What a search finds.
LEMMA CandidateFacts ==
  ASSUME TypeInv, NEW u \in Users, NEW mode \in Modes, NEW k \in Candidates(u, mode)
  PROVE  /\ k \in DOMAIN queue /\ queue[k] \in Row /\ queue[k].mode = mode /\ queue[k].user \in Users
         /\ queue[k].user # u /\ ActiveChat(queue[k].user) = {} /\ ~Blocked(u, queue[k].user)
<1>1. k \in DOMAIN queue /\ queue[k] \in Row
  BY DEF TypeInv, TypeOK, Row, Candidates, Waiters
<1>2. /\ queue[k].user # u /\ ActiveChat(queue[k].user) = {} /\ ~Blocked(u, queue[k].user)
      /\ queue[k].mode = mode
  BY DEF Candidates, Waiters
<1> QED
  BY <1>1, <1>2 DEF Row

LEMMA FirstHit ==
  ASSUME TypeInv, NEW u \in Users, NEW mode \in Modes, Hits(u, mode) # {}
  PROVE  /\ Min(Hits(u, mode)) \in Hits(u, mode)
         /\ \A h \in Hits(u, mode) : Min(Hits(u, mode)) <= h
<1>1. Hits(u, mode) \in SUBSET Nat
  <2>1. DOMAIN queue \subseteq Nat
    BY LenProperties DEF TypeInv
  <2> QED
    BY <2>1 DEF Hits, Candidates, Waiters
<1>2. PICK m \in Hits(u, mode) : \A h \in Hits(u, mode) : <<h, m>> \notin OpToRel(<, Nat)
  BY <1>1, NatLessThanWellFounded, WFMin
<1>3. \A h \in Hits(u, mode) : m <= h
  <2> TAKE h \in Hits(u, mode)
  <2>1. m \in Nat /\ h \in Nat
    BY <1>1
  <2>2. ~(h < m)
    BY <1>2, <2>1 DEF OpToRel
  <2> QED
    BY <2>1, <2>2
<1> QED
  BY <1>3, Zenon DEF Min

LEMMA BrokeFacts ==
  ASSUME TypeInv, NEW u \in Users, NEW mode \in Modes
  PROVE  /\ Broke(u, mode) \in SUBSET Users /\ u \notin Broke(u, mode)
         /\ \A w \in Broke(u, mode) : ActiveChat(w) = {}
<1> SUFFICES ASSUME NEW w \in Broke(u, mode) PROVE w \in Users /\ w # u /\ ActiveChat(w) = {}
  OBVIOUS
<1>1. PICK k \in Candidates(u, mode) : w = queue[k].user
  BY DEF Broke
<1> QED
  BY <1>1, CandidateFacts

\* A search that finds nobody.
LEMMA StartWaits ==
  ASSUME TypeInv, NEW u \in Users, NEW mode \in Modes, StartMatching(u, mode), Hits(u, mode) = {}
  PROVE  /\ Waits(u, mode, Broke(u, mode)) /\ prompt' \in [Users -> Prompts]
         /\ UNCHANGED <<people_vars, tariff, ask_vars, points>>
<1> DEFINE gone == Broke(u, mode)
           row == [user |-> u, mode |-> mode, price |-> ChatCost(u, mode)]
           blanked == [w \in Users |-> IF w \in gone THEN Blank ELSE prompt[w]]
<1>1. /\ queue' = Append(Without({u} \cup gone), row)
      /\ pairs' = Closed({u})
      /\ prompt' = [blanked EXCEPT ![u] = Waiting]
      /\ UNCHANGED <<people_vars, tariff, ask_vars, points>>
  BY DEF StartMatching
<1>2. /\ Among(Without({u} \cup gone))
      /\ \A m \in DOMAIN Without({u} \cup gone) : Without({u} \cup gone)[m].user \notin {u} \cup gone
  BY WithoutAmong DEF TypeInv
<1>3. \A w \in gone : ActiveChat(w) = {}
  BY BrokeFacts
<1> HIDE DEF gone
<1>4. prompt \in [Users -> Prompts]
  BY DEF TypeInv
<1>5. blanked \in [Users -> Prompts]
  BY <1>4, PromptTypes
<1>6. prompt' \in [Users -> Prompts] /\ prompt'[u] = Waiting
  BY <1>1, <1>5, PromptTypes
<1>7. \A v \in Users \ {u} : prompt'[v] = IF v \in gone THEN Blank ELSE prompt[v]
  BY <1>1
<1>8. Others({u}, gone)
  BY <1>3, <1>7 DEF Others
<1>9. Waits(u, mode, gone)
  BY <1>1, <1>2, <1>6, <1>8 DEF Waits, gone
<1> QED
  BY <1>1, <1>6, <1>9 DEF gone

\* A search that finds somebody.
LEMMA StartJoins ==
  ASSUME TypeInv, NEW u \in Users, NEW mode \in Modes, StartMatching(u, mode), Hits(u, mode) # {}
  PROVE  /\ prompt' \in [Users -> Prompts]
         /\ UNCHANGED <<people_vars, tariff, ask_vars>>
         /\ \E k \in Hits(u, mode) :
              /\ Joined(u, queue[k].user, Broke(u, mode))
              /\ points' = [points EXCEPT ![u] = @ - Charge(u, ChatCost(u, mode)),
                                          ![queue[k].user] = @ - Charge(queue[k].user, queue[k].price)]
<1> DEFINE gone == Broke(u, mode)
           k == Min(Hits(u, mode))
           v == queue[k].user
           blanked == [w \in Users |-> IF w \in gone THEN Blank ELSE prompt[w]]
<1>1. /\ Open(u, v, ChatCost(u, mode), queue[k].price, {u, v} \cup gone, {u})
      /\ prompt' = [w \in Users |-> IF w \in {u, v} THEN Chat({u, v}) ELSE blanked[w]]
      /\ UNCHANGED <<people_vars, tariff, ask_vars>>
  BY DEF StartMatching
<1>2. k \in Hits(u, mode)
  BY FirstHit
<1>3. k \in Candidates(u, mode)
  BY <1>2 DEF Hits
<1> HIDE DEF k
<1>4. v \in Users /\ u # v /\ ActiveChat(v) = {} /\ ~Blocked(u, v)
  BY <1>3, CandidateFacts
<1> HIDE DEF v
<1>5. \A w \in gone : ActiveChat(w) = {}
  BY BrokeFacts
<1>6. /\ Among(Without({u, v} \cup gone))
      /\ \A m \in DOMAIN Without({u, v} \cup gone) : Without({u, v} \cup gone)[m].user \notin {u, v} \cup gone
  BY WithoutAmong DEF TypeInv
<1> HIDE DEF gone
<1>7. prompt \in [Users -> Prompts]
  BY DEF TypeInv
<1>8. blanked \in [Users -> Prompts]
  BY <1>7, PromptTypes
<1>9. prompt' \in [Users -> Prompts] /\ prompt'[u] = Chat({u, v}) /\ prompt'[v] = Chat({u, v})
  BY <1>1, <1>4, <1>8, PromptTypes
<1>10. \A w \in Users \ {u, v} : prompt'[w] = IF w \in gone THEN Blank ELSE prompt[w]
  BY <1>1
<1>11. Others({u, v}, gone)
  BY <1>5, <1>10 DEF Others
<1>12. Joined(u, v, gone)
  BY <1>1, <1>4, <1>6, <1>9, <1>11 DEF Joined, Open
<1>13. points' = [points EXCEPT ![u] = @ - Charge(u, ChatCost(u, mode)), ![v] = @ - Charge(v, queue[k].price)]
  BY <1>1 DEF Open
<1> QED
  BY <1>1, <1>2, <1>9, <1>12, <1>13 DEF v, gone

\* An invitation that is accepted: whoever accepts may leave a conversation,
\* whoever asked is free.
LEMMA AcceptJoins ==
  ASSUME TypeInv, NEW i \in invites, AcceptFriend(i)
  PROVE  /\ i.by \in Users /\ i.to \in Users /\ i.by # i.to /\ prompt' \in [Users -> Prompts]
         /\ Joined(i.to, i.by, {})
         /\ points' = [points EXCEPT ![i.by] = @ - Charge(i.by, i.price), ![i.to] = @ - Charge(i.to, 0)]
<1>1. i.by \in Users /\ i.to \in Users /\ i.by # i.to
  BY DEF TypeInv, TypeOK
<1>2. PICK u : u = i.to
  OBVIOUS
<1>3. PICK v : v = i.by
  OBVIOUS
<1>4. u \in Users /\ v \in Users /\ u # v
  BY <1>1, <1>2, <1>3
<1>5. /\ ~Blocked(v, u) /\ ActiveChat(v) \subseteq ActiveChat(u)
      /\ Open(v, u, i.price, 0, {v, u}, {v, u})
      /\ prompt' = [prompt EXCEPT ![v] = Chat({v, u}), ![u] = Chat({v, u})]
  BY <1>2, <1>3 DEF AcceptFriend
<1>6. {v, u} = {u, v} /\ ~Blocked(u, v)
  BY <1>5 DEF Blocked
<1>7. Closed({u, v}) = Closed({u})
  BY <1>5 DEF Closed, ActiveChat
<1>8. /\ Among(Without({u, v}))
      /\ \A m \in DOMAIN Without({u, v}) : Without({u, v})[m].user \notin {u, v}
  BY WithoutAmong DEF TypeInv
<1>9. prompt \in [Users -> Prompts] /\ Chat({u, v}) \in Prompts
  BY <1>4, PromptTypes DEF TypeInv
<1>10. PICK p : p = Chat({u, v})
  OBVIOUS
<1>11. prompt' = [prompt EXCEPT ![v] = p, ![u] = p]
  BY <1>5, <1>6, <1>10
<1>12. /\ prompt' \in [Users -> Prompts] /\ prompt'[u] = p /\ prompt'[v] = p
       /\ \A w \in Users \ {u, v} : prompt'[w] = prompt[w]
  BY <1>4, <1>9, <1>10, <1>11
<1>13. queue' = Without({u, v}) /\ pairs' = Closed({u}) \cup {{u, v}}
  BY <1>5, <1>6, <1>7 DEF Open
<1>14. Joined(u, v, {})
  BY <1>4, <1>5, <1>6, <1>8, <1>10, <1>12, <1>13 DEF Joined, Others
<1>15. points' = [points EXCEPT ![v] = @ - Charge(v, i.price), ![u] = @ - Charge(u, 0)]
  BY <1>5 DEF Open
<1> QED
  BY <1>1, <1>2, <1>3, <1>12, <1>14, <1>15

\* There are no other ways to touch queue and conversations.
LEMMA StepsOfChat ==
  ASSUME TypeInv, [Next]_vars
  PROVE  ChatSteps /\ prompt' \in [Users -> Prompts]
<1>1. ASSUME UNCHANGED <<queue, pairs, prompt>> PROVE ChatSteps /\ prompt' \in [Users -> Prompts]
  BY <1>1 DEF ChatSteps, TypeInv
<1>2. ASSUME NEW u \in Users, Pressed(u) PROVE ChatSteps /\ prompt' \in [Users -> Prompts]
  BY <1>2, PressedDeparts DEF ChatSteps
<1>3. ASSUME NEW u \in Users, Left(u) PROVE ChatSteps /\ prompt' \in [Users -> Prompts]
  <2>1. /\ prompt' \in [Users -> Prompts] /\ \A v \in Users \ {u} : prompt'[v] = prompt[v]
    BY <1>3, SayType, PromptTypes DEF Left
  <2>2. Departs(u)
    BY <1>3, <2>1, LeaveDeparts DEF Left
  <2> QED
    BY <2>1, <2>2 DEF ChatSteps
<1>4. ASSUME NEW u \in Users, OtherSection(u) PROVE ChatSteps /\ prompt' \in [Users -> Prompts]
  <2>1. /\ prompt' \in [Users -> Prompts] /\ prompt'[u] = Other
        /\ \A v \in Users \ {u} : prompt'[v] = prompt[v]
    BY <1>4, SayType, PromptTypes DEF OtherSection
  <2> QED
    BY <1>4, <2>1 DEF ChatSteps, OtherSection
<1>5. ASSUME NEW u \in Users, ReportBlock(u) PROVE ChatSteps /\ prompt' \in [Users -> Prompts]
  <2>1. Leave({u}) /\ prompt' = prompt
    BY <1>5 DEF ReportBlock, Leave
  <2>2. Departs(u)
    BY <2>1, LeaveDeparts
  <2> QED
    BY <2>1, <2>2 DEF ChatSteps, TypeInv
<1>6. ASSUME NEW u \in Users, NEW m \in Modes, StartMatching(u, m)
      PROVE ChatSteps /\ prompt' \in [Users -> Prompts]
  <2>1. Broke(u, m) \in SUBSET Users
    BY BrokeFacts
  <2>2. CASE Hits(u, m) = {}
    <3>1. Waits(u, m, Broke(u, m)) /\ prompt' \in [Users -> Prompts]
      BY <1>6, <2>2, StartWaits
    <3> QED
      BY <2>1, <3>1 DEF ChatSteps
  <2>3. CASE Hits(u, m) # {}
    <3>1. /\ prompt' \in [Users -> Prompts]
          /\ \E k \in Hits(u, m) : Joined(u, queue[k].user, Broke(u, m))
      BY <1>6, <2>3, StartJoins
    <3>2. PICK k \in Hits(u, m) : Joined(u, queue[k].user, Broke(u, m))
      BY <3>1
    <3>3. queue[k].user \in Users
      BY CandidateFacts DEF Hits
    <3> QED
      BY <2>1, <3>1, <3>2, <3>3 DEF ChatSteps
  <2> QED
    BY <2>2, <2>3
<1>7. ASSUME NEW i \in invites, AcceptFriend(i) PROVE ChatSteps /\ prompt' \in [Users -> Prompts]
  <2>1. /\ i.by \in Users /\ i.to \in Users /\ prompt' \in [Users -> Prompts]
        /\ Joined(i.to, i.by, {})
    BY <1>7, AcceptJoins
  <2> QED
    BY <2>1 DEF ChatSteps
<1>8. ASSUME NEW q \in quotes \cup invites PROVE q.by \in Users /\ q.to \in Users
  BY DEF TypeInv, TypeOK
<1>9. CASE UNCHANGED vars
  BY <1>1, <1>9 DEF vars
<1>10. CASE \E u \in Users : Home(u) \/ EndChat(u) \/ OtherSection(u) \/ EditProfile(u)
  <2>1. ASSUME NEW u \in Users, EditProfile(u) PROVE Pressed(u)
    BY <2>1, Zenon DEF EditProfile
  <2> QED
    BY <1>2, <1>3, <1>4, <1>10, <2>1 DEF Home, EndChat
<1>11. CASE \E u \in Users : ReportBlock(u) \/ SetBanned(u) \/ SpendPoints(u)
  BY <1>1, <1>5, <1>11 DEF SetBanned, SpendPoints, chat_vars
<1>12. CASE \E u \in Users : \E v \in Users : Follow(u, v) \/ Block(u, v) \/ Find(u, v) \/ FriendChat(u, v)
  BY <1>2, <1>12 DEF Follow, Block, Find, FriendChat
<1>13. CASE \E u \in Users : \E m \in Modes : StartMatching(u, m)
  BY <1>6, <1>13
<1>14. CASE \E q \in quotes : ChatConfirm(q)
  BY <1>2, <1>8, <1>14 DEF ChatConfirm
<1>15. CASE \E i \in invites : AcceptFriend(i) \/ RejectFriend(i)
  BY <1>2, <1>7, <1>8, <1>15 DEF RejectFriend
<1>16. CASE \E r \in Routes, p \in Prices : SetTariff(r, p)
  BY <1>1, <1>16 DEF SetTariff, chat_vars
<1>17. CASE \E f \in found : Forget(f)
  BY <1>1, <1>17 DEF Forget, chat_vars
<1> QED
  BY <1>9, <1>10, <1>11, <1>12, <1>13, <1>14, <1>15, <1>16, <1>17 DEF Next

-----------------------------------------------------------------------------
(* One place for each user, and the prompt that goes with it               *)

\* Rows of users of whom each is there once and in no conversation of `convs'.
Lone(rows, convs) ==
  /\ \A m, n \in DOMAIN rows : rows[m].user = rows[n].user => m = n
  /\ \A m \in DOMAIN rows, t \in convs : rows[m].user \notin t

LEMMA AmongLone ==
  ASSUME TypeInv, Apart, NEW new, Among(new)
  PROVE  Lone(new, pairs)
<1>1. \A k, l \in DOMAIN queue : queue[k].user = queue[l].user => k = l
  BY DEF Apart
<1>2. ASSUME NEW m \in DOMAIN new, NEW n \in DOMAIN new, m < n, new[m].user = new[n].user PROVE FALSE
  <2>1. PICK k, l \in DOMAIN queue : k < l /\ new[m] = queue[k] /\ new[n] = queue[l]
    BY <1>2 DEF Among
  <2>2. k = l
    BY <1>1, <1>2, <2>1
  <2>3. DOMAIN queue \subseteq Nat
    BY LenProperties DEF TypeInv
  <2> QED
    BY <2>1, <2>2, <2>3
<1>3. ASSUME NEW m \in DOMAIN new, NEW n \in DOMAIN new, m # n PROVE m < n \/ n < m
  <2>1. m \in Nat /\ n \in Nat
    BY LenProperties DEF Among
  <2> QED
    BY <1>3, <2>1
<1>4. \A m, n \in DOMAIN new : new[m].user = new[n].user => m = n
  BY <1>2, <1>3
<1>5. \A m \in DOMAIN new, t \in pairs : new[m].user \notin t
  BY DEF Among, Apart
<1> QED
  BY <1>4, <1>5 DEF Lone

\* What joining and waiting do to the conversations (the one brought in has no
\* other left).
LEMMA JoinedPairs ==
  ASSUME NEW u, NEW v, NEW gone, Joined(u, v, gone)
  PROVE  \A t \in pairs' : \/ t = {u, v}
                           \/ t \in pairs /\ u \notin t /\ v \notin t
BY DEF Joined, Closed, ActiveChat

LEMMA ApartKept ==
  ASSUME TypeInv, Apart, ChatSteps
  PROVE  Apart'
<1>1. \A s, t \in pairs : s \cap t # {} => s = t
  BY DEF Apart
<1>2. CASE UNCHANGED <<queue, pairs>>
  BY <1>2 DEF Apart
<1>3. ASSUME NEW u \in Users, Departs(u) PROVE Apart'
  <2>1. Lone(queue', pairs) /\ pairs' \subseteq pairs
    BY <1>3, AmongLone DEF Departs, Closed
  <2> QED
    BY <1>1, <2>1 DEF Apart, Lone
<1>4. ASSUME NEW u \in Users, NEW mode \in Modes, NEW gone \in SUBSET Users, Waits(u, mode, gone)
      PROVE  Apart'
  <2>1. PICK row : row = [user |-> u, mode |-> mode, price |-> ChatCost(u, mode)]
    OBVIOUS
  <2>2. PICK rest : /\ Among(rest) /\ \A m \in DOMAIN rest : rest[m].user \notin {u} \cup gone
                    /\ queue' = Append(rest, row)
    BY <1>4, <2>1 DEF Waits
  <2>3. pairs' = Closed({u}) /\ row.user = u
    BY <1>4, <2>1 DEF Waits
  <2>4. Lone(rest, pairs) /\ \A m \in DOMAIN rest : rest[m].user # u
    BY <2>2, AmongLone
  <2>5. pairs' \subseteq pairs /\ \A t \in pairs' : u \notin t
    BY <2>3 DEF Closed
  <2>6. rest \in Seq(Row) /\ Len(rest) \in Nat /\ DOMAIN rest = 1 .. Len(rest)
    BY <2>2, LenProperties DEF Among
  <2>7. /\ DOMAIN queue' = 1 .. Len(rest) + 1 /\ queue'[Len(rest) + 1] = row
        /\ \A m \in DOMAIN rest : queue'[m] = rest[m]
    BY <2>2, <2>6
  <2>8. \A m \in DOMAIN queue' : m \in DOMAIN rest \/ m = Len(rest) + 1
    BY <2>6, <2>7
  <2>9. \A m, n \in DOMAIN queue' : queue'[m].user = queue'[n].user => m = n
    BY <2>3, <2>4, <2>7, <2>8 DEF Lone
  <2>10. \A m \in DOMAIN queue', t \in pairs' : queue'[m].user \notin t
    BY <2>3, <2>4, <2>5, <2>7, <2>8 DEF Lone
  <2> QED
    BY <1>1, <2>5, <2>9, <2>10 DEF Apart
<1>5. ASSUME NEW u \in Users, NEW v \in Users, NEW gone \in SUBSET Users, Joined(u, v, gone)
      PROVE  Apart'
  <2>1. Lone(queue', pairs) /\ \A m \in DOMAIN queue' : queue'[m].user # u /\ queue'[m].user # v
    BY <1>5, AmongLone DEF Joined
  <2>2. \A t \in pairs' : t = {u, v} \/ (t \in pairs /\ u \notin t /\ v \notin t)
    BY <1>5, JoinedPairs
  <2>3. ASSUME NEW s \in pairs', NEW t \in pairs', NEW w \in s, w \in t PROVE s = t
    <3>1. w \in s \cap t
      BY <2>3
    <3>2. CASE s = {u, v}
      BY <2>2, <2>3, <3>2
    <3>3. CASE t = {u, v}
      BY <2>2, <2>3, <3>3
    <3>4. CASE s \in pairs /\ t \in pairs
      BY <1>1, <3>1, <3>4
    <3> QED
      BY <2>2, <3>2, <3>3, <3>4
  <2>4. \A s, t \in pairs' : s \cap t # {} => s = t
    BY <2>3
  <2>5. \A t \in pairs' : \A m \in DOMAIN queue' : queue'[m].user \notin t
    BY <2>1, <2>2 DEF Lone
  <2> QED
    BY <2>1, <2>4, <2>5 DEF Apart, Lone
<1> QED
  BY <1>2, <1>3, <1>4, <1>5 DEF ChatSteps

\* Apart says what OnePlaceEach counts.
LEMMA ApartIsOnePlace ==
  ASSUME Apart
  PROVE  OnePlaceEach
<1> SUFFICES ASSUME NEW u \in Users
             PROVE  Cardinality({i \in DOMAIN queue : queue[i].user = u}) + Cardinality(ActiveChat(u)) <= 1
  BY DEF OnePlaceEach
<1>1. PICK I : I = {i \in DOMAIN queue : queue[i].user = u}
  OBVIOUS
<1>2. PICK T : T = ActiveChat(u)
  OBVIOUS
<1>3. \A i, j \in I : i = j
  BY <1>1 DEF Apart
<1>4. \A s, t \in T : s = t
  BY <1>2 DEF Apart, ActiveChat
<1>5. I = {} \/ T = {}
  BY <1>1, <1>2 DEF Apart, ActiveChat
<1>6. Cardinality(I) \in {0, 1} /\ (I = {} => Cardinality(I) = 0)
  <2>1. CASE I = {}
    BY <2>1, FS_EmptySet
  <2>2. CASE I # {}
    <3>1. PICK i : I = {i}
      BY <1>3, <2>2
    <3> QED
      BY <2>2, <3>1, FS_Singleton
  <2> QED
    BY <2>1, <2>2
<1>7. Cardinality(T) \in {0, 1} /\ (T = {} => Cardinality(T) = 0)
  <2>1. CASE T = {}
    BY <2>1, FS_EmptySet
  <2>2. CASE T # {}
    <3>1. PICK t : T = {t}
      BY <1>4, <2>2
    <3> QED
      BY <2>2, <3>1, FS_Singleton
  <2> QED
    BY <2>1, <2>2
<1> QED
  BY <1>1, <1>2, <1>5, <1>6, <1>7

LEMMA AmongQueued ==
  ASSUME NEW new, Among(new), NEW m \in DOMAIN new
  PROVE  Queued(new[m].user)
BY DEF Among, Queued

LEMMA PromptFitsKept ==
  ASSUME TypeInv, Apart, PromptFits, ChatSteps
  PROVE  PromptFits'
<1> SUFFICES ASSUME NEW w \in Users
             PROVE  /\ \A t \in pairs' : w \in t => prompt'[w] \in {Chat(t), Other}
                    /\ (\E m \in DOMAIN queue' : queue'[m].user = w) => prompt'[w] \in {Waiting, Other}
  BY DEF PromptFits, ActiveChat, Queued
<1>1. /\ \A t \in pairs : w \in t => prompt[w] \in {Chat(t), Other}
      /\ Queued(w) => prompt[w] \in {Waiting, Other}
  BY DEF PromptFits, ActiveChat
<1>2. CASE UNCHANGED <<queue, pairs, prompt>>
  BY <1>1, <1>2 DEF Queued
<1>3. CASE /\ UNCHANGED <<queue, pairs>>
           /\ \E u \in Users : prompt'[u] = Other /\ \A v \in Users \ {u} : prompt'[v] = prompt[v]
  BY <1>1, <1>3 DEF Queued
<1>4. ASSUME NEW u \in Users, Departs(u)
      PROVE  /\ \A t \in pairs' : w \in t => prompt'[w] \in {Chat(t), Other}
             /\ (\E m \in DOMAIN queue' : queue'[m].user = w) => prompt'[w] \in {Waiting, Other}
  BY <1>1, <1>4, AmongQueued DEF Departs, Closed
<1>5. ASSUME NEW u \in Users, NEW mode \in Modes, NEW gone \in SUBSET Users, Waits(u, mode, gone)
      PROVE  /\ \A t \in pairs' : w \in t => prompt'[w] \in {Chat(t), Other}
             /\ (\E m \in DOMAIN queue' : queue'[m].user = w) => prompt'[w] \in {Waiting, Other}
  <2>1. /\ pairs' = Closed({u}) /\ prompt'[u] = Waiting /\ Others({u}, gone)
    BY <1>5 DEF Waits
  <2>2. CASE w = u
    BY <2>1, <2>2 DEF Closed
  <2>3. CASE w # u
    <3>1. PICK row : row = [user |-> u, mode |-> mode, price |-> ChatCost(u, mode)]
      OBVIOUS
    <3>2. PICK rest : /\ Among(rest) /\ \A m \in DOMAIN rest : rest[m].user \notin {u} \cup gone
                      /\ queue' = Append(rest, row)
      BY <1>5, <3>1 DEF Waits
    <3>3. rest \in Seq(Row)
      BY <3>2 DEF Among
    <3>4. \A m \in DOMAIN queue' : (m \in DOMAIN rest /\ queue'[m] = rest[m]) \/ queue'[m].user = u
      BY <3>1, <3>2, <3>3, LenProperties
    <3>5. (\E m \in DOMAIN queue' : queue'[m].user = w) => w \notin gone /\ Queued(w)
      BY <2>3, <3>2, <3>4, AmongQueued
    <3>6. pairs' \subseteq pairs
      BY <2>1 DEF Closed
    <3>7. prompt'[w] = prompt[w] \/ (w \in gone /\ ActiveChat(w) = {})
      BY <2>1, <2>3 DEF Others
    <3> QED
      BY <1>1, <3>5, <3>6, <3>7 DEF ActiveChat
  <2> QED
    BY <2>2, <2>3
<1>6. ASSUME NEW u \in Users, NEW v \in Users, NEW gone \in SUBSET Users, Joined(u, v, gone)
      PROVE  /\ \A t \in pairs' : w \in t => prompt'[w] \in {Chat(t), Other}
             /\ (\E m \in DOMAIN queue' : queue'[m].user = w) => prompt'[w] \in {Waiting, Other}
  <2>1. /\ Among(queue') /\ \A m \in DOMAIN queue' : queue'[m].user \notin {u, v} \cup gone
        /\ prompt'[u] = Chat({u, v}) /\ prompt'[v] = Chat({u, v}) /\ Others({u, v}, gone)
    BY <1>6 DEF Joined
  <2>2. \A t \in pairs' : t = {u, v} \/ (t \in pairs /\ u \notin t /\ v \notin t)
    BY <1>6, JoinedPairs
  <2>3. CASE w \in {u, v}
    BY <2>1, <2>2, <2>3
  <2>4. CASE w \notin {u, v}
    <3>1. prompt'[w] = prompt[w] \/ (w \in gone /\ ActiveChat(w) = {})
      BY <2>1, <2>4 DEF Others
    <3>2. (\E m \in DOMAIN queue' : queue'[m].user = w) => w \notin gone /\ Queued(w)
      BY <2>1, AmongQueued
    <3> QED
      BY <1>1, <2>2, <2>4, <3>1, <3>2 DEF ActiveChat
  <2> QED
    BY <2>3, <2>4
<1> QED
  BY <1>2, <1>3, <1>4, <1>5, <1>6 DEF ChatSteps

-----------------------------------------------------------------------------
(* The types, and points that suffice                                      *)

Profile ==
  [interests : SUBSET Interests, visibility : {"public", "friends", "hidden"}, discoverable : BOOLEAN]
Ask == [by : Users, to : Users, price : Prices \cup {0}]

\* The part of the types that queue, conversations, prompts and points have no
\* share in.
RestTypes ==
  /\ profile \in [Users -> Profile]
  /\ follows \cup blocks \cup found \subseteq Users \X Users
  /\ banned \subseteq hadBan /\ hadBan \subseteq Users
  /\ tariff \in [Routes -> Prices]
  /\ quotes \cup invites \subseteq Ask
  /\ \A q \in quotes \cup invites : q.by # q.to
  /\ \A u \in Users : <<u, u>> \notin blocks

LEMMA TypesHaveRest ==
  TypeInv => RestTypes
BY DEF TypeInv, TypeOK, RestTypes, Profile, Ask

LEMMA CouplesCount ==
  ASSUME NEW convs, Couples(convs)
  PROVE  \A t \in convs : t \subseteq Users /\ Cardinality(t) = 2
<1> TAKE t \in convs
<1>1. PICK u \in Users, v \in Users : u # v /\ t = {u, v}
  BY DEF Couples
<1>2. IsFiniteSet({u}) /\ Cardinality({u}) = 1
  BY FS_Singleton
<1>3. {u, v} = {u} \cup {v} /\ v \notin {u}
  BY <1>1
<1>4. Cardinality({u} \cup {v}) = 1 + 1
  BY <1>2, <1>3, FS_AddElement
<1> QED
  BY <1>1, <1>3, <1>4

LEMMA ChatTypesKept ==
  ASSUME TypeInv, ChatSteps
  PROVE  queue' \in Seq(Row) /\ Couples(pairs')
<1>1. queue \in Seq(Row) /\ Couples(pairs)
  BY DEF TypeInv
<1>2. CASE UNCHANGED <<queue, pairs>>
  BY <1>1, <1>2
<1>3. ASSUME NEW u \in Users, Departs(u)
      PROVE  queue' \in Seq(Row) /\ Couples(pairs')
  BY <1>1, <1>3 DEF Departs, Among, Closed, Couples
<1>4. ASSUME NEW u \in Users, NEW mode \in Modes, NEW gone \in SUBSET Users, Waits(u, mode, gone)
      PROVE  queue' \in Seq(Row) /\ Couples(pairs')
  <2>1. PICK row : row = [user |-> u, mode |-> mode, price |-> ChatCost(u, mode)]
    OBVIOUS
  <2>2. PICK rest : Among(rest) /\ queue' = Append(rest, row)
    BY <1>4, <2>1 DEF Waits
  <2>3. ChatCost(u, mode) \in Prices \cup {0}
    BY CostType DEF TypeInv, Routes
  <2>4. row \in Row
    BY <2>1, <2>3 DEF Row
  <2>5. queue' \in Seq(Row)
    BY <2>2, <2>4, AppendProperties DEF Among
  <2> QED
    BY <1>1, <1>4, <2>5 DEF Waits, Closed, Couples
<1>5. ASSUME NEW u \in Users, NEW v \in Users, NEW gone \in SUBSET Users, Joined(u, v, gone)
      PROVE  queue' \in Seq(Row) /\ Couples(pairs')
  <2>1. queue' \in Seq(Row) /\ u # v /\ pairs' \subseteq pairs \cup {{u, v}}
    BY <1>5 DEF Joined, Among, Closed
  <2> QED
    BY <1>1, <2>1 DEF Couples
<1> QED
  BY <1>2, <1>3, <1>4, <1>5 DEF ChatSteps

LEMMA EditKeepsTypes ==
  ASSUME TypeInv, NEW u \in Users, EditProfile(u)
  PROVE  /\ profile' \in [Users -> Profile]
         /\ \A v \in Users \ {u} : profile'[v] = profile[v]
<1>1. profile \in [Users -> Profile]
  BY TypesHaveRest DEF RestTypes
<1>2. profile[u] \in Profile
  BY <1>1
<1>3. ASSUME NEW row \in Profile, profile' = [profile EXCEPT ![u] = row]
      PROVE  profile' \in [Users -> Profile] /\ \A v \in Users \ {u} : profile'[v] = profile[v]
  BY <1>1, <1>3
<1>4. \/ \E s \in SUBSET Interests : profile' = [profile EXCEPT ![u] = [profile[u] EXCEPT !.interests = s]]
      \/ \E w \in {"public", "friends", "hidden"} :
           profile' = [profile EXCEPT ![u] = [profile[u] EXCEPT !.visibility = w]]
      \/ profile' = [profile EXCEPT ![u] = [profile[u] EXCEPT !.discoverable = ~profile[u].discoverable]]
  BY DEF EditProfile
<1>5. CASE \E s \in SUBSET Interests : profile' = [profile EXCEPT ![u] = [profile[u] EXCEPT !.interests = s]]
  <2>1. PICK s \in SUBSET Interests : profile' = [profile EXCEPT ![u] = [profile[u] EXCEPT !.interests = s]]
    BY <1>5
  <2> DEFINE row == [profile[u] EXCEPT !.interests = s]
  <2>2. row \in Profile
    BY <1>2 DEF Profile
  <2>3. profile' = [profile EXCEPT ![u] = row]
    BY <2>1
  <2> HIDE DEF row
  <2> QED
    BY <1>3, <2>2, <2>3
<1>6. CASE \E w \in {"public", "friends", "hidden"} :
             profile' = [profile EXCEPT ![u] = [profile[u] EXCEPT !.visibility = w]]
  <2>1. PICK w \in {"public", "friends", "hidden"} :
               profile' = [profile EXCEPT ![u] = [profile[u] EXCEPT !.visibility = w]]
    BY <1>6
  <2> DEFINE row == [profile[u] EXCEPT !.visibility = w]
  <2>2. row \in Profile
    BY <1>2 DEF Profile
  <2>3. profile' = [profile EXCEPT ![u] = row]
    BY <2>1
  <2> HIDE DEF row
  <2> QED
    BY <1>3, <2>2, <2>3
<1>7. CASE profile' = [profile EXCEPT ![u] = [profile[u] EXCEPT !.discoverable = ~profile[u].discoverable]]
  <2> DEFINE row == [profile[u] EXCEPT !.discoverable = ~profile[u].discoverable]
  <2>1. row \in Profile
    BY <1>2 DEF Profile
  <2>2. profile' = [profile EXCEPT ![u] = row]
    BY <1>7
  <2> HIDE DEF row
  <2> QED
    BY <1>3, <2>1, <2>2
<1> QED
  BY <1>4, <1>5, <1>6, <1>7

LEMMA RestTypesKept ==
  ASSUME TypeInv, [Next]_vars
  PROVE  RestTypes'
<1>1. RestTypes
  BY TypesHaveRest
<1>2. ASSUME UNCHANGED <<people_vars, tariff, quotes, invites>> PROVE RestTypes'
  BY <1>1, <1>2 DEF RestTypes, people_vars, ban_vars
<1>3. ASSUME NEW u \in Users, EditProfile(u) PROVE RestTypes'
  <2>1. UNCHANGED <<follows, blocks, found, banned, hadBan, tariff, quotes, invites>>
    BY <1>3, Zenon DEF EditProfile, ban_vars, ask_vars
  <2> QED
    BY <1>1, <1>3, <2>1, EditKeepsTypes DEF RestTypes
<1>4. ASSUME NEW u \in Users, Home(u) \/ EndChat(u) \/ OtherSection(u) \/ SpendPoints(u)
      PROVE  RestTypes'
  BY <1>2, <1>4 DEF Home, EndChat, Left, OtherSection, SpendPoints, ask_vars
<1>5. ASSUME NEW u \in Users, ReportBlock(u) \/ SetBanned(u) PROVE RestTypes'
  BY <1>1, <1>5 DEF RestTypes, ReportBlock, SetBanned, ask_vars
<1>6. ASSUME NEW u \in Users, NEW v \in Users, Follow(u, v) \/ Find(u, v) PROVE RestTypes'
  BY <1>1, <1>6 DEF RestTypes, Follow, Find, ban_vars, ask_vars
<1>7. ASSUME NEW u \in Users, NEW v \in Users, Block(u, v) PROVE RestTypes'
  <2>1. /\ u # v /\ blocks' = blocks \cup {<<u, v>>} /\ follows' \subseteq follows
        /\ UNCHANGED <<profile, found, banned, hadBan, tariff, quotes, invites>>
    BY <1>7 DEF Block, ban_vars, ask_vars
  <2>2. \A w \in Users : <<w, w>> \notin blocks'
    BY <1>1, <2>1 DEF RestTypes
  <2> QED
    BY <1>1, <2>1, <2>2 DEF RestTypes
<1>8. ASSUME NEW u \in Users, NEW v \in Users, FriendChat(u, v) PROVE RestTypes'
  <2>1. RouteFor(u, v) \in Routes
    BY DEF RouteFor, Routes
  <2>2. ChatCost(u, RouteFor(u, v)) \in Prices \cup {0}
    BY <2>1, CostType DEF TypeInv
  <2>3. PICK q : q = [by |-> u, to |-> v, price |-> ChatCost(u, RouteFor(u, v))]
    OBVIOUS
  <2>4. q \in Ask /\ q.by = u /\ q.to = v
    BY <2>2, <2>3 DEF Ask
  <2>5. u # v /\ quotes' = quotes \cup {q} /\ UNCHANGED <<people_vars, tariff, invites>>
    BY <1>8, <2>3 DEF FriendChat
  <2> QED
    BY <1>1, <2>4, <2>5 DEF RestTypes, people_vars, ban_vars
<1>9. ASSUME NEW q \in quotes, ChatConfirm(q) PROVE RestTypes'
  <2>1. /\ quotes' \subseteq quotes /\ invites' \subseteq invites \cup quotes
        /\ UNCHANGED <<people_vars, tariff>>
    BY <1>9 DEF ChatConfirm
  <2> QED
    BY <1>1, <2>1 DEF RestTypes, people_vars, ban_vars
<1>10. ASSUME NEW i \in invites, AcceptFriend(i) \/ RejectFriend(i) PROVE RestTypes'
  <2>1. invites' \subseteq invites /\ UNCHANGED <<people_vars, tariff, quotes>>
    BY <1>10 DEF AcceptFriend, RejectFriend
  <2> QED
    BY <1>1, <2>1 DEF RestTypes, people_vars, ban_vars
<1>11. ASSUME NEW u \in Users, NEW m \in Modes, StartMatching(u, m) PROVE RestTypes'
  BY <1>2, <1>11 DEF StartMatching, ask_vars
<1>12. ASSUME NEW r \in Routes, NEW p \in Prices, SetTariff(r, p) PROVE RestTypes'
  BY <1>1, <1>12 DEF RestTypes, SetTariff, people_vars, ban_vars, ask_vars
<1>13. ASSUME NEW f \in found, Forget(f) PROVE RestTypes'
  BY <1>1, <1>13 DEF RestTypes, Forget, ban_vars, ask_vars
<1>14. CASE UNCHANGED vars
  BY <1>2, <1>14 DEF vars, people_vars, ban_vars
<1>15. CASE \E u \in Users : \/ Home(u) \/ EndChat(u) \/ OtherSection(u) \/ EditProfile(u)
                             \/ ReportBlock(u) \/ SetBanned(u) \/ SpendPoints(u)
  BY <1>3, <1>4, <1>5, <1>15
<1>16. CASE \E u \in Users : \E v \in Users : Follow(u, v) \/ Block(u, v) \/ Find(u, v) \/ FriendChat(u, v)
  BY <1>6, <1>7, <1>8, <1>16
<1>17. CASE \E u \in Users : \E m \in Modes : StartMatching(u, m)
  BY <1>11, <1>17
<1> QED
  BY <1>9, <1>10, <1>12, <1>13, <1>14, <1>15, <1>16, <1>17 DEF Next

\* Two who can pay what they are charged.
Pays(u, v, x, y) == points' = [points EXCEPT ![u] = @ - Charge(u, x), ![v] = @ - Charge(v, y)]

LEMMA Paying ==
  ASSUME points \in [Users -> Nat], NEW u \in Users, NEW v \in Users, u # v,
         NEW x \in Nat, NEW y \in Nat, Affordable(u, x), Affordable(v, y), Pays(u, v, x, y)
  PROVE  /\ points' \in [Users -> Nat]
         /\ \A w \in Users \ {u, v} : points'[w] = points[w]
         /\ points[u] - points'[u] = Charge(u, x) /\ points[v] - points'[v] = Charge(v, y)
<1>1. /\ Charge(u, x) \in Nat /\ Charge(v, y) \in Nat /\ points[u] \in Nat /\ points[v] \in Nat
      /\ points[u] - Charge(u, x) \in Nat /\ points[v] - Charge(v, y) \in Nat
  BY DEF Affordable, Charge
<1>2. PICK c \in Nat, d \in Nat : c = Charge(u, x) /\ d = Charge(v, y)
  BY <1>1
<1>3. points' = [points EXCEPT ![u] = points[u] - c, ![v] = points[v] - d]
  BY <1>2 DEF Pays
<1>4. /\ points'[u] = points[u] - c /\ points'[v] = points[v] - d
      /\ \A w \in Users \ {u, v} : points'[w] = points[w]
  BY <1>3
<1>5. points' \in [Users -> Nat]
  BY <1>1, <1>2, <1>3
<1> QED
  BY <1>1, <1>2, <1>4, <1>5

\* What the two pay whom a search brings together.
LEMMA MatchPays ==
  ASSUME TypeInv, points \in [Users -> Nat], NEW u \in Users, NEW m \in Modes, StartMatching(u, m),
         Hits(u, m) # {}
  PROVE  /\ points' \in [Users -> Nat] /\ UNCHANGED invites
         /\ \E k \in DOMAIN queue :
              /\ queue[k].user \in Users /\ Joined(u, queue[k].user, Broke(u, m))
              /\ \A w \in Users \ {u, queue[k].user} : points'[w] = points[w]
              /\ \E x \in Nat : points[u] - points'[u] = Charge(u, x)
              /\ queue[k].price \in Nat
              /\ points[queue[k].user] - points'[queue[k].user] = Charge(queue[k].user, queue[k].price)
<1>1. PICK k \in Hits(u, m) :
        /\ Joined(u, queue[k].user, Broke(u, m))
        /\ points' = [points EXCEPT ![u] = @ - Charge(u, ChatCost(u, m)),
                                    ![queue[k].user] = @ - Charge(queue[k].user, queue[k].price)]
  BY StartJoins
<1>2. /\ k \in DOMAIN queue /\ queue[k] \in Row /\ queue[k].user \in Users
      /\ Affordable(queue[k].user, queue[k].price)
  BY CandidateFacts DEF Hits, Suits
<1>3. PICK v \in Users, y \in Nat : v = queue[k].user /\ y = queue[k].price
  <2>1. queue[k].price \in Prices \cup {0}
    BY <1>2 DEF Row
  <2> QED
    BY <1>2, <2>1, SocialAssumption
<1>4. PICK x \in Nat : x = ChatCost(u, m)
  <2>1. ChatCost(u, m) \in Prices \cup {0}
    BY CostType DEF TypeInv, Routes
  <2> QED
    BY <2>1, SocialAssumption
<1>6. u # v
  BY <1>1, <1>3 DEF Joined
<1>7. Affordable(u, x) /\ Affordable(v, y)
  BY <1>2, <1>3, <1>4 DEF StartMatching
<1>8. Pays(u, v, x, y)
  BY <1>1, <1>3, <1>4 DEF Pays
<1>9. /\ points' \in [Users -> Nat]
      /\ \A w \in Users \ {u, v} : points'[w] = points[w]
      /\ points[u] - points'[u] = Charge(u, x) /\ points[v] - points'[v] = Charge(v, y)
  BY <1>6, <1>7, <1>8, Paying
<1>10. UNCHANGED invites
  BY StartJoins DEF ask_vars
<1> QED
  BY <1>1, <1>2, <1>3, <1>9, <1>10

\* Whoever invited pays, whoever accepts does not.
LEMMA AcceptPays ==
  ASSUME TypeInv, points \in [Users -> Nat], NEW i \in invites, AcceptFriend(i)
  PROVE  /\ points' \in [Users -> Nat]
         /\ \A w \in Users \ {i.by, i.to} : points'[w] = points[w]
         /\ points[i.by] - points'[i.by] = Charge(i.by, i.price) /\ points[i.to] - points'[i.to] = 0
<1>1. PICK u \in Users, v \in Users, x \in Prices \cup {0} : u = i.by /\ v = i.to /\ x = i.price
  BY DEF TypeInv, TypeOK
<1>2. u # v /\ Pays(u, v, x, 0)
  BY <1>1, AcceptJoins DEF Pays
<1>3. x \in Nat /\ Affordable(u, x) /\ Affordable(v, 0) /\ Charge(v, 0) = 0
  <2>1. x \in Nat
    BY SocialAssumption
  <2>2. Affordable(u, x)
    BY <1>1 DEF AcceptFriend
  <2>3. Affordable(v, 0) /\ Charge(v, 0) = 0
    BY DEF Affordable, Charge
  <2> QED
    BY <2>1, <2>2, <2>3
<1>4. /\ points' \in [Users -> Nat]
      /\ \A w \in Users \ {u, v} : points'[w] = points[w]
      /\ points[u] - points'[u] = Charge(u, x) /\ points[v] - points'[v] = Charge(v, 0)
  BY <1>2, <1>3, Paying
<1> QED
  BY <1>1, <1>3, <1>4

LEMMA PointsKept ==
  ASSUME TypeInv, points \in [Users -> Nat], [Next]_vars
  PROVE  points' \in [Users -> Nat]
<1>1. ASSUME UNCHANGED points PROVE points' \in [Users -> Nat]
  BY <1>1
<1>2. ASSUME NEW u \in Users, NEW m \in Modes, StartMatching(u, m) PROVE points' \in [Users -> Nat]
  <2>1. CASE Hits(u, m) = {}
    BY <1>2, <2>1, StartWaits
  <2>2. CASE Hits(u, m) # {}
    BY <1>2, <2>2, MatchPays
  <2> QED
    BY <2>1, <2>2
<1>3. ASSUME NEW u \in Users, SpendPoints(u) PROVE points' \in [Users -> Nat]
  <2>1. PICK n \in 1 .. points[u] : points' = [points EXCEPT ![u] = @ - n]
    BY <1>3 DEF SpendPoints
  <2>2. points[u] \in Nat /\ points[u] - n \in Nat
    OBVIOUS
  <2> QED
    BY <2>1, <2>2
<1>4. CASE UNCHANGED vars
  BY <1>4 DEF vars
<1>5. CASE \E u \in Users : Home(u) \/ EndChat(u) \/ OtherSection(u) \/ EditProfile(u)
  <2>1. ASSUME NEW u \in Users, EditProfile(u) PROVE UNCHANGED points
    BY <2>1, Zenon DEF EditProfile, Pressed
  <2> QED
    BY <1>5, <2>1 DEF Home, EndChat, Left, OtherSection
<1>6. CASE \E u \in Users : ReportBlock(u) \/ SetBanned(u) \/ SpendPoints(u)
  BY <1>3, <1>6 DEF ReportBlock, SetBanned, chat_vars
<1>7. CASE \E u \in Users : \E v \in Users : Follow(u, v) \/ Block(u, v) \/ Find(u, v) \/ FriendChat(u, v)
  BY <1>7 DEF Follow, Block, Find, FriendChat, Pressed
<1>8. CASE \E u \in Users : \E m \in Modes : StartMatching(u, m)
  BY <1>2, <1>8
<1>9. CASE \E q \in quotes : ChatConfirm(q)
  BY <1>9 DEF ChatConfirm, Pressed
<1>10. CASE \E i \in invites : AcceptFriend(i) \/ RejectFriend(i)
  BY <1>10, AcceptPays DEF RejectFriend, Pressed
<1>11. CASE \E r \in Routes, p \in Prices : SetTariff(r, p)
  BY <1>11 DEF SetTariff, chat_vars
<1>12. CASE \E f \in found : Forget(f)
  BY <1>12 DEF Forget, chat_vars
<1> QED
  BY <1>4, <1>5, <1>6, <1>7, <1>8, <1>9, <1>10, <1>11, <1>12 DEF Next

-----------------------------------------------------------------------------
(* The invariant of the club                                               *)

IInv == TypeInv /\ Apart /\ PromptFits /\ PointsNeverNegative

LEMMA InitIInv ==
  Init => IInv
<1> SUFFICES ASSUME Init PROVE IInv
  OBVIOUS
<1>1. PICK i \in Interests :
        profile = [u \in Users |-> [interests |-> {i}, visibility |-> "public", discoverable |-> TRUE]]
  BY DEF Init
<1>2. profile \in [Users -> Profile]
  BY <1>1 DEF Profile
<1>3. tariff \in [Routes -> Prices]
  <2>1. \E p \in Prices : \A q \in Prices : p <= q
    <3>1. Prices \in SUBSET Nat /\ Prices # {}
      BY SocialAssumption
    <3>2. PICK p \in Prices : \A q \in Prices : <<q, p>> \notin OpToRel(<, Nat)
      BY <3>1, NatLessThanWellFounded, WFMin
    <3>3. \A q \in Prices : p <= q
      <4> TAKE q \in Prices
      <4>1. p \in Nat /\ q \in Nat
        BY <3>1
      <4>2. ~(q < p)
        BY <3>2, <4>1 DEF OpToRel
      <4> QED
        BY <4>1, <4>2
    <3> QED
      BY <3>3
  <2> DEFINE p == CHOOSE p \in Prices : \A q \in Prices : p <= q
  <2>2. p \in Prices
    BY <2>1
  <2>3. tariff = [r \in Routes |-> p]
    BY DEF Init
  <2> HIDE DEF p
  <2> QED
    BY <2>2, <2>3
<1>4. points \in [Users -> Nat]
  BY SocialAssumption DEF Init
<1>5. queue \in Seq(Row) /\ DOMAIN queue = {}
  BY DEF Init
<1>6. prompt \in [Users -> Prompts] /\ \A u \in Users : prompt[u] = Blank
  BY PromptTypes DEF Init
<1>7. TypeOK
  BY <1>2, <1>3, <1>4, <1>5, <1>6 DEF TypeOK, Init, Profile, Prompts
<1>8. TypeInv
  <2>1. Couples(pairs)
    BY DEF Couples, Init
  <2> QED
    BY <1>5, <1>6, <1>7, <2>1 DEF TypeInv, Init
<1>9. Apart /\ PromptFits
  BY <1>5 DEF Apart, PromptFits, ActiveChat, Queued, Init
<1> QED
  BY <1>4, <1>8, <1>9 DEF IInv, PointsNeverNegative

LEMMA IInvKept ==
  ASSUME IInv, [Next]_vars
  PROVE  IInv'
<1>1. TypeInv /\ Apart /\ PromptFits /\ PointsNeverNegative
  BY DEF IInv
<1>2. ChatSteps /\ prompt' \in [Users -> Prompts]
  BY <1>1, StepsOfChat
<1>3. RestTypes'
  BY <1>1, RestTypesKept
<1>4. queue' \in Seq(Row) /\ Couples(pairs')
  BY <1>1, <1>2, ChatTypesKept
<1>5. points' \in [Users -> Nat]
  <2>1. points \in [Users -> Nat]
    BY <1>1 DEF TypeInv, TypeOK, PointsNeverNegative
  <2> QED
    BY <1>1, <2>1, PointsKept
<1>6. /\ \A i \in DOMAIN queue' : queue'[i] \in Row
      /\ \A t \in pairs' : t \subseteq Users /\ Cardinality(t) = 2
  BY <1>4, CouplesCount
<1>7. TypeOK'
  BY <1>2, <1>3, <1>4, <1>5, <1>6 DEF TypeOK, RestTypes, Profile, Ask, Row, Prompts
<1>8. TypeInv'
  BY <1>2, <1>3, <1>4, <1>7 DEF TypeInv, RestTypes
<1>9. Apart'
  BY <1>1, <1>2, ApartKept
<1>10. PromptFits'
  BY <1>1, <1>2, PromptFitsKept
<1>11. PointsNeverNegative'
  BY <1>5 DEF PointsNeverNegative
<1> QED
  BY <1>8, <1>9, <1>10, <1>11 DEF IInv

LEMMA AlwaysIInv ==
  Spec => []IInv
BY InitIInv, IInvKept, PTL DEF Spec

\* Queue, conversations, prompts and points stay in step, whoever matches,
\* invites, leaves, blocks or is reported in between (runtime/social.py): a
\* user is in one place at a time, what he types reaches the conversation he
\* is in, and no conversation takes points that are not there.
THEOREM SocialClub ==
  Spec => []ClubInv
<1>1. IInv => ClubInv
  BY ApartIsOnePlace DEF IInv, TypeInv, ClubInv
<1> QED
  BY <1>1, AlwaysIInv, PTL

-----------------------------------------------------------------------------
(* Blocks, prices and the promise of Matching                              *)

\* Who opens a conversation, and who blocks.
LEMMA OpenedBy ==
  ASSUME TypeInv, [Next]_vars
  PROVE  \/ pairs' \subseteq pairs
         \/ \E u \in Users, m \in Modes : StartMatching(u, m) /\ Hits(u, m) # {}
         \/ \E i \in invites : AcceptFriend(i)
<1>1. ASSUME NEW u \in Users, Pressed(u) PROVE pairs' \subseteq pairs
  BY <1>1 DEF Pressed, Leave, Closed
<1>2. ASSUME NEW u \in Users, NEW m \in Modes, StartMatching(u, m), Hits(u, m) = {}
      PROVE  pairs' \subseteq pairs
  BY <1>2, StartWaits DEF Waits, Closed
<1>3. CASE UNCHANGED vars
  BY <1>3 DEF vars
<1>4. CASE \E u \in Users : Home(u) \/ EndChat(u) \/ OtherSection(u) \/ EditProfile(u)
  <2>1. ASSUME NEW u \in Users, EditProfile(u) PROVE Pressed(u)
    BY <2>1, Zenon DEF EditProfile
  <2> QED
    BY <1>1, <1>4, <2>1 DEF Home, EndChat, Left, Leave, Closed, OtherSection
<1>5. CASE \E u \in Users : ReportBlock(u) \/ SetBanned(u) \/ SpendPoints(u)
  BY <1>5 DEF ReportBlock, Closed, SetBanned, SpendPoints, chat_vars
<1>6. CASE \E u \in Users : \E v \in Users : Follow(u, v) \/ Block(u, v) \/ Find(u, v) \/ FriendChat(u, v)
  BY <1>1, <1>6 DEF Follow, Block, Find, FriendChat
<1>7. CASE \E u \in Users : \E m \in Modes : StartMatching(u, m)
  BY <1>2, <1>7
<1>8. ASSUME NEW q \in quotes \cup invites PROVE q.by \in Users /\ q.to \in Users
  BY DEF TypeInv, TypeOK
<1>9. CASE \E q \in quotes : ChatConfirm(q)
  BY <1>1, <1>8, <1>9 DEF ChatConfirm
<1>10. CASE \E i \in invites : AcceptFriend(i) \/ RejectFriend(i)
  BY <1>1, <1>8, <1>10 DEF RejectFriend
<1>11. CASE \E r \in Routes, p \in Prices : SetTariff(r, p)
  BY <1>11 DEF SetTariff, chat_vars
<1>12. CASE \E f \in found : Forget(f)
  BY <1>12 DEF Forget, chat_vars
<1> QED
  BY <1>3, <1>4, <1>5, <1>6, <1>7, <1>9, <1>10, <1>11, <1>12 DEF Next

\* What blocks are added.
LEMMA BlockedBy ==
  ASSUME [Next]_vars
  PROVE  UNCHANGED blocks \/ \E u, v \in Users : Block(u, v)
<1>1. CASE UNCHANGED vars
  BY <1>1 DEF vars
<1>2. CASE \E u \in Users : Home(u) \/ EndChat(u) \/ OtherSection(u) \/ EditProfile(u)
  <2>1. ASSUME NEW u \in Users, EditProfile(u) PROVE UNCHANGED blocks
    BY <2>1, Zenon DEF EditProfile
  <2> QED
    BY <1>2, <2>1 DEF Home, EndChat, Left, OtherSection, people_vars
<1>3. CASE \E u \in Users : ReportBlock(u) \/ SetBanned(u) \/ SpendPoints(u)
  BY <1>3 DEF ReportBlock, SetBanned, SpendPoints, people_vars
<1>4. CASE \E u \in Users : \E v \in Users : Follow(u, v) \/ Block(u, v) \/ Find(u, v) \/ FriendChat(u, v)
  BY <1>4 DEF Follow, Find, FriendChat, people_vars
<1>5. CASE \E u \in Users : \E m \in Modes : StartMatching(u, m)
  BY <1>5 DEF StartMatching, people_vars
<1>6. CASE \E q \in quotes : ChatConfirm(q)
  BY <1>6 DEF ChatConfirm, people_vars
<1>7. CASE \E i \in invites : AcceptFriend(i) \/ RejectFriend(i)
  BY <1>7 DEF AcceptFriend, RejectFriend, people_vars
<1>8. CASE \E r \in Routes, p \in Prices : SetTariff(r, p)
  BY <1>8 DEF SetTariff, people_vars
<1>9. CASE \E f \in found : Forget(f)
  BY <1>9 DEF Forget
<1> QED
  BY <1>1, <1>2, <1>3, <1>4, <1>5, <1>6, <1>7, <1>8, <1>9 DEF Next

\* Nobody is in a conversation with a user one of the two has blocked: blocking
\* ends the conversation (social.py, the block button), and neither a search
\* nor an invitation begun before the block gets past it.
THEOREM SocialBlocks ==
  Spec => []NoChatAcrossBlock
<1>1. Init => NoChatAcrossBlock
  BY DEF Init, NoChatAcrossBlock
<1>2. ASSUME IInv, NoChatAcrossBlock, [Next]_vars PROVE NoChatAcrossBlock'
  <2>1. TypeInv /\ ChatSteps /\ \A u \in Users : <<u, u>> \notin blocks
    BY <1>2, StepsOfChat DEF IInv, TypeInv
  <2>2. \A t \in pairs : \A w, z \in t : ~Blocked(w, z)
    BY <1>2 DEF NoChatAcrossBlock
  <2>3. CASE UNCHANGED blocks
    <3>1. CASE pairs' \subseteq pairs
      BY <2>2, <2>3, <3>1 DEF NoChatAcrossBlock, Blocked
    <3>2. ASSUME NEW u \in Users, NEW v \in Users, NEW gone \in SUBSET Users, Joined(u, v, gone)
          PROVE  NoChatAcrossBlock'
      <4>1. ~Blocked(u, v) /\ pairs' \subseteq pairs \cup {{u, v}}
        BY <3>2 DEF Joined, Closed
      <4>2. \A w, z \in {u, v} : ~Blocked(w, z)
        BY <2>1, <4>1 DEF Blocked
      <4>3. \A t \in pairs' : \A w, z \in t : ~Blocked(w, z)
        BY <2>2, <4>1, <4>2, Zenon
      <4> QED
        BY <2>3, <4>3 DEF NoChatAcrossBlock, Blocked
    <3>3. ChatSteps => \/ pairs' \subseteq pairs
                       \/ \E u, v \in Users, gone \in SUBSET Users : Joined(u, v, gone)
      BY DEF ChatSteps, Departs, Waits, Closed
    <3> QED
      BY <2>1, <3>1, <3>2, <3>3
  <2>4. ASSUME NEW u \in Users, NEW v \in Users, Block(u, v) PROVE NoChatAcrossBlock'
    <3>1. Departs(u) /\ blocks' = blocks \cup {<<u, v>>}
      BY <2>1, <2>4, PressedDeparts DEF Block
    <3>2. \A t \in pairs' : t \in pairs /\ u \notin t
      BY <3>1 DEF Departs, Closed
    <3> QED
      BY <2>2, <3>1, <3>2 DEF NoChatAcrossBlock, Blocked
  <2> QED
    BY <1>2, <2>3, <2>4, BlockedBy
<1> QED
  BY <1>1, <1>2, AlwaysIInv, PTL DEF Spec

\* A conversation takes from each of its members what was registered for him:
\* from who waited the price of the day he began to wait, from who asked the
\* price he was quoted, from who accepts nothing (social_chat_queue.price,
\* social_chat_invites.price).
THEOREM SocialPrices ==
  Spec => PaidAsRegistered
<1> DEFINE Took == [u \in Users |-> points[u] - points'[u]]
           Invited(t) == {i \in invites \ invites' : {i.by, i.to} = t}
<1>1. ASSUME IInv, [Next]_vars, NEW t \in pairs' \ pairs PROVE Registered(t)
  <2>1. TypeInv /\ points \in [Users -> Nat]
    BY <1>1 DEF IInv, TypeInv, TypeOK, PointsNeverNegative
  <2>2. ASSUME NEW u \in Users, NEW m \in Modes, StartMatching(u, m), Hits(u, m) # {} PROVE Registered(t)
    <3>1. /\ points' \in [Users -> Nat] /\ UNCHANGED invites
          /\ \E k \in DOMAIN queue :
               /\ queue[k].user \in Users /\ Joined(u, queue[k].user, Broke(u, m))
               /\ \A w \in Users \ {u, queue[k].user} : points'[w] = points[w]
               /\ \E x \in Nat : points[u] - points'[u] = Charge(u, x)
               /\ queue[k].price \in Nat
               /\ points[queue[k].user] - points'[queue[k].user] = Charge(queue[k].user, queue[k].price)
      BY <2>1, <2>2, MatchPays
    <3>2. PICK k \in DOMAIN queue :
            /\ queue[k].user \in Users /\ Joined(u, queue[k].user, Broke(u, m))
            /\ \A w \in Users \ {u, queue[k].user} : points'[w] = points[w]
            /\ \E x \in Nat : points[u] - points'[u] = Charge(u, x)
            /\ queue[k].price \in Nat
            /\ points[queue[k].user] - points'[queue[k].user] = Charge(queue[k].user, queue[k].price)
      BY <3>1
    <3>3. PICK v \in Users : v = queue[k].user
      BY <3>2
    <3>4. t = {u, v}
      BY <1>1, <3>2, <3>3, JoinedPairs
    <3>5. \A w \in Users : points'[w] # points[w] => w \in {u, v} \ Admins
      BY <2>1, <3>1, <3>2, <3>3 DEF Charge
    <3>6. \A w \in Users : Took[w] # 0 => w \in t \ Admins
      BY <2>1, <3>1, <3>4, <3>5
    <3>7. Invited(t) = {}
      BY <3>1
    <3>8. Took[queue[k].user] = Charge(queue[k].user, queue[k].price)
      BY <3>2
    <3>9. queue[k].user \in t
      BY <3>3, <3>4
    <3> QED
      BY <3>6, <3>7, <3>8, <3>9 DEF Registered
  <2>3. ASSUME NEW i \in invites, AcceptFriend(i) PROVE Registered(t)
    <3>1. /\ points' \in [Users -> Nat]
          /\ \A w \in Users \ {i.by, i.to} : points'[w] = points[w]
          /\ points[i.by] - points'[i.by] = Charge(i.by, i.price) /\ points[i.to] - points'[i.to] = 0
      BY <2>1, <2>3, AcceptPays
    <3>2. i.by \in Users /\ i.to \in Users /\ Joined(i.to, i.by, {}) /\ invites' = invites \ {i}
      BY <2>1, <2>3, AcceptJoins DEF AcceptFriend
    <3>3. t = {i.to, i.by}
      BY <1>1, <3>2, JoinedPairs
    <3>4. \A w \in Users : points'[w] # points[w] => w \in {i.by, i.to} \ Admins
      BY <2>1, <3>1, <3>2 DEF Charge
    <3>5. \A w \in Users : Took[w] # 0 => w \in t \ Admins
      BY <2>1, <3>1, <3>3, <3>4
    <3>6. Invited(t) = {i}
      BY <3>2, <3>3
    <3>7. Took[i.to] = 0 /\ Took[i.by] = Charge(i.by, i.price)
      BY <3>1, <3>2
    <3> QED
      BY <3>5, <3>6, <3>7 DEF Registered
  <2> QED
    BY <1>1, <2>1, <2>2, <2>3, OpenedBy
<1>2. ASSUME IInv, [Next]_vars PROVE \A t \in pairs' \ pairs : Registered(t)
  BY <1>1, <1>2
<1> QED
  BY <1>2, AlwaysIInv, PTL DEF Spec, PaidAsRegistered

\* The club implements Matching: a conversation has two members, nobody is in
\* two, and whoever is brought into one was free or has asked for it himself.
THEOREM SocialContract ==
  Spec => KeepsContract
<1>1. Init => Contract!Init
  BY DEF Init, Contract!Init
<1>2. ASSUME IInv, [Next]_vars PROVE [Contract!Next]_pairs
  <2>1. TypeInv /\ Apart /\ ChatSteps /\ Couples(pairs)
    BY <1>2, StepsOfChat DEF IInv, TypeInv
  <2>2. \A s, t \in pairs : s \cap t # {} => s = t
    BY <2>1 DEF Apart
  <2>3. ASSUME NEW u \in Users, pairs' = Closed({u}) PROVE [Contract!Next]_pairs
    <3>1. CASE \A t \in pairs : u \notin t
      <4>1. pairs' = pairs
        BY <2>3, <3>1 DEF Closed
      <4> QED
        BY <4>1
    <3>2. CASE \E t \in pairs : u \in t
      <4>1. PICK t \in pairs : u \in t
        BY <3>2
      <4>2. pairs' = pairs \ {t}
        BY <2>2, <2>3, <4>1 DEF Closed
      <4> QED
        BY <4>2 DEF Contract!Next, Contract!Part
    <3> QED
      BY <3>1, <3>2
  <2>4. ASSUME NEW u \in Users, NEW v \in Users, NEW gone \in SUBSET Users, Joined(u, v, gone)
        PROVE  [Contract!Next]_pairs
    <3>1. /\ u # v /\ ActiveChat(v) \subseteq ActiveChat(u)
          /\ pairs' = {t \in pairs : u \notin t} \cup {{u, v}}
      BY <2>4 DEF Joined, Closed
    <3>2. CASE ActiveChat(v) = {}
      <4>1. Contract!Free(v, pairs)
        BY <3>2 DEF Contract!Free, ActiveChat
      <4> QED
        BY <3>1, <4>1 DEF Contract!Next, Contract!Meet
    <3>3. CASE ActiveChat(v) # {}
      <4>1. PICK t \in pairs : u \in t /\ v \in t
        BY <3>1, <3>3 DEF ActiveChat
      <4>2. t = {u, v}
        BY <2>1, <3>1, <4>1 DEF Couples
      <4>3. \A s \in pairs : u \in s => s = t
        BY <2>2, <4>1
      <4>4. pairs' = pairs
        BY <3>1, <4>1, <4>2, <4>3
      <4> QED
        BY <4>4
    <3> QED
      BY <3>2, <3>3
  <2> QED
    BY <2>1, <2>3, <2>4 DEF ChatSteps, Departs, Waits
<1> QED
  BY <1>1, <1>2, AlwaysIInv, PTL DEF Spec, KeepsContract, Contract!Spec

-----------------------------------------------------------------------------
(* Nobody who fits is left waiting                                         *)

\* Whoever waits with row r does not suit u, who begins to wait after him.
Unfit(r, u) ==
  \/ Blocked(u, r.user) \/ ~profile[r.user].discoverable \/ ~Complete(r.user)
  \/ r.mode = "filtered" /\ profile[u].interests \cap profile[r.user].interests = {}

\* What makes two who wait unfit for each other stays as it is: a user who
\* edits his profile leaves the queue, and blocks are not withdrawn.
LEMMA ProfileStays ==
  ASSUME TypeInv, [Next]_vars
  PROVE  /\ blocks \subseteq blocks' /\ hadBan \subseteq hadBan'
         /\ \A m \in DOMAIN queue' : profile'[queue'[m].user] = profile[queue'[m].user]
<1>1. blocks \subseteq blocks'
  BY BlockedBy DEF Block
<1>2. ASSUME NEW u \in Users, EditProfile(u)
      PROVE  /\ UNCHANGED hadBan
             /\ \A m \in DOMAIN queue' : profile'[queue'[m].user] = profile[queue'[m].user]
  <2>1. Pressed(u) /\ UNCHANGED hadBan
    BY <1>2, Zenon DEF EditProfile, ban_vars
  <2>2. Among(queue') /\ \A m \in DOMAIN queue' : queue'[m].user # u
    BY <2>1, PressedDeparts DEF Departs
  <2>3. \A m \in DOMAIN queue' : queue'[m].user \in Users
    <3>1. \A k \in DOMAIN queue : queue[k].user \in Users
      BY DEF TypeInv, TypeOK
    <3> QED
      BY <2>2, <3>1 DEF Among
  <2> QED
    BY <1>2, <2>1, <2>2, <2>3, EditKeepsTypes
<1>3. ASSUME UNCHANGED <<profile, hadBan>> \/ \E u \in Users : ReportBlock(u) \/ SetBanned(u)
      PROVE  /\ hadBan \subseteq hadBan'
             /\ \A m \in DOMAIN queue' : profile'[queue'[m].user] = profile[queue'[m].user]
  BY <1>3 DEF ReportBlock, SetBanned
<1>4. CASE UNCHANGED vars
  BY <1>1, <1>3, <1>4 DEF vars, ban_vars
<1>5. CASE \E u \in Users : Home(u) \/ EndChat(u) \/ OtherSection(u) \/ EditProfile(u)
  BY <1>1, <1>2, <1>3, <1>5 DEF Home, EndChat, Left, OtherSection, people_vars, ban_vars
<1>6. CASE \E u \in Users : ReportBlock(u) \/ SetBanned(u) \/ SpendPoints(u)
  BY <1>1, <1>3, <1>6 DEF SpendPoints, people_vars, ban_vars
<1>7. CASE \E u \in Users : \E v \in Users : Follow(u, v) \/ Block(u, v) \/ Find(u, v) \/ FriendChat(u, v)
  BY <1>1, <1>3, <1>7 DEF Follow, Block, Find, FriendChat, people_vars, ban_vars
<1>8. CASE \E u \in Users : \E m \in Modes : StartMatching(u, m)
  BY <1>1, <1>3, <1>8 DEF StartMatching, people_vars, ban_vars
<1>9. CASE \E q \in quotes : ChatConfirm(q)
  BY <1>1, <1>3, <1>9 DEF ChatConfirm, people_vars, ban_vars
<1>10. CASE \E i \in invites : AcceptFriend(i) \/ RejectFriend(i)
  BY <1>1, <1>3, <1>10 DEF AcceptFriend, RejectFriend, people_vars, ban_vars
<1>11. CASE \E r \in Routes, p \in Prices : SetTariff(r, p)
  BY <1>1, <1>3, <1>11 DEF SetTariff, people_vars, ban_vars
<1>12. CASE \E f \in found : Forget(f)
  BY <1>1, <1>3, <1>12 DEF Forget, ban_vars
<1> QED
  BY <1>4, <1>5, <1>6, <1>7, <1>8, <1>9, <1>10, <1>11, <1>12 DEF Next

\* Whom the search of u passed over and left in the queue does not suit him, if
\* the search looked at all who waited.
LEMMA PassedOver ==
  ASSUME TypeInv, Apart, Len(queue) <= Limit,
         NEW u \in Users, NEW mode \in Modes, Hits(u, mode) = {},
         NEW k \in DOMAIN queue, queue[k].user \notin {u} \cup Broke(u, mode),
         queue[k].mode = mode, queue[k].user \notin hadBan
  PROVE  Unfit(queue[k], u)
<1> DEFINE w == queue[k].user
           before == {j \in Waiters(u, mode) : j < k}
<1>1. /\ Len(queue) \in Nat /\ DOMAIN queue = 1 .. Len(queue) /\ k \in 1 .. Len(queue)
      /\ queue[k] \in Row /\ w \in Users /\ w # u /\ w \notin banned
  BY LenProperties DEF TypeInv, TypeOK, Row
<1>2. Cardinality(before) < Limit
  <2>1. k - 1 \in Nat /\ before \in SUBSET (1 .. (k - 1))
    BY <1>1 DEF Waiters
  <2>2. IsFiniteSet(1 .. (k - 1)) /\ Cardinality(1 .. (k - 1)) = k - 1
    BY <2>1, FS_Interval
  <2> HIDE DEF before
  <2>3. IsFiniteSet(before) /\ Cardinality(before) <= k - 1
    <3>1. PICK S : S = 1 .. (k - 1)
      OBVIOUS
    <3>2. before \in SUBSET S /\ IsFiniteSet(S) /\ Cardinality(S) = k - 1
      BY <2>1, <2>2, <3>1
    <3>3. IsFiniteSet(before) /\ Cardinality(before) <= Cardinality(S)
      BY <3>2, FS_Subset
    <3> QED
      BY <3>2, <3>3
  <2>4. Cardinality(before) \in Nat
    BY <2>3, FS_CardinalityType
  <2> QED
    BY <1>1, <2>3, <2>4, SocialAssumption
<1>3. ActiveChat(w) = {}
  BY DEF Apart, ActiveChat
<1> SUFFICES ASSUME ~Unfit(queue[k], u) PROVE FALSE
  OBVIOUS
<1>4. /\ ~Blocked(u, w) /\ profile[w].discoverable /\ Complete(w)
      /\ mode = "filtered" => profile[u].interests \cap profile[w].interests # {}
  BY DEF Unfit
<1>5. k \in Waiters(u, mode)
  BY <1>1, <1>4 DEF Waiters
<1>6. k \in Candidates(u, mode)
  BY <1>1, <1>2, <1>3, <1>4, <1>5 DEF Candidates
<1>7. CASE Affordable(w, queue[k].price)
  BY <1>4, <1>6, <1>7 DEF Hits, Suits
<1>8. CASE ~Affordable(w, queue[k].price)
  BY <1>6, <1>8 DEF Broke
<1> QED
  BY <1>7, <1>8

\* Of two who wait the later one had been offered the earlier one, who did not
\* suit him and still does not (runtime/social.py, the search for a partner) --
\* as long as no more users wait than a search looks at.
THEOREM SocialMatching ==
  Spec /\ [](Len(queue) <= Limit) => []NoMatchMissed
<1> DEFINE Fit(i, j) ==
             /\ queue[i].mode = queue[j].mode
             /\ queue[i].user \notin hadBan /\ queue[j].user \notin hadBan
<1>1. NoMatchMissed <=> \A i, j \in DOMAIN queue : i < j /\ Fit(i, j) => Unfit(queue[i], queue[j].user)
  BY DEF NoMatchMissed, Unfit
<1>2. Init => NoMatchMissed
  BY DEF Init, NoMatchMissed
<1>3. ASSUME IInv, Len(queue) <= Limit, NoMatchMissed, [Next]_vars PROVE NoMatchMissed'
  <2>1. TypeInv /\ Apart /\ ChatSteps
    BY <1>3, StepsOfChat DEF IInv
  <2>2. /\ blocks \subseteq blocks' /\ hadBan \subseteq hadBan'
        /\ \A m \in DOMAIN queue' : profile'[queue'[m].user] = profile[queue'[m].user]
    BY <1>3, <2>1, ProfileStays
  \* Two rows of the queue, in their order, do not suit each other.
  <2>3. ASSUME NEW k \in DOMAIN queue, NEW l \in DOMAIN queue, k < l,
               queue[k].mode = queue[l].mode, queue[k].user \notin hadBan, queue[l].user \notin hadBan
        PROVE  Unfit(queue[k], queue[l].user)
    BY <1>1, <1>3, <2>3
  <2>4. SUFFICES ASSUME NEW i \in DOMAIN queue', NEW j \in DOMAIN queue', i < j,
                        queue'[i].mode = queue'[j].mode,
                        queue'[i].user \notin hadBan', queue'[j].user \notin hadBan'
                 PROVE  Unfit(queue'[i], queue'[j].user)
    <3>1. ASSUME NEW i \in DOMAIN queue', NEW j \in DOMAIN queue', Unfit(queue'[i], queue'[j].user)
          PROVE  Unfit(queue[i], queue[j].user)'
      BY <2>2, <3>1 DEF Unfit, Blocked, Complete
    <3> QED
      BY <2>4, <3>1 DEF NoMatchMissed, Unfit
  <2>5. queue'[i].user \notin hadBan /\ queue'[j].user \notin hadBan
    BY <2>2, <2>4
  <2>6. ASSUME NEW new, Among(new), i \in DOMAIN new, j \in DOMAIN new,
               new[i] = queue'[i], new[j] = queue'[j]
        PROVE  Unfit(queue'[i], queue'[j].user)
    <3>1. PICK k, l \in DOMAIN queue : k < l /\ new[i] = queue[k] /\ new[j] = queue[l]
      BY <2>4, <2>6 DEF Among
    <3>2. /\ queue[k].mode = queue[l].mode
          /\ queue[k].user \notin hadBan /\ queue[l].user \notin hadBan
      BY <2>4, <2>5, <2>6, <3>1
    <3>3. Unfit(queue[k], queue[l].user)
      BY <2>3, <3>1, <3>2
    <3> QED
      BY <2>6, <3>1, <3>3
  <2>7. CASE Among(queue')
    BY <2>6, <2>7
  <2>8. ASSUME NEW u \in Users, NEW mode \in Modes, NEW gone \in SUBSET Users, Waits(u, mode, gone)
        PROVE  Unfit(queue'[i], queue'[j].user)
    <3>1. PICK row : row = [user |-> u, mode |-> mode, price |-> ChatCost(u, mode)]
      OBVIOUS
    <3>2. PICK rest : /\ Among(rest) /\ \A m \in DOMAIN rest : rest[m].user \notin {u} \cup gone
                      /\ queue' = Append(rest, row)
      BY <2>8, <3>1 DEF Waits
    <3>3. Hits(u, mode) = {} /\ gone = Broke(u, mode)
      BY <2>8 DEF Waits
    <3>4. rest \in Seq(Row) /\ Len(rest) \in Nat /\ DOMAIN rest = 1 .. Len(rest)
      BY <3>2, LenProperties DEF Among
    <3>5. /\ DOMAIN queue' = 1 .. Len(rest) + 1 /\ queue'[Len(rest) + 1] = row
          /\ \A m \in DOMAIN rest : queue'[m] = rest[m]
      BY <3>2, <3>4
    <3>6. i \in DOMAIN rest /\ (j \in DOMAIN rest \/ j = Len(rest) + 1)
      BY <2>4, <3>4, <3>5
    <3>7. CASE j \in DOMAIN rest
      BY <2>6, <3>2, <3>5, <3>6, <3>7
    <3>8. CASE j = Len(rest) + 1
      <4>1. PICK k \in DOMAIN queue : rest[i] = queue[k]
        BY <3>2, <3>6 DEF Among
      <4>2. /\ queue'[i] = queue[k] /\ queue'[j].user = u /\ queue'[j].mode = mode
            /\ queue[k].user \notin {u} \cup gone
        BY <3>1, <3>2, <3>5, <3>6, <3>8, <4>1
      <4>3. Unfit(queue[k], u)
        BY <1>3, <2>1, <2>4, <2>5, <3>3, <4>2, PassedOver
      <4> QED
        BY <4>2, <4>3
    <3> QED
      BY <3>6, <3>7, <3>8
  <2>9. Among(queue)
    BY <2>1, QueueSelf DEF TypeInv
  <2>10. CASE UNCHANGED queue
    BY <2>6, <2>9, <2>10
  <2> QED
    BY <2>1, <2>7, <2>8, <2>10 DEF ChatSteps, Departs, Joined
<1> QED
  BY <1>2, <1>3, AlwaysIInv, PTL DEF Spec

-----------------------------------------------------------------------------
(* The media library.                                                        *)

ItemRow == [owner : Readers \cup {Nobody}, status : {"none", "draft", "published", "removed"},
            type : {"", "movie", "series", "public", "private"},
            season : BOOLEAN, episode : BOOLEAN, marked : SUBSET (0 .. Steps)]
Asking == {"", "type", "season", "episode", "meta", "cover", "plnew", "report"}
ReportRow == [by : Readers, on : L!Files, status : {"pending", "removed", "dismissed"}]

\* A question about a field is about one of the fields, a report is of a file.
LibraryTyped ==
  /\ item \in [L!Items -> ItemRow] /\ day \in Nat
  /\ question \in [Readers -> Asking \X (L!Items \cup {Nobody}) \X Nat]
  /\ \A u \in Readers : /\ question[u][1] = "meta" => question[u][3] \in 1 .. Steps
                        /\ question[u][1] = "report" => question[u][2] \in L!Files

\* A film that everybody sees can be told from the others of its series.
FullyTold(f, row) ==
  f \in Films /\ row.status = "published" =>
    row.type # "" /\ (row.type = "series" => row.season /\ row.episode)

FilmsComplete == \A f \in Films : FullyTold(f, item[f])

\* A user has one report of a file, whatever became of it.
ReportsFit ==
  /\ reports \subseteq ReportRow
  /\ \A r, q \in reports : r.by = q.by /\ r.on = q.on => r = q

\* Only what was published is announced.
NoticesFit ==
  /\ \A m \in notices : m.on \in L!Files /\ item[m.on].status \in {"published", "removed"}
  /\ L!ToldOnce

\* Points of the past and of this day, within the limits.
LedgerFits ==
  /\ IsFiniteSet(ledger) /\ \A r \in ledger : r.points \in Nat /\ r.day \in Nat /\ r.day <= day
  /\ L!RewardedOnce /\ L!CapsHold

LibraryInd ==
  LibraryTyped /\ FilmsComplete /\ ReportsFit /\ L!LikesAreVotes /\ NoticesFit /\ LedgerFits

Publishes ==
  \E u \in Readers, f \in L!Files, fields \in SUBSET (0 .. Steps) :
    L!Draft(u, f) /\ L!Publish(u, f, fields)

\* What a row of a file may become.
Stands(i) ==
  /\ L!Published(i) => item'[i] \in {item[i], [item[i] EXCEPT !.status = "removed"]}
  /\ item[i].status = "removed" => item'[i] = item[i]

-----------------------------------------------------------------------------
(* Points.                                                                   *)

\* The points of each row of the ledger.
Points == [r \in ledger |-> r.points]
Countable == IsFiniteSet(ledger) /\ \A r \in ledger : r.points \in Nat

\* The sum in Library is that of the lemmas in Sums.
LEMMA LibrarySum == ASSUME NEW f, NEW S PROVE L!SumFunctionOnSet(f, S) = SumFunctionOnSet(f, S)
  BY DEF L!SumFunctionOnSet, L!FoldFunctionOnSet, L!MapThenFoldSet, SumFunctionOnSet,
     FoldFunctionOnSet, MapThenFoldSet

\* What somebody earned in a day, with some kinds of rows, is a sum of points.
LEMMA EarnedIs ==
  ASSUME NEW u, NEW kinds, NEW d
  PROVE  /\ L!Earned(u, kinds, d) = SumFunctionOnSet(Points, L!Rows(u, kinds, d))
         /\ L!Rows(u, kinds, d) \in SUBSET ledger
  BY LibrarySum DEF L!Earned, L!Rows, Points

\* The sum over some rows can be formed, and grows with them.
LEMMA EarnedTyped ==
  ASSUME Countable, NEW u, NEW kinds, NEW d
  PROVE  /\ IsFiniteSet(L!Rows(u, kinds, d)) /\ L!Earned(u, kinds, d) \in Int
         /\ \A r \in L!Rows(u, kinds, d) : Points[r] \in Nat
<1>1. L!Rows(u, kinds, d) \in SUBSET ledger
  BY EarnedIs
<1>2. IsFiniteSet(L!Rows(u, kinds, d)) /\ \A r \in L!Rows(u, kinds, d) : Points[r] \in Nat
  BY <1>1, FS_Subset DEF Countable, Points
<1>3. \A r \in L!Rows(u, kinds, d) : Points[r] \in Int
  BY <1>2
<1>4. SumFunctionOnSet(Points, L!Rows(u, kinds, d)) \in Int
  BY <1>2, <1>3, SumFirst
<1> QED
  BY <1>2, <1>4, EarnedIs

\* With more kinds of rows a user has earned no less.
LEMMA EarnedWithin ==
  ASSUME Countable, NEW u, NEW some, NEW more, some \subseteq more, NEW d
  PROVE  L!Earned(u, some, d) <= L!Earned(u, more, d)
<1>1. L!Rows(u, some, d) \in SUBSET L!Rows(u, more, d)
  BY DEF L!Rows
<1> QED
  BY <1>1, EarnedTyped, SumWithin, EarnedIs

\* Nothing is earned where there is no row.
LEMMA EarnedNothing ==
  ASSUME Countable, NEW u, NEW kinds, NEW d, L!Rows(u, kinds, d) = {}
  PROVE  L!Earned(u, kinds, d) = 0
BY EarnedTyped, EarnedIs, SumFirst

\* Rows that are not of a user, kind and day change nothing in what he earned.
LEMMA EarnedSame ==
  ASSUME Countable, ledger \subseteq ledger', NEW u, NEW kinds, NEW d,
         L!Rows(u, kinds, d)' = L!Rows(u, kinds, d)
  PROVE  L!Earned(u, kinds, d)' = L!Earned(u, kinds, d)
<1> DEFINE R == L!Rows(u, kinds, d)
<1>1. R \in SUBSET ledger /\ IsFiniteSet(R) /\ \A r \in R : Points[r] \in Int
  BY EarnedIs, EarnedTyped
<1>2. \A r \in R : Points'[r] = Points[r]
  BY <1>1 DEF Points
<1>3. L!Earned(u, kinds, d)' = SumFunctionOnSet(Points', L!Rows(u, kinds, d)')
  BY LibrarySum DEF L!Earned, Points
<1>4. L!Earned(u, kinds, d)' = SumFunctionOnSet(Points', R)
  BY <1>3
<1> HIDE DEF R
<1>5. SumFunctionOnSet(Points', R) = SumFunctionOnSet(Points, R)
  BY <1>1, <1>2, SumAgrees
<1> QED
  BY <1>4, <1>5, EarnedIs DEF R

\* A row more.
LEMMA EarnedMore ==
  ASSUME Countable, ledger \subseteq ledger', NEW x \in ledger', x \notin ledger, x.points \in Nat,
         NEW u, NEW kinds, NEW d, L!Rows(u, kinds, d)' = L!Rows(u, kinds, d) \cup {x}
  PROVE  L!Earned(u, kinds, d)' = L!Earned(u, kinds, d) + x.points
<1> DEFINE R == L!Rows(u, kinds, d)
<1>1. R \in SUBSET ledger /\ IsFiniteSet(R) /\ \A r \in R : Points[r] \in Int
  BY EarnedIs, EarnedTyped
<1>2. \A r \in R : Points'[r] = Points[r]
  BY <1>1 DEF Points
<1>3. x \notin R /\ Points'[x] = x.points
  BY <1>1 DEF Points
<1>4. L!Earned(u, kinds, d)' = SumFunctionOnSet(Points', L!Rows(u, kinds, d)')
  BY LibrarySum DEF L!Earned, Points
<1>5. L!Earned(u, kinds, d)' = SumFunctionOnSet(Points', R \cup {x})
  BY <1>4
<1>6. L!Earned(u, kinds, d) = SumFunctionOnSet(Points, R)
  BY EarnedIs
<1> HIDE DEF R
<1>7. SumFunctionOnSet(Points', R) = SumFunctionOnSet(Points, R)
  BY <1>1, <1>2, SumAgrees
<1>8. \A r \in R \cup {x} : Points'[r] \in Int
  BY <1>1, <1>2, <1>3
<1>9. SumFunctionOnSet(Points', R \cup {x}) = SumFunctionOnSet(Points', R) + Points'[x]
  BY <1>1, <1>3, <1>8, SumWith
<1> QED
  BY <1>3, <1>5, <1>6, <1>7, <1>9

-----------------------------------------------------------------------------
\* The invariant holds before the first submission.
LEMMA LibraryStart == L!Init => LibraryInd
<1> SUFFICES ASSUME L!Init PROVE LibraryInd
  OBVIOUS
<1> USE DEF L!Init
<1>1. L!NoItem \in ItemRow /\ L!NoItem.status = "none"
  BY DEF L!NoItem, ItemRow
<1>2. L!Quiet \in Asking \X (L!Items \cup {Nobody}) \X Nat /\ L!Quiet[1] = ""
  BY DEF L!Quiet, Asking
<1>3. LibraryTyped
  BY <1>1, <1>2 DEF LibraryTyped
<1>4. FilmsComplete
  BY <1>1 DEF FilmsComplete, FullyTold, L!Items, L!Files
<1>5. ReportsFit /\ L!LikesAreVotes /\ NoticesFit
  BY DEF ReportsFit, L!LikesAreVotes, NoticesFit, L!ToldOnce
<1>6. LedgerFits
  <2>1. IsFiniteSet(ledger)
    BY FS_EmptySet
  <2>2. \A u, kinds, d : L!Rows(u, kinds, d) = {}
    BY DEF L!Rows
  <2>3. \A u, kinds, d : L!Earned(u, kinds, d) = 0
    BY <2>1, <2>2, EarnedNothing DEF Countable
  <2>4. L!CapsHold
    BY <2>3, LibraryAssumption DEF L!CapsHold
  <2> QED
    BY <2>1, <2>4 DEF LedgerFits, L!RewardedOnce
<1> QED
  BY <1>3, <1>4, <1>5, <1>6 DEF LibraryInd
-----------------------------------------------------------------------------
(* Points that are given.                                                    *)

\* A row keeps its user within the limit of its kind.
Within(r) ==
  /\ r.kind = "media_metadata" => L!Earned(r.to, {"media_metadata"}, day) + r.points <= FieldCap
  /\ r.kind = "social_post" => L!Earned(r.to, {"social_post"}, day) + r.points <= PostCap
  /\ r.kind = "media_like" => L!Earned(r.to, {"media_like"}, day) + r.points <= LikeCap
  /\ r.kind = "social_like" => L!Earned(r.to, {"social_like"}, day) + r.points <= LikeCap

\* New rows of this day with references of their own, one of a kind at most.
Given(new) ==
  /\ IsFiniteSet(new)
  /\ \A r \in new : /\ r.points \in Nat /\ r.day = day /\ Within(r)
                    /\ \A old \in ledger : old.ref # r.ref
  /\ \A r, q \in new : r.ref = q.ref \/ r.kind = q.kind => r = q

\* What somebody earned in a day stays within a limit when rows that keep it are given.
LEMMA EarnedGiven ==
  ASSUME LedgerFits, NEW new, Given(new), ledger' = ledger \cup new, NEW u, NEW kind, NEW d,
         NEW cap \in Nat, L!Earned(u, {kind}, d) <= cap,
         \A r \in new : r.kind = kind => L!Earned(r.to, {kind}, day) + r.points <= cap
  PROVE  L!Earned(u, {kind}, d)' <= cap
<1>1. Countable /\ ledger \subseteq ledger'
  BY DEF LedgerFits, Countable
<1>2. CASE \E r \in new : r.to = u /\ r.kind = kind /\ r.day = d
  <2>1. PICK r \in new : r.to = u /\ r.kind = kind /\ r.day = d
    BY <1>2
  <2>2. r.points \in Nat /\ r.day = day /\ r \notin ledger /\ r \in ledger'
    BY DEF Given
  <2>3. L!Rows(u, {kind}, d)' = L!Rows(u, {kind}, d) \cup {r}
    BY <2>1 DEF L!Rows, Given
  <2>4. L!Earned(u, {kind}, d)' = L!Earned(u, {kind}, d) + r.points
    BY <1>1, <2>2, <2>3, EarnedMore
  <2>5. L!Earned(u, {kind}, d) + r.points <= cap
    BY <2>1, <2>2
  <2> QED
    BY <2>4, <2>5
<1>3. CASE ~\E r \in new : r.to = u /\ r.kind = kind /\ r.day = d
  <2>1. L!Rows(u, {kind}, d)' = L!Rows(u, {kind}, d)
    BY <1>3 DEF L!Rows
  <2>2. L!Earned(u, {kind}, d)' = L!Earned(u, {kind}, d)
    BY <1>1, <2>1, EarnedSame
  <2> QED
    BY <2>2
<1> QED
  BY <1>2, <1>3

\* The ledger keeps its limits when such rows are given.
LEMMA LedgerGiven ==
  ASSUME LedgerFits, NEW new, Given(new), ledger' = ledger \cup new, UNCHANGED day, day \in Nat
  PROVE  LedgerFits'
<1>1. /\ IsFiniteSet(ledger') /\ \A r \in ledger' : r.points \in Nat /\ r.day \in Nat /\ r.day <= day'
  <2>1. IsFiniteSet(ledger')
    BY FS_Union DEF LedgerFits, Given
  <2> QED
    BY <2>1 DEF LedgerFits, Given
<1>2. L!RewardedOnce'
  BY DEF LedgerFits, L!RewardedOnce, Given
<1>3. L!CapsHold'
  <2> SUFFICES ASSUME NEW u \in Readers, NEW d \in 0 .. day
               PROVE  /\ L!Earned(u, {"media_metadata"}, d)' <= FieldCap
                      /\ L!Earned(u, {"social_post"}, d)' <= PostCap
                      /\ L!Earned(u, {"media_like"}, d)' <= LikeCap
                      /\ L!Earned(u, {"social_like"}, d)' <= LikeCap
    BY DEF L!CapsHold
  <2>1. /\ L!Earned(u, {"media_metadata"}, d) <= FieldCap
        /\ L!Earned(u, {"social_post"}, d) <= PostCap
        /\ L!Earned(u, {"media_like"}, d) <= LikeCap
        /\ L!Earned(u, {"social_like"}, d) <= LikeCap
    BY DEF LedgerFits, L!CapsHold
  <2>2. \A r \in new : Within(r)
    BY DEF Given
  <2>3. FieldCap \in Nat /\ PostCap \in Nat /\ LikeCap \in Nat
    BY LibraryAssumption
  <2>4. L!Earned(u, {"media_metadata"}, d)' <= FieldCap
    BY <2>1, <2>2, <2>3, EarnedGiven DEF Within
  <2>5. L!Earned(u, {"social_post"}, d)' <= PostCap
    BY <2>1, <2>2, <2>3, EarnedGiven DEF Within
  <2>6. L!Earned(u, {"media_like"}, d)' <= LikeCap
    BY <2>1, <2>2, <2>3, EarnedGiven DEF Within
  <2>7. L!Earned(u, {"social_like"}, d)' <= LikeCap
    BY <2>1, <2>2, <2>3, EarnedGiven DEF Within
  <2> QED
    BY <2>4, <2>5, <2>6, <2>7
<1> QED
  BY <1>1, <1>2, <1>3 DEF LedgerFits

\* The row of an award.
LEMMA AwardRow ==
  ASSUME NEW u, NEW gain, NEW kind, NEW ref, NEW r \in L!Award(u, gain, kind, ref)
  PROVE  /\ r = [to |-> u, points |-> gain, kind |-> kind, ref |-> ref, day |-> day]
         /\ gain > 0 /\ \A old \in ledger : old.ref # ref
  BY DEF L!Award

\* An award is one row at most.
LEMMA AwardFinite ==
  ASSUME NEW u, NEW gain, NEW kind, NEW ref
  PROVE  IsFiniteSet(L!Award(u, gain, kind, ref))
<1> DEFINE r == [to |-> u, points |-> gain, kind |-> kind, ref |-> ref, day |-> day]
<1>1. L!Award(u, gain, kind, ref) \in SUBSET {r}
  BY DEF L!Award
<1>2. IsFiniteSet({r})
  BY FS_Singleton
<1> QED
  BY <1>1, <1>2, FS_Subset

\* What is left of a limit is an integer, and an award is no more than that.
LEMMA FieldRow ==
  ASSUME LedgerFits, NEW u, NEW f, NEW fields \in SUBSET (0 .. Steps), NEW r \in L!FieldReward(u, f, fields)
  PROVE  /\ r.to = u /\ r.kind = "media_metadata" /\ r.ref = <<"metadata", f>> /\ r.day = day
         /\ r.points \in Nat /\ Within(r) /\ (\A old \in ledger : old.ref # r.ref)
         /\ \A q \in L!FieldReward(u, f, fields) : q = r
<1> DEFINE left == FieldCap - L!Earned(u, {"media_metadata"}, day)
           all == Cardinality(fields) * FieldPoints
<1>1. L!Earned(u, {"media_metadata"}, day) \in Int
  BY EarnedTyped DEF LedgerFits, Countable
<1>2. all \in Int
  <2>1. IsFiniteSet(fields)
    <3>1. IsFiniteSet(0 .. Steps)
      BY LibraryAssumption, FS_Interval
    <3> QED
      BY <3>1, FS_Subset
  <2> QED
    BY <2>1, LibraryAssumption, FS_CardinalityType
<1>3. r.points = L!MinOf(all, left) /\ r.points > 0 /\ r.to = u /\ r.kind = "media_metadata"
      /\ r.ref = <<"metadata", f>> /\ r.day = day /\ (\A old \in ledger : old.ref # r.ref)
      /\ \A q \in L!FieldReward(u, f, fields) : q = r
  <2>1. L!FieldReward(u, f, fields) = L!Award(u, L!MinOf(all, left), "media_metadata", <<"metadata", f>>)
    BY DEF L!FieldReward, L!Left, L!Cardinality, Cardinality
  <2> QED
    BY <2>1, AwardRow
<1> HIDE DEF all
<1>4. r.points \in Int /\ r.points <= left
  BY <1>1, <1>2, <1>3, LibraryAssumption DEF L!MinOf
<1> QED
  BY <1>1, <1>3, <1>4, LibraryAssumption DEF Within

\* So it is with a publication,
LEMMA PostRow ==
  ASSUME LedgerFits, NEW u, NEW i, NEW r \in L!PostReward(u, i)
  PROVE  /\ r.to = u /\ r.kind = "social_post" /\ r.ref = <<"post", i>> /\ r.day = day
         /\ r.points \in Nat /\ Within(r) /\ (\A old \in ledger : old.ref # r.ref)
         /\ \A q \in L!PostReward(u, i) : q = r
<1> DEFINE left == PostCap - L!Earned(u, {"social_post"}, day)
<1>1. L!Earned(u, {"social_post"}, day) \in Int
  BY EarnedTyped DEF LedgerFits, Countable
<1>2. r.points = L!MinOf(PostPoints, left) /\ r.points > 0 /\ r.to = u /\ r.kind = "social_post"
      /\ r.ref = <<"post", i>> /\ r.day = day /\ (\A old \in ledger : old.ref # r.ref)
      /\ \A q \in L!PostReward(u, i) : q = r
  BY AwardRow DEF L!PostReward, L!Left
<1>3. r.points \in Int /\ r.points <= left
  BY <1>1, <1>2, LibraryAssumption DEF L!MinOf
<1> QED
  BY <1>1, <1>2, <1>3, LibraryAssumption DEF Within

\* and with a like of a file or a list.
LEMMA LikeRow ==
  ASSUME LedgerFits, NEW u, NEW by, NEW i, NEW r \in L!LikeReward(u, by, i)
  PROVE  /\ r.day = day /\ r.points \in Nat /\ Within(r) /\ \A old \in ledger : old.ref # r.ref
         /\ \A q \in L!LikeReward(u, by, i) : q = r
<1> DEFINE left == LikeCap - L!Earned(u, {"media_like"}, day)
<1>1. L!Earned(u, {"media_like"}, day) \in Int
  BY EarnedTyped DEF LedgerFits, Countable
<1>2. r.points = L!MinOf(LikePoints, left) /\ r.points > 0 /\ r.to = u /\ r.kind = "media_like"
      /\ r.day = day /\ (\A old \in ledger : old.ref # r.ref)
      /\ \A q \in L!LikeReward(u, by, i) : q = r
  BY AwardRow DEF L!LikeReward, L!Left
<1>3. r.points \in Int /\ r.points <= left
  BY <1>1, <1>2, LibraryAssumption DEF L!MinOf
<1> QED
  BY <1>1, <1>2, <1>3, LibraryAssumption DEF Within

\* Likes of profiles leave room for those of files.
LEMMA VoteRow ==
  ASSUME LedgerFits, NEW u, NEW by, NEW r \in L!VoteReward(u, by)
  PROVE  /\ r.day = day /\ r.points \in Nat /\ Within(r) /\ \A old \in ledger : old.ref # r.ref
         /\ \A q \in L!VoteReward(u, by) : q = r
<1> DEFINE left == LikeCap - L!Earned(u, {"social_like", "media_like"}, day)
<1>1. /\ L!Earned(u, {"social_like", "media_like"}, day) \in Int
      /\ L!Earned(u, {"social_like"}, day) \in Int
      /\ L!Earned(u, {"social_like"}, day) <= L!Earned(u, {"social_like", "media_like"}, day)
  BY EarnedTyped, EarnedWithin DEF LedgerFits, Countable
<1>2. r.points = L!MinOf(LikePoints, left) /\ r.points > 0 /\ r.to = u /\ r.kind = "social_like"
      /\ r.day = day /\ (\A old \in ledger : old.ref # r.ref)
      /\ \A q \in L!VoteReward(u, by) : q = r
  BY AwardRow DEF L!VoteReward, L!Left
<1>3. r.points \in Int /\ r.points <= left
  BY <1>1, <1>2, LibraryAssumption DEF L!MinOf
<1> QED
  BY <1>1, <1>2, <1>3, LibraryAssumption DEF Within
-----------------------------------------------------------------------------
(* Steps of the library.                                                     *)

\* What the handlers change beside files and questions.
Tables ==
  /\ \/ UNCHANGED reports
     \/ \E u \in Readers : L!SendReport(u)
     \/ \E r \in reports : r.status = "pending" /\ (L!Uphold(r) \/ L!Dismiss(r))
  /\ \/ UNCHANGED <<likes, reactions>>
     \/ \E u \in Readers, i \in L!Items : L!Like(u, i) \/ L!Dislike(u, i)
     \/ \E u, v \in Readers, n \in {1, -1} : L!VoteProfile(u, v, n)
  /\ UNCHANGED notices \/ Publishes
  /\ \/ UNCHANGED <<ledger, day>> \/ Publishes \/ L!NewDay
     \/ \E u \in Readers, l \in Lists : L!NameList(u, l)
     \/ \E u \in Readers, i \in L!Items : L!Like(u, i)
     \/ \E u, v \in Readers, n \in {1, -1} : L!VoteProfile(u, v, n)

Plain == UNCHANGED <<reports, likes, reactions, notices, ledger, day>>

\* What none of these is about.
LEMMA PlainTables == Plain => Tables
  BY DEF Plain, Tables

\* A publication, or the question that stands in its way.
LEMMA PublishTables ==
  ASSUME NEW u \in Readers, NEW f \in L!Files, NEW fields \in SUBSET (0 .. Steps),
         L!Draft(u, f), L!Publish(u, f, fields)
  PROVE  Tables
<1>1. Publishes
  BY DEF Publishes
<1>2. UNCHANGED <<reports, likes, reactions>>
  BY DEF L!Publish, L!Ask, L!Rest
<1> QED
  BY <1>1, <1>2 DEF Tables

\* What each handler does to the tables.
LEMMA TablesStep == ASSUME LibraryTyped, L!Next PROVE Tables
<1> USE DEF L!Ask, L!Rest, L!Unheard
<1>1. ASSUME NEW u \in Readers, L!Menu(u) \/ L!AskList(u) \/ L!GiveNumber(u) \/ L!FillField(u) PROVE Plain
  BY <1>1 DEF Plain, L!Menu, L!AskList, L!GiveNumber, L!FillField
<1>2. ASSUME NEW u \in Readers, L!SendCover(u) PROVE Tables
  <2>1. PICK f \in L!Files : L!Draft(u, f) /\ L!Publish(u, f, item[f].marked \cup {0})
    BY <1>2 DEF L!SendCover
  <2>2. item[f].marked \cup {0} \in SUBSET (0 .. Steps)
    <3>1. item[f].marked \in SUBSET (0 .. Steps)
      BY DEF LibraryTyped, ItemRow, L!Items
    <3>2. 0 \in 0 .. Steps
      BY LibraryAssumption
    <3> QED
      BY <3>1, <3>2
  <2> QED
    BY <2>1, <2>2, PublishTables
<1>3. ASSUME NEW u \in Readers, L!SendReport(u) PROVE Tables
  BY <1>3 DEF Tables, L!SendReport
<1>4. ASSUME NEW u \in Readers, NEW f \in L!Files,
             \/ L!Accept(u, f) \/ L!Finish(u, f) \/ L!Cancel(u, f) \/ L!AskReport(u, f)
             \/ \E t \in {"movie", "series"} : L!ChooseType(u, f, t)
             \/ \E n \in 1 .. Steps : L!Skip(u, f, n)
             \/ \E l \in Lists : L!AddTo(u, l, f)
      PROVE  Plain
  BY <1>4 DEF Plain, L!Accept, L!Finish, L!Cancel, L!AskReport, L!ChooseType, L!Skip, L!AddTo
<1>5. ASSUME NEW u \in Readers, NEW f \in L!Files, L!PublishPlain(u, f) PROVE Tables
  <2>1. item[f].marked \in SUBSET (0 .. Steps)
    BY DEF LibraryTyped, ItemRow, L!Items
  <2>2. L!Draft(u, f) /\ L!Publish(u, f, item[f].marked)
    BY <1>5 DEF L!PublishPlain
  <2> QED
    BY <2>1, <2>2, PublishTables
<1>6. ASSUME NEW u \in Readers, NEW l \in Lists, L!NameList(u, l) PROVE Tables
  BY <1>6 DEF Tables, L!NameList
<1>7. ASSUME NEW u \in Readers, NEW l \in Lists, L!Join(u, l) PROVE Plain
  BY <1>7 DEF Plain, L!Join
<1>8. ASSUME NEW u \in Readers, NEW i \in L!Items, L!Remove(u, i) PROVE Plain
  BY <1>8 DEF Plain, L!Remove
<1>9. ASSUME NEW u \in Readers, NEW i \in L!Items, L!Like(u, i) \/ L!Dislike(u, i) PROVE Tables
  <2>1. UNCHANGED <<reports, notices, day>> /\ (L!Dislike(u, i) => UNCHANGED ledger)
    BY <1>9 DEF L!Like, L!Dislike, L!Casting
  <2> QED
    BY <1>9, <2>1 DEF Tables
<1>10. ASSUME NEW u \in Readers, NEW v \in Readers, NEW n \in {1, -1}, L!VoteProfile(u, v, n) PROVE Tables
  <2>1. UNCHANGED <<reports, notices>>
    BY <1>10 DEF L!VoteProfile, L!Casting
  <2> QED
    BY <1>10, <2>1 DEF Tables
<1>11. ASSUME NEW r \in reports, r.status = "pending", L!Uphold(r) \/ L!Dismiss(r) PROVE Tables
  BY <1>11 DEF Tables, L!Uphold, L!Dismiss
<1>12. ASSUME NEW s \in L!Switches, L!SetBroadcast(s) PROVE Plain
  BY <1>12 DEF Plain, L!SetBroadcast
<1>13. ASSUME L!NewDay PROVE Tables
  BY <1>13 DEF Tables, L!NewDay
<1> QED
  BY <1>1, <1>2, <1>3, <1>4, <1>5, <1>6, <1>7, <1>8, <1>9, <1>10, <1>11, <1>12, <1>13, PlainTables
     DEF L!Next

\* Reports stay one for each user and file, and a decision to remove settles them all.
LEMMA ReportsStep ==
  ASSUME LibraryInd, Tables
  PROVE  /\ ReportsFit'
         /\ \A r \in reports : r \notin reports' /\ [r EXCEPT !.status = "removed"] \in reports' =>
              \A q \in reports' : q.on = r.on => q.status # "pending"
<1> USE DEF LibraryInd
<1>1. CASE UNCHANGED reports
  BY <1>1 DEF ReportsFit
<1>2. ASSUME NEW u \in Readers, L!SendReport(u)
      PROVE  ReportsFit' /\ \A r \in reports : r \in reports'
  <2> DEFINE new == [by |-> u, on |-> L!About(u), status |-> "pending"]
  <2>1. new \in ReportRow
    BY <1>2 DEF L!SendReport, L!Asked, L!About, LibraryTyped, ReportRow
  <2>2. \/ reports' = reports
        \/ reports' = reports \cup {new} /\ ~\E r \in reports : r.by = u /\ r.on = L!About(u)
    BY <1>2 DEF L!SendReport
  <2>3. new.by = u /\ new.on = L!About(u)
    OBVIOUS
  <2> HIDE DEF new
  <2> QED
    BY <2>1, <2>2, <2>3 DEF ReportsFit
<1>3. ASSUME NEW r \in reports, r.status = "pending", L!Uphold(r) \/ L!Dismiss(r)
      PROVE  /\ ReportsFit'
             /\ \A s \in reports : s \notin reports' /\ [s EXCEPT !.status = "removed"] \in reports' =>
                  \A q \in reports' : q.on = s.on => q.status # "pending"
  <2>1. \A s \in reports : /\ s \in ReportRow
                           /\ \A w \in {"removed", "dismissed"} :
                                LET t == [s EXCEPT !.status = w]
                                IN t \in ReportRow /\ t.by = s.by /\ t.on = s.on /\ t.status = w
    BY DEF ReportsFit, ReportRow
  <2>2. ASSUME NEW rs \in SUBSET reports, NEW w \in {"removed", "dismissed"},
               reports' = (reports \ rs) \cup {[s EXCEPT !.status = w] : s \in rs}
        PROVE  ReportsFit' /\ \A q \in reports' : q \in reports \/ q.status = w
    <3>1. \A q \in reports' : \/ q \in reports /\ q \notin rs
                              \/ \E s \in rs : q = [s EXCEPT !.status = w]
      BY <2>2
    <3>2. \A q \in reports' : /\ q \in ReportRow /\ (q \in reports \/ q.status = w)
                              /\ \E s \in reports : /\ s.by = q.by /\ s.on = q.on
                                                    /\ s \in rs => q = [s EXCEPT !.status = w]
                                                    /\ s \notin rs => q = s
      <4> TAKE q \in reports'
      <4>1. CASE q \in reports /\ q \notin rs
        BY <2>1, <4>1
      <4>2. CASE \E s \in rs : q = [s EXCEPT !.status = w]
        <5>1. PICK s \in rs : q = [s EXCEPT !.status = w]
          BY <4>2
        <5>2. s \in reports
          OBVIOUS
        <5>3. q \in ReportRow /\ q.by = s.by /\ q.on = s.on /\ q.status = w
          BY <2>1, <5>1, <5>2
        <5> QED
          BY <5>1, <5>2, <5>3
      <4> QED
        BY <3>1, <4>1, <4>2
    <3>3. \A q, p \in reports' : q.by = p.by /\ q.on = p.on => q = p
      <4> SUFFICES ASSUME NEW q \in reports', NEW p \in reports', q.by = p.by, q.on = p.on PROVE q = p
        OBVIOUS
      <4>1. PICK s \in reports : /\ s.by = q.by /\ s.on = q.on
                                 /\ s \in rs => q = [s EXCEPT !.status = w]
                                 /\ s \notin rs => q = s
        BY <3>2
      <4>2. PICK t \in reports : /\ t.by = p.by /\ t.on = p.on
                                 /\ t \in rs => p = [t EXCEPT !.status = w]
                                 /\ t \notin rs => p = t
        BY <3>2
      <4>3. s = t
        BY <4>1, <4>2 DEF ReportsFit
      <4>4. CASE s \in rs
        BY <4>1, <4>2, <4>3, <4>4
      <4>5. CASE s \notin rs
        BY <4>1, <4>2, <4>3, <4>5
      <4> QED
        BY <4>4, <4>5
    <3>4. reports' \subseteq ReportRow
      BY <3>2
    <3>5. ReportsFit'
      BY <3>3, <3>4 DEF ReportsFit
    <3> QED
      BY <3>2, <3>5
  <2>3. CASE L!Uphold(r)
    <3> DEFINE rs == L!Pending(r.on)
    <3>1. rs \in SUBSET reports /\ reports' = (reports \ rs) \cup {[s EXCEPT !.status = "removed"] : s \in rs}
      BY <2>3 DEF L!Uphold, L!Close, L!Pending
    <3>2. ReportsFit'
      BY <2>2, <3>1
    <3>3. ASSUME NEW s \in reports, s \notin reports', NEW q \in reports', q.on = s.on
          PROVE  q.status # "pending"
      <4>1. s \in rs /\ s.on = r.on
        BY <3>1, <3>3 DEF L!Pending
      <4>2. q \in rs => q \notin reports \ rs
        OBVIOUS
      <4>3. CASE q \in reports \ rs
        BY <3>3, <4>1, <4>3 DEF L!Pending
      <4>4. CASE \E t \in rs : q = [t EXCEPT !.status = "removed"]
        BY <2>1, <3>1, <4>4
      <4> QED
        BY <3>1, <4>3, <4>4
    <3> QED
      BY <3>2, <3>3
  <2>4. CASE L!Dismiss(r)
    <3>1. reports' = (reports \ {r}) \cup {[s EXCEPT !.status = "dismissed"] : s \in {r}}
      BY <2>4 DEF L!Dismiss, L!Close
    <3>2. ReportsFit' /\ \A q \in reports' : q \in reports \/ q.status = "dismissed"
      BY <2>2, <3>1
    <3>3. ASSUME NEW s \in reports, s \notin reports', [s EXCEPT !.status = "removed"] \in reports'
          PROVE  FALSE
      <4>1. s = r
        BY <3>1, <3>3
      <4>2. [s EXCEPT !.status = "removed"] \in reports
        BY <2>1, <3>2, <3>3
      <4>3. [s EXCEPT !.status = "removed"] = s
        BY <2>1, <4>2 DEF ReportsFit
      <4> QED
        BY <1>3, <2>1, <4>1, <4>3
    <3> QED
      BY <3>2, <3>3
  <2> QED
    BY <1>3, <2>3, <2>4
<1> QED
  BY <1>1, <1>2, <1>3 DEF Tables

\* Likes and votes in favour change together.
LEMMA VotesStep == ASSUME LibraryInd, Tables PROVE L!LikesAreVotes'
<1> USE DEF LibraryInd
<1>1. CASE UNCHANGED <<likes, reactions>>
  BY <1>1 DEF L!LikesAreVotes, L!Vote
<1>2. ASSUME NEW u \in Readers, NEW i \in L!Items, L!Like(u, i) \/ L!Dislike(u, i)
      PROVE  L!LikesAreVotes'
  <2> SUFFICES ASSUME NEW v \in Readers, NEW j \in L!Items
               PROVE  <<v, j>> \in likes' <=> L!Vote(v, j, 1) \in reactions'
    BY DEF L!LikesAreVotes, L!Vote
  <2>1. <<v, j>> \in likes <=> L!Vote(v, j, 1) \in reactions
    BY DEF L!LikesAreVotes
  <2>2. /\ L!Vote(v, j, 1).by = v /\ L!Vote(v, j, 1).on = j
        /\ L!Vote(v, j, 1) # L!Vote(u, i, -1) /\ (<<v, j>> = <<u, i>> <=> v = u /\ j = i)
        /\ L!Vote(v, j, 1) = L!Vote(u, i, 1) <=> v = u /\ j = i
    BY DEF L!Vote
  <2>3. L!Vote(v, j, 1) \in L!Others(u, i) <=> L!Vote(v, j, 1) \in reactions /\ ~(v = u /\ j = i)
    BY <2>2 DEF L!Others
  <2>4. CASE L!Like(u, i)
    BY <2>1, <2>2, <2>3, <2>4 DEF L!Like
  <2>5. CASE L!Dislike(u, i)
    BY <2>1, <2>2, <2>3, <2>5 DEF L!Dislike
  <2> QED
    BY <1>2, <2>4, <2>5
<1>3. ASSUME NEW u \in Readers, NEW w \in Readers, NEW n \in {1, -1}, L!VoteProfile(u, w, n)
      PROVE  L!LikesAreVotes'
  <2> SUFFICES ASSUME NEW v \in Readers, NEW j \in L!Items
               PROVE  <<v, j>> \in likes' <=> L!Vote(v, j, 1) \in reactions'
    BY DEF L!LikesAreVotes, L!Vote
  <2>1. <<v, j>> \in likes <=> L!Vote(v, j, 1) \in reactions
    BY DEF L!LikesAreVotes
  <2>2. j # w /\ L!Vote(v, j, 1).on = j /\ L!Vote(v, j, 1) # L!Vote(u, w, n)
    BY LibraryAssumption DEF L!Vote
  <2>3. L!Vote(v, j, 1) \in L!Others(u, w) <=> L!Vote(v, j, 1) \in reactions
    BY <2>2 DEF L!Others
  <2> QED
    BY <1>3, <2>1, <2>2, <2>3 DEF L!VoteProfile
<1> QED
  BY <1>1, <1>2, <1>3 DEF Tables
-----------------------------------------------------------------------------
(* Files, lists and questions.                                               *)

ItemsKept ==
  /\ LibraryTyped' /\ FilmsComplete'
  /\ \A i \in L!Items : Stands(i)

\* Rows that are not touched.
LEMMA RowsStay ==
  ASSUME LibraryTyped, FilmsComplete, UNCHANGED item
  PROVE  item' \in [L!Items -> ItemRow] /\ FilmsComplete' /\ \A i \in L!Items : Stands(i)
  BY DEF LibraryTyped, FilmsComplete, FullyTold, Stands

\* One row is written: what is public is only removed, and what is removed stays.
LEMMA RowWritten ==
  ASSUME LibraryTyped, FilmsComplete, NEW f \in L!Items, NEW row \in ItemRow, FullyTold(f, row),
         item[f].status \in {"published", "removed"} => row = item[f],
         item' = [item EXCEPT ![f] = row]
  PROVE  item' \in [L!Items -> ItemRow] /\ FilmsComplete' /\ \A i \in L!Items : Stands(i)
<1>1. item' \in [L!Items -> ItemRow]
  BY DEF LibraryTyped
<1>2. \A i \in L!Items : item'[i] = IF i = f THEN row ELSE item[i]
  BY DEF LibraryTyped
<1>3. \A i \in Films : i \in L!Items
  BY DEF L!Items, L!Files
<1>4. FilmsComplete'
  BY <1>2, <1>3 DEF FilmsComplete, FullyTold
<1>5. \A i \in L!Items : Stands(i)
  BY <1>2 DEF Stands, L!Published
<1> QED
  BY <1>1, <1>4, <1>5

\* A file or a list is removed.
LEMMA RowGone ==
  ASSUME LibraryTyped, FilmsComplete, NEW f \in L!Items, L!Gone(f)
  PROVE  item' \in [L!Items -> ItemRow] /\ FilmsComplete' /\ \A i \in L!Items : Stands(i)
<1> DEFINE row == [item[f] EXCEPT !.status = "removed"]
<1>1. item[f] \in ItemRow
  BY DEF LibraryTyped
<1>2. row \in ItemRow /\ row.status = "removed" /\ (item[f].status = "removed" => row = item[f])
  BY <1>1 DEF ItemRow
<1>3. item' = [item EXCEPT ![f] = row]
  BY DEF L!Gone
<1> HIDE DEF row
<1>4. item' \in [L!Items -> ItemRow] /\ \A i \in L!Items : item'[i] = IF i = f THEN row ELSE item[i]
  BY <1>2, <1>3 DEF LibraryTyped
<1>5. \A i \in Films : i \in L!Items
  BY DEF L!Items, L!Files
<1>6. FilmsComplete'
  BY <1>2, <1>4, <1>5 DEF FilmsComplete, FullyTold
<1>7. \A i \in L!Items : Stands(i)
  BY <1>2, <1>4 DEF Stands, L!Published, row
<1> QED
  BY <1>4, <1>6, <1>7

\* A question that fits what it is about.
QuestionFits(p) ==
  /\ p \in Asking \X (L!Items \cup {Nobody}) \X Nat
  /\ p[1] = "meta" => p[3] \in 1 .. Steps
  /\ p[1] = "report" => p[2] \in L!Files

\* No question is one that fits.
LEMMA QuietFits == QuestionFits(L!Quiet)
  BY DEF QuestionFits, L!Quiet, Asking

\* The user is asked a question that fits.
LEMMA SaidTyped ==
  ASSUME LibraryTyped, item' \in [L!Items -> ItemRow], day' \in Nat,
         NEW u \in Readers, NEW p, QuestionFits(p), L!Say(u, p)
  PROVE  LibraryTyped'
<1>1. question' = [question EXCEPT ![u] = p]
  BY DEF L!Say
<1>2. \A v \in Readers : question'[v] = IF v = u THEN p ELSE question[v]
  BY <1>1 DEF LibraryTyped
<1>3. question' \in [Readers -> Asking \X (L!Items \cup {Nobody}) \X Nat]
  BY <1>1 DEF LibraryTyped, QuestionFits
<1> QED
  BY <1>2, <1>3 DEF LibraryTyped, QuestionFits

\* The next question about a file fits.
LEMMA NextQuestion ==
  ASSUME NEW f \in L!Files, NEW row, NEW n \in Nat \ {0}
  PROVE  QuestionFits(L!Question(f, row, n))
<1>1. f \in L!Items /\ Steps \in Nat
  BY LibraryAssumption DEF L!Items
<1>2. \A w \in {"type", "season", "episode", "cover"} : QuestionFits(<<w, f, 0>>)
  <2> TAKE w \in {"type", "season", "episode", "cover"}
  <2>1. w \in Asking /\ w # "meta" /\ w # "report"
    BY DEF Asking
  <2> QED
    BY <1>1, <2>1 DEF QuestionFits
<1>3. ~(n > Steps) => QuestionFits(<<"meta", f, n>>)
  <2> SUFFICES ASSUME ~(n > Steps) PROVE QuestionFits(<<"meta", f, n>>)
    OBVIOUS
  <2>1. "meta" \in Asking /\ n \in 1 .. Steps /\ n \in Nat
    BY <1>1 DEF Asking
  <2> QED
    BY <1>1, <2>1 DEF QuestionFits
<1> QED
  BY <1>2, <1>3 DEF L!Question

\* A row is written and its next question asked.
LEMMA AskStep ==
  ASSUME LibraryTyped, FilmsComplete, NEW u \in Readers, NEW f \in L!Files,
         NEW row \in ItemRow, FullyTold(f, row),
         item[f].status \in {"published", "removed"} => row = item[f],
         NEW n \in Nat \ {0}, L!Ask(u, f, row, n)
  PROVE  ItemsKept
<1>1. item' = [item EXCEPT ![f] = row] /\ L!Say(u, L!Question(f, row, n)) /\ day' = day /\ f \in L!Items
  BY DEF L!Ask, L!Rest, L!Items
<1>2. item' \in [L!Items -> ItemRow] /\ FilmsComplete' /\ \A i \in L!Items : Stands(i)
  BY <1>1, RowWritten
<1>3. LibraryTyped'
  BY <1>1, <1>2, NextQuestion, SaidTyped DEF LibraryTyped
<1> QED
  BY <1>2, <1>3 DEF ItemsKept

\* Nothing about files, and another question or none.
LEMMA SayStep ==
  ASSUME LibraryTyped, FilmsComplete, UNCHANGED item, day' \in Nat,
         \/ UNCHANGED question
         \/ \E u \in Readers : \E p : QuestionFits(p) /\ L!Say(u, p)
  PROVE  ItemsKept
<1>1. item' \in [L!Items -> ItemRow] /\ FilmsComplete' /\ \A i \in L!Items : Stands(i)
  BY RowsStay
<1>2. CASE UNCHANGED question
  BY <1>1, <1>2 DEF ItemsKept, LibraryTyped
<1>3. CASE \E u \in Readers : \E p : QuestionFits(p) /\ L!Say(u, p)
  BY <1>1, <1>3, SaidTyped DEF ItemsKept
<1> QED
  BY <1>2, <1>3

\* A draft is published, if it is complete.
LEMMA PublishStep ==
  ASSUME LibraryTyped, FilmsComplete, NEW u \in Readers, NEW f \in L!Files,
         NEW fields \in SUBSET (0 .. Steps), L!Draft(u, f), L!Publish(u, f, fields)
  PROVE  ItemsKept
<1> DEFINE row == [item[f] EXCEPT !.marked = fields]
           public == [row EXCEPT !.status = "published"]
<1>1. f \in L!Items /\ item[f] \in ItemRow /\ item[f].status = "draft"
  BY DEF LibraryTyped, L!Items, L!Draft
<1>2. /\ row \in ItemRow /\ row.status = "draft" /\ public \in ItemRow
      /\ public.type = item[f].type /\ public.season = item[f].season /\ public.episode = item[f].episode
  BY <1>1 DEF ItemRow
<1>3. CASE L!Ready(f)
  <2>1. item' = [item EXCEPT ![f] = public] /\ L!Say(u, L!Quiet) /\ day' = day
    BY <1>3 DEF L!Publish, L!Rest
  <2>2. FullyTold(f, public)
    BY <1>2, <1>3 DEF FullyTold, L!Ready
  <2> HIDE DEF public
  <2>3. item' \in [L!Items -> ItemRow] /\ FilmsComplete' /\ \A i \in L!Items : Stands(i)
    BY <1>1, <1>2, <2>1, <2>2, RowWritten
  <2>4. LibraryTyped'
    BY <2>1, <2>3, QuietFits, SaidTyped DEF LibraryTyped
  <2> QED
    BY <2>3, <2>4 DEF ItemsKept
<1>4. CASE ~L!Ready(f)
  <2>1. L!Ask(u, f, row, 1)
    BY <1>4 DEF L!Publish
  <2>2. FullyTold(f, row)
    BY <1>2 DEF FullyTold
  <2> HIDE DEF row
  <2> QED
    BY <1>1, <1>2, <2>1, <2>2, AskStep
<1> QED
  BY <1>3, <1>4
\* What becomes of files, lists and questions.
LEMMA ItemsStep == ASSUME LibraryInd, L!Next PROVE ItemsKept
<1> USE DEF LibraryInd
<1>0. /\ day \in Nat /\ day + 1 \in Nat /\ Steps \in Nat /\ 0 \in 0 .. Steps
      /\ \A f \in L!Files : /\ f \in L!Items /\ item[f] \in ItemRow /\ FullyTold(f, item[f])
                            /\ item[f].marked \in SUBSET (0 .. Steps)
      /\ \A l \in Lists : l \in L!Items /\ l \notin Films
      /\ \A i \in L!Items : item[i] \in ItemRow
  <2>1. day \in Nat /\ day + 1 \in Nat /\ Steps \in Nat /\ 0 \in 0 .. Steps
    BY LibraryAssumption DEF LibraryTyped
  <2>2. \A l \in Lists : l \in L!Items /\ l \notin Films
    BY LibraryAssumption DEF L!Items, L!Files
  <2>3. \A i \in L!Items : item[i] \in ItemRow
    BY DEF LibraryTyped
  <2>4. \A f \in L!Files : f \in L!Items /\ FullyTold(f, item[f])
    BY DEF L!Items, FilmsComplete, FullyTold
  <2>5. \A f \in L!Files : item[f].marked \in SUBSET (0 .. Steps)
    BY <2>3, <2>4 DEF ItemRow
  <2> QED
    BY <2>1, <2>2, <2>3, <2>4, <2>5
<1>1. ASSUME NEW u \in Readers, L!Menu(u) PROVE ItemsKept
  BY <1>0, <1>1, QuietFits, SayStep DEF L!Menu, L!Rest
<1>2. ASSUME NEW u \in Readers, L!AskList(u) PROVE ItemsKept
  <2>1. PICK private \in {0, 1} : L!Say(u, <<"plnew", Nobody, private>>)
    BY <1>2 DEF L!AskList
  <2>2. QuestionFits(<<"plnew", Nobody, private>>)
    <3>1. "plnew" \in Asking /\ private \in Nat
      BY DEF Asking
    <3> QED
      BY <3>1 DEF QuestionFits
  <2>3. UNCHANGED <<item, day>>
    BY <1>2 DEF L!AskList, L!Rest
  <2> QED
    BY <1>0, <2>1, <2>2, <2>3, SayStep
<1>3. ASSUME NEW u \in Readers, L!GiveNumber(u) PROVE ItemsKept
  <2>1. PICK f \in Films :
          /\ L!Draft(u, f)
          /\ \/ L!Ask(u, f, [item[f] EXCEPT !.season = TRUE], 1)
             \/ L!Ask(u, f, [item[f] EXCEPT !.episode = item[f].season], 1)
    BY <1>3 DEF L!GiveNumber
  <2>2. f \in L!Files /\ item[f] \in ItemRow /\ item[f].status = "draft"
    BY <1>0, <2>1 DEF L!Files, L!Draft
  <2>3. ASSUME NEW row \in {[item[f] EXCEPT !.season = TRUE], [item[f] EXCEPT !.episode = item[f].season]}
        PROVE  row \in ItemRow /\ row.status = "draft" /\ FullyTold(f, row)
    BY <2>2 DEF ItemRow, FullyTold
  <2>4. \E row \in ItemRow : FullyTold(f, row) /\ L!Ask(u, f, row, 1)
    BY <2>1, <2>3
  <2> QED
    BY <2>2, <2>4, AskStep
<1>4. ASSUME NEW u \in Readers, L!FillField(u) PROVE ItemsKept
  <2>1. PICK f \in L!Files :
          /\ L!Asked(u, "meta") /\ L!Draft(u, f)
          /\ L!Ask(u, f, [item[f] EXCEPT !.marked = @ \cup {question[u][3]}], question[u][3] + 1)
    BY <1>4 DEF L!FillField
  <2>2. question[u][3] \in 1 .. Steps /\ question[u][3] + 1 \in Nat \ {0}
    BY <1>0, <2>1 DEF LibraryTyped, L!Asked
  <2> DEFINE row == [item[f] EXCEPT !.marked = @ \cup {question[u][3]}]
  <2>3. item[f] \in ItemRow /\ item[f].status = "draft"
    BY <1>0, <2>1 DEF L!Draft
  <2>4. row \in ItemRow /\ row.status = "draft"
    <3>1. item[f].marked \cup {question[u][3]} \in SUBSET (0 .. Steps)
      BY <1>0, <2>2
    <3> QED
      BY <2>3, <3>1 DEF ItemRow
  <2>5. FullyTold(f, row)
    BY <2>4 DEF FullyTold
  <2>6. L!Ask(u, f, row, question[u][3] + 1)
    BY <2>1
  <2> HIDE DEF row
  <2> QED
    BY <2>2, <2>3, <2>4, <2>5, <2>6, AskStep
<1>5. ASSUME NEW u \in Readers, L!SendCover(u) PROVE ItemsKept
  <2>1. PICK f \in L!Files : L!Draft(u, f) /\ L!Publish(u, f, item[f].marked \cup {0})
    BY <1>5 DEF L!SendCover
  <2>2. item[f].marked \in SUBSET (0 .. Steps) /\ 0 \in 0 .. Steps
    BY <1>0
  <2>3. item[f].marked \cup {0} \in SUBSET (0 .. Steps)
    BY <2>2
  <2> QED
    BY <2>1, <2>3, PublishStep
<1>6. ASSUME NEW u \in Readers, L!SendReport(u) PROVE ItemsKept
  <2>1. UNCHANGED <<item, day>> /\ L!Say(u, L!Quiet)
    BY <1>6 DEF L!SendReport
  <2> QED
    BY <1>0, <2>1, QuietFits, SayStep
<1>7. ASSUME NEW u \in Readers, NEW f \in L!Files, L!Accept(u, f) PROVE ItemsKept
  <2> DEFINE row == [L!NoItem EXCEPT !.owner = u, !.status = "draft"]
  <2>1. row \in ItemRow /\ row.status = "draft"
    BY DEF L!NoItem, ItemRow
  <2>2. FullyTold(f, row)
    BY <2>1 DEF FullyTold
  <2>3. CASE item[f].status = "none" /\ L!Ask(u, f, row, 1)
    <3> HIDE DEF row
    <3> QED
      BY <2>1, <2>2, <2>3, AskStep
  <2>4. CASE L!Draft(u, f) /\ L!Ask(u, f, item[f], 1)
    BY <1>0, <2>4, AskStep
  <2> QED
    BY <1>7, <2>3, <2>4 DEF L!Accept
<1>8. ASSUME NEW u \in Readers, NEW f \in L!Files, L!Finish(u, f) PROVE ItemsKept
  <2>1. L!Ask(u, f, item[f], Steps + 1) /\ Steps + 1 \in Nat \ {0}
    BY <1>0, <1>8 DEF L!Finish
  <2> QED
    BY <1>0, <2>1, AskStep
<1>9. ASSUME NEW u \in Readers, NEW f \in L!Files, L!PublishPlain(u, f) PROVE ItemsKept
  <2>1. item[f].marked \in SUBSET (0 .. Steps)
    BY <1>0 DEF ItemRow
  <2> QED
    BY <1>9, <2>1, PublishStep DEF L!PublishPlain
<1>10. ASSUME NEW u \in Readers, NEW f \in L!Files, L!Cancel(u, f) PROVE ItemsKept
  <2>1. L!Say(u, L!Quiet) /\ day' = day /\ (L!Gone(f) \/ UNCHANGED item) /\ f \in L!Items
    BY <1>0, <1>10 DEF L!Cancel, L!Rest
  <2>2. CASE L!Gone(f)
    <3>1. item' \in [L!Items -> ItemRow] /\ FilmsComplete' /\ \A i \in L!Items : Stands(i)
      BY <2>1, <2>2, RowGone
    <3> QED
      BY <1>0, <2>1, <3>1, QuietFits, SaidTyped DEF ItemsKept
  <2>3. CASE UNCHANGED item
    BY <1>0, <2>1, <2>3, QuietFits, SayStep
  <2> QED
    BY <2>1, <2>2, <2>3
<1>11. ASSUME NEW u \in Readers, NEW f \in L!Files, L!AskReport(u, f) PROVE ItemsKept
  <2>1. QuestionFits(<<"report", f, 0>>)
    BY <1>0 DEF QuestionFits, Asking
  <2>2. UNCHANGED <<item, day>> /\ L!Say(u, <<"report", f, 0>>)
    BY <1>11 DEF L!AskReport, L!Rest
  <2> QED
    BY <1>0, <2>1, <2>2, SayStep
<1>12. ASSUME NEW u \in Readers, NEW f \in L!Files, NEW t \in {"movie", "series"}, L!ChooseType(u, f, t)
       PROVE  ItemsKept
  <2> DEFINE row == [item[f] EXCEPT !.type = t, !.season = FALSE, !.episode = FALSE]
  <2>1. L!Ask(u, f, row, 1) /\ item[f] \in ItemRow /\ item[f].status = "draft"
    BY <1>0, <1>12 DEF L!ChooseType, L!Draft
  <2>2. row \in ItemRow /\ row.status = "draft"
    BY <2>1 DEF ItemRow
  <2>3. FullyTold(f, row)
    BY <2>2 DEF FullyTold
  <2> HIDE DEF row
  <2> QED
    BY <2>1, <2>2, <2>3, AskStep
<1>13. ASSUME NEW u \in Readers, NEW f \in L!Files, NEW n \in 1 .. Steps, L!Skip(u, f, n) PROVE ItemsKept
  <2>1. L!Ask(u, f, item[f], n + 1) /\ n + 1 \in Nat \ {0}
    BY <1>0, <1>13 DEF L!Skip
  <2> QED
    BY <1>0, <2>1, AskStep
<1>14. ASSUME UNCHANGED <<item, question, day>> PROVE ItemsKept
  BY <1>0, <1>14, SayStep
<1>15. ASSUME NEW u \in Readers, NEW l \in Lists, L!NameList(u, l) PROVE ItemsKept
  <2> DEFINE row == [L!NoItem EXCEPT !.owner = u, !.status = "published",
                                     !.type = IF question[u][3] = 1 THEN "private" ELSE "public"]
  <2>1. item' = [item EXCEPT ![l] = row] /\ item[l].status = "none" /\ L!Say(u, L!Quiet) /\ day' = day
    BY <1>15 DEF L!NameList, L!Rest
  <2>2. row \in ItemRow
    BY DEF L!NoItem, ItemRow
  <2>3. FullyTold(l, row)
    BY <1>0 DEF FullyTold
  <2> HIDE DEF row
  <2>4. item' \in [L!Items -> ItemRow] /\ FilmsComplete' /\ \A i \in L!Items : Stands(i)
    BY <1>0, <2>1, <2>2, <2>3, RowWritten
  <2> QED
    BY <1>0, <2>1, <2>4, QuietFits, SaidTyped DEF ItemsKept
<1>16. ASSUME NEW i \in L!Items, L!Gone(i), UNCHANGED <<question, day>> PROVE ItemsKept
  <2>1. item' \in [L!Items -> ItemRow] /\ FilmsComplete' /\ \A j \in L!Items : Stands(j)
    BY <1>16, RowGone
  <2> QED
    BY <1>16, <2>1 DEF ItemsKept, LibraryTyped
<1>17. ASSUME NEW r \in reports, L!Uphold(r) PROVE ItemsKept
  <2>1. r.on \in L!Items
    BY <1>0 DEF ReportsFit, ReportRow
  <2> QED
    BY <1>16, <1>17, <2>1 DEF L!Uphold
<1>18. ASSUME L!NewDay PROVE ItemsKept
  <2>1. UNCHANGED <<item, question>> /\ day' = day + 1
    BY <1>18 DEF L!NewDay
  <2> QED
    BY <1>0, <2>1, SayStep
<1>19. ASSUME NEW u \in Readers, NEW i \in L!Items, L!Remove(u, i) PROVE ItemsKept
  BY <1>16, <1>19 DEF L!Remove, L!Rest
<1>20. ASSUME NEW u \in Readers,
              \/ \E f \in L!Files, l \in Lists : L!AddTo(u, l, f)
              \/ \E l \in Lists : L!Join(u, l)
              \/ \E i \in L!Items : L!Like(u, i) \/ L!Dislike(u, i)
              \/ \E v \in Readers, n \in {1, -1} : L!VoteProfile(u, v, n)
       PROVE  ItemsKept
  <2>1. UNCHANGED <<item, question, day>>
    BY <1>20 DEF L!AddTo, L!Join, L!Like, L!Dislike, L!VoteProfile, L!Casting
  <2> QED
    BY <1>14, <2>1
<1>21. ASSUME \/ \E r \in reports : L!Dismiss(r)
              \/ \E s \in L!Switches : L!SetBroadcast(s)
       PROVE  ItemsKept
  <2>1. UNCHANGED <<item, question, day>>
    BY <1>21 DEF L!Dismiss, L!SetBroadcast
  <2> QED
    BY <1>14, <2>1
<1> QED
  BY <1>1, <1>2, <1>3, <1>4, <1>5, <1>6, <1>7, <1>8, <1>9, <1>10, <1>11, <1>12, <1>13, <1>15,
     <1>17, <1>18, <1>19, <1>20, <1>21 DEF L!Next

-----------------------------------------------------------------------------
(* Notices and points.                                                       *)

\* A publication is announced to nobody twice, and was never announced before.
LEMMA NoticesStep == ASSUME LibraryInd, Tables, ItemsKept PROVE NoticesFit'
<1> USE DEF LibraryInd
<1>1. \A f \in L!Files : item[f].status \in {"published", "removed"} => item'[f].status \in {"published", "removed"}
  <2> SUFFICES ASSUME NEW f \in L!Files, item[f].status \in {"published", "removed"}
               PROVE  item'[f].status \in {"published", "removed"}
    OBVIOUS
  <2>1. Stands(f) /\ item[f] \in ItemRow
    BY DEF ItemsKept, LibraryTyped, L!Items
  <2> QED
    BY <2>1 DEF Stands, L!Published, ItemRow
<1>2. CASE UNCHANGED notices
  BY <1>1, <1>2 DEF NoticesFit, L!ToldOnce
<1>3. ASSUME NEW u \in Readers, NEW f \in L!Files, NEW fields \in SUBSET (0 .. Steps),
             L!Draft(u, f), L!Publish(u, f, fields)
      PROVE  NoticesFit'
  <2>1. CASE ~L!Ready(f)
    BY <1>2, <1>3, <2>1 DEF L!Publish, L!Ask, L!Unheard
  <2>2. CASE L!Ready(f)
    <3> DEFINE new == L!Announced(f) \cup L!Followed(u, f)
    <3>1. notices' = notices \cup new
      BY <1>3, <2>2 DEF L!Publish
    <3>2. item'[f].status = "published"
      <4>1. item[f] \in ItemRow /\ f \in L!Items
        BY DEF LibraryTyped, L!Items
      <4> QED
        BY <1>3, <2>2, <4>1 DEF L!Publish, LibraryTyped, ItemRow
    <3>3. \A m \in new : m.on = f
      BY DEF L!Announced, L!Followed
    <3>4. \A m, n \in new : m.to = n.to => m = n
      BY DEF L!Announced, L!Followed
    <3>5. \A m \in notices : m.on # f
      BY <1>3 DEF NoticesFit, L!Draft
    <3> HIDE DEF new
    <3>6. L!ToldOnce'
      BY <3>1, <3>3, <3>4, <3>5 DEF NoticesFit, L!ToldOnce
    <3> QED
      BY <1>1, <3>1, <3>2, <3>3, <3>6 DEF NoticesFit
  <2> QED
    BY <2>1, <2>2
<1> QED
  BY <1>2, <1>3 DEF Tables, Publishes

\* Nothing is given.
LEMMA LedgerStays ==
  ASSUME LedgerFits, UNCHANGED <<ledger, day>>
  PROVE  LedgerFits'
  BY DEF LedgerFits, L!RewardedOnce, L!CapsHold, L!Earned, L!Rows

\* A new day, on which nobody has earned anything.
LEMMA DayStep ==
  ASSUME LedgerFits, UNCHANGED ledger, day' = day + 1, day \in Nat
  PROVE  LedgerFits'
<1>1. Countable
  BY DEF LedgerFits, Countable
<1>2. \A u, kinds, d : L!Earned(u, kinds, d)' = L!Earned(u, kinds, d)
  BY DEF L!Earned, L!Rows
<1>3. \A u, kinds : L!Earned(u, kinds, day + 1) = 0
  <2> TAKE u, kinds
  <2>1. L!Rows(u, kinds, day + 1) = {}
    BY DEF L!Rows, LedgerFits
  <2> QED
    BY <1>1, <2>1, EarnedNothing
<1>4. L!CapsHold'
  <2> SUFFICES ASSUME NEW u \in Readers, NEW d \in 0 .. day + 1
               PROVE  /\ L!Earned(u, {"media_metadata"}, d) <= FieldCap
                      /\ L!Earned(u, {"social_post"}, d) <= PostCap
                      /\ L!Earned(u, {"media_like"}, d) <= LikeCap
                      /\ L!Earned(u, {"social_like"}, d) <= LikeCap
    BY <1>2 DEF L!CapsHold
  <2>1. CASE d = day + 1
    BY <1>3, <2>1, LibraryAssumption
  <2>2. CASE d \in 0 .. day
    BY <2>2 DEF LedgerFits, L!CapsHold
  <2> QED
    BY <2>1, <2>2
<1> QED
  BY <1>4 DEF LedgerFits, L!RewardedOnce

\* What the handlers give keeps the limits.
LEMMA LedgerStep == ASSUME LibraryInd, Tables PROVE LedgerFits'
<1> USE DEF LibraryInd
<1>0. LedgerFits /\ day \in Nat
  BY DEF LibraryTyped
<1>1. CASE UNCHANGED <<ledger, day>>
  BY <1>0, <1>1, LedgerStays
<1>2. CASE L!NewDay
  BY <1>0, <1>2, DayStep DEF L!NewDay, L!Unheard
<1>3. ASSUME NEW u \in Readers, NEW f \in L!Files, NEW fields \in SUBSET (0 .. Steps),
             L!Draft(u, f), L!Publish(u, f, fields)
      PROVE  LedgerFits'
  <2>1. CASE ~L!Ready(f)
    BY <1>1, <1>3, <2>1 DEF L!Publish, L!Ask, L!Unheard, L!Rest
  <2>2. CASE L!Ready(f)
    <3> DEFINE fieldrows == L!FieldReward(u, f, fields)
               postrows == L!PostReward(u, f)
    <3>1. ledger' = ledger \cup (fieldrows \cup postrows) /\ day' = day
      BY <1>3, <2>2 DEF L!Publish, L!Rest
    <3>2. IsFiniteSet(fieldrows) /\ IsFiniteSet(postrows)
      BY AwardFinite DEF L!FieldReward, L!PostReward
    <3>3. \A r \in fieldrows : /\ r.points \in Nat /\ r.day = day /\ Within(r)
                               /\ \A old \in ledger : old.ref # r.ref
                               /\ r.kind = "media_metadata" /\ r.ref = <<"metadata", f>>
                               /\ \A q \in fieldrows : q = r
      BY <1>0, FieldRow
    <3>4. \A r \in postrows : /\ r.points \in Nat /\ r.day = day /\ Within(r)
                              /\ \A old \in ledger : old.ref # r.ref
                              /\ r.kind = "social_post" /\ r.ref = <<"post", f>>
                              /\ \A q \in postrows : q = r
      BY <1>0, PostRow
    <3>5. IsFiniteSet(fieldrows \cup postrows)
      BY <3>2, FS_Union
    <3> HIDE DEF fieldrows, postrows
    <3>6. \A r, q \in fieldrows \cup postrows : r.ref = q.ref \/ r.kind = q.kind => r = q
      <4>1. <<"metadata", f>> # <<"post", f>>
        OBVIOUS
      <4> QED
        BY <3>3, <3>4, <4>1
    <3>7. Given(fieldrows \cup postrows)
      BY <3>3, <3>4, <3>5, <3>6 DEF Given
    <3> QED
      BY <1>0, <3>1, <3>7, LedgerGiven
  <2> QED
    BY <2>1, <2>2
<1>4. ASSUME NEW u \in Readers, NEW l \in Lists, L!NameList(u, l) PROVE LedgerFits'
  <2>1. ledger' = ledger \cup L!PostReward(u, l) /\ day' = day
    BY <1>4 DEF L!NameList, L!Rest
  <2>2. IsFiniteSet(L!PostReward(u, l))
    BY AwardFinite DEF L!PostReward
  <2>3. \A r \in L!PostReward(u, l) : /\ r.points \in Nat /\ r.day = day /\ Within(r)
                                      /\ \A old \in ledger : old.ref # r.ref
                                      /\ \A q \in L!PostReward(u, l) : q = r
    BY <1>0, PostRow
  <2>4. Given(L!PostReward(u, l))
    BY <2>2, <2>3 DEF Given
  <2> QED
    BY <1>0, <2>1, <2>4, LedgerGiven
<1>5. ASSUME NEW u \in Readers, NEW i \in L!Items, L!Like(u, i) PROVE LedgerFits'
  <2> DEFINE new == L!LikeReward(item[i].owner, u, i)
  <2>1. (UNCHANGED ledger \/ ledger' = ledger \cup new) /\ day' = day
    BY <1>5 DEF L!Like, L!Casting
  <2>2. IsFiniteSet(new)
    BY AwardFinite DEF L!LikeReward
  <2>3. \A r \in new : /\ r.points \in Nat /\ r.day = day /\ Within(r)
                       /\ \A old \in ledger : old.ref # r.ref
                       /\ \A q \in new : q = r
    BY <1>0, LikeRow
  <2> HIDE DEF new
  <2>4. Given(new)
    BY <2>2, <2>3 DEF Given
  <2> QED
    BY <1>0, <1>1, <2>1, <2>4, LedgerGiven
<1>6. ASSUME NEW u \in Readers, NEW v \in Readers, NEW n \in {1, -1}, L!VoteProfile(u, v, n)
      PROVE  LedgerFits'
  <2> DEFINE new == L!VoteReward(v, u)
  <2>1. (UNCHANGED ledger \/ ledger' = ledger \cup new) /\ day' = day
    BY <1>6 DEF L!VoteProfile, L!Casting
  <2>2. IsFiniteSet(new)
    BY AwardFinite DEF L!VoteReward
  <2>3. \A r \in new : /\ r.points \in Nat /\ r.day = day /\ Within(r)
                       /\ \A old \in ledger : old.ref # r.ref
                       /\ \A q \in new : q = r
    BY <1>0, VoteRow
  <2> HIDE DEF new
  <2>4. Given(new)
    BY <2>2, <2>3 DEF Given
  <2> QED
    BY <1>0, <1>1, <2>1, <2>4, LedgerGiven
<1> QED
  BY <1>1, <1>2, <1>3, <1>4, <1>5, <1>6 DEF Tables, Publishes

-----------------------------------------------------------------------------
\* The invariant says what Library states.
LEMMA LibraryMeans == LibraryInd => L!Inv
<1> SUFFICES ASSUME LibraryInd PROVE L!Inv
  OBVIOUS
<1>1. L!TypeOK
  <2>1. \A u \in Readers : question[u][1] \in Asking
    BY DEF LibraryInd, LibraryTyped
  <2>2. \A f \in Films : L!Published(f) =>
          item[f].type # "" /\ (item[f].type = "series" => item[f].season /\ item[f].episode)
    BY DEF LibraryInd, FilmsComplete, FullyTold, L!Published
  <2>3. item \in [L!Items -> ItemRow] /\ \A r \in reports : r \in ReportRow
    BY DEF LibraryInd, LibraryTyped, ReportsFit
  <2> QED
    BY <2>1, <2>2, <2>3 DEF L!TypeOK, Asking, ItemRow, ReportRow
<1> QED
  BY <1>1 DEF L!Inv, LibraryInd, NoticesFit, LedgerFits

\* Every step of the library keeps the invariant.
LEMMA LibraryStep == LibraryInd /\ L!Next => LibraryInd'
  BY TablesStep, ItemsStep, ReportsStep, VotesStep, NoticesStep, LedgerStep
     DEF LibraryInd, ItemsKept

\* While the club's turn lasts the library stays as it is.
LEMMA LibraryKept == LibraryInd /\ UNCHANGED library => LibraryInd'
<1> SUFFICES ASSUME LibraryInd, UNCHANGED library PROVE LibraryInd'
  OBVIOUS
<1> USE DEF library, LibraryInd
<1>1. LibraryTyped' /\ FilmsComplete' /\ ReportsFit'
  BY DEF LibraryTyped, FilmsComplete, FullyTold, ReportsFit
<1>2. L!LikesAreVotes' /\ NoticesFit'
  BY DEF L!LikesAreVotes, L!Vote, NoticesFit, L!ToldOnce
<1>3. LedgerFits'
  BY LedgerStays
<1> QED
  BY <1>1, <1>2, <1>3

\* The invariant holds in every behaviour.
LEMMA LibraryHolds == CommunitySpec => []LibraryInd
<1>1. CommunityInit => LibraryInd
  BY LibraryStart DEF CommunityInit
<1>2. LibraryInd /\ [CommunityNext]_<<turn, vars, library>> => LibraryInd'
  BY LibraryStep, LibraryKept DEF CommunityNext
<1> QED
  BY <1>1, <1>2, PTL DEF CommunitySpec

\* Whatever order users and administrators press old and new buttons in, across days:
\* files, playlists, votes, reports, notices and points agree, nobody earns more in a day
\* than the limits allow, and nothing is rewarded or announced twice (media_library.py,
\* social.py: award).
THEOREM LibrarySafe == CommunitySpec => []LibraryInv
<1>1. LibraryInd => LibraryInv
  BY LibraryMeans DEF LibraryInv
<1> QED
  BY <1>1, LibraryHolds, PTL

\* What is published changes no more and, once removed, stays removed, although the
\* buttons of its draft stay in the chat; and a decision to remove a file settles every
\* report against it (media_library.py: callback,
\* text_input, admin_action).
THEOREM LibraryDecisions == CommunitySpec => DecisionsStand
<1> DEFINE Final == \A i \in L!Items :
                      /\ L!Published(i) => item'[i] \in {item[i], [item[i] EXCEPT !.status = "removed"]}
                      /\ item[i].status = "removed" => item'[i] = item[i]
           Settles == \A r \in reports : (r \notin reports' /\ [r EXCEPT !.status = "removed"] \in reports')
                        => \A q \in reports' : q.on = r.on => q.status # "pending"
<1>1. LibraryInd /\ [CommunityNext]_<<turn, vars, library>> => [Final]_L!vars /\ [Settles]_L!vars
  <2> SUFFICES ASSUME LibraryInd, [CommunityNext]_<<turn, vars, library>>
               PROVE  [Final]_L!vars /\ [Settles]_L!vars
    OBVIOUS
  <2>1. CASE L!Next
    BY <2>1, TablesStep, ItemsStep, ReportsStep DEF LibraryInd, ItemsKept, Stands
  <2>2. CASE UNCHANGED library
    BY <2>2 DEF library, L!vars
  <2> QED
    BY <2>1, <2>2 DEF CommunityNext
<1> QED
  BY <1>1, LibraryHolds, PTL DEF CommunitySpec, DecisionsStand, L!DecisionsStand,
     L!PublishedIsFinal, L!DecisionSettles
=============================================================================
