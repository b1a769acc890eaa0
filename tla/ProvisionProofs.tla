-------------------------- MODULE ProvisionProofs --------------------------
(***************************************************************************)
(* For every number of orders, attempts, rotations and crashes: a service  *)
(* has the volume of its delivered orders (VolumeMatchesSales), and the    *)
(* panel is never ahead of what was paid for and agrees with the rows once *)
(* no attempt is half done (PanelInv).                                     *)
(*                                                                         *)
(* What makes this inductive is the target: a stored target is one more    *)
(* than what was delivered (TargetsDue), which stays true only because no  *)
(* other order of the service is delivered in between (OneOpen).  Then the *)
(* panel is either where the rows are or one order ahead, and in that case *)
(* the order that put it there still waits with its target                 *)
(* (PanelExplained).                                                       *)
(***************************************************************************)
EXTENDS Provision, FiniteSetTheorems, WellFoundedInduction, TLAPS

Owed == {"paid", "review"}
InProgress(o) == orders[o].status \in Owed \cup {"held"}
Delivered(s) == Cardinality(With(s, {"fulfilled"}))
Client == [volume : Nat, creds : Nat, inbounds : SUBSET Inbounds]

TypeInv == TypeOK /\ panel \in [Orders -> Client \cup {None}]

\* A service has one order in progress, and it was ordered before it is renewed.
OneOpen ==
  \A o, p \in Orders :
    InProgress(o) /\ InProgress(p) /\ orders[o].service = orders[p].service => o = p
Older == \A o \in Orders : orders[o].status # "none" => orders[o].service <= o

\* A stored target belongs to an order that is owed, and is one order more than
\* what was delivered.
TargetsDue ==
  \A o \in Orders : orders[o].target # None =>
    /\ orders[o].status \in Owed
    /\ orders[o].target.volume = Delivered(orders[o].service) + 1

\* The panel is where the rows are, or ahead by the order whose attempt did not
\* come to its end.
PanelExplained ==
  \A s \in Orders : panel[s] # None =>
    \/ panel[s].volume = Delivered(s)
    \/ /\ panel[s].volume = Delivered(s) + 1
       /\ \E o \in Orders : orders[o].service = s /\ orders[o].target # None

\* Orders of the batch are still owed, and their targets are as they were fetched.
BatchDue ==
  \A o \in DOMAIN batch :
    /\ orders[o].status \in Owed
    /\ batch[o].target # None => orders[o].target = batch[o].target

\* What the worker holds in its hands has been stored, and then written.
WorkerHolds ==
  /\ step \in {"panel", "written"} => orders[Cur].target = data
  /\ step = "written" => panel[orders[Cur].service].volume = data.volume

\* A service that was not delivered yet has no volume.
Unserved == \A s \in Orders : services[s].status = "none" => services[s].data.volume = 0

Books ==
  VolumeMatchesSales /\ Unserved /\ OneOpen /\ Older /\ TargetsDue /\ PanelExplained
Hands == BatchDue /\ WorkerHolds
IInv == TypeInv /\ Books /\ Hands

-----------------------------------------------------------------------------
(* Operators of the model *)

\* The least element of a set of orders is one of them (Smallest, of Cur).
LEMMA SmallestIn ==
  ASSUME NEW S \in SUBSET Orders, S # {}
  PROVE  Smallest(S) \in S /\ \A p \in S : Smallest(S) <= p
<1>1. S \subseteq Nat
  BY DEF Orders
<1>2. PICK x \in S : \A y \in S : ~(<<y, x>> \in OpToRel(<, Nat))
  BY <1>1, WFMin, NatLessThanWellFounded
<1>3. \A y \in S : x <= y
  <2> SUFFICES ASSUME NEW y \in S, y < x PROVE FALSE
    BY <1>1
  <2>1. <<y, x>> \in Nat \X Nat
    BY <1>1
  <2> QED
    BY <1>2, <2>1 DEF OpToRel
<1> QED
  BY <1>3 DEF Smallest

\* The rows the loop fetches are not none where there is something to fetch.
LEMMA EarliestSome ==
  ASSUME NEW S \in SUBSET Orders, S # {}
  PROVE  Earliest(Limit, S) # {} /\ Earliest(Limit, S) \subseteq S
<1> DEFINE least == Smallest(S)
           before == {p \in S : p < least}
<1>1. least \in S /\ \A p \in S : least <= p
  BY SmallestIn
<1> HIDE DEF least
<1>2. \A p \in S : ~(p < least)
  BY <1>1 DEF Orders
<1>3. Cardinality(before) = 0
  <2>1. before = {}
    BY <1>2
  <2> QED
    BY <2>1, FS_EmptySet
<1>4. least \in Earliest(Limit, S)
  BY <1>1, <1>3, ProvisionAssumption DEF Earliest
<1> QED
  BY <1>4 DEF Earliest

LEMMA WithFinite ==
  ASSUME NEW s, NEW statuses
  PROVE  IsFiniteSet(With(s, statuses)) /\ Cardinality(With(s, statuses)) \in Nat
<1>1. IsFiniteSet(Orders)
  BY FS_Interval, ProvisionAssumption DEF Orders
<1>2. IsFiniteSet(With(s, statuses))
  BY <1>1, FS_Subset DEF With
<1> QED
  BY <1>2, FS_CardinalityType

\* A service has as many delivered orders as before, when no order of it begins
\* or ceases to be delivered.
LEMMA DeliveredSame ==
  ASSUME NEW s,
         \A o \in Orders : (orders'[o].service = s /\ orders'[o].status = "fulfilled")
                             <=> (orders[o].service = s /\ orders[o].status = "fulfilled")
  PROVE  Delivered(s)' = Delivered(s)
<1>1. With(s, {"fulfilled"})' = With(s, {"fulfilled"})
  BY DEF With
<1> QED
  BY <1>1 DEF Delivered

\* ... and one more when one order of it is delivered.
LEMMA DeliveredMore ==
  ASSUME NEW x \in Orders, NEW s, orders[x].status # "fulfilled",
         orders'[x].service = s, orders'[x].status = "fulfilled",
         \A o \in Orders \ {x} : orders'[o] = orders[o]
  PROVE  Delivered(s)' = Delivered(s) + 1
<1>1. With(s, {"fulfilled"})' = With(s, {"fulfilled"}) \cup {x}
  BY DEF With
<1>2. x \notin With(s, {"fulfilled"})
  BY DEF With
<1> QED
  BY <1>1, <1>2, WithFinite, FS_AddElement DEF Delivered

-----------------------------------------------------------------------------
(* Steps *)

LEMMA InitInv == Init => IInv
<1> SUFFICES ASSUME Init PROVE IInv
  OBVIOUS
<1> USE DEF Init
<1>1. TypeInv
  BY ProvisionAssumption DEF TypeInv, TypeOK, Order, NoOrder, Statuses, Data, NoData,
     NoService, Orders, Client
<1>2. \A s \in Orders : Delivered(s) = 0
  <2> SUFFICES ASSUME NEW s \in Orders PROVE Delivered(s) = 0
    OBVIOUS
  <2>1. With(s, {"fulfilled"}) = {}
    BY DEF With, NoOrder
  <2> QED
    BY <2>1, FS_EmptySet DEF Delivered
<1>3. VolumeMatchesSales /\ Unserved
  BY <1>2 DEF VolumeMatchesSales, Delivered, NoService, NoData, Unserved
<1>4. OneOpen /\ Older /\ TargetsDue /\ PanelExplained
  BY <1>2 DEF OneOpen, Older, TargetsDue, PanelExplained, InProgress, Owed, NoOrder
<1>5. Hands
  BY DEF Hands, BatchDue, WorkerHolds
<1> QED
  BY <1>1, <1>3, <1>4, <1>5 DEF IInv, Books

\* A step that keeps what the rows say of orders and services: every part of
\* Books but the panel's is kept.
RowsKept ==
  /\ \A o \in Orders : /\ orders'[o].service = orders[o].service
                       /\ orders'[o].target = orders[o].target
                       /\ orders[o].status \in Owed => orders'[o].status \in Owed
                       /\ InProgress(o)' => InProgress(o)
                       /\ orders'[o].status = "fulfilled" <=> orders[o].status = "fulfilled"
                       /\ orders'[o].status = "none" <=> orders[o].status = "none"
  /\ \A s \in Orders : /\ services'[s].data.volume = services[s].data.volume
                       /\ services'[s].status = "none" => services[s].status = "none"

LEMMA RowsKeptBooks ==
  ASSUME Books, RowsKept, \A s \in Orders : panel'[s] # None =>
                            panel[s] # None /\ panel'[s].volume = panel[s].volume
  PROVE  Books'
<1> USE DEF Books, RowsKept
<1>1. \A s \in Orders : Delivered(s)' = Delivered(s)
  BY DeliveredSame
<1>2. VolumeMatchesSales' /\ Unserved'
  BY <1>1 DEF VolumeMatchesSales, Delivered, Unserved
<1>3. OneOpen' /\ Older'
  BY DEF OneOpen, Older
<1>4. TargetsDue'
  <2> SUFFICES ASSUME NEW o \in Orders, orders'[o].target # None, NEW s, s = orders'[o].service
               PROVE  orders'[o].status \in Owed /\ orders'[o].target.volume = Delivered(s)' + 1
    BY DEF TargetsDue
  <2>1. orders[o].status \in Owed /\ orders[o].target.volume = Delivered(s) + 1
    BY DEF TargetsDue
  <2> QED
    BY <2>1, DeliveredSame
<1>5. PanelExplained'
  BY <1>1 DEF PanelExplained
<1> QED
  BY <1>2, <1>3, <1>4, <1>5

\* What the worker has in hand stays true while others move, since no order of
\* its batch ceases to be owed and no target of it is changed.
LEMMA HandsKept ==
  ASSUME TypeInv, Hands, RowsKept, UNCHANGED worker_vars, step # "idle" => panel' = panel
  PROVE  Hands'
<1>1. DOMAIN batch \subseteq Orders
  BY DEF TypeInv, TypeOK
<1>2. BatchDue'
  BY <1>1 DEF Hands, BatchDue, RowsKept, worker_vars
<1>3. WorkerHolds'
  <2>1. step # "idle" => Cur \in Orders
    BY <1>1, SmallestIn DEF TypeInv, TypeOK, Cur
  <2>2. Cur' = Cur
    BY DEF Cur, worker_vars
  <2> QED
    BY <2>1, <2>2 DEF Hands, WorkerHolds, RowsKept, worker_vars
<1> QED
  BY <1>2, <1>3 DEF Hands

\* The worker turns from the first order of its batch to the next.
LEMMA LeaveHands ==
  ASSUME TypeInv, Hands, Leave,
         \A o \in DOMAIN batch \ {Cur} :
           orders'[o].status \in Owed /\ orders'[o].target = orders[o].target
  PROVE  Hands'
BY DEF Leave, Hands, BatchDue, WorkerHolds

\* ... and its variables keep their types.
LEMMA LeaveTypes ==
  ASSUME TypeInv, Leave, DOMAIN batch # {}
  PROVE  /\ step' \in {"idle", "pick", "panel", "written"}
         /\ DOMAIN batch' \subseteq Orders /\ \A o \in DOMAIN batch' : batch'[o] \in Order
         /\ (step = "idle")' <=> (DOMAIN batch = {})'
         /\ data' \in Data /\ chosen' \subseteq Inbounds
<1>1. DOMAIN batch' = DOMAIN batch \ {Cur} /\ \A o \in DOMAIN batch' : batch'[o] = batch[o]
  BY DEF Leave
<1>2. Cur \in DOMAIN batch
  BY SmallestIn DEF TypeInv, TypeOK, Cur
<1>3. DOMAIN batch = {Cur} <=> DOMAIN batch' = {}
  BY <1>1, <1>2
<1> QED
  BY <1>1, <1>3 DEF TypeInv, TypeOK, Leave, NoData, Data

-----------------------------------------------------------------------------
(* Purchases *)

LEMMA PlaceKeeps ==
  ASSUME IInv, NEW x \in Orders, NEW z \in Orders, z <= x, NEW st \in {"paid", "held"},
         Place(x, z, st)
  PROVE  IInv'
<1> USE DEF IInv
<1>1. /\ step = "idle" /\ orders[x].status = "none"
      /\ \A p \in Orders : p >= x => orders[p].status = "none"
      /\ z # x => OpenOrders(z) = {}
      /\ UNCHANGED <<failures, services, panel, planInbounds, live, worker_vars,
                     rotations, crashes>>
  BY DEF Place, Orders
<1>2. /\ orders' \in [Orders -> Order]
      /\ orders'[x].status = st /\ orders'[x].service = z /\ orders'[x].target = None
      /\ \A o \in Orders \ {x} : orders'[o] = orders[o]
  BY DEF Place, TypeInv, TypeOK, Order, Statuses
<1>3. TypeInv'
  BY <1>1, <1>2 DEF TypeInv, TypeOK, worker_vars
<1>4. \A s : Delivered(s)' = Delivered(s)
  BY <1>1, <1>2, DeliveredSame
<1>5. \A p \in Orders : InProgress(p) => orders[p].service # z
  <2> SUFFICES ASSUME NEW p \in Orders, InProgress(p), orders[p].service = z PROVE FALSE
    OBVIOUS
  <2>1. orders[p].status \in {"held", "paid", "review"}
    BY DEF InProgress, Owed
  <2>2. z = x
    BY <1>1, <2>1 DEF OpenOrders
  <2>3. x <= p
    BY <2>1, <2>2 DEF Books, Older
  <2> QED
    BY <1>1, <2>1, <2>3 DEF Orders
<1>6. OneOpen' /\ Older'
  BY <1>2, <1>5 DEF Books, OneOpen, Older, InProgress
<1>7. VolumeMatchesSales' /\ Unserved'
  BY <1>1, <1>4 DEF Books, VolumeMatchesSales, Delivered, Unserved
<1>8. orders[x].target = None
  BY <1>1 DEF Books, TargetsDue, Owed
<1>9. TargetsDue'
  <2> SUFFICES ASSUME NEW o \in Orders, orders'[o].target # None, NEW s, s = orders'[o].service
               PROVE  orders'[o].status \in Owed /\ orders'[o].target.volume = Delivered(s)' + 1
    BY DEF TargetsDue
  <2> QED
    BY <1>2, <1>4 DEF Books, TargetsDue
<1>10. PanelExplained'
  <2> SUFFICES ASSUME NEW s \in Orders, panel[s] # None
               PROVE  \/ panel[s].volume = Delivered(s)
                      \/ /\ panel[s].volume = Delivered(s) + 1
                         /\ \E o \in Orders : orders'[o].service = s /\ orders'[o].target # None
    BY <1>1, <1>4 DEF PanelExplained
  <2> QED
    BY <1>2, <1>8 DEF Books, PanelExplained
<1>11. Hands'
  BY <1>1 DEF Hands, BatchDue, WorkerHolds, TypeInv, TypeOK, worker_vars
<1> QED
  BY <1>3, <1>6, <1>7, <1>9, <1>10, <1>11 DEF Books

LEMMA RotateKeeps ==
  ASSUME IInv, NEW s \in Orders, Rotate(s) \/ RotateUnsaved(s)
  PROVE  IInv'
<1> USE DEF IInv
<1>1. /\ step = "idle" /\ panel[s] # None /\ rotations < MaxRotations
      /\ panel' = [panel EXCEPT ![s].creds = rotations + 1] /\ rotations' = rotations + 1
      /\ \/ services' = services
         \/ services' = [services EXCEPT ![s].data.creds = rotations + 1]
      /\ UNCHANGED <<orders, failures, planInbounds, live, worker_vars, crashes>>
  BY DEF Rotate, RotateUnsaved
<1>2. rotations + 1 \in Nat /\ rotations + 1 <= MaxRotations
  BY <1>1, ProvisionAssumption DEF TypeInv, TypeOK
<1>3. /\ panel' \in [Orders -> Client \cup {None}]
      /\ \A z \in Orders : panel'[z] # None =>
           panel[z] # None /\ panel'[z].volume = panel[z].volume /\ panel'[z] \in Client
  <2>1. panel[s] \in Client
    BY <1>1 DEF TypeInv
  <2>2. panel' = [panel EXCEPT ![s] = [panel[s] EXCEPT !.creds = rotations + 1]]
    BY <1>1
  <2>3. /\ [panel[s] EXCEPT !.creds = rotations + 1] \in Client
        /\ [panel[s] EXCEPT !.creds = rotations + 1].volume = panel[s].volume
    BY <1>2, <2>1 DEF Client
  <2> QED
    BY <1>1, <2>2, <2>3 DEF TypeInv
<1>4. /\ services' \in [Orders -> [status : {"none", "active", "deleted"}, data : Data]]
      /\ \A z \in Orders : /\ services'[z].data.volume = services[z].data.volume
                           /\ services'[z].status = "none" => services[z].status = "none"
  <2>1. services[s] \in [status : {"none", "active", "deleted"}, data : Data]
    BY DEF TypeInv, TypeOK
  <2>2. CASE services' = [services EXCEPT ![s].data.creds = rotations + 1]
    <3> DEFINE row == [services[s] EXCEPT !.data = [services[s].data EXCEPT !.creds = rotations + 1]]
    <3>1. services' = [services EXCEPT ![s] = row]
      BY <2>2
    <3>2. /\ row \in [status : {"none", "active", "deleted"}, data : Data]
          /\ row.data.volume = services[s].data.volume /\ row.status = services[s].status
      BY <1>2, <2>1 DEF Data
    <3> HIDE DEF row
    <3> QED
      BY <3>1, <3>2 DEF TypeInv, TypeOK
  <2>3. CASE services' = services
    BY <2>3 DEF TypeInv, TypeOK
  <2> QED
    BY <1>1, <2>2, <2>3
<1>5. TypeInv'
  <2>1. rotations' \in 0 .. MaxRotations
    BY <1>1, <1>2, ProvisionAssumption
  <2>2. \A z \in Orders : panel'[z] # None =>
          panel'[z] \in [volume : Nat, creds : Nat, inbounds : SUBSET Inbounds]
    BY <1>3 DEF Client
  <2> QED
    BY <1>1, <1>3, <1>4, <2>1, <2>2 DEF TypeInv, TypeOK, worker_vars
<1>6. RowsKept
  BY <1>1, <1>4 DEF RowsKept, InProgress
<1> QED
  BY <1>1, <1>3, <1>5, <1>6, RowsKeptBooks, HandsKept

LEMMA DeleteKeeps ==
  ASSUME IInv, NEW s \in Orders, Delete(s) \/ DeleteUnsaved(s)
  PROVE  IInv'
<1> USE DEF IInv
<1>1. /\ step = "idle" /\ panel' = [panel EXCEPT ![s] = None]
      /\ \/ services' = services
         \/ services' = [services EXCEPT ![s].status = "deleted"]
      /\ UNCHANGED <<orders, failures, planInbounds, live, worker_vars, rotations, crashes>>
  BY DEF Delete, DeleteUnsaved
<1>2. /\ panel' \in [Orders -> Client \cup {None}]
      /\ \A z \in Orders : panel'[z] # None => panel[z] # None /\ panel'[z] = panel[z]
  BY <1>1 DEF TypeInv, TypeOK
<1>3. /\ services' \in [Orders -> [status : {"none", "active", "deleted"}, data : Data]]
      /\ \A z \in Orders : /\ services'[z].data.volume = services[z].data.volume
                           /\ services'[z].status = "none" => services[z].status = "none"
  <2>1. CASE services' = [services EXCEPT ![s].status = "deleted"]
    BY <2>1 DEF TypeInv, TypeOK
  <2> QED
    BY <1>1, <2>1 DEF TypeInv, TypeOK
<1>4. TypeInv'
  BY <1>1, <1>2, <1>3 DEF TypeInv, TypeOK, worker_vars
<1>5. RowsKept
  BY <1>1, <1>3 DEF RowsKept, InProgress
<1> QED
  BY <1>1, <1>2, <1>4, <1>5, RowsKeptBooks, HandsKept

-----------------------------------------------------------------------------
(* Administrators *)

\* Decisions, retries and recorded failures move an order among the statuses
\* before delivery.
LEMMA StatusMoved ==
  ASSUME IInv, NEW x \in Orders, NEW st \in {"paid", "review", "cancelled"},
         orders[x].status = "held" \/ (orders[x].status \in Owed /\ st \in Owed),
         orders' = [orders EXCEPT ![x].status = st], services' = services
  PROVE  RowsKept /\ orders' \in [Orders -> Order]
<1>1. orders[x] \in Order /\ orders' = [orders EXCEPT ![x] = [orders[x] EXCEPT !.status = st]]
  BY DEF IInv, TypeInv, TypeOK
<1>2. /\ orders' \in [Orders -> Order]
      /\ orders'[x].status = st /\ orders'[x].service = orders[x].service
      /\ orders'[x].target = orders[x].target
      /\ \A o \in Orders \ {x} : orders'[o] = orders[o]
  <2> DEFINE row == [orders[x] EXCEPT !.status = st]
  <2>1. /\ row \in Order /\ row.status = st /\ row.service = orders[x].service
        /\ row.target = orders[x].target
    BY <1>1 DEF Order, Statuses
  <2> HIDE DEF row
  <2>2. orders' = [orders EXCEPT ![x] = row] /\ orders \in [Orders -> Order]
    BY <1>1 DEF row, IInv, TypeInv, TypeOK
  <2> QED
    BY <2>1, <2>2
<1> QED
  BY <1>2 DEF RowsKept, InProgress, Owed

LEMMA DecisionKeeps ==
  ASSUME IInv, NEW x \in Orders,
         Decide(x, "paid") \/ Decide(x, "cancelled") \/ Retry(x)
  PROVE  IInv'
<1> USE DEF IInv
<1>1. PICK st \in {"paid", "review", "cancelled"} :
        /\ orders[x].status = "held" \/ (orders[x].status \in Owed /\ st \in Owed)
        /\ orders' = [orders EXCEPT ![x].status = st]
  BY DEF Decide, Retry, Owed
<1>2. UNCHANGED <<failures, services, panel, planInbounds, live, worker_vars,
                  rotations, crashes>>
  BY DEF Decide, Retry
<1>3. RowsKept /\ orders' \in [Orders -> Order]
  BY <1>1, <1>2, StatusMoved
<1>4. TypeInv'
  BY <1>2, <1>3 DEF TypeInv, TypeOK, worker_vars
<1> QED
  BY <1>2, <1>3, <1>4, RowsKeptBooks, HandsKept

\* Whatever leaves orders, services, panel and worker alone.
LEMMA AloneKeeps ==
  ASSUME IInv, TypeInv', UNCHANGED <<orders, services, panel, worker_vars>>
  PROVE  IInv'
<1>1. RowsKept
  BY DEF RowsKept, InProgress
<1> QED
  BY <1>1, RowsKeptBooks, HandsKept DEF IInv

LEMMA SurroundingsKeep ==
  ASSUME IInv,
         \/ \E S \in Selections : EditPlan(S)
         \/ \E i \in Switched : SwitchInbound(i)
         \/ \E o \in Orders : BecomeDue(o)
  PROVE  IInv'
<1> USE DEF IInv
<1>1. UNCHANGED <<orders, services, panel, worker_vars>>
  BY DEF EditPlan, SwitchInbound, BecomeDue
<1>2. TypeInv'
  <2>1. ASSUME NEW S \in Selections, EditPlan(S) PROVE TypeInv'
    BY <2>1 DEF TypeInv, TypeOK, EditPlan, worker_vars
  <2>2. ASSUME NEW i \in Switched, SwitchInbound(i) PROVE TypeInv'
    BY <2>2, ProvisionAssumption DEF TypeInv, TypeOK, SwitchInbound, worker_vars
  <2>3. ASSUME NEW o \in Orders, BecomeDue(o) PROVE TypeInv'
    <3>1. failures' \in [Orders -> [attempts : 0 .. MaxAttempts, due : BOOLEAN]]
      <4>0. failures[o] \in [attempts : 0 .. MaxAttempts, due : BOOLEAN]
        BY DEF TypeInv, TypeOK
      <4>1. [failures[o] EXCEPT !.due = TRUE] \in [attempts : 0 .. MaxAttempts, due : BOOLEAN]
        BY <4>0
      <4>2. failures' = [failures EXCEPT ![o] = [failures[o] EXCEPT !.due = TRUE]]
        BY <2>3 DEF BecomeDue
      <4> QED
        BY <4>1, <4>2 DEF TypeInv, TypeOK
    <3> QED
      BY <2>3, <3>1 DEF TypeInv, TypeOK, BecomeDue, worker_vars
  <2> QED
    BY <2>1, <2>2, <2>3
<1> QED
  BY <1>1, <1>2, AloneKeeps

-----------------------------------------------------------------------------
(* The worker *)

LEMMA CurFacts ==
  ASSUME IInv, step # "idle"
  PROVE  /\ Cur \in DOMAIN batch /\ Cur \in Orders /\ DOMAIN batch # {}
         /\ orders[Cur] \in Order /\ batch[Cur] \in Order
         /\ orders[Cur].service \in Orders /\ orders[Cur].status \in Owed
<1>1. DOMAIN batch # {} /\ DOMAIN batch \subseteq Orders
  BY DEF IInv, TypeInv, TypeOK
<1>2. Cur \in DOMAIN batch
  BY <1>1, SmallestIn DEF Cur
<1>3. orders[Cur] \in Order /\ batch[Cur] \in Order
  BY <1>1, <1>2 DEF IInv, TypeInv, TypeOK
<1>4. orders[Cur].status \in Owed
  BY <1>2 DEF IInv, Hands, BatchDue
<1> QED
  BY <1>1, <1>2, <1>3, <1>4 DEF Order

LEMMA FetchKeeps == ASSUME IInv, Fetch PROVE IInv'
<1> USE DEF IInv
<1>1. /\ Unfinished # {} /\ Unfinished \subseteq Orders
      /\ batch' = [o \in Earliest(Limit, Unfinished) |-> orders[o]] /\ step' = "pick"
      /\ UNCHANGED <<orders, failures, services, panel, planInbounds, live, data, chosen,
                     rotations, crashes>>
  BY DEF Fetch, Unfinished
<1>2. DOMAIN batch' = Earliest(Limit, Unfinished) /\ DOMAIN batch' # {}
      /\ DOMAIN batch' \subseteq Unfinished
  BY <1>1, EarliestSome
<1>3. \A o \in DOMAIN batch' : batch'[o] = orders[o] /\ orders[o].status \in Owed
  BY <1>1, <1>2 DEF Unfinished, Owed
<1>4. TypeInv'
  BY <1>1, <1>2, <1>3 DEF TypeInv, TypeOK
<1>5. RowsKept
  BY <1>1 DEF RowsKept, InProgress
<1>6. Books'
  BY <1>1, <1>5, RowsKeptBooks
<1>7. Hands'
  BY <1>1, <1>3 DEF Hands, BatchDue, WorkerHolds
<1> QED
  BY <1>4, <1>6, <1>7

LEMMA SkipKeeps == ASSUME IInv, Skip PROVE IInv'
<1> USE DEF IInv
<1>1. /\ step = "pick" /\ Leave
      /\ UNCHANGED <<orders, failures, services, panel, planInbounds, live,
                     rotations, crashes>>
  BY DEF Skip
<1>2. DOMAIN batch # {}
  BY <1>1, CurFacts
<1>3. TypeInv'
  BY <1>1, <1>2, LeaveTypes DEF TypeInv, TypeOK
<1>4. RowsKept
  BY <1>1 DEF RowsKept, InProgress
<1>5. Books'
  BY <1>1, <1>4, RowsKeptBooks
<1>6. Hands'
  BY <1>1, LeaveHands DEF Hands, BatchDue
<1> QED
  BY <1>3, <1>5, <1>6

\* A new target is one order more than what the service has (NewTarget).
LEMMA NewTargetDue ==
  ASSUME IInv, NEW s \in Orders
  PROVE  NewTarget(s) \in Data /\ NewTarget(s).volume = Delivered(s) + 1
<1>1. /\ services[s] \in [status : {"none", "active", "deleted"}, data : Data]
      /\ services[s].data.volume = Delivered(s) /\ Delivered(s) \in Nat
  BY WithFinite DEF IInv, TypeInv, TypeOK, Books, VolumeMatchesSales, Delivered
<1>2. services[s].status = "none" => Delivered(s) = 0
  BY <1>1 DEF IInv, Books, Unserved
<1> QED
  BY <1>1, <1>2 DEF NewTarget, Data

LEMMA PickKeeps == ASSUME IInv, Pick PROVE IInv'
<1> USE DEF IInv
<1> DEFINE x == Cur
           z == orders[x].service
<1>1. /\ step = "pick" /\ step' = "panel"
      /\ UNCHANGED <<failures, services, panel, planInbounds, live, batch, chosen,
                     rotations, crashes>>
  BY DEF Pick
<1>2. x \in DOMAIN batch /\ x \in Orders /\ z \in Orders /\ orders[x] \in Order
      /\ batch[x] \in Order /\ orders[x].status \in Owed /\ Cur' = x
  BY <1>1, CurFacts DEF Cur
<1> HIDE DEF x
<1>3. /\ data' \in Data /\ data'.volume = Delivered(z) + 1
      /\ orders' \in [Orders -> Order]
      /\ orders'[x].target = data'
      /\ orders'[x].status = orders[x].status /\ orders'[x].service = z
      /\ orders'[x].inbounds = orders[x].inbounds
      /\ \A o \in Orders \ {x} : orders'[o] = orders[o]
  <2>1. CASE batch[x].target = None
    <3> DEFINE row == [orders[x] EXCEPT !.target = NewTarget(z)]
    <3>1. NewTarget(z) \in Data /\ NewTarget(z).volume = Delivered(z) + 1
      BY <1>2, NewTargetDue
    <3>2. data' = NewTarget(z) /\ orders' = [orders EXCEPT ![x] = row]
      BY <2>1 DEF Pick, x
    <3>3. /\ row \in Order /\ row.target = NewTarget(z) /\ row.status = orders[x].status
          /\ row.service = z /\ row.inbounds = orders[x].inbounds
      BY <1>2, <3>1 DEF Order
    <3> HIDE DEF row, z
    <3> QED
      BY <1>2, <3>1, <3>2, <3>3 DEF TypeInv, TypeOK
  <2>2. CASE batch[x].target # None
    <3>1. data' = batch[x].target /\ orders' = orders
      BY <2>2 DEF Pick, x
    <3>2. orders[x].target = batch[x].target
      BY <1>2, <2>2 DEF Hands, BatchDue
    <3>3. orders[x].target \in Data /\ orders[x].target.volume = Delivered(z) + 1
      BY <1>2, <2>2, <3>2 DEF Books, TargetsDue, Order
    <3> QED
      BY <1>2, <3>1, <3>2, <3>3 DEF TypeInv, TypeOK
  <2> QED
    BY <2>1, <2>2
<1> HIDE DEF z
<1>4. TypeInv'
  BY <1>1, <1>3 DEF TypeInv, TypeOK
<1>5. data' # None
  BY <1>3, ProvisionAssumption DEF Data
<1>6. \A s : Delivered(s)' = Delivered(s)
  BY <1>3, DeliveredSame DEF z
<1>7. VolumeMatchesSales' /\ Unserved' /\ OneOpen' /\ Older'
  <2>1. VolumeMatchesSales' /\ Unserved'
    BY <1>1, <1>6 DEF Books, VolumeMatchesSales, Delivered, Unserved
  <2>2. \A o \in Orders : orders'[o].status = orders[o].status
                          /\ orders'[o].service = orders[o].service
    BY <1>3 DEF z
  <2> QED
    BY <2>1, <2>2 DEF Books, OneOpen, Older, InProgress
<1>8. TargetsDue'
  <2> SUFFICES ASSUME NEW o \in Orders, orders'[o].target # None, NEW s, s = orders'[o].service
               PROVE  orders'[o].status \in Owed /\ orders'[o].target.volume = Delivered(s)' + 1
    BY DEF TargetsDue
  <2>1. CASE o = x
    BY <1>2, <1>3, <1>6, <2>1
  <2>2. CASE o # x
    BY <1>3, <1>6, <2>2 DEF Books, TargetsDue
  <2> QED
    BY <2>1, <2>2
<1>9. PanelExplained'
  <2> SUFFICES ASSUME NEW s \in Orders, panel[s] # None
               PROVE  \/ panel[s].volume = Delivered(s)
                      \/ /\ panel[s].volume = Delivered(s) + 1
                         /\ \E o \in Orders : orders'[o].service = s /\ orders'[o].target # None
    BY <1>1, <1>6 DEF PanelExplained
  <2>1. \A o \in Orders : orders[o].target # None =>
          orders'[o].service = orders[o].service /\ orders'[o].target # None
    BY <1>3, <1>5 DEF z
  <2> QED
    BY <2>1 DEF Books, PanelExplained
<1>10. Hands'
  <2>1. BatchDue'
    <3> SUFFICES ASSUME NEW o \in DOMAIN batch
                 PROVE  /\ orders'[o].status \in Owed
                        /\ batch[o].target # None => orders'[o].target = batch[o].target
      BY <1>1 DEF BatchDue
    <3>1. /\ o \in Orders /\ orders[o].status \in Owed
          /\ batch[o].target # None => orders[o].target = batch[o].target
      BY DEF Hands, BatchDue, TypeInv, TypeOK
    <3>2. CASE o # x
      BY <1>3, <3>1, <3>2
    <3>3. CASE o = x
      BY <1>3, <3>1, <3>3 DEF Pick, x
    <3> QED
      BY <3>2, <3>3
  <2>2. WorkerHolds'
    BY <1>1, <1>2, <1>3 DEF WorkerHolds
  <2> QED
    BY <2>1, <2>2 DEF Hands
<1> QED
  BY <1>4, <1>7, <1>8, <1>9, <1>10 DEF Books

LEMMA WritePanelKeeps == ASSUME IInv, WritePanel PROVE IInv'
<1> USE DEF IInv
<1> DEFINE x == Cur
           z == orders[x].service
           row == [volume |-> data.volume, creds |-> data.creds,
                   inbounds |-> IF panel[z] = None THEN Selected(x) ELSE panel[z].inbounds]
<1>1. /\ step = "panel" /\ step' = "written"
      /\ panel' = [panel EXCEPT ![z] = row] /\ chosen' = Selected(x)
      /\ UNCHANGED <<orders, failures, services, planInbounds, live, batch, data,
                     rotations, crashes>>
  BY DEF WritePanel
<1>2. x \in Orders /\ z \in Orders /\ orders[x].status \in Owed /\ Cur' = x
      /\ orders[x].target = data
  BY <1>1, CurFacts DEF Cur, Hands, WorkerHolds
<1>3. data \in Data /\ data # None /\ data.volume = Delivered(z) + 1
  BY <1>2, ProvisionAssumption DEF TypeInv, TypeOK, Books, TargetsDue, Data
<1>4. Selected(x) \subseteq Inbounds
  BY DEF Selected, TypeInv, TypeOK
<1>5. row \in Client /\ row.volume = data.volume
  <2>1. panel[z] # None => panel[z] \in Client
    BY <1>2 DEF TypeInv
  <2> QED
    BY <1>3, <1>4, <2>1 DEF Client, Data
<1> HIDE DEF row, x
<1>6. /\ panel' \in [Orders -> Client \cup {None}] /\ panel'[z] = row
      /\ \A s \in Orders \ {z} : panel'[s] = panel[s]
  BY <1>1, <1>2, <1>5 DEF TypeInv
<1> HIDE DEF z
<1>7. TypeInv'
  <2>1. \A s \in Orders : panel'[s] # None =>
          panel'[s] \in [volume : Nat, creds : Nat, inbounds : SUBSET Inbounds]
    BY <1>6 DEF Client
  <2> QED
    BY <1>1, <1>4, <1>6, <2>1 DEF TypeInv, TypeOK
<1>8. \A s : Delivered(s)' = Delivered(s)
  BY <1>1, DeliveredSame
<1>9. VolumeMatchesSales' /\ Unserved' /\ OneOpen' /\ Older'
  BY <1>1, <1>8 DEF Books, VolumeMatchesSales, Delivered, Unserved, OneOpen, Older, InProgress
<1>10. TargetsDue'
  <2> SUFFICES ASSUME NEW o \in Orders, orders'[o].target # None, NEW s, s = orders'[o].service
               PROVE  orders'[o].status \in Owed /\ orders'[o].target.volume = Delivered(s)' + 1
    BY DEF TargetsDue
  <2> QED
    BY <1>1, <1>8 DEF Books, TargetsDue
<1>11. PanelExplained'
  <2> SUFFICES ASSUME NEW s \in Orders, panel'[s] # None
               PROVE  \/ panel'[s].volume = Delivered(s)
                      \/ /\ panel'[s].volume = Delivered(s) + 1
                         /\ \E o \in Orders : orders[o].service = s /\ orders[o].target # None
    BY <1>1, <1>8 DEF PanelExplained
  <2>1. CASE s = z
    <3>1. panel'[s].volume = Delivered(s) + 1
      BY <1>3, <1>5, <1>6, <2>1
    <3>2. orders[x].service = s /\ orders[x].target # None
      BY <1>2, <1>3, <2>1 DEF z
    <3> QED
      BY <1>2, <3>1, <3>2
  <2>2. CASE s # z
    BY <1>6, <2>2 DEF Books, PanelExplained
  <2> QED
    BY <2>1, <2>2
<1>12. Hands'
  <2>1. BatchDue'
    BY <1>1 DEF Hands, BatchDue
  <2>2. WorkerHolds'
    BY <1>1, <1>2, <1>5, <1>6 DEF WorkerHolds, z
  <2> QED
    BY <2>1, <2>2 DEF Hands
<1> QED
  BY <1>7, <1>9, <1>10, <1>11, <1>12 DEF Books

LEMMA CommitKeeps == ASSUME IInv, Commit PROVE IInv'
<1> USE DEF IInv
<1> DEFINE x == Cur
           row == [[orders[x] EXCEPT !.status = "fulfilled"] EXCEPT !.target = None]
<1>0. PICK z \in Orders : z = orders[x].service
  BY CurFacts DEF Commit
<1>1. /\ step = "written" /\ Leave
      /\ services' = [services EXCEPT ![z] = [status |-> "active", data |-> data]]
      /\ orders' = [orders EXCEPT ![x].status = "fulfilled", ![x].target = None]
      /\ UNCHANGED <<failures, panel, planInbounds, live, rotations, crashes>>
  BY <1>0 DEF Commit
<1>2. x \in Orders /\ orders[x].status \in Owed /\ orders[x] \in Order
      /\ DOMAIN batch # {} /\ orders[x].target = data /\ panel[z].volume = data.volume
  BY <1>0, <1>1, CurFacts DEF Hands, WorkerHolds
<1>3. data \in Data /\ data # None /\ data.volume = Delivered(z) + 1
  BY <1>0, <1>2, ProvisionAssumption DEF TypeInv, TypeOK, Books, TargetsDue, Data
<1>4. row \in Order /\ row.status = "fulfilled" /\ row.service = z /\ row.target = None
  BY <1>0, <1>2 DEF Order, Statuses
<1>5. orders' = [orders EXCEPT ![x] = row]
  BY <1>1, <1>2 DEF TypeInv, TypeOK
<1>6. Hands'
  <2>1. \A o \in DOMAIN batch \ {Cur} :
          orders'[o].status \in Owed /\ orders'[o].target = orders[o].target
    BY <1>5 DEF Hands, BatchDue, TypeInv, TypeOK
  <2> QED
    BY <1>1, <2>1, LeaveHands
<1>7. /\ step' \in {"idle", "pick", "panel", "written"}
      /\ DOMAIN batch' \subseteq Orders /\ \A o \in DOMAIN batch' : batch'[o] \in Order
      /\ (step = "idle")' <=> (DOMAIN batch = {})'
      /\ data' \in Data /\ chosen' \subseteq Inbounds
  BY <1>1, <1>2, LeaveTypes
<1> HIDE DEF row, x
<1>8. /\ orders' \in [Orders -> Order] /\ orders'[x] = row
      /\ \A o \in Orders \ {x} : orders'[o] = orders[o]
  BY <1>2, <1>4, <1>5 DEF TypeInv, TypeOK
<1>9. /\ services' \in [Orders -> [status : {"none", "active", "deleted"}, data : Data]]
      /\ services'[z].status = "active" /\ services'[z].data = data
      /\ \A s \in Orders \ {z} : services'[s] = services[s]
  BY <1>1, <1>2, <1>3 DEF TypeInv, TypeOK
<1>10. TypeInv'
  BY <1>1, <1>7, <1>8, <1>9 DEF TypeInv, TypeOK
<1>11. Delivered(z)' = Delivered(z) + 1
  BY <1>2, <1>4, <1>8, DeliveredMore DEF Owed
<1>12. \A s \in Orders \ {z} : Delivered(s)' = Delivered(s)
  <2> SUFFICES ASSUME NEW s \in Orders \ {z} PROVE Delivered(s)' = Delivered(s)
    OBVIOUS
  <2>1. \A o \in Orders : (orders'[o].service = s /\ orders'[o].status = "fulfilled")
                            <=> (orders[o].service = s /\ orders[o].status = "fulfilled")
    BY <1>0, <1>4, <1>8
  <2> QED
    BY <2>1, DeliveredSame
<1>13. VolumeMatchesSales' /\ Unserved'
  <2> SUFFICES ASSUME NEW s \in Orders
               PROVE  /\ services'[s].data.volume = Delivered(s)'
                      /\ services'[s].status = "none" => services'[s].data.volume = 0
    BY DEF VolumeMatchesSales, Delivered, Unserved
  <2>1. CASE s = z
    BY <1>3, <1>9, <1>11, <2>1
  <2>2. CASE s # z
    BY <1>9, <1>12, <2>2 DEF Books, VolumeMatchesSales, Delivered, Unserved
  <2> QED
    BY <2>1, <2>2
<1>14. OneOpen' /\ Older'
  <2>1. \A o \in Orders : /\ orders'[o].service = orders[o].service
                          /\ InProgress(o)' => InProgress(o)
                          /\ orders'[o].status # "none" => orders[o].status # "none"
    BY <1>0, <1>2, <1>4, <1>8 DEF InProgress, Owed
  <2> QED
    BY <2>1 DEF Books, OneOpen, Older
<1>15. \A o \in Orders \ {x} : orders[o].target # None => orders[o].service # z
  BY <1>0, <1>2 DEF Books, OneOpen, TargetsDue, InProgress
<1>16. TargetsDue'
  <2> SUFFICES ASSUME NEW o \in Orders, orders'[o].target # None, NEW s, s = orders'[o].service
               PROVE  orders'[o].status \in Owed /\ orders'[o].target.volume = Delivered(s)' + 1
    BY DEF TargetsDue
  <2>1. o # x
    BY <1>4, <1>8
  <2>2. s \in Orders \ {z}
    BY <1>8, <1>15, <2>1 DEF TypeInv, TypeOK, Order
  <2> QED
    BY <1>8, <1>12, <2>1, <2>2 DEF Books, TargetsDue
<1>17. PanelExplained'
  <2> SUFFICES ASSUME NEW s \in Orders, panel[s] # None
               PROVE  \/ panel[s].volume = Delivered(s)'
                      \/ /\ panel[s].volume = Delivered(s)' + 1
                         /\ \E o \in Orders : orders'[o].service = s /\ orders'[o].target # None
    BY <1>1 DEF PanelExplained
  <2>1. CASE s = z
    BY <1>2, <1>3, <1>11, <2>1
  <2>2. CASE s # z
    <3>1. \A o \in Orders : orders[o].service = s => orders'[o] = orders[o]
      BY <1>0, <1>8, <2>2
    <3> QED
      BY <1>12, <2>2, <3>1 DEF Books, PanelExplained
  <2> QED
    BY <2>1, <2>2
<1> QED
  BY <1>6, <1>10, <1>13, <1>14, <1>16, <1>17 DEF Books

\* A failed attempt leaves the target where it is, so that the panel's volume
\* stays explained.
LEMMA FailKeeps == ASSUME IInv, Fail PROVE IInv'
<1> USE DEF IInv
<1> DEFINE x == Cur
<1>1. /\ step # "idle" /\ Leave /\ RecordFailure(x)
      /\ UNCHANGED <<services, panel, planInbounds, live, rotations, crashes>>
  BY DEF Fail
<1>2. x \in Orders /\ orders[x].status \in Owed /\ DOMAIN batch # {}
  BY <1>1, CurFacts
<1>3. /\ step' \in {"idle", "pick", "panel", "written"}
      /\ DOMAIN batch' \subseteq Orders /\ \A o \in DOMAIN batch' : batch'[o] \in Order
      /\ (step = "idle")' <=> (DOMAIN batch = {})'
      /\ data' \in Data /\ chosen' \subseteq Inbounds
  BY <1>1, <1>2, LeaveTypes
<1>4. orders' = [orders EXCEPT ![x].status = "review"]
  BY <1>1, <1>2 DEF RecordFailure, Owed, TypeInv, TypeOK
<1>5. RowsKept /\ orders' \in [Orders -> Order]
  <2>1. "review" \in Owed
    BY DEF Owed
  <2> QED
    BY <1>1, <1>2, <1>4, <2>1, StatusMoved
<1>6. failures' \in [Orders -> [attempts : 0 .. MaxAttempts, due : BOOLEAN]]
  <2> DEFINE row == [attempts |-> IF failures[x].attempts < MaxAttempts
                                  THEN failures[x].attempts + 1 ELSE failures[x].attempts,
                     due |-> FALSE]
  <2>1. failures[x] \in [attempts : 0 .. MaxAttempts, due : BOOLEAN]
    BY <1>2 DEF TypeInv, TypeOK
  <2>2. failures[x].attempts \in 0 .. MaxAttempts
    BY <2>1
  <2>3. row.attempts \in 0 .. MaxAttempts
    BY <2>2, ProvisionAssumption
  <2>4. row \in [attempts : 0 .. MaxAttempts, due : BOOLEAN]
    BY <2>3
  <2>5. failures' = [failures EXCEPT ![x] = row]
    BY <1>1 DEF RecordFailure
  <2> HIDE DEF row
  <2> QED
    BY <2>4, <2>5 DEF TypeInv, TypeOK
<1>7. TypeInv'
  BY <1>1, <1>3, <1>5, <1>6 DEF TypeInv, TypeOK
<1>8. Books'
  BY <1>1, <1>5, RowsKeptBooks
<1>9. Hands'
  <2>1. \A o \in DOMAIN batch \ {Cur} :
          orders'[o].status \in Owed /\ orders'[o].target = orders[o].target
    BY <1>5 DEF RowsKept, Hands, BatchDue, TypeInv, TypeOK
  <2> QED
    BY <1>1, <2>1, LeaveHands
<1> QED
  BY <1>7, <1>8, <1>9

LEMMA CrashKeeps == ASSUME IInv, Crash PROVE IInv'
<1> USE DEF IInv
<1>1. /\ step' = "idle" /\ batch' = <<>> /\ data' = NoData /\ chosen' = {}
      /\ crashes < MaxCrashes /\ crashes' = crashes + 1
      /\ UNCHANGED <<orders, failures, services, panel, planInbounds, live, rotations>>
  BY DEF Crash
<1>2. crashes' \in 0 .. MaxCrashes
  BY <1>1, ProvisionAssumption DEF TypeInv, TypeOK
<1>3. TypeInv'
  BY <1>1, <1>2 DEF TypeInv, TypeOK, NoData, Data
<1>4. RowsKept
  BY <1>1 DEF RowsKept, InProgress
<1>5. Books'
  BY <1>1, <1>4, RowsKeptBooks
<1>6. Hands'
  BY <1>1 DEF Hands, BatchDue, WorkerHolds
<1> QED
  BY <1>3, <1>5, <1>6

LEMMA NextInv == IInv /\ [Next]_vars => IInv'
<1> SUFFICES ASSUME IInv, [Next]_vars PROVE IInv'
  OBVIOUS
<1>1. CASE Worker
  BY <1>1, FetchKeeps, SkipKeeps, PickKeeps, WritePanelKeeps, CommitKeeps, FailKeeps DEF Worker
<1>2. ASSUME NEW o \in Orders, NEW s \in Orders, s <= o, Place(o, s, "paid") \/ Place(o, s, "held")
      PROVE  IInv'
  BY <1>2, PlaceKeeps
<1>3. ASSUME NEW s \in Orders, Rotate(s) \/ RotateUnsaved(s) \/ Delete(s) \/ DeleteUnsaved(s)
      PROVE  IInv'
  BY <1>3, RotateKeeps, DeleteKeeps
<1>4. ASSUME NEW o \in Orders, Decide(o, "paid") \/ Decide(o, "cancelled") \/ Retry(o)
      PROVE  IInv'
  BY <1>4, DecisionKeeps
<1>5. CASE \/ \E S \in Selections : EditPlan(S)
           \/ \E i \in Switched : SwitchInbound(i)
           \/ \E o \in Orders : BecomeDue(o)
  BY <1>5, SurroundingsKeep
<1>6. CASE Environment
  BY <1>2, <1>3, <1>4, <1>5, <1>6, CrashKeeps DEF Environment
<1>7. CASE UNCHANGED vars
  <2>1. UNCHANGED <<orders, services, panel, worker_vars>> /\ TypeInv'
    BY <1>7 DEF vars, worker_vars, IInv, TypeInv, TypeOK
  <2> QED
    BY <2>1, AloneKeeps
<1> QED
  BY <1>1, <1>5, <1>6, <1>7 DEF Next

-----------------------------------------------------------------------------
(* Theorems *)

LEMMA Invariant == Spec => []IInv
BY InitInv, NextInv, PTL DEF Spec

\* README.md:101: a retry adds no volume.  provision computes the target of an
\* order once, from the rows, and repeats it; whatever fails, is lost or
\* crashes between its three writes, for any number of orders, a service has
\* the volume of its delivered orders.
THEOREM ProvisionVolume == Spec => []VolumeMatchesSales
<1>1. IInv => VolumeMatchesSales
  BY DEF IInv, Books
<1> QED
  BY <1>1, Invariant, PTL

\* A stored target is that of an order which is owed: the panel is at most at
\* the volume that was paid for.
LEMMA NeverAhead == ASSUME IInv PROVE PanelNeverAhead
<1> SUFFICES ASSUME NEW s \in Orders, panel[s] # None
             PROVE  panel[s].volume <= Cardinality(With(s, Owed \cup {"fulfilled"}))
  <2>1. Owed \cup {"fulfilled"} = {"paid", "review", "fulfilled"}
    BY DEF Owed
  <2> QED
    BY <2>1 DEF PanelNeverAhead
<1> DEFINE done == With(s, {"fulfilled"})
           all == With(s, Owed \cup {"fulfilled"})
<1>1. done \subseteq all /\ IsFiniteSet(all) /\ IsFiniteSet(done)
  BY WithFinite DEF With
<1>2. Cardinality(done) \in Nat /\ Cardinality(all) \in Nat /\ Cardinality(done) <= Cardinality(all)
  BY <1>1, FS_Subset, FS_CardinalityType
<1>3. CASE panel[s].volume = Delivered(s)
  BY <1>2, <1>3 DEF Delivered
<1>4. ASSUME panel[s].volume = Delivered(s) + 1,
             NEW o \in Orders, orders[o].service = s, orders[o].target # None
      PROVE  panel[s].volume <= Cardinality(all)
  <2>1. orders[o].status \in Owed
    BY <1>4 DEF IInv, Books, TargetsDue
  <2>2. done \cup {o} \subseteq all /\ o \notin done
    BY <1>4, <2>1 DEF With, Owed
  <2>3. Cardinality(done \cup {o}) = Cardinality(done) + 1 /\ Cardinality(done \cup {o}) <= Cardinality(all)
    BY <1>1, <2>2, FS_AddElement, FS_Subset
  <2> QED
    BY <1>2, <1>4, <2>3 DEF Delivered
<1> QED
  BY <1>3, <1>4 DEF IInv, Books, PanelExplained

LEMMA MatchesRecord == ASSUME IInv PROVE PanelMatchesRecord
<1> SUFFICES ASSUME NEW s \in Orders, panel[s] # None,
                    \A o \in OpenOrders(s) : orders[o].target = None
             PROVE  panel[s].volume = services[s].data.volume
  BY DEF PanelMatchesRecord
<1>1. ~ \E o \in Orders : orders[o].service = s /\ orders[o].target # None
  BY DEF IInv, Books, TargetsDue, OpenOrders, Owed
<1> QED
  BY <1>1 DEF IInv, Books, PanelExplained, VolumeMatchesSales, Delivered

\* What provision leaves on the panel after each of its three writes, and after
\* a failure or a crash between any two of them: never more volume than was
\* paid for, and the row's own once no target waits (runtime/sales.py,
\* runtime/sales_worker.py).
THEOREM ProvisionPanel == Spec => []PanelInv
<1>1. IInv => PanelInv
  BY NeverAhead, MatchesRecord DEF PanelInv, IInv, TypeInv
<1> QED
  BY <1>1, Invariant, PTL
=============================================================================
