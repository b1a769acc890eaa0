----------------------------- MODULE Provision -----------------------------
(***************************************************************************)
(* How the worker turns paid orders into VPN services (provision and the   *)
(* loop of tick, runtime/sales.py and runtime/sales_worker.py).            *)
(*                                                                         *)
(* One worker process alternates: it handles the buyers' updates, then it  *)
(* fetches the first Limit unfinished orders and works on them one by one. *)
(* Three stores are written at different moments: the order's row gets an  *)
(* absolute target first, then the panel is told over HTTP, then service   *)
(* and order are written in one transaction.  Between these writes a call  *)
(* can fail, its answer can get lost, the process can die, and the web     *)
(* panel's process can approve receipts or ask for a retry.                *)
(*                                                                         *)
(* Volume is counted in units of one order, credentials are numbers;       *)
(* dates and names are left out, and the backoff between attempts is a     *)
(* flag `due' that time sets.  Orders are numbered as they were created.   *)
(***************************************************************************)
EXTENDS Integers, FiniteSets

CONSTANTS
  N,            \* bound: number of orders
  Limit,        \* rows the loop fetches (30)
  MaxAttempts,  \* failed attempts after which review is given up (7)
  Inbounds,     \* inbounds of the panel
  Switched,     \* those that are switched on and off in 3x-ui
  Selections,   \* the sets of inbounds an administrator selects for a plan
  MaxRotations, \* bound: rotations of credentials
  MaxCrashes,   \* bound: crashes of the worker
  PanelFails,   \* whether calls of the panel may fail
  None

ASSUME ProvisionAssumption ==
  /\ N \in Nat /\ Limit \in Nat \ {0} /\ MaxAttempts \in Nat \ {0}
  /\ MaxRotations \in Nat /\ MaxCrashes \in Nat
  /\ PanelFails \in BOOLEAN /\ Switched \subseteq Inbounds
  /\ Selections \subseteq (SUBSET Inbounds) \ {{}}
  /\ None \notin Nat /\ None \notin [volume : Nat, creds : Nat]

VARIABLES
  orders,     \* rows of orders: status, service, inbounds and the stored target
  failures,   \* rows of provision_failures: attempts and whether a retry is due
  services,   \* rows of services
  panel,      \* the panel's clients (x-ui), one per service, or None
  planInbounds, live,  \* inbounds the plan selects; inbounds that are enabled
  step,       \* where the worker is: "idle", "pick", "panel", "written"
  batch,      \* order id -> the row as it was fetched, for the rows left
  data, chosen,  \* the service data and the inbounds the worker holds for the
              \* first order of the batch
  rotations, crashes

vars == <<orders, failures, services, panel, planInbounds, live, step, batch,
          data, chosen, rotations, crashes>>
worker_vars == <<step, batch, data, chosen>>

Orders == 1 .. N                 \* a new order also names its service
Data == [volume : Nat, creds : Nat]
Statuses == {"none", "held", "paid", "review", "fulfilled", "cancelled"}
Order == [status : Statuses, service : Orders, inbounds : SUBSET Inbounds,
          target : Data \cup {None}]
NoOrder == [status |-> "none", service |-> 1, inbounds |-> {}, target |-> None]
NoData == [volume |-> 0, creds |-> 0]
NoService == [status |-> "none", data |-> NoData]

Init ==
  /\ orders = [o \in Orders |-> NoOrder]
  /\ failures = [o \in Orders |-> [attempts |-> 0, due |-> TRUE]]
  /\ services = [s \in Orders |-> NoService]
  /\ panel = [s \in Orders |-> None]
  /\ planInbounds \in Selections /\ live = Inbounds
  /\ step = "idle" /\ batch = <<>> /\ data = NoData /\ chosen = {}
  /\ rotations = 0 /\ crashes = 0

-----------------------------------------------------------------------------
Smallest(S) == CHOOSE o \in S : \A p \in S : o <= p
Earliest(n, S) == {o \in S : Cardinality({p \in S : p < o}) < n}

Unfinished == {o \in Orders : orders[o].status \in {"paid", "review"}}
OpenOrders(s) == {o \in Orders : orders[o].service = s
                                 /\ orders[o].status \in {"held", "paid", "review"}}
Active(s) == services[s].status = "active"
Cur == Smallest(DOMAIN batch)

-----------------------------------------------------------------------------
(* Updates of buyers, handled between two runs of the loop *)

\* A purchase: a new service (s = o) or the renewal of one that is active and
\* has no order in progress; only selected inbounds that are enabled now.
Place(o, s, status) ==
  /\ step = "idle" /\ \A p \in Orders : orders[p].status = "none" <=> p >= o
  /\ s # o => Active(s) /\ OpenOrders(s) = {}
  /\ planInbounds \cap live # {}
  /\ orders' = [orders EXCEPT ![o] = [status |-> status, service |-> s,
                  inbounds |-> planInbounds \cap live, target |-> None]]
  /\ UNCHANGED <<failures, services, panel, planInbounds, live, worker_vars,
                 rotations, crashes>>

\* rotate: new credentials go to the panel, then to the row; the owner is told
\* that the old ones are void.
Rotate(s) ==
  /\ step = "idle" /\ Active(s) /\ panel[s] # None /\ rotations < MaxRotations
  /\ panel' = [panel EXCEPT ![s].creds = rotations + 1]
  /\ services' = [services EXCEPT ![s].data.creds = rotations + 1]
  /\ rotations' = rotations + 1
  /\ UNCHANGED <<orders, failures, planInbounds, live, worker_vars, crashes>>

\* The panel took the new credentials but its answer is lost: the row keeps
\* the old ones and the owner is told of an error.
RotateUnsaved(s) ==
  /\ PanelFails /\ step = "idle" /\ Active(s) /\ panel[s] # None /\ rotations < MaxRotations
  /\ panel' = [panel EXCEPT ![s].creds = rotations + 1]
  /\ rotations' = rotations + 1
  /\ UNCHANGED <<orders, failures, services, planInbounds, live, worker_vars, crashes>>

Delete(s) ==
  /\ step = "idle" /\ Active(s) /\ panel[s] # None
  /\ panel' = [panel EXCEPT ![s] = None]
  /\ services' = [services EXCEPT ![s].status = "deleted"]
  /\ UNCHANGED <<orders, failures, planInbounds, live, worker_vars, rotations, crashes>>

DeleteUnsaved(s) ==
  /\ PanelFails /\ step = "idle" /\ Active(s) /\ panel[s] # None
  /\ panel' = [panel EXCEPT ![s] = None]
  /\ UNCHANGED <<orders, failures, services, planInbounds, live, worker_vars,
                 rotations, crashes>>

-----------------------------------------------------------------------------
(* Administrators, at any moment *)

Decide(o, status) ==
  /\ orders[o].status = "held" /\ status \in {"paid", "cancelled"}
  /\ orders' = [orders EXCEPT ![o].status = status]
  /\ UNCHANGED <<failures, services, panel, planInbounds, live, worker_vars,
                 rotations, crashes>>

Retry(o) ==
  /\ orders[o].status = "review"
  /\ orders' = [orders EXCEPT ![o].status = "paid"]
  /\ UNCHANGED <<failures, services, panel, planInbounds, live, worker_vars,
                 rotations, crashes>>

EditPlan(S) ==
  /\ S \subseteq live /\ planInbounds' = S
  /\ UNCHANGED <<orders, failures, services, panel, live, worker_vars, rotations, crashes>>

SwitchInbound(i) ==
  /\ live' = IF i \in live THEN live \ {i} ELSE live \cup {i}
  /\ UNCHANGED <<orders, failures, services, panel, planInbounds, worker_vars,
                 rotations, crashes>>

-----------------------------------------------------------------------------
(* The provisioning loop *)

Fetch ==
  /\ step = "idle" /\ Unfinished # {}
  /\ batch' = [o \in Earliest(Limit, Unfinished) |-> orders[o]]
  /\ step' = "pick"
  /\ UNCHANGED <<orders, failures, services, panel, planInbounds, live, data, chosen,
                 rotations, crashes>>

\* Mutant of Eligible: an order in review waits for an administrator.
EligibleWhenPaid(o) == batch[o].status = "paid"

\* eligible_review_retry, on the fetched status and the current failure row.
Eligible(o) ==
  \/ batch[o].status = "paid"
  \/ failures[o].attempts = 0
  \/ failures[o].attempts < MaxAttempts /\ failures[o].due

\* The first row of the batch is done with.
Leave ==
  /\ batch' = [o \in DOMAIN batch \ {Cur} |-> batch[o]]
  /\ step' = IF DOMAIN batch = {Cur} THEN "idle" ELSE "pick"
  /\ data' = NoData /\ chosen' = {}

Skip ==
  /\ step = "pick" /\ ~Eligible(Cur)
  /\ Leave
  /\ UNCHANGED <<orders, failures, services, panel, planInbounds, live,
                 rotations, crashes>>

\* What the service shall be: the stored row plus one order's volume, or a
\* fresh account.
NewTarget(s) ==
  IF services[s].status = "none" THEN [volume |-> 1, creds |-> 0]
  ELSE [services[s].data EXCEPT !.volume = @ + 1]

\* Mutant of Pick: the target is computed again from the panel's client on
\* every attempt instead of being taken from the order's row.
PickFromPanel ==
  /\ step = "pick" /\ Eligible(Cur)
  /\ LET s == orders[Cur].service
         base == NewTarget(s)
     IN data' = IF panel[s] = None THEN base ELSE [base EXCEPT !.volume = panel[s].volume + 1]
  /\ step' = "panel"
  /\ UNCHANGED <<orders, failures, services, panel, planInbounds, live, batch, chosen,
                 rotations, crashes>>

\* The target is persisted before the panel is told; a retry takes the one
\* that is stored with the order.
Pick ==
  /\ step = "pick" /\ Eligible(Cur)
  /\ IF batch[Cur].target = None
     THEN LET s == orders[Cur].service IN
          /\ data' = NewTarget(s)
          /\ orders' = [orders EXCEPT ![Cur].target = NewTarget(s)]
     ELSE /\ data' = batch[Cur].target
          /\ UNCHANGED orders
  /\ step' = "panel"
  /\ UNCHANGED <<failures, services, panel, planInbounds, live, batch, chosen,
                 rotations, crashes>>

Selected(o) == batch[o].inbounds \cap live

\* The client is updated where it exists, which keeps its inbounds, and added
\* with the selected ones where it does not.
WritePanel ==
  LET s == orders[Cur].service IN
  /\ step = "panel" /\ Selected(Cur) # {}
  /\ panel' = [panel EXCEPT ![s] =
       [volume |-> data.volume, creds |-> data.creds,
        inbounds |-> IF panel[s] = None THEN Selected(Cur) ELSE panel[s].inbounds]]
  /\ chosen' = Selected(Cur) /\ step' = "written"
  /\ UNCHANGED <<orders, failures, services, planInbounds, live, batch, data,
                 rotations, crashes>>

\* The check of the client that was written.
InboundsComplete(o) == chosen \subseteq panel[orders[o].service].inbounds

\* Service, order and failure row change in one transaction.
Commit ==
  LET s == orders[Cur].service IN
  /\ step = "written" /\ InboundsComplete(Cur)
  /\ services' = [services EXCEPT ![s] = [status |-> "active", data |-> data]]
  /\ orders' = [orders EXCEPT ![Cur].status = "fulfilled", ![Cur].target = None]
  /\ Leave
  /\ UNCHANGED <<failures, panel, planInbounds, live, rotations, crashes>>

\* Mutant of RecordFailure: the stored target is dropped with the attempt.
RecordFailureForgets(o) ==
  /\ failures' = [failures EXCEPT ![o].due = FALSE]
  /\ orders' = [orders EXCEPT ![o].status = IF @ \in {"paid", "review"} THEN "review" ELSE @,
                              ![o].target = None]

\* record_provision_failure.  Attempts beyond MaxAttempts are not told apart.
RecordFailure(o) ==
  /\ failures' = [failures EXCEPT ![o] =
       [attempts |-> IF @.attempts < MaxAttempts THEN @.attempts + 1 ELSE @.attempts,
        due |-> FALSE]]
  /\ orders' = [orders EXCEPT ![o].status = IF @ \in {"paid", "review"} THEN "review" ELSE @]

\* No selected inbound is enabled, a call fails, or its answer is lost: before
\* or after the panel has been written.
Fail ==
  /\ \/ step \in {"panel", "written"} /\ PanelFails
     \/ step = "panel" /\ Selected(Cur) = {}
     \/ step = "written" /\ ~InboundsComplete(Cur)
  /\ RecordFailure(Cur)
  /\ Leave
  /\ UNCHANGED <<services, panel, planInbounds, live, rotations, crashes>>

Crash ==
  /\ step # "idle" /\ crashes < MaxCrashes
  /\ step' = "idle" /\ batch' = <<>> /\ data' = NoData /\ chosen' = {}
  /\ crashes' = crashes + 1
  /\ UNCHANGED <<orders, failures, services, panel, planInbounds, live, rotations>>

\* The backoff of an order runs out, which matters while it can be tried again.
BecomeDue(o) ==
  /\ ~failures[o].due /\ failures[o].attempts < MaxAttempts /\ o \in Unfinished
  /\ failures' = [failures EXCEPT ![o].due = TRUE]
  /\ UNCHANGED <<orders, services, panel, planInbounds, live, worker_vars,
                 rotations, crashes>>

-----------------------------------------------------------------------------
Worker == Fetch \/ Skip \/ Pick \/ WritePanel \/ Commit \/ Fail

Environment ==
  \/ \E o, s \in Orders : s <= o /\ (Place(o, s, "paid") \/ Place(o, s, "held"))
  \/ \E s \in Orders : Rotate(s) \/ RotateUnsaved(s) \/ Delete(s) \/ DeleteUnsaved(s)
  \/ \E o \in Orders : Decide(o, "paid") \/ Decide(o, "cancelled") \/ Retry(o)
  \/ \E S \in Selections : EditPlan(S)
  \/ \E i \in Switched : SwitchInbound(i)
  \/ Crash

Next == Worker \/ Environment \/ \E o \in Orders : BecomeDue(o)

Spec == Init /\ [][Next]_vars

\* The main loop of the worker runs for ever (main never leaves it, worker.py
\* starts it again) and time passes.
FairSpec == Spec /\ WF_vars(Worker) /\ \A o \in Orders : WF_vars(BecomeDue(o))

-----------------------------------------------------------------------------
(* Properties *)

\* Every variable has its type.
TypeOK ==
  /\ orders \in [Orders -> Order]
  /\ failures \in [Orders -> [attempts : 0 .. MaxAttempts, due : BOOLEAN]]
  /\ services \in [Orders -> [status : {"none", "active", "deleted"}, data : Data]]
  /\ \A s \in Orders : panel[s] # None =>
       panel[s] \in [volume : Nat, creds : Nat, inbounds : SUBSET Inbounds]
  /\ planInbounds \subseteq Inbounds /\ live \subseteq Inbounds
  /\ step \in {"idle", "pick", "panel", "written"}
  /\ DOMAIN batch \subseteq Orders /\ \A o \in DOMAIN batch : batch[o] \in Order
  /\ step = "idle" <=> DOMAIN batch = {}
  /\ data \in Data /\ chosen \subseteq Inbounds
  /\ rotations \in 0 .. MaxRotations /\ crashes \in 0 .. MaxCrashes

With(s, statuses) ==
  {o \in Orders : orders[o].service = s /\ orders[o].status \in statuses}

\* README.md:101 promises that a retry adds no volume: a service holds the
\* volume of the orders that were delivered for it, whatever was retried,
\* lost or repeated in between.
VolumeMatchesSales ==
  \A s \in Orders : services[s].data.volume = Cardinality(With(s, {"fulfilled"}))

\* The panel never serves more volume than was paid for, not even while an
\* attempt is half done or was given up.
PanelNeverAhead ==
  \A s \in Orders : panel[s] # None =>
    panel[s].volume <= Cardinality(With(s, {"paid", "review", "fulfilled"}))

\* Between orders panel and row agree on the volume of a service; an attempt
\* that failed half way keeps its order unfinished, so that it is repeated.
PanelMatchesRecord ==
  \A s \in Orders :
    Active(s) /\ panel[s] # None /\ (\A o \in OpenOrders(s) : orders[o].target = None)
      => panel[s].volume = services[s].data.volume

\* What provision leaves on the panel and in the rows after each of its three
\* writes, and after a failure or a crash between any two of them.
PanelInv == TypeOK /\ PanelNeverAhead /\ PanelMatchesRecord

Exhausted(o) == orders[o].status = "review" /\ failures[o].attempts >= MaxAttempts

\* Earlier orders whose attempts are used up fill the rows the loop fetches.
Crowded(o) ==
  Cardinality({p \in Unfinished : p < o /\ failures[p].attempts >= MaxAttempts}) >= Limit

\* README.md:100: a paid order is delivered, or review is given up after
\* MaxAttempts attempts; it is never forgotten between two attempts, whatever
\* crashed and however long the backoff, unless the loop no longer sees it.
DeliveredOrExhausted ==
  \A o \in Orders : orders[o].status = "paid" ~>
                      orders[o].status = "fulfilled" \/ Exhausted(o) \/ Crowded(o)

\* README.md:100 says that a failing order is tried up to MaxAttempts times:
\* every paid order is at least attempted.
PaidIsAttempted ==
  \A o \in Orders : orders[o].status = "paid" ~>
                      orders[o].status = "fulfilled" \/ failures[o].attempts > 0
=============================================================================
