------------------------------ MODULE AiProofs ------------------------------
(***************************************************************************)
(* The AI section, for any number of plans, orders, codes, requests and    *)
(* adjustments: what an order gives was paid in one way and once, a code   *)
(* goes to one order, credits go down with the requests they paid, neither *)
(* balance becomes negative (AiInv), and a request is charged at most once *)
(* and never without a result (ChargedForResult).                          *)
(*                                                                         *)
(* Two halves are inductive together with TypeOK.  One is about requests   *)
(* (TasksFine): until its charge a job was not charged, and one that has   *)
(* its result already is in the hands of the worker or met a fault.  The   *)
(* other is about what is sold (SoldFine); of a request it needs only that *)
(* what was charged stays charged (Spent never goes down).                 *)
(*                                                                         *)
(* The last part is about the full backup, for any number of commands,     *)
(* failing steps, kills and restarts: a restore leaves all it was to bring *)
(* or all that was there (BackupInv), and an archive of stopped services   *)
(* holds each order's client (QuiescedIsSound).                            *)
(***************************************************************************)
EXTENDS Upkeep, Sums, SequenceTheorems

Wait(u) == task[u].status \in {"queued", "polling"}
Done == {"activating", "fulfilled"}

\* The request of update id u, whatever the worker does.
TaskFine(u) ==
  /\ task[u].status \in {"none", "offered"} => task[u].got = 0 /\ task[u].paid = 0
  /\ task[u].status = "offered" => task[u].kind = "text"
  /\ Wait(u) => task[u].paid = 0 /\ task[u].kind \in Kinds
  /\ Wait(u) /\ task[u].got > 0 /\ worker # [at |-> "charge", job |-> u] => faults > 0

\* The worker has a job that waits, and a result before it charges.
WorkerFine ==
  /\ worker.at # "idle" => worker.job \in Updates /\ Wait(worker.job)
  /\ worker.at = "charge" => task[worker.job].got > 0

OfferFine == offer # 0 => task[offer].status = "offered"

TasksFine == (\A u \in Updates : TaskFine(u)) /\ WorkerFine /\ OfferFine /\ ChargedForResult

\* The codes of order o, and whether it has one.
CodesOf(o) == {c \in Codes : code[c] = o}
HasCode(o) == KindOf(o) = "ready" /\ order[o].status = "fulfilled"

RowsFine ==
  \A o \in Orders :
    /\ order[o].status \in Done <=> order[o].paid # "no"
    /\ order[o].status = "activating" => KindOf(o) = "personal"
    /\ sub[o] # NoSub => order[o].status = "fulfilled" /\ KindOf(o) = "bot"
CodesFine ==
  \A o \in Orders : IF HasCode(o) THEN \E c \in Codes : CodesOf(o) = {c} ELSE CodesOf(o) = {}

Applied == {r \in Requests : adjust[r].status = "applied"}
WalletFine ==
  /\ IsFiniteSet(Applied)
  /\ wallet = InitWallet + Credited - Debited

SoldFine == RowsFine /\ CodesFine /\ WalletFine /\ CreditsAsSold /\ BalancesCover
IInv == TypeOK /\ TasksFine /\ SoldFine

-----------------------------------------------------------------------------
(* Operators of the model                                                  *)

LEMMA NextWaits == ASSUME Waiting # {} PROVE Next1 \in Waiting
<1>1. Waiting \subseteq Nat
  BY AiAssumption DEF Waiting, Updates
<1>2. PICK x \in Waiting : \A y \in Waiting : <<y, x>> \notin OpToRel(<, Nat)
  BY <1>1, WFMin, NatLessThanWellFounded
<1>3. \A y \in Waiting : x <= y
  <2> SUFFICES ASSUME NEW y \in Waiting, y < x PROVE FALSE
    BY <1>1
  <2>1. <<y, x>> \in Nat \X Nat
    BY <1>1
  <2> QED
    BY <1>2, <2>1 DEF OpToRel
<1> QED
  BY <1>3 DEF Next1

\* The subscription that is used has a credit, and has not ended.
LEMMA FirstUsable ==
  ASSUME TypeOK, NEW k, Available(sub, k) # {}
  PROVE  /\ First(sub, k) \in Orders /\ sub[First(sub, k)].left[k] > 0
         /\ sub[First(sub, k)].until > clock
  BY DEF First, Available

\* One credit less, in that subscription and of that kind.
LEMMA UsedIs ==
  ASSUME TypeOK, NEW k \in Kinds, Available(sub, k) # {}
  PROVE  /\ Used(sub, k) \in [Orders -> SubRow]
         /\ \A o \in Orders : o # First(sub, k) => Used(sub, k)[o] = sub[o]
         /\ Used(sub, k)[First(sub, k)].until = sub[First(sub, k)].until
         /\ Used(sub, k)[First(sub, k)].left[k] = sub[First(sub, k)].left[k] - 1
         /\ \A j \in Kinds : j # k =>
              Used(sub, k)[First(sub, k)].left[j] = sub[First(sub, k)].left[j]
<1> DEFINE f == First(sub, k)
           l == [sub[f].left EXCEPT ![k] = sub[f].left[k] - 1]
<1>1. f \in Orders /\ sub[f].left[k] > 0 /\ sub \in [Orders -> SubRow]
  BY FirstUsable DEF TypeOK
<1>2. PICK row : row = OneLess(sub[f], k)
  OBVIOUS
<1>3. Used(sub, k) = [sub EXCEPT ![f] = row]
  BY <1>2 DEF Used
<1>4. row = [sub[f] EXCEPT !.left = l]
  BY <1>2 DEF OneLess
<1> HIDE DEF f
<1>5. sub[f] \in SubRow /\ sub[f].left \in [Kinds -> Nat] /\ sub[f].left[k] \in Nat
  BY <1>1 DEF SubRow
<1>6. l \in [Kinds -> Nat] /\ l[k] = sub[f].left[k] - 1 /\ \A j \in Kinds : j # k => l[j] = sub[f].left[j]
  BY <1>1, <1>5
<1> HIDE DEF l
<1>7. row \in SubRow /\ row.until = sub[f].until /\ row.left = l
  BY <1>4, <1>5, <1>6 DEF SubRow
<1>8. Used(sub, k)[f] = row /\ \A o \in Orders : o # f => Used(sub, k)[o] = sub[o]
  BY <1>1, <1>3
<1>9. Used(sub, k) \in [Orders -> SubRow]
  BY <1>1, <1>3, <1>7
<1> QED
  BY <1>6, <1>7, <1>8, <1>9 DEF f

LEMMA UpdatesFinite == IsFiniteSet(Updates) /\ IsFiniteSet(Orders)
  BY FS_Interval, AiAssumption DEF Updates, Orders
-----------------------------------------------------------------------------
(* The state is well-formed                                                *)

LEMMA InitType == ASSUME Init PROVE TypeOK
<1> USE AiAssumption DEF Init
<1>1. (CHOOSE p \in Plans : TRUE) \in Plans
  OBVIOUS
<1>2. order \in [Orders -> OrderRow]
  BY <1>1 DEF OrderRow
<1>3. sub \in [Orders -> SubRow] /\ task \in [Updates -> TaskRow] /\ adjust \in [Requests -> AdjustRow]
  BY DEF NoSub, SubRow, TaskRow, AdjustRow
<1>4. prompt \in [at : {"quiet", "mail", "receipt", "chat", "image", "video"},
                 order : Orders \cup {NoOrder}]
  BY DEF Quiet, Say
<1>5. worker \in [at : {"idle", "send", "charge"}, job : Updates \cup {0}]
  BY DEF Idle
<1> QED
  BY <1>2, <1>3, <1>4, <1>5 DEF TypeOK

-----------------------------------------------------------------------------
(* What the shop does with an order                                        *)

\* One row of the table of orders is written anew.
Rewrites(o, row) == row \in OrderRow /\ order' = [order EXCEPT ![o] = row]

\* An order that is not paid yet goes on, or ends.
Moves(o) ==
  /\ order[o].status \notin Done
  /\ \E row \in OrderRow : /\ Rewrites(o, row)
                           /\ row.status \notin Done /\ row.paid = order[o].paid
  /\ UNCHANGED <<code, sub, wallet, adjust>>

\* An order is paid, and gives what its plan promised.
Gives(o, means) ==
  /\ order[o].status \notin Done
  /\ \E row \in OrderRow :
       /\ Rewrites(o, row)
       /\ row.plan = order[o].plan /\ row.version = order[o].version /\ row.paid = means
       /\ \/ /\ KindOf(o) = "bot" /\ row.status = "fulfilled"
             /\ sub' = [sub EXCEPT ![o] = [until |-> clock + Days, left |-> Bought(o)]]
             /\ UNCHANGED code
          \/ /\ KindOf(o) = "ready" /\ row.status = "fulfilled"
             /\ \E c \in Codes : code[c] = NoOrder /\ code' = [code EXCEPT ![c] = o]
             /\ UNCHANGED sub
          \/ /\ KindOf(o) = "personal" /\ row.status = "activating"
             /\ UNCHANGED <<sub, code>>
  /\ wallet' = wallet - (IF means = "wallet" THEN Price[order[o].version] ELSE 0)
  /\ wallet' >= 0 \/ wallet' = wallet
  /\ UNCHANGED adjust

Activates(o) ==
  /\ order[o].status = "activating"
  /\ \E row \in OrderRow :
       /\ Rewrites(o, row) /\ row.status = "fulfilled"
       /\ row.plan = order[o].plan /\ row.version = order[o].version /\ row.paid = order[o].paid
  /\ UNCHANGED <<code, sub, wallet, adjust>>

ShopStep(o) ==
  \/ \E p \in Plans : Choose(p, o)
  \/ SetEmail(o) \/ StoreReceipt(o) \/ Confirm(o) \/ Cancel(o) \/ PayWallet(o)
  \/ Approve(o) \/ Reject(o) \/ CompleteActivation(o)

\* Only the status of the row changes.
Restated(o, st) ==
  \E row \in OrderRow :
    /\ Rewrites(o, row) /\ row.status = st
    /\ row.plan = order[o].plan /\ row.version = order[o].version /\ row.paid = order[o].paid

LEMMA StatusRow ==
  ASSUME TypeOK, NEW o \in Orders,
         NEW st \in {"none", "awaiting_receipt", "preview", "review", "activating",
                     "fulfilled", "rejected", "cancelled"},
         order' = [order EXCEPT ![o].status = st]
  PROVE  Restated(o, st)
<1>1. order[o] \in OrderRow
  BY DEF TypeOK
<1>2. PICK row : row = [order[o] EXCEPT !.status = st]
  OBVIOUS
<1>3. order' = [order EXCEPT ![o] = row]
  BY <1>2
<1>4. /\ row \in OrderRow /\ row.status = st
      /\ row.plan = order[o].plan /\ row.version = order[o].version /\ row.paid = order[o].paid
  BY <1>1, <1>2 DEF OrderRow
<1> QED
  BY <1>3, <1>4 DEF Restated, Rewrites

LEMMA DeliverGives ==
  ASSUME TypeOK, NEW o \in Orders, NEW means \in {"wallet", "receipt"}, Deliver(o, means)
  PROVE  \E row \in OrderRow :
           /\ Rewrites(o, row)
           /\ row.plan = order[o].plan /\ row.version = order[o].version /\ row.paid = means
           /\ \/ /\ KindOf(o) = "bot" /\ row.status = "fulfilled"
                 /\ sub' = [sub EXCEPT ![o] = [until |-> clock + Days, left |-> Bought(o)]]
                 /\ UNCHANGED code
              \/ /\ KindOf(o) = "ready" /\ row.status = "fulfilled"
                 /\ \E c \in Codes : code[c] = NoOrder /\ code' = [code EXCEPT ![c] = o]
                 /\ UNCHANGED sub
              \/ /\ KindOf(o) = "personal" /\ row.status = "activating"
                 /\ UNCHANGED <<sub, code>>
<1>1. order[o] \in OrderRow
  BY DEF TypeOK
<1>2. ASSUME NEW st \in {"activating", "fulfilled"}, NEW row,
             row = [order[o] EXCEPT !.status = st, !.paid = means]
      PROVE  /\ row \in OrderRow /\ row.status = st
             /\ row.plan = order[o].plan /\ row.version = order[o].version /\ row.paid = means
  BY <1>1, <1>2 DEF OrderRow
<1>3. CASE KindOf(o) = "bot"
  <2>1. PICK row : row = [order[o] EXCEPT !.status = "fulfilled", !.paid = means]
    OBVIOUS
  <2>2. order' = [order EXCEPT ![o] = row]
    BY <1>3, <2>1 DEF Deliver
  <2> QED
    BY <1>2, <1>3, <2>1, <2>2 DEF Rewrites, Deliver
<1>4. CASE KindOf(o) = "ready"
  <2>1. PICK row : row = [order[o] EXCEPT !.status = "fulfilled", !.paid = means]
    OBVIOUS
  <2>2. order' = [order EXCEPT ![o] = row]
    BY <1>4, <2>1 DEF Deliver
  <2>3. PICK c \in Codes : code[c] = NoOrder /\ code' = [code EXCEPT ![c] = o]
    BY <1>4 DEF Deliver, Unsold, TypeOK
  <2> QED
    BY <1>2, <1>4, <2>1, <2>2, <2>3 DEF Rewrites, Deliver
<1>5. CASE KindOf(o) = "personal"
  <2>1. PICK row : row = [order[o] EXCEPT !.status = "activating", !.paid = means]
    OBVIOUS
  <2>2. order' = [order EXCEPT ![o] = row]
    BY <1>5, <2>1 DEF Deliver
  <2> QED
    BY <1>2, <1>5, <2>1, <2>2 DEF Rewrites, Deliver
<1> QED
  BY <1>3, <1>4, <1>5 DEF Deliver

LEMMA ShopMoves ==
  ASSUME TypeOK, NEW o \in Orders, ShopStep(o)
  PROVE  Moves(o) \/ Activates(o) \/ \E means \in {"wallet", "receipt"} : Gives(o, means)
<1>1. ASSUME NEW p \in Plans, Choose(p, o) PROVE Moves(o)
  <2>1. PICK row : row = [order[o] EXCEPT !.status = "awaiting_receipt", !.plan = p, !.version = catalogue[p]]
    OBVIOUS
  <2>2. order[o] \in OrderRow /\ order[o].status = "none" /\ catalogue[p] \in Versions
    BY <1>1 DEF Choose, TypeOK
  <2>3. row \in OrderRow /\ row.status = "awaiting_receipt" /\ row.paid = order[o].paid
    BY <2>1, <2>2 DEF OrderRow
  <2>4. order' = [order EXCEPT ![o] = row]
    BY <1>1, <2>1 DEF Choose
  <2> QED
    BY <1>1, <2>2, <2>3, <2>4 DEF Moves, Rewrites, Done, Choose
<1>2. CASE SetEmail(o)
  <2>1. PICK row : row = [order[o] EXCEPT !.mail = TRUE]
    OBVIOUS
  <2>2. order[o] \in OrderRow /\ order[o].status = "awaiting_receipt"
    BY <1>2 DEF SetEmail, TypeOK
  <2>3. row \in OrderRow /\ row.status = "awaiting_receipt" /\ row.paid = order[o].paid
    BY <2>1, <2>2 DEF OrderRow
  <2>4. order' = [order EXCEPT ![o] = row]
    BY <1>2, <2>1 DEF SetEmail
  <2> QED
    BY <1>2, <2>2, <2>3, <2>4 DEF Moves, Rewrites, Done, SetEmail
<1>3. CASE StoreReceipt(o)
  <2>1. order[o].status = "awaiting_receipt" /\ order' = [order EXCEPT ![o].status = "preview"]
    BY <1>3 DEF StoreReceipt, Receivable
  <2>2. Restated(o, "preview")
    BY <2>1, StatusRow
  <2> QED
    BY <1>3, <2>1, <2>2 DEF Restated, Moves, Done, StoreReceipt
<1>4. CASE Confirm(o)
  <2>1. order[o].status = "preview" /\ order' = [order EXCEPT ![o].status = "review"]
    BY <1>4 DEF Confirm
  <2>2. Restated(o, "review")
    BY <2>1, StatusRow
  <2> QED
    BY <1>4, <2>1, <2>2 DEF Restated, Moves, Done, Confirm
<1>5. CASE Cancel(o)
  <2>1. order[o].status \notin Done /\ order' = [order EXCEPT ![o].status = "cancelled"]
    BY <1>5 DEF Cancel, Done
  <2>2. Restated(o, "cancelled")
    BY <2>1, StatusRow
  <2> QED
    BY <1>5, <2>1, <2>2 DEF Restated, Moves, Done, Cancel
<1>6. CASE Reject(o)
  <2>1. order[o].status = "review" /\ order' = [order EXCEPT ![o].status = "rejected"]
    BY <1>6 DEF Reject
  <2>2. Restated(o, "rejected")
    BY <2>1, StatusRow
  <2> QED
    BY <1>6, <2>1, <2>2 DEF Restated, Moves, Done, Reject
<1>7. CASE CompleteActivation(o)
  <2>1. order[o].status = "activating" /\ order' = [order EXCEPT ![o].status = "fulfilled"]
    BY <1>7 DEF CompleteActivation
  <2>2. Restated(o, "fulfilled")
    BY <2>1, StatusRow
  <2> QED
    BY <1>7, <2>1, <2>2 DEF Restated, Activates, CompleteActivation
<1>8. CASE PayWallet(o)
  <2>1. /\ order[o].status \notin Done /\ Deliver(o, "wallet") /\ UNCHANGED adjust
        /\ wallet' = wallet - Price[order[o].version] /\ wallet >= Price[order[o].version]
    BY <1>8 DEF PayWallet, Done
  <2>2. Price[order[o].version] \in Nat /\ wallet \in Int
    BY AiAssumption DEF OrderRow, Versions, TypeOK
  <2>3. wallet' >= 0
    BY <2>1, <2>2
  <2>4. Gives(o, "wallet")
    BY <2>1, <2>3, DeliverGives DEF Gives
  <2> QED
    BY <2>4
<1>9. CASE Approve(o)
  <2>1. /\ order[o].status \notin Done /\ Deliver(o, "receipt") /\ UNCHANGED <<wallet, adjust>>
    BY <1>9 DEF Approve, Done
  <2>2. wallet \in Int
    BY DEF TypeOK
  <2>3. wallet' = wallet - 0
    BY <2>1, <2>2
  <2>4. Gives(o, "receipt")
    BY <2>1, <2>3, DeliverGives DEF Gives
  <2> QED
    BY <2>4
<1> QED
  BY <1>1, <1>2, <1>3, <1>4, <1>5, <1>6, <1>7, <1>8, <1>9 DEF ShopStep

-----------------------------------------------------------------------------
(* What is done with a request                                             *)

\* The request u is written anew.
Handles(u, row) == u \in Updates /\ row \in TaskRow /\ task' = [task EXCEPT ![u] = row]

\* An answer arrives and is charged at once.
Answers(u) ==
  /\ task[u].status \in {"none", "offered"}
  /\ \E row \in TaskRow :
       /\ Handles(u, row) /\ row.kind = "text" /\ row.status = "done"
       /\ row.got = task[u].got + 1 /\ row.paid = task[u].paid + 1
  /\ offer' = 0 \/ (offer' = offer /\ task[u].status = "none")
  /\ UNCHANGED <<worker, faults>>

Offers(u) ==
  /\ task[u].status = "none"
  /\ \E row \in TaskRow :
       /\ Handles(u, row) /\ row.kind = "text" /\ row.status = "offered"
       /\ row.got = task[u].got /\ row.paid = task[u].paid
  /\ offer' = u /\ UNCHANGED <<worker, faults>>

Queues(u) ==
  /\ task[u].status = "none"
  /\ \E row \in TaskRow :
       /\ Handles(u, row) /\ row.kind \in Kinds /\ row.status = "queued"
       /\ row.got = task[u].got /\ row.paid = task[u].paid
  /\ UNCHANGED <<offer, worker, faults>>

\* The worker gives a job up, or waits for its video.
Decides(u) ==
  /\ worker = Idle /\ Wait(u)
  /\ \E row \in TaskRow :
       /\ Handles(u, row) /\ row.kind = task[u].kind /\ row.status \in {"failed", "polling"}
       /\ row.got = task[u].got /\ row.paid = task[u].paid
  /\ faults' \in {faults, faults + 1} /\ UNCHANGED <<offer, worker>>

Takes(u) ==
  /\ worker = Idle /\ Wait(u) /\ u \in Updates /\ worker' = [at |-> "send", job |-> u]
  /\ UNCHANGED <<task, offer, faults>>

Sends ==
  /\ worker.at = "send" /\ worker' = [at |-> "charge", job |-> worker.job]
  /\ \E row \in TaskRow :
       /\ Handles(worker.job, row)
       /\ row.kind = task[worker.job].kind /\ row.status = task[worker.job].status
       /\ row.got = task[worker.job].got + 1 /\ row.paid = task[worker.job].paid
  /\ UNCHANGED <<offer, faults>>

Loses ==
  /\ worker.at = "send" /\ worker' = Idle
  /\ \E row \in TaskRow :
       /\ Handles(worker.job, row)
       /\ row.kind = task[worker.job].kind /\ row.status = "failed"
       /\ row.got \in {task[worker.job].got, task[worker.job].got + 1}
       /\ row.paid = task[worker.job].paid
  /\ faults' = faults + 1 /\ UNCHANGED offer

Charges ==
  /\ worker.at = "charge" /\ worker' = Idle
  /\ \E row \in TaskRow :
       /\ Handles(worker.job, row)
       /\ row.kind = task[worker.job].kind /\ row.status \in {"done", "failed"}
       /\ row.got = task[worker.job].got
       /\ row.paid \in {task[worker.job].paid, task[worker.job].paid + 1}
  /\ UNCHANGED <<offer, faults>>

Dies == worker' = Idle /\ faults' = faults + 1 /\ UNCHANGED <<task, offer>>

Rests == offer' \in {offer, 0} /\ UNCHANGED <<task, worker, faults>>

TaskSteps ==
  \/ \E u \in Updates : Answers(u) \/ Offers(u) \/ Queues(u) \/ Decides(u) \/ Takes(u)
  \/ Sends \/ Loses \/ Charges \/ Dies \/ Rests

LEMMA AnswersRow ==
  ASSUME TypeOK, NEW u \in Updates, ChargeText(u, task[u]), task[u].status \in {"none", "offered"},
         offer' = 0 \/ (offer' = offer /\ task[u].status = "none"), UNCHANGED <<worker, faults>>
  PROVE  Answers(u)
<1>1. PICK row : row = [kind |-> "text", status |-> "done", model |-> "none",
                        got |-> task[u].got + 1, paid |-> task[u].paid + 1]
  OBVIOUS
<1>2. task[u] \in TaskRow
  BY DEF TypeOK
<1>3. /\ row \in TaskRow /\ row.kind = "text" /\ row.status = "done"
      /\ row.got = task[u].got + 1 /\ row.paid = task[u].paid + 1
  BY <1>1, <1>2 DEF TaskRow, Kinds
<1>4. task' = [task EXCEPT ![u] = row]
  BY <1>1 DEF ChargeText
<1> QED
  BY <1>3, <1>4 DEF Answers, Handles

\* A job whose status, results and charges are written.
Became(u, st, n, m) ==
  \E row \in TaskRow :
    /\ Handles(u, row) /\ row.kind = task[u].kind /\ row.status = st
    /\ row.got = task[u].got + n /\ row.paid = task[u].paid + m

LEMMA AfterRow ==
  ASSUME TypeOK, NEW u \in Updates,
         NEW st \in {"none", "offered", "queued", "polling", "done", "failed"},
         NEW n \in {0, 1}, NEW m \in {0, 1},
         task' = [task EXCEPT ![u] = After(task[u], st, n, m)]
  PROVE  Became(u, st, n, m)
<1>1. task[u] \in TaskRow
  BY DEF TypeOK
<1>2. task[u].got + n \in Nat /\ task[u].paid + m \in Nat
  BY <1>1 DEF TaskRow
<1>3. PICK g, q : g = task[u].got + n /\ q = task[u].paid + m
  OBVIOUS
<1>4. PICK row : row = After(task[u], st, n, m)
  OBVIOUS
<1>5. row = [task[u] EXCEPT !.status = st, !.got = g, !.paid = q]
  BY <1>3, <1>4 DEF After
<1>6. /\ row \in TaskRow /\ row.kind = task[u].kind /\ row.status = st
      /\ row.got = task[u].got + n /\ row.paid = task[u].paid + m
  BY <1>1, <1>2, <1>3, <1>5 DEF TaskRow
<1> QED
  BY <1>4, <1>6 DEF Handles, Became

LEMMA Questions ==
  ASSUME TypeOK, TasksFine,
         \/ Accept \/ ClearHistory \/ \E u \in Updates : Ask(u) \/ AskLong(u) \/ SubmitMedia(u)
  PROVE  TaskSteps
<1>1. CASE Accept
  <2>1. offer \in Updates /\ task[offer].status = "offered"
    BY <1>1 DEF Accept, TypeOK, TasksFine, OfferFine
  <2>2. Answers(offer)
    BY <1>1, <2>1, AnswersRow DEF Accept
  <2> QED
    BY <2>1, <2>2 DEF TaskSteps
<1>2. CASE ClearHistory
  BY <1>2 DEF ClearHistory, TaskSteps, Rests
<1>3. ASSUME NEW u \in Updates, Ask(u) PROVE TaskSteps
  <2>1. task[u].status = "none"
    BY <1>3 DEF Ask, Fresh
  <2>2. Answers(u)
    BY <1>3, <2>1, AnswersRow DEF Ask
  <2> QED
    BY <2>2 DEF TaskSteps
<1>4. ASSUME NEW u \in Updates, AskLong(u) PROVE TaskSteps
  <2>1. PICK row : row = [task[u] EXCEPT !.kind = "text", !.status = "offered"]
    OBVIOUS
  <2>2. task[u] \in TaskRow /\ task[u].status = "none"
    BY <1>4 DEF AskLong, Fresh, TypeOK
  <2>3. /\ row \in TaskRow /\ row.kind = "text" /\ row.status = "offered"
        /\ row.got = task[u].got /\ row.paid = task[u].paid
    BY <2>1, <2>2 DEF TaskRow, Kinds
  <2>4. task' = [task EXCEPT ![u] = row]
    BY <1>4, <2>1 DEF AskLong
  <2>5. Offers(u)
    BY <1>4, <2>2, <2>3, <2>4 DEF AskLong, Offers, Handles
  <2> QED
    BY <2>5 DEF TaskSteps
<1>5. ASSUME NEW u \in Updates, SubmitMedia(u) PROVE TaskSteps
  <2>1. PICK row : row = [task[u] EXCEPT !.kind = prompt.at, !.status = "queued"]
    OBVIOUS
  <2>2. task[u] \in TaskRow /\ task[u].status = "none" /\ prompt.at \in Kinds
    BY <1>5 DEF SubmitMedia, Fresh, TypeOK, Kinds
  <2>3. /\ row \in TaskRow /\ row.kind \in Kinds /\ row.status = "queued"
        /\ row.got = task[u].got /\ row.paid = task[u].paid
    BY <2>1, <2>2 DEF TaskRow
  <2>4. task' = [task EXCEPT ![u] = row]
    BY <1>5, <2>1 DEF SubmitMedia
  <2>5. Queues(u)
    BY <1>5, <2>2, <2>3, <2>4 DEF SubmitMedia, Queues, Handles
  <2> QED
    BY <2>5 DEF TaskSteps
<1> QED
  BY <1>1, <1>2, <1>3, <1>4, <1>5

LEMMA Working ==
  ASSUME TypeOK, TasksFine, Create \/ Poll \/ Send \/ Charge \/ Kill
  PROVE  TaskSteps
<1>1. ASSUME worker = Idle, Waiting # {}
      PROVE  Next1 \in Updates /\ Wait(Next1) /\ task[Next1] \in TaskRow
  BY <1>1, NextWaits DEF Waiting, Wait, TypeOK
<1>2. ASSUME worker = Idle, Waiting # {}, task' = Fail(Next1), faults' \in {faults, faults + 1},
             UNCHANGED <<offer, worker>>
      PROVE  TaskSteps
  <2> DEFINE u == Next1
  <2>1. u \in Updates /\ Wait(u) /\ task[u] \in TaskRow
    BY <1>1, <1>2
  <2>2. task' = [task EXCEPT ![u] = After(task[u], "failed", 0, 0)]
    BY <1>2 DEF Fail
  <2> HIDE DEF u
  <2>a. Became(u, "failed", 0, 0)
    BY <2>1, <2>2, AfterRow
  <2>3. PICK row \in TaskRow :
        /\ Handles(u, row) /\ row.kind = task[u].kind /\ row.status = "failed"
        /\ row.got = task[u].got + 0 /\ row.paid = task[u].paid + 0
    BY <2>a DEF Became
  <2>4. row.got = task[u].got /\ row.paid = task[u].paid
    BY <2>1, <2>3 DEF TaskRow
  <2>5. Decides(u)
    BY <1>2, <2>1, <2>3, <2>4 DEF Decides
  <2> QED
    BY <2>1, <2>5 DEF TaskSteps
<1>3. ASSUME worker = Idle, Waiting # {}, worker' = [at |-> "send", job |-> Next1],
             UNCHANGED <<task, offer, faults>>
      PROVE  TaskSteps
  BY <1>1, <1>3 DEF Takes, TaskSteps
<1>4. CASE Create
  <2> DEFINE u == Next1  k == task[Next1].kind  m == Resolved(sub, k)
  <2>1. u \in Updates /\ Wait(u) /\ task[u] \in TaskRow /\ worker = Idle /\ Waiting # {}
    BY <1>1, <1>4 DEF Create
  <2>2. \/ task' = Fail(u) /\ faults' \in {faults, faults + 1} /\ UNCHANGED <<offer, worker>>
        \/ worker' = [at |-> "send", job |-> u] /\ UNCHANGED <<task, offer, faults>>
        \/ /\ UNCHANGED <<worker, faults, offer>>
           /\ task' = [task EXCEPT ![u] = [task[u] EXCEPT !.status = "polling", !.model = m[2]]]
    BY <1>4, Zenon DEF Create, Fault
  <2>3. m[2] \in {"own", "default"}
    BY DEF Resolved
  <2> HIDE DEF m
  <2>4. CASE /\ UNCHANGED <<worker, faults, offer>>
             /\ task' = [task EXCEPT ![u] = [task[u] EXCEPT !.status = "polling", !.model = m[2]]]
    <3>1. PICK row : row = [task[u] EXCEPT !.status = "polling", !.model = m[2]]
      OBVIOUS
    <3> HIDE DEF u
    <3>2. task' = [task EXCEPT ![u] = row]
      BY <2>4, <3>1
    <3>3. /\ row \in TaskRow /\ row.kind = task[u].kind /\ row.status = "polling"
          /\ row.got = task[u].got /\ row.paid = task[u].paid
      BY <2>1, <2>3, <3>1 DEF TaskRow
    <3>4. Decides(u)
      BY <2>1, <2>4, <3>2, <3>3 DEF Decides, Handles
    <3> QED
      BY <2>1, <3>4 DEF TaskSteps
  <2> QED
    BY <1>2, <1>3, <2>1, <2>2, <2>4
<1>5. CASE Poll
  <2>1. worker = Idle /\ Waiting # {} /\ UNCHANGED offer
    BY <1>5 DEF Poll
  <2>2. \/ task' = Fail(Next1) /\ faults' \in {faults, faults + 1} /\ UNCHANGED worker
        \/ worker' = [at |-> "send", job |-> Next1] /\ UNCHANGED <<task, faults>>
    BY <1>5, Zenon DEF Poll, Fault
  <2> QED
    BY <1>2, <1>3, <2>1, <2>2
<1>6. CASE Send
  <2> DEFINE u == worker.job
  <2>1. /\ u \in Updates /\ task[u] \in TaskRow /\ worker.at = "send" /\ UNCHANGED offer
        /\ worker \in [at : {"idle", "send", "charge"}, job : Updates \cup {0}]
    BY <1>6 DEF Send, TasksFine, WorkerFine, TypeOK
  <2>2. task[u].got \in Nat /\ task[u].paid \in Nat
        /\ task[u].status \in {"none", "offered", "queued", "polling", "done", "failed"}
    BY <2>1 DEF TaskRow
  <2>3. \/ /\ worker' = [worker EXCEPT !.at = "charge"] /\ UNCHANGED faults
           /\ task' = [task EXCEPT ![u] = After(task[u], task[u].status, 1, 0)]
        \/ /\ faults' = faults + 1 /\ worker' = Idle
           /\ \E n \in {0, 1} : task' = [task EXCEPT ![u] = After(task[u], "failed", n, 0)]
    BY <1>6 DEF Send, Fault
  <2> HIDE DEF u
  <2>4. CASE /\ worker' = [worker EXCEPT !.at = "charge"] /\ UNCHANGED faults
             /\ task' = [task EXCEPT ![u] = After(task[u], task[u].status, 1, 0)]
    <3>a. Became(u, task[u].status, 1, 0)
      BY <2>1, <2>2, <2>4, AfterRow
    <3>1. PICK row \in TaskRow :
          /\ Handles(u, row) /\ row.kind = task[u].kind /\ row.status = task[u].status
          /\ row.got = task[u].got + 1 /\ row.paid = task[u].paid + 0
      BY <3>a DEF Became
    <3>2. row.paid = task[u].paid
      BY <2>2, <3>1
    <3>3. worker' = [at |-> "charge", job |-> worker.job]
      BY <2>1, <2>4
    <3>4. Sends
      BY <2>1, <2>4, <3>1, <3>2, <3>3 DEF Sends, u
    <3> QED
      BY <3>4 DEF TaskSteps
  <2>5. ASSUME NEW n \in {0, 1}, faults' = faults + 1, worker' = Idle,
               task' = [task EXCEPT ![u] = After(task[u], "failed", n, 0)]
        PROVE  TaskSteps
    <3>a. Became(u, "failed", n, 0)
      BY <2>1, <2>5, AfterRow
    <3>1. PICK row \in TaskRow :
          /\ Handles(u, row) /\ row.kind = task[u].kind /\ row.status = "failed"
          /\ row.got = task[u].got + n /\ row.paid = task[u].paid + 0
      BY <3>a DEF Became
    <3>2. row.got \in {task[u].got, task[u].got + 1} /\ row.paid = task[u].paid
      BY <2>2, <3>1
    <3>3. Loses
      BY <2>1, <2>5, <3>1, <3>2 DEF Loses, u
    <3> QED
      BY <3>3 DEF TaskSteps
  <2> QED
    BY <2>3, <2>4, <2>5
<1>7. CASE Charge
  <2> DEFINE u == worker.job
  <2>1. /\ u \in Updates /\ task[u] \in TaskRow /\ worker.at = "charge" /\ worker' = Idle
        /\ UNCHANGED <<offer, faults>>
    BY <1>7 DEF Charge, TasksFine, WorkerFine, TypeOK
  <2>2. task[u].got \in Nat /\ task[u].paid \in Nat
    BY <2>1 DEF TaskRow
  <2>3. \/ task' = Fail(u)
        \/ \E n \in {0, 1} : task' = Ended(u, sub, n) \/ task' = Ended(u, sub', n)
    BY <1>7 DEF Charge
  <2>4. \A s, n : \E st \in {"done", "failed"} :
          Ended(u, s, n) = [task EXCEPT ![u] = After(task[u], st, 0, n)]
    BY DEF Ended
  <2>5. PICK st \in {"done", "failed"}, n \in {0, 1} :
          task' = [task EXCEPT ![u] = After(task[u], st, 0, n)]
    <3>1. CASE task' = Fail(u)
      BY <3>1 DEF Fail
    <3>2. ASSUME NEW s, NEW n \in {0, 1}, task' = Ended(u, s, n)
          PROVE  \E st \in {"done", "failed"} : task' = [task EXCEPT ![u] = After(task[u], st, 0, n)]
      <4>1. PICK st \in {"done", "failed"} :
              Ended(u, s, n) = [task EXCEPT ![u] = After(task[u], st, 0, n)]
        BY <2>4
      <4> QED
        BY <3>2, <4>1
    <3>3. CASE \E n \in {0, 1} : task' = Ended(u, sub, n) \/ task' = Ended(u, sub', n)
      BY <3>2, <3>3
    <3> QED
      BY <2>3, <3>1, <3>3
  <2> HIDE DEF u
  <2>a. Became(u, st, 0, n)
    BY <2>1, <2>5, AfterRow
  <2>6. PICK row \in TaskRow :
        /\ Handles(u, row) /\ row.kind = task[u].kind /\ row.status = st
        /\ row.got = task[u].got + 0 /\ row.paid = task[u].paid + n
    BY <2>a DEF Became
  <2>7. row.got = task[u].got /\ row.paid \in {task[u].paid, task[u].paid + 1}
    BY <2>2, <2>6
  <2>8. Charges
    BY <2>1, <2>6, <2>7 DEF Charges, u
  <2> QED
    BY <2>8 DEF TaskSteps
<1>8. CASE Kill
  BY <1>8 DEF Kill, Fault, Dies, TaskSteps, use
<1> QED
  BY <1>4, <1>5, <1>6, <1>7, <1>8

\* Whatever else happens leaves the requests alone.
Others ==
  \/ \E o \in Orders : ShopStep(o)
  \/ \E p \in Plans, v \in Versions \cup {0} : SavePlan(p, v)
  \/ \E c \in Codes : Stock(c)
  \/ \E m \in Models : ToggleModel(m)
  \/ \E k \in Kinds, n \in Costs : SetCost(k, n)
  \/ Award \/ Spend
  \/ \E r \in Requests :
       \/ ConfirmAdjustment(r)
       \/ \E on \in {"points", "wallet"}, by \in {-1, 1} :
            DraftAdjustment(r, on, by) \/ Adjust(r, on, by)
  \/ StartText \/ Pass
  \/ \E k \in {"image", "video"} : OpenMedia(k)

LEMMA OthersRest == ASSUME Others PROVE Rests
<1> USE DEF Rests, use, sale
<1>1. ASSUME NEW o \in Orders, ShopStep(o) PROVE Rests
  BY <1>1 DEF ShopStep, Choose, SetEmail, StoreReceipt, Confirm, Cancel, PayWallet, Approve,
     Reject, CompleteActivation
<1>2. CASE \/ \E p \in Plans, v \in Versions \cup {0} : SavePlan(p, v)
           \/ \E c \in Codes : Stock(c)
           \/ \E m \in Models : ToggleModel(m)
           \/ \E k \in Kinds, n \in Costs : SetCost(k, n)
           \/ Award \/ Spend
  BY <1>2 DEF SavePlan, Stock, ToggleModel, SetCost, Award, Spend
<1>3. CASE \E r \in Requests :
             \/ ConfirmAdjustment(r)
             \/ \E on \in {"points", "wallet"}, by \in {-1, 1} :
                  DraftAdjustment(r, on, by) \/ Adjust(r, on, by)
  BY <1>3 DEF ConfirmAdjustment, DraftAdjustment, Adjust
<1>4. CASE StartText \/ Pass \/ \E k \in {"image", "video"} : OpenMedia(k)
  BY <1>4 DEF StartText, Pass, OpenMedia
<1> QED
  BY <1>1, <1>2, <1>3, <1>4 DEF Others

LEMMA TaskMoves == ASSUME TypeOK, TasksFine, Next PROVE TaskSteps
<1>1. \/ Others
      \/ Accept \/ ClearHistory \/ \E u \in Updates : Ask(u) \/ AskLong(u) \/ SubmitMedia(u)
      \/ Create \/ Poll \/ Send \/ Charge \/ Kill
  BY DEF Next, Others, ShopStep
<1>2. CASE Others
  BY <1>2, OthersRest DEF TaskSteps
<1>3. CASE Accept \/ ClearHistory \/ \E u \in Updates : Ask(u) \/ AskLong(u) \/ SubmitMedia(u)
  BY <1>3, Questions
<1>4. CASE Create \/ Poll \/ Send \/ Charge \/ Kill
  BY <1>4, Working
<1> QED
  BY <1>1, <1>2, <1>3, <1>4

-----------------------------------------------------------------------------
(* Requests                                                                *)

\* One request and its share of ChargedForResult.
ResultFine(u) ==
  /\ task[u].paid <= 1 /\ (task[u].paid = 1 => task[u].got > 0)
  /\ task[u].status = "done" => task[u].got > 0
  /\ task[u].got > 1 => faults > 0

LEMMA RequestsKept ==
  ASSUME TypeOK, TasksFine, TaskSteps
  PROVE  \A u \in Updates : TaskFine(u)' /\ ResultFine(u)'
<1> SUFFICES ASSUME NEW u \in Updates PROVE TaskFine(u)' /\ ResultFine(u)'
  OBVIOUS
<1>1. /\ task[u].got \in Nat /\ task[u].paid \in Nat /\ faults \in Nat
      /\ task \in [Updates -> TaskRow]
      /\ TaskFine(u) /\ ResultFine(u) /\ WorkerFine
  BY AiAssumption DEF TypeOK, TaskRow, TasksFine, ChargedForResult, ResultFine
<1> USE DEF TaskFine, ResultFine, Wait, WorkerFine, Idle
<1>2. ASSUME NEW x \in Updates, NEW row \in TaskRow, Handles(x, row)
      PROVE  task'[u] = IF x = u THEN row ELSE task[u]
  BY <1>1, <1>2 DEF Handles
<1>3. ASSUME NEW x \in Updates, Answers(x) PROVE TaskFine(u)' /\ ResultFine(u)'
  <2>1. PICK row \in TaskRow :
          /\ Handles(x, row) /\ row.kind = "text" /\ row.status = "done"
          /\ row.got = task[x].got + 1 /\ row.paid = task[x].paid + 1
    BY <1>3 DEF Answers
  <2>2. task[x].got = 0 /\ task[x].paid = 0 /\ UNCHANGED <<worker, faults>>
    BY <1>3 DEF Answers, TasksFine
  <2>3. CASE x = u
    BY <1>1, <1>2, <2>1, <2>2, <2>3
  <2>4. CASE x # u
    BY <1>1, <1>2, <2>1, <2>2, <2>4
  <2> QED
    BY <2>3, <2>4
<1>4. ASSUME NEW x \in Updates, Offers(x) \/ Queues(x) PROVE TaskFine(u)' /\ ResultFine(u)'
  <2>1. PICK row \in TaskRow :
          /\ Handles(x, row) /\ row.kind \in Kinds /\ row.status \in {"offered", "queued"}
          /\ row.status = "offered" => row.kind = "text"
          /\ row.got = task[x].got /\ row.paid = task[x].paid
    BY <1>4 DEF Offers, Queues, Kinds
  <2>2. task[x].got = 0 /\ task[x].paid = 0 /\ UNCHANGED <<worker, faults>>
    BY <1>4 DEF Offers, Queues, TasksFine
  <2>3. CASE x = u
    BY <1>1, <1>2, <2>1, <2>2, <2>3
  <2>4. CASE x # u
    BY <1>1, <1>2, <2>1, <2>2, <2>4
  <2> QED
    BY <2>3, <2>4
<1>5. ASSUME NEW x \in Updates, Decides(x) PROVE TaskFine(u)' /\ ResultFine(u)'
  <2>1. PICK row \in TaskRow :
          /\ Handles(x, row) /\ row.kind = task[x].kind /\ row.status \in {"failed", "polling"}
          /\ row.got = task[x].got /\ row.paid = task[x].paid
    BY <1>5 DEF Decides
  <2>2. /\ TaskFine(x) /\ Wait(x) /\ faults' \in {faults, faults + 1}
        /\ worker' = worker /\ worker # [at |-> "charge", job |-> u]
    BY <1>5 DEF Decides, TasksFine
  <2>3. CASE x = u
    BY <1>1, <1>2, <2>1, <2>2, <2>3
  <2>4. CASE x # u
    BY <1>1, <1>2, <2>1, <2>2, <2>4
  <2> QED
    BY <2>3, <2>4
<1>6. ASSUME NEW x \in Updates, Takes(x) PROVE TaskFine(u)' /\ ResultFine(u)'
  BY <1>1, <1>6 DEF Takes
<1>7. CASE Sends \/ Loses
  <2> DEFINE x == worker.job
  <2>1. PICK row \in TaskRow :
          /\ Handles(x, row) /\ row.kind = task[x].kind
          /\ row.got \in {task[x].got, task[x].got + 1} /\ row.paid = task[x].paid
          /\ \/ /\ row.status = task[x].status /\ worker' = [at |-> "charge", job |-> x] /\ faults' = faults
                /\ row.got = task[x].got + 1
             \/ row.status = "failed" /\ faults' = faults + 1
    BY <1>7 DEF Sends, Loses
  <2>2. x \in Updates /\ TaskFine(x) /\ Wait(x) /\ worker.at = "send"
    BY <1>1, <1>7 DEF Sends, Loses, TasksFine
  <2>3. worker # [at |-> "charge", job |-> x] /\ worker # [at |-> "charge", job |-> u]
    BY <2>2
  <2> HIDE DEF x
  <2>4. CASE x = u
    BY <1>1, <1>2, <2>1, <2>2, <2>3, <2>4
  <2>5. CASE x # u
    BY <1>1, <1>2, <2>1, <2>2, <2>3, <2>5
  <2> QED
    BY <2>4, <2>5
<1>8. CASE Charges
  <2> DEFINE x == worker.job
  <2>1. PICK row \in TaskRow :
          /\ Handles(x, row) /\ row.kind = task[x].kind /\ row.status \in {"done", "failed"}
          /\ row.got = task[x].got /\ row.paid \in {task[x].paid, task[x].paid + 1}
    BY <1>8 DEF Charges
  <2>2. /\ x \in Updates /\ TaskFine(x) /\ Wait(x) /\ worker.at = "charge" /\ task[x].got > 0
        /\ faults' = faults
    BY <1>1, <1>8 DEF Charges, TasksFine
  <2>3. x # u => worker # [at |-> "charge", job |-> u]
    BY <2>2
  <2> HIDE DEF x
  <2>4. CASE x = u
    BY <1>1, <1>2, <2>1, <2>2, <2>4
  <2>5. CASE x # u
    BY <1>1, <1>2, <2>1, <2>2, <2>3, <2>5
  <2> QED
    BY <2>4, <2>5
<1>9. CASE Dies
  BY <1>1, <1>9 DEF Dies
<1>10. CASE Rests
  BY <1>1, <1>10 DEF Rests
<1> QED
  BY <1>3, <1>4, <1>5, <1>6, <1>7, <1>8, <1>9, <1>10 DEF TaskSteps, Decides, Handles

LEMMA TasksKept ==
  ASSUME TypeOK, TasksFine, TaskSteps
  PROVE  TasksFine'
<1>1. (\A u \in Updates : TaskFine(u)') /\ ChargedForResult'
  BY RequestsKept DEF ResultFine, ChargedForResult
<1>2. /\ task \in [Updates -> TaskRow] /\ WorkerFine /\ OfferFine
      /\ offer \in Updates \cup {0} /\ 0 \notin Updates
      /\ \A u \in Updates : task[u].got \in Nat
  BY DEF TypeOK, TasksFine, Updates, TaskRow
<1>3. \A x \in Updates, row \in TaskRow : Handles(x, row) =>
        task'[x] = row /\ \A y \in Updates : y # x => task'[y] = task[y]
  BY <1>2 DEF Handles
<1>4. WorkerFine' /\ OfferFine'
  <2> USE DEF WorkerFine, OfferFine, Wait, Idle
  <2>1. ASSUME NEW x \in Updates, Answers(x) \/ Offers(x) \/ Queues(x) PROVE WorkerFine' /\ OfferFine'
    <3>1. PICK row \in TaskRow : Handles(x, row)
      BY <2>1 DEF Answers, Offers, Queues
    <3>2. task[x].status \in {"none", "offered"} /\ worker' = worker
      BY <2>1 DEF Answers, Offers, Queues
    <3>3. WorkerFine'
      BY <1>2, <1>3, <3>1, <3>2
    <3>4. OfferFine'
      <4>1. CASE Answers(x)
        BY <1>2, <1>3, <3>1, <4>1 DEF Answers
      <4>2. CASE Offers(x)
        BY <1>2, <1>3, <4>2 DEF Offers
      <4>3. CASE Queues(x)
        BY <1>2, <1>3, <4>3 DEF Queues
      <4> QED
        BY <2>1, <4>1, <4>2, <4>3
    <3> QED
      BY <3>3, <3>4
  <2>2. ASSUME NEW x \in Updates, Decides(x) \/ Takes(x) PROVE WorkerFine' /\ OfferFine'
    BY <1>2, <1>3, <2>2 DEF Decides, Takes
  <2>3. CASE Sends
    <3>1. PICK row \in TaskRow : Handles(worker.job, row) /\ row.status = task[worker.job].status
                               /\ row.got = task[worker.job].got + 1
      BY <2>3 DEF Sends
    <3>2. worker.job \in Updates /\ Wait(worker.job) /\ worker' = [at |-> "charge", job |-> worker.job] /\ offer' = offer
      BY <1>2, <2>3 DEF Sends
    <3> QED
      BY <1>2, <1>3, <3>1, <3>2
  <2>4. CASE Loses \/ Charges
    <3>1. PICK row \in TaskRow : Handles(worker.job, row)
      BY <2>4 DEF Loses, Charges
    <3>2. worker.job \in Updates /\ Wait(worker.job) /\ worker' = Idle /\ offer' = offer
      BY <1>2, <2>4 DEF Loses, Charges
    <3> QED
      BY <1>2, <1>3, <3>1, <3>2
  <2>5. CASE Dies \/ Rests
    BY <1>2, <2>5 DEF Dies, Rests
  <2> QED
    BY <2>1, <2>2, <2>3, <2>4, <2>5 DEF TaskSteps
<1> QED
  BY <1>1, <1>4 DEF TasksFine

-----------------------------------------------------------------------------
(* What is sold                                                            *)

\* A credit pays for request u, which nothing was charged for before.
Uses(k, u) ==
  /\ Available(sub, k) # {} /\ sub' = Used(sub, k)
  /\ task[u].paid = 0 /\ task'[u].paid > 0 /\ task'[u].kind = k
  /\ UNCHANGED <<order, code, wallet, adjust>>

\* An adjustment is drafted, or applied: to the points, or to the wallet.
Drafts(r) ==
  /\ adjust[r].status # "applied"
  /\ \E row \in AdjustRow : row.status = "draft" /\ adjust' = [adjust EXCEPT ![r] = row]
  /\ UNCHANGED <<order, code, sub, wallet>>
Applies(r) ==
  /\ adjust[r].status # "applied"
  /\ \E row \in AdjustRow :
       /\ row.status = "applied" /\ adjust' = [adjust EXCEPT ![r] = row]
       /\ \/ row.on = "points" /\ wallet' = wallet
          \/ row.on = "wallet" /\ wallet' = wallet + row.by /\ wallet' >= 0
  /\ UNCHANGED <<order, code, sub>>

SoldSteps ==
  \/ \E o \in Orders : Moves(o) \/ Activates(o) \/ \E means \in {"wallet", "receipt"} : Gives(o, means)
  \/ \E r \in Requests : Drafts(r) \/ Applies(r)
  \/ \E k \in Kinds, u \in Updates : Uses(k, u)
  \/ UNCHANGED <<order, code, sub, wallet, adjust>>

LEMMA ApplyApplies ==
  ASSUME TypeOK, NEW r \in Requests, NEW on \in {"points", "wallet"}, NEW by \in Int,
         adjust[r].status # "applied", Apply(r, on, by), UNCHANGED <<order, code, sub>>
  PROVE  Applies(r)
<1>1. PICK row : row = [status |-> "applied", on |-> on, by |-> by, at |-> clock]
  OBVIOUS
<1>2. row \in AdjustRow /\ row.status = "applied" /\ row.on = on /\ row.by = by
  BY <1>1 DEF AdjustRow, TypeOK
<1>3. adjust' = [adjust EXCEPT ![r] = row]
  BY <1>1 DEF Apply
<1>4. wallet \in Int /\ wallet' = wallet + (IF on = "wallet" THEN by ELSE 0)
  BY DEF TypeOK, Apply
<1>5. CASE on = "points"
  <2>1. wallet' = wallet
    BY <1>4, <1>5
  <2> QED
    BY <1>2, <1>3, <1>5, <2>1 DEF Applies
<1>6. CASE on = "wallet"
  <2>1. wallet' = wallet + by /\ wallet' >= 0
    BY <1>4, <1>6 DEF Apply, Affordable, Balance
  <2> QED
    BY <1>2, <1>3, <1>6, <2>1 DEF Applies
<1> QED
  BY <1>5, <1>6

LEMMA Adjustments ==
  ASSUME TypeOK, NEW r \in Requests,
         \/ ConfirmAdjustment(r)
         \/ \E on \in {"points", "wallet"}, by \in {-1, 1} :
              DraftAdjustment(r, on, by) \/ Adjust(r, on, by)
  PROVE  Drafts(r) \/ Applies(r)
<1>1. CASE ConfirmAdjustment(r)
  <2>1. adjust[r] \in AdjustRow
    BY DEF TypeOK
  <2>2. adjust[r].on \in {"points", "wallet"} /\ adjust[r].by \in Int
    BY <2>1 DEF AdjustRow
  <2> QED
    BY <1>1, <2>2, ApplyApplies DEF ConfirmAdjustment
<1>2. ASSUME NEW on \in {"points", "wallet"}, NEW by \in {-1, 1}, Adjust(r, on, by)
      PROVE  Applies(r)
  BY <1>2, ApplyApplies DEF Adjust
<1>3. ASSUME NEW on \in {"points", "wallet"}, NEW by \in {-1, 1}, DraftAdjustment(r, on, by)
      PROVE  Drafts(r)
  <2>1. PICK row : row = [status |-> "draft", on |-> on, by |-> by, at |-> clock]
    OBVIOUS
  <2>2. row \in AdjustRow /\ row.status = "draft"
    BY <2>1 DEF AdjustRow, TypeOK
  <2>3. adjust' = [adjust EXCEPT ![r] = row]
    BY <1>3, <2>1 DEF DraftAdjustment
  <2> QED
    BY <1>3, <2>2, <2>3 DEF Drafts, DraftAdjustment, sale
<1> QED
  BY <1>1, <1>2, <1>3

LEMMA TextUses ==
  ASSUME TypeOK, NEW u \in Updates, ChargeText(u, task[u]), task[u].paid = 0,
         UNCHANGED <<order, code, wallet, adjust>>
  PROVE  SoldSteps
<1>1. task' = [task EXCEPT ![u] = [kind |-> "text", status |-> "done", model |-> "none",
                                   got |-> task[u].got + 1, paid |-> task[u].paid + 1]]
  BY DEF ChargeText
<1>2. task'[u].kind = "text" /\ task'[u].paid > 0
  BY <1>1 DEF TypeOK
<1>3. CASE Available(sub, "text") # {}
  <2>1. sub' = Used(sub, "text")
    BY <1>3 DEF ChargeText
  <2>2. Uses("text", u)
    BY <1>2, <1>3, <2>1 DEF Uses
  <2> QED
    BY <2>2 DEF SoldSteps, Kinds
<1>4. CASE Available(sub, "text") = {}
  <2>1. UNCHANGED sub
    BY <1>4 DEF ChargeText
  <2> QED
    BY <2>1 DEF SoldSteps
<1> QED
  BY <1>3, <1>4

LEMMA ChargeUses ==
  ASSUME TypeOK, TasksFine, Charge
  PROVE  SoldSteps
<1> DEFINE u == worker.job
<1>1. UNCHANGED <<order, code, wallet, adjust>>
  BY DEF Charge, sale
<1>2. CASE UNCHANGED sub
  BY <1>1, <1>2 DEF SoldSteps
<1>3. CASE ~UNCHANGED sub
  <2>1. /\ Available(sub, task[u].kind) # {} /\ sub' = Used(sub, task[u].kind)
        /\ task' = Ended(u, sub', 1)
    BY <1>3 DEF Charge
  <2>2. u \in Updates /\ task[u].kind \in Kinds /\ task[u].paid = 0 /\ task \in [Updates -> TaskRow]
    BY DEF Charge, TasksFine, WorkerFine, TaskFine, TypeOK
  <2> HIDE DEF u
  <2>3. PICK st : task' = [task EXCEPT ![u] = After(task[u], st, 0, 1)]
    BY <2>1 DEF Ended
  <2>4. PICK row : row = After(task[u], st, 0, 1)
    OBVIOUS
  <2>5. task'[u] = row
    BY <2>2, <2>3, <2>4
  <2>6. task[u].paid + 1 = 1 /\ task[u] \in TaskRow
    BY <2>2
  <2>7. row = [task[u] EXCEPT !.status = st, !.got = task[u].got + 0, !.paid = task[u].paid + 1]
    BY <2>4 DEF After
  <2>8. PICK g : g = task[u].got + 0
    OBVIOUS
  <2>9. row = [task[u] EXCEPT !.status = st, !.got = g, !.paid = 1]
    BY <2>6, <2>7, <2>8
  <2>10. row.kind = task[u].kind /\ row.paid = 1
    BY <2>6, <2>9 DEF TaskRow
  <2>11. Uses(task[u].kind, u)
    BY <1>1, <2>1, <2>2, <2>5, <2>10 DEF Uses
  <2> QED
    BY <2>2, <2>11 DEF SoldSteps
<1> QED
  BY <1>2, <1>3

LEMMA SoldMoves == ASSUME TypeOK, TasksFine, Next PROVE SoldSteps
<1>1. CASE \E o \in Orders : ShopStep(o)
  BY <1>1, ShopMoves DEF SoldSteps
<1>2. CASE \E r \in Requests :
             \/ ConfirmAdjustment(r)
             \/ \E on \in {"points", "wallet"}, by \in {-1, 1} :
                  DraftAdjustment(r, on, by) \/ Adjust(r, on, by)
  BY <1>2, Adjustments DEF SoldSteps
<1>3. CASE Accept
  <2>1. offer \in Updates /\ task[offer].status = "offered"
    BY <1>3 DEF Accept, TypeOK, TasksFine, OfferFine
  <2>2. task[offer].paid = 0
    BY <2>1 DEF TasksFine, TaskFine
  <2> QED
    BY <1>3, <2>1, <2>2, TextUses DEF Accept, sale
<1>4. ASSUME NEW u \in Updates, Ask(u) PROVE SoldSteps
  <2>1. task[u].paid = 0
    BY <1>4 DEF Ask, Fresh, TasksFine, TaskFine
  <2> QED
    BY <1>4, <2>1, TextUses DEF Ask, sale
<1>5. CASE Charge
  BY <1>5, ChargeUses
<1>6. CASE \/ \E p \in Plans, v \in Versions \cup {0} : SavePlan(p, v)
           \/ \E c \in Codes : Stock(c)
           \/ \E m \in Models : ToggleModel(m)
           \/ \E k \in Kinds, n \in Costs : SetCost(k, n)
           \/ Award \/ Spend
  BY <1>6 DEF SavePlan, Stock, ToggleModel, SetCost, Award, Spend, SoldSteps, sale
<1>7. CASE \/ StartText \/ ClearHistory \/ \E u \in Updates : AskLong(u) \/ SubmitMedia(u)
           \/ \E k \in {"image", "video"} : OpenMedia(k)
           \/ Create \/ Poll \/ Send \/ Kill \/ Pass
  BY <1>7 DEF StartText, ClearHistory, AskLong, SubmitMedia, OpenMedia, Create, Poll, Send, Kill,
     Pass, SoldSteps, sale
<1> QED
  BY <1>1, <1>2, <1>3, <1>4, <1>5, <1>6, <1>7 DEF Next, ShopStep

-----------------------------------------------------------------------------
(* The state stays well-formed                                             *)

LEMMA SoldType ==
  ASSUME TypeOK, SoldSteps
  PROVE  /\ order' \in [Orders -> OrderRow] /\ code' \in [Codes -> Orders \cup {NoOrder}]
         /\ sub' \in [Orders -> SubRow] /\ wallet' \in Int /\ adjust' \in [Requests -> AdjustRow]
<1> USE DEF TypeOK
<1>1. ASSUME NEW o \in Orders, NEW row \in OrderRow, Rewrites(o, row) PROVE order' \in [Orders -> OrderRow]
  BY <1>1 DEF Rewrites
<1>2. ASSUME NEW o \in Orders, Moves(o) \/ Activates(o)
      PROVE  order' \in [Orders -> OrderRow] /\ UNCHANGED <<code, sub, wallet, adjust>>
  BY <1>1, <1>2 DEF Moves, Activates
<1>3. ASSUME NEW o \in Orders, NEW means, Gives(o, means)
      PROVE  /\ order' \in [Orders -> OrderRow] /\ code' \in [Codes -> Orders \cup {NoOrder}]
             /\ sub' \in [Orders -> SubRow] /\ wallet' \in Int /\ UNCHANGED adjust
  <2>1. order[o].version \in Versions
    BY DEF OrderRow
  <2>2. Price[order[o].version] \in Nat /\ Bought(o) \in [Kinds -> Nat]
    BY <2>1, AiAssumption DEF Bought
  <2>3. [until |-> clock + Days, left |-> Bought(o)] \in SubRow
    BY <2>2, AiAssumption DEF SubRow
  <2>4. order' \in [Orders -> OrderRow]
    BY <1>1, <1>3 DEF Gives
  <2>5. code' \in [Codes -> Orders \cup {NoOrder}]
    BY <1>3 DEF Gives
  <2>6. sub' \in [Orders -> SubRow]
    BY <1>3, <2>3 DEF Gives
  <2>7. wallet' \in Int /\ UNCHANGED adjust
    BY <1>3, <2>2 DEF Gives
  <2> QED
    BY <2>4, <2>5, <2>6, <2>7
<1>4. ASSUME NEW r \in Requests, Drafts(r) \/ Applies(r)
      PROVE  adjust' \in [Requests -> AdjustRow] /\ wallet' \in Int /\ UNCHANGED <<order, code, sub>>
  <2>1. CASE Drafts(r)
    BY <2>1 DEF Drafts
  <2>2. CASE Applies(r)
    <3>1. PICK row \in AdjustRow :
            /\ adjust' = [adjust EXCEPT ![r] = row]
            /\ wallet' = wallet \/ wallet' = wallet + row.by
      BY <2>2 DEF Applies
    <3>2. row.by \in Int
      BY DEF AdjustRow
    <3> QED
      BY <2>2, <3>1, <3>2 DEF Applies
  <2> QED
    BY <1>4, <2>1, <2>2
<1>5. ASSUME NEW k \in Kinds, NEW u \in Updates, Uses(k, u)
      PROVE  sub' \in [Orders -> SubRow] /\ UNCHANGED <<order, code, wallet, adjust>>
  BY <1>5, UsedIs DEF Uses
<1> QED
  BY <1>2, <1>3, <1>4, <1>5 DEF SoldSteps

LEMMA TaskType ==
  ASSUME TypeOK, TasksFine, TaskSteps
  PROVE  /\ task' \in [Updates -> TaskRow] /\ offer' \in Updates \cup {0}
         /\ worker' \in [at : {"idle", "send", "charge"}, job : Updates \cup {0}]
<1> USE DEF TypeOK, Idle
<1>1. \A x, row : Handles(x, row) => task' \in [Updates -> TaskRow]
  BY DEF Handles
<1>2. ASSUME NEW u \in Updates, Answers(u) \/ Offers(u) \/ Queues(u) \/ Decides(u) \/ Takes(u)
      PROVE  /\ task' \in [Updates -> TaskRow] /\ offer' \in Updates \cup {0}
             /\ worker' \in [at : {"idle", "send", "charge"}, job : Updates \cup {0}]
  BY <1>1, <1>2 DEF Answers, Offers, Queues, Decides, Takes
<1>3. CASE Sends \/ Loses \/ Charges
  <2>1. worker.job \in Updates
    BY <1>3 DEF Sends, Loses, Charges, TasksFine, WorkerFine
  <2> QED
    BY <1>1, <1>3, <2>1 DEF Sends, Loses, Charges
<1>4. CASE Dies \/ Rests
  BY <1>4 DEF Dies, Rests
<1> QED
  BY <1>2, <1>3, <1>4 DEF TaskSteps

\* The catalogue, the settings, the prompt and the bounds.
Settings ==
  /\ clock \in 0 .. MaxTime /\ acts \in 0 .. MaxActs /\ faults \in 0 .. MaxFaults
  /\ catalogue \in [Plans -> Versions \cup {0}] /\ models \subseteq Models
  /\ cost \in [Kinds -> Nat] /\ added \subseteq Codes
  /\ prompt \in [at : {"quiet", "mail", "receipt", "chat", "image", "video"},
                 order : Orders \cup {NoOrder}]

LEMMA SettingsKept == ASSUME Settings, Next PROVE Settings'
<1> USE AiAssumption DEF Settings, Act, Fault, Say, Quiet, use, sale
<1>1. ASSUME NEW o \in Orders, ShopStep(o) PROVE Settings'
  <2> HIDE DEF Settings, Say, Quiet
  <2>1. /\ UNCHANGED <<clock, catalogue, models, cost, added, faults>>
        /\ acts' = acts \/ (acts < MaxActs /\ acts' = acts + 1)
        /\ prompt' \in {prompt, Quiet, Say("mail", o), Say("receipt", o)}
    BY <1>1, Zenon DEF ShopStep, Choose, SetEmail, StoreReceipt, Confirm, Cancel, PayWallet,
       Approve, Reject, CompleteActivation
  <2> QED
    BY <2>1 DEF Settings, Say, Quiet
<1>2. CASE \/ \E p \in Plans, v \in Versions \cup {0} : SavePlan(p, v)
           \/ \E c \in Codes : Stock(c)
           \/ \E m \in Models : ToggleModel(m)
           \/ \E k \in Kinds, n \in Costs : SetCost(k, n)
  BY <1>2, SMTT(30) DEF SavePlan, Stock, ToggleModel, SetCost
<1>3. CASE \/ Award \/ Spend
           \/ \E r \in Requests :
                \/ ConfirmAdjustment(r)
                \/ \E on \in {"points", "wallet"}, by \in {-1, 1} :
                     DraftAdjustment(r, on, by) \/ Adjust(r, on, by)
  BY <1>3 DEF Award, Spend, ConfirmAdjustment, DraftAdjustment, Adjust
<1>4. CASE \/ StartText \/ Accept \/ ClearHistory
           \/ \E u \in Updates : Ask(u) \/ AskLong(u) \/ SubmitMedia(u)
           \/ \E k \in {"image", "video"} : OpenMedia(k)
  <2> HIDE DEF Settings, Say, Quiet
  <2>1. /\ UNCHANGED <<clock, catalogue, models, cost, added, faults>>
        /\ acts < MaxActs /\ acts' = acts + 1
    BY <1>4, Zenon DEF StartText, Accept, ClearHistory, Ask, AskLong, SubmitMedia, OpenMedia
  <2>2. \/ prompt' \in {prompt, Quiet, Say("chat", NoOrder)}
        \/ \E k \in {"image", "video"} : prompt' = Say(k, NoOrder)
    BY <1>4, Zenon DEF StartText, Accept, ClearHistory, Ask, AskLong, SubmitMedia, OpenMedia
  <2> QED
    BY <2>1, <2>2 DEF Settings, Say, Quiet
<1>5. CASE Create \/ Poll \/ Send
  BY <1>5 DEF Create, Poll, Send
<1>6. CASE Charge \/ Kill \/ Pass
  BY <1>6 DEF Charge, Kill, Pass
<1> QED
  BY <1>1, <1>2, <1>3, <1>4, <1>5, <1>6 DEF Next, ShopStep

LEMMA PointsKept ==
  ASSUME TypeOK, TasksFine, points >= 0, Next
  PROVE  points' \in Nat
<1> USE DEF TypeOK
<1>1. \A k \in Kinds : cost[k] \in Nat
  OBVIOUS
<1>2. ASSUME NEW u, NEW r, ChargeText(u, r) PROVE points' \in Nat
  BY <1>1, <1>2 DEF ChargeText, Kinds
<1>3. CASE Accept \/ \E u \in Updates : Ask(u)
  BY <1>2, <1>3 DEF Accept, Ask
<1>4. CASE Charge
  <2>1. CASE UNCHANGED points
    BY <2>1
  <2>2. CASE ~UNCHANGED points
    <3>1. points' = points - cost[task[worker.job].kind] /\ points >= cost[task[worker.job].kind]
      BY <1>4, <2>2 DEF Charge
    <3>2. task[worker.job].kind \in Kinds
      BY <1>4 DEF Charge, TasksFine, WorkerFine, TaskFine
    <3> QED
      BY <1>1, <3>1, <3>2
  <2> QED
    BY <2>1, <2>2
<1>5. ASSUME NEW r, NEW on \in {"points", "wallet"}, NEW by \in Int, Apply(r, on, by) PROVE points' \in Nat
  BY <1>5 DEF Apply, Affordable, Balance
<1>6. ASSUME NEW r \in Requests,
             \/ ConfirmAdjustment(r)
             \/ \E on \in {"points", "wallet"}, by \in {-1, 1} :
                  DraftAdjustment(r, on, by) \/ Adjust(r, on, by)
      PROVE points' \in Nat
  <2>1. CASE ConfirmAdjustment(r)
    <3>1. adjust[r] \in AdjustRow
      OBVIOUS
    <3>2. adjust[r].on \in {"points", "wallet"} /\ adjust[r].by \in Int
      BY <3>1 DEF AdjustRow
    <3> QED
      BY <1>5, <2>1, <3>2 DEF ConfirmAdjustment
  <2>2. ASSUME NEW on \in {"points", "wallet"}, NEW by \in {-1, 1},
               DraftAdjustment(r, on, by) \/ Adjust(r, on, by)
        PROVE  points' \in Nat
    BY <1>5, <2>2 DEF DraftAdjustment, Adjust
  <2> QED
    BY <1>6, <2>1, <2>2
<1>7. CASE Award \/ Spend
  BY <1>7 DEF Award, Spend
<1>8. ASSUME NEW o \in Orders, ShopStep(o) PROVE points' \in Nat
  <2>1. UNCHANGED points
    BY <1>8, Zenon DEF ShopStep, Choose, SetEmail, StoreReceipt, Confirm, Cancel, PayWallet,
       Approve, Reject, CompleteActivation
  <2> QED
    BY <2>1
<1>9. CASE \/ \E p \in Plans, v \in Versions \cup {0} : SavePlan(p, v)
           \/ \E c \in Codes : Stock(c)
           \/ \E m \in Models : ToggleModel(m)
           \/ \E k \in Kinds, n \in Costs : SetCost(k, n)
           \/ StartText \/ ClearHistory \/ \E u \in Updates : AskLong(u) \/ SubmitMedia(u)
           \/ \E k \in {"image", "video"} : OpenMedia(k)
           \/ Create \/ Poll \/ Send \/ Kill \/ Pass
  <2>1. UNCHANGED points
    BY <1>9, Zenon DEF SavePlan, Stock, ToggleModel, SetCost, StartText, ClearHistory, AskLong,
       SubmitMedia, OpenMedia, Create, Poll, Send, Kill, Pass
  <2> QED
    BY <2>1
<1> QED
  BY <1>3, <1>4, <1>6, <1>7, <1>8, <1>9 DEF Next, ShopStep

LEMMA TypeKept ==
  ASSUME TypeOK, TasksFine, points >= 0, Next
  PROVE  TypeOK'
<1>1. Settings'
  BY SettingsKept DEF TypeOK, Settings
<1>2. SoldSteps /\ TaskSteps
  BY SoldMoves, TaskMoves
<1>3. points' \in Int
  BY PointsKept
<1> QED
  BY <1>1, <1>2, <1>3, SoldType, TaskType DEF TypeOK, Settings

-----------------------------------------------------------------------------
(* Orders, codes, credits and the wallet agree                             *)

LEMMA RowWritten ==
  ASSUME TypeOK, NEW o \in Orders, NEW row, Rewrites(o, row)
  PROVE  order'[o] = row /\ \A x \in Orders : x # o => order'[x] = order[x]
  BY DEF TypeOK, Rewrites

LEMMA RowsKept == ASSUME TypeOK, RowsFine, SoldSteps PROVE RowsFine'
<1> USE DEF RowsFine, KindOf, Done
<1>1. sub \in [Orders -> SubRow] /\ order \in [Orders -> OrderRow]
  BY DEF TypeOK
<1>2. ASSUME NEW o \in Orders, Moves(o) PROVE RowsFine'
  <2>1. PICK row \in OrderRow : Rewrites(o, row) /\ row.status \notin Done /\ row.paid = order[o].paid
    BY <1>2 DEF Moves
  <2>2. order'[o] = row /\ \A x \in Orders : x # o => order'[x] = order[x]
    BY <2>1, RowWritten
  <2>3. sub[o] = NoSub /\ sub' = sub /\ order[o].paid = "no"
    BY <1>2 DEF Moves
  <2> QED
    BY <2>1, <2>2, <2>3
<1>3. ASSUME NEW o \in Orders, Activates(o) PROVE RowsFine'
  <2>1. PICK row \in OrderRow : /\ Rewrites(o, row) /\ row.status = "fulfilled"
                                /\ row.plan = order[o].plan /\ row.paid = order[o].paid
    BY <1>3 DEF Activates
  <2>2. order'[o] = row /\ \A x \in Orders : x # o => order'[x] = order[x]
    BY <2>1, RowWritten
  <2>3. sub[o] = NoSub /\ sub' = sub /\ order[o].paid # "no"
    BY <1>3 DEF Activates
  <2> QED
    BY <2>1, <2>2, <2>3
<1>4. ASSUME NEW o \in Orders, NEW means \in {"wallet", "receipt"}, Gives(o, means) PROVE RowsFine'
  <2>1. PICK row \in OrderRow :
          /\ Rewrites(o, row) /\ row.plan = order[o].plan /\ row.paid = means
          /\ \/ KindOf(o) = "bot" /\ row.status = "fulfilled"
             \/ KindOf(o) = "ready" /\ row.status = "fulfilled" /\ sub' = sub
             \/ KindOf(o) = "personal" /\ row.status = "activating" /\ sub' = sub
    BY <1>4 DEF Gives
  <2>2. order'[o] = row /\ \A x \in Orders : x # o => order'[x] = order[x]
    BY <2>1, RowWritten
  <2>3. sub[o] = NoSub /\ \A x \in Orders : x # o => sub'[x] = sub[x]
    BY <1>1, <1>4 DEF Gives
  <2> QED
    BY <2>1, <2>2, <2>3
<1>5. ASSUME NEW k \in Kinds, NEW u \in Updates, Uses(k, u) PROVE RowsFine'
  <2> DEFINE f == First(sub, k)
  <2>1. /\ f \in Orders /\ sub[f].until > clock /\ sub' = Used(sub, k) /\ order' = order
        /\ \A x \in Orders : x # f => sub'[x] = sub[x]
    BY <1>5, FirstUsable, UsedIs DEF Uses
  <2> HIDE DEF f
  <2>2. sub[f] # NoSub
    BY <2>1 DEF NoSub, TypeOK
  <2> QED
    BY <2>1, <2>2
<1>6. CASE UNCHANGED <<order, sub>>
  BY <1>6
<1> QED
  BY <1>2, <1>3, <1>4, <1>5, <1>6 DEF SoldSteps, Drafts, Applies

LEMMA CodesKept == ASSUME TypeOK, RowsFine, CodesFine, SoldSteps PROVE CodesFine'
<1>1. code \in [Codes -> Orders \cup {NoOrder}] /\ NoOrder \notin Orders
  BY DEF TypeOK, Orders, NoOrder
<1>2. ASSUME UNCHANGED code, NEW o \in Orders, HasCode(o)' <=> HasCode(o)
      PROVE  IF HasCode(o)' THEN \E c \in Codes : CodesOf(o)' = {c} ELSE CodesOf(o)' = {}
  <2>1. CodesOf(o)' = CodesOf(o)
    BY <1>2 DEF CodesOf
  <2> QED
    BY <1>2, <2>1 DEF CodesFine
<1>3. ASSUME NEW o \in Orders, Moves(o) \/ Activates(o) PROVE CodesFine'
  <2>1. PICK row \in OrderRow :
          /\ Rewrites(o, row)
          /\ row.status = "fulfilled" => order[o].status = "activating" /\ row.plan = order[o].plan
    BY <1>3 DEF Moves, Activates, Done
  <2>2. order'[o] = row /\ \A x \in Orders : x # o => order'[x] = order[x]
    BY <2>1, RowWritten
  <2>3. order[o].status # "fulfilled" /\ UNCHANGED code
    BY <1>3 DEF Moves, Activates, Done
  <2>4. \A x \in Orders : HasCode(x)' <=> HasCode(x)
    BY <2>1, <2>2, <2>3 DEF HasCode, KindOf, RowsFine
  <2> QED
    BY <1>2, <2>3, <2>4 DEF CodesFine
<1>4. ASSUME NEW o \in Orders, NEW means \in {"wallet", "receipt"}, Gives(o, means) PROVE CodesFine'
  <2>1. PICK row \in OrderRow :
          /\ Rewrites(o, row) /\ row.plan = order[o].plan
          /\ \/ KindOf(o) = "bot" /\ UNCHANGED code
             \/ /\ KindOf(o) = "ready" /\ row.status = "fulfilled"
                /\ \E c \in Codes : code[c] = NoOrder /\ code' = [code EXCEPT ![c] = o]
             \/ KindOf(o) = "personal" /\ UNCHANGED code
    BY <1>4 DEF Gives
  <2>2. order'[o] = row /\ \A x \in Orders : x # o => order'[x] = order[x]
    BY <2>1, RowWritten
  <2>3. order[o].status # "fulfilled"
    BY <1>4 DEF Gives, Done
  <2>4. \A x \in Orders : x # o => (HasCode(x)' <=> HasCode(x))
    BY <2>2 DEF HasCode, KindOf
  <2>5. CASE UNCHANGED code /\ KindOf(o) # "ready"
    <3>1. HasCode(o)' <=> HasCode(o)
      BY <2>1, <2>2, <2>5 DEF HasCode, KindOf
    <3> QED
      BY <1>2, <2>4, <2>5, <3>1 DEF CodesFine
  <2>6. ASSUME NEW c \in Codes, code[c] = NoOrder, code' = [code EXCEPT ![c] = o],
               row.status = "fulfilled", KindOf(o) = "ready"
        PROVE  CodesFine'
    <3>1. HasCode(o)' /\ ~HasCode(o)
      BY <2>1, <2>2, <2>3, <2>6 DEF HasCode, KindOf
    <3>2. CodesOf(o) = {}
      BY <3>1 DEF CodesFine
    <3>3. CodesOf(o)' = {c}
      BY <1>1, <2>6, <3>2 DEF CodesOf
    <3>4. ASSUME NEW x \in Orders, x # o PROVE CodesOf(x)' = CodesOf(x)
      BY <1>1, <2>6, <3>4 DEF CodesOf
    <3>5. ASSUME NEW x \in Orders, x # o
          PROVE  IF HasCode(x)' THEN \E d \in Codes : CodesOf(x)' = {d} ELSE CodesOf(x)' = {}
      BY <2>4, <3>4, <3>5 DEF CodesFine
    <3> QED
      BY <3>1, <3>3, <3>5 DEF CodesFine
  <2> QED
    BY <2>1, <2>5, <2>6
<1>5. CASE UNCHANGED <<order, code>>
  <2>1. \A x \in Orders : HasCode(x)' <=> HasCode(x)
    BY <1>5 DEF HasCode, KindOf
  <2> QED
    BY <1>2, <1>5, <2>1 DEF CodesFine
<1> QED
  BY <1>3, <1>4, <1>5 DEF SoldSteps, Drafts, Applies, Uses

\* The sums over which the wallet is stated.
LEMMA DebitedSame ==
  ASSUME TypeOK, \A o \in Orders : /\ order'[o].paid = "wallet" <=> order[o].paid = "wallet"
                                   /\ order[o].paid = "wallet" => order'[o].version = order[o].version
  PROVE  Debited' = Debited
<1> DEFINE S == {o \in Orders : order[o].paid = "wallet"}
           g == [o \in Orders |-> Price[order[o].version]]
           h == [o \in Orders |-> Price[order'[o].version]]
<1>1. {o \in Orders : order'[o].paid = "wallet"} = S
  OBVIOUS
<1>2. IsFiniteSet(S)
  BY UpdatesFinite, FS_Subset
<1>3. \A o \in Orders : g[o] \in Int
  BY AiAssumption DEF TypeOK, OrderRow
<1>4. \A o \in S : h[o] = g[o]
  OBVIOUS
<1>5. Debited = SumFunctionOnSet(g, S) /\ Debited' = SumFunctionOnSet(h, S)
  BY <1>1 DEF Debited
<1>6. \A o \in S : g[o] \in Int /\ h[o] = g[o]
  BY <1>3, <1>4
<1> HIDE DEF g, h, S
<1> QED
  BY <1>2, <1>5, <1>6, SumAgrees

LEMMA DebitedMore ==
  ASSUME TypeOK, NEW o \in Orders, order[o].paid # "wallet", order'[o].paid = "wallet",
         order'[o].version = order[o].version, \A x \in Orders : x # o => order'[x] = order[x]
  PROVE  Debited' = Debited + Price[order[o].version] /\ Debited \in Int
<1> DEFINE S == {x \in Orders : order[x].paid = "wallet"}
           g == [x \in Orders |-> Price[order[x].version]]
           h == [x \in Orders |-> Price[order'[x].version]]
<1>1. {x \in Orders : order'[x].paid = "wallet"} = S \cup {o} /\ o \notin S
  OBVIOUS
<1>2. IsFiniteSet(S)
  BY UpdatesFinite, FS_Subset
<1>3. \A x \in Orders : g[x] \in Int
  BY AiAssumption DEF TypeOK, OrderRow
<1>4. h = g
  <2>1. \A x \in Orders : order'[x].version = order[x].version
    OBVIOUS
  <2> QED
    BY <2>1
<1>5. Debited = SumFunctionOnSet(g, S) /\ Debited' = SumFunctionOnSet(g, S \cup {o})
  BY <1>1, <1>4 DEF Debited
<1>6. (\A x \in S \cup {o} : g[x] \in Int) /\ (\A x \in S : g[x] \in Int)
  BY <1>3
<1>7. g[o] = Price[order[o].version]
  OBVIOUS
<1> HIDE DEF g, h, S
<1>8. SumFunctionOnSet(g, S \cup {o}) = SumFunctionOnSet(g, S) + g[o]
  BY <1>1, <1>2, <1>6, SumWith
<1>9. SumFunctionOnSet(g, S) \in Int
  BY <1>2, <1>6, SumFirst
<1> QED
  BY <1>5, <1>7, <1>8, <1>9

LEMMA CreditedMore ==
  ASSUME TypeOK, IsFiniteSet(Applied), NEW r \in Requests, NEW row \in AdjustRow,
         adjust[r].status # "applied", adjust' = [adjust EXCEPT ![r] = row]
  PROVE  /\ IsFiniteSet(Applied') /\ Credited \in Int
         /\ Credited' = Credited + (IF row.status = "applied" /\ row.on = "wallet" THEN row.by ELSE 0)
<1> DEFINE S == {x \in Requests : adjust[x].status = "applied" /\ adjust[x].on = "wallet"}
           T == {x \in Requests : adjust'[x].status = "applied" /\ adjust'[x].on = "wallet"}
           g == [x \in Requests |-> adjust[x].by]
           h == [x \in Requests |-> adjust'[x].by]
<1>1. /\ adjust'[r] = row /\ row.by \in Int /\ \A x \in Requests : x # r => adjust'[x] = adjust[x]
      /\ \A x \in Requests : adjust[x].by \in Int
  BY DEF TypeOK, AdjustRow
<1>2. Applied' = Applied \/ Applied' = Applied \cup {r}
  BY <1>1 DEF Applied
<1>3. IsFiniteSet(Applied')
  BY <1>2, FS_AddElement
<1>4. IsFiniteSet(S) /\ r \notin S
  <2>1. S \in SUBSET Applied
    BY DEF Applied
  <2> QED
    BY <2>1, FS_Subset
<1>5. \A x \in S : g[x] \in Int /\ h[x] = g[x]
  BY <1>1
<1>6. Credited = SumFunctionOnSet(g, S) /\ Credited' = SumFunctionOnSet(h, T)
  BY DEF Credited
<1>7. h[r] = row.by /\ \A x \in S \cup {r} : h[x] \in Int
  BY <1>1
<1>8. T = IF row.status = "applied" /\ row.on = "wallet" THEN S \cup {r} ELSE S
  BY <1>1
<1> HIDE DEF g, h, S, T
<1>9. SumFunctionOnSet(g, S) \in Int /\ SumFunctionOnSet(h, S) = SumFunctionOnSet(g, S)
  BY <1>4, <1>5, SumFirst, SumAgrees
<1>10. SumFunctionOnSet(h, S \cup {r}) = SumFunctionOnSet(h, S) + h[r]
  BY <1>4, <1>7, SumWith
<1> QED
  BY <1>1, <1>3, <1>6, <1>7, <1>8, <1>9, <1>10

LEMMA SumsAreNumbers ==
  ASSUME TypeOK, IsFiniteSet(Applied)
  PROVE  Credited \in Int /\ Debited \in Int
<1> DEFINE S == {x \in Requests : adjust[x].status = "applied" /\ adjust[x].on = "wallet"}
           g == [x \in Requests |-> adjust[x].by]
           T == {x \in Orders : order[x].paid = "wallet"}
           h == [x \in Orders |-> Price[order[x].version]]
<1>1. IsFiniteSet(S) /\ IsFiniteSet(T)
  <2>1. S \in SUBSET Applied /\ T \in SUBSET Orders
    BY DEF Applied
  <2> QED
    BY <2>1, UpdatesFinite, FS_Subset
<1>2. (\A x \in S : g[x] \in Int) /\ (\A x \in T : h[x] \in Int)
  BY AiAssumption DEF TypeOK, OrderRow, AdjustRow
<1>3. Credited = SumFunctionOnSet(g, S) /\ Debited = SumFunctionOnSet(h, T)
  BY DEF Credited, Debited
<1> HIDE DEF g, h, S, T
<1> QED
  BY <1>1, <1>2, <1>3, SumFirst

LEMMA WalletKept ==
  ASSUME TypeOK, RowsFine, WalletFine, wallet >= 0, SoldSteps
  PROVE  WalletFine' /\ wallet' >= 0
<1>1. wallet \in Int /\ InitWallet \in Int /\ wallet = InitWallet + Credited - Debited
      /\ IsFiniteSet(Applied)
  BY AiAssumption DEF TypeOK, WalletFine
<1>2. ASSUME UNCHANGED adjust PROVE Credited' = Credited /\ Applied' = Applied
  BY <1>2 DEF Credited, Applied
<1>3. ASSUME NEW o \in Orders, Moves(o) \/ Activates(o) PROVE WalletFine' /\ wallet' >= 0
  <2>1. PICK row \in OrderRow :
          /\ Rewrites(o, row) /\ row.paid = order[o].paid
          /\ order[o].status \notin Done \/ row.version = order[o].version
    BY <1>3 DEF Moves, Activates
  <2>2. order'[o] = row /\ \A x \in Orders : x # o => order'[x] = order[x]
    BY <2>1, RowWritten
  <2>3. order[o].status \notin Done => order[o].paid = "no"
    BY DEF RowsFine
  <2>4. Debited' = Debited
    BY <2>1, <2>2, <2>3, DebitedSame
  <2> QED
    BY <1>1, <1>2, <1>3, <2>4 DEF WalletFine, Moves, Activates
<1>4. ASSUME NEW o \in Orders, NEW means \in {"wallet", "receipt"}, Gives(o, means)
      PROVE  WalletFine' /\ wallet' >= 0
  <2>1. PICK row \in OrderRow : Rewrites(o, row) /\ row.version = order[o].version /\ row.paid = means
    BY <1>4 DEF Gives
  <2>2. order'[o] = row /\ \A x \in Orders : x # o => order'[x] = order[x]
    BY <2>1, RowWritten
  <2>3. order[o].paid = "no"
    BY <1>4 DEF Gives, RowsFine
  <2>4. /\ UNCHANGED adjust /\ (wallet' >= 0 \/ wallet' = wallet)
        /\ wallet' = wallet - (IF means = "wallet" THEN Price[order[o].version] ELSE 0)
    BY <1>4 DEF Gives
  <2>5. Price[order[o].version] \in Nat
    BY AiAssumption DEF TypeOK, OrderRow
  <2>0. Credited' = Credited /\ Applied' = Applied /\ wallet' >= 0
    BY <1>2, <2>4
  <2>6. CASE means = "wallet"
    <3>1. Debited' = Debited + Price[order[o].version] /\ Debited \in Int
      BY <2>1, <2>2, <2>3, <2>6, DebitedMore
    <3>2. wallet' = wallet - Price[order[o].version]
      BY <2>4, <2>6
    <3>3. Credited \in Int
      BY <1>1, SumsAreNumbers
    <3> QED
      BY <1>1, <2>0, <2>5, <3>1, <3>2, <3>3 DEF WalletFine
  <2>7. CASE means = "receipt"
    <3>1. Debited' = Debited
      BY <2>1, <2>2, <2>3, <2>7, DebitedSame
    <3>2. wallet' = wallet
      BY <1>1, <2>4, <2>7
    <3> QED
      BY <1>1, <2>0, <3>1, <3>2 DEF WalletFine
  <2> QED
    BY <2>6, <2>7
<1>5. ASSUME NEW r \in Requests, Drafts(r) \/ Applies(r) PROVE WalletFine' /\ wallet' >= 0
  <2>1. PICK row \in AdjustRow :
          /\ adjust[r].status # "applied" /\ adjust' = [adjust EXCEPT ![r] = row] /\ order' = order
          /\ \/ row.status # "applied" /\ wallet' = wallet
             \/ row.on = "points" /\ wallet' = wallet
             \/ /\ row.status = "applied" /\ row.on = "wallet"
                /\ wallet' = wallet + row.by /\ wallet' >= 0
    BY <1>5 DEF Drafts, Applies
  <2>2. /\ IsFiniteSet(Applied') /\ Credited \in Int
        /\ Credited' = Credited + (IF row.status = "applied" /\ row.on = "wallet" THEN row.by ELSE 0)
    BY <1>1, <2>1, CreditedMore
  <2>3. Debited' = Debited
    BY <2>1 DEF Debited
  <2>4. Debited \in Int /\ row.by \in Int
    BY <1>1, SumsAreNumbers DEF AdjustRow
  <2>5. CASE row.status = "applied" /\ row.on = "wallet"
    <3>1. wallet' = wallet + row.by /\ wallet' >= 0 /\ Credited' = Credited + row.by
      BY <2>1, <2>2, <2>5
    <3> QED
      BY <1>1, <2>2, <2>3, <2>4, <3>1 DEF WalletFine
  <2>6. CASE ~(row.status = "applied" /\ row.on = "wallet")
    <3>1. wallet' = wallet /\ Credited' = Credited
      BY <2>1, <2>2, <2>6
    <3> QED
      BY <1>1, <2>2, <2>3, <3>1 DEF WalletFine
  <2> QED
    BY <2>5, <2>6
<1>6. CASE UNCHANGED <<order, wallet, adjust>>
  <2>1. Debited' = Debited
    BY <1>6 DEF Debited
  <2> QED
    BY <1>1, <1>2, <1>6, <2>1 DEF WalletFine
<1> QED
  BY <1>3, <1>4, <1>5, <1>6 DEF SoldSteps, Uses

-----------------------------------------------------------------------------
(* Credits                                                                 *)

PaidFor(k) == {u \in Updates : task[u].kind = k /\ task[u].paid > 0}

LEMMA PaidStays ==
  ASSUME TypeOK, TasksFine, TaskSteps, NEW u \in Updates, task[u].paid > 0
  PROVE  task'[u].paid > 0 /\ task'[u].kind = task[u].kind
<1>1. task \in [Updates -> TaskRow] /\ \A x \in Updates : task[x].paid \in Nat /\ TaskFine(x)
  BY DEF TypeOK, TaskRow, TasksFine
<1>2. \A x \in Updates, row \in TaskRow : Handles(x, row) =>
        task'[u] = IF x = u THEN row ELSE task[u]
  BY <1>1 DEF Handles
<1>3. ASSUME NEW x \in Updates, Answers(x) \/ Offers(x) \/ Queues(x)
      PROVE  task'[u] = task[u]
  <2>1. task[x].paid = 0
    BY <1>1, <1>3 DEF Answers, Offers, Queues, TaskFine
  <2> QED
    BY <1>2, <1>3, <2>1 DEF Answers, Offers, Queues
<1>4. ASSUME NEW x \in Updates, Decides(x) \/ Takes(x)
      PROVE  task'[u].paid > 0 /\ task'[u].kind = task[u].kind
  BY <1>1, <1>2, <1>4 DEF Decides, Takes
<1>5. CASE Sends \/ Loses \/ Charges
  <2> DEFINE x == worker.job
  <2>1. PICK row \in TaskRow : /\ Handles(x, row) /\ row.kind = task[x].kind
                               /\ row.paid \in {task[x].paid, task[x].paid + 1}
    BY <1>5 DEF Sends, Loses, Charges
  <2>2. x \in Updates
    BY <1>5 DEF Sends, Loses, Charges, TasksFine, WorkerFine
  <2> HIDE DEF x
  <2> QED
    BY <1>1, <1>2, <2>1, <2>2
<1>6. CASE Dies \/ Rests
  BY <1>6 DEF Dies, Rests
<1> QED
  BY <1>3, <1>4, <1>5, <1>6 DEF TaskSteps

LEMMA SpentGrows ==
  ASSUME TypeOK, TasksFine, TaskSteps, NEW k
  PROVE  /\ Spent(k) \in Nat /\ Spent(k)' \in Nat /\ Spent(k) <= Spent(k)'
         /\ \A u \in Updates : task[u].paid = 0 /\ task'[u].paid > 0 /\ task'[u].kind = k
                              => Spent(k) + 1 <= Spent(k)'
<1>1. /\ PaidFor(k) \in SUBSET Updates /\ PaidFor(k)' \in SUBSET Updates
      /\ Spent(k) = Cardinality(PaidFor(k)) /\ Spent(k)' = Cardinality(PaidFor(k)')
  BY DEF PaidFor, Spent
<1>2. PICK S, T : S = PaidFor(k) /\ T = PaidFor(k)'
  OBVIOUS
<1>3. IsFiniteSet(S) /\ IsFiniteSet(T)
  BY <1>1, <1>2, UpdatesFinite, FS_Subset
<1>4. S \subseteq T
  BY <1>2, PaidStays DEF PaidFor
<1>5. Cardinality(S) \in Nat /\ Cardinality(T) \in Nat /\ Cardinality(S) <= Cardinality(T)
  BY <1>3, <1>4, FS_Subset, FS_CardinalityType
<1>6. ASSUME NEW u \in Updates, task[u].paid = 0, task'[u].paid > 0, task'[u].kind = k
      PROVE  Cardinality(S) + 1 <= Cardinality(T)
  <2>1. u \in T /\ u \notin S
    BY <1>2, <1>6 DEF PaidFor
  <2>2. S \in SUBSET T /\ Cardinality(S) # Cardinality(T)
    BY <1>3, <1>4, <2>1, FS_Subset
  <2> QED
    BY <1>5, <2>2
<1> QED
  BY <1>1, <1>2, <1>5, <1>6

LEMMA CreditsKept ==
  ASSUME TypeOK, TasksFine, RowsFine, CreditsAsSold, SoldSteps, TaskSteps
  PROVE  CreditsAsSold'
<1> SUFFICES ASSUME NEW x \in Orders, NEW k \in Kinds, sub'[x].until # 0
    PROVE  LET sold == Credits[order'[x].version][k]
           IN sub'[x].left[k] <= sold /\ sold - sub'[x].left[k] <= Spent(k)'
  BY DEF CreditsAsSold
<1>1. /\ sub \in [Orders -> SubRow] /\ order \in [Orders -> OrderRow]
      /\ \A y \in Orders : /\ sub[y].left[k] \in Nat /\ sub[y].until \in Nat
                           /\ Credits[order[y].version][k] \in Nat
  BY AiAssumption DEF TypeOK, SubRow, OrderRow
<1>2. Spent(k) \in Nat /\ Spent(k)' \in Nat /\ Spent(k) <= Spent(k)'
  BY SpentGrows
<1>3. ASSUME sub'[x] = sub[x], order'[x].version = order[x].version
      PROVE  LET sold == Credits[order'[x].version][k]
             IN sub'[x].left[k] <= sold /\ sold - sub'[x].left[k] <= Spent(k)'
  <2>1. /\ sub[x].left[k] <= Credits[order[x].version][k]
        /\ Credits[order[x].version][k] - sub[x].left[k] <= Spent(k)
    BY <1>3 DEF CreditsAsSold
  <2> QED
    BY <1>1, <1>2, <1>3, <2>1
<1>4. ASSUME NEW o \in Orders, Moves(o) \/ Activates(o)
      PROVE  sub'[x] = sub[x] /\ order'[x].version = order[x].version
  <2>1. PICK row \in OrderRow :
          Rewrites(o, row) /\ (order[o].status \notin Done \/ row.version = order[o].version)
    BY <1>4 DEF Moves, Activates
  <2>2. order'[o] = row /\ \A y \in Orders : y # o => order'[y] = order[y]
    BY <2>1, RowWritten
  <2>3. sub' = sub
    BY <1>4 DEF Moves, Activates
  <2>4. sub[x] # NoSub
    BY <2>3 DEF NoSub
  <2>5. order[x].status \in Done
    BY <2>4 DEF RowsFine, Done
  <2> QED
    BY <2>1, <2>2, <2>3, <2>5
<1>5. ASSUME NEW o \in Orders, NEW means \in {"wallet", "receipt"}, Gives(o, means)
      PROVE  LET sold == Credits[order'[x].version][k]
             IN sub'[x].left[k] <= sold /\ sold - sub'[x].left[k] <= Spent(k)'
  <2>1. PICK row \in OrderRow : Rewrites(o, row) /\ row.version = order[o].version
    BY <1>5 DEF Gives
  <2>2. order'[o] = row /\ \A y \in Orders : y # o => order'[y] = order[y]
    BY <2>1, RowWritten
  <2>3. order'[x].version = order[x].version
    BY <2>1, <2>2
  <2>4. sub'[x] = sub[x] \/ (x = o /\ sub'[x] = [until |-> clock + Days, left |-> Bought(o)])
    BY <1>1, <1>5 DEF Gives
  <2>5. CASE x = o /\ sub'[x] = [until |-> clock + Days, left |-> Bought(o)]
    <3>1. sub'[x].left[k] = Credits[order[x].version][k]
      BY <2>5 DEF Bought
    <3> QED
      BY <1>1, <1>2, <2>3, <3>1
  <2> QED
    BY <1>3, <2>3, <2>4, <2>5
<1>6. ASSUME NEW j \in Kinds, NEW u \in Updates, Uses(j, u)
      PROVE  LET sold == Credits[order'[x].version][k]
             IN sub'[x].left[k] <= sold /\ sold - sub'[x].left[k] <= Spent(k)'
  <2> DEFINE f == First(sub, j)
  <2>1. /\ f \in Orders /\ sub[f].until > clock /\ sub' = Used(sub, j) /\ order' = order
        /\ \A y \in Orders : y # f => sub'[y] = sub[y]
        /\ sub'[f].until = sub[f].until /\ sub'[f].left[j] = sub[f].left[j] - 1
        /\ \A i \in Kinds : i # j => sub'[f].left[i] = sub[f].left[i]
    BY <1>6, FirstUsable, UsedIs DEF Uses
  <2>2. task[u].paid = 0 /\ task'[u].paid > 0 /\ task'[u].kind = j
    BY <1>6 DEF Uses
  <2> HIDE DEF f
  <2>3. CASE x # f
    BY <1>3, <2>1, <2>3
  <2>4. CASE x = f
    <3>1. sub[x].until # 0
      BY <2>1, <2>4
    <3>2. /\ sub[x].left[k] <= Credits[order[x].version][k]
          /\ Credits[order[x].version][k] - sub[x].left[k] <= Spent(k)
      BY <3>1 DEF CreditsAsSold
    <3>3. CASE k # j
      <4>1. sub'[x].left[k] = sub[x].left[k]
        BY <2>1, <2>4, <3>3
      <4> QED
        BY <1>1, <1>2, <2>1, <3>2, <4>1
    <3>4. CASE k = j
      <4>1. sub'[x].left[k] = sub[x].left[k] - 1 /\ order' = order
        BY <2>1, <2>4, <3>4
      <4>2. Spent(k) + 1 <= Spent(k)'
        BY <2>2, <3>4, SpentGrows
      <4> QED
        BY <1>1, <1>2, <3>2, <4>1, <4>2
    <3> QED
      BY <3>3, <3>4
  <2> QED
    BY <2>3, <2>4
<1>7. CASE UNCHANGED <<order, sub>>
  BY <1>3, <1>7
<1> QED
  BY <1>3, <1>4, <1>5, <1>6, <1>7 DEF SoldSteps, Drafts, Applies

-----------------------------------------------------------------------------
(* Theorems                                                                *)

LEMMA InitInv == ASSUME Init PROVE IInv
<1>1. TypeOK
  BY InitType
<1> USE AiAssumption DEF Init
<1>2. TasksFine
  BY DEF TasksFine, TaskFine, WorkerFine, OfferFine, ChargedForResult, Wait, Idle
<1>3. RowsFine
  BY DEF RowsFine, Done, NoSub
<1>4. CodesFine
  BY DEF CodesFine, HasCode, CodesOf, NoOrder, Orders
<1>5. WalletFine
  <2>1. Applied = {}
    BY DEF Applied
  <2>2. {r \in Requests : adjust[r].status = "applied" /\ adjust[r].on = "wallet"} = {}
        /\ {o \in Orders : order[o].paid = "wallet"} = {}
    OBVIOUS
  <2>3. \A g : SumFunctionOnSet(g, {}) = 0
    BY FS_EmptySet, SumFirst
  <2>4. Credited = 0 /\ Debited = 0
    BY <2>2, <2>3 DEF Credited, Debited
  <2> QED
    BY <2>1, <2>4, FS_EmptySet DEF WalletFine
<1>6. CreditsAsSold
  BY DEF CreditsAsSold, NoSub
<1>7. BalancesCover
  BY DEF BalancesCover
<1> QED
  BY <1>1, <1>2, <1>3, <1>4, <1>5, <1>6, <1>7 DEF IInv, SoldFine

LEMMA NextInv == ASSUME IInv, [Next]_vars PROVE IInv'
<1>1. CASE Next
  <2>1. TypeOK /\ TasksFine /\ RowsFine /\ CodesFine /\ WalletFine /\ CreditsAsSold
        /\ points >= 0 /\ wallet >= 0
    BY DEF IInv, SoldFine, BalancesCover
  <2>2. TaskSteps /\ SoldSteps
    BY <1>1, <2>1, TaskMoves, SoldMoves
  <2>3. TypeOK' /\ TasksFine'
    BY <1>1, <2>1, <2>2, TypeKept, TasksKept
  <2>4. RowsFine' /\ CodesFine' /\ CreditsAsSold'
    BY <2>1, <2>2, RowsKept, CodesKept, CreditsKept
  <2>5. WalletFine' /\ wallet' >= 0
    BY <2>1, <2>2, WalletKept
  <2>6. points' >= 0
    BY <1>1, <2>1, PointsKept
  <2> QED
    BY <2>3, <2>4, <2>5, <2>6 DEF IInv, SoldFine, BalancesCover
<1>2. CASE UNCHANGED vars
  <2>1. TypeOK' /\ TasksFine'
    BY <1>2 DEF vars, IInv, TypeOK, TasksFine, TaskFine, WorkerFine, OfferFine, ChargedForResult, Wait
  <2>2. RowsFine' /\ BalancesCover'
    BY <1>2 DEF vars, IInv, SoldFine, RowsFine, KindOf, BalancesCover
  <2>3. CodesFine'
    <3>1. \A o \in Orders : CodesOf(o)' = CodesOf(o) /\ HasCode(o)' = HasCode(o)
      BY <1>2 DEF vars, CodesOf, HasCode, KindOf
    <3> QED
      BY <3>1 DEF IInv, SoldFine, CodesFine
  <2>4. WalletFine'
    <3>1. Applied' = Applied /\ Credited' = Credited /\ Debited' = Debited /\ wallet' = wallet
      BY <1>2 DEF vars, Applied, Credited, Debited
    <3> QED
      BY <3>1 DEF IInv, SoldFine, WalletFine
  <2>5. CreditsAsSold'
    <3>1. \A k : Spent(k)' = Spent(k)
      BY <1>2 DEF vars, Spent
    <3>2. UNCHANGED <<sub, order>>
      BY <1>2 DEF vars
    <3> QED
      BY <3>1, <3>2 DEF IInv, SoldFine, CreditsAsSold
  <2> QED
    BY <2>1, <2>2, <2>3, <2>4, <2>5 DEF IInv, SoldFine
<1> QED
  BY <1>1, <1>2

LEMMA Invariant == Spec => []IInv
<1>1. Init => IInv
  BY InitInv
<1>2. IInv /\ [Next]_vars => IInv'
  BY NextInv
<1> QED
  BY <1>1, <1>2, PTL DEF Spec

LEMMA InvImplies == ASSUME IInv PROVE AiInv
<1>1. PaidOnce
  BY DEF IInv, SoldFine, RowsFine, WalletFine, PaidOnce, Done
<1>2. CodesHandedOnce
  <2> SUFFICES ASSUME NEW o \in Orders
               PROVE  Cardinality(CodesOf(o)) = IF HasCode(o) THEN 1 ELSE 0
    BY DEF CodesHandedOnce, CodesOf, HasCode
  <2>1. CASE HasCode(o)
    BY <2>1, FS_Singleton DEF IInv, SoldFine, CodesFine
  <2>2. CASE ~HasCode(o)
    BY <2>2, FS_EmptySet DEF IInv, SoldFine, CodesFine
  <2> QED
    BY <2>1, <2>2
<1> QED
  BY <1>1, <1>2 DEF AiInv, IInv, SoldFine

\* Orders, codes, subscriptions, wallet and points tell one story: what an order
\* gives was paid once, a code goes to one order, credits go down by what was
\* charged to requests, and no balance becomes negative (_deliver, consume,
\* adjust_account).
THEOREM AiSold == Spec => []AiInv
<1>1. IInv => AiInv
  BY InvImplies
<1> QED
  BY <1>1, Invariant, PTL

\* A request is charged at most once, and never without a result, although the
\* worker charges after its delivery and may be killed between the two.
THEOREM AiCharged == Spec => []ChargedForResult
<1>1. IInv => ChargedForResult
  BY DEF IInv, TasksFine
<1> QED
  BY <1>1, Invariant, PTL

\* A rejected, cancelled or fulfilled order stays as it is, whatever button or
\* page still shows it as open.
THEOREM AiSettled == Spec => Settled
<1> DEFINE Final == {"rejected", "cancelled", "fulfilled"}
           Stays == \A o \in Orders : order[o].status \in Final => order'[o] = order[o]
<1>1. ASSUME IInv, [Next]_vars PROVE Stays
  <2>1. TypeOK /\ TasksFine
    BY <1>1 DEF IInv
  <2>2. ASSUME NEW o \in Orders, ShopStep(o) PROVE Stays
    <3>1. order[o].status \notin Final
      BY <2>2 DEF ShopStep, Choose, SetEmail, StoreReceipt, Receivable, Confirm, Cancel, PayWallet,
         Approve, Reject, CompleteActivation
    <3>2. \E row : Rewrites(o, row)
      BY <2>1, <2>2, ShopMoves DEF Moves, Activates, Gives
    <3>3. \A x \in Orders : x # o => order'[x] = order[x]
      BY <2>1, <3>2, RowWritten
    <3> QED
      BY <3>1, <3>3
  <2>3. CASE UNCHANGED order
    BY <2>3
  <2>4. (\E o \in Orders : ShopStep(o)) \/ UNCHANGED order
    <3>1. CASE \/ \E p \in Plans, v \in Versions \cup {0} : SavePlan(p, v)
               \/ \E c \in Codes : Stock(c)
               \/ \E m \in Models : ToggleModel(m)
               \/ \E k \in Kinds, n \in Costs : SetCost(k, n)
               \/ Award \/ Spend
               \/ \E r \in Requests :
                    \/ ConfirmAdjustment(r)
                    \/ \E on \in {"points", "wallet"}, by \in {-1, 1} :
                         DraftAdjustment(r, on, by) \/ Adjust(r, on, by)
      BY <3>1 DEF SavePlan, Stock, ToggleModel, SetCost, Award, Spend, ConfirmAdjustment,
         DraftAdjustment, Adjust, sale
    <3>2. CASE \/ StartText \/ Accept \/ ClearHistory
               \/ \E u \in Updates : Ask(u) \/ AskLong(u) \/ SubmitMedia(u)
               \/ \E k \in {"image", "video"} : OpenMedia(k)
      BY <3>2 DEF StartText, Accept, ClearHistory, Ask, AskLong, SubmitMedia, OpenMedia, sale
    <3>3. CASE Create \/ Poll \/ Send \/ Charge \/ Kill \/ Pass \/ UNCHANGED vars
      BY <3>3 DEF Create, Poll, Send, Charge, Kill, Pass, sale, vars
    <3> QED
      BY <1>1, <3>1, <3>2, <3>3 DEF Next, ShopStep
  <2> QED
    BY <2>2, <2>3, <2>4
<1>2. IInv /\ [Next]_vars => [Stays]_vars
  BY <1>1
<1>3. Spec => [][Stays]_vars
  BY <1>2, Invariant, PTL DEF Spec
<1> QED
  BY <1>3 DEF Settled

-----------------------------------------------------------------------------
(* Full backup and restore.  Of each step of a restore the invariant says   *)
(* what its undo list leads back to (Undoable), what it has brought so far  *)
(* (Brought), and that there is an archive of what was there (Secured).     *)

Names == Goods \cup {"old", "job"}
Entries == Names \X (1 .. B!Era)
Pcs == {"begin", "stop", "snap clients", "snap sales", "snap files", "restart", "save", "swap",
        "validate", "start", "revert", "done", "failed", "killed"}
Copying == {"snap clients", "snap sales", "snap files", "restart"}
\* Where a restore fails, what it did is undone.
Reversible == {"stop", "save", "swap", "validate", "start", "revert"}
\* The files of the undo list, in the order in which they are replaced.
Trail == <<"sales", "clients", "conf", "link", "wal">>

Before == [live : {<<>>} \cup [B!Files -> 1 .. B!Era],
           sales : SUBSET Entries, clients : SUBSET Entries]
CmdType ==
  [kind : {"none", "backup", "restore"}, pc : Pcs, source : {B!None, "shell", "web"},
   quiesce : BOOLEAN, activate : BOOLEAN,
   running : SUBSET B!Services, todo : SUBSET B!Services,
   snap : [sales : SUBSET Entries, clients : SUBSET Entries, of : SUBSET (1 .. B!Era)],
   at : 1 .. 5, failing : BOOLEAN, before : Before,
   sold : SUBSET Entries, had : SUBSET Entries, dead : SUBSET B!Services, stuck : BOOLEAN,
   touched : BOOLEAN]
DataTypes ==
  /\ budget \in [faults : Nat, jobs : Nat, commands : 0 .. Commands]
  /\ live \in [B!Files -> 1 .. B!Era]
  /\ clients \subseteq Entries /\ main \subseteq Entries
  /\ wal \in [of : 0 .. B!Era, items : SUBSET Entries]
  /\ up \subseteq B!Services /\ conn \in 0 .. B!Era
  /\ undo \in Seq([file : B!Files \cup {"wal"}, of : 0 .. B!Era, items : SUBSET Entries])
Types == DataTypes /\ cmd \in CmdType

Restoring == cmd.kind = "restore"
At(pcs) == cmd.pc \in pcs

\* Which command can be where.
Control ==
  /\ cmd.pc # "begin"
  /\ cmd.kind = "none" => cmd.pc = "done"
  /\ cmd.kind = "backup" => At({"stop", "killed"} \cup Copying)
  /\ cmd.todo \subseteq cmd.running
  /\ Restoring => ~cmd.quiesce
  /\ Restoring /\ At(Copying) => cmd.todo = {}

\* The undo list is what the restore has come through so far.
UndoFits ==
  /\ Len(undo) <= 5
  /\ \A i \in 1 .. Len(undo) : undo[i].file = Trail[i]
  /\ undo # <<>> => Restoring /\ At({"save", "swap", "validate", "start", "revert", "done"})
  /\ At({"save", "swap", "validate", "start", "revert"}) => Restoring
  /\ At({"save"}) => Len(undo) = cmd.at - 1
  /\ At({"swap"}) => cmd.at <= 4 /\ Len(undo) = cmd.at
  /\ At({"validate", "start"}) => Len(undo) = 5

\* A log that is not there is empty; the other files were there.
Walled ==
  /\ wal.of = B!NoFile => wal.items = {}
  /\ \A i \in 1 .. Len(undo) : i = 5 /\ undo[i].of = B!NoFile => undo[i].items = {}
  /\ \A i \in 1 .. Len(undo) : i < 5 => undo[i].of # B!NoFile

\* Which services run where.
Running ==
  /\ At({"save", "swap", "validate", "revert"}) => up = {}
  /\ Restoring /\ At({"stop"}) => up = cmd.todo
  /\ Restoring /\ At(Copying) => up = cmd.running
  /\ Restoring /\ At({"start"}) => up \subseteq cmd.running
  /\ At({"start", "done"}) /\ Restoring /\ ~cmd.activate => B!Extension \notin up \cup cmd.todo
  /\ At({"failed"}) /\ Restoring /\ ~cmd.stuck => cmd.running \ up \subseteq cmd.dead
  /\ cmd.quiesce /\ cmd.kind = "backup" /\ At({"stop"}) => up = cmd.todo
  /\ cmd.quiesce /\ cmd.kind = "backup" /\ At({"snap clients", "snap sales", "snap files"}) =>
       up = {}

\* The backup of the destination holds what there was when the restore began,
\* and nothing is replaced before it is published.
Secure == \E a \in archives : cmd.sold \subseteq a.snap.sales /\ cmd.had \subseteq a.snap.clients
Secured ==
  Restoring =>
    /\ cmd.before.live \in [B!Files -> 1 .. B!Era - 1]
    /\ At(Copying \cup {"failed", "killed"}) => Secure \/ live = cmd.before.live
    /\ At({"stop", "save", "swap", "validate", "start", "revert", "done"}) => Secure
    /\ At(Copying) => /\ live = cmd.before.live
                      /\ cmd.sold \subseteq B!Visible /\ cmd.had \subseteq clients
    /\ At({"snap sales", "snap files"}) \/ (At({"restart"}) /\ ~cmd.failing) =>
         cmd.had \subseteq cmd.snap.clients
    /\ At({"snap files"}) \/ (At({"restart"}) /\ ~cmd.failing) =>
         cmd.sold \subseteq cmd.snap.sales

\* What there would be if everything noted were put back now.
Noted == Len(undo)
PastSales == (IF Noted >= 1 THEN undo[1].items ELSE main)
               \cup (IF Noted = 5 THEN undo[5].items ELSE wal.items)
PastClients == IF Noted >= 2 THEN undo[2].items ELSE clients

\* While sales.db is of era g and the panel's database of era h, an order of
\* the same era has its client.
Matched(sales, g, h, held) == \A e \in B!Shop(sales) : g = h /\ e[2] = g => e \in held

\* The undo list leads back to what there was before.
Undoable ==
  Restoring /\ At(Reversible) =>
    /\ \A i \in 1 .. 4 : IF i <= Noted THEN undo[i].of = cmd.before.live[Trail[i]]
                         ELSE live[Trail[i]] = cmd.before.live[Trail[i]]
    /\ cmd.before.clients \subseteq PastClients
    /\ ~cmd.touched => cmd.before.sales \subseteq PastSales
    /\ Matched(PastSales, cmd.before.live["sales"], cmd.before.live["clients"], PastClients)
    /\ ~cmd.touched /\ (At({"save", "swap", "validate", "start"}) \/ undo # <<>>) =>
         conn = B!NoFile
Unchanged ==
  Restoring /\ At(Copying) =>
    /\ cmd.before.sales \subseteq B!Visible /\ cmd.before.clients \subseteq clients

\* What the restore has brought so far, and that what is noted is older.
Brought ==
  Restoring =>
    /\ At({"save", "swap"}) => \A i \in 1 .. 4 : i < cmd.at => live[Trail[i]] = B!Era
    /\ At({"validate", "start", "done"}) => \A i \in 1 .. 4 : live[Trail[i]] = B!Era
    /\ At({"revert"}) => \A i \in 1 .. 4 : i < Noted => live[Trail[i]] = B!Era
    /\ At({"save", "swap"}) /\ cmd.at >= 2 /\ ~cmd.touched => main = B!Archived
    /\ At({"validate", "start", "done"}) /\ ~cmd.touched =>
         /\ wal.of \in {B!NoFile, B!Era} /\ conn \in {B!NoFile, B!Era}
         /\ \A e \in B!Visible : e[2] = B!Era
    /\ At({"save"}) /\ cmd.at >= 3 => B!Archived \subseteq clients
    /\ At({"swap"}) /\ cmd.at >= 3 => B!Archived \subseteq clients
    /\ At(Copying \cup {"stop", "save", "swap"}) =>
         /\ \A e \in B!Shop(wal.items) : e[2] < B!Era
         /\ \A e \in B!Shop(B!Visible) : e[2] = B!Era => e \in B!Archived
    /\ \A i \in 1 .. Noted : i = 5 => \A e \in B!Shop(undo[i].items) : e[2] < B!Era

\* The client of an order is created before the order is committed, and both
\* files of an era come and go together.
Sold == Matched(B!Visible, live["sales"], live["clients"], clients)
Pure(snap) ==
  \A g \in snap.of : snap.of = {g} =>
    \A e \in B!Shop(snap.sales) : e[2] = g => e \in snap.clients

\* A backup that stopped the services copies databases that stand still.
Quiesced ==
  /\ cmd.kind = "backup" /\ cmd.quiesce =>
    /\ At({"snap sales", "snap files"}) => cmd.snap.clients = clients
    /\ At({"snap files"}) => Matched(cmd.snap.sales, live["sales"], live["clients"], clients)
    /\ At({"restart"}) /\ ~cmd.failing => Pure(cmd.snap)
  /\ \A a \in archives : a.quiesced => Pure(a.snap)

\* A restore that failed has put everything back.
Failed ==
  Restoring /\ At({"failed"}) /\ ~cmd.stuck /\ ~cmd.touched =>
    /\ live = cmd.before.live
    /\ cmd.before.sales \subseteq B!Visible /\ cmd.before.clients \subseteq clients

BackupInd ==
  /\ Types /\ Control /\ UndoFits /\ Walled /\ Running /\ Secured /\ Undoable /\ Unchanged
  /\ Brought /\ Sold /\ Quiesced /\ Failed

-----------------------------------------------------------------------------
Traffic == (\E o \in Goods : B!Provision(o) \/ B!Fulfil(o)) \/ B!JobOpen \/ B!JobCommit \/ B!JobClose
Beginning ==
  \/ \E s \in {"shell", "web"}, q \in BOOLEAN : B!StartBackup(s, q)
  \/ \E sound \in BOOLEAN : B!Upload(sound)
  \/ \E s \in {"shell", "web"}, sound, a \in BOOLEAN : B!StartRestore(s, sound, a)

\* Eras are counted from 1.
LEMMA EraIs == ASSUME DataTypes PROVE B!Era \in Nat \ {0}
BY UpkeepAssumption DEF DataTypes, B!Era

\* The files of file_specs.
LEMMA FilesAre == B!Files = {"sales", "clients", "conf", "link"}
BY DEF B!Files, B!Specs, B!Range


\* The fields of a command that begins.
LEMMA FreshIs ==
  ASSUME DataTypes, NEW kind \in {"none", "backup", "restore"}, NEW source \in {B!None, "shell", "web"}
  PROVE  /\ B!Fresh(kind, source) \in CmdType
         /\ B!Fresh(kind, source).kind = kind /\ B!Fresh(kind, source).source = source
         /\ ~B!Fresh(kind, source).quiesce /\ ~B!Fresh(kind, source).activate
         /\ ~B!Fresh(kind, source).failing /\ ~B!Fresh(kind, source).stuck
         /\ ~B!Fresh(kind, source).touched
         /\ B!Fresh(kind, source).running = {} /\ B!Fresh(kind, source).todo = {}
         /\ B!Fresh(kind, source).snap = B!Nothing /\ B!Fresh(kind, source).dead = {}
         /\ B!Fresh(kind, source).at = 1
         /\ B!Fresh(kind, source).sold = {} /\ B!Fresh(kind, source).had = {}
         /\ kind = "restore" => B!Fresh(kind, source).before =
              [live |-> live, sales |-> B!Shop(B!Visible), clients |-> clients]
<1> DEFINE b == IF kind = "restore"
                THEN [live |-> live, sales |-> B!Shop(B!Visible), clients |-> clients]
                ELSE [live |-> <<>>, sales |-> {}, clients |-> {}]
<1>1. b \in Before
  BY DEF DataTypes, B!Shop, B!Visible, Before
<1>2. kind = "restore" => b = [live |-> live, sales |-> B!Shop(B!Visible), clients |-> clients]
  OBVIOUS
<1>3. B!Nothing \in [sales : SUBSET Entries, clients : SUBSET Entries, of : SUBSET (1 .. B!Era)]
  BY DEF B!Nothing
<1>4. B!Fresh(kind, source) =
  [kind |-> kind, pc |-> "begin", source |-> source, quiesce |-> FALSE, activate |-> FALSE,
   running |-> {}, todo |-> {}, snap |-> B!Nothing, at |-> 1, failing |-> FALSE,
   before |-> b, sold |-> {}, had |-> {}, dead |-> {}, stuck |-> FALSE, touched |-> FALSE]
  BY DEF B!Fresh
<1> HIDE DEF b
<1> QED
  BY <1>1, <1>2, <1>3, <1>4 DEF CmdType, Pcs

\* The command that is none.
LEMMA QuietIs ==
  ASSUME DataTypes
  PROVE  B!Quiet \in CmdType /\ B!Quiet.kind = "none" /\ B!Quiet.pc = "done" /\ B!Quiet.todo = {}
<1> DEFINE f == B!Fresh("none", B!None)
<1>1. f \in CmdType /\ f.kind = "none" /\ f.todo = {}
  BY FreshIs
<1>2. B!Quiet = [f EXCEPT !.pc = "done"]
  BY DEF B!Quiet
<1> HIDE DEF f
<1> QED
  BY <1>1, <1>2 DEF CmdType, Pcs

\* The invariant's types hold at first.
LEMMA TypesInit == ASSUME B!Init PROVE Types
<1>1. B!Era = 1
  BY UpkeepAssumption DEF B!Init, B!Era
<1>2. DataTypes
  BY <1>1, UpkeepAssumption DEF B!Init, DataTypes, B!Absent, B!NoFile, Entries
<1> QED
  BY <1>2, QuietIs DEF B!Init, Types


\* What no command has a share in.
LEMMA TrafficEra == ASSUME Types, Traffic
  PROVE /\ live["sales"] \in 1 .. B!Era /\ live["clients"] \in 1 .. B!Era /\ B!Era \in Nat \ {0}
        /\ B!Era' = B!Era /\ Entries' = Entries /\ live' = live /\ up' = up /\ undo' = undo
        /\ archives' = archives
        /\ budget' \in [faults : Nat, jobs : Nat, commands : 0 .. Commands]
<1>1. live["sales"] \in 1 .. B!Era /\ live["clients"] \in 1 .. B!Era /\ B!Era \in Nat \ {0}
  BY FilesAre, EraIs DEF Types, DataTypes
<1>2. budget' = budget \/ (budget' = [budget EXCEPT !.jobs = @ - 1] /\ budget.jobs > 0)
  BY DEF Traffic, B!Provision, B!Fulfil, B!JobOpen, B!JobCommit, B!JobClose, Types, DataTypes
<1>3. budget'.commands = budget.commands
      /\ budget' \in [faults : Nat, jobs : Nat, commands : 0 .. Commands]
  BY <1>2 DEF Types, DataTypes
<1>4. live' = live /\ up' = up /\ undo' = undo /\ archives' = archives
  BY DEF Traffic, B!Provision, B!Fulfil, B!JobOpen, B!JobCommit, B!JobClose
<1> QED
  BY <1>1, <1>3, <1>4 DEF B!Era, Entries

\* Orders and jobs change of a command at most that sales.db was touched.
LEMMA TrafficCmd ==
  ASSUME Types, Traffic
  PROVE  /\ cmd' \in CmdType
         /\ cmd' = [cmd EXCEPT !.touched = cmd'.touched] /\ (cmd.touched => cmd'.touched)
         /\ B!Window /\ ~cmd'.touched => conn' = conn
         /\ conn' \in {conn, B!NoFile, live["sales"]}
<1>1. cmd' = cmd \/ cmd' = [cmd EXCEPT !.touched = @ \/ B!Window]
  BY DEF Traffic, B!Provision, B!Fulfil, B!JobOpen, B!JobCommit, B!JobClose
<1>2. (cmd' = cmd /\ conn' = conn) \/ cmd' = [cmd EXCEPT !.touched = @ \/ B!Window]
  BY DEF Traffic, B!Provision, B!Fulfil, B!JobOpen, B!JobCommit, B!JobClose
<1>3. conn' \in {conn, B!NoFile, live["sales"]}
  BY DEF Traffic, B!Provision, B!Fulfil, B!JobOpen, B!JobCommit, B!JobClose
<1>4. B!Window \in BOOLEAN
  BY DEF B!Window
<1>5. CASE cmd' = cmd /\ conn' = conn
  BY <1>5, <1>3, TrafficEra DEF Types, CmdType
<1>6. CASE cmd' = [cmd EXCEPT !.touched = @ \/ B!Window]
  <2>1. cmd.touched \in BOOLEAN /\ CmdType' = CmdType
    BY TrafficEra DEF Types, CmdType, Before
  <2> DEFINE t == cmd.touched \/ B!Window
  <2>2. t \in BOOLEAN /\ cmd' = [cmd EXCEPT !.touched = t] /\ (B!Window => t) /\ (cmd.touched => t)
    BY <1>6, <2>1
  <2> HIDE DEF t
  <2> QED
    BY <2>1, <2>2, <1>3 DEF Types, CmdType
<1> QED
  BY <1>2, <1>5, <1>6

\* What orders and jobs add to the databases.
LEMMA TrafficData ==
  ASSUME Types, Traffic
  PROVE  /\ clients \subseteq clients' /\ clients' \subseteq Entries
         /\ main' \subseteq Entries /\ B!Visible \subseteq B!Visible'
         /\ wal' \in [of : 0 .. B!Era, items : SUBSET Entries]
         /\ wal'.of \in {wal.of, B!NoFile, live["sales"]}
         /\ (wal.of = B!NoFile => wal.items = {}) => (wal'.of = B!NoFile => wal'.items = {})
         /\ \A e \in B!Visible' : e \in B!Visible \/ e[2] = live["sales"] \/ (e[2] = conn /\ conn # B!NoFile)
         /\ \A e \in B!Shop(B!Visible') : e \in B!Visible \/
              (\E o \in Goods : e = <<o, live["sales"]>> /\ <<o, live["clients"]>> \in clients)
         /\ \A e \in B!Shop(wal'.items) : e \in wal.items \/ e[2] = live["sales"]
         /\ B!Extension \notin up =>
              /\ clients' = clients
              /\ \A e \in B!Shop(B!Visible') : e \in B!Visible
              /\ \A e \in B!Shop(wal'.items) : e \in wal.items
              /\ conn = B!NoFile /\ conn' = B!NoFile => main' = main /\ wal' = wal
<1>1. B!Extension \notin up => ~\E o \in Goods : B!Provision(o) \/ B!Fulfil(o)
  BY DEF B!Provision, B!Fulfil
<1>3. CASE \E o \in Goods : B!Provision(o)
  <2>1. PICK o \in Goods : clients' = clients \cup {<<o, live["clients"]>>} /\ main' = main /\ wal' = wal
                            /\ B!Extension \in up
    BY <1>3 DEF B!Provision
  <2>2. <<o, live["clients"]>> \in Entries
    BY TrafficEra DEF Entries, Names
  <2> QED
    BY <2>1, <2>2 DEF Types, DataTypes, B!Visible, B!Shop
<1>4. CASE \E o \in Goods : B!Fulfil(o)
  <2>1. PICK o \in Goods : clients' = clients /\ B!Log(<<o, live["sales"]>>) /\ B!Extension \in up
                            /\ <<o, live["clients"]>> \in clients
    BY <1>4 DEF B!Fulfil
  <2>2. <<o, live["sales"]>> \in Entries
    BY TrafficEra DEF Entries, Names
  <2>3. \/ main' = B!Visible /\ wal' = [of |-> live["sales"], items |-> {<<o, live["sales"]>>}]
        \/ main' = main /\ wal' = [of |-> live["sales"], items |-> wal.items \cup {<<o, live["sales"]>>}]
    BY <2>1 DEF B!Log
  <2>4. /\ B!Visible' = B!Visible \cup {<<o, live["sales"]>>} /\ main' \subseteq B!Visible
        /\ wal'.items \subseteq wal.items \cup {<<o, live["sales"]>>} /\ wal'.of = live["sales"]
        /\ wal' = [of |-> wal'.of, items |-> wal'.items]
    BY <2>3 DEF B!Visible
  <2>5. B!Visible \subseteq Entries /\ wal.items \subseteq Entries
    BY DEF Types, DataTypes, B!Visible
  <2>6. clients \subseteq Entries
    BY DEF Types, DataTypes
  <2>7. main' \subseteq Entries /\ wal'.items \subseteq Entries
    BY <2>2, <2>4, <2>5
  <2>8. wal' \in [of : 0 .. B!Era, items : SUBSET Entries]
    BY <2>4, <2>7, TrafficEra
  <2>9. \A e \in B!Shop(B!Visible') : e \in B!Visible \/
              (\E x \in Goods : e = <<x, live["sales"]>> /\ <<x, live["clients"]>> \in clients)
    BY <2>1, <2>4 DEF B!Shop
  <2>10. \A e \in B!Shop(wal'.items) : e \in wal.items \/ e[2] = live["sales"]
    BY <2>4 DEF B!Shop
  <2>11. \A e \in B!Visible' : e \in B!Visible \/ e[2] = live["sales"]
    BY <2>4
  <2>12. wal'.of # B!NoFile /\ B!Visible \subseteq B!Visible'
    BY <2>4, TrafficEra DEF B!NoFile
  <2> QED
    BY <2>1, <2>4, <2>6, <2>7, <2>8, <2>9, <2>10, <2>11, <2>12
<1>5. CASE B!JobOpen
  <2>1. /\ clients' = clients
        /\ \/ main' = B!Visible /\ wal' = B!Absent
           \/ main' = main /\ wal' = wal
        /\ conn' = live["sales"]
    BY <1>5 DEF B!JobOpen
  <2>2. clients \subseteq Entries /\ main \subseteq Entries
        /\ wal \in [of : 0 .. B!Era, items : SUBSET Entries]
    BY DEF Types, DataTypes
  <2>3. CASE main' = B!Visible /\ wal' = B!Absent
    <3>1. B!Visible' = B!Visible /\ wal'.of = B!NoFile /\ wal'.items = {}
      BY <2>3 DEF B!Visible, B!Absent
    <3>2. main' \subseteq Entries
      BY <2>2, <2>3 DEF B!Visible
    <3>3. wal' \in [of : 0 .. B!Era, items : SUBSET Entries]
      BY <2>3, TrafficEra DEF B!Absent, B!NoFile
    <3> QED
      BY <2>1, <2>2, <3>1, <3>2, <3>3, TrafficEra DEF B!Shop, B!NoFile
  <2>4. CASE main' = main /\ wal' = wal
    <3>1. B!Visible' = B!Visible
      BY <2>4 DEF B!Visible
    <3> QED
      BY <2>1, <2>2, <2>4, <3>1, TrafficEra DEF B!Shop, B!NoFile
  <2> QED
    BY <2>1, <2>3, <2>4
<1>6. CASE B!JobCommit
  <2>1. clients' = clients /\ conn # B!NoFile
    BY <1>6 DEF B!JobCommit
  <2>2. \/ conn = live["sales"] /\ main' = B!Visible /\ wal' = [of |-> conn, items |-> {<<"job", conn>>}]
        \/ conn = live["sales"] /\ main' = main
           /\ wal' = [of |-> conn, items |-> wal.items \cup {<<"job", conn>>}]
        \/ wal.of = conn /\ main' = main /\ wal' = [wal EXCEPT !.items = @ \cup {<<"job", conn>>}]
        \/ main' = main /\ wal' = wal
    BY <1>6 DEF B!JobCommit, B!Log
  <2>3. <<"job", conn>> \in Entries
    BY <2>1 DEF Types, DataTypes, Entries, Names, B!NoFile
  <2>4. B!Visible \subseteq Entries /\ wal.items \subseteq Entries
        /\ wal = [of |-> wal.of, items |-> wal.items]
    BY DEF Types, DataTypes, B!Visible
  <2>5. /\ B!Visible \subseteq B!Visible' /\ B!Visible' \subseteq B!Visible \cup {<<"job", conn>>}
        /\ main' \subseteq B!Visible /\ wal'.items \subseteq wal.items \cup {<<"job", conn>>}
        /\ wal'.of \in {wal.of, conn} /\ wal' = [of |-> wal'.of, items |-> wal'.items]
        /\ wal'.of # wal.of => wal'.of = live["sales"]
        /\ wal'.of = conn \/ wal' = wal
    BY <2>2, <2>4 DEF B!Visible
  <2>6. clients \subseteq Entries /\ conn \in 0 .. B!Era /\ wal.of \in 0 .. B!Era
    BY DEF Types, DataTypes
  <2>7. main' \subseteq Entries /\ wal'.items \subseteq Entries
    BY <2>3, <2>4, <2>5
  <2>8. wal' \in [of : 0 .. B!Era, items : SUBSET Entries]
    BY <2>5, <2>6, <2>7
  <2>9. /\ \A e \in B!Shop(B!Visible') : e \in B!Visible
        /\ \A e \in B!Shop(wal'.items) : e \in wal.items
    BY <2>5 DEF B!Shop
  <2>10. \A e \in B!Visible' : e \in B!Visible \/ e[2] = conn
    BY <2>5
  <2> QED
    BY <2>1, <2>4, <2>5, <2>6, <2>7, <2>8, <2>9, <2>10, <1>1 DEF B!NoFile
<1>7. CASE B!JobClose
  <2>1. /\ clients' = clients
        /\ \/ main' = B!Visible /\ wal' = B!Absent
           \/ main' = main /\ wal' = wal
        /\ conn # B!NoFile
    BY <1>7 DEF B!JobClose
  <2>2. clients \subseteq Entries /\ main \subseteq Entries
        /\ wal \in [of : 0 .. B!Era, items : SUBSET Entries]
    BY DEF Types, DataTypes
  <2>3. CASE main' = B!Visible /\ wal' = B!Absent
    <3>1. B!Visible' = B!Visible /\ wal'.of = B!NoFile /\ wal'.items = {}
      BY <2>3 DEF B!Visible, B!Absent
    <3>2. main' \subseteq Entries
      BY <2>2, <2>3 DEF B!Visible
    <3>3. wal' \in [of : 0 .. B!Era, items : SUBSET Entries]
      BY <2>3, TrafficEra DEF B!Absent, B!NoFile
    <3> QED
      BY <2>1, <2>2, <3>1, <3>2, <3>3, TrafficEra DEF B!Shop, B!NoFile
  <2>4. CASE main' = main /\ wal' = wal
    <3>1. B!Visible' = B!Visible
      BY <2>4 DEF B!Visible
    <3> QED
      BY <2>1, <2>2, <2>4, <3>1, TrafficEra DEF B!Shop, B!NoFile
  <2> QED
    BY <2>1, <2>3, <2>4
<1> QED
  BY <1>3, <1>4, <1>5, <1>6, <1>7 DEF Traffic

-----------------------------------------------------------------------------
\* A type of one era is one of the next.
LEMMA TypesGrow ==
  ASSUME Types, B!Era' = B!Era + 1
  PROVE  Entries \subseteq Entries' /\ CmdType \subseteq CmdType'
<1>1. 1 .. B!Era \subseteq 1 .. B!Era'
  BY EraIs DEF Types
<1>2. Entries \subseteq Entries'
  BY <1>1 DEF Entries
<1>3. [B!Files -> 1 .. B!Era] \subseteq [B!Files -> 1 .. B!Era']
  BY <1>1
<1>4. Before \subseteq Before'
  BY <1>2, <1>3 DEF Before
<1> QED
  BY <1>1, <1>2, <1>4 DEF CmdType

\* What a command finds when it begins.
LEMMA BeginData ==
  ASSUME Types, Beginning
  PROVE  /\ live' = live /\ clients' = clients /\ main' = main /\ wal' = wal /\ conn' = conn
         /\ up' = up /\ archives' = archives /\ undo' = <<>>
         /\ budget' \in [faults : Nat, jobs : Nat, commands : 0 .. Commands]
         /\ B!Era' = B!Era + 1 /\ B!Era \in Nat \ {0}
<1>1. B!Begin
  BY DEF Beginning, B!StartBackup, B!Upload, B!StartRestore
<1>2. budget'.commands = budget.commands - 1
      /\ budget' \in [faults : Nat, jobs : Nat, commands : 0 .. Commands]
  BY <1>1, UpkeepAssumption DEF B!Begin, Types, DataTypes
<1> QED
  BY <1>1, <1>2, EraIs, UpkeepAssumption DEF B!Begin, B!Calm, Types, DataTypes, B!Era

BackupBegun ==
  /\ cmd'.kind = "backup" /\ cmd'.pc = "stop" /\ cmd'.todo = cmd'.running
  /\ cmd'.quiesce => cmd'.running = up
RestoreBegun ==
  /\ cmd'.kind = "restore" /\ cmd'.pc \in {"snap clients", "failed"}
  /\ ~cmd'.quiesce /\ ~cmd'.stuck /\ ~cmd'.touched /\ cmd'.todo = {}
  /\ cmd'.before = [live |-> live, sales |-> B!Shop(B!Visible), clients |-> clients]
  /\ cmd'.pc = "failed" => cmd'.running = {}
  /\ cmd'.pc = "snap clients" =>
       cmd'.running = up /\ cmd'.sold = B!Shop(B!Visible) /\ cmd'.had = clients

\* The command that begins.
LEMMA BeginCmd ==
  ASSUME Types, Beginning
  PROVE  /\ cmd' \in CmdType
         /\ \/ BackupBegun
            \/ RestoreBegun
            \/ cmd'.kind = "none" /\ cmd'.pc = "done" /\ cmd'.todo = {}
<1>1. CASE \E s \in {"shell", "web"}, q \in BOOLEAN : B!StartBackup(s, q)
  <2>1. PICK s \in {"shell", "web"}, q \in BOOLEAN : B!StartBackup(s, q)
    BY <1>1
  <2> DEFINE f == B!Fresh("backup", s)
             r == IF q THEN up ELSE {}
  <2>2. f \in CmdType /\ f.kind = "backup"
    BY FreshIs DEF Types
  <2>3. cmd' = [f EXCEPT !.pc = "stop", !.quiesce = q, !.running = r, !.todo = r]
    BY <2>1 DEF B!StartBackup
  <2>4. r \in SUBSET B!Services /\ (q => r = up)
    BY DEF Types, DataTypes
  <2> HIDE DEF f, r
  <2> QED
    BY <2>2, <2>3, <2>4 DEF CmdType, Pcs, BackupBegun
<1>2. CASE \E sound \in BOOLEAN : B!Upload(sound)
  BY <1>2, QuietIs DEF B!Upload, Types
<1>3. CASE \E s \in {"shell", "web"}, sound, a \in BOOLEAN : B!StartRestore(s, sound, a)
  <2>1. PICK s \in {"shell", "web"}, sound \in BOOLEAN, a \in BOOLEAN : B!StartRestore(s, sound, a)
    BY <1>3
  <2> DEFINE f == B!Fresh("restore", s)
  <2>2. /\ f \in CmdType /\ f.kind = "restore" /\ ~f.quiesce /\ ~f.stuck /\ ~f.touched
        /\ f.todo = {} /\ f.running = {}
        /\ f.before = [live |-> live, sales |-> B!Shop(B!Visible), clients |-> clients]
    BY FreshIs DEF Types
  <2>3. \/ cmd' = [f EXCEPT !.pc = "snap clients", !.activate = a,
                    !.running = up, !.sold = B!Shop(B!Visible), !.had = clients]
        \/ cmd' = [f EXCEPT !.pc = "failed"]
    BY <2>1 DEF B!StartRestore, B!Verified
  <2>4. up \in SUBSET B!Services /\ B!Shop(B!Visible) \in SUBSET Entries /\ clients \in SUBSET Entries
    BY DEF Types, DataTypes, B!Shop, B!Visible
  <2> HIDE DEF f
  <2>5. CASE cmd' = [f EXCEPT !.pc = "failed"]
    BY <2>2, <2>5 DEF CmdType, Pcs, RestoreBegun
  <2>6. CASE cmd' = [f EXCEPT !.pc = "snap clients", !.activate = a,
                    !.running = up, !.sold = B!Shop(B!Visible), !.had = clients]
    BY <2>2, <2>4, <2>6 DEF CmdType, Pcs, RestoreBegun
  <2> QED
    BY <2>3, <2>5, <2>6
<1> QED
  BY <1>1, <1>2, <1>3 DEF Beginning

\* Types are kept where a command begins ...
LEMMA BeginTypes == ASSUME Types, Beginning PROVE Types'
<1>1. DataTypes'
  <2>1. 0 .. B!Era \subseteq 0 .. B!Era' /\ [B!Files -> 1 .. B!Era] \subseteq [B!Files -> 1 .. B!Era']
    BY BeginData
  <2>2. Entries \subseteq Entries'
    BY BeginData, TypesGrow
  <2>3. <<>> \in Seq([file : B!Files \cup {"wal"}, of : 0 .. B!Era', items : SUBSET Entries'])
    OBVIOUS
  <2> QED
    BY <2>1, <2>2, <2>3, BeginData DEF Types, DataTypes
<1> QED
  BY <1>1, BeginCmd, BeginData, TypesGrow DEF Types

\* ... and by orders and jobs.
LEMMA TrafficTypes == ASSUME Types, Traffic PROVE Types'
<1>1. CmdType' = CmdType
  BY TrafficEra DEF CmdType, Before
<1>2. conn' \in 0 .. B!Era
  BY TrafficEra, TrafficCmd DEF Types, DataTypes, B!NoFile
<1> QED
  BY <1>1, <1>2, TrafficEra, TrafficCmd, TrafficData DEF Types, DataTypes

-----------------------------------------------------------------------------
Switches == \E s \in B!Services : B!StopOne(s) \/ B!RestartOne(s) \/ B!StartOne(s)
Copies == B!Stopped \/ B!SnapClients \/ B!SnapSales \/ B!SnapFiles \/ B!Publish \/ B!GiveUp \/ B!BackupFails
Replaces == B!Save \/ B!Swap \/ B!Clear \/ B!Validate \/ B!Complete
Undoes == B!RestoreFails \/ B!Revert \/ B!Reverted \/ B!RevertFails \/ B!Timeout \/ B!Reboot
Steps == Switches \/ Copies \/ Replaces \/ Undoes

\* A step is one of an order or a job, of a command that begins, or of the
\* command that runs.
LEMMA NextIs == B!Next <=> Traffic \/ Beginning \/ Steps
BY DEF B!Next, Traffic, Beginning, Steps, Switches, Copies, Replaces, Undoes

\* The command that runs stays in its era.
LEMMA StepEra ==
  ASSUME Types, Steps
  PROVE  /\ budget' \in [faults : Nat, jobs : Nat, commands : 0 .. Commands]
         /\ B!Era' = B!Era /\ Entries' = Entries /\ CmdType' = CmdType /\ B!Era \in Nat \ {0}
<1>1. budget' = budget \/ B!Fault
  BY DEF Steps, Switches, Copies, Replaces, Undoes, B!StopOne, B!RestartOne, B!StartOne, B!Stopped,
    B!SnapClients, B!SnapSales, B!SnapFiles, B!Publish, B!GiveUp, B!BackupFails, B!Save, B!Swap, B!Clear, B!Validate,
    B!Complete, B!RestoreFails, B!Revert, B!Reverted, B!RevertFails, B!Timeout, B!Reboot
<1>2. CASE B!Fault
  <2>1. /\ budget'.commands = budget.commands
        /\ budget' \in [faults : Nat, jobs : Nat, commands : 0 .. Commands]
    <3>1. budget.faults > 0 /\ budget' = [budget EXCEPT !.faults = budget.faults - 1]
      <4>1. B!Spare \in {0, 1} /\ budget.faults \in Nat
        BY DEF B!Spare, Types, DataTypes
      <4> QED
        BY <1>2, <4>1 DEF B!Fault
    <3> QED
      BY <3>1 DEF Types, DataTypes
  <2> QED
    BY <2>1, EraIs DEF Types, B!Era, Entries, CmdType, Before
<1>3. CASE budget' = budget
  BY <1>3, EraIs DEF Types, DataTypes, B!Era, Entries, CmdType, Before
<1> QED
  BY <1>1, <1>2, <1>3

\* What a command keeps to its end.
Keeps ==
  /\ cmd' \in CmdType /\ cmd'.kind = cmd.kind /\ cmd'.quiesce = cmd.quiesce
  /\ cmd'.activate = cmd.activate /\ cmd'.running = cmd.running
  /\ cmd'.sold = cmd.sold /\ cmd'.had = cmd.had

\* What a command is after each kind of step.
LEMMA ServicesCmd == ASSUME Types, Switches PROVE Keeps
BY DEF Types, Switches, B!StopOne, B!RestartOne, B!StartOne, B!ToStop, B!ToRun, CmdType, Keeps

LEMMA CopiesCmd == ASSUME Types, Copies PROVE Keeps \/ cmd' = B!Quiet
<1>1. CASE B!Stopped
  <2>1. live \in [B!Files -> 1 .. B!Era] /\ B!Shop(B!Visible) \in SUBSET Entries /\ clients \in SUBSET Entries
    BY DEF Types, DataTypes, B!Shop, B!Visible
  <2> DEFINE b == [live |-> live, sales |-> B!Shop(B!Visible), clients |-> clients]
             t == conn # B!NoFile
  <2>2. b \in Before /\ t \in BOOLEAN
    BY <2>1 DEF Before
  <2>3. \/ cmd' = [cmd EXCEPT !.pc = "snap clients"]
        \/ cmd' = [cmd EXCEPT !.pc = "save", !.at = 1, !.before = b, !.touched = t]
    BY <1>1 DEF B!Stopped
  <2> HIDE DEF b, t
  <2>4. CASE cmd' = [cmd EXCEPT !.pc = "snap clients"]
    BY <2>4 DEF Types, CmdType, Pcs, Keeps
  <2>5. CASE cmd' = [cmd EXCEPT !.pc = "save", !.at = 1, !.before = b, !.touched = t]
    <3>1. "save" \in Pcs /\ 1 \in 1 .. 5
      BY DEF Pcs
    <3>2. cmd' \in CmdType
      BY <2>2, <2>5, <3>1 DEF Types, CmdType
    <3> QED
      BY <2>5, <3>2 DEF Types, CmdType, Keeps
  <2> QED
    BY <2>3, <2>4, <2>5
<1>2. CASE B!SnapClients
  BY <1>2 DEF Types, DataTypes, CmdType, Pcs, Keeps, B!SnapClients
<1>3. CASE B!SnapSales
  BY <1>3 DEF Types, DataTypes, CmdType, Pcs, Keeps, B!SnapSales, B!Visible
<1>4. CASE B!SnapFiles
  <2>1. B!Range(live) \in SUBSET (1 .. B!Era)
    BY DEF Types, DataTypes, B!Range
  <2> QED
    BY <1>4, <2>1 DEF Types, CmdType, Pcs, Keeps, B!SnapFiles
<1>5. CASE B!Publish
  BY <1>5 DEF Types, CmdType, Pcs, Keeps, B!Publish, B!Nothing
<1>6. CASE B!GiveUp \/ B!BackupFails
  <2> DEFINE t == IF cmd.kind = "backup" THEN cmd.running ELSE {}
  <2>1. t \in SUBSET B!Services
    BY DEF Types, CmdType
  <2>2. \/ cmd' = B!Quiet
        \/ cmd' = [cmd EXCEPT !.pc = "failed"]
        \/ cmd' = [cmd EXCEPT !.pc = "restart", !.failing = TRUE, !.todo = t]
    BY <1>6 DEF B!GiveUp, B!BackupFails, B!Over
  <2> HIDE DEF t
  <2>3. CASE cmd' = [cmd EXCEPT !.pc = "failed"]
    BY <2>3 DEF Types, CmdType, Pcs, Keeps
  <2>4. CASE cmd' = [cmd EXCEPT !.pc = "restart", !.failing = TRUE, !.todo = t]
    BY <2>1, <2>4 DEF Types, CmdType, Pcs, Keeps
  <2> QED
    BY <2>2, <2>3, <2>4
<1> QED
  BY <1>1, <1>2, <1>3, <1>4, <1>5, <1>6 DEF Copies

LEMMA ReplacesCmd == ASSUME Types, UndoFits, Replaces PROVE Keeps
<1> DEFINE t == B!ToStart
<1>1. t \in SUBSET B!Services
  BY DEF Types, CmdType, B!ToStart
<1>2. \/ \E p \in {"swap", "validate", "done"} : cmd' = [cmd EXCEPT !.pc = p]
      \/ cmd.at <= 4 /\ cmd' = [cmd EXCEPT !.pc = "save", !.at = @ + 1]
      \/ cmd' = [cmd EXCEPT !.pc = "start", !.todo = t]
  BY DEF Replaces, B!Save, B!Swap, B!Clear, B!Validate, B!Complete, B!Go, UndoFits, At
<1> HIDE DEF t
<1>3. CASE \E p \in {"swap", "validate", "done"} : cmd' = [cmd EXCEPT !.pc = p]
  BY <1>3 DEF Types, CmdType, Pcs, Keeps
<1>4. CASE cmd.at <= 4 /\ cmd' = [cmd EXCEPT !.pc = "save", !.at = @ + 1]
  <2> DEFINE n == cmd.at + 1
  <2>1. n \in 1 .. 5 /\ cmd' = [cmd EXCEPT !.pc = "save", !.at = n]
    BY <1>4 DEF Types, CmdType
  <2> HIDE DEF n
  <2> QED
    BY <2>1 DEF Types, CmdType, Pcs, Keeps
<1>5. CASE cmd' = [cmd EXCEPT !.pc = "start", !.todo = t]
  BY <1>1, <1>5 DEF Types, CmdType, Pcs, Keeps
<1> QED
  BY <1>2, <1>3, <1>4, <1>5

LEMMA UndoesCmd == ASSUME Types, Undoes PROVE Keeps \/ cmd' = B!Quiet
<1> DEFINE b == cmd.pc \in {"save", "swap"}
<1>1. \/ cmd' = B!Quiet \/ cmd' = cmd
      \/ \E p \in {"failed", "killed"} : cmd' = [cmd EXCEPT !.pc = p]
      \/ cmd' = [cmd EXCEPT !.pc = "revert", !.failing = b]
      \/ cmd' = [cmd EXCEPT !.pc = "failed", !.stuck = TRUE]
      \/ \E d \in SUBSET B!Services : cmd' = [cmd EXCEPT !.pc = "failed", !.dead = d]
  <2>1. CASE B!Reverted
    <3>1. \E d \in SUBSET B!Services : B!Back(d)
      BY <2>1 DEF B!Reverted, Types, CmdType
    <3> QED
      BY <3>1 DEF B!Back
  <2> QED
    BY <2>1 DEF Undoes, B!RestoreFails, B!Revert, B!RevertFails, B!Timeout, B!Reboot, B!Over
<1>2. b \in BOOLEAN
  OBVIOUS
<1> HIDE DEF b
<1>3. CASE cmd' = cmd
  BY <1>3 DEF Types, Keeps
<1>4. CASE \E p \in {"failed", "killed"} : cmd' = [cmd EXCEPT !.pc = p]
  <2>1. PICK p \in {"failed", "killed"} : cmd' = [cmd EXCEPT !.pc = p]
    BY <1>4
  <2>2. p \in Pcs
    BY DEF Pcs
  <2> QED
    BY <2>1, <2>2 DEF Types, CmdType, Keeps
<1>5. CASE cmd' = [cmd EXCEPT !.pc = "revert", !.failing = b]
  BY <1>2, <1>5 DEF Types, CmdType, Pcs, Keeps
<1>6. CASE cmd' = [cmd EXCEPT !.pc = "failed", !.stuck = TRUE]
  BY <1>6 DEF Types, CmdType, Pcs, Keeps
<1>7. CASE \E d \in SUBSET B!Services : cmd' = [cmd EXCEPT !.pc = "failed", !.dead = d]
  <2>1. PICK d \in SUBSET B!Services : cmd' = [cmd EXCEPT !.pc = "failed", !.dead = d]
    BY <1>7
  <2> QED
    BY <2>1 DEF Types, CmdType, Pcs, Keeps
<1> QED
  BY <1>1, <1>3, <1>4, <1>5, <1>6, <1>7

\* What a file is replaced by, and what the undo list puts back.
LEMMA TrailIs ==
  /\ Trail[1] = "sales" /\ Trail[2] = "clients" /\ Trail[3] = "conf" /\ Trail[4] = "link"
  /\ Trail[5] = "wal" /\ Len(B!Specs) = 4
  /\ \A i \in 1 .. 4 : B!Specs[i] = Trail[i] /\ Trail[i] \in B!Files
  /\ \A i, j \in 1 .. 5 : Trail[i] = Trail[j] => i = j
  /\ \A i \in 1 .. 5 : /\ Trail[i] = "sales" <=> i = 1
                       /\ Trail[i] = "clients" <=> i = 2
                       /\ Trail[i] = "wal" <=> i = 5
BY FilesAre DEF Trail, B!Specs

\* A sequence that is not empty has a length above 0.
LEMMA NotEmpty ==
  ASSUME NEW S, NEW q \in Seq(S), q # <<>>
  PROVE  /\ Len(q) \in Nat \ {0} /\ q[Len(q)] \in S
         /\ SubSeq(q, 1, Len(q) - 1) \in Seq(S) /\ Len(SubSeq(q, 1, Len(q) - 1)) = Len(q) - 1
         /\ \A i \in 1 .. Len(q) - 1 : SubSeq(q, 1, Len(q) - 1)[i] = q[i]
<1> DEFINE n == Len(q)
<1>1. n \in Nat \ {0} /\ \A i \in 1 .. n : q[i] \in S
  BY EmptySeq, LenProperties
<1>2. /\ SubSeq(q, 1, n - 1) \in Seq(S)
      /\ Len(SubSeq(q, 1, n - 1)) = IF 1 <= n - 1 THEN n - 1 - 1 + 1 ELSE 0
      /\ \A i \in 1 .. n - 1 - 1 + 1 : SubSeq(q, 1, n - 1)[i] = q[1 + i - 1]
  <2> DEFINE m == n - 1
  <2>1. m \in Int /\ \A i \in 1 .. m : q[i] \in S
    BY <1>1
  <2> HIDE DEF m
  <2>2. /\ SubSeq(q, 1, m) \in Seq(S)
        /\ Len(SubSeq(q, 1, m)) = IF 1 <= m THEN m - 1 + 1 ELSE 0
        /\ \A i \in 1 .. m - 1 + 1 : SubSeq(q, 1, m)[i] = q[1 + i - 1]
    BY <2>1, SubSeqProperties
  <2> QED
    BY <2>2 DEF m
<1>3. \A i \in 1 .. n - 1 : SubSeq(q, 1, n - 1)[i] = q[i]
  <2> TAKE i \in 1 .. n - 1
  <2>1. i \in 1 .. n - 1 - 1 + 1 /\ 1 + i - 1 = i
    BY <1>1
  <2> QED
    BY <1>2, <2>1
<1>4. Len(SubSeq(q, 1, n - 1)) = n - 1
  <2> DEFINE l == Len(SubSeq(q, 1, n - 1))
  <2>1. l = IF 1 <= n - 1 THEN n - 1 - 1 + 1 ELSE 0
    BY <1>2
  <2> HIDE DEF l, n
  <2>2. l = n - 1
    BY <1>1, <2>1
  <2> QED
    BY <2>2 DEF l
<1> QED
  BY <1>1, <1>2, <1>3, <1>4

\* The last of what is noted, and what is noted before it.
LEMMA UndoLast ==
  ASSUME Types, UndoFits, undo # <<>>
  PROVE  /\ Len(undo) \in 1 .. 5 /\ B!Last(undo) = undo[Len(undo)]
         /\ undo[Len(undo)] \in [file : B!Files \cup {"wal"}, of : 0 .. B!Era, items : SUBSET Entries]
         /\ B!Front(undo) \in Seq([file : B!Files \cup {"wal"}, of : 0 .. B!Era, items : SUBSET Entries])
         /\ Len(B!Front(undo)) = Len(undo) - 1
         /\ \A i \in 1 .. Len(undo) - 1 : B!Front(undo)[i] = undo[i]
<1>1. undo \in Seq([file : B!Files \cup {"wal"}, of : 0 .. B!Era, items : SUBSET Entries])
  BY DEF Types, DataTypes
<1> DEFINE S == [file : B!Files \cup {"wal"}, of : 0 .. B!Era, items : SUBSET Entries]
<1>2. undo \in Seq(S) /\ undo # <<>> /\ Len(undo) <= 5
  BY <1>1 DEF UndoFits
<1> HIDE DEF S
<1>3. B!Last(undo) = undo[Len(undo)] /\ B!Front(undo) = SubSeq(undo, 1, Len(undo) - 1)
  BY DEF B!Last, B!Front
<1>4. Len(undo) \in 1 .. 5
  <2> DEFINE l == Len(undo)
  <2>1. l \in Nat \ {0}
    BY <1>2, NotEmpty, Zenon
  <2>2. l <= 5
    BY <1>2
  <2> HIDE DEF l
  <2>3. l \in 1 .. 5
    BY <2>1, <2>2
  <2> QED
    BY <2>3 DEF l
<1>5. undo[Len(undo)] \in S /\ B!Front(undo) \in Seq(S) /\ Len(B!Front(undo)) = Len(undo) - 1
      /\ \A i \in 1 .. Len(undo) - 1 : B!Front(undo)[i] = undo[i]
  <2> DEFINE q == undo
  <2>1. q \in Seq(S) /\ q # <<>>
    BY <1>2
  <2> HIDE DEF q
  <2>2. /\ q[Len(q)] \in S
        /\ SubSeq(q, 1, Len(q) - 1) \in Seq(S) /\ Len(SubSeq(q, 1, Len(q) - 1)) = Len(q) - 1
        /\ \A i \in 1 .. Len(q) - 1 : SubSeq(q, 1, Len(q) - 1)[i] = q[i]
    BY <2>1, NotEmpty, Zenon
  <2> QED
    BY <1>3, <2>2, Zenon DEF q
<1> QED
  BY <1>3, <1>4, <1>5 DEF S

\* The effect of Save, ...
LEMMA SaveIs ==
  ASSUME Types, UndoFits, B!Save
  PROVE  /\ cmd.at \in 1 .. 4 /\ Len(undo) = cmd.at - 1 /\ Len(undo') = cmd.at
         /\ \A i \in 1 .. Len(undo) : undo'[i] = undo[i]
         /\ undo'[cmd.at] = [file |-> Trail[cmd.at], of |-> live[Trail[cmd.at]],
               items |-> IF cmd.at = 1 THEN main ELSE IF cmd.at = 2 THEN clients ELSE {}]
         /\ undo' \in Seq([file : B!Files \cup {"wal"}, of : 0 .. B!Era, items : SUBSET Entries])
<1> DEFINE n == cmd.at
           T == [file : B!Files \cup {"wal"}, of : 0 .. B!Era, items : SUBSET Entries]
           u == [file |-> Trail[n], of |-> live[Trail[n]],
                 items |-> IF n = 1 THEN main ELSE IF n = 2 THEN clients ELSE {}]
<1>1. n \in 1 .. 4 /\ Len(undo) = n - 1 /\ undo \in Seq(T)
  BY TrailIs DEF Types, DataTypes, CmdType, B!Save, UndoFits, At
<1>2. B!Content(Trail[n]) = IF n = 1 THEN main ELSE IF n = 2 THEN clients ELSE {}
  BY <1>1, TrailIs DEF B!Content
<1>3. undo' = Append(undo, u)
  <2>1. B!Specs[n] = Trail[n]
    BY <1>1, TrailIs
  <2>2. undo' = Append(undo, [file |-> B!Specs[n], of |-> live[B!Specs[n]],
                              items |-> B!Content(B!Specs[n])])
    BY DEF B!Save
  <2> QED
    BY <1>2, <2>1, <2>2
<1>4. u \in T
  <2> DEFINE held == IF n = 1 THEN main ELSE IF n = 2 THEN clients ELSE {}
  <2>1. held \subseteq Entries
    BY DEF Types, DataTypes
  <2>2. Trail[n] \in B!Files /\ live[Trail[n]] \in 0 .. B!Era
    <3>1. Trail[n] \in B!Files
      BY <1>1, TrailIs
    <3>2. live \in [B!Files -> 1 .. B!Era]
      BY DEF Types, DataTypes
    <3> QED
      BY <3>1, <3>2
  <2>3. u = [file |-> Trail[n], of |-> live[Trail[n]], items |-> held]
    OBVIOUS
  <2> HIDE DEF held, u
  <2> QED
    BY <2>1, <2>2, <2>3
<1>5. u = [file |-> Trail[n], of |-> live[Trail[n]],
               items |-> IF n = 1 THEN main ELSE IF n = 2 THEN clients ELSE {}]
  OBVIOUS
<1> HIDE DEF u, T
<1>6. undo' \in Seq(T) /\ Len(undo') = n /\ undo'[n] = u
      /\ \A i \in 1 .. Len(undo) : undo'[i] = undo[i]
  BY <1>1, <1>3, <1>4
<1> QED
  BY <1>1, <1>5, <1>6 DEF T

\* ... of Swap, ...
LEMMA SwapIs ==
  ASSUME Types, UndoFits, B!Swap
  PROVE  /\ cmd.at \in 1 .. 4 /\ Len(undo) = cmd.at /\ cmd.kind = "restore" /\ undo' = undo
         /\ live' = [live EXCEPT ![Trail[cmd.at]] = B!Era]
         /\ main' = IF cmd.at = 1 THEN B!Archived ELSE main
         /\ clients' = IF cmd.at = 2 THEN B!Archived ELSE clients
         /\ wal' = wal
         /\ cmd'.pc = "save" /\ cmd'.at = cmd.at + 1 /\ cmd' = [cmd EXCEPT !.pc = "save", !.at = cmd.at + 1]
<1>1. cmd.at \in 1 .. 4 /\ Len(undo) = cmd.at /\ cmd.kind = "restore"
  BY DEF Types, CmdType, B!Swap, UndoFits, At, Restoring
<1>2. B!Put(Trail[cmd.at], B!Era, IF Trail[cmd.at] \in {"sales", "clients"} THEN B!Archived ELSE {})
  BY <1>1, TrailIs DEF B!Swap
<1>3. /\ live' = [live EXCEPT ![Trail[cmd.at]] = B!Era]
      /\ main' = IF cmd.at = 1 THEN B!Archived ELSE main
      /\ clients' = IF cmd.at = 2 THEN B!Archived ELSE clients
  BY <1>1, <1>2, TrailIs DEF B!Put
<1> QED
  BY <1>1, <1>3 DEF B!Swap, Types, CmdType

\* ... of Revert ...
LEMMA RevertIs ==
  ASSUME Types, UndoFits, B!Revert
  PROVE  /\ Len(undo) \in 1 .. 5 /\ Len(undo') = Len(undo) - 1 /\ cmd.kind = "restore"
         /\ \A i \in 1 .. Len(undo') : undo'[i] = undo[i]
         /\ IF Len(undo) = 5 THEN live' = live ELSE live' = [live EXCEPT ![Trail[Len(undo)]] = undo[Len(undo)].of]
         /\ main' = IF Len(undo) = 1 THEN undo[1].items ELSE main
         /\ clients' = IF Len(undo) = 2 THEN undo[2].items ELSE clients
         /\ wal' = IF Len(undo) = 5 THEN [of |-> undo[5].of, items |-> undo[5].items] ELSE wal
         /\ cmd' = cmd /\ up' = up /\ conn' = conn /\ archives' = archives
<1> DEFINE n == Len(undo)
           u == undo[n]
<1>1. undo # <<>> /\ cmd' = cmd /\ up' = up /\ conn' = conn /\ archives' = archives
  BY DEF B!Revert
<1>2. n \in 1 .. 5 /\ u = B!Last(undo) /\ u.file = Trail[n] /\ cmd.kind = "restore"
  BY <1>1, UndoLast DEF UndoFits, Restoring
<1>3. undo' = B!Front(undo)
  BY DEF B!Revert
<1>4. IF u.file = "wal"
      THEN wal' = [of |-> u.of, items |-> u.items] /\ live' = live /\ main' = main /\ clients' = clients
      ELSE B!Put(u.file, u.of, u.items) /\ wal' = wal
  BY <1>2 DEF B!Revert
<1>5. u.file = "wal" <=> n = 5
  BY <1>2, TrailIs
<1> HIDE DEF u
<1>6. CASE n = 5
  <2>1. u = undo[5] /\ wal' = [of |-> u.of, items |-> u.items]
        /\ live' = live /\ main' = main /\ clients' = clients
    BY <1>4, <1>5, <1>6 DEF u
  <2>2. Len(undo') = Len(undo) - 1 /\ \A i \in 1 .. Len(undo) - 1 : undo'[i] = undo[i]
    BY <1>1, <1>3, UndoLast
  <2> QED
    BY <1>1, <1>2, <1>6, <2>1, <2>2
<1>7. CASE n # 5
  <2>1. /\ live' = [live EXCEPT ![Trail[n]] = u.of]
        /\ main' = IF n = 1 THEN u.items ELSE main
        /\ clients' = IF n = 2 THEN u.items ELSE clients
        /\ wal' = wal
    <3>1. B!Put(u.file, u.of, u.items) /\ wal' = wal
      BY <1>4, <1>5, <1>7
    <3>2. u.file = Trail[n] /\ (u.file = "sales" <=> n = 1) /\ (u.file = "clients" <=> n = 2)
      BY <1>2, TrailIs
    <3> QED
      BY <3>1, <3>2 DEF B!Put
  <2>2. Len(undo') = Len(undo) - 1 /\ \A i \in 1 .. Len(undo) - 1 : undo'[i] = undo[i]
    BY <1>1, <1>3, UndoLast
  <2> QED
    BY <1>1, <1>2, <1>7, <2>1, <2>2 DEF u
<1> QED
  BY <1>6, <1>7

\* ... and of Clear, by the number of files that are noted.
LEMMA ClearIs ==
  ASSUME Types, UndoFits, B!Clear
  PROVE  /\ Len(undo) = 4 /\ Len(undo') = 5 /\ cmd.kind = "restore" /\ cmd.at = 5
         /\ \A i \in 1 .. 4 : undo'[i] = undo[i]
         /\ undo'[5] = [file |-> "wal", of |-> wal.of, items |-> wal.items]
         /\ undo' \in Seq([file : B!Files \cup {"wal"}, of : 0 .. B!Era, items : SUBSET Entries])
         /\ cmd' = [cmd EXCEPT !.pc = "validate"]
<1> DEFINE T == [file : B!Files \cup {"wal"}, of : 0 .. B!Era, items : SUBSET Entries]
           u == [file |-> "wal", of |-> wal.of, items |-> wal.items]
<1>1. cmd.at = 5 /\ Len(undo) = 4 /\ undo \in Seq(T) /\ cmd.kind = "restore"
  <2>1. cmd.at \in 1 .. 5 /\ cmd.at > 4 /\ cmd.pc = "save"
    BY TrailIs DEF Types, CmdType, B!Clear
  <2>2. undo \in Seq(T) /\ Len(undo) = cmd.at - 1 /\ cmd.kind = "restore"
    BY <2>1 DEF Types, DataTypes, UndoFits, At, Restoring
  <2> QED
    BY <2>1, <2>2
<1>2. undo' = Append(undo, u) /\ cmd' = [cmd EXCEPT !.pc = "validate"]
  BY DEF B!Clear, B!Go
<1>3. u \in T
  BY DEF Types, DataTypes
<1>4. u = [file |-> "wal", of |-> wal.of, items |-> wal.items]
  OBVIOUS
<1> HIDE DEF u, T
<1>5. undo' \in Seq(T) /\ Len(undo') = 5 /\ undo'[5] = u /\ \A i \in 1 .. 4 : undo'[i] = undo[i]
  <2>1. /\ undo' \in Seq(T) /\ Len(undo') = Len(undo) + 1 /\ undo'[Len(undo) + 1] = u
        /\ \A i \in 1 .. Len(undo) : undo'[i] = undo[i]
    <3> DEFINE q == undo
    <3>1. q \in Seq(T)
      BY <1>1
    <3> HIDE DEF q
    <3>2. /\ Append(q, u) \in Seq(T) /\ Len(Append(q, u)) = Len(q) + 1
          /\ Append(q, u)[Len(q) + 1] = u
          /\ \A i \in 1 .. Len(q) : Append(q, u)[i] = q[i]
      BY <1>3, <3>1, AppendProperties
    <3> QED
      BY <1>2, <3>2, Zenon DEF q
  <2> QED
    BY <1>1, <2>1
<1> QED
  BY <1>1, <1>2, <1>4, <1>5 DEF T

\* The command that runs keeps the types.
LEMMA StepTypes == ASSUME Types, UndoFits, Walled, Steps PROVE Types'
<1> DEFINE T == [file : B!Files \cup {"wal"}, of : 0 .. B!Era, items : SUBSET Entries]
<1>1. /\ live \in [B!Files -> 1 .. B!Era] /\ clients \subseteq Entries /\ main \subseteq Entries
      /\ wal \in [of : 0 .. B!Era, items : SUBSET Entries]
      /\ up \subseteq B!Services /\ conn \in 0 .. B!Era /\ undo \in Seq(T)
  BY DEF Types, DataTypes
<1>2. cmd' \in CmdType
  BY ServicesCmd, CopiesCmd, ReplacesCmd, UndoesCmd, QuietIs DEF Steps, Keeps, Types
<1>3. B!Archived \subseteq Entries
  BY StepEra DEF B!Archived, Entries, Names
<1>4. SUFFICES
        /\ live' \in [B!Files -> 1 .. B!Era] /\ clients' \subseteq Entries /\ main' \subseteq Entries
        /\ wal' \in [of : 0 .. B!Era, items : SUBSET Entries]
        /\ up' \subseteq B!Services /\ conn' \in 0 .. B!Era /\ undo' \in Seq(T)
  BY <1>2, StepEra DEF Types, DataTypes
<1>5. <<>> \in Seq(T)
  OBVIOUS
<1> HIDE DEF T
<1>6. CASE Switches
  BY <1>1, <1>6 DEF Switches, B!StopOne, B!RestartOne, B!StartOne, B!Calm
<1>7. CASE Copies
  <2>1. /\ live' = live /\ clients' = clients /\ main' = main /\ wal' = wal
        /\ up' = up /\ conn' = conn /\ undo' = undo
    BY <1>7 DEF Copies, B!Stopped, B!SnapClients, B!SnapSales, B!SnapFiles, B!Publish, B!GiveUp,
      B!BackupFails, B!Calm
  <2> QED
    BY <1>1, <2>1
<1>8. CASE B!Save
  <2>1. /\ live' = live /\ clients' = clients /\ main' = main /\ wal' = wal
        /\ up' = up /\ conn' = conn
    BY <1>8 DEF B!Save, B!Calm
  <2>2. undo' \in Seq(T)
    BY <1>8, SaveIs DEF T
  <2> QED
    BY <1>1, <2>1, <2>2
<1>9. CASE B!Swap
  <2>1. PICK n \in 1 .. 4 : n = cmd.at
    BY <1>9, SwapIs
  <2>2. /\ live' = [live EXCEPT ![Trail[n]] = B!Era] /\ wal' = wal
        /\ main' = IF n = 1 THEN B!Archived ELSE main
        /\ clients' = IF n = 2 THEN B!Archived ELSE clients
    BY <1>9, <2>1, SwapIs
  <2>3. up' = up /\ conn' = conn /\ undo' = undo
    BY <1>9 DEF B!Swap
  <2>4. Trail[n] \in B!Files /\ B!Era \in 1 .. B!Era
    BY TrailIs, StepEra
  <2>5. live' \in [B!Files -> 1 .. B!Era]
    BY <1>1, <2>2, <2>4
  <2>6. main' \subseteq Entries /\ clients' \subseteq Entries
    BY <1>1, <1>3, <2>2
  <2> QED
    BY <1>1, <2>2, <2>3, <2>5, <2>6
<1>10. CASE B!Clear
  BY <1>1, <1>10, StepEra, ClearIs DEF B!Clear, B!Absent, B!NoFile, T
<1>11. CASE B!Validate \/ B!Complete
  BY <1>1, <1>11 DEF B!Validate, B!Complete, B!Calm
<1>12. CASE B!RestoreFails \/ B!Timeout
  BY <1>1, <1>5, <1>12 DEF B!RestoreFails, B!Timeout, B!Calm
<1>13. CASE B!Revert
  <2>1. Len(undo) \in 1 .. 5 /\ undo' \in Seq(T) /\ undo[Len(undo)] \in T
    BY <1>13, UndoLast DEF B!Revert, T
  <2>2. PICK n \in 1 .. 5 : n = Len(undo)
    BY <2>1
  <2>3. n < 5 => undo[n].of # B!NoFile
    BY <2>2 DEF Walled
  <2>4. undo[n].of \in 0 .. B!Era /\ undo[n].items \subseteq Entries
    BY <2>1, <2>2 DEF T
  <2>5. n < 5 => undo[n].of \in 1 .. B!Era
    BY <2>3, <2>4, StepEra DEF B!NoFile
  <2>6. /\ IF n = 5 THEN live' = live ELSE live' = [live EXCEPT ![Trail[n]] = undo[n].of]
        /\ main' = IF n = 1 THEN undo[1].items ELSE main
        /\ clients' = IF n = 2 THEN undo[2].items ELSE clients
        /\ wal' = IF n = 5 THEN [of |-> undo[5].of, items |-> undo[5].items] ELSE wal
        /\ up' = up /\ conn' = conn
    BY <1>13, <2>2, RevertIs
  <2>7. live' \in [B!Files -> 1 .. B!Era]
    <3>1. CASE n = 5
      BY <1>1, <2>6, <3>1
    <3>2. CASE n # 5
      <4>1. Trail[n] \in B!Files /\ undo[n].of \in 1 .. B!Era
        BY <2>5, <3>2, TrailIs
      <4>2. live' = [live EXCEPT ![Trail[n]] = undo[n].of]
        BY <2>6, <3>2
      <4> QED
        BY <1>1, <4>1, <4>2
    <3> QED
      BY <3>1, <3>2
  <2>8. wal' \in [of : 0 .. B!Era, items : SUBSET Entries] /\ main' \subseteq Entries /\ clients' \subseteq Entries
    BY <1>1, <2>4, <2>6
  <2> QED
    BY <1>1, <2>1, <2>6, <2>7, <2>8
<1>14. CASE B!Reverted \/ B!RevertFails
  <2>1. up' \subseteq B!Services
    BY <1>1, <1>14 DEF B!Reverted, B!RevertFails, B!Back, Types, CmdType
  <2> QED
    BY <1>1, <1>5, <1>14, <2>1 DEF B!Reverted, B!RevertFails, B!Back, B!Calm
<1>15. CASE B!Reboot
  BY <1>1, <1>5, <1>15, StepEra DEF B!Reboot, B!Absent, B!NoFile, B!Visible
<1> QED
  BY <1>6, <1>7, <1>8, <1>9, <1>10, <1>11, <1>12, <1>13, <1>14, <1>15 DEF Steps, Replaces, Undoes

-----------------------------------------------------------------------------
\* The invariant is kept where a command begins, ...
LEMMA BeginInv == ASSUME BackupInd, Beginning PROVE BackupInd'
<1> Types /\ Walled /\ Sold /\ Quiesced
  BY DEF BackupInd
<1>1. Types'
  BY BeginTypes
<1> USE BeginData, BeginCmd
<1>0. cmd'.pc \in {"stop", "snap clients", "failed", "done"}
  BY DEF BackupBegun, RestoreBegun
<1>2. Len(undo') = 0
  OBVIOUS
<1>3. \A e \in B!Visible' : e[2] < B!Era'
  BY DEF B!Visible, Types, DataTypes, Entries
<1>4. B!Visible' = B!Visible
  BY DEF B!Visible
<1>5. Control'
  BY DEF Control, BackupBegun, RestoreBegun, At, Restoring, Copying
<1>6. UndoFits'
  <2>1. /\ ~At({"save", "swap", "validate", "start", "revert"})' /\ ~At({"save"})'
        /\ ~At({"swap"})' /\ ~At({"validate", "start"})'
    BY <1>0 DEF At
  <2>2. 1 .. Len(undo') = {} /\ Len(undo') <= 5 /\ undo' = <<>>
    BY <1>2
  <2> QED
    BY <2>1, <2>2 DEF UndoFits
<1>7. Walled'
  BY <1>2 DEF Walled
<1>8. Running'
  BY DEF Running, BackupBegun, RestoreBegun, At, Restoring, Copying
<1>9. RestoreBegun => /\ cmd'.before.live \in [B!Files -> 1 .. B!Era' - 1] /\ cmd'.before.live = live
                      /\ cmd'.before.sales = B!Shop(B!Visible) /\ cmd'.before.clients = clients
  <2>1. live \in [B!Files -> 1 .. B!Era' - 1]
    BY DEF Types, DataTypes
  <2>2. RestoreBegun => cmd'.before = [live |-> live, sales |-> B!Shop(B!Visible), clients |-> clients]
    BY DEF RestoreBegun
  <2> QED
    BY <2>1, <2>2
<1>10. Secured'
  BY <1>4, <1>9 DEF Secured, B!Shop, BackupBegun, RestoreBegun, At, Restoring, Copying
<1>11. Undoable'
  BY DEF Undoable, BackupBegun, RestoreBegun, At, Restoring, Reversible
<1>12. Unchanged'
  BY <1>4, <1>9 DEF Unchanged, B!Shop, BackupBegun, At, Restoring
<1>13. Brought'
  <2> SUFFICES ASSUME Restoring' PROVE Brought'
    BY DEF Brought
  <2>1. \A e \in B!Shop(wal'.items) : e[2] < B!Era'
    BY <1>3 DEF B!Visible, B!Shop
  <2>2. \A e \in B!Shop(B!Visible') : e[2] # B!Era'
    BY <1>1, <1>3 DEF B!Shop, B!Visible, Types, DataTypes, Entries
  <2>3. Restoring' => RestoreBegun
    BY DEF Restoring, BackupBegun
  <2> QED
    <3>1. /\ ~At({"save", "swap"})' /\ ~At({"validate", "start", "done"})'
          /\ ~At({"revert"})' /\ ~At({"save"})' /\ ~At({"swap"})'
      BY <2>3 DEF At, RestoreBegun
    <3>2. 1 .. Noted' = {}
      BY <1>2 DEF Noted
    <3> QED
      BY <2>1, <2>2, <3>1, <3>2 DEF Brought
<1>14. Sold'
  BY <1>4 DEF Sold
<1>15. Quiesced'
  BY DEF Quiesced, BackupBegun, RestoreBegun, At
<1>16. Failed'
  BY <1>4, <1>9 DEF Failed, B!Shop, BackupBegun, At, Restoring
<1> QED
  BY <1>1, <1>5, <1>6, <1>7, <1>8, <1>10, <1>11, <1>12, <1>13, <1>14, <1>15, <1>16 DEF BackupInd

\* The invariant holds at first.
LEMMA BackupStart == ASSUME B!Init PROVE BackupInd
<1>1. Types /\ cmd.kind = "none" /\ cmd.pc = "done" /\ cmd.todo = {} /\ undo = <<>> /\ archives = {}
  BY TypesInit, QuietIs DEF B!Init, Types
<1>2. B!Visible = {} /\ wal.of = B!NoFile /\ wal.items = {}
  BY DEF B!Init, B!Visible, B!Absent
<1> QED
  BY <1>1, <1>2 DEF BackupInd, Control, UndoFits, Walled, Running, Secured, Undoable, Unchanged, Brought,
    Sold, Matched, B!Shop, Quiesced, Failed, At, Restoring, Copying

-----------------------------------------------------------------------------
\* Orders and jobs leave the command as it was.
LEMMA TrafficSame ==
  ASSUME Types, Traffic
  PROVE  /\ cmd'.kind = cmd.kind /\ cmd'.pc = cmd.pc /\ cmd'.quiesce = cmd.quiesce
         /\ cmd'.activate = cmd.activate /\ cmd'.running = cmd.running /\ cmd'.todo = cmd.todo
         /\ cmd'.snap = cmd.snap /\ cmd'.at = cmd.at /\ cmd'.failing = cmd.failing
         /\ cmd'.before = cmd.before /\ cmd'.sold = cmd.sold /\ cmd'.had = cmd.had
         /\ cmd'.dead = cmd.dead /\ cmd'.stuck = cmd.stuck
         /\ cmd.touched => cmd'.touched
         /\ \A pcs : At(pcs)' = At(pcs)
<1>1. cmd \in CmdType /\ cmd' = [cmd EXCEPT !.touched = cmd'.touched] /\ (cmd.touched => cmd'.touched)
  BY TrafficCmd DEF Types
<1> DEFINE t == cmd'.touched
<1>2. PICK x : x = t
  OBVIOUS
<1>3. cmd' = [cmd EXCEPT !.touched = x]
  BY <1>1, <1>2
<1> QED
  BY <1>1, <1>3 DEF CmdType, At

\* While services are down and no job has sales.db open nothing is written.
LEMMA TrafficQuiet ==
  ASSUME Types, Traffic, UndoFits, Running, Undoable, ~cmd'.touched, Restoring,
         \/ At({"save", "swap"}) \/ (At({"revert"}) /\ undo # <<>>)
  PROVE  main' = main /\ wal' = wal
<1>1. ~cmd.touched /\ B!Window /\ conn = B!NoFile
  BY TrafficSame DEF B!Window, Undoable, At, Reversible, Restoring
<1>2. B!Extension \notin up
  BY DEF Running, At
<1> QED
  BY <1>1, <1>2, TrafficCmd, TrafficData

\* Orders and jobs do not come between a restore and what it is to undo.
LEMMA TrafficUndoable == ASSUME BackupInd, Traffic PROVE Undoable'
<1> SUFFICES ASSUME Restoring, At(Reversible) PROVE Undoable'
  BY TrafficSame DEF BackupInd, Undoable, Restoring
<1> Types /\ UndoFits /\ Running /\ Undoable
  BY DEF BackupInd
<1>1. /\ live' = live /\ undo' = undo /\ up' = up /\ Noted' = Noted /\ cmd'.before = cmd.before
      /\ cmd.touched => cmd'.touched
      /\ clients \subseteq clients' /\ B!Visible \subseteq B!Visible'
  BY TrafficSame, TrafficEra, TrafficData DEF Noted
<1>2. Noted \in 0 .. 5 /\ (Noted = 0 <=> undo = <<>>)
  <2> DEFINE l == Len(undo)
             S == [file : B!Files \cup {"wal"}, of : 0 .. B!Era, items : SUBSET Entries]
  <2>1. undo \in Seq(S) /\ l <= 5
    BY DEF Types, DataTypes, UndoFits
  <2>2. l \in Nat /\ (l = 0 <=> undo = <<>>)
    BY <2>1, EmptySeq, LenProperties
  <2> HIDE DEF l, S
  <2>3. l \in 0 .. 5
    BY <2>1, <2>2
  <2> QED
    BY <2>2, <2>3 DEF l, Noted
<1>3. ASSUME Noted \in 1 .. 4
      PROVE  (At({"save", "swap"}) \/ (At({"revert"}) /\ undo # <<>>)) /\ B!Extension \notin up
  <2>1. undo # <<>> /\ Noted # 5
    BY <1>2, <1>3
  <2>2. At({"save", "swap", "validate", "start", "revert", "done"}) /\ ~At({"validate", "start"})
    BY <2>1 DEF UndoFits, Noted
  <2>3. At({"save", "swap", "validate", "revert"})
    BY <2>2 DEF At, Reversible
  <2> QED
    BY <2>1, <2>2, <2>3 DEF At, Running
<1>4. cmd.before.clients \subseteq PastClients'
  BY <1>1, <1>2 DEF PastClients, Undoable
<1>5. ASSUME ~cmd'.touched PROVE cmd.before.sales \subseteq PastSales'
  <2>1. cmd.before.sales \subseteq PastSales
    BY <1>1, <1>5 DEF Undoable
  <2>2. CASE Noted = 0
    BY <1>1, <2>1, <2>2 DEF PastSales, B!Visible
  <2>3. CASE Noted = 5
    BY <1>1, <2>1, <2>3 DEF PastSales
  <2>4. CASE Noted \in 1 .. 4
    <3>1. At({"save", "swap"}) \/ (At({"revert"}) /\ undo # <<>>)
      BY <1>3, <2>4
    <3>2. main' = main /\ wal' = wal
      BY <1>5, <3>1, TrafficQuiet
    <3> QED
      BY <1>1, <2>1, <2>4, <3>2 DEF PastSales
  <2> QED
    BY <1>2, <2>2, <2>3, <2>4
<1>6. Matched(PastSales', cmd.before.live["sales"], cmd.before.live["clients"], PastClients')
  <2> SUFFICES ASSUME NEW e \in B!Shop(PastSales'), cmd.before.live["sales"] = cmd.before.live["clients"],
                      e[2] = cmd.before.live["sales"]
               PROVE  e \in PastClients'
    BY DEF Matched
  <2>1. Matched(PastSales, cmd.before.live["sales"], cmd.before.live["clients"], PastClients)
    BY DEF Undoable
  <2>2. PastClients \subseteq PastClients'
    BY <1>1, <1>2 DEF PastClients
  <2>3. CASE Noted = 0
    <3>1. PastSales = B!Visible /\ PastSales' = B!Visible' /\ PastClients = clients
      BY <1>1, <2>3 DEF PastSales, PastClients, B!Visible
    <3>2. live["sales"] = cmd.before.live["sales"] /\ live["clients"] = cmd.before.live["clients"]
      BY <2>3, TrailIs DEF Undoable
    <3>3. e \in B!Visible \/ e \in clients
      BY <3>1, <3>2, TrafficData
    <3> QED
      BY <2>1, <2>2, <3>1, <3>3 DEF Matched, B!Shop
  <2>4. CASE Noted = 5
    <3>1. e \in B!Shop(PastSales)
      BY <1>1, <2>4 DEF PastSales
    <3> QED
      BY <2>1, <2>2, <3>1 DEF Matched
  <2>5. CASE Noted \in 1 .. 4
    <3>1. e \in PastSales
      BY <1>1, <1>3, <2>5, TrafficData DEF PastSales, B!Shop
    <3> QED
      BY <2>1, <2>2, <3>1 DEF Matched, B!Shop
  <2> QED
    BY <1>2, <2>3, <2>4, <2>5
<1>7. ASSUME ~cmd'.touched, At({"save", "swap", "validate", "start"}) \/ undo # <<>>
      PROVE  conn' = B!NoFile
  <2>1. conn = B!NoFile
    BY <1>1, <1>7 DEF Undoable
  <2>2. B!Window
    BY <1>7 DEF UndoFits, B!Window, At, Reversible, Restoring
  <2> QED
    BY <1>7, <2>1, <2>2, TrafficCmd
<1>8. \A i \in 1 .. 4 : IF i <= Noted THEN undo[i].of = cmd.before.live[Trail[i]]
                        ELSE live[Trail[i]] = cmd.before.live[Trail[i]]
  BY DEF Undoable
<1> QED
  BY <1>1, <1>4, <1>5, <1>6, <1>7, <1>8, TrafficSame DEF Undoable

\* The length of the undo list.
LEMMA UndoLen ==
  ASSUME Types, UndoFits
  PROVE  Len(undo) \in 0 .. 5 /\ (Len(undo) = 0 <=> undo = <<>>)
<1> DEFINE l == Len(undo)
           S == [file : B!Files \cup {"wal"}, of : 0 .. B!Era, items : SUBSET Entries]
<1>1. undo \in Seq(S) /\ l <= 5
  BY DEF Types, DataTypes, UndoFits
<1>2. l \in Nat /\ (l = 0 <=> undo = <<>>)
  BY <1>1, EmptySeq, LenProperties
<1> HIDE DEF l, S
<1>3. l \in 0 .. 5
  BY <1>1, <1>2
<1> QED
  BY <1>2, <1>3 DEF l

\* Until a restore replaces a file, every file is of an earlier era.
LEMMA Earlier ==
  ASSUME Types, UndoFits, Secured, Undoable, Restoring, At(Copying \cup {"stop"})
  PROVE  live["sales"] < B!Era /\ live["clients"] < B!Era /\ live = cmd.before.live
<1>1. cmd.before.live \in [B!Files -> 1 .. B!Era - 1] /\ live \in [B!Files -> 1 .. B!Era]
  BY DEF Secured, Types, DataTypes
<1>2. CASE At(Copying)
  <2>1. live = cmd.before.live
    BY <1>2 DEF Secured
  <2> QED
    BY <1>1, <2>1, EraIs, FilesAre DEF Types
<1>3. CASE At({"stop"})
  <2>1. undo = <<>>
    BY <1>3 DEF UndoFits, At
  <2>2. Noted = 0
    BY <2>1, UndoLen DEF Noted
  <2>3. \A i \in 1 .. 4 : live[Trail[i]] = cmd.before.live[Trail[i]]
    BY <1>3, <2>2 DEF Undoable, At, Reversible
  <2>4. live = cmd.before.live
    BY <1>1, <2>3, TrailIs, FilesAre
  <2> QED
    BY <1>1, <2>4, EraIs, FilesAre DEF Types
<1> QED
  BY <1>2, <1>3 DEF At, Copying

\* Orders and jobs add nothing of the former server to what was brought.
LEMMA TrafficBrought == ASSUME BackupInd, Traffic PROVE Brought'
<1> SUFFICES ASSUME Restoring PROVE Brought'
  BY TrafficSame DEF Brought, Restoring, BackupInd
<1> Types /\ UndoFits /\ Running /\ Undoable /\ Brought /\ Secured
  BY DEF BackupInd
<1>1. /\ live' = live /\ undo' = undo /\ B!Era' = B!Era /\ Noted' = Noted /\ B!Archived' = B!Archived
      /\ cmd.touched => cmd'.touched
      /\ clients \subseteq clients' /\ B!Visible \subseteq B!Visible'
  BY TrafficSame, TrafficEra, TrafficData DEF Noted, B!Archived
<1>2. ASSUME At({"save", "swap"}), cmd.at >= 2, ~cmd'.touched PROVE main' = B!Archived
  BY <1>1, <1>2, TrafficQuiet DEF Brought
<1>3. ASSUME At({"validate", "start", "done"}), ~cmd'.touched
      PROVE  /\ wal'.of \in {B!NoFile, B!Era} /\ conn' \in {B!NoFile, B!Era}
             /\ \A e \in B!Visible' : e[2] = B!Era
  <2>1. live["sales"] = B!Era
    BY <1>3, TrailIs DEF Brought
  <2>2. wal.of \in {B!NoFile, B!Era} /\ conn \in {B!NoFile, B!Era} /\ \A e \in B!Visible : e[2] = B!Era
    BY <1>1, <1>3 DEF Brought
  <2> QED
    BY <2>1, <2>2, TrafficCmd, TrafficData
<1>4. ASSUME At(Copying \cup {"stop", "save", "swap"})
      PROVE  /\ \A e \in B!Shop(wal'.items) : e[2] < B!Era
             /\ \A e \in B!Shop(B!Visible') : e[2] = B!Era => e \in B!Archived
  <2>1. /\ \A e \in B!Shop(wal.items) : e[2] < B!Era
        /\ \A e \in B!Shop(B!Visible) : e[2] = B!Era => e \in B!Archived
    BY <1>4 DEF Brought
  <2>2. live["sales"] < B!Era \/ B!Extension \notin up
    <3>1. CASE At(Copying \cup {"stop"})
      BY <3>1, Earlier
    <3>2. CASE At({"save", "swap"})
      BY <3>2 DEF At, Running
    <3> QED
      BY <1>4, <3>1, <3>2 DEF At
  <2>3. \A e \in B!Shop(wal'.items) : e[2] < B!Era
    BY <2>1, <2>2, TrafficData DEF B!Shop
  <2>4. B!Era \in Nat /\ live["sales"] \in Nat
    BY TrafficEra
  <2>5. ASSUME NEW e \in B!Shop(B!Visible'), e[2] = B!Era PROVE e \in B!Visible
    <3>0. e \in B!Visible \/ (\E o \in Goods : e = <<o, live["sales"]>>)
      BY TrafficData
    <3>1. e \in B!Visible \/ e[2] = live["sales"]
      BY <3>0
    <3>2. B!Extension \notin up => e \in B!Visible
      BY TrafficData
    <3> QED
      BY <2>2, <2>4, <2>5, <3>1, <3>2
  <2> QED
    BY <2>1, <2>3, <2>5 DEF B!Shop
<1>5. /\ At({"save", "swap"}) => \A i \in 1 .. 4 : i < cmd.at => live[Trail[i]] = B!Era
      /\ At({"validate", "start", "done"}) => \A i \in 1 .. 4 : live[Trail[i]] = B!Era
      /\ At({"revert"}) => \A i \in 1 .. 4 : i < Noted => live[Trail[i]] = B!Era
      /\ At({"save"}) /\ cmd.at >= 3 => B!Archived \subseteq clients'
      /\ At({"swap"}) /\ cmd.at >= 3 => B!Archived \subseteq clients'
      /\ \A i \in 1 .. Noted : i = 5 => \A e \in B!Shop(undo[i].items) : e[2] < B!Era
  BY <1>1 DEF Brought
<1> HIDE DEF BackupInd
<1> QED
  BY <1>1, <1>2, <1>3, <1>4, <1>5, TrafficSame DEF Brought

\* ... by orders and jobs, ...
LEMMA TrafficInv == ASSUME BackupInd, Traffic PROVE BackupInd'
<1> Types /\ UndoFits /\ Control /\ Walled /\ Running /\ Secured /\ Unchanged /\ Sold /\ Quiesced /\ Failed
  BY DEF BackupInd
<1>1. Types' /\ Undoable' /\ Brought'
  BY TrafficTypes, TrafficUndoable, TrafficBrought DEF BackupInd
<1>2. /\ live' = live /\ undo' = undo /\ B!Era' = B!Era /\ up' = up /\ archives' = archives
      /\ clients \subseteq clients' /\ B!Visible \subseteq B!Visible'
  BY TrafficEra, TrafficData
<1>3. Control'
  BY TrafficSame DEF Control, Restoring
<1>4. UndoFits'
  BY <1>2, TrafficSame DEF UndoFits, Restoring
<1>5. Walled'
  BY <1>2, TrafficData DEF Walled
<1>6. Running'
  BY <1>2, TrafficSame DEF Running, Restoring
<1>7. Secured'
  BY <1>2, TrafficSame DEF Secured, Restoring, Secure
<1>8. Unchanged'
  BY <1>2, TrafficSame DEF Unchanged, Restoring
<1>9. Sold'
  <2> SUFFICES ASSUME NEW e \in B!Shop(B!Visible'), live["sales"] = live["clients"], e[2] = live["sales"]
               PROVE  e \in clients'
    BY <1>2 DEF Sold, Matched
  <2>1. e \in B!Visible \/ e \in clients
    BY TrafficData
  <2> QED
    BY <1>2, <2>1 DEF Sold, Matched, B!Shop
<1>10. Quiesced'
  <2>1. cmd.kind = "backup" /\ cmd.quiesce /\ At({"snap clients", "snap sales", "snap files"}) => clients' = clients
    BY TrafficData DEF Running
  <2>2. At({"snap sales", "snap files"}) => At({"snap clients", "snap sales", "snap files"})
    BY DEF At
  <2>3. At({"snap files"}) => At({"snap clients", "snap sales", "snap files"})
    BY DEF At
  <2> QED
    BY <1>2, <2>1, <2>2, <2>3, TrafficSame DEF Quiesced
<1>11. Failed'
  BY <1>2, TrafficSame DEF Failed, Restoring
<1> QED
  BY <1>1, <1>3, <1>4, <1>5, <1>6, <1>7, <1>8, <1>9, <1>10, <1>11 DEF BackupInd

-----------------------------------------------------------------------------
\* Files, entries and archives stay as they are.
Still == /\ live' = live /\ clients' = clients /\ main' = main /\ wal' = wal /\ conn' = conn
         /\ undo' = undo /\ archives' = archives

\* Where nothing but the command and the services changes.
LEMMA StillSame ==
  ASSUME Types, Steps, Still
  PROVE  /\ B!Visible' = B!Visible /\ Noted' = Noted /\ PastSales' = PastSales
         /\ PastClients' = PastClients /\ B!Era' = B!Era /\ B!Archived' = B!Archived
         /\ (Walled => Walled') /\ (Sold => Sold')
<1>1. B!Visible' = B!Visible /\ Noted' = Noted /\ B!Era' = B!Era
  BY StepEra DEF Still, B!Visible, Noted
<1>2. PastSales' = PastSales /\ PastClients' = PastClients /\ B!Archived' = B!Archived
  BY <1>1 DEF Still, PastSales, PastClients, B!Archived
<1>3. Walled => Walled'
  BY DEF Still, Walled
<1>4. Sold => Sold'
  BY <1>1 DEF Still, Sold
<1> QED
  BY <1>1, <1>2, <1>3, <1>4

\* ... where a service is stopped or started, ...
LEMMA ServicesInv == ASSUME BackupInd, Switches PROVE BackupInd'
<1> Types /\ UndoFits /\ Control /\ Walled /\ Running /\ Secured /\ Undoable /\ Unchanged
    /\ Brought /\ Sold /\ Quiesced /\ Failed /\ Steps
  BY DEF BackupInd, Steps
<1>1. PICK s \in B!Services : B!StopOne(s) \/ B!RestartOne(s) \/ B!StartOne(s)
  BY DEF Switches
<1>2. Still /\ cmd' = [cmd EXCEPT !.todo = @ \ {s}] /\ s \in cmd.todo
  BY <1>1 DEF B!StopOne, B!RestartOne, B!StartOne, Still, B!Calm, B!ToStop, B!ToRun
<1>3. /\ cmd'.kind = cmd.kind /\ cmd'.pc = cmd.pc /\ cmd'.quiesce = cmd.quiesce
      /\ cmd'.activate = cmd.activate /\ cmd'.running = cmd.running /\ cmd'.todo = cmd.todo \ {s}
      /\ cmd'.snap = cmd.snap /\ cmd'.at = cmd.at /\ cmd'.failing = cmd.failing
      /\ cmd'.before = cmd.before /\ cmd'.sold = cmd.sold /\ cmd'.had = cmd.had
      /\ cmd'.dead = cmd.dead /\ cmd'.stuck = cmd.stuck /\ cmd'.touched = cmd.touched
  BY <1>2 DEF CmdType, Types
<1>4. (\A pcs : At(pcs)' = At(pcs)) /\ Restoring' = Restoring
  BY <1>3 DEF At, Restoring
<1>5. Types' /\ Walled' /\ Sold'
  BY <1>2, StepTypes, StillSame
<1>6. Control'
  BY <1>3, <1>4 DEF Control
<1>7. UndoFits'
  BY <1>2, <1>3, <1>4 DEF Still, UndoFits
<1>8. Running'
  BY <1>1, <1>2, <1>3, <1>4 DEF Running, B!StopOne, B!RestartOne, B!StartOne, At, Control, Copying
<1>9. Secured'
  BY <1>2, <1>3, <1>4, StillSame DEF Secured, Secure, Still
<1>10. Undoable'
  BY <1>2, <1>3, <1>4, StillSame DEF Undoable, Still
<1>11. Unchanged' /\ Failed'
  BY <1>2, <1>3, <1>4, StillSame DEF Unchanged, Failed, Still
<1>12. Brought'
  BY <1>2, <1>3, <1>4, StillSame DEF Brought, Still
<1>13. Quiesced'
  BY <1>2, <1>3, <1>4, StillSame DEF Quiesced, Still
<1> QED
  BY <1>5, <1>6, <1>7, <1>8, <1>9, <1>10, <1>11, <1>12, <1>13 DEF BackupInd

\* ... and by each of the other steps.
LEMMA StoppedInv == ASSUME BackupInd, B!Stopped PROVE BackupInd'
<1> Types /\ UndoFits /\ Control /\ Walled /\ Running /\ Secured /\ Undoable /\ Unchanged
    /\ Brought /\ Sold /\ Quiesced /\ Failed /\ Steps
  BY DEF BackupInd, Steps, Copies
<1>1. Still /\ up' = up /\ cmd.pc = "stop" /\ cmd.todo = {} /\ cmd.kind \in {"backup", "restore"}
  BY DEF B!Stopped, Still, B!Calm, Control, Types, CmdType
<1>2. Types' /\ Walled' /\ Sold'
  BY <1>1, StepTypes, StillSame
<1>3. undo = <<>> /\ Len(undo) = 0
  BY <1>1, UndoLen DEF UndoFits, At
<1>4. CASE cmd.kind = "backup"
  <2>1. cmd' = [cmd EXCEPT !.pc = "snap clients"]
    BY <1>4 DEF B!Stopped
  <2>2. /\ cmd'.kind = "backup" /\ cmd'.pc = "snap clients" /\ cmd'.quiesce = cmd.quiesce
        /\ cmd'.todo = {} /\ ~Restoring /\ ~Restoring'
    BY <1>1, <1>4, <2>1 DEF Types, CmdType, Restoring
  <2>3. Running'
    BY <1>1, <1>4, <2>2 DEF Running, At
  <2> QED
    BY <1>1, <1>2, <1>3, <2>2, <2>3, StillSame DEF BackupInd, Control, UndoFits, Secured, Undoable, Unchanged,
      Brought, Quiesced, Failed, At, Copying, Still
<1>5. CASE cmd.kind = "restore"
  <2> DEFINE b == [live |-> live, sales |-> B!Shop(B!Visible), clients |-> clients]
             t == conn # B!NoFile
  <2>1. cmd' = [cmd EXCEPT !.pc = "save", !.at = 1, !.before = b, !.touched = t]
    BY <1>5 DEF B!Stopped
  <2>2. b.live = live /\ b.sales = B!Shop(B!Visible) /\ b.clients = clients
    OBVIOUS
  <2>3. t <=> conn # B!NoFile
    OBVIOUS
  <2> HIDE DEF b, t
  <2>4. /\ cmd'.kind = "restore" /\ cmd'.pc = "save" /\ cmd'.quiesce = cmd.quiesce
        /\ cmd'.todo = {} /\ cmd'.at = 1 /\ cmd'.before = b /\ cmd'.touched = t
        /\ cmd'.running = cmd.running /\ cmd'.sold = cmd.sold /\ cmd'.had = cmd.had
    BY <1>1, <1>5, <2>1 DEF Types, CmdType
  <2>5. Restoring /\ Restoring' /\ up = {} /\ ~cmd.quiesce /\ B!Era' = B!Era /\ Noted = 0
    BY <1>1, <1>3, <1>5, <2>4, StillSame DEF Restoring, Running, At, Control, Noted
  <2>6. live = cmd.before.live /\ cmd.before.live \in [B!Files -> 1 .. B!Era - 1]
    BY <1>1, <2>5, Earlier DEF At, Copying, Secured
  <2>7. Control'
    BY <2>4, <2>5 DEF Control, At, Copying
  <2>8. UndoFits'
    BY <1>1, <1>3, <2>4, <2>5 DEF UndoFits, At, Still
  <2>9. Running'
    BY <1>1, <2>4, <2>5 DEF Running, At, Copying
  <2>10. Secured'
    BY <1>1, <2>2, <2>4, <2>5, <2>6 DEF Secured, Secure, At, Copying, Still
  <2>11. Undoable'
    <3>1. PastSales = B!Visible /\ PastClients = clients
      BY <2>5 DEF PastSales, PastClients, B!Visible
    <3>2. B!Shop(B!Visible) \subseteq B!Visible
      BY DEF B!Shop
    <3> QED
      BY <1>1, <1>3, <2>2, <2>3, <2>4, <2>5, <3>1, <3>2, StillSame, TrailIs
      DEF Undoable, At, Reversible, Still, Sold
  <2>12. Unchanged' /\ Failed' /\ Quiesced'
    BY <1>1, <2>4 DEF Unchanged, Failed, Quiesced, At, Copying, Still
  <2>13. Brought'
    BY <1>1, <2>4, <2>5, StillSame DEF Brought, At, Copying, Still
  <2> QED
    BY <1>2, <2>7, <2>8, <2>9, <2>10, <2>11, <2>12, <2>13 DEF BackupInd
<1> QED
  BY <1>1, <1>4, <1>5

LEMMA SnapInv == ASSUME BackupInd, B!SnapClients \/ B!SnapSales \/ B!SnapFiles PROVE BackupInd'
<1> Types /\ UndoFits /\ Control /\ Walled /\ Running /\ Secured /\ Undoable /\ Unchanged
    /\ Brought /\ Sold /\ Quiesced /\ Failed /\ Steps
  BY DEF BackupInd, Steps, Copies
<1>1. Still /\ up' = up /\ cmd.pc \in {"snap clients", "snap sales", "snap files"}
  BY DEF B!SnapClients, B!SnapSales, B!SnapFiles, Still, B!Calm
<1>2. Types' /\ Walled' /\ Sold'
  BY <1>1, StepTypes, StillSame
<1>3. \/ /\ cmd.pc = "snap clients" /\ cmd'.pc = "snap sales" /\ cmd'.snap.clients = clients
         /\ cmd'.todo = cmd.todo
      \/ /\ cmd.pc = "snap sales" /\ cmd'.pc = "snap files" /\ cmd'.snap.clients = cmd.snap.clients
         /\ cmd'.snap.sales = B!Visible /\ cmd'.todo = cmd.todo
      \/ /\ cmd.pc = "snap files" /\ cmd'.pc = "restart" /\ cmd'.snap.clients = cmd.snap.clients
         /\ cmd'.snap.sales = cmd.snap.sales /\ cmd'.snap.of = B!Range(live)
         /\ cmd'.todo = IF cmd.kind = "backup" THEN cmd.running ELSE {}
  <2>1. CASE B!SnapClients
    BY <2>1 DEF B!SnapClients, Types, CmdType
  <2>2. CASE B!SnapSales
    BY <2>2 DEF B!SnapSales, Types, CmdType
  <2>3. CASE B!SnapFiles
    BY <2>3 DEF B!SnapFiles, Types, CmdType
  <2> QED
    BY <2>1, <2>2, <2>3
<1>4. /\ cmd'.kind = cmd.kind /\ cmd'.quiesce = cmd.quiesce
      /\ cmd'.activate = cmd.activate /\ cmd'.running = cmd.running
      /\ cmd'.failing = cmd.failing
      /\ cmd'.before = cmd.before /\ cmd'.sold = cmd.sold /\ cmd'.had = cmd.had
      /\ cmd'.stuck = cmd.stuck /\ cmd'.touched = cmd.touched
  <2>1. CASE B!SnapClients
    BY <2>1 DEF B!SnapClients, Types, CmdType
  <2>2. CASE B!SnapSales
    BY <2>2 DEF B!SnapSales, Types, CmdType
  <2>3. CASE B!SnapFiles
    BY <2>3 DEF B!SnapFiles, Types, CmdType
  <2> QED
    BY <2>1, <2>2, <2>3
<1>5. Restoring' = Restoring /\ At(Copying) /\ At(Copying)'
  BY <1>1, <1>3, <1>4 DEF At, Restoring, Copying
<1>6. Control'
  BY <1>3, <1>4, <1>5 DEF Control, At, Copying, Restoring
<1>7. UndoFits'
  BY <1>1, <1>3, <1>4 DEF Still, UndoFits, At
<1>8. Running'
  BY <1>1, <1>3, <1>4, <1>5 DEF Running, At, Copying
<1>9. Secured'
  <2> SUFFICES ASSUME Restoring PROVE Secured'
    BY <1>5 DEF Secured
  <2>1. /\ cmd.before.live \in [B!Files -> 1 .. B!Era - 1] /\ live = cmd.before.live
        /\ cmd.sold \subseteq B!Visible /\ cmd.had \subseteq clients
        /\ At({"snap sales", "snap files"}) => cmd.had \subseteq cmd.snap.clients
        /\ At({"snap files"}) => cmd.sold \subseteq cmd.snap.sales
    BY <1>5 DEF Secured
  <2>2. cmd'.had \subseteq cmd'.snap.clients
    BY <1>3, <1>4, <2>1 DEF At
  <2>3. cmd'.pc \in {"snap files", "restart"} => cmd'.sold \subseteq cmd'.snap.sales
    BY <1>3, <1>4, <2>1 DEF At
  <2>4. cmd'.pc \in {"snap sales", "snap files", "restart"}
    BY <1>3
  <2> QED
    BY <1>1, <1>4, <2>1, <2>2, <2>3, <2>4, StillSame DEF Secured, At, Copying, Still
<1>10. Undoable'
  BY <1>3 DEF Undoable, At, Reversible
<1>11. Unchanged' /\ Failed'
  BY <1>1, <1>3, <1>4, <1>5, StillSame DEF Unchanged, Failed, Still, At
<1>12. Brought'
  <2>1. At(Copying \cup {"stop", "save", "swap"})
    BY <1>1 DEF At, Copying
  <2> QED
    BY <1>1, <1>3, <1>4, <1>5, <2>1, StillSame DEF Brought, Still, At
<1>13. Quiesced'
  <2>1. ASSUME cmd.kind = "backup", cmd.quiesce, cmd.pc = "snap files" PROVE Pure(cmd'.snap)
    <3>1. Matched(cmd.snap.sales, live["sales"], live["clients"], cmd.snap.clients)
      BY <2>1 DEF Quiesced, At
    <3>2. live["sales"] \in B!Range(live) /\ live["clients"] \in B!Range(live)
      BY FilesAre DEF B!Range, Types, DataTypes
    <3> QED
      BY <1>3, <2>1, <3>1, <3>2 DEF Pure, Matched
  <2>2. ASSUME cmd.kind = "backup", cmd.quiesce, cmd.pc = "snap sales"
        PROVE  Matched(cmd'.snap.sales, live["sales"], live["clients"], clients)
    BY <1>3, <2>2 DEF Sold
  <2> QED
    BY <1>1, <1>3, <1>4, <2>1, <2>2, StillSame DEF Quiesced, Still, At
<1> QED
  BY <1>2, <1>6, <1>7, <1>8, <1>9, <1>10, <1>11, <1>12, <1>13 DEF BackupInd

\* A backup is over, or an idle machine restarts.
LEMMA QuietInv ==
  ASSUME BackupInd, Types', cmd' = B!Quiet, undo' = <<>>, live' = live, clients' = clients,
         B!Visible' = B!Visible, Walled', \A a \in archives' : a.quiesced => Pure(a.snap)
  PROVE  BackupInd'
<1>1. cmd'.kind = "none" /\ cmd'.pc = "done" /\ cmd'.todo = {}
  <2>1. B!Quiet \in CmdType /\ B!Quiet.kind = "none" /\ B!Quiet.pc = "done" /\ B!Quiet.todo = {}
    BY QuietIs DEF BackupInd, Types
  <2> QED
    BY <2>1
<1>2. Len(undo') = 0
  OBVIOUS
<1>3. UndoFits'
  BY <1>1, <1>2 DEF UndoFits, At
<1>4. Sold'
  BY DEF BackupInd, Sold
<1> QED
  BY <1>1, <1>3, <1>4 DEF BackupInd, Control, Running, Secured, Undoable, Unchanged, Brought,
    Quiesced, Failed, At, Restoring, Copying

LEMMA PublishInv == ASSUME BackupInd, B!Publish PROVE BackupInd'
<1> Types /\ UndoFits /\ Control /\ Walled /\ Running /\ Secured /\ Undoable /\ Unchanged
    /\ Brought /\ Sold /\ Quiesced /\ Failed /\ Steps
  BY DEF BackupInd, Steps, Copies
<1>1. /\ live' = live /\ clients' = clients /\ main' = main /\ wal' = wal /\ conn' = conn
      /\ undo' = undo /\ up' = up /\ cmd.pc = "restart" /\ cmd.todo = {} /\ ~cmd.failing
      /\ archives' = archives \cup {[snap |-> cmd.snap, quiesced |-> cmd.quiesce]}
      /\ cmd.kind \in {"backup", "restore"}
  BY DEF B!Publish, B!Calm, Control, Types, CmdType
<1>2. Types' /\ B!Visible' = B!Visible /\ B!Era' = B!Era /\ B!Archived' = B!Archived
  BY <1>1, StepTypes, StepEra DEF B!Visible, B!Archived
<1>3. undo = <<>> /\ Len(undo) = 0
  BY <1>1, UndoLen DEF UndoFits, At
<1>4. Walled' /\ Sold'
  BY <1>1, <1>2 DEF Walled, Sold
<1>5. \A a \in archives' : a.quiesced => Pure(a.snap)
  BY <1>1 DEF Quiesced, At, Control, Restoring
<1>6. CASE cmd.kind = "backup"
  BY <1>1, <1>2, <1>3, <1>4, <1>5, <1>6, QuietInv DEF B!Publish
<1>7. CASE cmd.kind = "restore"
  <2>1. /\ cmd'.kind = "restore" /\ cmd'.pc = "stop" /\ cmd'.quiesce = cmd.quiesce
        /\ cmd'.todo = cmd.running /\ cmd'.before = cmd.before /\ cmd'.touched = cmd.touched
        /\ cmd'.running = cmd.running /\ cmd'.sold = cmd.sold /\ cmd'.had = cmd.had
    BY <1>7 DEF B!Publish, Types, CmdType
  <2>2. Restoring /\ Restoring' /\ up = cmd.running /\ ~cmd.quiesce /\ Noted = 0 /\ Noted' = 0
        /\ At(Copying)
    BY <1>1, <1>3, <1>7, <2>1 DEF Restoring, Running, At, Control, Noted, Copying
  <2>3. /\ live = cmd.before.live /\ cmd.before.live \in [B!Files -> 1 .. B!Era - 1]
        /\ cmd.sold \subseteq cmd.snap.sales /\ cmd.had \subseteq cmd.snap.clients
    BY <1>1, <2>2 DEF Secured, At
  <2>4. Secure'
    <3> DEFINE a == [snap |-> cmd.snap, quiesced |-> cmd.quiesce]
    <3>1. a \in archives' /\ a.snap = cmd.snap
      BY <1>1
    <3> HIDE DEF a
    <3> QED
      BY <2>1, <2>3, <3>1 DEF Secure
  <2>5. Control'
    BY <2>1, <2>2 DEF Control, At, Copying
  <2>6. UndoFits'
    BY <1>1, <1>3, <2>1 DEF UndoFits, At
  <2>7. Running'
    BY <1>1, <2>1, <2>2 DEF Running, At, Copying
  <2>8. Secured'
    BY <1>2, <2>1, <2>3, <2>4 DEF Secured, At, Copying
  <2>9. Undoable'
    <3>1. PastSales' = B!Visible /\ PastClients' = clients
      BY <1>1, <1>2, <2>2 DEF PastSales, PastClients, B!Visible
    <3>2. cmd.before.sales \subseteq B!Visible /\ cmd.before.clients \subseteq clients
      BY <2>2 DEF Unchanged
    <3> QED
      BY <1>1, <1>3, <2>1, <2>2, <2>3, <3>1, <3>2 DEF Undoable, At, Sold
  <2>10. Unchanged' /\ Failed' /\ Quiesced'
    BY <1>5, <2>1 DEF Unchanged, Failed, Quiesced, At, Copying
  <2>11. Brought'
    BY <1>1, <1>2, <2>1, <2>2 DEF Brought, At
  <2> QED
    BY <1>2, <1>4, <2>5, <2>6, <2>7, <2>8, <2>9, <2>10, <2>11 DEF BackupInd
<1> QED
  BY <1>1, <1>6, <1>7

\* A backup that fails, or one that fails before it is published in a restore.
LEMMA FailsInv == ASSUME BackupInd, B!GiveUp \/ B!BackupFails PROVE BackupInd'
<1> Types /\ UndoFits /\ Control /\ Walled /\ Running /\ Secured /\ Undoable /\ Unchanged
    /\ Brought /\ Sold /\ Quiesced /\ Failed /\ Steps
  BY DEF BackupInd, Steps, Copies
<1>1. /\ Still /\ up' = up /\ cmd.pc \in {"stop", "snap clients", "snap sales", "snap files", "restart"}
      /\ cmd.kind \in {"backup", "restore"} /\ (cmd.pc = "stop" => cmd.kind = "backup")
  BY DEF B!GiveUp, B!BackupFails, Still, B!Calm, Control, Types, CmdType
<1>2. Types' /\ Walled' /\ Sold' /\ B!Visible' = B!Visible /\ B!Era' = B!Era
  BY <1>1, StepTypes, StillSame
<1>3. undo = <<>> /\ Len(undo) = 0
  BY <1>1, UndoLen DEF UndoFits, At
<1>4. CASE cmd' = B!Quiet
  BY <1>1, <1>2, <1>3, <1>4, QuietInv DEF Still, Quiesced
<1> DEFINE t == IF cmd.kind = "backup" THEN cmd.running ELSE {}
<1>5. \/ cmd' = B!Quiet
      \/ cmd' = [cmd EXCEPT !.pc = "failed"] /\ cmd.kind = "restore"
      \/ cmd' = [cmd EXCEPT !.pc = "restart", !.failing = TRUE, !.todo = t]
  BY <1>1 DEF B!GiveUp, B!BackupFails, B!Over
<1>6. t \subseteq cmd.running /\ (cmd.kind = "restore" => t = {})
  OBVIOUS
<1> HIDE DEF t
<1>7. ASSUME cmd' # B!Quiet
      PROVE  /\ cmd'.kind = cmd.kind /\ cmd'.quiesce = cmd.quiesce
             /\ cmd'.activate = cmd.activate /\ cmd'.running = cmd.running
             /\ cmd'.before = cmd.before /\ cmd'.sold = cmd.sold /\ cmd'.had = cmd.had
             /\ cmd'.stuck = cmd.stuck /\ cmd'.touched = cmd.touched
             /\ \/ cmd'.pc = "failed" /\ cmd.kind = "restore" /\ cmd'.todo = cmd.todo
                \/ cmd'.pc = "restart" /\ cmd'.failing /\ cmd'.todo = t
  <2>1. CASE cmd' = [cmd EXCEPT !.pc = "failed"] /\ cmd.kind = "restore"
    BY <2>1 DEF Types, CmdType
  <2>2. CASE cmd' = [cmd EXCEPT !.pc = "restart", !.failing = TRUE, !.todo = t]
    BY <2>2 DEF Types, CmdType
  <2> QED
    BY <1>5, <1>7, <2>1, <2>2
<1>8. CASE cmd' # B!Quiet
  <2> USE <1>1, <1>7, <1>8
  <2>1. Restoring' = Restoring /\ (Restoring => At(Copying))
    BY DEF At, Restoring, Copying
  <2>2. Control'
    BY <1>6, <2>1 DEF Control, At, Copying, Restoring
  <2>3. UndoFits'
    BY <1>3 DEF Still, UndoFits, At
  <2>4. Running'
    BY <2>1 DEF Running, At, Copying, Restoring
  <2>5. Restoring => /\ cmd.before.live \in [B!Files -> 1 .. B!Era - 1] /\ live = cmd.before.live
                     /\ cmd.sold \subseteq B!Visible /\ cmd.had \subseteq clients
    BY <2>1 DEF Secured
  <2>6. Secured'
    BY <1>2, <2>1, <2>5 DEF Secured, At, Still
  <2>7. Undoable'
    BY DEF Undoable, At, Reversible
  <2>8. Unchanged' /\ Failed'
    BY <1>2, <2>1, <2>5 DEF Unchanged, Failed, Still
  <2>9. Brought'
    <3>1. Restoring => At(Copying \cup {"stop", "save", "swap"})
      BY <2>1 DEF At, Copying
    <3> QED
      BY <2>1, <3>1, StillSame DEF Brought, Still, At
  <2>10. Quiesced'
    BY DEF Quiesced, Still, At
  <2> QED
    BY <1>2, <2>2, <2>3, <2>4, <2>6, <2>7, <2>8, <2>9, <2>10 DEF BackupInd
<1> QED
  BY <1>4, <1>8

LEMMA SaveInv == ASSUME BackupInd, B!Save PROVE BackupInd'
<1> Types /\ UndoFits /\ Control /\ Walled /\ Running /\ Secured /\ Undoable /\ Unchanged
    /\ Brought /\ Sold /\ Quiesced /\ Failed /\ Steps
  BY DEF BackupInd, Steps, Replaces
<1>1. /\ live' = live /\ clients' = clients /\ main' = main /\ wal' = wal /\ conn' = conn
      /\ archives' = archives /\ up' = up /\ cmd.pc = "save" /\ cmd' = [cmd EXCEPT !.pc = "swap"]
  BY DEF B!Save, B!Calm, B!Go
<1>2. Types' /\ B!Visible' = B!Visible /\ B!Era' = B!Era /\ B!Archived' = B!Archived
  BY <1>1, StepTypes, StepEra DEF B!Visible, B!Archived
<1>3. /\ cmd'.kind = cmd.kind /\ cmd'.pc = "swap" /\ cmd'.quiesce = cmd.quiesce
      /\ cmd'.todo = cmd.todo /\ cmd'.before = cmd.before /\ cmd'.touched = cmd.touched
      /\ cmd'.running = cmd.running /\ cmd'.sold = cmd.sold /\ cmd'.had = cmd.had /\ cmd'.at = cmd.at
  BY <1>1 DEF Types, CmdType
<1>4. Restoring /\ Restoring'
  BY <1>1, <1>3 DEF UndoFits, At, Restoring
<1>5. PICK n \in 1 .. 4 :
        /\ n = cmd.at /\ Len(undo) = n - 1 /\ Len(undo') = n
        /\ \A i \in 1 .. n - 1 : undo'[i] = undo[i]
        /\ undo'[n] = [file |-> Trail[n], of |-> live[Trail[n]],
                       items |-> IF n = 1 THEN main ELSE IF n = 2 THEN clients ELSE {}]
  BY SaveIs
<1>6. undo'[n].file = Trail[n] /\ undo'[n].of = live[Trail[n]]
      /\ undo'[n].items = IF n = 1 THEN main ELSE IF n = 2 THEN clients ELSE {}
  BY <1>5
<1>7. PastSales' = PastSales /\ PastClients' = PastClients
  <2>1. Noted = n - 1 /\ Noted' = n
    BY <1>5 DEF Noted
  <2>2. n >= 2 => undo'[1] = undo[1]
    BY <1>5
  <2>3. n >= 3 => undo'[2] = undo[2]
    BY <1>5
  <2>4. PastSales' = PastSales
    BY <1>1, <1>6, <2>1, <2>2 DEF PastSales
  <2>5. PastClients' = PastClients
    BY <1>1, <1>6, <2>1, <2>3 DEF PastClients
  <2> QED
    BY <2>4, <2>5
<1>8. Walled'
  <2>1. live[Trail[n]] # B!NoFile
    BY TrailIs DEF Types, DataTypes, B!NoFile
  <2>2. ASSUME NEW i \in 1 .. n PROVE undo'[i].of # B!NoFile
    <3>1. CASE i = n
      BY <1>6, <2>1, <3>1
    <3>2. CASE i # n
      <4>1. i \in 1 .. n - 1 /\ i < 5
        BY <3>2
      <4> QED
        BY <1>5, <4>1 DEF Walled
    <3> QED
      BY <3>1, <3>2
  <2>3. (\A i \in 1 .. Len(undo') : undo'[i].of # B!NoFile)
    BY <1>5, <2>2
  <2> QED
    BY <1>1, <2>3 DEF Walled
<1>9. Sold'
  BY <1>1, <1>2 DEF Sold
<1>10. Control'
  BY <1>3, <1>4 DEF Control, At, Copying, Restoring
<1>11. UndoFits'
  BY <1>1, <1>3, <1>4, <1>5, <1>6 DEF UndoFits, At
<1>12. Running'
  BY <1>1, <1>3 DEF Running, At, Copying
<1>13. Secured'
  BY <1>1, <1>2, <1>3, <1>4 DEF Secured, Secure, At, Copying
<1>14. Undoable'
  <2>1. \A i \in 1 .. 4 : IF i <= n THEN undo'[i].of = cmd.before.live[Trail[i]]
                          ELSE live[Trail[i]] = cmd.before.live[Trail[i]]
    <3>1. At(Reversible) /\ Noted = n - 1
      BY <1>1, <1>5 DEF At, Reversible, Noted
    <3>2. \A i \in 1 .. 4 : IF i <= n - 1 THEN undo[i].of = cmd.before.live[Trail[i]]
                            ELSE live[Trail[i]] = cmd.before.live[Trail[i]]
      BY <1>4, <3>1 DEF Undoable
    <3> SUFFICES ASSUME NEW i \in 1 .. 4
                 PROVE  IF i <= n THEN undo'[i].of = cmd.before.live[Trail[i]]
                        ELSE live[Trail[i]] = cmd.before.live[Trail[i]]
      OBVIOUS
    <3>3. CASE i <= n - 1
      <4>1. i \in 1 .. n - 1
        BY <3>3
      <4>2. undo'[i].of = cmd.before.live[Trail[i]]
        BY <1>5, <3>2, <3>3, <4>1
      <4> QED
        BY <3>3, <4>2
    <3>4. CASE i = n
      <4>1. live[Trail[n]] = cmd.before.live[Trail[n]]
        BY <3>2, <3>4
      <4> QED
        BY <1>6, <3>4, <4>1
    <3>5. CASE i > n
      BY <3>2, <3>5
    <3> QED
      BY <3>3, <3>4, <3>5
  <2> QED
    BY <1>1, <1>3, <1>4, <1>5, <1>7, <2>1 DEF Undoable, At, Reversible, Noted
<1>15. Unchanged' /\ Failed' /\ Quiesced'
  BY <1>1, <1>3, <1>4 DEF Unchanged, Failed, Quiesced, At, Copying, Restoring
<1>16. Brought'
  BY <1>1, <1>2, <1>3, <1>4, <1>5 DEF Brought, At, Noted
<1> QED
  BY <1>2, <1>8, <1>9, <1>10, <1>11, <1>12, <1>13, <1>14, <1>15, <1>16 DEF BackupInd

LEMMA SwapInv == ASSUME BackupInd, B!Swap PROVE BackupInd'
<1> Types /\ UndoFits /\ Control /\ Walled /\ Running /\ Secured /\ Undoable /\ Unchanged
    /\ Brought /\ Sold /\ Quiesced /\ Failed /\ Steps
  BY DEF BackupInd, Steps, Replaces
<1>1. /\ archives' = archives /\ up' = up /\ cmd.pc = "swap" /\ conn' = conn
  BY DEF B!Swap
<1>2. PICK n \in 1 .. 4 :
        /\ n = cmd.at /\ Len(undo) = n /\ undo' = undo
        /\ live' = [live EXCEPT ![Trail[n]] = B!Era]
        /\ main' = IF n = 1 THEN B!Archived ELSE main
        /\ clients' = IF n = 2 THEN B!Archived ELSE clients
        /\ wal' = wal
        /\ cmd' = [cmd EXCEPT !.pc = "save", !.at = n + 1]
  BY SwapIs
<1>3. /\ cmd'.kind = cmd.kind /\ cmd'.pc = "save" /\ cmd'.quiesce = cmd.quiesce
      /\ cmd'.todo = cmd.todo /\ cmd'.before = cmd.before /\ cmd'.touched = cmd.touched
      /\ cmd'.running = cmd.running /\ cmd'.sold = cmd.sold /\ cmd'.had = cmd.had /\ cmd'.at = n + 1
  BY <1>2 DEF Types, CmdType
<1>4. Restoring /\ Restoring' /\ Noted = n /\ Noted' = n /\ B!Era' = B!Era /\ B!Archived' = B!Archived
  BY <1>1, <1>2, <1>3, StepEra DEF UndoFits, At, Restoring, Noted, B!Archived
<1>5. Types'
  BY StepTypes
<1>6. Walled'
  BY <1>2 DEF Walled
<1>7. PastSales' = PastSales /\ PastClients' = PastClients
  <2>1. PastSales' = PastSales
    BY <1>2, <1>4 DEF PastSales
  <2>2. PastClients' = PastClients
    BY <1>2, <1>4 DEF PastClients
  <2> QED
    BY <2>1, <2>2
<1>8. \A i \in 1 .. 4 : live'[Trail[i]] = IF i = n THEN B!Era ELSE live[Trail[i]]
  <2>1. live \in [B!Files -> 1 .. B!Era] /\ live' = [live EXCEPT ![Trail[n]] = B!Era]
    BY <1>2 DEF Types, DataTypes
  <2>2. ASSUME NEW i \in 1 .. 4 PROVE live'[Trail[i]] = IF i = n THEN B!Era ELSE live[Trail[i]]
    <3>1. Trail[i] \in B!Files /\ (Trail[i] = Trail[n] <=> i = n)
      BY TrailIs
    <3> QED
      BY <2>1, <3>1
  <2> QED
    BY <2>2
<1>9. \A i \in 1 .. 4 : IF i <= n THEN undo[i].of = cmd.before.live[Trail[i]]
                        ELSE live[Trail[i]] = cmd.before.live[Trail[i]]
  BY <1>1, <1>4 DEF Undoable, At, Reversible
<1>10. Control'
  BY <1>3, <1>4 DEF Control, At, Copying, Restoring
<1>11. UndoFits'
  BY <1>1, <1>2, <1>3, <1>4 DEF UndoFits, At
<1>12. Running'
  BY <1>1, <1>3 DEF Running, At, Copying
<1>13. Secured'
  BY <1>1, <1>3, <1>4 DEF Secured, Secure, At, Copying
<1>14. Undoable'
  <2>1. \A i \in 1 .. 4 : i > n => live'[Trail[i]] = cmd.before.live[Trail[i]]
    BY <1>8, <1>9
  <2> QED
    BY <1>1, <1>2, <1>3, <1>4, <1>7, <1>9, <2>1 DEF Undoable, At, Reversible
<1>15. Unchanged' /\ Failed' /\ Quiesced'
  BY <1>1, <1>3, <1>4 DEF Unchanged, Failed, Quiesced, At, Copying, Restoring
<1>16. /\ \A i \in 1 .. 4 : i < n => live[Trail[i]] = B!Era
       /\ n >= 2 /\ ~cmd.touched => main = B!Archived
       /\ n >= 3 => B!Archived \subseteq clients
       /\ \A e \in B!Shop(wal.items) : e[2] < B!Era
       /\ \A e \in B!Shop(B!Visible) : e[2] = B!Era => e \in B!Archived
       /\ \A i \in 1 .. n : i = 5 => \A e \in B!Shop(undo[i].items) : e[2] < B!Era
  BY <1>1, <1>2, <1>4 DEF Brought, At
<1>17. B!Era \in Nat /\ \A e \in B!Shop(wal.items) : e[2] # B!Era
  BY <1>16, StepEra
<1>18. \A e \in B!Shop(B!Visible') : e[2] = B!Era => e \in B!Archived
  BY <1>2, <1>16, <1>17 DEF B!Shop, B!Visible
<1>19. Brought'
  <2>1. \A i \in 1 .. 4 : i < n + 1 => live'[Trail[i]] = B!Era
    BY <1>8, <1>16
  <2>2. ~cmd.touched => main' = B!Archived
    BY <1>2, <1>16
  <2>3. n + 1 >= 3 => B!Archived \subseteq clients'
    BY <1>2, <1>16
  <2> QED
    BY <1>2, <1>3, <1>4, <1>16, <1>18, <2>1, <2>2, <2>3 DEF Brought, At
<1>20. Sold'
  <2>1. CASE n = 1
    <3>1. live'["sales"] = B!Era /\ live'["clients"] = cmd.before.live["clients"]
      BY <1>8, <1>9, <2>1, TrailIs
    <3>2. cmd.before.live["clients"] # B!Era
      <4>1. cmd.before.live \in [B!Files -> 1 .. B!Era - 1] /\ "clients" \in B!Files
        BY <1>4, FilesAre DEF Secured
      <4>2. cmd.before.live["clients"] \in 1 .. B!Era - 1 /\ B!Era \in Nat
        BY <4>1, StepEra
      <4> QED
        BY <4>2
    <3> QED
      BY <3>1, <3>2 DEF Sold, Matched
  <2>2. CASE n = 2
    <3>1. live'["sales"] = B!Era /\ clients' = B!Archived
      BY <1>2, <1>8, <1>16, <2>2, TrailIs
    <3> QED
      BY <1>18, <3>1 DEF Sold, Matched
  <2>3. CASE n \in {3, 4}
    <3>1. live'["sales"] = live["sales"] /\ live'["clients"] = live["clients"]
      BY <1>8, <2>3, TrailIs
    <3>2. clients' = clients /\ B!Visible' = B!Visible
      BY <1>2, <2>3 DEF B!Visible
    <3> QED
      BY <3>1, <3>2 DEF Sold
  <2> QED
    BY <2>1, <2>2, <2>3
<1> QED
  BY <1>5, <1>6, <1>10, <1>11, <1>12, <1>13, <1>14, <1>15, <1>19, <1>20 DEF BackupInd

LEMMA ClearInv == ASSUME BackupInd, B!Clear PROVE BackupInd'
<1> Types /\ UndoFits /\ Control /\ Walled /\ Running /\ Secured /\ Undoable /\ Unchanged
    /\ Brought /\ Sold /\ Quiesced /\ Failed /\ Steps
  BY DEF BackupInd, Steps, Replaces
<1>1. /\ live' = live /\ clients' = clients /\ main' = main /\ conn' = conn
      /\ archives' = archives /\ up' = up /\ cmd.pc = "save" /\ wal' = B!Absent
  BY DEF B!Clear
<1>2. /\ Len(undo) = 4 /\ Len(undo') = 5 /\ cmd.kind = "restore" /\ cmd.at = 5
      /\ \A i \in 1 .. 4 : undo'[i] = undo[i]
      /\ undo'[5] = [file |-> "wal", of |-> wal.of, items |-> wal.items]
      /\ cmd' = [cmd EXCEPT !.pc = "validate"]
  BY ClearIs
<1>3. /\ cmd'.kind = cmd.kind /\ cmd'.pc = "validate" /\ cmd'.quiesce = cmd.quiesce
      /\ cmd'.todo = cmd.todo /\ cmd'.before = cmd.before /\ cmd'.touched = cmd.touched
      /\ cmd'.running = cmd.running /\ cmd'.sold = cmd.sold /\ cmd'.had = cmd.had
  BY <1>2 DEF Types, CmdType
<1>4. Restoring /\ Restoring' /\ Noted = 4 /\ Noted' = 5 /\ B!Era' = B!Era /\ B!Archived' = B!Archived
  BY <1>2, <1>3, StepEra DEF Restoring, Noted, B!Archived
<1>5. Types'
  BY StepTypes
<1>6. undo'[5].file = "wal" /\ undo'[5].of = wal.of /\ undo'[5].items = wal.items
      /\ undo'[1] = undo[1] /\ undo'[2] = undo[2] /\ wal'.of = B!NoFile /\ wal'.items = {}
  BY <1>1, <1>2 DEF B!Absent
<1>7. PastSales' = PastSales /\ PastClients' = PastClients /\ B!Visible' = main
  BY <1>1, <1>4, <1>6 DEF PastSales, PastClients, B!Visible
<1>8. Walled'
  <2>1. \A i \in 1 .. 4 : undo'[i].of # B!NoFile
    BY <1>2 DEF Walled
  <2>2. undo'[5].of = B!NoFile => undo'[5].items = {}
    BY <1>6 DEF Walled
  <2> QED
    BY <1>2, <1>6, <2>1, <2>2 DEF Walled
<1>9. Sold'
  BY <1>1, <1>7 DEF Sold, Matched, B!Visible, B!Shop
<1>10. Control'
  BY <1>3, <1>4 DEF Control, At, Copying, Restoring
<1>11. UndoFits'
  <2>1. \A i \in 1 .. 5 : undo'[i].file = Trail[i]
    <3>1. \A i \in 1 .. 4 : undo[i].file = Trail[i]
      BY <1>2 DEF UndoFits
    <3> QED
      BY <1>2, <1>6, <3>1, TrailIs
  <2> QED
    BY <1>2, <1>3, <1>4, <2>1 DEF UndoFits, At
<1>12. Running'
  BY <1>1, <1>3 DEF Running, At, Copying
<1>13. Secured'
  BY <1>1, <1>3, <1>4 DEF Secured, Secure, At, Copying
<1>14. Undoable'
  <2>1. \A i \in 1 .. 4 : undo'[i].of = cmd.before.live[Trail[i]]
    BY <1>1, <1>2, <1>4 DEF Undoable, At, Reversible
  <2> QED
    BY <1>1, <1>3, <1>4, <1>7, <2>1 DEF Undoable, At, Reversible
<1>15. Unchanged' /\ Failed' /\ Quiesced'
  BY <1>1, <1>3, <1>4 DEF Unchanged, Failed, Quiesced, At, Copying, Restoring
<1>16. Brought'
  <2>1. /\ \A i \in 1 .. 4 : live[Trail[i]] = B!Era
        /\ ~cmd.touched => main = B!Archived
        /\ \A e \in B!Shop(wal.items) : e[2] < B!Era
    BY <1>1, <1>2, <1>4 DEF Brought, At
  <2>2. ~cmd.touched => conn = B!NoFile
    BY <1>1, <1>4 DEF Undoable, At, Reversible
  <2>3. ~cmd.touched => \A e \in B!Visible' : e[2] = B!Era
    BY <1>7, <2>1 DEF B!Archived
  <2>4. \A i \in 1 .. 5 : i = 5 => \A e \in B!Shop(undo'[i].items) : e[2] < B!Era
    BY <1>6, <2>1
  <2> QED
    BY <1>1, <1>3, <1>4, <1>6, <2>1, <2>2, <2>3, <2>4 DEF Brought, At, Copying
<1> QED
  BY <1>5, <1>8, <1>9, <1>10, <1>11, <1>12, <1>13, <1>14, <1>15, <1>16 DEF BackupInd

LEMMA FinishInv == ASSUME BackupInd, B!Validate \/ B!Complete PROVE BackupInd'
<1> Types /\ UndoFits /\ Control /\ Walled /\ Running /\ Secured /\ Undoable /\ Unchanged
    /\ Brought /\ Sold /\ Quiesced /\ Failed /\ Steps
  BY DEF BackupInd, Steps, Replaces
<1>1. Still /\ up' = up /\ cmd.pc \in {"validate", "start"}
  BY DEF B!Validate, B!Complete, Still, B!Calm
<1>2. Types' /\ Walled' /\ Sold'
  BY <1>1, StepTypes, StillSame
<1>3. Restoring /\ Noted = 5
  BY <1>1 DEF UndoFits, At, Restoring, Noted
<1>4. /\ cmd'.kind = cmd.kind /\ cmd'.quiesce = cmd.quiesce /\ cmd'.activate = cmd.activate
      /\ cmd'.before = cmd.before /\ cmd'.touched = cmd.touched
      /\ cmd'.running = cmd.running /\ cmd'.sold = cmd.sold /\ cmd'.had = cmd.had
      /\ \/ cmd.pc = "validate" /\ cmd'.pc = "start" /\ cmd'.todo = B!ToStart
         \/ cmd.pc = "start" /\ cmd'.pc = "done" /\ cmd'.todo = {} /\ cmd.todo = {}
  <2>1. CASE B!Validate
    <3> DEFINE t == B!ToStart
    <3>1. cmd' = [cmd EXCEPT !.pc = "start", !.todo = t] /\ cmd.pc = "validate"
      BY <2>1 DEF B!Validate
    <3> HIDE DEF t
    <3>2. /\ cmd'.kind = cmd.kind /\ cmd'.quiesce = cmd.quiesce /\ cmd'.activate = cmd.activate
          /\ cmd'.before = cmd.before /\ cmd'.touched = cmd.touched
          /\ cmd'.running = cmd.running /\ cmd'.sold = cmd.sold /\ cmd'.had = cmd.had
          /\ cmd'.pc = "start" /\ cmd'.todo = t
      BY <3>1 DEF Types, CmdType
    <3> QED
      BY <3>1, <3>2 DEF t
  <2>2. CASE B!Complete
    BY <2>2 DEF B!Complete, B!Go, Types, CmdType
  <2> QED
    BY <2>1, <2>2
<1>5. Restoring'
  BY <1>3, <1>4 DEF Restoring
<1>6. Control'
  BY <1>3, <1>4, <1>5 DEF Control, At, Copying, Restoring, B!ToStart
<1>7. UndoFits'
  BY <1>1, <1>3, <1>4, <1>5 DEF UndoFits, At, Still, Noted
<1>8. Running'
  BY <1>1, <1>3, <1>4, <1>5 DEF Running, At, Copying, B!ToStart
<1>9. Secured'
  BY <1>1, <1>3, <1>4, <1>5, StillSame DEF Secured, Secure, At, Copying, Still
<1>10. Undoable'
  BY <1>1, <1>3, <1>4, <1>5, StillSame DEF Undoable, At, Reversible, Still
<1>11. Unchanged' /\ Failed' /\ Quiesced'
  BY <1>1, <1>3, <1>4, <1>5 DEF Unchanged, Failed, Quiesced, At, Copying, Still, Restoring
<1>12. Brought'
  BY <1>1, <1>3, <1>4, <1>5, StillSame DEF Brought, At, Copying, Still
<1> QED
  BY <1>2, <1>6, <1>7, <1>8, <1>9, <1>10, <1>11, <1>12 DEF BackupInd

LEMMA RestoreFailsInv == ASSUME BackupInd, B!RestoreFails PROVE BackupInd'
<1> Types /\ UndoFits /\ Control /\ Walled /\ Running /\ Secured /\ Undoable /\ Unchanged
    /\ Brought /\ Sold /\ Quiesced /\ Failed /\ Steps
  BY DEF BackupInd, Steps, Undoes
<1>1. /\ Still /\ cmd.pc \in {"stop", "save", "swap", "validate", "start"} /\ up' = up \ cmd.running
      /\ cmd.kind = "restore"
  BY DEF B!RestoreFails, Still, B!Calm
<1>2. Types' /\ Walled' /\ Sold'
  BY <1>1, StepTypes, StillSame
<1> DEFINE b == cmd.pc \in {"save", "swap"}
<1>3. cmd' = [cmd EXCEPT !.pc = "revert", !.failing = b]
  BY DEF B!RestoreFails
<1> HIDE DEF b
<1>4. /\ cmd'.kind = cmd.kind /\ cmd'.pc = "revert" /\ cmd'.quiesce = cmd.quiesce
      /\ cmd'.todo = cmd.todo /\ cmd'.before = cmd.before /\ cmd'.touched = cmd.touched
      /\ cmd'.running = cmd.running /\ cmd'.sold = cmd.sold /\ cmd'.had = cmd.had
  BY <1>3 DEF Types, CmdType
<1>5. Restoring /\ Restoring' /\ up' = {}
  <2>1. up \subseteq cmd.running
    BY <1>1 DEF Running, At, Restoring, Control
  <2> QED
    BY <1>1, <1>4, <2>1 DEF Restoring
<1>6. Control'
  BY <1>4, <1>5 DEF Control, At, Copying, Restoring
<1>7. UndoFits'
  BY <1>1, <1>4, <1>5 DEF UndoFits, At, Still
<1>8. Running'
  BY <1>4, <1>5 DEF Running, At, Copying
<1>9. Secured'
  BY <1>1, <1>4, <1>5, StillSame DEF Secured, Secure, At, Copying, Still
<1>10. Undoable'
  BY <1>1, <1>4, <1>5, StillSame DEF Undoable, At, Reversible, Still
<1>11. Unchanged' /\ Failed' /\ Quiesced'
  BY <1>1, <1>4, <1>5 DEF Unchanged, Failed, Quiesced, At, Copying, Still, Restoring
<1>12. Brought'
  <2>1. \A i \in 1 .. 4 : i < Noted => live[Trail[i]] = B!Era
    <3>1. CASE cmd.pc = "stop"
      <4>1. Noted = 0
        BY <3>1, UndoLen DEF UndoFits, At, Noted
      <4> QED
        BY <4>1
    <3>2. CASE cmd.pc = "save"
      <4>1. Noted = cmd.at - 1 /\ cmd.at \in 1 .. 5
        BY <3>2 DEF UndoFits, At, Noted, Types, CmdType
      <4>2. \A i \in 1 .. 4 : i < cmd.at => live[Trail[i]] = B!Era
        BY <1>5, <3>2 DEF Brought, At
      <4> QED
        BY <4>1, <4>2
    <3>3. CASE cmd.pc = "swap"
      BY <1>5, <3>3 DEF UndoFits, At, Noted, Brought
    <3>4. CASE cmd.pc \in {"validate", "start"}
      BY <1>5, <3>4 DEF Brought, At
    <3> QED
      BY <1>1, <3>1, <3>2, <3>3, <3>4
  <2> QED
    BY <1>1, <1>4, <1>5, <2>1, StillSame DEF Brought, At, Copying, Still
<1> QED
  BY <1>2, <1>6, <1>7, <1>8, <1>9, <1>10, <1>11, <1>12 DEF BackupInd

LEMMA RevertInv == ASSUME BackupInd, B!Revert PROVE BackupInd'
<1> Types /\ UndoFits /\ Control /\ Walled /\ Running /\ Secured /\ Undoable /\ Unchanged
    /\ Brought /\ Sold /\ Quiesced /\ Failed /\ Steps
  BY DEF BackupInd, Steps, Undoes
<1>1. cmd.pc = "revert" /\ undo # <<>>
  BY DEF B!Revert
<1>2. PICK n \in 1 .. 5 :
        /\ n = Len(undo) /\ Len(undo') = n - 1 /\ cmd.kind = "restore"
        /\ \A i \in 1 .. n - 1 : undo'[i] = undo[i]
        /\ IF n = 5 THEN live' = live ELSE live' = [live EXCEPT ![Trail[n]] = undo[n].of]
        /\ main' = IF n = 1 THEN undo[1].items ELSE main
        /\ clients' = IF n = 2 THEN undo[2].items ELSE clients
        /\ wal' = IF n = 5 THEN [of |-> undo[5].of, items |-> undo[5].items] ELSE wal
        /\ cmd' = cmd /\ up' = up /\ conn' = conn /\ archives' = archives
  <2>1. PICK n \in 1 .. 5 : n = Len(undo)
    BY <1>1, UndoLast
  <2> QED
    BY <2>1, RevertIs
<1>3. Restoring /\ Restoring' /\ Noted = n /\ Noted' = n - 1 /\ B!Era' = B!Era /\ B!Archived' = B!Archived
      /\ B!Era \in Nat
  BY <1>2, StepEra DEF Restoring, Noted, B!Archived
<1>4. Types'
  BY StepTypes
<1>5. \A i \in 1 .. 4 : IF i <= n THEN undo[i].of = cmd.before.live[Trail[i]]
                        ELSE live[Trail[i]] = cmd.before.live[Trail[i]]
  BY <1>1, <1>3 DEF Undoable, At, Reversible
<1>6. \A i \in 1 .. 4 : live'[Trail[i]] = IF i = n THEN cmd.before.live[Trail[i]] ELSE live[Trail[i]]
  <2> SUFFICES ASSUME NEW i \in 1 .. 4
               PROVE  live'[Trail[i]] = IF i = n THEN cmd.before.live[Trail[i]] ELSE live[Trail[i]]
    OBVIOUS
  <2>1. live \in [B!Files -> 1 .. B!Era]
    BY DEF Types, DataTypes
  <2>2. CASE n = 5
    BY <1>2, <2>2
  <2>3. CASE n # 5
    <3>1. Trail[i] \in B!Files /\ Trail[n] \in B!Files /\ (Trail[i] = Trail[n] <=> i = n)
      BY <2>3, TrailIs
    <3>2. undo[n].of = cmd.before.live[Trail[n]]
      BY <1>5, <2>3
    <3>3. live' = [live EXCEPT ![Trail[n]] = undo[n].of]
      BY <1>2, <2>3
    <3> QED
      BY <2>1, <3>1, <3>2, <3>3
  <2> QED
    BY <2>2, <2>3
<1>7. /\ n = 5 => wal'.of = undo[5].of /\ wal'.items = undo[5].items
      /\ n # 5 => wal' = wal
  BY <1>2
<1>8. PastSales' = PastSales
  <2>1. n >= 2 => undo'[1] = undo[1]
    BY <1>2
  <2> QED
    BY <1>2, <1>3, <1>7, <2>1 DEF PastSales
<1>9. PastClients' = PastClients
  <2>1. n >= 3 => undo'[2] = undo[2]
    BY <1>2
  <2> QED
    BY <1>2, <1>3, <2>1 DEF PastClients
<1>10. Walled'
  <2>1. wal'.of = B!NoFile => wal'.items = {}
    BY <1>2, <1>7 DEF Walled
  <2>2. ASSUME NEW i \in 1 .. n - 1 PROVE undo'[i].of # B!NoFile
    <3>1. i \in 1 .. Len(undo) /\ i < 5 /\ undo'[i] = undo[i]
      BY <1>2
    <3> QED
      BY <3>1 DEF Walled
  <2>3. \A i \in 1 .. Len(undo') : undo'[i].of # B!NoFile
    BY <1>2, <2>2
  <2> QED
    BY <2>1, <2>3 DEF Walled
<1>11. Control' /\ Running'
  BY <1>2 DEF Control, Running, At, Restoring
<1>12. UndoFits'
  <2>1. \A i \in 1 .. n - 1 : undo'[i].file = Trail[i]
    BY <1>2 DEF UndoFits
  <2> QED
    BY <1>1, <1>2, <1>3, <2>1 DEF UndoFits, At
<1>13. Secured'
  BY <1>1, <1>2, <1>3 DEF Secured, Secure, At, Copying
<1>14. Undoable'
  <2>1. \A i \in 1 .. 4 : IF i <= n - 1 THEN undo'[i].of = cmd.before.live[Trail[i]]
                          ELSE live'[Trail[i]] = cmd.before.live[Trail[i]]
    <3> SUFFICES ASSUME NEW i \in 1 .. 4
                 PROVE  IF i <= n - 1 THEN undo'[i].of = cmd.before.live[Trail[i]]
                        ELSE live'[Trail[i]] = cmd.before.live[Trail[i]]
      OBVIOUS
    <3>1. CASE i <= n - 1
      <4>1. i \in 1 .. n - 1
        BY <3>1
      <4>2. undo'[i].of = cmd.before.live[Trail[i]]
        BY <1>2, <1>5, <3>1, <4>1
      <4> QED
        BY <3>1, <4>2
    <3>2. CASE i > n - 1
      BY <1>5, <1>6, <3>2
    <3> QED
      BY <3>1, <3>2
  <2> QED
    BY <1>1, <1>2, <1>3, <1>8, <1>9, <2>1 DEF Undoable, At, Reversible
<1>15. Unchanged' /\ Failed' /\ Quiesced'
  BY <1>1, <1>2, <1>3 DEF Unchanged, Failed, Quiesced, At, Copying, Restoring
<1>16. \A i \in 1 .. 4 : i < n => live[Trail[i]] = B!Era
  BY <1>1, <1>3 DEF Brought, At
<1>17. Brought'
  <2>1. \A i \in 1 .. 4 : i < n - 1 => live'[Trail[i]] = B!Era
    BY <1>6, <1>16
  <2>2. cmd'.pc = "revert" /\ \A i \in 1 .. Noted' : i # 5
    <3>1. cmd'.pc = "revert"
      BY <1>1, <1>2
    <3>2. n \in 1 .. 5 /\ Noted' = n - 1
      BY <1>3
    <3> QED
      BY <3>1, <3>2
  <2> QED
    BY <1>3, <2>1, <2>2 DEF Brought, At, Copying
<1>18. Sold'
  <2>1. CASE n = 5
    <3>1. live' = live /\ clients' = clients /\ live["sales"] = B!Era
      BY <1>2, <1>16, <2>1, TrailIs
    <3>2. \A e \in B!Shop(undo[5].items) : e[2] < B!Era
      BY <1>3, <2>1 DEF Brought
    <3>3. \A e \in B!Shop(B!Visible') : e[2] = B!Era => e \in B!Shop(B!Visible)
      BY <1>2, <1>3, <1>7, <2>1, <3>2 DEF B!Visible, B!Shop
    <3> QED
      BY <3>1, <3>3 DEF Sold, Matched
  <2>2. CASE n \in {3, 4}
    <3>1. live'["sales"] = live["sales"] /\ live'["clients"] = live["clients"]
      BY <1>6, <2>2, TrailIs
    <3>2. clients' = clients /\ B!Visible' = B!Visible
      BY <1>2, <1>7, <2>2 DEF B!Visible
    <3> QED
      BY <3>1, <3>2 DEF Sold
  <2>3. CASE n = 2
    <3>1. live'["sales"] = B!Era /\ live'["clients"] = cmd.before.live["clients"]
      BY <1>6, <1>16, <2>3, TrailIs
    <3>2. cmd.before.live["clients"] # B!Era
      <4>1. cmd.before.live \in [B!Files -> 1 .. B!Era - 1] /\ "clients" \in B!Files
        BY <1>3, FilesAre DEF Secured
      <4>2. cmd.before.live["clients"] \in 1 .. B!Era - 1
        BY <4>1
      <4> QED
        BY <1>3, <4>2
    <3> QED
      BY <3>1, <3>2 DEF Sold, Matched
  <2>4. CASE n = 1
    <3>1. /\ live'["sales"] = cmd.before.live["sales"]
          /\ live'["clients"] = cmd.before.live["clients"]
      BY <1>5, <1>6, <2>4, TrailIs
    <3>2. B!Visible' = PastSales /\ clients' = PastClients
      BY <1>2, <1>3, <1>7, <2>4 DEF PastSales, PastClients, B!Visible
    <3>3. Matched(PastSales, cmd.before.live["sales"], cmd.before.live["clients"], PastClients)
      BY <1>1, <1>3 DEF Undoable, At, Reversible
    <3> QED
      BY <3>1, <3>2, <3>3 DEF Sold
  <2> QED
    BY <2>1, <2>2, <2>3, <2>4
<1> QED
  BY <1>4, <1>10, <1>11, <1>12, <1>13, <1>14, <1>15, <1>17, <1>18 DEF BackupInd

\* A command that is not a backup's own end: it fails or is killed.
LEMMA EndsInv ==
  ASSUME BackupInd, Types', ~B!Idle, live' = live, clients' = clients, B!Visible' = B!Visible,
         archives' = archives, undo' = <<>>, B!Era' = B!Era, Walled', Running', Failed',
         cmd'.kind = cmd.kind, cmd'.quiesce = cmd.quiesce, cmd'.todo = cmd.todo,
         cmd'.running = cmd.running, cmd'.before = cmd.before, cmd'.sold = cmd.sold,
         cmd'.had = cmd.had, cmd'.touched = cmd.touched,
         cmd'.pc \in {"failed", "killed"}, cmd.kind = "backup" => cmd'.pc = "killed"
  PROVE  BackupInd'
<1> Types /\ Control /\ Secured /\ Sold /\ Quiesced
  BY DEF BackupInd
<1>1. Len(undo') = 0 /\ Noted' = 0
  BY DEF Noted
<1>2. cmd.kind \in {"backup", "restore"} /\ cmd.pc \in Pcs \ {"begin", "done", "failed", "killed"}
  BY DEF B!Idle, Control, Types, CmdType
<1>3. Restoring' = Restoring
  BY DEF Restoring
<1>4. Control'
  BY <1>2, <1>3 DEF Control, At, Copying, Restoring
<1>5. UndoFits'
  BY <1>1 DEF UndoFits, At
<1>6. Secured'
  <2>1. Restoring => /\ cmd.before.live \in [B!Files -> 1 .. B!Era - 1]
                     /\ Secure \/ live = cmd.before.live
    BY <1>2 DEF Secured, At, Copying, Pcs
  <2>2. Secure => Secure'
    BY DEF Secure
  <2> QED
    BY <1>3, <2>1, <2>2 DEF Secured, At, Copying
<1>7. Undoable' /\ Unchanged'
  BY DEF Undoable, Unchanged, At, Copying, Reversible
<1>8. Brought'
  <2>1. ~\E i \in 1 .. Noted' : TRUE
    BY <1>1
  <2> QED
    BY <2>1 DEF Brought, At, Copying
<1>9. Sold'
  BY DEF Sold
<1>10. Quiesced'
  BY DEF Quiesced, At
<1> QED
  BY <1>4, <1>5, <1>6, <1>7, <1>8, <1>9, <1>10 DEF BackupInd

LEMMA RevertedInv == ASSUME BackupInd, B!Reverted PROVE BackupInd'
<1> Types /\ UndoFits /\ Control /\ Walled /\ Running /\ Secured /\ Undoable /\ Steps
  BY DEF BackupInd, Steps, Undoes
<1>1. PICK dead \in SUBSET B!Services : B!Back(dead)
  BY DEF B!Reverted, Types, CmdType
<1>2. /\ up' = up \cup (cmd.running \ dead) /\ Still /\ undo = <<>> /\ undo' = <<>>
      /\ cmd.pc = "revert" /\ cmd.kind = "restore"
  BY <1>1 DEF B!Back, B!Reverted, B!Calm, Still, UndoFits, At, Restoring
<1>3. /\ cmd'.kind = cmd.kind /\ cmd'.pc = "failed" /\ cmd'.quiesce = cmd.quiesce
      /\ cmd'.todo = cmd.todo /\ cmd'.before = cmd.before /\ cmd'.touched = cmd.touched
      /\ cmd'.running = cmd.running /\ cmd'.sold = cmd.sold /\ cmd'.had = cmd.had
      /\ cmd'.dead = dead
  BY <1>1 DEF B!Back, Types, CmdType
<1>4. Types' /\ Walled' /\ B!Visible' = B!Visible /\ B!Era' = B!Era
  BY <1>2, StepTypes, StillSame
<1>5. Running'
  BY <1>2, <1>3 DEF Running, At, Restoring, Copying
<1>6. Failed'
  <2>1. Noted = 0 /\ Len(undo) = 0
    BY <1>2 DEF Noted
  <2>2. PastSales = B!Visible /\ PastClients = clients
    BY <2>1 DEF PastSales, PastClients, B!Visible
  <2>3. /\ \A i \in 1 .. 4 : live[Trail[i]] = cmd.before.live[Trail[i]]
        /\ cmd.before.clients \subseteq clients
        /\ ~cmd.touched => cmd.before.sales \subseteq B!Visible
    BY <1>2, <2>1, <2>2 DEF Undoable, At, Reversible, Restoring
  <2>4. live = cmd.before.live
    <3>1. live \in [B!Files -> 1 .. B!Era] /\ cmd.before.live \in [B!Files -> 1 .. B!Era - 1]
      BY <1>2 DEF Types, DataTypes, Secured, Restoring
    <3>2. \A f \in B!Files : \E i \in 1 .. 4 : f = Trail[i]
      BY FilesAre, TrailIs
    <3>3. \A f \in B!Files : live[f] = cmd.before.live[f]
      BY <2>3, <3>2
    <3> QED
      BY <3>1, <3>3
  <2> QED
    BY <1>2, <1>3, <1>4, <2>3, <2>4 DEF Failed, Still
<1>7. ~B!Idle
  BY <1>2 DEF B!Idle
<1> QED
  BY <1>2, <1>3, <1>4, <1>5, <1>6, <1>7, EndsInv DEF Still

LEMMA RevertFailsInv == ASSUME BackupInd, B!RevertFails PROVE BackupInd'
<1> Types /\ UndoFits /\ Control /\ Walled /\ Running /\ Steps
  BY DEF BackupInd, Steps, Undoes
<1>1. /\ live' = live /\ clients' = clients /\ main' = main /\ wal' = wal
      /\ archives' = archives /\ undo' = <<>> /\ cmd.pc = "revert" /\ cmd.kind = "restore"
      /\ cmd' = [cmd EXCEPT !.pc = "failed", !.stuck = TRUE]
  BY DEF B!RevertFails, B!Calm, UndoFits, At, Restoring
<1>2. /\ cmd'.kind = cmd.kind /\ cmd'.pc = "failed" /\ cmd'.quiesce = cmd.quiesce
      /\ cmd'.todo = cmd.todo /\ cmd'.before = cmd.before /\ cmd'.touched = cmd.touched
      /\ cmd'.running = cmd.running /\ cmd'.sold = cmd.sold /\ cmd'.had = cmd.had
      /\ cmd'.stuck
  BY <1>1 DEF Types, CmdType
<1>3. Types' /\ B!Era' = B!Era /\ B!Visible' = B!Visible
  BY <1>1, StepTypes, StepEra DEF B!Visible
<1>4. Walled'
  <2>1. Len(undo') = 0
    BY <1>1
  <2> QED
    BY <1>1, <2>1 DEF Walled
<1>5. Running' /\ Failed'
  BY <1>1, <1>2 DEF Running, Failed, At, Restoring, Copying
<1>6. ~B!Idle
  BY <1>1 DEF B!Idle
<1> QED
  BY <1>1, <1>2, <1>3, <1>4, <1>5, <1>6, EndsInv

\* A command that is killed, by the worker or by a restart of the machine.
LEMMA KilledInv ==
  ASSUME BackupInd, Types', ~B!Idle, live' = live, clients' = clients, B!Visible' = B!Visible,
         archives' = archives, undo' = <<>>, B!Era' = B!Era, Walled',
         cmd' = [cmd EXCEPT !.pc = "killed"]
  PROVE  BackupInd'
<1>1. /\ cmd'.kind = cmd.kind /\ cmd'.pc = "killed" /\ cmd'.quiesce = cmd.quiesce
      /\ cmd'.todo = cmd.todo /\ cmd'.before = cmd.before /\ cmd'.touched = cmd.touched
      /\ cmd'.running = cmd.running /\ cmd'.sold = cmd.sold /\ cmd'.had = cmd.had
  BY DEF BackupInd, Types, CmdType
<1>2. Running' /\ Failed'
  BY <1>1 DEF Running, Failed, At, Copying
<1> QED
  BY <1>1, <1>2, EndsInv

LEMMA TimeoutInv == ASSUME BackupInd, B!Timeout PROVE BackupInd'
<1> Types /\ UndoFits /\ Control /\ Walled /\ Quiesced /\ Steps
  BY DEF BackupInd, Steps, Undoes
<1>1. /\ live' = live /\ clients' = clients /\ main' = main /\ wal' = wal
      /\ archives' = archives /\ undo' = <<>> /\ ~B!Idle
      /\ cmd' = B!Quiet \/ cmd' = [cmd EXCEPT !.pc = "killed"]
  BY DEF B!Timeout, B!Calm, B!Over
<1>2. Types' /\ B!Era' = B!Era /\ B!Visible' = B!Visible
  BY <1>1, StepTypes, StepEra DEF B!Visible
<1>3. Walled'
  <2>1. Len(undo') = 0
    BY <1>1
  <2> QED
    BY <1>1, <2>1 DEF Walled
<1>4. \A a \in archives' : a.quiesced => Pure(a.snap)
  BY <1>1 DEF Quiesced
<1>5. CASE cmd' = B!Quiet
  BY <1>1, <1>2, <1>3, <1>4, <1>5, QuietInv
<1>6. CASE cmd' = [cmd EXCEPT !.pc = "killed"]
  BY <1>1, <1>2, <1>3, <1>6, KilledInv
<1> QED
  BY <1>1, <1>5, <1>6

LEMMA RebootInv == ASSUME BackupInd, B!Reboot PROVE BackupInd'
<1> Types /\ UndoFits /\ Control /\ Walled /\ Quiesced /\ Steps
  BY DEF BackupInd, Steps, Undoes
<1>1. /\ live' = live /\ clients' = clients /\ archives' = archives /\ undo' = <<>>
      /\ IF wal.of = B!NoFile THEN main' = main /\ wal' = wal ELSE main' = B!Visible /\ wal' = B!Absent
      /\ cmd' = IF B!Idle THEN B!Quiet ELSE [cmd EXCEPT !.pc = "killed"]
  BY DEF B!Reboot
<1>2. Types' /\ B!Era' = B!Era
  BY StepTypes, StepEra
<1>3. B!Visible' = B!Visible /\ (wal'.of = B!NoFile => wal'.items = {})
  BY <1>1 DEF B!Visible, B!Absent, Walled
<1>4. Walled'
  <2>1. Len(undo') = 0
    BY <1>1
  <2> QED
    BY <1>3, <2>1 DEF Walled
<1>5. \A a \in archives' : a.quiesced => Pure(a.snap)
  BY <1>1 DEF Quiesced
<1>6. CASE B!Idle
  BY <1>1, <1>2, <1>3, <1>4, <1>5, <1>6, QuietInv
<1>7. CASE ~B!Idle
  BY <1>1, <1>2, <1>3, <1>4, <1>7, KilledInv
<1> QED
  BY <1>6, <1>7

\* Every step of the backup keeps the invariant.
LEMMA BackupStep == ASSUME BackupInd, [B!Next]_B!vars PROVE BackupInd'
<1>1. CASE UNCHANGED B!vars
  <2> Types /\ Control /\ UndoFits /\ Walled /\ Running /\ Secured /\ Undoable /\ Unchanged
      /\ Brought /\ Sold /\ Quiesced /\ Failed
    BY DEF BackupInd
  <2> USE <1>1 DEF B!vars
  <2>1. B!Era' = B!Era /\ Entries' = Entries /\ B!Visible' = B!Visible /\ B!Archived' = B!Archived
    BY DEF B!Era, Entries, B!Visible, B!Archived
  <2>2. Noted' = Noted /\ PastSales' = PastSales /\ PastClients' = PastClients
    BY DEF Noted, PastSales, PastClients
  <2>3. Types'
    <3>1. DataTypes'
      BY <2>1 DEF Types, DataTypes
    <3>2. CmdType' = CmdType
      BY <2>1 DEF CmdType, Before
    <3> QED
      BY <3>1, <3>2 DEF Types
  <2>4. Control' /\ UndoFits' /\ Walled' /\ Running'
    <3>1. Control'
      BY DEF Control, At, Restoring
    <3>2. UndoFits'
      BY DEF UndoFits, At, Restoring
    <3>3. Walled'
      BY DEF Walled
    <3>4. Running'
      BY DEF Running, At, Restoring
    <3> QED
      BY <3>1, <3>2, <3>3, <3>4
  <2>5. Secured'
    BY <2>1 DEF Secured, Secure, At, Restoring
  <2>6. Undoable'
    BY <2>1, <2>2 DEF Undoable, At, Restoring
  <2>7. Unchanged' /\ Failed' /\ Sold'
    BY <2>1 DEF Unchanged, Failed, Sold, At, Restoring
  <2>8. Brought'
    BY <2>1, <2>2 DEF Brought, At, Restoring
  <2>9. Quiesced'
    BY <2>1 DEF Quiesced, At
  <2> QED
    BY <2>3, <2>4, <2>5, <2>6, <2>7, <2>8, <2>9 DEF BackupInd
<1>2. CASE B!Next
  <2>1. Traffic \/ Beginning \/ Steps
    BY <1>2, NextIs
  <2>2. CASE Steps
    BY <2>2, ServicesInv, StoppedInv, SnapInv, PublishInv, FailsInv, SaveInv, SwapInv, ClearInv,
       FinishInv, RestoreFailsInv, RevertInv, RevertedInv, RevertFailsInv, TimeoutInv, RebootInv
    DEF Steps, Copies, Replaces, Undoes
  <2> QED
    BY <2>1, <2>2, TrafficInv, BeginInv
<1> QED
  BY <1>1, <1>2

\* The invariant says what Backup states.
LEMMA BackupMeans == ASSUME BackupInd PROVE B!Inv /\ B!QuiescedIsSound
<1> Types /\ UndoFits /\ Control /\ Walled /\ Running /\ Secured /\ Brought /\ Quiesced /\ Failed
  BY DEF BackupInd
<1>1. B!TypeOK
  <2>1. \A i, j \in DOMAIN undo : undo[i].file = undo[j].file => i = j
    <3>1. DOMAIN undo = 1 .. Len(undo) /\ Len(undo) \in 0 .. 5
      BY UndoLen DEF UndoFits
    <3>2. \A i, j \in 1 .. 5 : Trail[i] = Trail[j] => i = j
      BY DEF Trail
    <3> QED
      BY <3>1, <3>2 DEF UndoFits
  <2> QED
    BY <2>1 DEF B!TypeOK, Types, DataTypes, CmdType, Control, Walled, UndoFits, Restoring
<1>2. B!FailedRestoreUndone
  BY DEF B!FailedRestoreUndone, Failed, At, Restoring
<1>3. B!ServicesBack
  BY DEF B!ServicesBack, Running, At, Restoring
<1>4. B!RestoredWhole
  <2> SUFFICES ASSUME cmd.kind = "restore", cmd.pc \in {"start", "done"}, ~cmd.touched
               PROVE  B!Range(live) = {B!Era} /\ \A e \in B!Visible : e[2] = B!Era
    BY DEF B!RestoredWhole
  <2>1. (\A i \in 1 .. 4 : live[Trail[i]] = B!Era) /\ \A e \in B!Visible : e[2] = B!Era
    BY DEF Brought, At, Restoring
  <2>2. B!Range(live) = {B!Era}
    <3>1. DOMAIN live = B!Files
      BY DEF Types, DataTypes
    <3>2. \A f \in B!Files : live[f] = B!Era
      BY <2>1, FilesAre, TrailIs
    <3>3. "sales" \in B!Files
      BY FilesAre
    <3> QED
      BY <3>1, <3>2, <3>3 DEF B!Range
  <2> QED
    BY <2>1, <2>2
<1>5. B!SafetyHolds
  <2>1. Restoring => Secure \/ live = cmd.before.live
    <3>1. cmd.pc \in Pcs
      BY DEF Types, CmdType
    <3> QED
      BY <3>1 DEF Secured, At, Copying, Control, Pcs
  <2> QED
    BY <2>1 DEF B!SafetyHolds, Secure, Restoring
<1>6. B!BotHeldBack
  BY DEF B!BotHeldBack, Running, At, Restoring
<1>7. B!QuiescedIsSound
  BY DEF B!QuiescedIsSound, Quiesced, Pure
<1> QED
  BY <1>1, <1>2, <1>3, <1>4, <1>5, <1>6, <1>7 DEF B!Inv

-----------------------------------------------------------------------------
\* While the AI section's turn lasts the backup stays as it is.
LEMMA BackupHolds == UpkeepSpec => [](turn = "backup" => BackupInd)
<1>1. UpkeepInit => BackupInd
  BY BackupStart DEF UpkeepInit
<1>2. (turn = "backup" => BackupInd) /\ [UpkeepNext]_<<turn, vars, server>>
        => (turn = "backup" => BackupInd)'
  <2> SUFFICES ASSUME turn = "backup" => BackupInd, turn' = "backup",
                      [UpkeepNext]_<<turn, vars, server>>
               PROVE  BackupInd'
    OBVIOUS
  <2>1. BackupInd /\ [B!Next]_B!vars
    BY DEF UpkeepNext, server, B!vars
  <2> QED
    BY <2>1, BackupStep
<1> QED
  BY <1>1, <1>2, PTL DEF UpkeepSpec

\* Whatever steps fail, whenever the tool is killed or the machine restarts, and
\* however often an administrator restores: a restore that fails leaves every file,
\* order, client and service as it was, one that succeeds has replaced every file and
\* holds the bot back, and there is an archive of what was there before
\* (full_backup.py: restore, restore_files, revert).
THEOREM RestoreWhole == UpkeepSpec => []BackupInv
<1>1. (turn = "backup" => BackupInd) => BackupInv
  BY BackupMeans DEF BackupInv
<1> QED
  BY <1>1, BackupHolds, PTL

\* An archive taken with the services stopped holds the client of each order it
\* holds, although a job of a timer may write sales.db meanwhile
\* (full_backup.py: create_backup).
THEOREM QuiescedArchive == UpkeepSpec => []QuiescedIsSound
<1>1. (turn = "backup" => BackupInd) => QuiescedIsSound
  BY BackupMeans DEF QuiescedIsSound
<1> QED
  BY <1>1, BackupHolds, PTL
=============================================================================
