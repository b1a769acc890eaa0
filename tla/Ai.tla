--------------------------------- MODULE Ai ---------------------------------
(* AI subscriptions and their use by one customer: orders paid with a        *)
(* receipt or from the wallet, activation codes from a stock, credits with   *)
(* an end date, questions answered in the chat, images and videos made by a  *)
(* worker that a timer starts, and adjustments of balances by administrators.*)
(* The bot and the panel change the database in transactions that exclude    *)
(* each other.  The worker talks to the provider and to Telegram outside a   *)
(* transaction, and charges a job in one transaction after its delivery.     *)
EXTENDS Integers, FiniteSets, Functions

CONSTANTS
  Plans,         \* plans on offer
  PlanKind,      \* Plans -> {"bot", "personal", "ready"}
  Price,         \* price of each version of a plan
  Credits,       \* credits of each version of a bot plan, by kind of request
  Days,          \* units of time a subscription lasts
  Codes,         \* activation codes
  CodePlan,      \* the ready plan a code belongs to
  MaxOrder,      \* bound: orders, numbered as they are placed
  MaxUpdate,     \* bound: questions and media requests, named by update id
  Requests,      \* ids of adjustments (a token of the bot, an id of the panel)
  Costs,         \* prices of a request an administrator may set
  InitPoints, InitWallet,
  MaxActs,       \* bound: commands, other than those that move a paid order on
  MaxFaults,     \* bound: failures of provider and Telegram, kills of the worker
  MaxTime        \* bound: clock

Kinds == {"text", "image", "video"}
Versions == DOMAIN Price
Orders == 1 .. MaxOrder
NoOrder == 0
Updates == 1 .. MaxUpdate
Models == Kinds \X {"own", "default"}   \* of a plan, of the settings

ASSUME AiAssumption ==
  /\ Plans # {} /\ PlanKind \in [Plans -> {"bot", "personal", "ready"}]
  /\ 1 \in Versions /\ Price \in [Versions -> Nat] /\ Credits \in [Versions -> [Kinds -> Nat]]
  /\ Days \in Nat \ {0} /\ CodePlan \in [Codes -> Plans]
  /\ Costs \subseteq Nat /\ InitPoints \in Nat /\ InitWallet \in Nat
  /\ MaxOrder \in Nat /\ MaxUpdate \in Nat /\ MaxActs \in Nat
  /\ MaxFaults \in Nat /\ MaxTime \in Nat

VARIABLES
  clock,
  catalogue,   \* the current version of each plan, 0 when it is not active
  models,      \* models that are chosen and active; their providers have keys
  cost,        \* ai_cost_text, ai_cost_image, ai_cost_video, in points
  order,       \* rows of ai_sale_orders
  code,        \* the order a code of ai_ready_stock was given to
  added,       \* codes in the stock
  sub,         \* rows of ai_sale_subscriptions, by order
  prompt,      \* users.state
  wallet, points,
  task,        \* questions and rows of ai_media_jobs, by update id
  offer,       \* update id in ai_long_requests, 0 without one
  worker,      \* what the media worker does
  adjust,      \* rows of social_admin_adjust_drafts and social_admin_adjustments
  acts, faults

sale == <<catalogue, order, code, added, wallet>>
use == <<task, offer>>
vars == <<clock, catalogue, models, cost, order, code, added, sub, prompt, wallet,
          points, task, offer, worker, adjust, acts, faults>>

Say(at, o) == [at |-> at, order |-> o]
Quiet == Say("quiet", NoOrder)
NoSub == [until |-> 0, left |-> [k \in Kinds |-> 0]]
Idle == [at |-> "idle", job |-> 0]

Init ==
  /\ clock = 0 /\ acts = 0 /\ faults = 0
  /\ catalogue = [p \in Plans |-> 1]
  /\ models = Models \ {<<"video", "default">>}   \* no default model for videos
  /\ cost = [k \in Kinds |-> 1]
  /\ order = [o \in Orders |-> [status |-> "none", plan |-> CHOOSE p \in Plans : TRUE,
                                version |-> 1, mail |-> FALSE, paid |-> "no"]]
  /\ code = [c \in Codes |-> NoOrder] /\ added = {}
  /\ sub = [o \in Orders |-> NoSub] /\ prompt = Quiet
  /\ wallet = InitWallet /\ points = InitPoints
  /\ task = [u \in Updates |-> [kind |-> "none", status |-> "none", model |-> "none",
                                got |-> 0, paid |-> 0]]
  /\ offer = 0 /\ worker = Idle
  /\ adjust = [r \in Requests |-> [status |-> "none", on |-> "points", by |-> 0, at |-> 0]]

Act == acts < MaxActs /\ acts' = acts + 1
Fault == faults < MaxFaults /\ faults' = faults + 1
KindOf(o) == PlanKind[order[o].plan]
Fresh == {u \in Updates : task[u].status = "none" /\ \A v \in Updates : v < u => task[v].status # "none"}

-----------------------------------------------------------------------------
(* Credits, points and models.                                               *)

\* available: the subscriptions with a credit, of which the first to end counts.
Available(s, k) ==
  LET open == {o \in Orders : s[o].until > clock /\ s[o].left[k] > 0}
  IN {o \in open : \A x \in open : s[o].until <= s[x].until}
First(s, k) == CHOOSE o \in Available(s, k) : TRUE
OneLess(row, k) == [row EXCEPT !.left = [row.left EXCEPT ![k] = @ - 1]]
Used(s, k) == [s EXCEPT ![First(s, k)] = OneLess(@, k)]

\* resolved: the plan's own model while it has a credit, else the default one.
Resolved(s, k) == <<k, IF Available(s, k) # {} THEN "own" ELSE "default">>
\* _balance
Solvent(k) == Available(sub, k) # {} \/ points >= cost[k]

-----------------------------------------------------------------------------
(* The shop.                                                                 *)

Choose(p, o) ==
  /\ Act /\ order[o].status = "none" /\ catalogue[p] # 0
  /\ \A x \in Orders : order[x].status = "none" => o <= x
  /\ PlanKind[p] = "ready" =>
       \E c \in added : CodePlan[c] = p /\ code[c] = NoOrder
  /\ PlanKind[p] = "bot" =>
       \A k \in Kinds : Credits[catalogue[p]][k] > 0 => <<k, "own">> \in models
  /\ order' = [order EXCEPT ![o] = [@ EXCEPT !.status = "awaiting_receipt", !.plan = p,
                                             !.version = catalogue[p]]]
  /\ prompt' = Say(IF PlanKind[p] = "personal" THEN "mail" ELSE "receipt", o)
  /\ UNCHANGED <<clock, catalogue, models, cost, code, added, sub, wallet, points, use,
                 worker, adjust, faults>>

SetEmail(o) ==
  /\ Act /\ prompt = Say("mail", o)
  /\ KindOf(o) = "personal" /\ order[o].status = "awaiting_receipt"
  /\ order' = [order EXCEPT ![o].mail = TRUE] /\ prompt' = Say("receipt", o)
  /\ UNCHANGED <<clock, catalogue, models, cost, code, added, sub, wallet, points, use,
                 worker, adjust, faults>>

Receivable(o) ==
  order[o].status = "awaiting_receipt" /\ (KindOf(o) = "personal" => order[o].mail)

StoreReceipt(o) ==
  /\ Act /\ prompt = Say("receipt", o) /\ Receivable(o)
  /\ order' = [order EXCEPT ![o].status = "preview"] /\ prompt' = Quiet
  /\ UNCHANGED <<clock, catalogue, models, cost, code, added, sub, wallet, points, use,
                 worker, adjust, faults>>

Confirm(o) ==
  /\ order[o].status = "preview"
  /\ order' = [order EXCEPT ![o].status = "review"]
  /\ UNCHANGED <<clock, catalogue, models, cost, code, added, sub, prompt, wallet, points,
                 use, worker, adjust, acts, faults>>

Cancel(o) ==
  /\ order[o].status \in {"awaiting_receipt", "preview"}
  /\ order' = [order EXCEPT ![o].status = "cancelled"]
  /\ UNCHANGED <<clock, catalogue, models, cost, code, added, sub, prompt, wallet, points,
                 use, worker, adjust, acts, faults>>

Bought(o) == Credits[order[o].version]

\* Mutant of Unsold: a code that was handed out is offered again.
UnsoldAny(o) == {c \in added : CodePlan[c] = order[o].plan}

\* What a bot plan gives: the snapshot the order took when it was placed.
Unsold(o) == {c \in added : CodePlan[c] = order[o].plan /\ code[c] = NoOrder}

\* _deliver
Deliver(o, means) ==
  \/ /\ KindOf(o) = "bot"
     /\ sub' = [sub EXCEPT ![o] = [until |-> clock + Days, left |-> Bought(o)]]
     /\ order' = [order EXCEPT ![o] = [@ EXCEPT !.status = "fulfilled", !.paid = means]]
     /\ UNCHANGED code
  \/ /\ KindOf(o) = "ready"
     /\ \E c \in Unsold(o) : code' = [code EXCEPT ![c] = o]
     /\ order' = [order EXCEPT ![o] = [@ EXCEPT !.status = "fulfilled", !.paid = means]]
     /\ UNCHANGED sub
  \/ /\ KindOf(o) = "personal"
     /\ order' = [order EXCEPT ![o] = [@ EXCEPT !.status = "activating", !.paid = means]]
     /\ UNCHANGED <<sub, code>>

PayWallet(o) ==
  /\ Act /\ KindOf(o) = "bot" /\ order[o].status = "awaiting_receipt"
  /\ wallet >= Price[order[o].version]
  /\ wallet' = wallet - Price[order[o].version]
  /\ Deliver(o, "wallet") /\ prompt' = Quiet
  /\ UNCHANGED <<clock, catalogue, models, cost, added, points, use, worker, adjust, faults>>

\* admin_decide, from the bot and from the panel
\* Mutant of Approve: the status of the order is not compared.
ApproveAny(o) ==
  /\ order[o].status \in {"preview", "review", "rejected"} /\ Deliver(o, "receipt")
  /\ UNCHANGED <<clock, catalogue, models, cost, added, prompt, wallet, points, use, worker,
                 adjust, acts, faults>>

Approve(o) ==
  /\ order[o].status = "review" /\ Deliver(o, "receipt")
  /\ UNCHANGED <<clock, catalogue, models, cost, added, prompt, wallet, points, use, worker,
                 adjust, acts, faults>>

Reject(o) ==
  /\ order[o].status = "review"
  /\ order' = [order EXCEPT ![o].status = "rejected"]
  /\ UNCHANGED <<clock, catalogue, models, cost, code, added, sub, prompt, wallet, points,
                 use, worker, adjust, acts, faults>>

CompleteActivation(o) ==
  /\ order[o].status = "activating"
  /\ order' = [order EXCEPT ![o].status = "fulfilled"]
  /\ UNCHANGED <<clock, catalogue, models, cost, code, added, sub, prompt, wallet, points,
                 use, worker, adjust, acts, faults>>

\* Administration from the panel: plans, the stock, models, prices.
SavePlan(p, v) ==
  /\ Act /\ catalogue[p] # v /\ catalogue' = [catalogue EXCEPT ![p] = v]
  /\ UNCHANGED <<clock, models, cost, order, code, added, sub, prompt, wallet, points, use,
                 worker, adjust, faults>>

Stock(c) ==
  /\ Act /\ c \notin added /\ PlanKind[CodePlan[c]] = "ready" /\ added' = added \cup {c}
  /\ UNCHANGED <<clock, catalogue, models, cost, order, code, sub, prompt, wallet, points,
                 use, worker, adjust, faults>>

\* A model becomes active or not, a default is chosen or removed.
ToggleModel(m) ==
  /\ Act /\ models' = (models \ {m}) \cup ({m} \ models)
  /\ UNCHANGED <<clock, sale, cost, sub, prompt, points, use, worker, adjust, faults>>

SetCost(k, n) ==
  /\ Act /\ cost[k] # n /\ cost' = [cost EXCEPT ![k] = n]
  /\ UNCHANGED <<clock, sale, models, sub, prompt, points, use, worker, adjust, faults>>

-----------------------------------------------------------------------------
(* Points that come and go elsewhere, and adjustments by administrators.     *)

Award ==
  /\ Act /\ points' = points + 1
  /\ UNCHANGED <<clock, sale, models, cost, sub, prompt, use, worker, adjust, faults>>

Spend ==
  /\ Act /\ points > 0 /\ points' = points - 1
  /\ UNCHANGED <<clock, sale, models, cost, sub, prompt, use, worker, adjust, faults>>

Balance(on) == IF on = "points" THEN points ELSE wallet

\* adminamount: the sum is checked, and kept for ten minutes.
DraftAdjustment(r, on, by) ==
  /\ Act /\ adjust[r].status = "none" /\ Balance(on) + by >= 0
  /\ adjust' = [adjust EXCEPT ![r] = [status |-> "draft", on |-> on, by |-> by, at |-> clock]]
  /\ UNCHANGED <<clock, sale, models, cost, sub, prompt, points, use, worker, faults>>

Affordable(on, by) == Balance(on) + by >= 0

\* adjust_account: checked again when it is applied.

Apply(r, on, by) ==
  /\ Affordable(on, by)
  /\ points' = points + (IF on = "points" THEN by ELSE 0)
  /\ wallet' = wallet + (IF on = "wallet" THEN by ELSE 0)
  /\ adjust' = [adjust EXCEPT ![r] = [status |-> "applied", on |-> on, by |-> by, at |-> clock]]

ConfirmAdjustment(r) ==
  /\ Act /\ adjust[r].status = "draft" /\ adjust[r].at = clock
  /\ Apply(r, adjust[r].on, adjust[r].by)
  /\ UNCHANGED <<clock, catalogue, models, cost, order, code, added, sub, prompt, use,
                 worker, faults>>

\* The panel: an id that was applied already changes nothing.
Adjust(r, on, by) ==
  /\ Act /\ adjust[r].status = "none" /\ Apply(r, on, by)
  /\ UNCHANGED <<clock, catalogue, models, cost, order, code, added, sub, prompt, use,
                 worker, faults>>

-----------------------------------------------------------------------------
(* Questions, answered while the bot waits for the provider.                 *)

\* consume or redeem, after the answer; the row of ai_usage ends the question.
ChargeText(u, t) ==
  /\ IF Available(sub, "text") # {}
     THEN /\ sub' = Used(sub, "text") /\ UNCHANGED points
     ELSE /\ points >= cost["text"] /\ points' = points - cost["text"] /\ UNCHANGED sub
  /\ task' = [task EXCEPT ![u] = [kind |-> "text", status |-> "done", model |-> "none",
                                  got |-> t.got + 1, paid |-> t.paid + 1]]

StartText ==
  /\ Act /\ prompt.at # "chat" /\ Solvent("text") /\ prompt' = Say("chat", NoOrder)
  /\ UNCHANGED <<clock, sale, models, cost, sub, points, use, worker, adjust, faults>>

Ask(u) ==
  /\ Act /\ prompt.at = "chat" /\ u \in Fresh
  /\ Resolved(sub, "text") \in models
  /\ ChargeText(u, task[u])
  /\ UNCHANGED <<clock, sale, models, cost, prompt, offer, worker, adjust, faults>>

\* A long question: asked again whether the answer may come as files.
AskLong(u) ==
  /\ Act /\ prompt.at = "chat" /\ u \in Fresh /\ Solvent("text")
  /\ offer' = u
  /\ task' = [task EXCEPT ![u] = [@ EXCEPT !.kind = "text", !.status = "offered"]]
  /\ UNCHANGED <<clock, sale, models, cost, sub, prompt, points, worker, adjust, faults>>

\* Either button of the last offer; the answer deletes it.
Accept ==
  /\ Act /\ offer # 0 /\ Resolved(sub, "text") \in models
  /\ ChargeText(offer, task[offer]) /\ offer' = 0
  /\ UNCHANGED <<clock, sale, models, cost, prompt, worker, adjust, faults>>

ClearHistory ==
  /\ Act /\ offer # 0 /\ offer' = 0
  /\ UNCHANGED <<clock, sale, models, cost, sub, prompt, points, task, worker, adjust, faults>>

-----------------------------------------------------------------------------
(* Images and videos.                                                        *)

OpenMedia(k) ==
  /\ Act /\ prompt.at # k /\ Resolved(sub, k) \in models /\ Solvent(k)
  /\ prompt' = Say(k, NoOrder)
  /\ UNCHANGED <<clock, sale, models, cost, sub, points, use, worker, adjust, faults>>

SubmitMedia(u) ==
  /\ Act /\ prompt.at \in {"image", "video"} /\ u \in Fresh /\ Solvent(prompt.at)
  /\ task' = [task EXCEPT ![u] = [@ EXCEPT !.kind = prompt.at, !.status = "queued"]]
  /\ prompt' = Quiet
  /\ UNCHANGED <<clock, sale, models, cost, sub, points, offer, worker, adjust, faults>>

Waiting == {u \in Updates : task[u].status \in {"queued", "polling"}}
Next1 == CHOOSE u \in Waiting : \A v \in Waiting : u <= v
After(row, status, got, paid) ==
  [row EXCEPT !.status = status, !.got = row.got + got, !.paid = row.paid + paid]
Fail(u) == [task EXCEPT ![u] = After(@, "failed", 0, 0)]

\* The oldest job: the balance is checked, the provider makes an image, which is
\* then sent, or accepts a video, or nothing works and the job fails.
Create ==
  /\ worker = Idle /\ Waiting # {} /\ task[Next1].status = "queued"
  /\ LET u == Next1  k == task[Next1].kind  m == Resolved(sub, k) IN
     IF ~Solvent(k) \/ m \notin models
     THEN task' = Fail(u) /\ UNCHANGED <<worker, faults>>
     ELSE \/ Fault /\ task' = Fail(u) /\ UNCHANGED worker
          \/ /\ k = "image" /\ worker' = [at |-> "send", job |-> u]
             /\ UNCHANGED <<task, faults>>
          \/ /\ k = "video" /\ UNCHANGED <<worker, faults>>
             /\ task' = [task EXCEPT ![u] = [@ EXCEPT !.status = "polling", !.model = m[2]]]
  /\ UNCHANGED <<clock, sale, models, cost, sub, prompt, points, offer, adjust, acts>>

\* A later run of the timer finds the video ready; until then nothing changes.
Poll ==
  /\ worker = Idle /\ Waiting # {} /\ task[Next1].status = "polling"
  /\ LET u == Next1 IN
     IF <<"video", task[u].model>> \notin models
     THEN task' = Fail(u) /\ UNCHANGED <<worker, faults>>
     ELSE \/ worker' = [at |-> "send", job |-> u] /\ UNCHANGED <<task, faults>>
          \/ Fault /\ task' = Fail(u) /\ UNCHANGED worker
  /\ UNCHANGED <<clock, sale, models, cost, sub, prompt, points, offer, adjust, acts>>

\* Mutant of Send: the charge comes before the delivery.
SendCharged ==
  /\ worker.at = "send"
  /\ \/ /\ worker' = [worker EXCEPT !.at = "charge"]
        /\ task' = [task EXCEPT ![worker.job].paid = @ + 1] /\ UNCHANGED faults
     \/ /\ Fault /\ worker' = Idle
        /\ task' = [task EXCEPT ![worker.job].status = "failed"]
  /\ UNCHANGED <<clock, sale, models, cost, sub, prompt, points, offer, adjust, acts>>

Send ==
  /\ worker.at = "send"
  /\ \/ /\ worker' = [worker EXCEPT !.at = "charge"]
        /\ task' = [task EXCEPT ![worker.job] = After(@, @.status, 1, 0)] /\ UNCHANGED faults
     \/ /\ Fault /\ worker' = Idle
        /\ \E n \in {0, 1} :   \* an answer that is lost may follow a delivery
             task' = [task EXCEPT ![worker.job] = After(@, "failed", n, 0)]
  /\ UNCHANGED <<clock, sale, models, cost, sub, prompt, points, offer, adjust, acts>>

Ended(u, s, paid) ==
  [task EXCEPT ![u] =
     After(@, IF Resolved(s, @.kind) \in models THEN "done" ELSE "failed", 0, paid)]

\* _after_delivery: a credit or points, then the row of ai_usage, for which the
\* model is looked up once more; what fails is not undone.
Charge ==
  /\ worker.at = "charge" /\ worker' = Idle
  /\ LET u == worker.job  k == task[worker.job].kind IN
     \/ /\ Available(sub, k) # {}
        /\ sub' = Used(sub, k) /\ task' = Ended(u, sub', 1) /\ UNCHANGED points
     \/ /\ Available(sub, k) = {} /\ points >= cost[k]
        /\ points' = points - cost[k]
        /\ task' = Ended(u, sub, IF cost[k] = 0 THEN 0 ELSE 1) /\ UNCHANGED sub
     \/ /\ Available(sub, k) = {} /\ points < cost[k]
        /\ task' = Fail(u) /\ UNCHANGED <<sub, points>>
  /\ UNCHANGED <<clock, sale, models, cost, prompt, offer, adjust, acts, faults>>

\* TimeoutStartSec=245, a restart, or a lock of the bot that lasts too long.
Kill ==
  /\ worker # Idle /\ Fault /\ worker' = Idle
  /\ UNCHANGED <<clock, sale, models, cost, sub, prompt, points, use, adjust, acts>>

\* A unit is longer than the day an offer holds; an older one is refused.
Pass ==
  /\ clock < MaxTime /\ clock' = clock + 1 /\ offer' = 0
  /\ UNCHANGED <<sale, models, cost, sub, prompt, points, task, worker, adjust, acts, faults>>

Next ==
  \/ \E o \in Orders :
       \/ \E p \in Plans : Choose(p, o)
       \/ SetEmail(o) \/ StoreReceipt(o) \/ Confirm(o) \/ Cancel(o) \/ PayWallet(o)
       \/ Approve(o) \/ Reject(o) \/ CompleteActivation(o)
  \/ \E p \in Plans, v \in Versions \cup {0} : SavePlan(p, v)
  \/ \E c \in Codes : Stock(c)
  \/ \E m \in Models : ToggleModel(m)
  \/ \E k \in Kinds, n \in Costs : SetCost(k, n)
  \/ Award \/ Spend
  \/ \E r \in Requests :
       \/ ConfirmAdjustment(r)
       \/ \E on \in {"points", "wallet"}, by \in {-1, 1} :
            DraftAdjustment(r, on, by) \/ Adjust(r, on, by)
  \/ StartText \/ Accept \/ ClearHistory
  \/ \E u \in Updates : Ask(u) \/ AskLong(u) \/ SubmitMedia(u)
  \/ \E k \in {"image", "video"} : OpenMedia(k)
  \/ Create \/ Poll \/ Send \/ Charge \/ Kill \/ Pass

Spec == Init /\ [][Next]_vars

-----------------------------------------------------------------------------
(* Properties.                                                               *)

OrderRow == [status : {"none", "awaiting_receipt", "preview", "review", "activating",
                       "fulfilled", "rejected", "cancelled"},
             plan : Plans, version : Versions, mail : BOOLEAN,
             paid : {"no", "wallet", "receipt"}]
SubRow == [until : Nat, left : [Kinds -> Nat]]
TaskRow == [kind : Kinds \cup {"none"},
            status : {"none", "offered", "queued", "polling", "done", "failed"},
            model : {"none", "own", "default"}, got : Nat, paid : Nat]
AdjustRow == [status : {"none", "draft", "applied"}, on : {"points", "wallet"},
              by : Int, at : 0 .. MaxTime]

\* The state is well-formed, and no credit is ever below zero.
TypeOK ==
  /\ clock \in 0 .. MaxTime /\ acts \in 0 .. MaxActs /\ faults \in 0 .. MaxFaults
  /\ catalogue \in [Plans -> Versions \cup {0}] /\ models \subseteq Models
  /\ cost \in [Kinds -> Nat] /\ added \subseteq Codes
  /\ order \in [Orders -> OrderRow] /\ code \in [Codes -> Orders \cup {NoOrder}]
  /\ sub \in [Orders -> SubRow]
  /\ prompt \in [at : {"quiet", "mail", "receipt", "chat", "image", "video"},
                 order : Orders \cup {NoOrder}]
  /\ wallet \in Int /\ points \in Int /\ offer \in Updates \cup {0}
  /\ task \in [Updates -> TaskRow]
  /\ worker \in [at : {"idle", "send", "charge"}, job : Updates \cup {0}]
  /\ adjust \in [Requests -> AdjustRow]

\* What an order gives was paid, in one way and once: the wallet is what it was,
\* less the prices of the orders it paid for, plus the adjustments applied to it.
Credited ==
  SumFunctionOnSet([r \in Requests |-> adjust[r].by],
                   {r \in Requests : adjust[r].status = "applied" /\ adjust[r].on = "wallet"})
Debited ==
  SumFunctionOnSet([o \in Orders |-> Price[order[o].version]],
                   {o \in Orders : order[o].paid = "wallet"})
PaidOnce ==
  /\ \A o \in Orders :
       /\ order[o].status \in {"activating", "fulfilled"} <=> order[o].paid # "no"
       /\ sub[o] # NoSub => order[o].status = "fulfilled" /\ KindOf(o) = "bot"
  /\ wallet = InitWallet + Credited - Debited

\* A code goes to one order, and each fulfilled order for a ready account has one.
CodesHandedOnce ==
  \A o \in Orders :
    Cardinality({c \in Codes : code[c] = o})
      = (IF KindOf(o) = "ready" /\ order[o].status = "fulfilled" THEN 1 ELSE 0)

\* A subscription never holds more than the order bought, whatever becomes of the
\* plan, and all requests paid with credits add up to what is missing.
Spent(k) == Cardinality({u \in Updates : task[u].kind = k /\ task[u].paid > 0})
CreditsAsSold ==
  \A o \in Orders, k \in Kinds :
    sub[o].until # 0 =>
      LET sold == Credits[order[o].version][k]
      IN sub[o].left[k] <= sold /\ sold - sub[o].left[k] <= Spent(k)

\* A request is charged at most once, and never without a result that arrived;
\* what is done has arrived, and a result arrives twice only after a fault.
ChargedForResult ==
  \A u \in Updates :
    /\ task[u].paid <= 1 /\ (task[u].paid = 1 => task[u].got > 0)
    /\ task[u].status = "done" => task[u].got > 0
    /\ task[u].got > 1 => faults > 0

\* Neither points nor the wallet become negative, although questions, jobs, chats,
\* purchases and adjustments spend them between a check and its charge.
BalancesCover == points >= 0 /\ wallet >= 0

\* Orders, codes, subscriptions, wallet and points tell one story, whoever pays,
\* spends, decides or changes a plan in between.
AiInv == TypeOK /\ PaidOnce /\ CodesHandedOnce /\ CreditsAsSold /\ BalancesCover

\* A rejected, cancelled or fulfilled order is final.
Settled ==
  [][\A o \in Orders :
       order[o].status \in {"rejected", "cancelled", "fulfilled"}
         => order'[o] = order[o]]_vars

\* "Nothing was deducted": what the customer reads when a job fails.
FailureIsFree == \A u \in Updates : task[u].status = "failed" => task[u].paid = 0
=============================================================================
