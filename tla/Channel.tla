------------------------------ MODULE Channel ------------------------------
(* The channel manager: a timer drafts posts with an AI model, an            *)
(* administrator approves, edits or rejects them in the bot, the timer puts  *)
(* an approved post into the outbox at its hour and reads back what became   *)
(* of it, and the bot delivers the outbox.  The timer's run is one           *)
(* transaction that holds SQLite's write lock while Telegram and the model   *)
(* answer; the bot, which has 30 seconds to obtain the lock, may by then     *)
(* have shown a message that it cannot record.  Time is counted in units     *)
(* longer than a run of the timer; the bot is one thread.                    *)
EXTENDS Integers, FiniteSets, Sequences, Functions

CONSTANTS
  Channels,    \* channels an administrator may name
  Days,        \* bound: days that get posts, 0 .. Days - 1
  End,         \* bound: the last moment
  DayLength,   \* units of time in a day
  Hours,       \* the hour of each slot of a day, an increasing sequence
  Spacing,     \* units between two posts (two hours)
  Valid,       \* units a check of the permissions is valid (24 hours)
  Recheck,     \* age at which the timer repeats the check (12 hours)
  MaxTries,    \* attempts before a message becomes a dead letter
  Texts,       \* versions of a text, 0 is the draft
  MaxActs,     \* bound: acts of administrators
  MaxFaults    \* bound: failures of Telegram, expired locks, killed runs

ASSUME ChannelAssumption ==
  /\ Days \in Nat \ {0} /\ End \in Nat /\ DayLength \in Nat \ {0}
  /\ Spacing \in Nat \ {0}
  /\ Valid \in Nat /\ Recheck \in Nat /\ MaxTries \in Nat \ {0}
  /\ Hours \in Seq(0 .. DayLength - 1)
  /\ Channels # {} /\ 0 \in Texts /\ MaxActs \in Nat /\ MaxFaults \in Nat

Slots == DOMAIN Hours
Posts == (0 .. Days - 1) \X Slots
NoPost == <<-1, 0>>
Quiet == NoPost       \* no question is open
Naming == <<-2, 0>>   \* the question for the channel is
Never == -Valid
Statuses == {"none", "review", "approved", "queued", "published", "rejected",
             "expired", "failed"}

VARIABLES
  clock,
  cfg,       \* row of channel_manager_config
  post,      \* rows of channel_manager_posts, by day and slot
  row,       \* their rows of the outbox (dedupe channel-post:<id>)
  prompt,    \* users.state of the administrator: Quiet, Naming or the post to edit
  running,   \* is a run of the timer inside its transaction?
  sending,   \* the post whose message the bot has sent and not recorded yet
  shown,     \* what followers saw of a post, in order
  approved,  \* texts of a post an administrator has approved
  excused,   \* posts whose message may be shown again, or later, for a fault
  acts, faults

vars == <<clock, cfg, post, row, prompt, running, sending, shown, approved,
          excused, acts, faults>>
desk == <<clock, running, sending, shown, excused, faults>>

NoRow == [done |-> "none", channel |-> CHOOSE c \in Channels : TRUE,
          text |-> 0, tries |-> 0, at |-> 0]

\* The feature has just been set up: the channel is verified and enabled.
Init ==
  /\ clock = 0 /\ acts = 0 /\ faults = 0
  /\ cfg = [channel |-> CHOOSE c \in Channels : TRUE, verified |-> 0, enabled |-> TRUE]
  /\ post = [p \in Posts |-> [status |-> "none", text |-> 0, updated |-> 0]]
  /\ row = [p \in Posts |-> NoRow]
  /\ prompt = Quiet /\ running = FALSE /\ sending = NoPost
  /\ shown = [p \in Posts |-> <<>>] /\ approved = [p \in Posts |-> {}]
  /\ excused = {}

Today == clock \div DayLength
Hour(p) == p[1] * DayLength + Hours[p[2]]
\* _posting_ready
Ready(g) == g.enabled /\ g.verified > clock - Valid
Marked(p, s) == [post[p] EXCEPT !.status = s, !.updated = clock]

-----------------------------------------------------------------------------
(* The run of the timer.                                                     *)

\* Mutant of Completed: dead letters are not noticed.
CompletedSentOnly ==
  [p \in Posts |->
    IF post[p].status = "queued" /\ row[p].done = "done" THEN Marked(p, "published")
    ELSE post[p]]

\* _complete_outbox: what became of the messages in the queue.
Completed ==
  [p \in Posts |->
    CASE post[p].status = "queued" /\ row[p].done = "done" -> Marked(p, "published")
      [] post[p].status = "queued" /\ row[p].done = "dead" -> Marked(p, "failed")
      [] OTHER -> post[p]]

\* Posts of former days that were not queued in time.
Expired(ps) ==
  [p \in Posts |->
    IF ps[p].status \in {"review", "approved"} /\ p[1] < Today
    THEN [ps[p] EXCEPT !.status = "expired", !.updated = clock] ELSE ps[p]]

\* The posts of today that _stage_approved counts.
Counted(ps) == {p \in Posts : p[1] = Today /\ ps[p].status \in {"queued", "published"}}

\* The first approved post of today whose hour has come, unless another one was
\* queued or published too recently: none or one in a run.
Due(ps) ==
  LET ripe == {p \in Posts : /\ p[1] = Today /\ ps[p].status = "approved"
                             /\ Hour(p) <= clock}
      calm == /\ Cardinality(Counted(ps)) < Cardinality(Slots)
              /\ \A q \in Counted(ps) : clock - ps[q].updated >= Spacing
  IN IF calm THEN {p \in ripe : \A q \in ripe : p[2] <= q[2]} ELSE {}

Queued(ps) ==
  [p \in Posts |->
    IF p \in Due(ps) THEN [ps[p] EXCEPT !.status = "queued", !.updated = clock]
    ELSE ps[p]]

\* INSERT OR IGNORE INTO outbox
Outboxed(ps) ==
  [p \in Posts |->
    IF p \in Due(ps) /\ row[p].done = "none"
    THEN [done |-> "pending", channel |-> cfg.channel, text |-> ps[p].text,
          tries |-> 0, at |-> clock]
    ELSE row[p]]

\* _make_one_draft: the first slot of today that is to come and has no post.
Vacant(ps) ==
  LET free == {p \in Posts : p[1] = Today /\ ps[p].status = "none" /\ Hour(p) > clock}
  IN {p \in free : \A q \in free : p[2] <= q[2]}

Drafted(ps, drafts) ==
  [p \in Posts |->
    IF p \in drafts THEN [status |-> "review", text |-> 0, updated |-> clock]
    ELSE ps[p]]

\* tick: the model may fail, which leaves the slot without a draft.
Work(g) ==
  /\ cfg' = g
  /\ IF Ready(g)
     THEN LET old == Expired(Completed) IN
          /\ row' = Outboxed(old)
          /\ \E drafts \in {{}, Vacant(old)} : post' = Drafted(Queued(old), drafts)
     ELSE post' = Completed /\ row' = row

\* The first UPDATE of a run takes the write lock.
BeginRun ==
  /\ ~running /\ running' = TRUE
  /\ UNCHANGED <<clock, cfg, post, row, prompt, sending, shown, approved, excused,
                 acts, faults>>

Stale == cfg.enabled /\ cfg.verified <= clock - Recheck

EndRun ==
  /\ running /\ running' = FALSE
  /\ Work(IF Stale THEN [cfg EXCEPT !.verified = clock] ELSE cfg)
  /\ UNCHANGED <<clock, prompt, sending, shown, approved, excused, acts, faults>>

\* verify(c) failed: the run ends after _complete_outbox.
EndRunUnverified ==
  /\ running /\ running' = FALSE /\ Stale
  /\ faults < MaxFaults /\ faults' = faults + 1
  /\ post' = Completed
  /\ UNCHANGED <<clock, cfg, row, prompt, sending, shown, approved, excused, acts>>

\* TimeoutStartSec=180, or a restart: nothing of the run remains.
KillRun ==
  /\ running /\ running' = FALSE
  /\ faults < MaxFaults /\ faults' = faults + 1
  /\ UNCHANGED <<clock, cfg, post, row, prompt, sending, shown, approved, excused, acts>>

-----------------------------------------------------------------------------
(* The administrator, handled by the bot: it must be free and have the lock. *)

Act == /\ ~running /\ sending = NoPost
       /\ acts < MaxActs /\ acts' = acts + 1

Verify ==
  /\ Act /\ cfg' = [cfg EXCEPT !.verified = clock]
  /\ UNCHANGED <<desk, post, row, prompt, approved>>

Resume ==
  /\ Act /\ ~cfg.enabled /\ cfg.verified > clock - Valid
  /\ cfg' = [cfg EXCEPT !.enabled = TRUE]
  /\ UNCHANGED <<desk, post, row, prompt, approved>>

\* Messages not sent yet are deleted; their posts stay approved.
Withdrawn(p) == post[p].status = "queued" /\ row[p].done = "pending"

Pause ==
  /\ Act
  /\ cfg' = [cfg EXCEPT !.enabled = FALSE]
  /\ row' = [p \in Posts |-> IF Withdrawn(p) THEN NoRow ELSE row[p]]
  /\ post' = [p \in Posts |->
               IF Withdrawn(p) THEN [post[p] EXCEPT !.status = "approved"] ELSE post[p]]
  /\ UNCHANGED <<desk, prompt, approved>>

AskConfig ==
  /\ Act /\ prompt # Naming /\ prompt' = Naming
  /\ UNCHANGED <<desk, cfg, post, row, approved>>

\* Another channel has to be verified and enabled; the queue is left alone.
Configure(c) ==
  /\ Act /\ prompt = Naming /\ prompt' = Quiet
  /\ cfg' = [channel |-> c, verified |-> Never, enabled |-> FALSE]
  /\ UNCHANGED <<desk, post, row, approved>>

Approve(p) ==
  /\ Act /\ Ready(cfg) /\ post[p].status = "review"
  /\ post' = [post EXCEPT ![p] = Marked(p, "approved")]
  /\ approved' = [approved EXCEPT ![p] = @ \cup {post[p].text}]
  /\ UNCHANGED <<desk, cfg, row, prompt>>

Reject(p) ==
  /\ Act /\ post[p].status \in {"review", "approved"}
  /\ post' = [post EXCEPT ![p] = Marked(p, "rejected")]
  /\ UNCHANGED <<desk, cfg, row, prompt, approved>>

\* Mutant of Editable: any post can be edited.
EditableDraft(p) == post[p].status # "none"

Editable(p) == post[p].status \in {"review", "approved", "rejected"}

AskEdit(p) ==
  /\ Act /\ Editable(p) /\ prompt # p /\ prompt' = p
  /\ UNCHANGED <<desk, cfg, post, row, approved>>

\* Mutant of Edit: the new text needs no approval.
EditKeepsApproval(p, t) ==
  /\ Act /\ prompt = p /\ prompt' = Quiet /\ Editable(p)
  /\ post' = [post EXCEPT ![p] = [@ EXCEPT !.text = t, !.updated = clock]]
  /\ UNCHANGED <<desk, cfg, row, approved>>

\* The answer may come long after the question.
Edit(p, t) ==
  /\ Act /\ prompt = p /\ prompt' = Quiet /\ Editable(p)
  /\ post' = [post EXCEPT ![p] = [status |-> "review", text |-> t, updated |-> clock]]
  /\ UNCHANGED <<desk, cfg, row, approved>>

\* Dead letters are sent again from the panel.
RetryOutbox ==
  /\ ~running /\ acts < MaxActs /\ acts' = acts + 1
  /\ \E p \in Posts : row[p].done = "dead"
  /\ row' = [p \in Posts |-> IF row[p].done = "dead"
                            THEN [row[p] EXCEPT !.done = "pending", !.tries = 0]
                            ELSE row[p]]
  /\ excused' = excused \cup {p \in Posts : row[p].done = "dead"}
  /\ UNCHANGED <<clock, cfg, post, prompt, running, sending, shown, approved, faults>>

-----------------------------------------------------------------------------
(* The bot delivers the outbox.                                              *)

Sendable(p) == row[p].done = "pending" /\ sending = NoPost /\ Ready(cfg)

Sight(p) == [channel |-> row[p].channel, text |-> row[p].text, at |-> clock, staged |-> row[p].at]

\* Telegram shows the message and answers.
Send(p) ==
  /\ Sendable(p) /\ sending' = p
  /\ shown' = [shown EXCEPT ![p] = Append(@, Sight(p))]
  /\ UNCHANGED <<clock, cfg, post, row, prompt, running, approved, excused, acts, faults>>

Recorded(p) == [row EXCEPT ![p].done = "done"]

Record ==
  /\ sending # NoPost /\ ~running
  /\ row' = Recorded(sending) /\ sending' = NoPost
  /\ UNCHANGED <<clock, cfg, post, prompt, running, shown, approved, excused, acts, faults>>

\* "database is locked": neither the success nor a failure is recorded.
Locked ==
  /\ sending # NoPost /\ running
  /\ faults < MaxFaults /\ faults' = faults + 1
  /\ sending' = NoPost /\ excused' = excused \cup {sending}
  /\ UNCHANGED <<clock, cfg, post, row, prompt, running, shown, approved, acts>>

\* Telegram does not answer; the message is shown or not.
SendFails(p) ==
  /\ Sendable(p) /\ ~running
  /\ faults < MaxFaults /\ faults' = faults + 1
  /\ row' = [row EXCEPT ![p].tries = @ + 1,
                        ![p].done = IF row[p].tries + 1 >= MaxTries THEN "dead" ELSE "pending"]
  /\ \/ /\ shown' = [shown EXCEPT ![p] = Append(@, Sight(p))]
        /\ excused' = excused \cup {p}
     \/ UNCHANGED <<shown, excused>>
  /\ UNCHANGED <<clock, cfg, post, prompt, running, sending, approved, acts>>

\* A run of the timer and a call of Telegram are shorter than a unit of time.
Pass ==
  /\ ~running /\ sending = NoPost /\ clock < End /\ clock' = clock + 1
  /\ UNCHANGED <<cfg, post, row, prompt, running, sending, shown, approved, excused,
                 acts, faults>>

Next ==
  \/ BeginRun \/ EndRun \/ EndRunUnverified \/ KillRun
  \/ Verify \/ Resume \/ Pause \/ AskConfig \/ \E c \in Channels : Configure(c)
  \/ \E p \in Posts : \/ Approve(p) \/ Reject(p) \/ AskEdit(p)
                      \/ \E t \in Texts : Edit(p, t)
                      \/ Send(p) \/ SendFails(p)
  \/ RetryOutbox \/ Record \/ Locked \/ Pass

\* The timer runs again two minutes after a run; the bot serves its outbox.
Fairness ==
  /\ WF_vars(BeginRun) /\ WF_vars(EndRun) /\ SF_vars(Record)
  /\ \A p \in Posts : WF_vars(Send(p))

Spec == Init /\ [][Next]_vars /\ Fairness

-----------------------------------------------------------------------------
(* Properties.                                                               *)

Sights == [channel : Channels, text : Texts, at : 0 .. End, staged : 0 .. End]

\* Types; a message in the queue has a row, and a row that waits belongs to a
\* post of the queue, or to a failed one an administrator sends again.
TypeOK ==
  /\ clock \in 0 .. End /\ acts \in 0 .. MaxActs /\ faults \in 0 .. MaxFaults
  /\ cfg \in [channel : Channels, verified : Never .. End, enabled : BOOLEAN]
  /\ post \in [Posts -> [status : Statuses, text : Texts, updated : 0 .. End]]
  /\ \A p \in Posts : /\ Range(shown[p]) \subseteq Sights
                      /\ approved[p] \subseteq Texts
  /\ prompt \in {Quiet, Naming} \cup Posts
  /\ running \in BOOLEAN /\ sending \in Posts \cup {NoPost} /\ excused \subseteq Posts
  /\ \A p \in Posts : /\ post[p].status = "queued" => row[p].done # "none"
                      /\ row[p].done = "pending" => post[p].status \in {"queued", "failed"}

\* The promise of the module: followers see no text that an administrator has
\* not approved, however edits, approvals, pauses and runs of the timer follow
\* each other (channel_manager.py:2).
ApprovedTextOnly ==
  \A p \in Posts : \A i \in DOMAIN shown[p] : shown[p][i].text \in approved[p]

\* A post is shown once, unless an answer was lost, the database stayed locked
\* or an administrator sent a dead letter again; a pause and a resumption do
\* not show it twice.
ShownOnce == \A p \in Posts \ excused : Len(shown[p]) <= 1

\* What the panel says of a post is what happened: a published one was shown, and
\* one that is withheld or failed was not, faults apart.
StatusTrue ==
  \A p \in Posts :
    /\ post[p].status = "published" => shown[p] # <<>>
    /\ /\ post[p].status \notin {"queued", "published"} /\ p \notin excused
       => shown[p] = <<>>

\* Two posts of one day that are delivered without delay are two hours apart,
\* however late they were approved.
Spaced ==
  \A p, q \in Posts \ excused :
    p # q /\ p[1] = q[1] =>
      \A i \in DOMAIN shown[p], j \in DOMAIN shown[q] :
        LET a == shown[p][i]  b == shown[q][j] IN
        a.at = a.staged /\ b.at = b.staged => a.at - b.at >= Spacing \/ b.at - a.at >= Spacing

\* What followers have seen agrees with the posts' approvals, statuses, rows and
\* hours, whatever the timer, the bot and administrators do in between.
ChannelInv == TypeOK /\ ApprovedTextOnly /\ ShownOnce /\ StatusTrue /\ Spaced

\* Nothing shows a post while it is in review, rejected, expired, or withdrawn by
\* a pause.
WithheldNotShown ==
  [][\A p \in Posts :
       post[p].status \in {"review", "approved", "rejected", "expired"}
         => shown'[p] = shown[p]]_vars

\* A queued post is published or failed in the end, unless the channel is paused,
\* its check lapses or it is configured anew.
QueueDrains ==
  \A p \in Posts : post[p].status = "queued" ~> post[p].status # "queued" \/ ~Ready(cfg)
=============================================================================
