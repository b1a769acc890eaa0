----------------------------- MODULE Catalogue -----------------------------
(* The discovery of films (runtime/film_catalog_pipeline.py, film_catalog.py):*)
(* a run reads the articles of a site in one thread, writes what they offer  *)
(* to film_scan_items, and stages these items for the upload in another.     *)
(* One service starts such a run every day and reads the newest articles     *)
(* only; another one reads the whole archive and takes over a run that is    *)
(* still active, also when the process that began it works on.  Neither      *)
(* takes a lock before it reads what it is going to change.                  *)
EXTENDS Naturals, FiniteSets

CONSTANTS
  Titles,      \* 1, 2, ... in the order in which their articles are published
  Variants,
  ArticleOf,   \* the title a variant belongs to
  Limit,       \* articles a daily run reads: 300 of each of the site's two lists
  Runs,        \* rows of film_scan_runs that matter at a time
  Pipelines,   \* {"daily", "initial"}
  MaxFaults    \* bound: kills, pages that cannot be read, commits that fail

VARIABLES
  newest,   \* the article published last
  page,     \* variants an article offers
  run,      \* film_scan_runs: [status, limit], of which limit 0 is none
  scanned,  \* film_scan_items of each run: [state, entry]
  proc,     \* the processes: [at, run, first, total, place, batch, picked, mid]
  staged,   \* rows of film_variants
  faults

vars == <<newest, page, run, scanned, proc, staged, faults>>

Unseen == [state |-> "none", entry |-> {}]
Idle == [at |-> "off", run |-> 0, first |-> 0, total |-> 0, place |-> 1,
         batch |-> {}, picked |-> FALSE, mid |-> <<>>]
Settled == {"queued", "already_added", "error"}

Init ==
  /\ newest = 0 /\ page = [t \in Titles |-> {}]
  /\ run = [r \in Runs |-> [status |-> "none", limit |-> 0]]
  /\ scanned = [r \in Runs |-> [t \in Titles |-> Unseen]]
  /\ proc = [p \in Pipelines |-> Idle]
  /\ staged = {} /\ faults = 0

Fault == faults < MaxFaults /\ faults' = faults + 1

\* The site publishes an article, and later its files; it takes none back.
Publish ==
  /\ newest + 1 \in Titles /\ newest' = newest + 1
  /\ UNCHANGED <<page, run, scanned, proc, staged, faults>>

Post(v) ==
  /\ ArticleOf[v] <= newest
  /\ page' = [page EXCEPT ![ArticleOf[v]] = @ \cup {v}]
  /\ UNCHANGED <<newest, run, scanned, proc, staged, faults>>

-----------------------------------------------------------------------------
Active == {r \in Runs : run[r].status \in {"queued", "running"}}
Spare == {r \in Runs \ Active : \A p \in Pipelines : proc[p].run # r}
Resumes(p) == p = "initial"
Row(p) == [status |-> "queued", limit |-> IF Resumes(p) THEN 0 ELSE Limit]
Begin(p, r) == proc' = [proc EXCEPT ![p] = [Idle EXCEPT !.at = "reserved", !.run = r]]

\* Is there an active run?  The daily service gives way to it; the other one will
\* take it over.
Look(p) ==
  /\ proc[p].at = "off"
  /\ \/ /\ Active = {} /\ proc' = [proc EXCEPT ![p].at = "looked"]
     \/ /\ Resumes(p)
        /\ \E r \in Active : proc' = [proc EXCEPT ![p].at = "looked", ![p].run = r]
  /\ UNCHANGED <<newest, page, run, scanned, staged, faults>>

\* By now the run may have ended, and its rows may be in other hands.
Resume(p) ==
  LET r == proc[p].run IN
  /\ proc[p].at = "looked" /\ r # 0
  /\ run' = [run EXCEPT ![r] = Row(p)]
  /\ scanned' = [scanned EXCEPT ![r] = [t \in Titles |->
       IF @[t].state = "staging" THEN [@[t] EXCEPT !.state = "discovered"] ELSE @[t]]]
  /\ Begin(p, r)
  /\ UNCHANGED <<newest, page, staged, faults>>

\* By now the other service may have reserved one as well.  The row of a run that
\* is over and in no process's hands is used again.
ReserveRun(p) ==
  /\ proc[p].at = "looked" /\ proc[p].run = 0
  /\ \E r \in Spare :
       /\ \A s \in Spare : r <= s
       /\ run' = [run EXCEPT ![r] = Row(p)]
       /\ scanned' = [scanned EXCEPT ![r] = [t \in Titles |-> Unseen]]
       /\ Begin(p, r)
  /\ UNCHANGED <<newest, page, staged, faults>>

-----------------------------------------------------------------------------
(* The thread that reads                                                     *)

Least(m, n) == IF m < n THEN m ELSE n

\* The run's limit is what the row says now.  The first page of the list tells
\* how many articles there are; without it none is read.
StartScan(p) ==
  LET limit == run[proc[p].run].limit IN
  /\ proc[p].at = "reserved"
  /\ \/ /\ proc' = [proc EXCEPT ![p].at = "scanning", ![p].first = newest,
                   ![p].total = IF limit = 0 THEN newest ELSE Least(newest, limit)]
        /\ UNCHANGED faults
     \/ Fault /\ proc' = [proc EXCEPT ![p].at = "scanning"]
  /\ run' = [run EXCEPT ![proc[p].run].status = "running"]
  /\ UNCHANGED <<newest, page, scanned, staged>>

\* The article at this place of the list, newest first; the list moves on when
\* an article is published, but for the first page, which is at hand.
Listed(p) == IF proc[p].place = 1 THEN proc[p].first ELSE newest + 1 - proc[p].place

\* What the page lists now, one variant for each episode, quality and dubbing;
\* trailers and files without a quality are none.
BuildEntry(t) == page[t]
\* An article's title is written once in a run.
Insert(r, t, state) ==
  IF scanned[r][t] = Unseen
  THEN scanned' = [scanned EXCEPT ![r][t] =
         [state |-> state, entry |-> IF state = "error" THEN {} ELSE BuildEntry(t)]]
  ELSE UNCHANGED scanned

Scan(p, t) ==
  /\ proc[p].at = "scanning" /\ proc[p].place <= proc[p].total /\ t = Listed(p)
  /\ proc' = [proc EXCEPT ![p].place = @ + 1]
  /\ \/ BuildEntry(t) # {} /\ Insert(proc[p].run, t, "discovered") /\ UNCHANGED faults
     \/ BuildEntry(t) = {} /\ UNCHANGED <<scanned, faults>>
     \/ Fault /\ Insert(proc[p].run, t, "error")   \* the article cannot be read
     \/ Fault /\ UNCHANGED scanned                 \* nor the page that lists it
  /\ UNCHANGED <<newest, page, run, staged>>

\* Mutant of EndScan: the run stays active.
EndScanOpen(p) ==
  /\ proc[p].at = "scanning" /\ proc[p].place > proc[p].total
  /\ proc' = [proc EXCEPT ![p].at = "drain", ![p].first = 0, ![p].total = 0, ![p].place = 1]
  /\ UNCHANGED <<newest, page, run, scanned, staged, faults>>

\* The scan comes to the end of what it was to read, or raises.
EndScan(p) ==
  /\ proc[p].at = "scanning"
  /\ \/ /\ proc[p].place > proc[p].total /\ UNCHANGED faults
        /\ run' = [run EXCEPT ![proc[p].run].status = "done"]
     \/ Fault /\ run' = [run EXCEPT ![proc[p].run].status = "failed"]
  /\ proc' = [proc EXCEPT ![p].at = "drain", ![p].first = 0, ![p].total = 0, ![p].place = 1]
  /\ UNCHANGED <<newest, page, scanned, staged>>

-----------------------------------------------------------------------------
(* The thread that stages                                                    *)

Found(p) == {t \in Titles : scanned[proc[p].run][t].state = "discovered"}
Works(p) == proc[p].at \in {"reserved", "scanning", "drain"}
Mark(r, ts, state) ==
  scanned' = [scanned EXCEPT ![r] = [t \in Titles |->
    IF t \in ts THEN [@[t] EXCEPT !.state = state] ELSE @[t]]]

\* The rows are read first and marked in a transaction of its own; another
\* process on the run may have read them as well.
PickBatch(p) ==
  /\ Works(p) /\ proc[p].batch = {} /\ Found(p) # {}
  /\ proc' = [proc EXCEPT ![p].batch = Found(p), ![p].picked = TRUE]
  /\ UNCHANGED <<newest, page, run, scanned, staged, faults>>

ClaimBatch(p) ==
  /\ proc[p].picked /\ proc' = [proc EXCEPT ![p].picked = FALSE]
  /\ Mark(proc[p].run, proc[p].batch \cap Found(p), "staging")
  /\ UNCHANGED <<newest, page, run, staged, faults>>

\* The variants of a title are staged in one transaction ...
Result(vs) == IF vs \subseteq staged THEN "already_added" ELSE "queued"

StageTitle(p, t) ==
  LET vs == scanned[proc[p].run][t].entry IN
  /\ t \in proc[p].batch /\ ~proc[p].picked /\ proc[p].mid = <<>>
  /\ \/ staged' = staged \cup vs /\ proc' = [proc EXCEPT ![p].mid = <<t, Result(vs)>>] /\ UNCHANGED faults
     \/ Fault /\ proc' = [proc EXCEPT ![p].mid = <<t, "error">>] /\ UNCHANGED staged
  /\ UNCHANGED <<newest, page, run, scanned>>

\* ... and what became of it is written in the next one.
Record(p) ==
  /\ proc[p].mid # <<>>
  /\ Mark(proc[p].run, {proc[p].mid[1]}, proc[p].mid[2])
  /\ proc' = [proc EXCEPT ![p].batch = @ \ {proc[p].mid[1]}, ![p].mid = <<>>]
  /\ UNCHANGED <<newest, page, run, staged, faults>>

\* What the row says of the staging itself is only shown.  Bound: the initial
\* service is not started again once it has come to its end.
Finish(p) ==
  /\ proc[p].at = "drain" /\ proc[p].batch = {} /\ Found(p) = {}
  /\ proc' = [proc EXCEPT ![p] = [Idle EXCEPT !.at = IF Resumes(p) THEN "ended" ELSE "off"]]
  /\ UNCHANGED <<newest, page, run, scanned, staged, faults>>

\* A process that has only looked leaves nothing behind.
Kill(p) ==
  /\ Works(p) /\ Fault
  /\ proc' = [proc EXCEPT ![p] = Idle]
  /\ UNCHANGED <<newest, page, run, scanned, staged>>

Pipeline(p) ==
  \/ Resume(p) \/ ReserveRun(p) \/ StartScan(p) \/ EndScan(p)
  \/ PickBatch(p) \/ ClaimBatch(p) \/ Record(p) \/ Finish(p)
  \/ \E t \in Titles : Scan(p, t) \/ StageTitle(p, t)

Next ==
  \/ Publish \/ \E v \in Variants : Post(v)
  \/ \E p \in Pipelines : Look(p) \/ Pipeline(p) \/ Kill(p)

\* The timer starts the daily service for ever; nobody has to start the other.
Fairness == \A p \in Pipelines : WF_vars(Pipeline(p)) /\ (~Resumes(p) => WF_vars(Look(p)))
Spec == Init /\ [][Next]_vars /\ Fairness

-----------------------------------------------------------------------------
(* Properties                                                                *)

ProcStates == {"off", "looked", "reserved", "scanning", "drain", "ended"}

\* Types; the title a process has in hand is of its batch, and the list has an
\* article at every place a run goes to.
TypeOK ==
  /\ newest \in Titles \cup {0} /\ page \in [Titles -> SUBSET Variants] /\ staged \subseteq Variants
  /\ run \in [Runs -> [status : {"none", "queued", "running", "done", "failed"},
                       limit : {0, Limit}]]
  /\ \A r \in Runs, t \in Titles :
       /\ scanned[r][t].state \in Settled \cup {"none", "discovered", "staging"}
       /\ scanned[r][t].entry \subseteq Variants
  /\ \A p \in Pipelines :
       /\ proc[p].at \in ProcStates /\ proc[p].run \in Runs \cup {0}
       /\ proc[p].batch \subseteq Titles /\ proc[p].picked \in BOOLEAN
       /\ proc[p].place <= proc[p].total => Listed(p) \in Titles
       /\ proc[p].mid # <<>> => proc[p].mid[1] \in proc[p].batch
  /\ faults \in 0 .. MaxFaults

\* An item is recorded as queued or already added only when every variant it
\* lists is staged, although both processes may stage it and either is killed.
QueuedIsStaged ==
  \A r \in Runs, t \in Titles :
    scanned[r][t].state \in {"queued", "already_added"} => scanned[r][t].entry \subseteq staged

\* What an article offers is staged by this run or one of the following days, as
\* long as the article stays among the newest and nothing fails or is killed
\* (film_catalog_pipeline.py:126).  A file of an older article is read by
\* the initial service only, if somebody starts it.
Latest(t) == newest < t + Limit
OfferedIsStaged ==
  \A v \in Variants :
    v \in page[ArticleOf[v]] ~> v \in staged \/ ~Latest(ArticleOf[v]) \/ faults # 0
=============================================================================
