------------------------------- MODULE Films -------------------------------
(* The import of films and series (runtime/film_importer.py): variants of an *)
(* episode are staged as jobs, a worker that a timer starts uploads one file *)
(* per run, and an episode is shown and announced when all of its staged     *)
(* variants are settled and its title has a poster.  The worker commits in   *)
(* several places and may be killed at each of them.                         *)
EXTENDS Integers, FiniteSetsExt

CONSTANTS
  Variants,   \* rows of film_variants, numbered from the lowest quality up
  EpisodeOf,  \* the episode of a variant; a movie is an episode of its own
  TitleOf,    \* the title of an episode, a number
  Posters,    \* titles with a cover_url
  Retries,    \* attempts of a job before it is blocked: 8 in the code
  CoverBatch, \* posters a run of the worker retries: 10
  Patience,   \* attempts up to which a 503 of the source is forgiven: 3
  MaxFaults   \* bound: kills of the worker, failures of a poster or a commit

Episodes == {EpisodeOf[v] : v \in Variants}
Titles == {TitleOf[e] : e \in Episodes}
VariantsOf(e) == {v \in Variants : EpisodeOf[v] = e}
EpisodesOf(t) == {e \in Episodes : TitleOf[e] = t}
JobStates == {"none", "pending", "processing", "uploaded", "done", "failed", "blocked"}
Nothing == 0

VARIABLES
  job,        \* film_import_jobs.state, "none" for a variant not staged
  tries,      \* film_import_jobs.attempts
  rested,     \* jobs whose `updated` is old enough for another attempt
  file,       \* variants with a streamable file in Telegram
  cover,      \* titles with a poster in Telegram
  item,       \* what media_items shows of an episode: [status, file]
  notices,    \* announcements made of an episode
  at, cur,    \* where the worker is and the variant it works on
  todo,       \* what the loop the worker is in has left
  faults

vars == <<job, tries, rested, file, cover, item, notices, at, cur, todo, faults>>

Init ==
  /\ job = [v \in Variants |-> "none"] /\ tries = [v \in Variants |-> 0]
  /\ rested = {} /\ file = {} /\ cover = {}
  /\ item = [e \in Episodes |-> [status |-> "none", file |-> Nothing]]
  /\ notices = [e \in Episodes |-> 0]
  /\ at = "off" /\ cur = Nothing /\ todo = {} /\ faults = 0

Fault == faults < MaxFaults /\ faults' = faults + 1

-----------------------------------------------------------------------------
(* Staging and the answers of the source and of Telegram                     *)

\* Variants of a title that are not yet known become jobs.
Stage(vs) ==
  /\ job' = [v \in Variants |-> IF v \in vs /\ job[v] = "none" THEN "pending" ELSE job[v]]
  /\ UNCHANGED <<tries, rested, file, cover, item, notices, at, cur, todo, faults>>

\* A manifest is staged as a whole or not at all.
ImportManifest == \E vs \in SUBSET Variants : Stage(vs)

\* What each step of an upload may raise.
Download == {"ok", "ValueError", "RuntimeError", "OSError"}
PrepareStreamable == {"ok", "ValueError", "RuntimeError"}
Upload == {"ok", "ValueError", "RuntimeError"}
\* The first exception of the three steps.
Uploading == Download \cup PrepareStreamable \cup Upload

-----------------------------------------------------------------------------
(* Showing an episode.  The operators take the jobs, files and posters as    *)
(* the transaction leaves them.                                              *)

Staged(j, e) == {v \in VariantsOf(e) : j[v] # "none"}
Ready(j, e) == {v \in Staged(j, e) : j[v] = "done" /\ v \in file}
Complete(j, e) ==
  /\ \A v \in Staged(j, e) : j[v] \in {"done", "blocked"}
  /\ Ready(j, e) # {}
HasPoster(c, e) == TitleOf[e] \in Posters => TitleOf[e] \in c

Primary(j, e) == Min(Ready(j, e))
\* Mutant of Shows: a removed episode is updated like any other.
ShowsAgain(j, c, e) == Complete(j, e) /\ HasPoster(c, e)

Shows(j, c, e) == Complete(j, e) /\ HasPoster(c, e) /\ item[e].status # "removed"
\* Mutant of New: every finalization announces.
NewAlways(e) == item[e].status # "removed"

New(e) == item[e].status # "published"

Finalize(j, c, e) ==
  IF Shows(j, c, e)
  THEN /\ item' = [item EXCEPT ![e] = [status |-> "published", file |-> Primary(j, e)]]
       /\ notices' = [notices EXCEPT ![e] = @ + IF New(e) THEN 1 ELSE 0]
  ELSE UNCHANGED <<item, notices>>

Publish(v) ==
  /\ job' = [job EXCEPT ![v] = "done"]
  /\ Finalize(job', cover, EpisodeOf[v])

-----------------------------------------------------------------------------
(* A run of the worker                                                       *)

\* Mutant of Interrupted: only jobs that were retried before are released.
InterruptedLate == {v \in rested : job[v] = "processing" /\ tries[v] > 0}

\* Leases of a killed run, an hour old.
Interrupted == {v \in rested : job[v] = "processing"}
Exhausted(t) ==
  {v \in Interrupted \cup {v \in Variants : job[v] = "failed"} : t[v] >= Retries}

\* Files that are in Telegram while their job has not ended.
Unfinished(j) == {v \in file : j[v] \in {"uploaded", "failed"}}
Coverless == {t \in Posters \ cover : \E e \in EpisodesOf(t) : Ready(job, e) # {}}
FirstCoverless == {t \in Coverless : Cardinality({u \in Coverless : u < t}) < CoverBatch}

\* The worker starts with what earlier runs left: one commit blocks the jobs
\* that are out of attempts and releases the others.
Start ==
  /\ at = "off"
  /\ LET t == [v \in Variants |-> tries[v] + IF v \in Interrupted THEN 1 ELSE 0]
         out == Exhausted(t)
     IN /\ tries' = t
        /\ job' = [v \in Variants |->
             IF v \in out THEN "blocked" ELSE IF v \in Interrupted THEN "failed" ELSE job[v]]
        /\ rested' = rested \ (Interrupted \cup out)
        /\ todo' = {EpisodeOf[v] : v \in out}
  /\ at' = "exhausted"
  /\ UNCHANGED <<file, cover, item, notices, cur, faults>>

FinalizeExhausted ==
  /\ at = "exhausted"
  /\ IF todo = {}
     THEN at' = "unfinished" /\ todo' = Unfinished(job) /\ UNCHANGED <<item, notices>>
     ELSE \E e \in todo : Finalize(job, cover, e) /\ todo' = todo \ {e} /\ UNCHANGED at
  /\ UNCHANGED <<job, tries, rested, file, cover, cur, faults>>

PublishUnfinished ==
  /\ at = "unfinished"
  /\ IF todo = {}
     THEN at' = "covers" /\ todo' = FirstCoverless /\ UNCHANGED <<job, item, notices>>
     ELSE \E v \in todo : Publish(v) /\ todo' = todo \ {v} /\ UNCHANGED at
  /\ UNCHANGED <<tries, rested, file, cover, cur, faults>>

\* A poster is uploaded and committed; the episodes of its title follow, each
\* in a transaction of its own, before the next poster.
RetryCover ==
  /\ at = "covers" /\ todo \cap Episodes = {}
  /\ \E t \in todo :
       \/ /\ cover' = cover \cup {t} /\ UNCHANGED faults
          /\ todo' = (todo \ {t}) \cup EpisodesOf(t)
       \/ Fault /\ todo' = todo \ {t} /\ UNCHANGED cover
  /\ UNCHANGED <<job, tries, rested, file, item, notices, at, cur>>

FinalizeCovered ==
  /\ at = "covers"
  /\ \E e \in todo \cap Episodes : Finalize(job, cover, e) /\ todo' = todo \ {e}
  /\ UNCHANGED <<job, tries, rested, file, cover, at, cur, faults>>

\* Failed jobs that have rested come first.
Due == {v \in rested : job[v] = "failed" /\ tries[v] < Retries}
Pending == {v \in Variants : job[v] = "pending"}
Next1 == IF Due # {} THEN Due ELSE Pending

Claim ==
  /\ at = "covers" /\ todo = {}
  /\ IF Next1 = {}
     THEN at' = "off" /\ UNCHANGED <<job, rested, cur>>
     ELSE \E v \in Next1 : /\ job' = [job EXCEPT ![v] = "processing"]
                           /\ rested' = rested \ {v}
                           /\ at' = "upload" /\ cur' = v
  /\ UNCHANGED <<tries, file, cover, item, notices, todo, faults>>

\* An exception ends the attempt; a ValueError and the last attempt end the job.
Raised(v, ex) == IF ex = "ValueError" \/ tries[v] + 1 >= Retries THEN "blocked" ELSE "failed"
\* Mutant of Ending: a blocked job does not finalize its episode.
EndingQuiet(v, ex) ==
  /\ job' = [job EXCEPT ![v] = Raised(v, ex)]
  /\ tries' = [tries EXCEPT ![v] = @ + 1]
  /\ rested' = rested \ {v}
  /\ at' = "off" /\ cur' = Nothing

Ending(v, ex) ==
  /\ job' = [job EXCEPT ![v] = Raised(v, ex)]
  /\ tries' = [tries EXCEPT ![v] = @ + 1]
  /\ rested' = rested \ {v}
  /\ IF Raised(v, ex) = "blocked" THEN at' = "blocked" /\ cur' = v
                                  ELSE at' = "off" /\ cur' = Nothing

UploadOne ==
  /\ at = "upload"
  /\ \E result \in Uploading :
       IF result = "ok"
       THEN /\ file' = file \cup {cur}
            /\ job' = [job EXCEPT ![cur] = "uploaded"]
            /\ at' = "poster" /\ UNCHANGED <<tries, rested, cur>>
       ELSE Ending(cur, result) /\ UNCHANGED file
  /\ UNCHANGED <<cover, item, notices, todo, faults>>

UploadCover ==
  LET t == TitleOf[EpisodeOf[cur]] IN
  /\ at = "poster" /\ at' = "publish"
  /\ \/ cover' = cover \cup ({t} \cap Posters) /\ UNCHANGED faults
     \/ t \in Posters \ cover /\ Fault /\ UNCHANGED cover
  /\ UNCHANGED <<job, tries, rested, file, item, notices, cur, todo>>

PublishOne ==
  /\ at = "publish"
  /\ \/ /\ Publish(cur) /\ at' = "off" /\ cur' = Nothing
        /\ UNCHANGED <<tries, rested, faults>>
     \/ Fault /\ Ending(cur, "OperationalError") /\ UNCHANGED <<item, notices>>
  /\ UNCHANGED <<file, cover, todo>>

FinalizeBlocked ==
  /\ at = "blocked" /\ at' = "off" /\ cur' = Nothing
  /\ Finalize(job, cover, EpisodeOf[cur])
  /\ UNCHANGED <<job, tries, rested, file, cover, todo, faults>>

\* The service's time is up, or the machine stops.
Kill ==
  /\ at # "off" /\ Fault
  /\ at' = "off" /\ cur' = Nothing /\ todo' = {}
  /\ UNCHANGED <<job, tries, rested, file, cover, item, notices>>

-----------------------------------------------------------------------------
(* Others                                                                    *)

\* A run is stopped after 1600 seconds, so that its own lease does not age.
Rest(v) ==
  /\ job[v] \in {"failed", "processing"} /\ v \notin rested /\ v # cur
  /\ rested' = rested \cup {v}
  /\ UNCHANGED <<job, tries, file, cover, item, notices, at, cur, todo, faults>>

\* The daily discovery gives jobs that failed with a 503 back to the queue;
\* this module does not keep the error, so that any of them may be one.
RequeueTransient ==
  \E vs \in SUBSET {v \in rested : job[v] = "failed" /\ tries[v] < Patience} :
    /\ vs # {}
    /\ job' = [v \in Variants |-> IF v \in vs THEN "pending" ELSE job[v]]
    /\ rested' = rested \ vs
    /\ UNCHANGED <<tries, file, cover, item, notices, at, cur, todo, faults>>

\* Its owner's button or an upheld report.
Remove(e) ==
  /\ item[e].status = "published"
  /\ item' = [item EXCEPT ![e].status = "removed"]
  /\ UNCHANGED <<job, tries, rested, file, cover, notices, at, cur, todo, faults>>

Worker ==
  \/ Start \/ FinalizeExhausted \/ PublishUnfinished \/ RetryCover \/ FinalizeCovered
  \/ Claim \/ UploadOne \/ UploadCover \/ PublishOne \/ FinalizeBlocked

Next ==
  \/ Worker \/ Kill \/ ImportManifest \/ RequeueTransient
  \/ \E v \in Variants : Rest(v)
  \/ \E e \in Episodes : Remove(e)

\* The timer starts the worker again 45 seconds after its last run, and the
\* clock lets jobs rest.
Fairness == WF_vars(Worker) /\ \A v \in Variants : WF_vars(Rest(v))
Spec == Init /\ [][Next]_vars /\ Fairness

-----------------------------------------------------------------------------
(* Properties                                                                *)

\* Types; a job that is uploaded or done has its file.
TypeOK ==
  /\ job \in [Variants -> JobStates] /\ tries \in [Variants -> 0 .. Retries]
  /\ rested \subseteq Variants /\ file \subseteq Variants /\ cover \subseteq Posters
  /\ item \in [Episodes -> [status : {"none", "published", "removed"},
                            file : Variants \cup {Nothing}]]
  /\ \A e \in Episodes : notices[e] \in Nat
  /\ at \in {"off", "exhausted", "unfinished", "covers", "upload", "poster", "publish", "blocked"}
  /\ cur \in Variants \cup {Nothing} /\ todo \subseteq Variants \cup Episodes \cup Titles
  /\ faults \in 0 .. MaxFaults
  /\ \A v \in Variants : job[v] \in {"uploaded", "done"} => v \in file

\* An episode is announced at most once, whatever is staged later, retried or
\* done again after a kill, and one that is shown was announced
\* (film_importer.py:455).
AnnouncedOnce == \A e \in Episodes : notices[e] = IF item[e].status = "none" THEN 0 ELSE 1

\* What users are sent as an episode is a file that is in Telegram and whose
\* import has ended well, also when more qualities were staged since or an
\* attempt at one of them failed.
FileServed ==
  \A e \in Episodes : item[e].status = "published" =>
    /\ EpisodeOf[item[e].file] = e
    /\ item[e].file \in file /\ job[item[e].file] = "done"

\* What an administrator or a report has removed stays so: a retry, a new
\* quality or a late poster does not bring it back.
RemovedStays == [][\A e \in Episodes : item[e].status = "removed" => item'[e] = item[e]]_vars

\* Whatever fails and although the worker is killed, there comes again and
\* again a time when every staged job is done or blocked, so that no episode
\* waits for one for ever.
JobsSettle == []<>(\A v \in Variants : job[v] \in {"none", "done", "blocked"})

\* As long as the worker is not killed and no poster or commit fails, an
\* episode whose jobs have all ended, one of them well, gets shown.
ShownUndisturbed ==
  []<>(\A e \in Episodes : Complete(job, e) => item[e].status # "none") \/ <>(faults # 0)
=============================================================================
