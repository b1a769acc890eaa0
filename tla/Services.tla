------------------------------ MODULE Services ------------------------------
(* The services that run beside the shop: the import of films, the scan of   *)
(* the films' catalogue, the import of music and the accounts of the other   *)
(* VPN protocols.  They share nothing, so one of them runs at a time while   *)
(* the others wait where they start: `turn` says which.                      *)
EXTENDS Integers, FiniteSets

CONSTANTS
  Variants, EpisodeOf, TitleOf, Posters, Retries, CoverBatch, Patience,   \* Films
  LastPage, Offers, PageOf, Newest, Runs, Pipelines,                      \* Catalogue
  Articles, Threads, MusicRetries,                                        \* Music
  Clients, Quota, Sessions, MaxBytes, MaxTime, MaxChanges,                \* Accounts
  MaxFailures                                                             \* all of them

VARIABLES turn, failures
VARIABLES job, tries, rested, file, poster, episode, told, at, cur, todo
VARIABLES newest, page, run, scanned, proc, staged
VARIABLES service, queue, item, sourced, cover, thread, notices
VARIABLES now, native, base, account, user, usable, session, flying, worker, changes

F == INSTANCE Films WITH
  MaxFaults <- MaxFailures, cover <- poster, item <- episode, notices <- told,
  faults <- failures

Pages == 1 .. LastPage
C == INSTANCE Catalogue WITH
  Titles <- Pages, Variants <- Offers, ArticleOf <- PageOf, Limit <- Newest,
  MaxFaults <- MaxFailures,
  faults <- failures

M == INSTANCE Music WITH
  Workers <- Threads, Retries <- MusicRetries, MaxFaults <- MaxFailures, worker <- thread,
  faults <- failures

A == INSTANCE Accounts WITH
  MaxActs <- MaxChanges, MaxFaults <- MaxFailures, clock <- now, acts <- changes,
  faults <- failures

\* Rows are numbered from 1; 0 stands for none.  A movie is not its episode, and a
\* source's refusal is forgiven (3 times) before a job is out of attempts (8).
ASSUME FilmsAssumption ==
  /\ Variants \subseteq Nat \ {0} /\ Retries \in Nat \ {0} /\ Patience \in 0 .. Retries
  /\ F!Episodes \cap F!Titles = {}
ASSUME CatalogueAssumption ==
  /\ LastPage \in Nat /\ Newest \in Nat \ {0}
  /\ 0 \notin Runs /\ \A v \in Offers : PageOf[v] \in Pages
ASSUME MusicAssumption == Articles \subseteq Nat \ {0} /\ MusicRetries \in Nat \ {0}
ASSUME AccountsAssumption ==
  /\ Clients \subseteq Nat \ {0} /\ IsFiniteSet(Sessions) /\ Quota \in Nat
  /\ MaxBytes \in Nat /\ MaxTime \in Nat \ {0} /\ MaxChanges \in Nat
ASSUME FailuresAssumption == MaxFailures \in Nat

films == <<job, tries, rested, file, poster, episode, told, at, cur, todo>>
catalogue == <<newest, page, run, scanned, proc, staged>>
music == <<service, queue, item, sourced, cover, thread, notices>>
accounts == <<now, native, base, account, user, usable, session, flying, worker, changes>>
services == <<turn, failures, films, catalogue, music, accounts>>

ServicesInit ==
  /\ turn \in {"films", "catalogue", "music", "accounts"}
  /\ F!Init /\ C!Init /\ A!Init /\ M!Init
  /\ turn # "music" => sourced = {}

ServicesNext ==
  /\ UNCHANGED turn
  /\ \/ turn = "films" /\ F!Next /\ UNCHANGED <<catalogue, music, accounts>>
     \/ turn = "catalogue" /\ C!Next /\ UNCHANGED <<films, music, accounts>>
     \/ turn = "music" /\ M!Next /\ UNCHANGED <<films, catalogue, accounts>>
     \/ turn = "accounts" /\ A!Next /\ UNCHANGED <<films, catalogue, music>>

\* The fairness of the service that runs, as its module states it.
ServicesFairness ==
  /\ WF_films(turn = "films" /\ F!Worker)
  /\ \A v \in Variants : WF_films(turn = "films" /\ F!Rest(v))
  /\ \A p \in Pipelines :
       /\ WF_catalogue(turn = "catalogue" /\ C!Pipeline(p))
       /\ ~C!Resumes(p) => WF_catalogue(turn = "catalogue" /\ C!Look(p))
  /\ \A w \in Threads : WF_music(turn = "music" /\ M!Step(w))
  /\ \A a \in Articles : WF_music(turn = "music" /\ M!Backfill(a))
  /\ WF_music(turn = "music" /\ M!Restore) /\ WF_music(turn = "music" /\ M!HideLinks)
  /\ WF_music(turn = "music" /\ M!Finish) /\ WF_music(turn = "music" /\ M!EndBackfill)
  /\ WF_music(turn = "music" /\ M!Restart)
  /\ WF_accounts(turn = "accounts" /\ A!Pass)
  /\ WF_accounts(turn = "accounts" /\ \E x \in flying : A!Land(x))

ServicesSpec == ServicesInit /\ [][ServicesNext]_services /\ ServicesFairness

-----------------------------------------------------------------------------
(* What the modules state of their service, under names of its own.          *)

\* The types of each service's state (film_importer.py:393, unified.py:24).
ServicesTypes ==
  /\ turn = "films" => F!TypeOK
  /\ turn = "catalogue" => C!TypeOK
  /\ turn = "music" => M!TypeOK
  /\ turn = "accounts" => A!TypeOK

\* What users see of the imports, wherever a worker is killed: an episode or a
\* piece of music is announced at most once and served as a file whose import
\* ended well; no article is uploaded by two threads, and none settled unstaged;
\* links of the former importer, once hidden, stay so until they are imported.
ImportInv ==
  /\ ServicesTypes
  /\ F!AnnouncedOnce /\ F!FileServed
  /\ C!QueuedIsStaged
  /\ M!ClaimedByOne /\ M!AnnouncedOnce /\ M!NoLinkShown /\ M!HiddenIsQueued

\* What was removed does not come back by a retry, a new quality or a poster.
FilmRemovedStays == F!RemovedStays
\* Every staged job of a film is done or blocked in the end.
FilmJobsSettle == F!JobsSettle
\* An episode whose jobs have ended is shown, if nothing fails meanwhile.
FilmShownUndisturbed == F!ShownUndisturbed
\* What one of the newest articles offers is staged in the end, if nothing fails.
OfferedIsStaged == C!OfferedIsStaged
\* What is queued is imported or given up, and every cover tried, in the end.
MusicSettles == M!Settles

\* The panel shows each client the traffic of its own sessions, once and, when a
\* session has ended and its hook has run, all of it.
UsageCounted == A!UsageCountedOnce /\ A!AllCounted
\* Unless something fails, the servers come to agree with the panel for good.
Converges == A!Converges
=============================================================================
