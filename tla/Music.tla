------------------------------- MODULE Music -------------------------------
(* The import of music (runtime/rozmusic_importer.py, roz_cover_backfill.py):*)
(* a service indexes the articles of a site, its workers upload one file per *)
(* article to Telegram, and when the queue is empty it adds missing covers.  *)
(* systemd starts it again when it fails.  Items of a former importer that   *)
(* only hold a link are hidden and imported again.  A second importer that   *)
(* an administrator starts by hand, which takes no lock when it has a single *)
(* worker, is left out.                                                      *)
EXTENDS Naturals, FiniteSets

CONSTANTS
  Articles,   \* numbered in the order of their addresses
  Workers,    \* five in the service's unit
  Retries,    \* attempts at an article or a cover: 3
  MaxFaults   \* bound: kills, failing commits and pauses the source asks for

QueueStates == {"none", "pending", "processing", "done", "skipped", "error"}
Free == [at |-> "free", article |-> 0]
Over == [at |-> "over", article |-> 0]
Dead == [at |-> "dead", article |-> 0]

VARIABLES
  service,   \* "off", "index", "hide", "import", "backfill" or "failed"
  queue,     \* roz_catalog_queue: [state, tries]
  item,      \* media_items: [status, file, cover]
  sourced,   \* articles in roz_catalog_sources
  cover,     \* roz_cover_backfill: [state, tries]
  worker,    \* [at, article]
  notices,   \* announcements of an article's music
  faults

vars == <<service, queue, item, sourced, cover, worker, notices, faults>>
shown == <<item, sourced, notices>>

NoItem == [status |-> "none", file |-> FALSE, cover |-> FALSE]
Link(status) == [status |-> status, file |-> FALSE, cover |-> FALSE]

\* The first articles may have been imported as links.
Init ==
  /\ service = "off" /\ worker = [w \in Workers |-> Over]
  /\ \E links \in SUBSET Articles :
       /\ queue = [a \in Articles |-> [state |-> IF a \in links THEN "done" ELSE "none", tries |-> 0]]
       /\ item = [a \in Articles |-> IF a \in links THEN Link("published") ELSE NoItem]
       /\ sourced = links
  /\ cover = [a \in Articles |-> [state |-> "none", tries |-> 0]]
  /\ notices = [a \in Articles |-> 0] /\ faults = 0

Fault == faults < MaxFaults /\ faults' = faults + 1

-----------------------------------------------------------------------------
(* The start of the service                                                  *)

Linked == {a \in Articles : item[a].status # "none" /\ ~item[a].file}

Waiting == [state |-> "pending", tries |-> 0]

Start ==
  /\ service \in {"off", "failed"} /\ service' = "index"
  /\ UNCHANGED <<queue, shown, cover, worker, faults>>

\* Each sitemap the source answers with is a commit; known addresses stay.
Index(as) ==
  /\ service = "index" /\ as # {} /\ \A a \in as : queue[a].state = "none"
  /\ queue' = [a \in Articles |-> IF a \in as THEN Waiting ELSE queue[a]]
  /\ UNCHANGED <<service, shown, cover, worker, faults>>

\* The index is complete: articles that a run before left in hand are free.
Restore ==
  /\ service = "index" /\ service' = "hide"
  /\ queue' = [a \in Articles |->
       IF queue[a].state = "processing" THEN [queue[a] EXCEPT !.state = "pending"] ELSE queue[a]]
  /\ UNCHANGED <<shown, cover, worker, faults>>

\* Links are hidden and imported anew; then the threads begin.
HideLinks ==
  /\ service = "hide" /\ service' = "import"
  /\ queue' = [a \in Articles |->
       IF a \in Linked \cap sourced /\ queue[a].state # "none" THEN Waiting ELSE queue[a]]
  /\ item' = [a \in Articles |-> IF a \in Linked THEN Link("draft") ELSE item[a]]
  /\ worker' = [w \in Workers |-> Free]
  /\ UNCHANGED <<sourced, cover, notices, faults>>

-----------------------------------------------------------------------------
(* The workers                                                               *)

Due(a) == queue[a].state = "pending" \/ (queue[a].state = "error" /\ queue[a].tries < Retries)
\* Known articles come first, then those never tried, then by address.
Rank(a) == <<IF a \in sourced THEN 0 ELSE 1, IF queue[a].state = "pending" THEN 0 ELSE 1, a>>
Before(x, y) ==
  \/ x[1] < y[1] \/ (x[1] = y[1] /\ x[2] < y[2])
  \/ (x[1] = y[1] /\ x[2] = y[2] /\ x[3] < y[3])
Claimable(a) == Due(a) /\ \A b \in Articles : Due(b) /\ b # a => Before(Rank(a), Rank(b))

Claim(w) ==
  /\ service = "import" /\ worker[w] = Free
  /\ IF \E a \in Articles : Due(a)
     THEN \E a \in Articles :
            /\ Claimable(a)
            /\ queue' = [queue EXCEPT ![a].state = "processing"]
            /\ worker' = [worker EXCEPT ![w] = [at |-> "fetch", article |-> a]]
     ELSE worker' = [worker EXCEPT ![w] = Over] /\ UNCHANGED queue
  /\ UNCHANGED <<service, shown, cover, faults>>

\* What has been published with a file needs no import.
Confirmed(a) == a \in sourced /\ item[a].status = "published" /\ item[a].file
End(w, a, state) ==
  /\ queue' = [queue EXCEPT ![a].state = state]
  /\ worker' = [worker EXCEPT ![w] = Free]
Failed(w, a) ==
  /\ queue' = [queue EXCEPT ![a] = [state |-> "error", tries |-> @.tries + 1]]
  /\ worker' = [worker EXCEPT ![w] = Free]

\* The article and the file: the candidates of an article are tried in turn,
\* as long as the source refuses them for their size or does not have them.
Fetch(w) ==
  LET a == worker[w].article IN
  /\ worker[w].at = "fetch"
  /\ IF Confirmed(a)
     THEN End(w, a, "done") /\ UNCHANGED faults
     ELSE \/ End(w, a, "skipped") /\ UNCHANGED faults       \* no music in it
          \/ /\ worker' = [worker EXCEPT ![w].at = "save"]  \* a candidate is uploaded
             /\ UNCHANGED <<queue, faults>>
          \/ Failed(w, a) /\ UNCHANGED faults
          \/ Fault /\ End(w, a, "pending")                  \* 429 or 503 of the source
  /\ UNCHANGED <<service, shown, cover>>

New(a) == item[a].status # "published"
Saved(c) == [status |-> "published", file |-> TRUE, cover |-> c]

\* The music is published, with its cover if that can be uploaded, and the
\* article is done in one transaction.
Save(w) ==
  LET a == worker[w].article IN
  /\ worker[w].at = "save"
  /\ \E c \in BOOLEAN : item' = [item EXCEPT ![a] = Saved(c)]
  /\ notices' = [notices EXCEPT ![a] = @ + IF New(a) THEN 1 ELSE 0]
  /\ sourced' = sourced \cup {a}
  /\ End(w, a, "done")
  /\ UNCHANGED <<service, cover, faults>>

\* An error of the database ends the thread; its article stays in hand.
Crash(w) ==
  /\ worker[w].at \in {"free", "fetch", "save"} /\ Fault
  /\ worker' = [worker EXCEPT ![w] = Dead]
  /\ UNCHANGED <<service, queue, shown, cover>>

-----------------------------------------------------------------------------
(* The end of a run                                                          *)

Outstanding == \E a \in Articles : Due(a) \/ queue[a].state = "processing"
Joined == \A w \in Workers : worker[w] \in {Over, Dead}
Stop(how) == service' = how /\ worker' = [w \in Workers |-> Over]

\* Mutant of Finish: a run whose threads died counts as a success.
FinishWell ==
  /\ service = "import" /\ Joined
  /\ Stop(IF Outstanding THEN "off" ELSE "backfill")
  /\ UNCHANGED <<queue, shown, cover, faults>>

Finish ==
  /\ service = "import" /\ Joined
  /\ Stop(IF \E w \in Workers : worker[w] = Dead THEN "failed"
          ELSE IF Outstanding THEN "off" ELSE "backfill")
  /\ UNCHANGED <<queue, shown, cover, faults>>

Coverless == {a \in sourced : /\ item[a].status = "published" /\ ~item[a].cover
                              /\ \/ cover[a].state = "none"
                                 \/ cover[a].state = "error" /\ cover[a].tries < Retries}

Backfill(a) ==
  /\ service = "backfill" /\ a \in Coverless
  /\ \A b \in Coverless : a <= b
  /\ \/ cover' = [cover EXCEPT ![a] = [state |-> "skipped", tries |-> Retries]] /\ UNCHANGED item
     \/ /\ cover' = [cover EXCEPT ![a] = [state |-> "done", tries |-> 0]]
        /\ item' = [item EXCEPT ![a].cover = TRUE]
     \/ cover' = [cover EXCEPT ![a] = [state |-> "error", tries |-> @.tries + 1]] /\ UNCHANGED item
  /\ UNCHANGED <<service, queue, sourced, worker, notices, faults>>

EndBackfill ==
  /\ service = "backfill" /\ Coverless = {} /\ Stop("off")
  /\ UNCHANGED <<queue, shown, cover, faults>>

\* The process is killed, or an error of the database or, while it indexes, of
\* the source ends it.
Kill ==
  /\ service \notin {"off", "failed"} /\ Fault /\ Stop("failed")
  /\ UNCHANGED <<queue, shown, cover>>

Remove(a) ==
  /\ item[a].status = "published"
  /\ item' = [item EXCEPT ![a].status = "removed"]
  /\ UNCHANGED <<service, queue, sourced, cover, worker, notices, faults>>

Step(w) == Claim(w) \/ Fetch(w) \/ Save(w)
Next ==
  \/ Start \/ Restore \/ HideLinks \/ Finish \/ EndBackfill \/ Kill
  \/ \E as \in SUBSET Articles : Index(as)
  \/ \E w \in Workers : Step(w) \/ Crash(w)
  \/ \E a \in Articles : Backfill(a) \/ Remove(a)

\* Threads run on; systemd starts the service again 120 seconds after it
\* failed, and nobody has to start one that has ended.
Restart == service = "failed" /\ Start
Fairness ==
  /\ \A w \in Workers : WF_vars(Step(w))
  /\ WF_vars(Restore) /\ WF_vars(HideLinks)
  /\ WF_vars(Finish) /\ WF_vars(EndBackfill) /\ WF_vars(Restart)
  /\ \A a \in Articles : WF_vars(Backfill(a))
Spec == Init /\ [][Next]_vars /\ Fairness

-----------------------------------------------------------------------------
(* Properties                                                                *)

\* Types; while the service works, an article in hand has a worker unless one
\* of the workers has died.
TypeOK ==
  /\ service \in {"off", "index", "hide", "import", "backfill", "failed"}
  /\ queue \in [Articles -> [state : QueueStates, tries : 0 .. Retries]]
  /\ item \in [Articles -> [status : {"none", "draft", "published", "removed"},
                            file : BOOLEAN, cover : BOOLEAN]]
  /\ sourced \subseteq Articles
  /\ cover \in [Articles -> [state : {"none", "done", "skipped", "error"}, tries : 0 .. Retries]]
  /\ \A w \in Workers : worker[w].at \in {"free", "fetch", "save", "over", "dead"}
  /\ service = "import" /\ (\A w \in Workers : worker[w] # Dead) =>
       \A a \in Articles : queue[a].state = "processing" =>
         \E w \in Workers : worker[w].article = a
  /\ faults \in 0 .. MaxFaults

\* Two threads never upload the same article (rozmusic_importer.py:261).
ClaimedByOne ==
  \A v, w \in Workers : v # w /\ worker[v].article # 0 => worker[v].article # worker[w].article

\* Music is announced once, however often its import is interrupted, and not
\* again when it was removed meanwhile (rozmusic_importer.py:207).
AnnouncedOnce == \A a \in Articles : notices[a] <= 1

\* "Old link-only imports must be requeued, never shown to listeners."
\* (rozmusic_importer.py:221): listeners may see links until a run is past its
\* index; from then on, wherever it is killed or fails, they see none again.
NoLinkShown ==
  (\E a \in Articles : item[a].status = "published" /\ ~item[a].file) =>
    /\ service \notin {"import", "backfill"}
    /\ \A a \in Articles : item[a].status # "draft" /\ notices[a] = 0

\* Music that was hidden is never taken for done: it is imported, or found to be
\* none, or given up after its attempts (rozmusic_importer.py:222).
HiddenIsQueued ==
  \A a \in Articles : item[a].status = "draft" => queue[a].state \notin {"none", "done"}

\* What is queued is done, skipped or given up in the end, although threads
\* and the process die; and every piece of music that is shown gets a cover,
\* or the attempts at one end, before the service comes to rest.
Settles ==
  <>(service # "off") => []<>(service = "off" /\ ~Outstanding /\ Coverless = {})
=============================================================================
