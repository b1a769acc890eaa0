------------------------------- MODULE Backup -------------------------------
(* Full backup and restore of a server (runtime/full_backup.py) while the
   server works: the shop sells, the jobs of the timers, which are not among
   the services the tool stops, write sales.db, steps fail, the tool is
   killed, the machine restarts.  Commands of the web panel go through
   deploy/web-backup-worker.py, which runs one at a time.

   A file is known by its era: 1 is that of the files the server came with, and
   each command that restores an archive brings files of an era of its own.  An
   entry of a database is a pair of an order and the era of the file it was
   committed to, so that entries that come into a file they were not committed
   to can be seen.  sales.db is in WAL mode: commits go to
   `wal`, the file beside it, and to `main` by a checkpoint.                *)
EXTENDS Naturals, Sequences, FiniteSets, SequencesExt

CONSTANTS Orders,       \* what the shop sells in this model
          MaxFaults,    \* failing steps, kills and restarts
          MaxJobs,      \* runs of a timer's job
          MaxCommands   \* commands of the administrator

VARIABLES live,      \* [file -> its era]
          clients,   \* entries of the panel's database
          main, wal, \* sales.db and the file sales.db-wal
          up,        \* services that run
          conn,      \* the era of the sales.db a job has open, or NoFile
          cmd,       \* the command that runs, or the last one
          undo,      \* the list `restored`: files with what was there before
          archives,  \* backups in the directory of backups
          web,       \* state of the uploaded job of the web panel
          budget

vars == <<live, clients, main, wal, up, conn, cmd, undo, archives, web, budget>>

None == "none"
NoFile == 0
Extension == "extension"
Services == {Extension, "panel", "vpn"}
\* The order in which SERVICES stop; they start in the reverse order.
Place(s) == CASE s = Extension -> 1 [] s = "panel" -> 2 [] s = "vpn" -> 3
\* The order of file_specs: by path, links last.
Specs == <<"sales", "clients", "conf", "link">>
Files == Range(Specs)
Absent == [of |-> NoFile, items |-> {}]
\* The commands so far count the eras; the last of them is that of the command
\* that runs.
Era == 1 + MaxCommands - budget.commands
\* What the administrator restores: an archive of a server with one order.
Archived == {<<"old", Era>>}
Nothing == [sales |-> {}, clients |-> {}, of |-> {}]

\* What a reader of sales.db finds: the file with the log beside it.
Visible == main \cup wal.items
Shop(items) == {e \in items : e[1] # "job"}

Fresh(kind, source) ==
  [kind |-> kind, pc |-> "begin", source |-> source, quiesce |-> FALSE, activate |-> FALSE,
   running |-> {}, todo |-> {}, snap |-> Nothing, at |-> 1, failing |-> FALSE,
   before |-> IF kind = "restore"
              THEN [live |-> live, sales |-> Shop(Visible), clients |-> clients]
              ELSE [live |-> <<>>, sales |-> {}, clients |-> {}],
   sold |-> {}, had |-> {}, dead |-> {}, stuck |-> FALSE, touched |-> FALSE]
Quiet == [Fresh("none", None) EXCEPT !.pc = "done"]

Init == /\ live = [f \in Files |-> 1]
        /\ clients = {} /\ main = {} /\ wal = Absent
        /\ up = Services /\ conn = NoFile
        /\ cmd = Quiet
        /\ undo = <<>> /\ archives = {} /\ web = None
        /\ budget = [faults |-> MaxFaults, jobs |-> MaxJobs, commands |-> MaxCommands]

----------------------------------------------------------------------------
(* The shop and the jobs *)

Idle == cmd.pc \in {"done", "failed", "killed"}
\* The window of a restore in which sales.db and its log are replaced.
Window == cmd.kind = "restore" /\ cmd.pc \in {"save", "swap", "validate", "start", "revert"}
\* A log that lies beside sales.db is replayed when the file is opened,
\* whichever file it was written for.
Foreign == wal.of \notin {NoFile, live["sales"]}
Log(e) == IF Foreign
          THEN main' = Visible /\ wal' = [of |-> live["sales"], items |-> {e}]
          ELSE UNCHANGED main /\ wal' = [of |-> live["sales"], items |-> wal.items \cup {e}]

\* The worker creates the client in the panel first, ...
Provision(o) ==
  /\ {Extension, "panel"} \subseteq up
  /\ <<o, live["clients"]>> \notin clients
  /\ clients' = clients \cup {<<o, live["clients"]>>}
  /\ UNCHANGED <<live, main, wal, up, conn, cmd, undo, archives, web, budget>>

\* ... and then commits the order as fulfilled.
Fulfil(o) ==
  /\ Extension \in up
  /\ <<o, live["clients"]>> \in clients /\ <<o, live["sales"]>> \notin Visible
  /\ Log(<<o, live["sales"]>>)
  /\ UNCHANGED <<live, clients, up, conn, cmd, undo, archives, web, budget>>

\* A job opens sales.db by its path.
JobOpen ==
  /\ conn = NoFile /\ budget.jobs > 0
  /\ conn' = live["sales"]
  /\ IF Foreign
     THEN main' = Visible /\ wal' = Absent
     ELSE UNCHANGED <<main, wal>>
  /\ cmd' = [cmd EXCEPT !.touched = @ \/ Window]
  /\ budget' = [budget EXCEPT !.jobs = @ - 1]
  /\ UNCHANGED <<live, clients, up, undo, archives, web>>

\* What is written to a file that was replaced meanwhile is in its old log, if
\* that is still there, or lost.
JobCommit ==
  /\ conn # NoFile
  /\ IF conn = live["sales"] THEN Log(<<"job", conn>>)
     ELSE /\ wal' = IF wal.of = conn THEN [wal EXCEPT !.items = @ \cup {<<"job", conn>>}] ELSE wal
          /\ UNCHANGED main
  /\ UNCHANGED <<live, clients, up, conn, cmd, undo, archives, web, budget>>

\* The last connection to a file that has not been moved writes its log back.
JobClose ==
  /\ conn # NoFile
  /\ conn' = NoFile
  /\ IF conn = live["sales"] /\ wal.of = conn /\ Extension \notin up
     THEN main' = Visible /\ wal' = Absent
     ELSE UNCHANGED <<main, wal>>
  /\ cmd' = [cmd EXCEPT !.touched = @ \/ Window]
  /\ UNCHANGED <<live, clients, up, undo, archives, web, budget>>

----------------------------------------------------------------------------
(* Steps common to the commands *)

Go(pc) == cmd' = [cmd EXCEPT !.pc = pc]
Over(pc) == cmd' = IF cmd.kind = "backup" THEN Quiet ELSE [cmd EXCEPT !.pc = pc]
Calm == UNCHANGED <<live, clients, main, wal, conn>>
\* The last of MaxFaults is kept for the undoing of a restore.
Spare == IF cmd.pc = "revert" THEN 0 ELSE 1
Fault == budget.faults > Spare /\ budget' = [budget EXCEPT !.faults = @ - 1]
\* The services still to stop, or to start, are taken in their order.
ToStop(s) == s \in cmd.todo /\ \A t \in cmd.todo : Place(s) <= Place(t)
ToRun(s) == s \in cmd.todo /\ \A t \in cmd.todo : Place(s) >= Place(t)
\* The state a job of the web panel is given by the worker.
Report(s) == web' = IF cmd.source = "web" /\ cmd.kind = "restore" THEN s ELSE web

\* Commands of the web panel exclude each other by a lock; that an administrator
\* starts one in the shell at the same time is left out.
Begin ==
  /\ Idle /\ budget.commands > 0
  /\ budget' = [budget EXCEPT !.commands = @ - 1]
  /\ undo' = <<>>
  /\ Calm /\ UNCHANGED <<up, archives>>

\* Mutant of StartBackup: --quiesce stops nothing.
StartBackupLive(source, quiesce) ==
  /\ Begin
  /\ source = "web" => ~quiesce
  /\ cmd' = [Fresh("backup", source) EXCEPT !.pc = "stop", !.quiesce = quiesce]
  /\ UNCHANGED web
StartBackup(source, quiesce) ==
  /\ Begin
  /\ source = "web" => ~quiesce
  /\ LET running == IF quiesce THEN up ELSE {}
     IN  cmd' = [Fresh("backup", source) EXCEPT !.pc = "stop", !.quiesce = quiesce,
                   !.running = running, !.todo = running]
  /\ UNCHANGED web

\* Upload and inspection: only a sound archive becomes "done".
Upload(sound) ==
  /\ Begin
  /\ web' = IF sound THEN "done" ELSE "failed"
  /\ cmd' = Quiet

\* The web panel restores what the worker has inspected, and never starts the bot.
Offered(sound, activate) == web = "done" /\ sound /\ ~activate

\* unpack_verified goes through signature, manifest, names, sums and databases:
\* an archive is sound as a whole or refused as a whole.
Verified(sound) == IF sound THEN "snap clients" ELSE "failed"

\* restore() up to the backup of the destination.  A damaged archive or one of
\* another domain is refused here, before anything was touched.
StartRestore(source, sound, activate) ==
  /\ Begin
  /\ source = "web" => Offered(sound, activate)
  /\ cmd' = IF Verified(sound) # "failed"
            THEN [Fresh("restore", source) EXCEPT !.pc = Verified(sound), !.activate = activate,
                    !.running = up, !.sold = Shop(Visible), !.had = clients]
            ELSE [Fresh("restore", source) EXCEPT !.pc = "failed"]
  /\ web' = IF source = "web" THEN "running" ELSE web

\* stop_services, one after another.
StopOne(s) ==
  /\ cmd.pc = "stop" /\ ToStop(s)
  /\ up' = up \ {s}
  /\ cmd' = [cmd EXCEPT !.todo = @ \ {s}]
  /\ Calm /\ UNCHANGED <<undo, archives, web, budget>>

Stopped ==
  /\ cmd.pc = "stop" /\ cmd.todo = {}
  /\ cmd' = IF cmd.kind = "backup" THEN [cmd EXCEPT !.pc = "snap clients"]
            ELSE [cmd EXCEPT !.pc = "save", !.at = 1,
                    !.before = [live |-> live, sales |-> Shop(Visible), clients |-> clients],
                    !.touched = conn # NoFile]
  /\ Calm /\ UNCHANGED <<up, undo, archives, web, budget>>

----------------------------------------------------------------------------
(* create_backup *)

\* Each database is copied consistently, one after the other, ...
SnapClients ==
  /\ cmd.pc = "snap clients"
  /\ cmd' = [cmd EXCEPT !.pc = "snap sales", !.snap.clients = clients]
  /\ Calm /\ UNCHANGED <<up, undo, archives, web, budget>>

SnapSales ==
  /\ cmd.pc = "snap sales"
  /\ cmd' = [cmd EXCEPT !.pc = "snap files", !.snap.sales = Visible]
  /\ Calm /\ UNCHANGED <<up, undo, archives, web, budget>>

\* ... then the files; the services start again whatever happened.
SnapFiles ==
  /\ cmd.pc = "snap files"
  /\ cmd' = [cmd EXCEPT !.pc = "restart", !.snap.of = Range(live),
               !.todo = IF cmd.kind = "backup" THEN cmd.running ELSE {}]
  /\ Calm /\ UNCHANGED <<up, undo, archives, web, budget>>

RestartOne(s) ==
  /\ cmd.pc = "restart" /\ ToRun(s)
  /\ up' = up \cup {s}
  /\ cmd' = [cmd EXCEPT !.todo = @ \ {s}]
  /\ Calm /\ UNCHANGED <<undo, archives, web, budget>>

\* The archive gets its name when it is encrypted as a whole.
Publish ==
  /\ cmd.pc = "restart" /\ cmd.todo = {} /\ ~cmd.failing
  /\ archives' = archives \cup {[snap |-> cmd.snap, quiesced |-> cmd.quiesce]}
  /\ cmd' = IF cmd.kind = "backup" THEN Quiet
            ELSE [cmd EXCEPT !.pc = "stop", !.snap = Nothing, !.todo = cmd.running]
  /\ Calm /\ UNCHANGED <<up, undo, web, budget>>

GiveUp ==
  /\ cmd.pc = "restart" /\ cmd.todo = {} /\ cmd.failing
  /\ Over("failed") /\ Report("failed")
  /\ Calm /\ UNCHANGED <<up, undo, archives, budget>>

\* Stopping or copying fails: services are started again and nothing is
\* published.  Starting or encrypting fails: the command ends there.
BackupFails ==
  /\ cmd.kind = "backup" \/ cmd.pc # "stop"
  /\ \/ /\ cmd.pc \in {"stop", "snap clients", "snap sales", "snap files"}
        /\ cmd' = [cmd EXCEPT !.pc = "restart", !.failing = TRUE,
                     !.todo = IF cmd.kind = "backup" THEN cmd.running ELSE {}]
        /\ UNCHANGED web
     \/ /\ cmd.pc = "restart"
        /\ Over("failed") /\ Report("failed")
  /\ Fault
  /\ Calm /\ UNCHANGED <<up, undo, archives>>

----------------------------------------------------------------------------
(* restore *)

Content(f) == CASE f = "sales" -> main [] f = "clients" -> clients [] OTHER -> {}
Put(f, of, items) ==
  /\ live' = [live EXCEPT ![f] = of]
  /\ main' = IF f = "sales" THEN items ELSE main
  /\ clients' = IF f = "clients" THEN items ELSE clients

\* The file that is there is copied and noted before it is replaced.
Save ==
  /\ cmd.pc = "save" /\ cmd.at <= Len(Specs)
  /\ LET f == Specs[cmd.at]
     IN  undo' = Append(undo, [file |-> f, of |-> live[f], items |-> Content(f)])
  /\ Go("swap")
  /\ Calm /\ UNCHANGED <<up, archives, web, budget>>

Swap ==
  /\ cmd.pc = "swap"
  /\ LET f == Specs[cmd.at]
     IN  Put(f, Era, IF f \in {"sales", "clients"} THEN Archived ELSE {})
  /\ cmd' = [cmd EXCEPT !.pc = "save", !.at = @ + 1]
  /\ UNCHANGED <<wal, up, conn, undo, archives, web, budget>>

\* The log of the file that was replaced is noted and removed, last of all.
\* Mutant of Clear: the log of the former file stays beside the restored one.
ClearKept ==
  /\ cmd.pc = "save" /\ cmd.at > Len(Specs)
  /\ Go("validate")
  /\ UNCHANGED <<live, clients, main, wal, up, conn, undo, archives, web, budget>>
Clear ==
  /\ cmd.pc = "save" /\ cmd.at > Len(Specs)
  /\ undo' = Append(undo, [file |-> "wal", of |-> wal.of, items |-> wal.items])
  /\ wal' = Absent
  /\ Go("validate")
  /\ UNCHANGED <<live, clients, main, up, conn, archives, web, budget>>

ToStart == cmd.running \ (IF cmd.activate THEN {} ELSE {Extension})

Validate ==
  /\ cmd.pc = "validate"
  /\ cmd' = [cmd EXCEPT !.pc = "start", !.todo = ToStart]
  /\ Calm /\ UNCHANGED <<up, undo, archives, web, budget>>

StartOne(s) ==
  /\ cmd.pc = "start" /\ ToRun(s)
  /\ up' = up \cup {s}
  /\ cmd' = [cmd EXCEPT !.todo = @ \ {s}]
  /\ Calm /\ UNCHANGED <<undo, archives, web, budget>>

Complete ==
  /\ cmd.pc = "start" /\ cmd.todo = {}
  /\ Go("done") /\ Report("done")
  /\ Calm /\ UNCHANGED <<up, undo, archives, budget>>

\* restore_files fails and undoes what it did itself; any other step fails and
\* restore() first stops what runs.
RestoreFails ==
  /\ cmd.kind = "restore" /\ cmd.pc \in {"stop", "save", "swap", "validate", "start"}
  /\ cmd' = [cmd EXCEPT !.pc = "revert", !.failing = cmd.pc \in {"save", "swap"}]
  /\ up' = up \ cmd.running
  /\ Fault
  /\ Calm /\ UNCHANGED <<undo, archives, web>>

\* revert: from the last to the first.
Revert ==
  /\ cmd.pc = "revert" /\ undo # <<>>
  /\ LET u == Last(undo)
     IN  IF u.file = "wal"
         THEN wal' = [of |-> u.of, items |-> u.items] /\ UNCHANGED <<live, main, clients>>
         ELSE Put(u.file, u.of, u.items) /\ UNCHANGED wal
  /\ undo' = Front(undo)
  /\ UNCHANGED <<up, conn, cmd, archives, web, budget>>

\* Whatever does not start is passed over.
Back(dead) ==
  /\ up' = up \cup (cmd.running \ dead)
  /\ cmd' = [cmd EXCEPT !.pc = "failed", !.dead = dead]
  /\ Report("failed")
  /\ undo' = <<>>
  /\ Calm /\ UNCHANGED archives

Reverted ==
  /\ cmd.pc = "revert" /\ undo = <<>>
  /\ \/ Back({}) /\ UNCHANGED budget
     \/ Fault /\ \E s \in cmd.running : Back({s})

\* A file cannot be put back.  Inside restore_files the services start on what
\* is there; in restore() the error leaves them stopped.
RevertFails ==
  /\ cmd.pc = "revert" /\ undo # <<>>
  /\ Fault
  /\ up' = IF cmd.failing THEN up \cup cmd.running ELSE up
  /\ cmd' = [cmd EXCEPT !.pc = "failed", !.stuck = TRUE]
  /\ Report("failed")
  /\ undo' = <<>>
  /\ Calm /\ UNCHANGED archives

\* The worker kills a command after 1800 seconds and reports its failure.
Timeout ==
  /\ ~Idle /\ cmd.source = "web"
  /\ Fault /\ Over("killed") /\ Report("failed")
  /\ undo' = <<>>
  /\ Calm /\ UNCHANGED <<up, archives>>

\* A restart of the machine; every service is enabled.
Reboot ==
  /\ Fault
  /\ cmd' = IF Idle THEN Quiet ELSE [cmd EXCEPT !.pc = "killed"]
  /\ up' = Services /\ conn' = NoFile /\ undo' = <<>>
  /\ IF wal.of = NoFile THEN UNCHANGED <<main, wal>> ELSE main' = Visible /\ wal' = Absent
  /\ UNCHANGED <<live, clients, archives, web>>

Next ==
  \/ \E o \in Orders : Provision(o) \/ Fulfil(o)
  \/ JobOpen \/ JobCommit \/ JobClose
  \/ \E s \in {"shell", "web"}, q \in BOOLEAN : StartBackup(s, q)
  \/ \E sound \in BOOLEAN : Upload(sound)
  \/ \E s \in {"shell", "web"}, sound, a \in BOOLEAN : StartRestore(s, sound, a)
  \/ \E s \in Services : StopOne(s) \/ RestartOne(s) \/ StartOne(s)
  \/ Stopped \/ SnapClients \/ SnapSales \/ SnapFiles \/ Publish \/ GiveUp \/ BackupFails
  \/ Save \/ Swap \/ Clear \/ Validate \/ Complete
  \/ RestoreFails \/ Revert \/ Reverted \/ RevertFails \/ Timeout \/ Reboot

Spec == Init /\ [][Next]_vars

----------------------------------------------------------------------------
(* Properties *)

TypeOK ==
  /\ live \in [Files -> 1 .. Era]
  /\ up \subseteq Services /\ conn \in 0 .. Era
  /\ cmd.running \subseteq Services /\ cmd.todo \subseteq cmd.running
  /\ wal.of = NoFile => wal.items = {}
  /\ undo # <<>> => cmd.kind = "restore"
  /\ \A i, j \in DOMAIN undo : undo[i].file = undo[j].file => i = j

\* restore() undoes what it did when it fails at whatever step: every file is
\* the one that was there and no order or client of before is missing, unless
\* a file could not be put back or a job used sales.db meanwhile.
FailedRestoreUndone ==
  cmd.kind = "restore" /\ cmd.pc = "failed" /\ ~cmd.stuck /\ ~cmd.touched =>
    /\ live = cmd.before.live
    /\ cmd.before.sales \subseteq Visible /\ cmd.before.clients \subseteq clients

\* Whatever ran before a restore that failed runs after it, except a service
\* that itself does not start.
ServicesBack ==
  cmd.kind = "restore" /\ cmd.pc = "failed" /\ ~cmd.stuck => cmd.running \ up \subseteq cmd.dead

\* A restore that comes to the start of the services replaced every file, and
\* no entry of the former sales.db comes into the restored one.
RestoredWhole ==
  cmd.kind = "restore" /\ cmd.pc \in {"start", "done"} /\ ~cmd.touched =>
    /\ Range(live) = {Era}
    /\ \A e \in Visible : e[2] = Era

\* As soon as a restore has replaced a file, and however it ends or is killed,
\* an archive holds every order and client there was when it began.
SafetyHolds ==
  cmd.kind = "restore" /\ live # cmd.before.live =>
    \E a \in archives : cmd.sold \subseteq a.snap.sales /\ cmd.had \subseteq a.snap.clients

\* An archive taken with the services stopped holds the client of each order
\* it holds, unless its files are of several eras.
QuiescedIsSound ==
  \A a \in archives : a.quiesced =>
    \A g \in a.snap.of : a.snap.of = {g} =>
      \A e \in Shop(a.snap.sales) : e[2] = g => e \in a.snap.clients

\* The bot is not started on a restored server before the administrator says
\* so, as another server may still run it.
BotHeldBack ==
  cmd.kind = "restore" /\ cmd.pc \in {"start", "done"} /\ ~cmd.activate => Extension \notin up

\* A restore leaves either all it was to bring or all that was there, with an
\* archive to return to, however it ends (restore, revert).
Inv ==
  TypeOK /\ FailedRestoreUndone /\ ServicesBack /\ RestoredWhole /\ SafetyHolds /\ BotHeldBack
=============================================================================
