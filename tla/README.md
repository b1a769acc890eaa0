# A verification project for Masih-panel

TLA+ models of the program that sells, delivers and administers VPN subscriptions
through a Telegram bot and a web panel (`src/runtime/`), with the TLC runs that check
them on small instances and TLAPS proofs of theorems about them for every instance.

To repeat a run: `tlc -config X.cfg M`, with the pairs of the table in
[Runs](#runs). To repeat a proof: `tlapm SalesProofs.tla` and so on.

## 1. The system

Every part keeps its state in one SQLite file, `sales.db`, except where noted. Four
kinds of process write it:

- the bot worker (`sales_worker.py`), one process behind a file lock. `main` runs
  `tick` for ever: replay of saved updates, poll of Telegram, provisioning, notices,
  delivery of the outbox;
- one short process for each request of the web panel (`sales.admin`, called by the
  sidecar) and for each step of an online payment, in a `BEGIN IMMEDIATE` transaction;
- the channel manager's worker and the AI media worker, run by timers; each opens the
  database for its own transaction, the channel manager's for the whole of a run;
- the importers of films and music, which write the tables of their catalogues and of the
  media library and commit in many places.

Two more work beside it: `worker.py` with `unified.py` and `manager.py` keeps the
accounts of the VPN servers in step with `x-ui.db`, and `full_backup.py` stops the
services and replaces files.

An update of the bot is handled in one write transaction, which a `ValueError` rolls
back. Thus *handlers* interleave and are atomic; what is not atomic is whatever
involves another store: 3x-ui (`Panel.call`, HTTP), the OpenVPN/OpenConnect manager
(`vpn`), and Telegram itself (`tg`).

| Component | State | Operations | What is hard |
|---|---|---|---|
| Shop (`sales.py`, handlers of `sales_worker.py`, menus of `sales_bot_admin.py`) | `users` (with the pending prompt), `plans`, `quotes`, `orders`, `services`, `ledger`, `topups`, `receipt_orders`, `coupons`, `redeemed`, `settings` | quote, purchase by wallet or card, bulk purchase, renewal, trial, top-up, gift code, transfer, receipt and its decision, cancellation, retry, editing of plans, coupons, users, settings | quotes used minutes later, several buyers for the last place, two administrators for one receipt, buttons that stay in the chat, repeated requests |
| Provisioning (`provision`, `tick`) | `orders.error` (the stored target), `provision_failures`, `services`, clients of 3x-ui | target, panel write, commit, failure record, backoff, rotation of credentials, deletion | three stores written at different moments, crash and lost answer between them, retries with old data, the window of 30 rows |
| Outbox (`enqueue`, `deliver_outbox_message`, `tick`) | `outbox` | insertion once per key, delivery, failure, dead letter, retry, cancellation, the phone gate, pause of channel posts | crash between sending and recording, rows cancelled while fetched, rows that hold others up |
| Intake of updates (`tick`, `retry_failed_updates`) | `updates`, `bot_retry_updates`, the offset | poll, replay, record | crash between poll and handling, failing updates, Telegram's own repetition |
| Display names | `quotes`, `orders`, `services` | reservation, suggestion | a label is free and reserved at the second a quote ends |
| Online payments (`payment_create`, `payment_verify`) | `payments` | create, verify | callback lost or repeated |
| Channel manager (`channel_manager.py`) | `channel_manager_*` | drafts, approval, edits, slots, delivery, pause, configuration | post and outbox row are two states of one thing; a run of the timer locks the bot out |
| Media library (`media_library.py`) | `media_items`, `playlists`, `media_likes`, `media_reports` | submission by questions, publication, likes, lists, reports and decisions | old buttons stay in the chat, points once per item and under daily limits, two tables for one vote |
| Social club (`social.py`) | `social_*`, `users` | profiles, lists, follows, blocks, queue, invitations, chats | two users matched at once, charge once per chat at the registered price, blocks and bans in between |
| AI shop and its use (`ai_*.py`, `gamification.py`) | `ai_sale_*`, `ai_media_jobs`, `ai_usage`, `loyalty_points` | plans, stock, orders, credits, questions, media jobs, adjustments | charge after delivery, checks minutes before the charge, last code, last credit |
| Accounts of VPN servers (`unified.py`, `manager.py`, `routeros6.py`) | `masiha_accounts`, `masiha_sessions`, users of the manager, `x-ui.db` | hooks, samples, crediting, reconciliation, expiry | samples late or twice, ids used again, the panel changes beneath a pass, failing commands |
| Films and music (`film_*.py`, `roz*.py`) | `film_*`, `roz_*`, `media_items` | discovery, staging, upload, poster, publication, announcement, retries | kills between any two commits, two discoveries on one run, threads on one queue |
| Backup and restore (`full_backup.py`, `web-backup-worker.py`) | files, databases, services | pack, verify, restore, revert, jobs of the panel | failure or kill half way, WAL files, jobs that are not stopped |

`PROJECT.json` lists every component with its status, and under `hazards` each place
where the code is hard to test, with the properties that would catch it going wrong.

What makes the components correct:

- *Shop.* Money is neither made nor lost: a wallet is the sum of its ledger, an order
  is worked on exactly when it was paid for once. Nothing is oversold. A coupon is used
  once. A quote binds the shop. A service has one order in progress.
- *Provisioning.* Volume is granted once per order, whatever fails; paid orders are
  delivered or visibly given up.
- *Outbox.* What is recorded as sent was shown; nothing is repeated without a cause;
  nothing is held up for ever.
- *Intake.* No update is lost, none takes effect twice, each is dealt with: all but
  those the code drops because a peer was not reached.
- *Club and library.* Nobody is in two conversations or in one with somebody blocked; a
  conversation costs what was registered. Points are given once and under the limits;
  what was decided about a file stands.
- *Channel.* Followers see approved texts only, once; withheld posts stay withheld.
- *AI.* A request is charged once and only for a result that arrived; orders are paid
  once and final when decided; no balance is overdrawn.
- *Backup.* A restore succeeds as a whole or is undone as a whole.
- *Importers.* What is staged is shown in the end, announced once, served as a whole file
  and not brought back once removed.
- *Accounts.* Traffic is counted once; servers come to agree with the panel.

## 2. The modules

| Module | Models |
|---|---|
| `Sales` | the shop: every transaction on quotes, orders, wallet, receipts, coupons, plans, users, settings |
| `SaleContract` | what the shop promises about one order; `Sales!KeepsContract` states that Sales implements it |
| `MCSales` | values of Sales' constants that a configuration cannot write, and the symmetry |
| `SalesProofs` | types of the shop, payment and receipts of an order, and that Sales implements SaleContract, for every value of the constants |
| `Sums` | lemmas about sums over finite sets |
| `Provision` | delivery of paid orders: the loop, the panel, failures, crashes |
| `ProvisionProofs` | what panel and rows say of the volume, for every number of orders, attempts and crashes |
| `Outbox` | the outbox and its delivery loop |
| `OutboxProofs` | what the rows say of the messages readers saw, for every number of messages and crashes |
| `UpdateQueue` | polling, replays and the record of handled updates |
| `UpdateQueueProofs` | the safety of the intake, for every value of the constants |
| `Messages` | outbox and intake beside each other |
| `Social`, `Matching` | conversations of the club, and what they promise: `Social!KeepsContract` states that Social implements Matching |
| `Library` | submissions, votes, reports, points and notices of the media library |
| `Community` | club and library beside each other |
| `SocialProofs` | places, prices, blocks and matching of the club, points and decisions of the library, for any number of users |
| `Channel`, `MCChannel` | the channel manager with its rows of the outbox |
| `Ai`, `MCAi` | the AI shop, its credits and the worker for media |
| `Backup` | backup and restore of a server that works |
| `Upkeep` | AI section and backup beside each other |
| `AiProofs` | what is sold and charged in the AI section, for any number of orders and requests; what a restore and a backup leave, for any number of commands, failures, kills and restarts |
| `Films`, `Catalogue`, `Music` | upload of films, their discovery, import of music |
| `Accounts` | accounts, sessions and quota of the VPN servers |
| `Services` | films, catalogue, music and accounts beside each other, and what is claimed of them together |
| `TimerProofs` | what followers of the channel see, what the imports show, what the panel counts, for every value of the constants |
| `MCClub`, `MCAiBackup`, `MCTimers` | instances of the modules above for TLC, several to a run |

The modules meet where one component hands something to another: Provision's `Place`,
`Decide` and `Retry` are Sales' `PlaceOrders`, `DecideReceipt` and `RetryOrder` seen
from the loop, and Sales' `Fulfil` and `FailProvision` are Provision's `Commit` and
`RecordFailure` seen from the shop; UpdateQueue's `HandleOk` is any one action of a
buyer in Sales; whatever any of them says is Outbox's `Enqueue`. Channel composes the posts with their
rows of the outbox and with the bot that sends them. `Films!Stage` is what Catalogue's
`StageTitle` calls, and `Films!Remove`, `Music!Remove` are Library's decisions.

`Messages`, `Community`, `Upkeep` and `Services` put components that share no row into one run: the
variable `turn` chooses in the initial state which of them runs, and the others stay where
they start. So no interleaving is explored twice, and properties speak of the component
whose turn it is. An invariant of such a module is a conjunction of named parts
(`ClubInv`, `Library!Inv`, `ChannelInv`, `AiInv`, `Backup!Inv`, `ImportInv`; likewise
`PanelInv` of Provision and `DeliveryInv` of Outbox); each part is stated and commented
where it is defined.

### Sales

A table is a function from ids to rows and a row that is not there has the status
`"none"` (or is `NoQuote`). The variables carry the names of the tables. `users[u].state`
is the prompt the bot is waiting on; `AppliedCoupon` reads the coupon that hides there,
as `order` does. `OrderIds` follows `purchase_quote`: order *i* of quote *q* is
`<<q, i>>`, so that pressing a button twice names the same order; the one trial of user
*u* is `<<"trial", u>>`. `PlaceOrders` is a whole call of `purchase_quote`, that is
`order` for each index in one transaction: the checks (`Orderable`), the prices
(`OrderPrice`; only the first order takes the coupon), the debits and the rows.
`money` is `Money`: a reference that is posted already is ignored and a negative balance
aborts the transaction, which as a guard disables the action. The references of the
ledger are tuples that say what was paid for.

Labels, texts, protocols, volume, duration and inbounds of a plan are left out; a
change of them makes a plan different from a quote's snapshot just as a change of price
does. Loyalty points of a purchase are left out. Seconds are ticks of `now`; with
`QuoteLife = 0` a quote lives until the next tick.

### Provision

The worker is one thread, modelled by `step`: it is `"idle"` while it handles updates;
then it fetches a `batch` of rows *as they are at that moment* and works on each:
`Pick` stores the target and commits, `WritePanel` calls 3x-ui, `Commit` writes service
and order. `Fail` covers each of the exceptions between these, `Crash` loses the
worker's memory. Administrators' requests are other processes and may come at any
`step`; buyers' updates only when it is `"idle"`. The environment also switches inbounds
off and on (`SwitchInbound`), edits what the plan selects, and loses answers of rotations
and deletions (`RotateUnsaved`, `DeleteUnsaved`).

Volume is counted in orders: a target is "what the row holds plus one", absolute, as in
the code. That is the point of the design: writing it twice is harmless, computing it
twice is not.

### Outbox and UpdateQueue

Outbox has the same shape: `batch` is what was fetched, `outcome` what became of the
transmission under way, and other processes change `rows` beneath both. `delivered`
counts what Telegram showed. `Held` is the phone gate: the query of the loop passes over
rows whose reader has shared no number, except channel posts and what the kind
`"prompt"` stands for (prompts of the gates, news of a first contact, the channel
manager's answers and reviews). The setting that keeps notices of new media from being made
is left out, since a row may be enqueued or not at any time.

In UpdateQueue, `work` is what a poll or a replay holds and `effects` counts how often the
transaction of an update was committed. `refusals` tells why the user of an update was told
that it failed. An `"invalid"` update was refused for good (`Settled`); one that is
`"unreachable"` is `Dropped`, because the panel, Telegram or the manager of the VPN services
was not reached: the code answers both alike. The properties of the intake name `Dropped` as
their exception, and `UpdateKept` states that there is none, which is the run
`UpdateDropped`.

### Social, Library

Handlers are atomic and a `ValueError` is a guard. `prompt` is `users.state`, the
question the user's next message answers; `Pressed` is what any button of the club does
first, leaving queue and chat. `StartMatching` is the whole handler: candidates in the
order of joining, those who cannot pay dropped from the queue, the first who suits
opened with. A search looks at the first `Limit` who wait for the same kind of
conversation (100 in the code; `Candidates`), and `Kept` is the queue without those who
leave it. `hadBan` is a history variable of who has ever been banned, since a ban
skips candidates without removing them.

Library's `item` holds drafts and published rows, `prompt` the question asked; buttons of
earlier questions may be pressed at any time, so `Finish`, `Skip` and the others are
enabled by what the handler checks, not by the question. `ledger` is `loyalty_points` with
its unique reference; `Award` is the whole of `award`.

### Channel

The clock counts units longer than a run of the timer. `running` says that the timer's
run holds SQLite's write lock: it spans `verify` and the call of the model, so that the
bot may send meanwhile (`Send`) and find the database locked when it records
(`Locked`). `approved` and `shown` are history: texts an administrator approved, and what
followers saw and when. `excused` are posts with a lost answer, an expired lock or a
dead letter an administrator sent again.

### Ai

One customer. A plan's row is an index into the versions of its price and credits, and an
order keeps its version as the code keeps its snapshot. `worker` is the media worker
between its transactions: `Create`, `Poll`, `Send`, `Charge`, with `Kill` between any two.
A failing lookup after the charge keeps the charge (`Ended`), as the code does.

### Backup

A file is known by its era: 1 is that of the files the server came with, and every
restore brings files of an era of its own (`Era`), so that files of two restores are
never taken for one another. An entry of a database is the pair of an order and the era
of the file it was committed to; `main` and `wal` are sales.db and the log beside it. One action per file operation of `restore_files`
(`Save`, `Swap`, `Clear`), per service, and per undo step (`Revert`); `RestoreFails`,
`Timeout` and `Reboot` may come at each of them. `JobOpen`, `JobCommit` and `JobClose` are
jobs of timers, which a restore does not stop.

### Films, Catalogue, Music

`Films` has one action per commit of `process_one`, `recover_uploaded` and
`retry_missing_covers`; `at` is where the worker is and `Kill` may come anywhere.
`Finalize` is `finalize_episode`: shown when every staged quality has ended, one of them
well, and the poster is there. 
`Catalogue` has two processes over one table of runs. None of them locks the database
before it reads, so each is cut there: `Look` sees whether a run is active, and `Resume` or
`ReserveRun` writes later, when the run may have ended or the other process have reserved one
too; `PickBatch` reads the discovered rows and `ClaimBatch` marks them, whoever else has
read them. `StageTitle` stages one title and `Record` writes what became of it in the next
transaction. The site publishes articles (`Publish`) and adds files to old and new ones
(`Post`). A run goes through the list of articles from the newest on (`place`, `Listed`),
which moves when one is published meanwhile; the daily run ends after `Limit` of them, 300 in
the service's unit, the initial one goes through all. The site has two lists, for films and
for series, that are read one after the other in the same way; the model has one, with
pages of one article. What the row of a run says of the staging (`add_status`) is only shown
and left out.

`Music` has threads over one queue (`Claim` takes an article in a transaction of its own),
the restart by systemd and the pass for missing covers. Its start is cut at each commit: `Start`
begins the run, `Index` is a commit for each sitemap of the source (and `Kill` the source that
does not answer), `Restore` frees the articles of an interrupted run, `HideLinks` hides the
links of the former importer and starts the threads.

### Accounts

`native` are the panel's rows with their creation time (`gen`), since the panel uses an
id again; `account` and `user` are what the servers hold; `session` has what was
transferred and what was credited. `flying` are hooks of ended sessions that have read
their counters and not yet committed. The worker's pass is cut where it commits or calls
something: `ReadRows`, `Sweep`, `Take`, `Handle`, `Break`, `Refuse`.

## Runs

| Run | Module | Instance | What it shows |
|---|---|---|---|
| `SalesCheckout` | MCSales | 2 buyers, 1 plan with one place, 1 code, 2 quotes, 2 receipts | `TypeOK`, `PaidFromOneSource`, `ReceiptMatchesOrder`, `CouponsAccounted`, `CapacityRespected`, and that the shop implements `SaleContract` (`KeepsContract`) |
| `SalesMoney` | MCSales | 2 users of whom one invited the other, a plan of 2 places and one of 1, bulk of 2, discount and gift coupon, a repeated credit, a transfer, a reseller switched on and off | `BalanceIsLedger` |
| `SalesPlans` | MCSales | 1 buyer, 3 quotes that expire, 1 receipt, a plan that is edited, hidden, deleted or becomes the trial | `PriceAsQuoted`, `PlacesKept` |
| `Provision` | Provision | 2 orders (the second new or a renewal of the first), 2 inbounds, 2 attempts, a rotation, a crash | `VolumeMatchesSales`, `PanelInv`, `DeliveredOrExhausted` |
| `Messages` | Messages | 2 rows of any kind, 2 attempts, one lost answer, one crash; or 4 updates, polls of 2, replays of 1, 2 crashes | `DeliveryInv`, `EveryMessageSettles`, `NothingLost`, `HandledOnce`, `EveryUpdateSettles` |
| `Club` | MCClub | 3 users of whom one administers, 2 interests, 2 prices, one invitation and one edit; or 2 users, a file and a list, 2 votes, reports, switches or days | `ClubInv`, `NoChatAcrossBlock`, `NoMatchMissed`, `PaidAsRegistered`, `KeepsContract` (Matching), `LibraryInv`, `DecisionsStand` |
| `Channel` | MCChannel | 2 channels, a day of 2 slots, 2 texts, 4 acts, 2 faults | `ChannelInv`, `WithheldNotShown`, `QueueDrains` |
| `AiBackup` | MCAiBackup | a plan of each kind, 2 orders, 1 code, 2 requests, 5 acts, a fault; or 2 commands, a job of a timer, an order and 2 faults, the second kept for the undoing of a restore | `AiInv`, `ChargedForResult`, `Settled`, `BackupInv`, `QuiescedIsSound` |
| `Timers` | MCTimers | 3 qualities of 2 episodes; 2 articles of which the daily discovery reads the newer, the older with a file to come, and both discoveries; 2 articles of music and 2 threads; a client whose id comes again and a connection; a fault each | `ImportInv`, `FilmRemovedStays`, `FilmJobsSettle`, `FilmShownUndisturbed`, `OfferedIsStaged`, `MusicSettles`, `UsageCounted`, `Converges` |

Three more runs end in a violation, where the code does something else than a text of the
repository says:

| Run | Property | What TLC finds |
|---|---|---|
| `ProvisionStarved` | `PaidIsAttempted` | The 30 oldest unfinished orders are fetched *before* those that used up their attempts are filtered. Once 30 such orders are left in review, later paid orders are never attempted (`README.md:100` of the repository promises seven attempts). |
| `UpdateDropped` | `UpdateKept` | A handler that does not reach the panel, Telegram or the manager of the VPN services raises `ValueError` (`sales.py:198`, `:227`, `:328`). `tick` takes it for a mistake of the user: the update is recorded as handled and the offset moves on (`sales_worker.py:739-745`), and a replay does the same (`:678-683`). `docs/TELEGRAM_BOT_FA.md:162` says that an update that fails on a temporary error of the network or the panel is not confirmed and deleted. |
| `AiMediaCharged` | `FailureIsFree` | A job is delivered and charged, and then the model is looked up once more; when it was switched off meanwhile or the last credit of its plan was just taken, the job ends as failed and the customer reads that nothing was deducted (`ai_media.py:241`, `:285`). |

### Observations

What reading and modelling showed beside these runs. The properties say how far they
except it.

*Shop, delivery, messages.* The wallet button of a quote, pressed after the card button,
says that the order is being built although it still waits for its receipt
(`sales_worker.py:492`, `sales.py:488`). A retry writes the stored
target, so credentials and a name the owner changed in between come back
(`sales.py:547`, `sales_worker.py:587`). A renewal placed after an inbound was added to the
plan fails at each attempt, because updating a client attaches none
(`sales.py:558-562`); it ends in review with its attempts used up, which
`DeliveredOrExhausted` accepts as an end. A cancelled notification in the worker's batch is still sent and,
when the attempt fails, pending again (`sales_worker.py:814`, `sales.py:850`). While the
phone gate is on, notices to administrators without a number wait
(`sales_worker.py:785`; `docs/TELEGRAM_BOT_FA.md:101`).

*Club and library.* Likes of files and of profiles share a daily limit only when the
latter are rewarded. With announcements to everybody on, a publication by link reaches
nobody. A second report after a dismissal is confirmed and not stored. Accepting an
invitation does not look at a ban of the one who asked, and a ban in the web panel leaves
an open conversation open. Matching looks at the first hundred who wait.

*Channel.* A run of the timer holds the write lock during network calls. A post queued
late may be shown the next day. A failed post stays failed when its dead letter is sent
again. The distance between posts is kept when they are queued, not when they are
delivered. A post queued for a former channel is shown there after the channel was
changed (`channel_manager.py:403`).

*AI.* A video that the provider never finishes blocks all later jobs, of which one at a
time is looked at, oldest first. When the points of a job are spent during its minutes, the result is
delivered free and the job marked failed. A kill between delivery and commit delivers
twice and charges once.

*Backup.* A job of a timer that opens sales.db in the window of `full_backup.py:523`
replays the former log into the restored file. After the 1800 seconds of the web worker a
restore is killed without a rollback. A revert that fails inside `restore_files` starts
the services on files restored in part. `BackupInv` excepts restores that met the first
(`touched`) or the last of these (`stuck`). After a reboot a restored server starts the bot
when its unit is enabled, and a job of the panel stays "running".

*Importers.* A film whose jobs have ended is forgotten when the worker is killed, or the
poster fails, between the last commit and `finalize_episode`; the next quality or poster
brings it back, if one comes; `FilmShownUndisturbed` therefore claims nothing once a
fault has happened. A file that is added to an article older than the newest 300 of its
list is read by the initial service only, which nobody has to start
(`deploy/masiha-film2media-discovery.service:11`, `film_catalog.py:208-215`). Links of the
former importer of music are shown until the first run is past its index, so also as long as
the source does not answer (`rozmusic_importer.py:221`, `:402`); and one that an administrator
removed becomes a draft like the others, is imported and published again (`:227`). A killed pipeline leaves its run active, and the daily
service does nothing until the initial one takes it over. Ten posters that never load
keep later ones from being retried. `film2media_discovery.py:120` offers
`sendDocument` where `film_importer.py:218` demands `sendVideo`.

*Accounts.* One failing command ends the pass for all later clients. A kill between the
commit of a switched-off account and its disconnection leaves the session alive, since
the next pass does not look at it again.

### The bounds, and why they are enough

Named bounds: `MaxTime`, `MaxQty` and the sets of ids and values in Sales; `N`,
`MaxRotations`, `MaxCrashes` in Provision; `N`, `MaxPosts`, `MaxLost`, `MaxCrashes` in
Outbox; `MaxUpdates`,
`MaxDeaths` in UpdateQueue. `Limit`, `MaxAttempts`, `PollLimit` and
`RetryLimit` are the program's own constants (30 and 7; 15 and 16; 20; 10), made small so
that the limit is reached. In the other modules: `MaxAsks`, `MaxEdits` (Social),
`MaxActs`, `Authors` (Library), `Days`, `End`, `MaxActs`, `MaxFaults` (Channel),
`MaxOrder`, `MaxUpdate`, `MaxActs`, `MaxFaults`, `MaxTime` (Ai), `MaxFaults`, `MaxJobs`,
`MaxCommands` (Backup; `Breakdowns`, `Jobs`, `Commands` in Upkeep), `MaxFaults` (Films, Catalogue, Music; `MaxFailures` in Services), `MaxBytes`, `MaxTime`,
`MaxActs`, `MaxFaults` (Accounts); `Spacing`, `Valid`, `Recheck`, `MaxTries`, `Retries`,
`CoverBatch`, `Patience`, `Quota`, `Newest` (Catalogue's `Limit`, 300) and the caps of Library are the program's own, made
small.

- Two buyers, one place and one code are what a race for a place or a coupon takes; a
  third buyer repeats the role of the second (and users are interchangeable, hence the
  symmetry). Prices are even, so that the discounts of 50 percent are exact in some
  orders and rounded in others; coupons have one or two uses, so that the last is taken.
- Three quotes allow a purchase and two competing renewals of the service it made.
- Two orders are a service and its renewal, or two services that compete for attempts;
  one crash and one rotation suffice to separate any two writes. Two attempts are a
  first and a last.
- Two inbounds with the selections {i1} and {i1, i2} are an order made before and one
  made after an inbound was added to the plan; i1 may be switched off.
- Four updates in polls of two leave a full poll behind a saved update.
- A channel posts at most three times a day, far fewer than the 15 rows of a batch:
  `MaxPosts < Limit` is an assumption of Outbox. Without it, paused posts would fill the
  batch.
- Three users are a pair and one who interferes, which is what a second match, an
  invitation accepted late or a block takes; one of them pays nothing. Two users of the
  library are the owner and his follower, voter and reporter; two acts are a vote and
  its withdrawal, a report and a second one, or a switch between two publications.
- Two slots and the morning after are a post in time, one that is late and one that
  expires. Four acts are an approval, a pause, a resumption and an edit.
- Five acts in Ai are an order, its payment, its decision and two changes around them; two
  requests compete for the last credit; a fault is a lost answer or a kill.
- Two commands are a backup and a restore of a server in between, or two restores; two
  faults are a failing step and a failing rollback of it.
- Two qualities of one episode and one of another of the same series are what a late
  quality, a common poster and a removal take; two attempts are a first and a last. One
  fault separates any two commits of the model's, and every place of it is explored.
- Two articles of which the daily run reads one are one that is among the newest and one
  that is not any more; a list that moves while it is read; an article that both runs
  have in hand. One file (`Offers`) suffices for an article to have changed between two runs.
  The initial service is not started again once it has come to its end. Two rows of
  `film_scan_runs` are as many as two processes hold, and the row of a run that is over is used
  again.
- Two articles of music are one that was a link and one that was not, or two of either kind;
  two threads are what a race for one article takes.
- One client id that comes again and one connection suffice for a name that outlives its
  client, a late hook and a quota that runs out during a pass.

### Fairness

`main` calls `tick` for ever and is started again after a crash, so a worker that can
take a step takes one: weak fairness of `Worker`. Time passes: weak fairness of
`BecomeDue`. In UpdateQueue, a replay takes due updates in the order of `next_try`, so
one that can always be chosen again is chosen in the end: strong fairness of the choice.
An update is not assumed to fail at *every* attempt; `EveryUpdateSettles` speaks of any one
update (`watched`), and the others may fail for ever. Nothing is assumed of buyers and
administrators, except in Outbox, where the liveness properties say "as long as
administrators do not put dead letters back for ever".

In Channel the timer runs again two minutes after a run (`BeginRun`, `EndRun`), the bot
sends what is sendable (`Send`), and its record, which waits for the lock of one run after
another, succeeds in the end: strong fairness of `Record`, as 30 seconds without the lock
are a fault of which there are finitely many. In Films the worker's timer and the passing
of an hour (`Rest`); in Catalogue each process that works, and the timer of the daily
one only (`Look`), as the initial one is started by hand; in Music each thread, the end of the
index and what follows it (`Restore`, `HideLinks`), systemd's restart and the pass for covers,
where a source that does not answer is a fault of which there are finitely many; in Accounts the worker's pass, every fifteen seconds, and the
commit of a hook that has begun. `Services` states the same conditions for the component
whose turn it is. `FilmShownUndisturbed`, `OfferedIsStaged` and `Converges` except
behaviours with a fault, for the reasons listed under the observations; `FilmJobsSettle`
and `MusicSettles` hold with faults.

## What is proved

| Theorem | Module | States |
|---|---|---|
| `SalesTypes` | SalesProofs | `Spec => []TypeOK` |
| `SalesPaid` | SalesProofs | `Spec => []PaidFromOneSource` |
| `SalesReceipts` | SalesProofs | `Spec => []ReceiptMatchesOrder` |
| `SalesContract` | SalesProofs | `Spec => KeepsContract`: Sales implements SaleContract |
| `SalesPrices` | SalesProofs | `Spec => []PriceAsQuoted` |
| `SalesCoupons` | SalesProofs | `Spec => CouponsAccounted` |
| `SalesPlaces` | SalesProofs | `Spec => []PlacesKept` |
| `SalesCapacity` | SalesProofs | `Spec => []CapacityRespected` |
| `SalesBalance` | SalesProofs | `Spec => []BalanceIsLedger` |
| `ProvisionVolume` | ProvisionProofs | `Spec => []VolumeMatchesSales` |
| `ProvisionPanel` | ProvisionProofs | `Spec => []PanelInv` |
| `OutboxDelivery` | OutboxProofs | `Spec => []DeliveryInv` |
| `QueueTypes` | UpdateQueueProofs | `QueueSpec => []QueueTypeOK` |
| `NoUpdateLost` | UpdateQueueProofs | `QueueSpec => []NothingLost` |
| `NoUpdateRepeated` | UpdateQueueProofs | `QueueSpec => []HandledOnce` |
| `RecordTrue` | UpdateQueueProofs | `QueueSpec => []RecordIsTrue` |
| `SocialClub` | SocialProofs | `Spec => []ClubInv` |
| `SocialBlocks` | SocialProofs | `Spec => []NoChatAcrossBlock` |
| `SocialPrices` | SocialProofs | `Spec => PaidAsRegistered` |
| `SocialContract` | SocialProofs | `Spec => KeepsContract`: Social implements Matching |
| `SocialMatching` | SocialProofs | `Spec /\ [](Len(queue) <= Limit) => []NoMatchMissed` |
| `LibrarySafe` | SocialProofs | `CommunitySpec => []LibraryInv` |
| `LibraryDecisions` | SocialProofs | `CommunitySpec => DecisionsStand` |
| `AiSold` | AiProofs | `Spec => []AiInv` |
| `AiCharged` | AiProofs | `Spec => []ChargedForResult` |
| `AiSettled` | AiProofs | `Spec => Settled` |
| `RestoreWhole` | AiProofs | `UpkeepSpec => []BackupInv` |
| `QuiescedArchive` | AiProofs | `UpkeepSpec => []QuiescedIsSound` |
| `ChannelSafe` | TimerProofs | `Spec => []ChannelInv` |
| `ChannelWithheld` | TimerProofs | `Spec => WithheldNotShown` |
| `ServicesImport` | TimerProofs | `ServicesSpec => []ImportInv` |
| `ServicesUsage` | TimerProofs | `ServicesSpec => []UsageCounted` |
| `ServicesRemoved` | TimerProofs | `ServicesSpec => FilmRemovedStays` |

They hold for every value of the constants, from the assumption that each module
declares (`SalesAssumption`, `ProvisionAssumption` and so on): types of the constants,
that `None` is none of the ids, that a channel posts fewer rows than a batch of the
outbox holds, that its slots are hours of the day and its posts some time apart (`Spacing`
is two hours), that a source's refusal is forgiven less often than a job is tried
(`Patience`, 3 times of 8), and that there are finitely many sessions, whose bytes are
added up. Only `SocialMatching` has a hypothesis of its own. A search looks at the first
hundred who wait; if more wait and the first hundred suit nobody, two users further back
who fit both go on waiting, in the code as in the model.

*Types of the shop.* `TypeOK` is not inductive: a step copies `quotes[q].plan` into an
order, and that is a plan only when the quote exists. `TypeInv` adds `RowsFilled`: a row
that exists names a user, a plan, a service. That no balance is negative rests on the
check in `money` and in `PlaceOrders`, that the uses of a coupon do not become negative
on `Redeemable`.

*Payment.* Both properties speak of one order at a time, and so do the proofs: a step
leaves an order alone, or it is the step that moves it. Two facts make them inductive.
`Early`: no receipt is linked to an order that does not wait for a decision yet; without
it a receipt from before could be decided after the wallet had paid. `AllOrNone`: the
orders of a quote are placed together, so that a purchase whose first order does not
exist writes only rows that were not there and, in particular, no order twice.

*The contract of an order.* The refinement maps status to phase and the rows of ledger
and receipts to sources. A step of the shop is one of three things for SaleContract: it
leaves the orders alone, moves one, or places the orders of a quote (`OrderSteps`). Which
source an order has need not be followed step by step, as `PaidInv` tells it from status
and debits (`SourceIs`); what is added is that the trial has neither debit nor receipt.

*Prices, coupons, places.* These relate the orders to plans, quotes and coupons that are
edited meanwhile, so all steps are first put into the forms in which they change tables
(`TableSteps`). `Quoted`: the orders of a quote are for its plan and no dearer
than its snapshot; deleting a plan deletes its quotes, but only when nothing was ordered.
For coupons `CouponHeldOnce` is inductive beside the types: what restores a coupon
cancels the order that held it. For places, `PlanRows` says that the plan of an order is
still there, since a plan deleted and made anew would start with places that are sold;
`ServicesOwned` says that a service and all its orders are of the user whose order made it.

*Wallets.* `Posted` is a sum over a set of rows. `Sums` shows what the
operator of the community modules adds up to, whatever order it takes: each new row adds
its amount (`SumRow`). A bulk purchase posts several rows at once; after *k* of them the
buyer has paid for the first and *k* - 1 times for one of the others, which at the last
is `Total`. That a new row is new rests on `PaidInv` for debits (no order is debited
before it exists) and, for transfers, on `TransfersPaired`: the row of the receiver is
never posted without that of the sender, for which alone the code looks. The rest goes
through `money`, which looks by itself.

*Provisioning.* A target is absolute, so everything rests on when it was computed. A
stored target is one more than what was delivered (`TargetsDue`), which stays true only
because no other order of the service is delivered in between (`OneOpen`). Then the panel
is where the rows are or one order ahead, and in that case the order that put it there
still waits with its target (`PanelExplained`), which is why a repeated attempt adds
nothing. The worker's copies are stale, but not in their targets (`BatchDue`,
`WorkerHolds`).

*Outbox.* Others cancel, give up or put back rows of the batch while the worker sends,
but only the worker makes a row sent; so what it is about to send is not recorded as sent
(`BatchUnsent`), and a row that is neither recorded nor about to be has been
shown at most once for each accident (`Explained`).

*Intake.* The invariant relates offset, record and work: what the offset has passed is
recorded or saved (`NothingLost`), an update is not both (`Disjoint`), a poll holds
updates from the offset on, without a gap (`NoGap`, `PollsFresh`), and a replay holds
saved ones (`RetriesSaved`). What is recorded took effect, was refused or was dropped
(`RecordIsTrue`), which is where the exception of `NothingLost` comes in. `HandledOnce` then follows, since an update in hand is not
recorded.

*Club.* To queue and conversations the handlers do one of five things (`ChatSteps`:
nothing, another prompt, somebody leaves, begins to wait, or is connected), and places,
blocks, matching and the refinement rest on these. `Apart` says that nobody has two
places; with `PromptFits` it is inductive, since whoever is connected lost his former
place in the same step and whoever is left behind his prompt. `NoChatAcrossBlock` needs
`Apart` as well: blocking a user ends the conversation one is in, which therefore must be
the only one. For `NoMatchMissed` the two who wait had been offered to each other, and
what made them unfit cannot have changed while they wait; that rows keep their order when
others leave is a fact about `Kept`.

*Library.* What a user earned in a day is a sum over rows of the ledger, as wallets are.
A publication adds two rows, one for the fields and one for itself; they count against
different limits, so each limit is looked at with one row more at most (`Given`,
`EarnedGiven`). That the limit for likes of profiles holds is a little more than the code
compares, which adds likes of files to them: a sum over fewer rows is not larger
(`SumWithin`). A reference is given once because every award looks for it among all rows,
not those of the day. `NoticesFit` says that only what was published has been announced,
so that a draft which is published is announced for the first time. For the decisions,
`ReportsFit`: a user has one report of a file, so that dismissing one never looks like
upholding it. That `LibraryAssumption` keeps users, files and lists apart is what lets one
table hold votes on all three, as `social_reactions` does by its column for the kind.

*AI.* Two halves. Of requests: the worker charges after its delivery, so that what keeps a
job from being charged twice is that it leaves the queue in the step that charges it, and
what keeps it from being charged for nothing is that the worker which charges has
delivered in the same run (`TaskFine`, `WorkerFine`); a job that waits with a result in
the customer's hands has met a fault. Of what is sold: an order is paid in the step that
gives (`RowsFine`), a code is handed to an order that had none (`CodesFine`), and the
wallet is the sum over adjustments and orders (`WalletFine`). For credits the halves
meet: `Spent` never goes down, as what was charged stays charged (`PaidStays`), and goes
up with each credit used.

*Backup.* `Undoable` is what carries the proof: at every step of a restore the undo list
leads back to what was there. `PastSales` and `PastClients` are what the databases would
hold if everything noted were put back at this moment; saving, replacing and putting back a file
change what is there but not that. In it, sales.db and its log are one: the log is
noted last, and until then belongs to the file that was noted first. `Brought` is
the other direction, what the restore has replaced so far, and that what it noted is of
an earlier era; so the entries of the former sales.db and those of the archive cannot be
mixed unless a job touches the file in between, which `touched` records. `Secured` says
where the backup of the destination is on its way: nothing is replaced before it is
published, and a service that sells meanwhile only adds to what it must hold.
For `QuiescedIsSound` the order of writes matters: a client is created before its order is
committed, so `Sold` holds of the server at every moment at which both files are of one
era, and a backup whose services are stopped copies databases that stand still but for
entries of jobs (`Quiesced`). `Sold` survives an undone restore because `Undoable` says
the same of what is put back. The files of two restores had one name in an earlier
form of the model; with a third command TLC then found an archive that mixed them, which
no real archive does, and eras came of that.

*Channel.* A post and its message are two rows that three parties change: administrators,
the timer and the bot. `RowFits` says how they go together: a message exists exactly
for what is queued, published or failed, and only one that waits is being sent. `ShownFits`
counts what followers saw from the rows, except for posts that met a fault (`excused`).
`TextsFine` follows a text from its approval to the message: an edit takes the approval
away, but the message that was queued before keeps its text, so both are claimed. That
posts are `Spacing` apart (`RowsApart`) is compared by the code with the time a post was
last *updated*, which a later run may move; what makes it inductive is that messages are
queued no later than that, and that runs of the timer follow each other. A run does one of
a few things to each post (`RunStep`), whatever else it does to the others.

*Films.* The worker commits in many places, so the invariant says what the state is
between any two commits: the job in hand is where the worker is (`JobInHand`), what is
left of a loop is what the loop is about (`LoopFits`), an uploaded job has its file. With
it `AnnouncedOnce` and `FileServed` are inductive, as an announcement and a row of the
library are made in the step that publishes. A removed film stays removed, because
`finalize_episode` writes no row that is there.

*Catalogue.* What one transaction found out is written by the next one, and between them
the other pipeline may take over the run and write the same item. `MidStaged` says that
what a pipeline is about to write down is still so: what was staged is not unstaged, and
the entry of an item only changes with its state (`ItemsWritten` has the cases). It does
not matter how many hold an item, which is why nothing is claimed of batches. `ListFits` is
there for the types: a run goes to no place beyond the number of articles it read at its
start, and articles only become more.

*Music.* `InHand`: a thread has the article it claimed, and no two have the same.
`AnnouncedIsDone` keeps a piece from being announced twice: what was announced is done in
the queue, and only links of the former importer are put back. What listeners see of these is
in two parts. `NoLinkShown`: as long as one link is shown, the run is not past its index, no
link has been hidden and no piece announced; so from the commit that hides them on, no
listener sees one again, wherever a later run fails. `HiddenIsQueued`: what was hidden is in
the queue and not taken for done. Both are inductive with one fact more, that whatever has an
item is among the known articles (`ItemHasSource`), since the code puts only those back into
the queue (`LinksFit`). `AttemptsLeft` is there for the types of the counters.

*Accounts.* The counter the panel shows is compared with a sum over sessions, so the lemmas
of `Sums` say what crediting one of them adds. What is hard is that a client's id is
used again and everything the worker and the hooks hold is old. `SessionsFit`: a hook
carries all bytes of a session that has ended. `RowsKept`: as long as the client of a
session is there, so is its account, which is where credits are looked up; without
it, a hook would find no row and its bytes were lost. `WorkerFits`: the rows the
worker has read may be old, but a client that was not the account's then is not the
account's now, so that forgetting an account (`Forget`) never takes that of a living
client. `AllSettled` is `AllCounted` for sessions whose account is there or not, which is
what survives the step that forgets one.

*Services.* Each of the four has its invariant at every moment: the one whose turn it is by
its own proof, the others because nothing they hold changes. Failures are counted for all
of them together and only grow, which is all that `AllSettled` needs to know.

*Only model-checked.* Liveness (`DeliveredOrExhausted`, `EveryMessageSettles`,
`EveryUpdateSettles`, `QueueDrains`, the liveness properties of Timers) is out of the
provers' reach. Every invariant of the passing runs is a theorem.

`QueueTypeOK` and `RecordIsTrue` of UpdateQueue are theorems and not properties of a run of
their own.

## What is not modelled

`PROJECT.json` gives the status of each component with what is left out. In the parts
that are modelled: dates and times of services, labels, points of a purchase, tickets,
texts, photos, comments and visits, searches, voice samples, IPsec (which the
installation leaves switched off), accounts made by hand, the feed and the discovery scripts
whose manifests the importer takes as any other, the choice of a playlist for music, and
a second importer of music started by hand, which takes no lock.

*Display names* have no effect but their text, and a collision is answered with a random
suffix. *Online payments* end in one credit whose reference is the payment, which is
Sales' `Credit` with its repetition; the gateway is another program. *Expiry and usage
notices* are rows of the outbox made from reads. *Audio recognition*, *texts*, the
*sidecar*, the *patch of 3x-ui* and the *installation scripts* keep no state that several
actors change. The *former prototype* (`app/`, `node_agent/`, `telegram_bot/`) is not
deployed. SQLite's transactions are taken as atomic and durable.

## Plan

Done: the shop, delivery, outbox and intake; then club, library, channel, AI, backup,
importers and accounts, in the order of what users would notice first. Theorems for every
safety property of the runs.

Next, as the code grows: display names beside the expiry of quotes, a change of the bot
under a saved queue, and the parts of `PROJECT.json` that are modelled partly.
