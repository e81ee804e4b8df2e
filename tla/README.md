# BookOrbit, specified

BookOrbit is a self-hosted library for ebooks and audiobooks: a NestJS API
server over PostgreSQL, a web client, and an optional worker that turns an EPUB
and its audiobook into a read-along. Much of it is CRUD over a library and
translation between formats and protocols. Two things are hard in it. Long-lived
jobs take minutes to days, are carried by one process, and are recorded in a
table that users, timers, other processes and restarts all change. And four
protocols keep state in two places that cannot change together: a reader's events
in the browser and on the server, a book on disk and in the database, a refresh
token in a cookie and in the session, an upload in a file and in its row.
This directory holds TLA+ specifications of these parts, the TLC configurations
that check them on small instances, and proofs of the properties that matter
most, for instances of any size.

## The system

| Component | State it keeps | Operations | What is hard | What makes it correct |
|---|---|---|---|---|
| Read-aloud jobs (`server/src/modules/read-aloud`) | rows of `read_aloud_jobs`, one dispatch slot in memory, a cached health answer, a work folder per job | create, cancel, publish, retry, re-sync; dispatch tick; lease recovery every minute; hourly sweep | a lease per running job, three-step recovery without a transaction, publications outside the dispatch loop, folders shared with the worker | a cancel is obeyed or refused; nothing is added without the review it needs; one output per job; every job ends |
| Read-aloud worker (`workers/read-aloud`) | job records in memory, one runner process | submit, status, cancel, shutdown | restarts forget every record; a shutdown cancels the job by itself | one runner, and a cancel that wins over a result |
| Book requests (`modules/book-request`) | `book_requests`, `book_request_downloads`, an import queue in memory, download clients outside | submit, decide, grab, poll, import, review, cancel, watchdog, automated search | polls that answer after a cancel, imports that outlive their request, retries by automation | a decision of a person stands; one live attempt per request; no attempt is lost |
| Generated book files (`modules/upload/generated-book-file.service.ts`) | files next to a book and their rows | add, replace | a crash between rename and registration | an output is in the book once |
| Reading positions (`modules/book-revision/canonical-reading.service.ts`, client `reader/shared/composables`) | stored events, a head and a reset generation on the server; a sequence number, an outbox and a web lock per browser | turn a page, store, flush, recover, answer, refuse, clear progress | lost and late requests, clocks set back, several tabs and browsers, a full outbox | the newest position wins, nothing read is lost, nothing cleared comes back, the outbox empties |
| Book revisions (`modules/book-revision`) | a journal row per publication, staged and backed-up bytes, the book file, retained copies | prepare, publish, commit, clean up, cancel, recover, observe | files cannot be rolled back with rows; jobs, metadata writes and the scanner want one file | the file is explained by the rows, the old bytes can be read, recovery can always go on |
| Story jobs (`modules/fanfiction`) | a job per update, rollback or replacement of a story, a queue with leases | update, review, approve, cancel, retry, roll back, settle | a job stopped while its publication is under way | nothing is installed for a stopped job, nothing under review is removed |
| Sign-in sessions (`modules/auth`, client `lib/api.ts`) | an account version, sessions, chains of refresh tokens; a cookie all tabs share | sign in, refresh, sign out, change the password | an answer lost after a rotation, tabs that refresh at once, a password changed under way | a session has one good token while it lasts and none afterwards; a tab that asks in time does not end it |
| Resumable uploads (`modules/upload/upload-session.service.ts`) | a row and a staging file per session, a lock per session in memory | create, send a chunk, look, complete, cancel, sweep, resume after a restart | lost answers, chunks that cross, half-open connections, a sweep without a lock, a crash between file and row | the whole file is imported, once; what was answered stays received; an import ends |
| Book metadata fetch (`modules/book-metadata-fetch`) | a queue table, sessions | enqueue, claim, finish, cancel | the same lease pattern as the read-aloud jobs | an item is fetched once per request |
| Book dock (`modules/book-dock`) | dropped files and their rows | ingest, edit, finalize | watcher events and finalization on one file | a file is filed once and never lost |
| File locks, write-back, move, rename (`modules/file-write`, `modules/book-move`) | in-process locks, files | lock, write, rename, move | lock order, crash between file and row | a row names a file that exists |
| Scanner (`modules/scanner`) | books and files as found on disk | scan, watch | events during a scan | rows follow the disk |
| Metadata cache (`modules/metadata-cache`) | cached answers of providers | fetch, sweep | one operation per key at a time | a stale answer does not replace a fresh one |
| Other device sync (`modules/kobo`, `modules/koreader`, `modules/reading-session`, `modules/annotation`) | positions and marks of devices | sync | late and repeated uploads | the latest position wins |
| Outside services (`modules/hardcover`, `storygraph`, `readwise`, `email`) | little | push | failures | — |
| Catalog, search, statistics, preferences, client, KOReader plugin | rows and views | CRUD | little | — |

The parts meet in the database and in folders. Nothing holds a transaction
across an `await` on another process: every conditional `UPDATE` is atomic, and
everything between two of them can be interleaved with anything else. That is
the grain of the modules here.

## Read-aloud jobs

### Modules

- `ReadAloudStore.tla` has one operator per conditional update of
  `ReadAloudJobRepository`: the `WHERE` clause is a predicate on a row
  (`Publishable`, `Cancellable`, `Retryable`, ...), the `SET` clause the row
  it leaves. Progress figures, reports, event numbers and dates are left out;
  the worker's own stages are one stage, `working`; a lease is live or lapsed,
  a retry window open or not. Both completed statuses are one.
- `ReadAloud.tla` composes the processes over these rows. `run` is the
  dispatch loop's one job, from `tick` to the end of `process`, with the copy
  of the row the claim returned (`attempt`, `approved`, `dec`), which the code
  reads hours later. `bg` are the publications that `publish` starts in the
  background. `recovery` and `sweep` are housekeeping halfway through its
  updates. `removing` and `stopping` are handlers that have changed the row and
  not yet removed the folder or told the worker. `worker`, `work` and
  `library` are the worker's records, the work folders, and what was put in
  each book.
- `ReadAloudLifecycle.tla` says what a user is promised, with no process,
  lease, folder or retry in it.
- `MCReadAloud.tla` and its configurations are the instances for TLC.
- `ReadAloudProofs.tla` (types, books, attempts) and `ReadAloudPromise.tla` (what
  ends up in the book, and what holds while no lease lapses under a live run) are
  the theorems.

A step ends where the code awaits something another actor can change. `RunPrepare`
is the claim's first progress update, the check of the sources and the folder;
`RunSubmit` one submission, including waiting out a busy worker; `RunPoll` one
turn of the polling loop; `RunCancel` the minute a cancel waits; `RunValidate`,
`RunFinish`, `RunPublish`, `RunComplete` the steps of `finish`; `RunFailure`
and `RunSettle` the look for a cancel and the update of `handleFailure`;
`RunRemove` the removal of the folder. `ServerCrash` loses everything in memory and
reads the worker's health anew; `WorkerCrash` loses the worker's records at any
time, `WorkerShutdown` cancels its job first and `WorkerExit` ends it.

An output is named by the version of the chapter decisions it was made from
(`dec`): that is what a review is about and what a re-sync changes. Whether an
output needs a review is a constant (`ReviewDue`), since the report decides it.

### Runs

All runs use the whole `Next` of `ReadAloud`. `CHECK_DEADLOCK FALSE` is set
because a system whose jobs are all over has nothing left to do.

| Run | Instance | Shows |
|---|---|---|
| `one_job` | 1 job, 2 attempts, 1 resubmission, a server and a worker restart, a retry, a re-sync | nothing unreviewed is added (`NothingUnreviewed`); one output per job; no copy while the worker writes (`SoleWriter`); a review keeps its output (`ReviewKeepsOutput`); no file for a cancelled job (`NoPublishAfterCancel`); `ReadAloud` implements `ReadAloudLifecycle` (`KeepsPromise`) |
| `live` | 1 job, 2 attempts, a server restart, a re-sync, a lease that lapses under a live run | a job whose file is in the book is not cancelled (`PublishedNotCancelled`); completed means published (`DoneMeansPublished`); `CancelEnds`, `JobsSettle`, `FoldersReclaimed` |

**Bounds.** `MaxAttempts` is 4 in the code and 2 here: the first attempt, one
that is followed by another, and the last are all the cases the code
distinguishes. `MaxResubmits` is 3 in the code and 1 here, for the same
reason. One job reaches every interleaving of its actors, the shared slot
included: a restarted server meets the worker busy with the run of before. What
two jobs add is that one of them finds the worker busy with the other, and the
index on the book, which is proved (below). Crashes, stops, stalls, retries and re-syncs are capped by `Max...`
constants in the guards of their actions and counted in `spent`. That two jobs of one book are never active together (`OneActivePerBook`),
that rows belong to their runs (`Ownership`), that a claim has an attempt left
(`AttemptsLeft`) and that the state is well typed has no run: it is proved.

**Fairness** (`FairSpec`) is weak fairness of what the server runs by itself:
the dispatch interval, the health answer that expires, the promises of a run, a
background publication, recovery, the sweep and the tails of handlers, and of
the ends of the worker's runner and shutdown. Node's timers and promises
justify the first; a runner that never ends is outside the claim, as the code
has no bound on a run either. A lapsing lease is fair only for a row no one
renews. Nothing is assumed of users, of failures or of crashes. The dispatch
actions are one fairness condition: which queued job is taken is not promised.

**With a stalled lease** (`MaxStalls > 0`) `SoleWriter`, `Ownership` and
`NoPublishAfterCancel` do not hold: recovery requeues the job, and the old run
goes on until its next conditional update. The code accepts this, its updates
notice it, and `live` checks what remains true.

### Proofs

The theorems hold for every set of jobs, every assignment of books and reviews
and every value of the bounds. They assume of the constants only what
`MaxAttemptsAssumption`, `JobsAssumption` and `BoundsAssumption` say.

- `TypeCorrect`: `TypeOK` is inductive. It carries the one relation the
  later proofs need everywhere, that a run which is not idle is on a job.
- `OwnershipCorrect` (for `MaxStalls = 0`): `Ownership` is inductive with
  `TypeOK`. A row that a run or a publication is on is processing under a live
  lease, so recovery, whose updates all ask for an expired lease, cannot touch
  it, and no claim can, which asks for a queued row; what is publishing cannot be
  cancelled.
- `CancelRespected` (for `MaxStalls = 0`): only `RunPublish` and `BgPublish`
  add to the library (`LibraryWriters`), and `Ownership` says what their row
  looks like then. `NoPublishAfterCancel` alone is not inductive: it says nothing of
  the row before the step.
- `AttemptsCorrect`: `AttemptsLeft` strengthens the bound on attempts by why
  it holds: whatever is queued has an attempt left, the run's copy of the count
  is the row's while the row is processing, and what recovery found expired and
  did not fail has an attempt left when it comes to requeue it. Most updates
  are *quiet* (`Quiet`, `QuietStep`): they neither spend an attempt nor bring a
  row into the queue with a used one. The rest, `ClaimStep`, `ReviewStep`,
  `SettleStep`, `LapseStep`, `RecoverFailStep` and `RecoverRequeueStep`, are
  proved one by one. Stalls are allowed.
- `OneActiveCorrect`: a step makes a job active only if it is a creation or a
  retry, which the unique index lets through when no other job of the book is
  active, and which touches no other row (`Starts`).

- `NothingUnreviewedCorrect`, `OneOutputCorrect`, `DoneMeansPublishedCorrect`:
  one invariant per job (`OutputsInv`). An output is in the book only once its
  job is `Committed`: nothing brings it back to a review, from which a re-sync
  could ask for another one. So whatever a run carries over hours is either the
  row's own version of the decisions or no longer of use. Stalls are allowed:
  it does not matter whether a run is the only one on its row.
- `ReviewKeepsOutputCorrect`: `ReviewInv` says which handlers and sweeps may
  still remove a folder, and that the job of each is over or gone on.
- `PublishedNotCancelledCorrect` (for `MaxRetries = 0`): once the file is in the
  book or on its way, the row is `Firm`: it refuses a cancel, also after recovery
  has queued it again. A retry by a user forgets that, see below.
- `SoleWriterCorrect` (for `MaxStalls = 0`): the worker is set to work by
  `RunSubmit` only, on the run's own row, which by `Ownership` nobody publishes.
- `PromiseKept` (for `MaxStalls = 0`): every step of `ReadAloud` is a step of
  `ReadAloudLifecycle` or leaves it as it is. Updates of rows are classified by
  what a user sees of them (`Cut`, and one class for each step of the lifecycle);
  the invariants it needs are `Ownership` and that a cancel is pending on a
  processing row only, or has ended the job (`StoppedInv`).

Only model-checked is what needs fairness, which TLAPS does not support:
`CancelEnds`, `JobsSettle`, `FoldersReclaimed`.

### Seen without a run of their own

- **A retry forgets that the file may be in the book**
  (`PublishedNotCancelled` with `MaxRetries = 1`; `live` has no retries). The
  copy succeeds, recording it does not: the job fails and can be retried.
  `retry` leaves `publishApproved` as it was, and for a job that needed no
  review that is false, so the queued job can be cancelled, and ends cancelled
  with its file in the book. `docs/READ_ALOUD.md:166` says it cannot. Lease
  recovery, on the other hand, does remember.

- With two jobs: the sweep reads what to keep before it looks at the folders. A
  job created in between is in neither set that protects it. When it also
  finishes before the sweep gets to its folder, it waits for a review of an
  output that is gone; otherwise it loses cached work.

### Not modelled

Dismissing a finished job and review reminders only change what is displayed.
The activity log and the notifier swallow their own errors and change nothing
else; worker events, which a restart between storing them and storing their
number duplicates, are part of it. The deletion of a book or a user under a
job, the worker's disk check and retention, back-off times and the order in
which queued jobs are taken are abstracted: a failure, a lost record and any
order stand for them. The copy into the library is one step: its partial files
are the subject of a later module.

## Book requests

Somebody asks for a book, somebody decides, and then automation or a person
picks a release, a download client fetches it, the monitor polls it, an import
puts it into the Book Dock, verification files it in the library or asks a
moderator, and a watchdog ends what is stuck. None of these actors holds the
request: they meet in two tables, and each remembers what it read.

### Modules

- `RequestStore.tla` has the statuses, the sets of statuses that updates are
  conditional on, and `updateIf`.
- `Requests.tla` composes the actors over `req` (the status of each request),
  `pointer` (its `bookDockFileId`) and `att` (the attempts, in the order they
  were made). `pass` is an automation pass or a grab, from the read it
  decides on (`prev`, `spent`) to the answer of the client or the roll-back.
  `poll` is the poll of one attempt; `queue` and `import` the import queue and
  the import of a book somebody chose; `filing` verification, and a moderator
  who files what is held; `person` a cancellation, a stop, a fulfilment by hand or a
  discard between its steps; `stale` the rows of a watchdog's batch.
  `failDownload` and `holdForReview` are called from many places and update
  the attempt first: the caller's action does that, and `failing` and
  `holding` are the requests still to be updated (`FailRequest`, `HoldRequest`).
- `RequestPromise.tla` is what people are promised.
- `MCRequests.tla` and its configurations are the instances for TLC.

| Code | Actions |
|---|---|
| `submit`, `approve`, `reject` | `Submit`, `Approve`, `Reject` |
| `considerRequest`, `handleFailure`, `sweepUnfulfilled`, `runAttempt` | `RunTodo`, `ListForResearch`, `ClaimSearch`, `SearchEnds`, `GiveUp` |
| `grab`, `startGrab` | `GrabByHand`, `ReadForGrab`, `ClaimForGrab`, `Resolve`, `ClientTakes`, `AddAnswered`, `AddFails`, `Refuse`, `Rollback` |
| download monitor | `PollAsks`, `PollUnanswered`, `PollFails`, `PollReports`, `PollMoves`, `ResumeUnimported` |
| import queue and import | `StartImport`, `ImportChosen`, `Extract`, `ClaimRequest`, `Link`, `Place` |
| verification, `fileHeldImport` | `Ingested`, `Verify`, `FileHeld`, `FileIntoLibrary`, `Settle`, `MarkImported` |
| `cancel`, `cancelDownload`, `markFulfilled`, download removal | `Cancel`, `StopTransfer`, `Fulfil`, `Detach`, `FailAttempt`, `Reopen`, `Close`, `SweepAttempts` |
| `discardHeldImport` | `Discard`, `DiscardRequest`, `DiscardAttempt`, `Empty`, `UndoRequest`, `UndoAttempt` |
| watchdog | `WatchdogReads`, `WatchdogActs`, `ReleaseStranded`, `AbandonSelfServe` |

A step ends at an `await` another actor can get in at. Scores, releases,
names, files and messages are data nothing here tells apart: a search finds
something or nothing, a source or a client accepts or refuses, an extraction
ends in a book, a question or a failure. `library` counts the copies a request put there.

### Runs

| Run | Instance | Shows |
|---|---|---|
| `request` | 1 request, 2 attempts, 1 grab at a time, 1 person | one copy of the book (`OneCopy`), the budget of automation (`Budget`), no working status without a worker (`WorkerBacked`), and that `Requests` implements `RequestPromise` |
| `same_book` | 2 requests for 1 book, one self-served, 2 grabs at a time, 1 attempt, a restart | one grab per request (`OneGrab`), no download without the claim on the book (`Claimed`) |
| `overtaken` | 1 request, 1 attempt, 1 person, a stopped transfer | decisions stand (`SettledStays`), an available book is there (`AvailableHasBook`) |
| `request_ends` | 1 request, 1 attempt, 1 person, a refused discard | `WorkEnds` |

`CHECK_DEADLOCK FALSE` is set because the system stops when every request is
closed and the attempts of the instance are used up.

**What the runs assume.** Two assumptions on behaviours, in the last section of
`Requests.tla`, are constraints of the runs (and hypotheses of theorems). They cut
behaviours the code allows, and the properties checked under them are claimed only
without those behaviours.

- `Prompt`: two updates that follow one another with no work between them
  (attempt, then request) are not overtaken, except by a restart. The code
  does not exclude it, but the window is one database round trip.
  `overtaken` is checked without it, since it is the property that is about it.
- `Alone` (only in `request`): while one person discards a held import, nobody
  files it or picks a book from it. Without it the import may be filed after it
  was discarded, and a second one for the attempt that follows.

Both cut only steps of people or steps that wait for the second update, so they
hide no behaviour from `WorkEnds` that would be fair.

**Bounds.** Two attempts are a failed one and its successor, which is where the
properties of `request` can break; a third repeats the second. Two grabs race
for a claim; one attempt is enough for them to race. `MaxStops`,
`MaxLate`, `MaxTimeouts`, `MaxUndone` and `MaxCrashes` bound what the
environment does, and are 0 where a property does not hold with them: those
cases are the findings and the notes below. A watchdog timeout that finds work
still going on counts against `MaxTimeouts`; one that finds work abandoned does not.

**Fairness** (`FairSpec`): everything the server has begun goes on, and its
timers come round. The watchdog's two steps are strongly fair, since polls and
imports of an attempt come and go: a transfer that is polled for ever without an
end is one that has made no progress for twelve hours. Nothing is assumed of
people, of the client or of sources.

### Proofs

`RequestsProofs.tla` and `RequestsWithoutRestart.tla`, for any number of requests,
attempts, grabs and people. The first part of `RequestsProofs` takes any values
of the bounds, and neither `Prompt` nor `Alone`: here every step may be
overtaken by any other.

A step does one of a few things to the requests (`ReqStep`): a legal change of
status that makes nothing available (`Quiet`), an import that makes its request
available (`Answers`), a copy that is put in the library (`Arrives`), a fulfilment
by hand (`Fulfils`). The classes need little of the rest of the
state. `TypeInv` splits the types by variable and says besides that whoever
works on an attempt works on one that was made. `Undertaken`: attempts and grabs
are only for requests somebody agreed to. `Copied`: an import that is about to make
its request available has been filed, since `Settle` comes after
`FileIntoLibrary` in one thread.

`TypeCorrect`, `AvailableHasBookCorrect`, `DecisionsStand` (`SettledStays`) and
the refinement of `RequestPromise` (`PromiseKept`) follow.

The rest is about orderly behaviours: `Prompt` is a hypothesis on the
behaviour (`[][Prompt]_vars`), and `Orderly` says that the environment does none of
what the notes below show to break the properties. Each of its parts is needed:
an add answered with an error after all (`MaxLate`) takes back the claim of
another grab; a transfer stopped as it completes (`MaxStops`) has its request
reopened, and `Link` brings its attempt back; a watchdog that finds work still going
on (`MaxTimeouts`) fails it under the grab that has it; a discard the Book
Dock refuses (`MaxUndone`) holds a failed attempt again, possibly beside its
successor; a restart in the middle of a discard leaves a failed request with a
held attempt, so that there are no restarts or no people who decide. Without
`Prompt` a failed attempt may move a request its successor has claimed.

- `Core` is the inductive invariant under `OneGrabCorrect` and `ClaimedCorrect`. An
  attempt that is `Engaged` has its request where the attempt is, and a grab that
  `Holds` its claim has it grabbed; there is one of them for a request, one pair of updates half
  done at a time, and one active request for a book. Whoever is about to
  act on what it read before (a poll, an import, a verification, a watchdog) is
  named with what it still relies on. A step of the machinery frees a request, takes it or
  leaves it alone; what each sort of step may do is stated once for all the actions.
- `BudgetCorrect` adds a token. Every automatic attempt spends one: an entry of
  `todo`, a pass that automates, an engaged automatic attempt. There is one for a
  request at most, and a pass carries a count of the attempts there are.
- `WorkerBackedCorrect` (in `RequestsWithoutRestart`) needs that there is no
  restart at all (`MaxCrashes = 0`): a restart forgets the passes, and a claimed
  request waits for the watchdog. Its invariant is `Manned`: a request in work is being fulfilled by
  hand, has a live attempt, or has a grab that holds it. To be inductive it takes that
  a request is as far as its attempt (`Seats`, `ImportSeats`), that whoever is
  about to fail, hold or file an attempt finds its request where that step expects it
  (`Errands`, `FilingLate`), and what a step may do to an attempt at all
  (`Shifts`).

- `OneCopyCorrect` needs no restart either, and `[]Alone`: a restart between
  filing and recording, or a hold filed while it is discarded, puts a second copy in
  the library (see below). Its invariant is `Shelved`. An attempt is `Tied`
  to its request while it is engaged, or its entry is in the Book Dock and nobody
  is emptying it, or it was filed. There is one such attempt for a request
  (`OneTied`), the latest (`TiedLatest`), and no grab beside it (`HoldsUntied`), so
  that a request has a book of the one attempt that was filed (`Single`). The
  difficulty is that a moderator files what the *request* points at, an
  import what the *attempt* points at, and a discard empties what it read before. To be
  inductive it takes where the request of a placed, importing or filed attempt is
  (`PlacedSeat`, `ImportingSeat`, `FilingSeat`), that the row of the attempt and of
  the request point at the same entry while it is there (`Linked`, `Pointed`, `Points`),
  that a filing files its own entry and goes on to record it (`OwnFile`,
  `Recorded`), and that nobody works on what a person discards or a moderator
  files (`Discarded`, `ModeratorHeld`).

`WorkEnds` stays with TLC: it is liveness.

### Seen without a run of their own

With other bounds or properties TLC shows what else the code can do.

- **A transfer stopped as it completes** (`WorkEnds` with `MaxStops = 1`).
  `cancelDownload` checks that the attempt is queued or downloading, and waits
  for the client. If the transfer completes and its import starts meanwhile,
  `failIfInFlight` fails the importing attempt, and the update that should put
  the request back expects `grabbed` or `downloading` and does nothing. The
  request stays `importing`: verification skips the failed attempt and no sweep
  looks at requests that import.
- **A hold files another attempt's import** (with `MaxTimeouts = 1`). A request
  keeps `bookDockFileId` when an attempt fails during import, and a new grab
  does not clear it. When the next attempt is held, `loadHeld` prefers that
  pointer.
- With `MaxLate = 1`, `WorkEnds` fails as well: an add that
  is answered with an error after a poll saw the transfer fails the attempt and
  rolls back a request that is no longer `grabbed`. It stays `downloading`.
- With `MaxLate = 1`, `OneGrab` fails in `same_book`: when the attempt of
  such an add was failed by a poll, another grab may have claimed the request, and the
  roll-back, which looks only for `grabbed`, takes that claim away.
- With `MaxCrashes = 1`, `OneCopy` fails: a restart between filing and
  recording leaves the request to the watchdog, and a retry files the book again.
- `Link` is not conditional, so an import brings back an attempt that was
  stopped while it extracted; the watchdog acts on rows it read earlier, and
  `failDownload` accepts `needs_review`, so it may fail an import that was
  held meanwhile; the hourly sweep takes any grabbable status, so it may search in
  place of a release that was picked by hand and failed meanwhile.

### Not modelled

Subscribers and dismissals; pairs of requests that file into one book; taking
over an abandoned request; adopting a transfer found in a client; deleting a
request; the destination of a request and the switches of automation; the
resumable direct download and its staged files.

## Reading positions

Every turn of a page in the web reader is an event. The browser stamps it,
keeps it in an outbox (IndexedDB) and sends it until the server has answered;
the server keeps the events, the head (the event whose position is shown) and a
generation that goes up when progress is cleared.

### Modules

- `CanonicalReading.tla` has the tables of the server and one operator per
  transaction on them: `Record` is `record`, `Reset` is
  `resetCanonicalReadingEvents`, `IsNewer` is the order of events. Each locks
  the head row first, so an operator on the whole record is exact.
- `ReadingEvents.tla` composes the browsers over it. `Open`, `Close`,
  `Capture`, `Stamp`, `Store` and `SaveKept` are a tab; `Begin`, `Send`,
  `Fail`, `Receive` and `Retry` are one flush, the same steps for an open
  reader (`useReadingEventSync`) and the background recovery
  (`useReadingOutboxRecovery`), which differ in when they may (`MayFlush`,
  `Settles`); `Serve`, `Refuse` and `ClearProgress` are the server. A request
  whose sender has given up stays on the wire, from `Nobody`.

Positions are left out: only which event is shown matters. `IdOrder` stands for
the random ids, which decide between two devices with equal clocks. The field
`era` is the one thing the code does not have: the generation the server really
was in when the page was turned, so that `NoComeback` does not trust the one the
client put on the event.

| Run | Instance | Shows |
|---|---|---|
| `reading` | 2 browsers with one tab each, 2 and 1 events, an outbox of 1, batches of 2, a clock set back, one reset, one failure | the newest position wins once all is quiet (`QuietMeansNewest`), what was cleared stays cleared (`NoComeback`), an event leaves the outbox only when the server needs it no more (`NothingLost`) |
| `reading_drains` | 2 tabs and the recovery of 1 browser, an outbox of 1, one reset, failure and refusal | the outbox empties (`Drains`) |

**Bounds.** Two devices are needed to disagree about the time and about the
order of ids; a third only adds a second other one. Two events of one device are
an older and a newer one. An outbox of one (512 in the code) is full as soon as
anything waits, and a batch of two (20) is sent newest first. Two opens are a
tab that opens while another, or its own earlier flush, is under way.

**Fairness** (`FairSpec`): timers and promises of the browser go on, the
recovery comes round, a request that is not lost or refused is answered, and a
reader is closed some day. The last is needed: an open reader that has nothing
to send itself keeps the recovery off the file by its lock, and does not look at
what another tab has left (`useReadingOutboxRecovery.ts:46`), until it is closed.

`QuietMeansNewest` excepts a device whose clock was set back (`Steady`): then
the order in which two devices' events arrive decides which one is shown, as
`reading-event.test.ts` accepts.

### Proofs

`ReadingProofs.tla`, for any number of browsers, tabs, events, resets, failures
and refusals, and any sizes of outbox and batch. A sender removes only the event its answer is
about: it waits for at most one request at a time, about the first event of its
batch (`Wired`), and an answered event is `Settled`, which lasts, since
the generation and the stored events of the server only grow (`ServerGrows`).
With that every event written down is in its outbox or settled (`Safe`), which
is `NothingLost`. `NoComeback` follows from `Old`: no event names a
generation later than the one it was made in. `NeverBehindItself` is part of
`Kept`, the invariant of the server alone, which `Recorded` and `Cleared` show
of its two transactions. `Taken` and `Newest` are about the outbox as a
sequence, `Going` about the next batch; one lemma per action puts them together.
Type correctness and `NeverBehindItself` have no run: they are proved.

`QuietMeansNewest` (`QInv`): a sequence number is given out once, so that two
events of one device that agree in it are the same, wherever they are on their
way (`Numbered`). While numbers and clocks of each device agree (`Steady`),
`IsNewer` is transitive within a generation (`NewerThanLater`), and any two
stored events of it compare. So the head leads all that is stored
(`Leads`, by `RecordLeads` and `ResetLeads`). Once the outboxes are empty, an
event that was written down is stored or has a later one of its device there
(`Safe`), which the head leads in turn. `Steady` looks at all that was ever
written or stored, so that a state in which it holds had it hold all along.
`Drains`, which is liveness, is only model-checked.

**Not modelled**: the relocation of an event when the file has moved (409),
acknowledgements, a sender that stops after five failures, what the server
projects from the head into progress and statistics, and events of KOReader
devices.

## Publications

A new revision of a book file is staged beside it with a copy of the old bytes,
written down in a journal, renamed over the file, made the current revision, and
cleared up, in three transactions. Renames are not undone when the transaction
around them is lost. Metadata writes publish for themselves; updates, rollbacks
and replacements of stories publish for a job, which may be stopped at any time.

### Module

`Publications.tla` has the book file (`target`), the staging directories
(`dirs`), the retained copies (`kept`), the current revision (`row`), the
revisions (`revs`), the journal (`pub`), the two locks (`book`, `tx`) and the
jobs. The bytes are numbers: each publication makes its own, and something else
may write others (`Outside`).

| Code | Actions |
|---|---|
| `prepare` | `Stage`, `Journal`, `Discard` |
| `resume`, with its three transactions | `Resume`, `GiveUp`; `Publish`, `Rename`, `CommitPublish`; `CommitRevision`; `Retain`, `RemoveDirectory`, `Prune`, `CommitCleanup` |
| `cancel`, `settle`, `acknowledge` | `FailPublication`, `RemoveFailed`, `Acknowledge` |
| story jobs | `Finish`, `AskReview`, `Approve`, `Stop`, `Retry` |
| the scanner and other writers | `Observe`, `Outside` |
| a transaction that is lost, the server that dies | `Lose`, `Crash` |

A transaction is split where it touches files, so that it can be lost with the
file operations done and the rows not: `tx` is the step it has come to, and
`Lose` and `Crash` throw it away at any of them.

| Run | Instance | Shows |
|---|---|---|
| `publication` | 2 jobs and metadata writes, 2 publications, one change from outside, one fault, one job stopped and retried | the file is explained by the rows (`RowExplained`), a publication under way is for the current revision (`StillExpected`), the bytes replaced last can be read (`RollbackKept`), what a fault left can be finished or taken back (`Recoverable`), nothing is installed for a stopped job (`NoInstallAfterStop`) |
| `review_staged` | 1 job, 1 publication | a counterexample to `StagedUntilReviewed`, see Findings |

**Bounds.** Two publications are one and the one that takes its place, which
is where the copy of the first may be pruned, and where two owners meet over one
file. One fault can be at every point of either; a second one would interrupt the
recovery of the first, which starts from rows and files a first fault can leave
as well.

**Assumed**: renames are atomic, and a checksum identifies the bytes.

### Proofs

`PublicationsProofs.tla`, for any number of publications and jobs, and of faults,
restarts, stops and changes from outside. Six of the nine parts of the invariant
(`Inv`) are not properties themselves:

- `TxOK`: a transaction finds its publication as it left it, at each of its
  steps, since whoever would change it has to wait for the lock or throws the
  transaction away.
- `OneActive`: one publication at a time is under way. With it and
  `StillExpected` a commit knows what it replaces.
- `KnownOK`: what a publication expects to replace is a revision there is, with
  the bytes it has backed up; a revision comes only once (`Known`).
- `BackupOK`: until the clean-up, the old bytes are in the publication's directory.
- `OwnOK`: a job publishes once. Once one publication of it is committed, no other
  is under way, nor prepared for the revision that is current.
- `KeptOK`: halfway through a clean-up that may be thrown away and done again
  (`Cleaning`), the bytes replaced last are in the backup or retained.

`RowExplained`, `StillExpected`, `RollbackKept` and `Recoverable` follow from it, and
`NoInstallAfterStop` from `TxOK`, which remembers what `Publish` has asked of the
job. `StagedUntilReviewed` is the property the code does not have.

### Findings

- **Recovery takes the bytes of an update under review** (`review_staged`).
  `recover` runs every five seconds and takes a job that is not queued, running
  or waiting for a review of its *metadata* for interrupted
  (`fanfiction-recovery.service.ts:62`). An update that waits for a review of its
  *chapters* is `review_required`, so its publication is failed and its
  prepared bytes are removed. Once approved, the job downloads the story again,
  and may ask for the same review again.
  `fanfiction-updates.integration.test.ts:393` says it "keeps rewritten chapters
  staged until explicit review and publishes once after approval".

Seen without a run of their own:

- `pruneRetainedFiles` keeps the copy of the latest publication whatever that
  was for (`revision-publication.service.ts:521`). A metadata write that commits
  while the clean-up of a stopped story update is outstanding makes that
  clean-up prune the update's own copy; when its transaction is then lost, the
  copy it should retain is gone, and it can never be finished (`CopyLost`, which
  `Recoverable` excepts). `revision-publication.integration.test.ts:456` expects
  a copy for rollback after a metadata write.
- What something else writes between the last look at the file and the rename
  is overwritten (`Outside` between `Publish` and `Rename`); no file operation
  used here could prevent it.

**Not modelled**: moving a book, manifests and kinds of changes, books of
several files, the retention of snapshots and downloads; of stories their queue
and its leases, sources and schedules, batches and imports.

## Sign-in sessions

A refresh token is used once and its successor is computed from it, so that a
request that comes with a used token, because an answer was lost or another tab
was first, can be given the token in use. That is allowed for a grace time and
five steps along the chain; any other use of a used token ends the session.

### Module

`Sessions.tla` has the version of the account, the sessions with their chains
of tokens, the cookie all tabs share, and what each tab has on its way.
`Leave` takes the cookie as it is, `Read` reads account and clock before the
locks, `Exchange` is the transaction, `Deliver` sets the cookie. `Login` and
`Issue` are the two halves of signing in, with the check of the password
between; `Logout`, `Revoke` and `ChangeAccount` end sessions. `Lose` loses a
request or an answer, `Tick` lets time pass, `Expire` ends tokens in order.

| Run | Instance | Shows |
|---|---|---|
| `sessions` | 2 tabs, a grace time of 2, waits of at most 1, chains of 4 with steps of 2, one session, one change of the password | a session that is not over has one good token, its last (`Renewable`); one that is over has none (`StaysOut`); a tab that asks with a good token and is heard in time does not end it (`GraceHolds`) |

**Bounds.** Two tabs race for a token and one comes late with a used one. A
chain of four tokens is longer than the two steps a used token is answered for
(five in the code), so a tab that comes too late is there as well. Time runs to
three, one more than the grace time. The tabs are symmetric. One session is
enough for these properties, none of which relates two; the proofs below
cover any number.

`GraceHolds` takes the longest wait for the locks off the grace time, since
`now` is read before them and the request left its tab earlier still, and excepts
a request that read the clock before and got the locks after another: it finds a
rotation in its future and counts as a reuse
(`auth-session.repository.ts:137`; `auth-session.repository.test.ts:94` expects it).
A late answer may clear or overwrite a newer cookie (`Deliver`); the
next request then comes with a used token and is answered within the grace
time, or the person signs in again.

### Proofs

`SessionsProofs.tla`, for any number of tabs, sessions, tokens and changes of
the account, and any grace time. `Renewable` and `StaysOut` are two halves of
`Kept`: a token is good if and only if it is the last of a session that is
not revoked and of the account's version. `Kept` also bounds the version of a
session by the account's: a session of a later version would become good when
the account catches up. The invariant `IInv` adds the types, that tokens in the
cookie and in requests exist (`Known`), and that a request in a renewal has one
(`Carries`). `WithdrawnTokens` and `RotatedTokens` say what the operators do to
one chain, `OneChanged` and `OneAdded` what that does to all sessions, and one
lemma per action puts them together. `TypeCorrect`, `RenewableCorrect` and
`StaysOutCorrect` follow.

`GraceHolds` (`GInv`) needs to know when tokens were replaced. Of each chain
only the last token was not (`Aged`). Of a request that left with a good token
(`Heard`), that token and its successors were replaced, if at all, no earlier
than a wait for the locks before it left: the token was good then, so whoever
replaced it did so later, by a clock read at most one wait before
(`RotateAges`). With the bounds `InTime` puts on the request, every token
from its own to the last is therefore `Recent`, and the last is a successor
(`SuccessorFound`): the branch that ends the session is not taken. `Tick`
bounds how long a tab waits, which is where `Wait` comes in; all steps but a
rotation leave the times alone (`SameTimes`).

**Not modelled**: access tokens, the lock-out after failed sign-ins, disabled
accounts, shared accounts and magic links, OIDC, native clients, and changes of
the allowed ways to sign in.

## Uploads

A client sends a file in chunks to a session, from the place the session has
come to, and then asks for it to be imported into a library, as one more file of
a book, or into the Book Dock. It may lose any answer, look again, send a chunk
twice, or start over under the key it gave the upload.

### Module

`UploadSessions.tla` has the rows of the sessions, their staged files, the lock
of each, the calls under way (`req`) with what each has read, the sweep halfway
through its list, and what has arrived at the destination: files (`disk`) and
entries for them (`booked`). All sessions are of one file for one target; the file
is `<<1, ..., Size>>`, so that a byte is its own place.

| Code | Actions |
|---|---|
| `create` | `Find`, `ReleaseKey`, `Insert` |
| `appendChunk` | `Upload`, `Arrive`, `Stall`; `Enter`, `Correct`, `BeginWrite`, `WriteByte`, `WriteFails`, `EndWrite` |
| `get` | `Ask`, `Enter`, `Correct` |
| `complete`, with the import it calls | `Ask`, `Enter`, `Correct`, `Check`, `Mark`, `Copy`, `Look`, `Place`, `Enroll`, `Finish`, `ImportFails`; `FinishBook`, `BookFails` in the background |
| `cancel` | `Ask`, `Cancel` |
| `cleanupExpired` | `Lapse`, `SweepList`, `SweepMark`, `SweepRemove` |
| the server dies and starts again | `Restart` |

The three targets differ in three ways, which the model has as guards: a library
and a book have one path for the file and the Dock finds a free one
(`OnePlace`); a library writes the session's result in the transaction that
enters the book (`Enroll`), the other two in an update afterwards (`Finish`); and
a book keeps a file whose entry failed (`Discards`).

| Run | Instance | Shows |
|---|---|---|
| `uploads` | 2 calls, 2 sessions, all targets, 2 bytes in chunks of up to 2; one failure and one restart, or one session past its date | the whole file is imported (`WholeFile`), and once (`AddedOnce`); what was answered stays received (`NothingAckedLost`); what was entered keeps its file (`FileKept`); an import is always in somebody's hands (`ImportCarried`); a cancelled upload stays cancelled (`CancelHolds`) |

**Bounds.** Two calls are a chunk and the one that crosses it, or an import and
what disturbs it; two sessions are an upload and the one that is started over.
Two bytes make a whole file in one chunk or in two, and a chunk that fails in
its middle; with a signature of two, an unreadable file is found at the first chunk or
when the upload is completed. `AddedOnce` allows a second copy in the Dock after
a failure, a restart or a session past its date, because the client then starts
over and the Dock has no one place for a file; a library or a book refuses it.

The constraint `Apart` keeps the sweep and the faults apart: the sweep runs at the
start of the server as well, so that a restart of a session past its date is a
sweep of it without anything in between.

`ImportCarried` is what liveness would rest on here: a session that is importing
cannot be cancelled, nor started over under its key, so nobody but the call, the
background or a restart can end it.

### Proofs

`UploadSessionsProofs.tla`, for any number of calls and sessions, any sizes of
file, chunk and signature, and any number of failures, restarts and sessions past
their date. Whoever has the lock of a session is the only one to make its file grow, and
knows what is in it unless it was removed (`Holding`): a call that is writing has
written the bytes after the place it read under the lock. Everyone else,
the sweep included, can only remove the file, and the session then receives no
more (`Calm`). A session that is receiving has the start of the file, and at
least what was answered (`SessionOK`). A row the sweep is at is not receiving (`Swept`), so
that what it removes is missed by no one. One lemma per action, each
from `CallOK` for the calls and `SessionOK` for the sessions, which `Together`
joins. `TypeCorrect`, `InOrderCorrect`, `WholeFileCorrect` and
`NothingAckedLostCorrect` follow. That the staged file never outgrows the upload, so
that the check in `reconcileSize` is not needed, is part of `TypeCorrect`.
`InOrder` and type correctness have no run, since the two they lead to have.

A second invariant, `AInv`, is about what becomes of the file. `LocksOK` says that
whoever has a lock is at work under it, `KeyOK` that one session has the key,
`BookedOK` that a session a call still `Hopes` to import, or `Carries` through its
import, has not been entered. As long as no session is past its date
(`Unlapsed`) a session keeps the key until it has failed or is cancelled (`Tidy`),
and a call that has read a status finds it unchanged until it leaves the lock
(`Knows`). Then one call at a time imports (`OneImport`), which is why the place
it looked at is still free when it puts the file there. Steps that take a session
further come down to `FurtherStep`, the others to `QuietStep`. `AddedOnceCorrect`
and `ImportCarriedCorrect` hold with lapses and the sweep as well, without the
constraint `Apart`; `FileKeptCorrect` and `CancelHoldsCorrect` say themselves that
there are none.

### Seen without a run of their own

- **An interrupted import may have been committed.** After a restart, sessions
  that were importing and have no `resultBookId` fail with "Upload processing was
  interrupted before the file was committed" (`upload-session.service.ts:66`). A
  library writes that result in the transaction that enters the book; a book's
  additional file and an entry in the Dock are committed first and the session is
  updated afterwards (`:231`, `:241`). Uploading again is then refused for the book, and
  adds a second copy to the Dock, which is why `AddedOnce` excepts it.
- **The sweep takes no lock** (`:271`), so that it may mark a session expired whose
  import is under way or done. A cancel of it is then accepted, and overwritten
  when the import ends: `CancelHolds` leaves the sweep out. Its key is free, and
  the file may be uploaded again; if that import looks for the destination
  before the first has placed its file, and fails after it, it removes the file
  the first has been entered for (`upload.service.ts:183`): so does `FileKept`.
- A restart after a file was placed and before it was entered leaves it where
  it is; uploading again is refused until a scan has found it.

**Not modelled**: checksums, books of several files, the file's metadata and
cover, targets that change or go away meanwhile, the removal of rows after 30
days, which frees their keys, orphaned staging files, and uploads in one piece.

## Plan

1. Read-aloud jobs: modelled, checked and proved.
2. Book requests: modelled, checked and proved, `OneGrab`, `Claimed`, `Budget`,
   `WorkerBacked` and `OneCopy` under assumptions on behaviours.
3. Reading positions, publications, sign-in sessions and uploads: modelled,
   checked and proved.
4. The Book Dock (ingest, its work queue, finalize), which `Requests` takes as
   one step each.
5. The queue of story jobs with its leases, and the metadata-fetch queue, which
   is close to the read-aloud jobs; moving a book; the file locks.
6. The merge functions of device sync and annotations.

Each new component gets one module for its rows when several actors share
them, one for its actors, an abstract module where users are promised something,
one run for its safety properties and one for liveness where it waits for anything.
