# OpenBoson in TLA+

OpenBoson is an offline trainer for network certifications: a Qt desktop
application (and an optional local HTTP API) that runs exams drawn from a
question pool and labs on a simulated network, and keeps attempts and results
in one SQLite database. These modules specify its behaviour, TLC checks them on
small instances, and TLAPS proves the main results for every value of the
constants. Paths below are relative to `src/openboson/`.

## The system

| Component | State | Operations | Talks to |
|---|---|---|---|
| exam session (`exsim/session.py`) | one `ExamSession`: answers, grades, flags, position, status, countdown | create, submit, toggle, move, pause, resume, finish, snapshot, restore | scoring |
| scoring (`exsim/scoring.py`) | none; writes grades into the session | `score_exam` | session |
| session store (`exsim/session_store.py`, `models.py`) | tables `exam_sessions`, `user_answers` | upsert, abandon, finalize, resumable query, loads | SQLite |
| exam page and timer (`gui/pages/exam_session_page.py`, `gui/widgets/timer_bar.py`) | the attempt on the screen, its countdown, the autosave timer | start, answer, mark, move, pause & exit, finish, tick, time-out, autosave | engine, main window (callbacks) |
| engine (`gui/engine.py`) | the last persistence warning | start, save, pause, resume, finish and score | store, registry |
| main window (`gui/main_window.py`) | which page is shown, whether an exam is; timers for the first run and the updates | start, resume, replace, retake, close, links into the library, update announcement | every page |
| HTTP exam router (`exsim/router.py`) | `_SESSIONS`, a cache of session objects | create, read, answer, mark, pause, resume, finish, review | store |
| content registry (`registry.py`, loaders) | loaded banks and labs, fingerprints, diagnostics | scan, reload when files change | files |
| blueprints and custom exams (`exsim/blueprint.py`, `exsim/custom_exam*.py`, `gui/pages/custom_exam_page.py`) | preset files, the form | allocate, sample, preview, save, load, delete, start, retake | registry, statistics |
| question card, library (`gui/widgets/question_card.py`, `gui/pages/practice*.py`) | controls and their answer; filters, a link, the list, the queue | answer, restore, lock; filter, search, link, practise | pages, statistics |
| labs (`netsim/session.py`, `grader.py`, `router.py`, `gui/pages/lab_session_page.py`) | task index, grades, command log | type, check, submit, reset with replay, finish | world |
| OpenIOS (`netsim/ios/`) | devices, interfaces, leases, routes; a mode per shell | commands, DHCP, reachability | - |
| updater (`updater.py`, `gui/update_check.py`) | last check, skipped version, download directory | check, download, verify, install | network, settings |
| settings (`settings_store.py`) | one JSON file | load, save, update | file |
| migrations and backups (`db_migrations.py`, `db_backup.py`) | schema version, backup files | migrate, back up, prune | SQLite |
| statistics (`stats_service.py`) | none | summaries, histories, trends, recommendations | tables |
| dashboard, statistics page (`gui/pages/__init__.py`, `gui/pages/stats_page.py`) | what they showed last; two filters | refresh, filter, resume, follow a card | statistics, store, main window |

What is hard in it:

* **Interruptions.** The countdown, the autosave, the user, a failing database
  and the end of the process come in any order on the desktop.
* **Copies.** One attempt exists in memory, as a JSON snapshot, as columns and
  as answer rows; resuming rebuilds the first from the second.
* **Concurrency.** Qt runs handlers one at a time, but the HTTP handlers are
  plain functions that run on worker threads, share session objects, and read
  before they write.
* **Swallowed failures.** Almost every database error is logged and ignored.

`PROJECT.json` lists every hazard at its line with the properties that cover
it, or why none does yet.

What would make each part correct:

* session, scoring: a grade belongs to the answer beside it; nothing is graded
  before the finish of an exam; a restore gives back what was saved.
* store: one active attempt; a finish is final; its three records agree.
* page, timer: no edit is lost, the clock is neither lost nor given back, it
  runs only while the exam is shown, and it ends the exam.
* router: the same, whatever requests come together; every request is answered.
* registry: a duplicate id has one owner; a bad pack leaves nothing behind.
* labs, OpenIOS: replay gives the same devices; no two hosts hold one address;
  derived state follows the configuration; the result is that of the devices.
* recipes: an exam has the questions that were asked for, whatever changed since.
* card, library: what is shown is what is stored, graded, listed and practised.
* dashboard, statistics page: what they offer is what the rows say; panels agree.
* updater: what is announced is newer, admitted and not skipped; what is found is
  announced in the end; nothing unverified is started as an installer.
* settings: a write undoes no other.
* migrations: the version matches the tables, the rows are all there, and the
  next launch succeeds.

## Modules

| Module | Models |
|---|---|
| `ExamAttempt` | one attempt: the operations of `ExamSession`, snapshot and restore, scoring. Operators only |
| `ExamStore` | the tables, each store function as a transaction on them, and what the rows should look like |
| `AttemptLedger` | the abstract promise: open, close, drop; one open attempt; results for ever |
| `ExamPage` | the desktop exam: page, timer, autosave, window, engine, over the tables |
| `ExamApi` | the HTTP exam router on worker threads, over the same tables |
| `ContentRegistry` | the registry: scan, cache and fingerprints, on threads, over files that change |
| `LabWorld` | devices and links: line protocol, adjacency, routes, access lists, reachability, DHCP. Operators only |
| `OpenIosShell` | a device's and a host's command line over `LabWorld`: modes, contexts, `do`, the pager. Operators only |
| `LabSession` | a lab: command log, reset, replay, grading and scoring. Operators only |
| `LabDesk`, `LabApi` | the lab on the desktop page; through the HTTP router, on worker threads |
| `Absent`, `StudyBank` | Python's `None`; a question as the pages select it |
| `ReleaseFeed` | versions, and which release of a listing is offered. Operators only |
| `UpdateDesk` | update check and download on workers, announcement, settings page and settings file |
| `DbUpgrade` | the database at a launch: tables, migrations, version, backup, by two processes |
| `ExamRecipes` | blueprints, custom exams, presets, the page that builds them, retakes, the same over HTTP |
| `QuestionCard` | the controls of a question and the answer they emit, on the exam and the practice page |
| `StudyDesk` | the question library, its links and filters, the practised question, the history it reads |
| `StudyHome` | the dashboard and the statistics page over the history, and what the dashboard starts |
| `MCExamPage`, `MCExamApi`, `MCContentRegistry`, `MCLab`, `MCBench` | small instances; `MCLab` composes the two lab modules, `MCBench` the last six |
| `ExamStoreLemmas` | what the operators of `ExamAttempt` and `ExamStore` preserve |
| `ExamPageProofs` | the inductive invariant of `ExamPage`, the safety theorems, the honest countdown, and that it implements `AttemptLedger` |
| `ExamApiProofs` | the invariants of `ExamApi`: for any threads, and for requests that do not overlap |
| `ContentRegistryProofs` | the inductive invariant of `ContentRegistry` and its theorems |
| `LaunchProofs` | settings file, download and announcement; what launches keep of an older file, and that they succeed |
| `StudyProofs` | sums and the largest remainder; what exams are drawn from; the Start button; matched items and answers; the library's list |
| `HomeProofs` | sorted rows, grouped tallies; that the dashboard and the statistics page show what the rows say |
| `LabProofs` | links, leases, contexts, adjacency, replay, grades and results of the labs, after any lines |

`ExamPage` and `ExamApi` both EXTEND `ExamStore`, which EXTENDS `ExamAttempt`;
`ExamPage` INSTANCEs `AttemptLedger` with each row's status as the phase.
`ContentRegistry` stands alone: exams copy the questions they draw.
`LabDesk` and `LabApi` EXTEND `LabSession`, that `OpenIosShell`, that `LabWorld`.
`UpdateDesk` EXTENDS `ReleaseFeed`; `ExamRecipes`, `StudyDesk` and
`StudyHome` EXTEND `StudyBank`.

### How the models correspond to the code

*Attempt.* A question is its position in the attempt; an answer is right, wrong
or `None`; the dictionary of answers is a function to cells whose grade is
`absent` when the question has no entry, `ungraded` when `is_correct` is `None`.
The snapshot is a record without the pass mark, as `to_snapshot` writes it, and
`Restore` is `from_snapshot` without a bank, as every caller uses it.

*Rows.* `rows[a]` is the row with `engine_session_id` `a`. Answer rows are a
set of batches, one per finalize, each numbered, so that a finish that leaves
older ones behind shows. Columns that repeat a field of the snapshot for the
dashboard are left out; there is one user.

*Page.* A Qt handler is an action, whole: what it changes in the session, the
save it makes, timers, and the navigation its callbacks do. `ticking` is a
running `QTimer` that is not paused; `hooked` is a connected `_on_timeout`. A
save may fail (`MaxFaults`); `saved[a]` remembers whether the last one did. The
histories `terms` and `seen` record what the bank demanded and the last
countdown shown; no action reads them except to tell which attempt ids are new.
Both ways of starting an exam behave alike here, and custom exams differ only
in their terms. A relaunch is part of the action that ends the process.

*API.* A request is a record with a program counter, cut between: finding the
session in the cache, loading a row, caching it, changing the object,
snapshotting it, selecting the rows to abandon, selecting its own row, and the
commit. `heap` holds session objects, since two may exist for one attempt.
pysqlite's SELECTs take no part in the write transaction, so what was selected
may be stale at the commit; SQLAlchemy writes only the columns that differ from
what it loaded (`Merged`), flushes pending rows before a query, which takes the
write lock (`writer`), and a second insert of the same id fails on the unique
index (`Conflict`). The status column takes the object's status when the row is
filled in, the snapshot is older: `TakeSnapshot` and `SelectOwn` are different
steps. Bookmarks and marks of ids that are not in the attempt are not
enumerated: they add an unknown id to a set nobody else reads.

*Registry.* `disk` gives every path its content and the stamp of its last
change; a fingerprint is the stamp, 0 for no file. What is accepted or rejected
as a whole is a unit, and `Rank` is the order of `_scan`: a catalogue is a
verdict on every unit, from which the banks, labs and diagnostics follow. A
request is `_ensure_loaded`, cut at each look at the disk and each use of
`self._state`: collect, compare, then take, or scan unit by unit (inside a pack:
digest of a file, content of a file, and so on, then the checks over the whole
pack) and store. Collecting the fingerprints is one step: they take a stat each,
and a change between two of them is, for the file, before or after all of them.
Several reads that one look makes of one file are one too. `late` is no variable
of the code: it marks a scan that read a file which came after its fingerprints
were collected. If that file is gone again before the next request, fingerprints
cannot tell, and the catalogue stays as it is until another change or a refresh;
`Fresh` excepts this case, and fails without the exception. A pack may list files of
any name, but only `*.yaml` and `*.yml` have fingerprints (`Printed`, registry.py:177):
a change of another file of a pack is noticed at the next change of a YAML file or
Refresh only, so `Fresh` speaks of units whose files are all fingerprinted (`Traced`).
The instance has a pack that lists a file of each sort. That a change always
gives a new fingerprint is an assumption on the file system (modification time
or size differ). An exception leaves the registry as it was and is a response.

*OpenIOS.* A device is a record of its interfaces, VLANs, pools, routes and so
on, an address a number, a network a block of them; whatever the code recomputes
on demand (line protocol, OSPF routes) is a field here too, so that it can be
stale as it is there. A line is a record: its keyword, which commands it may
abbreviate, and arguments that are parsed already. `Feed` gives the new world,
the new shell and whether the output stopped at a full page. Some behaviour that
surprises is the code's: `do end` clears the contexts and keeps the mode; a host
keeps the gateway it guessed when it is given another address; leases are never
released; routes learnt by OSPF are stale until a ping rebuilds them; the pager
of the shell and the one of the terminal disagree after Ctrl+C or Ctrl+L.

*Labs.* `LabSession` builds a session by feeding base configurations, as the
code does, and the log has the lines the wrapped `feed` has seen: a line a pager
takes is in it. A key of the pager and a comment are not, and neither are the pings
of a check, which fill the tables of routes and addresses: a replay may differ when a
shell took such a key, paged a comment, or showed a table after a check (the pager
counts its rows, and takes the next line). A
task whose rules name no device is graded against the one device its instructions
name, or else against all configurations together (`ConfigFor`), as some of the
bundled labs want it; the instance has tasks of each sort. A
rule's weight counts for graded tasks and the task's for the others; a pass
threshold of 0 is read as 1. On the page, leaving a lab by a tab leaves its
session unreachable; over HTTP, submit grades and then moves on in two steps, so
two at once may skip a task.

*Updates.* The window's thread runs one handler at a time and a dialog runs the
event loop inside its own, so `dialogs` is a stack. A change of a setting is a
load and a replacement (`LoadForPatch`, `Replace`), with other threads and the
end of the process in between; a load that fails gives the defaults, which are
then written. A worker's result is an event of the window. The download is cut
at each chunk and at each verification; the file on the disk outlives the
process. A version can be skipped after the check that announces it began;
closing the first-run picker without a choice makes the start-up check wait
for ever; a clock set back stops the checks until it has caught up.

*Database.* A statement is a step, and what it sees and leaves follows the
driver: `CREATE` and `ALTER` are committed at once unless an `INSERT` or
`UPDATE` has opened the transaction before. A process that ends between the
creation of `exam_sessions_new` and the commit leaves the table, and each later
upgrade of that file fails; two overlapping launches may fail one, or rebuild a
table from what was read before the other one's rows. `UpgradeSound` and
`LaunchSucceeds` name these cases (`cut`, `raced`) and hold in all others.
The backup is copied into its final name by `shutil.copy2`, without a lock. It may fail
or be cut off anywhere between `BeginCopy` and `EndCopy`, and what it has written stays
under the name of a backup; two copies that begin in one second have one name, and the
later empties the earlier; a copy made while another launch writes may be of no use. So
`UpgradeSound` speaks of copies that ended, and of those unless launches raced. Pruning
sorts by time of modification, which a finished copy has from the database and a cut-off
one from its last write: it may keep the cut-off copy and remove whole ones
(`SurelyNewer`). That a file cannot be removed while pruning, and stays, is left out.

*Recipes.* A form, a preset and a request are one record, the spec. What is
drawn is any set `random.sample` may give. A plan of the instance says which acts
of the user and of a client a run has and in which order each of the two does
them; how they interleave is free. A bank or a pack may change while any page is
shown (`ContentChanges`), since each `load_pool` looks at the files again: between the
preview and the start the pool may shrink, and the start is then refused; `touched`
remembers this and the other process's finish since the last preview. An answer without a grade in a finished exam
counts as a miss; the temporary file of a save has a name the listing reads;
an attempt carries the id of the preset being edited even if the form was
changed; a retake whose preset is gone or short repeats the same questions.

*Card.* Items to match are tokens, answers are texts. A drag is one step. A
match or an order that was never touched can be checked on the practice page.

*Library.* A question that two tracks share counts, in the domain totals, for the
first of them only (`FirstCert`). `lib` is the page's own state; `content`, the rows and the tabs that
are due a refresh are around it. `stuck` and `behind` mark what the code does not
keep: a link that is followed while a topic is selected keeps the topic or, with
a track and a domain, drops the link (`apply_deep_link` unblocks a signal too
early); a checked question that is left by a tab, or statistics that cannot be
read, leave the Unseen and Missed lists as they were. The library keeps the pool it
has until it is refreshed, so the list lags as well when the content changes while it is
shown (`moved`). A topic's code is taken to have two segments or more, as in all bundled
banks; the schema (`bank_schema.py:135`) says so in a comment only, and with a topic of
one segment a link to a domain could select the topic itself.

*Dashboard, statistics.* `home` and `board` are what the two pages showed at their
last refresh, built from `exams` (with the answers of each) and `labRuns`; a finish
has the next number as its time. A refresh is one step: the queries have a session
each, so the commit of another process between two of them could show in one panel
only. The exam itself is `ExamPage`'s; here it is begun, saved, paused and ended,
and each of these may fail to be written. The histories and the summary count
attempts that are not finished, as failed and with no points; SQLite puts them after
the others, and `latest_activity` names one when nothing is finished. `aside` marks
that the registry's files changed since a refresh, or that a query of it failed.
That more than eight domains are cut to the five weakest is left out.

## Runs

| Run | Instance | Shows |
|---|---|---|
| `page` | 2 attempts, 2 questions (one ordered), timed for 2 ticks or untimed, 2 edits, 1 fault, 1 restart | the inductive invariant (types included), one active attempt, nothing unsaved, consistent results, no early grade, the refinement of the ledger |
| `clock` | 2 attempts, 4 ticks, autosave every 2, 1 edit, 1 fault, 1 restart | the countdown is honest across pause, close and kill; it runs only on the exam page; a timed exam ends |
| `api_serial` | 1 thread, 2 attempts, 4 requests, 1 fault, 1 restart | what the router keeps true only when requests do not overlap, and the type invariant |
| `api_threads` | 2 threads, 3 requests, 1 restart | grades and answers stay together under races; every request is answered |
| `registry` | 2 threads, a bundled file, one of the user's, a pack of two files, 2 changes, 3 requests | what is served as current is the scan of the current files that have fingerprints; no id gets a second owner |
| `lab` | 3 labs of 4 or 5 devices, 5 or 6 lines of up to 4 choices each, pager keys, 1 reset; over HTTP 4 calls on 1 thread | line protocol, leases, contexts and adjacency after every line; a replay rebuilds; the result is that of the devices; tasks are graded in order |
| `bench` | six scenes: 2 workers, 2 listings, 3 streams, 5 plans, 1 restart, 1 fault; 2 processes, 4 old files, 3 launches, 1 end, 1 backup kept; 5 questions, 3 pools, 9 plans; a card of each kind, 3 terms and 3 items of 2 texts; a library of 5 questions, 2 contents and 5 acts; 2 pages, 2 histories and 5 acts | settings, announcements, launches, upgrades, draws, the Start button, the card, the list, the dashboard and the statistics, each as its property says; a found update is announced |
| `lab_excluded` | violated | an address that was excluded is leased |
| `page_untimed` | violated | an untimed exam that is closed and resumed has a countdown |
| `page_pass_mark` | violated | a resumed exam is decided against the default pass mark |
| `api_race` | violated | two creates at once leave two active attempts |
| `registry_failure` | violated | one bad manifest fails the request |

**Bounds.** Two attempts are what "one active" and "replaced" need. Edits,
requests, faults and restarts are counters in the guards (`MaxEdits`,
`MaxRequests`, `MaxFaults`, `MaxRestarts`) and nothing else reads them. Two
edits on two questions let the same answer change twice or two questions
differ; four requests are create, answer, finish and one more on the finished
session; two are enough for the race. One fault is followed by successful
writes, which is where it would show. A time limit of two ticks with an
autosave at each tick reaches the time-out in every state of the page; the
clock run has a longer limit so that the autosave lags. Symmetry is used over
the attempts in `page` and the threads in `registry`, where every property is
an invariant or, in `page`, a property of steps. In `registry` two changes let a
file of the pack differ between digest and content, or a manifest and a file
change together; three requests let one thread refresh between another's
comparison and its answer. The two initial disks are a whole pack beside a bad
bundled file, and a corrupt pack that would also collide; the rest of the
contents and manifests (bad, invalid, raising, a shorter listing) come with the
changes (`MaxWrites`).
In `lab` a topology and the lines of each step are chosen for what may collide:
two pools over one network, an address set by hand, a shut port; two links that
cross their ports; a route, OSPF and an access list that deny each other. In
`bench` a run steps one scene and leaves the others as they begin, since they
share nothing that is modelled. The plans bring a skip with a check that is under
way, two downloads, an exam of the other process or another content between a preview and a start,
a preset that is saved, corrupted and deleted under a retake; two texts for three
items make the restored answer ambiguous; five acts of the library are a link, a
check, the way back and two more. On the dashboard five acts are an exam that is
started, answered, ended or paused, and one more; histories and trends are cut at
two (`Recent`), so that what is left out by a limit occurs. Three launches are a failing one, one that
overlaps and one after both.
Deadlock is not checked: users and clients may stop, and counters run out.

**Fairness.** `FairSpec` of `ExamPage` has weak fairness of `ClockAction`: Qt
fires a timer that is due while the event loop runs. Nothing obliges the user,
and a relaunch needs none since it is part of the action that ends the process.
`FairSpec` of `ExamApi` has weak fairness of each thread's `Serve`: the
operating system runs every thread, and SQLite's lock is given to a waiter when
it is free. No fairness on failures, restarts or clients.
`BenchSpec` has weak fairness of `EventLoop` of `UpdateDesk`: Qt fires due timers
and delivers results while its loop runs. `AnnouncedInTheEnd` assumes of the user
that an exam or a lab comes to an end for good (`<>[]~studying`), not that a
dialog is answered: a modal dialog does not stop the loop.

## Findings

1. `exsim/session_store.py:87`, "Only one active attempt per user.", does not
   hold of overlapping requests (`api_race`). With two threads
   `ResultsConsistent`, `FinishedStaysFinished` and `CacheIsSaved` fail in the
   same way, so those are checked of one request at a time only.
2. `exsim/scoring.py:165` decides "against the bank's pass_score", but
   `from_snapshot` (`exsim/session.py:382`) rebuilds the bank without it: a
   resumed exam is decided against 0.825 (`page_pass_mark`).
3. `bank_schema.py:318` says `0 = untimed`; `from_snapshot`
   (`exsim/session.py:381`) reads `or 120`: a resumed untimed exam has a
   120-minute countdown (`page_untimed`).
4. `registry.py:516` says of `PackError` that it is "Raised when a pack manifest
   is invalid or unsafe.", and only for it does `_load_one_pack` reject the pack.
   A `schema_version` that is no number raises `ValueError` at line 697 instead,
   and every call of the registry fails while the file is there
   (`registry_failure`).
5. `docs/openios-command-matrix.md:31` says a lease skips the "excluded range".
   `ip dhcp excluded-address` (`netsim/ios/shell.py:984`) adds it to the pools
   that exist at that moment: a pool made afterwards leases it (`lab_excluded`).

## Proofs

The assumptions are the named ASSUMEs of the modules: at least one question, a
finite set of attempts, `None` distinct from other values, exams with valid
terms, bounds that are naturals. TLC evaluates them in every run.

`PageInvariant` is the inductive invariant of `ExamPage`. `OneActive` alone is
not inductive in a useful way, and the others certainly are not:
`NothingUnsaved` needs to know that the session on the screen is in progress
(or the upsert would have refused it), `ResultsConsistent` needs that an
unfinished attempt has no grade that is not the grade of its answer, and
`ClockOnlyOnExam` is what makes a tick change nothing else. So the invariant
couples the page's flags with its session (`PageCoherent`), each row with its
snapshot (`RowsCoherent`), and the ids not used yet with the absence of a row
(`UnusedHaveNoRow`). TLC checks it as an invariant of `page`.

* `ExamStoreLemmas` has the facts on data: what each session operation keeps of
  an unfinished attempt, that a snapshot and its restore agree on it, that
  grading all cells leaves none ungraded and their grades current, and what each
  transaction keeps of well-typed, coherent tables with at most one active row.
* `ExamPageProofs` proves one lemma per action. Starting, saving and finishing
  have a lemma of their own that the handlers which do them share.
  `PageInvariantHolds` combines them; the safety theorems follow.
* It also proves `Spec => LedgerSpec`: an upsert is an `Open`, an abandon a
  `Drop`, a finalize a `Close`, and everything else a stutter. It uses the
  invariant for the rows' status before each step.
* `ClockInvariant` adds to `PageInvariant` and `ClockHonest` what makes the
  countdown honest (`OnTheClock`): while the exam is on the screen, the user sees
  the timer, and the session is ahead of it by no more than the ticks since the last
  autosave.

`ExamApi` has three invariants in `ExamApiProofs`. `ApiInv` holds for any number of
threads: whatever requests do to each other, a grade in a row, in a session object,
in a snapshot under way or in a batch about to be written is the grade of its
answer, and nothing that is pointed to has been collected. `OneActive`,
`ResultsConsistent` and `FinishedStaysFinished` do not survive two requests that
overlap (`api_race`), so their theorems say so: they assume `OneAtATime`, a server
with one worker thread. `SerialInv` then describes the rows, the cache and the one
request at every program counter, which is a request's meaning cut in steps.
`CacheIsSaved` needs `SavedInv`, and that every offered exam has a limit: a restore
gives an untimed exam the default one (the finding of `page_untimed`).

`ContentRegistry` has its invariant in `ContentRegistryProofs` (`IInv`). `Fresh`
speaks of the moment a catalogue is served, and is about reads that happened long
before, so the invariant has to say what is still known of them: for every unit
done with, *if* the listed files it was judged from have kept their fingerprints,
its verdict is the one their present contents deserve, files that were not listed
counting as absent (`Faithful`; `PackKnown` inside a pack). A write falsifies the
condition for the units of that file, since it gives a fingerprint that no
request has collected (`OldPrints`), and changes nothing for the others
(`JudgedLocal`); a read adds a fact that holds now. `Owned` is the part for
`NoSilentOverride`: only units done with own ids, they come before all others,
and bundled ones before those of the user. TLC found `IInv` invariant on the
instance of `registry` before it was proved.

`UpdateDesk` has two independent invariants in `LaunchProofs`. `SettingsInv`
strengthens `SettingsKept` with what makes a write harmless: while no two writers
overlapped and no load failed, at most one writer is between its load and its
replacement, and what it holds is the file with its patch. `DownloadInv` says of
each step of a download what is on the disk (`Has`): while it streams, what was
received so far; at the verification, all of it; after that, bytes with the size
and the digest of the release. Unless `overlapped` is set, only one download works
on the file (`Busy`), so no other changes them. It needs that a stream is a
sequence (`StreamsAssumption`).

`AnnounceInv` is about the announcement: what the window may still announce, in a
finished check, deferred, or in a dialog, is what the pick gives for its feed under
the settings the user had when the check began, unless writers that overlapped or a
read that failed excuse them (`Offer`). What the pick gives is then newer than the
program, not skipped, and highest (`OfferIsRight`); it needs that the feeds hold
releases (`FeedsAssumption`).

`LaunchProofs` has `DbUpgrade` too. A launch decides by what it has read, which
another launch may have made stale: what carries it through is that the columns of
the file only grow, but for a commit, which leaves all of them, so that a column it
saw is there whoever runs in between (`ColumnsInv`). The rows are the same inside a
transaction and outside (`RowsInv`), and a launch that runs alone knows which
columns are missing still (`AloneInv`), which is why its ALTERs cannot fail. Unless
launches raced, a launch that copies has been alone since it began to (`AloneInv`), so
the copy is the file, whose rows are there. What is
assumed is that an older file has the columns of its version and rows keyed by their
ids.

`StudyProofs` has four parts.

* *Sums.* `SumFunctionOnSet` is a recursive function; that it exists and what it
  gives are proved by a smallest counterexample (`SmallestSet`). From these:
  the leftover of the largest remainder method is the sum of the remainders, so no
  domain needs more than one question more and each that gets one has a remainder
  (`AllocatedFairly`); whoever shares out, the shares add up to the total.
* *Exams.* `DrawInv` says that every attempt, file and form holds a well-formed
  demand, and that what the page knows of the history is what happened; an attempt
  then follows what it was asked for (`BlueprintDraws`, `CustomDraws`).
  `CoverageIsRight`: the coverage of a blueprint says ready exactly when it can be
  drawn, for every pool. `ButtonInv` says that, while the page is shown and no
  other process has touched the history and nobody the content, an enabled button means that what the form
  asks for suffices. The assumptions are those of the bank's schema: counts
  and weights are naturals, some weight is not 0, domains are numbers, a seeded
  sample is a sample.
* *Answers.* `CardInv` strengthens `MatchTokenOnce` with the ranges of the slots
  and of the tray, and with `Apart`: a restored answer gives different terms
  different items, also if their texts are equal, since each equal text takes the
  next unused item. `AnswerInv` adds that a stored match is the texts of items that
  all differ (`Restorable`), so that this item exists when it is shown again.
* *Library.* `LibraryInv`: unless the history changed since the list was made
  (`behind`) and is filtered by, the list is the questions wanted by the filters
  under the present statistics, each once; the filters are those of the link that
  was followed last, unless a topic was selected at that moment (`stuck`); on its
  page the library has the pool of the last load, unless the content has changed since
  (`moved`). It assumes that a topic is below a domain, which the schema does not
  enforce, and that a sort keeps each question once.

`HomeProofs` proves what the dashboard and the statistics page show (`HomeInv`).

* *Sorts and groups.* A strict total order of a finite set gives its elements the
  ranks 0..n-1 (`InRankSorts`), so a sorted list starts with what is ahead of all
  others; that the percentages of domains are such an order is `CrossMultiply`.
  `TalliesAddUp`: however a set of answers is divided, its tally is the sum of
  those of the groups. The bars, the cells by version and the points of the trend
  are three divisions of one set, the last only if no limit cuts it.
* *Rows.* `Rows` says that one attempt at most is active, that only finished ones
  have answers, and that the finishes are the times up to now, the last of them the
  latest of an exam or of a lab. Saving, abandoning and finishing keep it, and never
  take an answer away (`Keeps`), which is why a version the filter was offered stays
  one that has answers.
* *Pages.* What changes the rows leaves the dashboard or makes its refresh due; the
  panels are those of the filters (`BoardAgrees`), whatever the rows have become.
  It needs that only these two pages have a refresh due (`PendingInv`). It is
  assumed that earlier launches have left such rows (`HistoriesAssumption`), that
  labs and domains are numbered, and that an exam ends with answers to questions of
  the bank.

`LabProofs` proves of `LabDesk` and `LabApi` that every session is one a lab can be
in (`SessOk`): a world of the lab that is `Sound`, a shell for each device in a mode
with its own context, a log of lines for its devices.

* *Links.* A port is in one link at most, so it has one peer (`OnePeer`), and
  `_refresh_link_state` gives every port what it is to have, whatever it had
  (`RefreshRight`). In a sound world it changes nothing (`RefreshIdle`), which is why
  the pings of a check leave the devices as they are, and the result is theirs.
* *Commands.* Each one either changes a device and leaves its links alone
  (`SmallSteps`), or opens or shuts a port and refreshes. An address typed on a host
  is no lease; what a pool offers is on no other device's port and in no other
  client's lease, from any router (`LeaseUnique`, `LeaseIsFree`).
* *Layer 2.* Adjacency is symmetric because each of its parts is, under the flip of
  a link: of several links between two switches the lowest port of the smaller one
  decides, and that is one link, because a port is in one (`L2Symmetric`).
* *Scripts.* A base configuration, a replay, the checks and a finish are folds.
  That such a function exists and keeps what each step keeps is proved by the
  smallest prefix that would not (`SmallestNumber`).
* *Replay.* The log builds the devices and the shells of the session (`ReplayInv`).
  The session itself was not built that way: its checks pinged between the lines, so
  its OSPF and ARP tables are others. Two worlds with the same devices stay so under
  every line (`Alike`) but `show ip route` and `show ip arp`, which print the tables
  and may so fill a page in the one and not in the other; a renewal is answered from
  the wires. Build of a longer log is one more line on the build of the log
  (`BuildGrows`), and a line that is not logged changes a shell or nothing
  (`IdleLine`). The exceptions are what `unlogged` remembers. They are needed: without
  either of them TLC finds a replay that differs.
* *Server.* `ServerInv` says where a session is while a submission goes through it
  (`Between`): graded, at the last task, or about to advance. It assumes one worker,
  as the property does: two submissions at once skip a task.

Assumed of a lab are that devices and ports are numbered and a link joins two
devices at ports they have, each port in one link at most (`LabAssumption`), and that
it has a task, its scripts are lists, the terminal length a line sets is not negative
(`_cmd_terminal` refuses it) and a pool's network is typed as an address and a mask
(`ScriptAssumption`, `TypedAssumption`, `PageAssumption`). The code stores whatever
two words follow `network`, and a pool that does not parse offers nothing; such lines
are not modelled. The schema
(`netsim/lab_schema.py`) does not demand all of this; all 28 bundled labs are like
this. A lab without a task fails on submission. That no abbreviation is a whole
command (`AbbrevAssumption`) is what `_resolve_command` does: they are proper prefixes.

Not proved, only model-checked:

* `TimedExamEnds`, `Responds` and `AnnouncedInTheEnd`: liveness under fairness.
* What the violated runs check, which does not hold.

## Not modelled

* Rendering, styling, charts, logging, exports, the objectives report: they read
  and show.
* The validation of a bank's or a lab's fields, and the legacy bank format: whether
  a file is accepted is an input of `ContentRegistry`.
* Corrupt `state_json` and questions that left the pool: the load then gives
  nothing, as for a row without a snapshot.
* Both front ends on one set of exam rows at the same time: `DbUpgrade` and
  `ExamRecipes` have both processes, `ExamPage` and `ExamApi` one each.
* `merge_banks`, and the HTTP routers' own caches of banks and labs.
* Questions dropped on the card from elsewhere; shows of OpenIOS but for their
  paging; parsing of a typed line.
* Server and command line start-up, paths, and the offline scripts that generate
  content, which run once and by hand.

## Plan

Done: everything in the table of modules.

Next, in this order:

1. `ContentCaches`: the routers' `_BANKS`, `_POOL` and `_LABS` over the registry,
   with `clear_content_cache` after a refresh: a request that is filling a cache
   while it is cleared must not leave the older content in it.
2. `ExamDesk`: the page and the router over one set of tables.
