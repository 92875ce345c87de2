----------------------------- MODULE UpdateDesk -----------------------------
(***************************************************************************)
(* The updates of the desktop application: the start-up check and its      *)
(* deferred announcement (gui/main_window.py), the Updates section of the  *)
(* settings page (gui/pages/settings_page.py), the check and the download  *)
(* (updater.py) on worker threads (gui/update_check.py), the first-run     *)
(* picker, and the settings file they all read, change and write           *)
(* (settings_store.py).                                                    *)
(*                                                                         *)
(* The window's thread runs one handler at a time; a modal dialog runs     *)
(* the event loop inside its handler.  Writing a setting is cut between    *)
(* the load and the replacement of the file, where the other threads and   *)
(* the end of the process come in.  A worker's result is delivered to the  *)
(* window's thread as an event.                                            *)
(***************************************************************************)
EXTENDS ReleaseFeed

CONSTANTS
    Workers,        \* threads a run may have at a time
    Feeds,          \* what GitHub may list
    Streams,        \* what the server may send as an installer: blocks
    DigestOf(_),    \* sha256 of a sequence of blocks
    Preferences,    \* channels and start-up checks the user may set
    Day,            \* CHECK_THROTTLE_HOURS, in steps of the clock
    UserPlans,          \* what the user may do in a run: sequences of names
    MaxClock, MaxRestarts, MaxFaults    \* bounds of a run

ASSUME DayAssumption == Day \in Nat \ {0}
\* A tag is a version or none at all.
ASSUME FeedsAssumption ==
    /\ None \notin Nat /\ Current \in ReleaseVersions
    /\ \A feed \in Feeds : /\ feed \in Seq({feed[i] : i \in DOMAIN feed})
                           /\ \A i \in DOMAIN feed : feed[i].tag \in ReleaseVersions \cup {None}
ASSUME StreamsAssumption == \A s \in Streams : s \in Seq({s[i] : i \in DOMAIN s})

VARIABLES
    file,           \* settings.json
    edits,          \* who |-> the settings it has loaded and patched, or None
    clock,          \* datetime.now
    startup,        \* a timer of _maybe_startup_update_check is armed
    firstRun,       \* a timer of _maybe_show_first_run is armed
    deferred,       \* _startup_update_pending
    flushes,        \* a timer of _flush_pending_update_banner is armed
    dialogs,        \* modal dialogs, the innermost last
    studying,       \* has_active_study_session()
    page,           \* the settings page: its pending update, its buttons
    work,           \* worker |-> the locals of its check or download
    disk,           \* the installer's file
    wanted,         \* history: each setting as its last writer wrote it
    excused,        \* history: writers overlapped, or a read failed
    launched,       \* history: what was started as an installer, and whether
                    \*   two downloads of it overlapped
    overlapped,     \* history: they did
    restarts, clicks, faults

updSettings == <<file, edits, wanted, excused>>
updWindow == <<startup, firstRun, deferred, flushes, dialogs>>
updFiles == <<disk, launched, overlapped>>
updBounds == <<restarts, clicks, faults>>
updVars == <<updSettings, updWindow, clock, studying, page, work, updFiles, updBounds>>

Window == "window"
Writers == Workers \cup {Window}

DefaultSettings == [onboarded |-> FALSE, startupChecks |-> TRUE, channel |-> "stable",
                    lastCheck |-> None, skipped |-> None]

NewPage == [pending |-> None, canCheck |-> TRUE, canAct |-> FALSE]
NoWork == [step |-> "idle"]

UpdInit ==
    /\ file = DefaultSettings /\ wanted = DefaultSettings /\ excused = FALSE
    /\ edits = [w \in Writers |-> None]
    /\ clock = 0
    /\ startup = TRUE /\ firstRun = TRUE /\ deferred = None /\ flushes = FALSE
    /\ dialogs = <<>> /\ studying = FALSE
    /\ page = NewPage
    /\ work = [w \in Workers |-> NoWork]
    /\ disk = None /\ launched = {} /\ overlapped = FALSE
    /\ restarts = 0 /\ clicks = <<>> /\ faults = 0

-----------------------------------------------------------------------------
(* The settings file.                                                      *)

Patched(settings, patch) ==
    [f \in DOMAIN settings |-> IF f \in DOMAIN patch THEN patch[f] ELSE settings[f]]

\* update_settings, up to the replacement.  A load that fails gives defaults,
\* and `then' is what the caller goes on with.
\* A mutant patches the defaults.
LoadForPatchMutant(w, patch, then) ==
    /\ edits[w] = None
    /\ edits' = [edits EXCEPT ![w] = [data |-> Patched(DefaultSettings, patch),
                                      patch |-> patch, then |-> then]]
    /\ excused' = (excused \/ \E v \in Writers : edits[v] # None)
    /\ UNCHANGED <<file, wanted, faults>>

LoadForPatch(w, patch, then) ==
    /\ edits[w] = None
    /\ \E failing \in IF faults < MaxFaults THEN BOOLEAN ELSE {FALSE} :
          /\ edits' = [edits EXCEPT ![w] =
                 [data |-> Patched(IF failing THEN DefaultSettings ELSE file, patch),
                  patch |-> patch, then |-> then]]
          /\ excused' = (excused \/ failing \/ \E v \in Writers : edits[v] # None)
          /\ faults' = IF failing THEN faults + 1 ELSE faults
    /\ UNCHANGED <<file, wanted>>

\* save_settings: the temporary file replaces settings.json...
Replace(w) ==
    /\ edits[w] # None
    /\ file' = edits[w].data
    /\ wanted' = Patched(wanted, edits[w].patch)
    /\ edits' = [edits EXCEPT ![w] = None]
    /\ UNCHANGED <<excused, faults>>

\* ...or writing it fails, and the file stays as it was.
SaveFails(w) ==
    /\ edits[w] # None /\ faults < MaxFaults
    /\ faults' = faults + 1
    /\ edits' = [edits EXCEPT ![w] = None]
    /\ UNCHANGED <<file, wanted, excused>>

-----------------------------------------------------------------------------
(* The window's thread.                                                    *)

\* The event loop is free; for what the user does to a page no dialog is open,
\* nor about to be (the timer of the picker is due at once).
Looping == edits[Window] = None
AtPage == Looping /\ dialogs = <<>> /\ ~firstRun

\* The user does one thing more of what a plan of the run allows.
Click(act) == /\ clicks' = Append(clicks, act)
              /\ \E plan \in UserPlans : Len(clicks) < Len(plan) /\ clicks' = SubSeq(plan, 1, Len(clicks) + 1)

Open(kind, about) == dialogs' = Append(dialogs, [kind |-> kind, about |-> about])
Top == dialogs[Len(dialogs)]
Closed == dialogs' = SubSeq(dialogs, 1, Len(dialogs) - 1)

\* _maybe_show_first_run
ShowFirstRun ==
    /\ Looping /\ firstRun
    /\ firstRun' = FALSE
    /\ IF file.onboarded THEN UNCHANGED dialogs ELSE Open("first run", None)
    /\ UNCHANGED <<updSettings, startup, deferred, flushes, clock, studying, page, work,
                   updFiles, updBounds>>

\* The user picks a track, or closes the picker.
EndFirstRun(chosen) ==
    /\ Looping /\ dialogs # <<>> /\ Top.kind = "first run" /\ Closed
    /\ Click(<<IF chosen THEN "choose" ELSE "close">>)
    /\ IF chosen THEN LoadForPatch(Window, [onboarded |-> TRUE], "")
       ELSE UNCHANGED <<updSettings, faults>>
    /\ UNCHANGED <<startup, firstRun, deferred, flushes, clock, studying, page, work,
                   updFiles, restarts>>

ThrottleAllows(settings) == settings.lastCheck = None \/ clock - settings.lastCheck >= Day

\* start_check_thread and start_download_thread
Spawn(w, locals) == work[w] = NoWork /\ work' = [work EXCEPT ![w] = locals]

CheckBy(asker) == [step |-> "load", asker |-> asker]

\* _maybe_startup_update_check: before the picker is answered and while the
\* user studies, the timer is armed again.
StartupCheck ==
    /\ Looping /\ startup /\ file.onboarded
    /\ startup' = FALSE
    /\ IF file.startupChecks /\ ThrottleAllows(file)
       THEN ~studying /\ \E w \in Workers : Spawn(w, CheckBy("startup"))
       ELSE UNCHANGED work
    /\ UNCHANGED <<updSettings, firstRun, deferred, flushes, dialogs, clock, studying, page,
                   updFiles, updBounds>>

\* What a check found, with what it was told and what the user had set when it
\* began.
Found(r) == [update |-> r.update, feed |-> r.feed, as |-> r.as]

\* _show_update_available
ShowUpdate(found) == Open("update", found)

\* _on_startup_update_result
\* A mutant defers without a timer.
StartupResultMutant(w) ==
    LET r == work[w]
    IN  /\ Looping /\ r.step = "done" /\ r.asker = "startup"
        /\ work' = [work EXCEPT ![w] = NoWork]
        /\ IF r.status # "available" THEN UNCHANGED <<deferred, flushes, dialogs>>
           ELSE IF studying
           THEN /\ deferred' = Found(r)
                /\ UNCHANGED <<flushes, dialogs>>
           ELSE ShowUpdate(Found(r)) /\ UNCHANGED <<deferred, flushes>>
        /\ UNCHANGED <<updSettings, startup, firstRun, clock, studying, page, updFiles, updBounds>>

StartupResult(w) ==
    LET r == work[w]
    IN  /\ Looping /\ r.step = "done" /\ r.asker = "startup"
        /\ work' = [work EXCEPT ![w] = NoWork]
        /\ IF r.status # "available" THEN UNCHANGED <<deferred, flushes, dialogs>>
           ELSE IF studying
           THEN /\ deferred' = Found(r) /\ flushes' = TRUE
                /\ UNCHANGED dialogs
           ELSE ShowUpdate(Found(r)) /\ UNCHANGED <<deferred, flushes>>
        /\ UNCHANGED <<updSettings, startup, firstRun, clock, studying, page, updFiles, updBounds>>

\* _flush_pending_update_banner: while the user studies the timer is armed again.
Flush ==
    /\ Looping /\ flushes /\ ~studying
    /\ flushes' = FALSE
    /\ deferred' = None
    /\ ShowUpdate(deferred)
    /\ UNCHANGED <<updSettings, startup, firstRun, clock, studying, page, work, updFiles, updBounds>>

\* Open Settings, Remind later, Skip this version
EndAnnouncement(skip) ==
    /\ Looping /\ dialogs # <<>> /\ Top.kind = "update" /\ Closed
    /\ Click(<<IF skip THEN "skip" ELSE "later">>)
    /\ IF skip THEN LoadForPatch(Window, [skipped |-> Top.about.update.version], "")
       ELSE UNCHANGED <<updSettings, faults>>
    /\ UNCHANGED <<startup, firstRun, deferred, flushes, clock, studying, page, work,
                   updFiles, restarts>>

\* The exam or the lab: see ExamPage and LabDesk.  A countdown ends an exam
\* behind a dialog too.
Study == /\ AtPage /\ ~studying /\ Click(<<"study">>)
         /\ studying' = TRUE
         /\ UNCHANGED <<updSettings, updWindow, clock, page, work, updFiles, restarts, faults>>

EndStudy == /\ Looping /\ studying
            /\ studying' = FALSE
            /\ UNCHANGED <<updSettings, updWindow, clock, page, work, updFiles, updBounds>>

-----------------------------------------------------------------------------
(* The settings page.  It cannot be reached from an exam, and leaving a    *)
(* lab for it hides the lab.                                               *)

OnSettings == AtPage /\ ~studying

\* _save
Save(prefs) ==
    /\ OnSettings /\ Click(<<"save", prefs>>)
    /\ LoadForPatch(Window, prefs, "")
    /\ UNCHANGED <<updWindow, clock, studying, page, work, updFiles, restarts>>

\* _check_now saves first...
CheckNow(prefs) ==
    /\ OnSettings /\ page.canCheck /\ Click(<<"check", prefs>>)
    /\ \E w \in Workers : work[w] = NoWork
    /\ LoadForPatch(Window, prefs, "check")
    /\ UNCHANGED <<updWindow, clock, studying, page, work, updFiles, restarts>>

\* ...and every handler goes on with the file written: _check_now starts the
\* check, _skip_this_version drops what it had.
WindowReplaces ==
    /\ Replace(Window)
    /\ CASE edits[Window].then = "check" ->
              /\ page' = [pending |-> None, canCheck |-> FALSE, canAct |-> FALSE]
              /\ \E w \in Workers : Spawn(w, CheckBy("page"))
         [] edits[Window].then = "skip" ->
              page' = [page EXCEPT !.pending = None, !.canAct = FALSE] /\ UNCHANGED work
         [] OTHER -> UNCHANGED <<page, work>>
    /\ UNCHANGED <<updWindow, clock, studying, updFiles, restarts, clicks>>

\* An exception leaves the handler.
WindowSaveFails ==
    /\ SaveFails(Window)
    /\ UNCHANGED <<updWindow, clock, studying, page, work, updFiles, restarts, clicks>>

\* _on_check_finished
PageResult(w) ==
    LET r == work[w]
        kept == r.status \in {"available", "skipped"}
    IN  /\ Looping /\ r.step = "done" /\ r.asker = "page"
        /\ work' = [work EXCEPT ![w] = NoWork]
        /\ page' = [pending |-> IF kept THEN r.update ELSE None, canCheck |-> TRUE, canAct |-> kept]
        /\ UNCHANGED <<updSettings, updWindow, clock, studying, updFiles, updBounds>>

\* _remind_later
RemindLater ==
    /\ OnSettings /\ page.canAct /\ Click(<<"remind">>)
    /\ page' = [page EXCEPT !.pending = None, !.canAct = FALSE]
    /\ UNCHANGED <<updSettings, updWindow, clock, studying, work, updFiles, restarts, faults>>

\* _skip_this_version
SkipThisVersion ==
    /\ OnSettings /\ page.canAct /\ page.pending # None /\ Click(<<"skip">>)
    /\ LoadForPatch(Window, [skipped |-> page.pending.version], "skip")
    /\ UNCHANGED <<updWindow, clock, studying, page, work, updFiles, restarts>>

\* _refresh_content builds the page anew: its buttons are those of a new page.
RefreshContent ==
    /\ OnSettings /\ Click(<<"refresh">>)
    /\ page' = [NewPage EXCEPT !.pending = page.pending]
    /\ UNCHANGED <<updSettings, updWindow, clock, studying, work, updFiles, restarts, faults>>

\* _download_and_install asks first...
AskToInstall ==
    /\ OnSettings /\ page.canAct /\ page.pending # None /\ Click(<<"install">>)
    /\ Open("install", page.pending)
    /\ UNCHANGED <<updSettings, startup, firstRun, deferred, flushes, clock, studying, page,
                   work, updFiles, restarts, faults>>

\* Downloads that run, and those whose result is not delivered yet.
Downloading == {w \in Workers : work[w] # NoWork /\ work[w].asker = "install"}

Confirm(yes) ==
    /\ Looping /\ dialogs # <<>> /\ Top.kind = "install" /\ Closed
    /\ IF yes
       THEN /\ page' = [page EXCEPT !.canAct = FALSE, !.canCheck = FALSE]
            /\ overlapped' = (overlapped \/ Downloading # {})
            /\ \E w \in Workers : Spawn(w, [step |-> "clear", asker |-> "install", info |-> Top.about])
       ELSE UNCHANGED <<page, work, overlapped>>
    /\ UNCHANGED <<updSettings, startup, firstRun, deferred, flushes, clock, studying,
                   disk, launched, updBounds>>

\* _on_download_finished and launch_installer
DownloadFinished(w) ==
    /\ Looping /\ work[w].step = "downloaded"
    /\ work' = [work EXCEPT ![w] = NoWork]
    /\ CASE work[w].ok /\ disk # None ->
              /\ launched' = launched \cup {[blocks |-> disk, overlapped |-> overlapped,
                                             info |-> work[w].info]}
              /\ page' = [pending |-> None, canCheck |-> TRUE, canAct |-> FALSE]
         [] work[w].ok /\ disk = None ->
              UNCHANGED launched /\ page' = [page EXCEPT !.canCheck = TRUE, !.canAct = TRUE]
         [] OTHER ->
              /\ UNCHANGED launched
              /\ page' = [page EXCEPT !.canCheck = TRUE, !.canAct = page.pending # None]
    /\ UNCHANGED <<updSettings, updWindow, clock, studying, disk, overlapped, updBounds>>

-----------------------------------------------------------------------------
(* check_for_updates, on a worker.                                         *)

Checked(w, status) ==
    work' = [work EXCEPT ![w] = [step |-> "done", asker |-> @.asker, status |-> status]]

CheckedWith(w, status, update) ==
    work' = [work EXCEPT ![w] = [step |-> "done", asker |-> @.asker, status |-> status,
                                 update |-> update, as |-> @.as, feed |-> @.feed]]

\* load_settings and the throttle; `as' is what the user had set when the
\* check began.
Load(w) ==
    /\ work[w].step = "load"
    /\ work' = [work EXCEPT ![w] =
         IF work[w].asker = "startup" /\ ~ThrottleAllows(file)
         THEN [step |-> "done", asker |-> @.asker, status |-> "throttled"]
         ELSE [step |-> "ask", asker |-> @.asker, settings |-> file, as |-> wanted]]
    /\ UNCHANGED <<updSettings, updWindow, clock, studying, page, updFiles, updBounds>>

\* The request for the listing fails...
Unreachable(w) ==
    /\ work[w].step = "ask"
    /\ Checked(w, "error")
    /\ UNCHANGED <<updSettings, updWindow, clock, studying, page, updFiles, updBounds>>

\* ...or is answered, and record_update_check_time begins.
Answered(w, feed) ==
    /\ work[w].step = "ask"
    /\ work' = [work EXCEPT ![w] = [step |-> "record", asker |-> @.asker, settings |-> @.settings,
                                    as |-> @.as, feed |-> feed]]
    /\ LoadForPatch(w, [lastCheck |-> clock], "")
    /\ UNCHANGED <<updWindow, clock, studying, page, updFiles, restarts, clicks>>

\* A failure to record is logged.
Recorded(w) ==
    /\ work[w].step = "record"
    /\ Replace(w) \/ SaveFails(w)
    /\ work' = [work EXCEPT ![w].step = "judge"]
    /\ UNCHANGED <<updWindow, clock, studying, page, updFiles, restarts, clicks>>

\* The rest: an answer that is no listing, nothing to pick, the manifest, what
\* the release must have, a version that is skipped.
SkippedBy(settings, update) == settings.skipped = update.version

Judge(w) ==
    LET c == work[w]
        r == Picked(c.feed, c.settings.channel)
    IN  /\ c.step = "judge"
        /\ IF c.feed = None THEN Checked(w, "error")
           ELSE IF Candidates(c.feed, c.settings.channel) = {} THEN Checked(w, "up to date")
           ELSE \/ Checked(w, "error")       \* the request for the manifest fails
                \/ ~(Fetchable(r) /\ Usable(r)) /\ Checked(w, "error")
                \/ /\ Fetchable(r) /\ Usable(r)
                   /\ CheckedWith(w, IF c.asker = "startup" /\ SkippedBy(c.settings, UpdateInfo(r))
                                     THEN "skipped" ELSE "available", UpdateInfo(r))
        /\ UNCHANGED <<updSettings, updWindow, clock, studying, page, updFiles, updBounds>>

-----------------------------------------------------------------------------
(* download_update, on a worker.                                           *)

OthersWrite(w) == \E v \in Downloading \ {w} : work[v].step = "stream"

\* _safe_unlink: Windows keeps a file another download has open.
Unlinked(w) == IF OthersWrite(w) THEN disk ELSE None

Downloaded(w, ok) ==
    work' = [work EXCEPT ![w] = [step |-> "downloaded", asker |-> "install", info |-> @.info, ok |-> ok]]

DownloadKeeps == UNCHANGED <<updSettings, updWindow, clock, studying, page, launched, overlapped, updBounds>>

\* What an earlier attempt left goes.
Clear(w) ==
    /\ work[w].step = "clear"
    /\ disk' = Unlinked(w)
    /\ work' = [work EXCEPT ![w].step = "checksum"]
    /\ DownloadKeeps

\* The checksum file is fetched and agrees with the manifest, or not.
Checksum(w) ==
    /\ work[w].step = "checksum"
    /\ \/ work' = [work EXCEPT ![w].step = "open"] /\ UNCHANGED disk
       \/ Downloaded(w, FALSE) /\ disk' \in {disk, Unlinked(w)}
    /\ DownloadKeeps

\* The installer is requested: refused, of another length, or opened for writing.
OpenInstaller(w, stream) ==
    /\ work[w].step = "open"
    /\ \/ Downloaded(w, FALSE) /\ disk' \in {disk, Unlinked(w)}
       \/ /\ work' = [work EXCEPT ![w] = [step |-> "stream", asker |-> "install", info |-> @.info,
                                          stream |-> stream, at |-> 0]]
          /\ disk' = <<>>
    /\ DownloadKeeps

\* The file with a block at a place, a hole before it where it was shorter.
WrittenAt(blocks, i, b) ==
    [j \in 1..(IF i > Len(blocks) THEN i ELSE Len(blocks)) |->
        IF j = i THEN b ELSE IF j <= Len(blocks) THEN blocks[j] ELSE "hole"]

\* A chunk more than was declared ends the download.
Chunk(w) ==
    LET d == work[w]
    IN  /\ d.step = "stream" /\ d.at < Len(d.stream)
        /\ IF d.at = d.info.size
           THEN Downloaded(w, FALSE) /\ disk' = Unlinked(w)
           ELSE /\ disk' = WrittenAt(disk, d.at + 1, d.stream[d.at + 1])
                /\ work' = [work EXCEPT ![w].at = @ + 1]
        /\ DownloadKeeps

\* The connection breaks.
Broken(w) ==
    /\ work[w].step = "stream"
    /\ Downloaded(w, FALSE) /\ disk' = Unlinked(w)
    /\ DownloadKeeps

\* The size and the digest of what was received.
\* A mutant takes what was received for what was declared.
ReceivedMutant(w) ==
    LET d == work[w]
    IN  /\ d.step = "stream" /\ d.at = Len(d.stream)
        /\ IF d.at = d.info.size
           THEN Downloaded(w, TRUE) /\ UNCHANGED disk
           ELSE Downloaded(w, FALSE) /\ disk' = Unlinked(w)
        /\ DownloadKeeps

Received(w) ==
    LET d == work[w]
    IN  /\ d.step = "stream" /\ d.at = Len(d.stream)
        /\ IF d.at = d.info.size /\ DigestOf(d.stream) = d.info.digest
           THEN work' = [work EXCEPT ![w].step = "verify"] /\ UNCHANGED disk
           ELSE Downloaded(w, FALSE) /\ disk' = Unlinked(w)
        /\ DownloadKeeps

\* The digest of what is on the disk.
Verify(w) ==
    LET good == disk # None /\ DigestOf(disk) = work[w].info.digest
    IN  /\ work[w].step = "verify"
        /\ Downloaded(w, good)
        /\ disk' = IF good THEN disk ELSE Unlinked(w)
        /\ DownloadKeeps

-----------------------------------------------------------------------------
(* The process and the clock.                                              *)

\* The process ends, at any point, and is started again.
Relaunch ==
    /\ restarts < MaxRestarts /\ restarts' = restarts + 1
    /\ edits' = [w \in Writers |-> None]
    /\ startup' = TRUE /\ firstRun' = TRUE /\ deferred' = None /\ flushes' = FALSE
    /\ dialogs' = <<>> /\ studying' = FALSE
    /\ page' = NewPage
    /\ work' = [w \in Workers |-> NoWork]
    /\ overlapped' = FALSE
    /\ UNCHANGED <<file, wanted, excused, clock, disk, launched, clicks, faults>>

\* A day goes by; no request or handler lasts that long.
Tick ==
    /\ clock < MaxClock
    /\ \A w \in Workers : work[w] = NoWork
    /\ \A w \in Writers : edits[w] = None
    /\ clock' = clock + 1
    /\ UNCHANGED <<updSettings, updWindow, studying, page, work, updFiles, updBounds>>

Worker(w) ==
    \/ Load(w) \/ Unreachable(w) \/ Recorded(w) \/ Judge(w)
    \/ \E feed \in Feeds \cup {None} : Answered(w, feed)
    \/ Clear(w) \/ Checksum(w) \/ Chunk(w) \/ Broken(w) \/ Received(w) \/ Verify(w)
    \/ \E stream \in Streams : OpenInstaller(w, stream)

\* What the event loop does by itself.
EventLoop ==
    \/ ShowFirstRun \/ StartupCheck \/ Flush \/ WindowReplaces
    \/ \E w \in Workers : StartupResult(w) \/ PageResult(w) \/ DownloadFinished(w)

User ==
    \/ \E chosen \in BOOLEAN : EndFirstRun(chosen)
    \/ \E skip \in BOOLEAN : EndAnnouncement(skip)
    \/ Study
    \/ \E prefs \in Preferences : Save(prefs) \/ CheckNow(prefs)
    \/ RemindLater \/ SkipThisVersion \/ RefreshContent \/ AskToInstall
    \/ \E yes \in BOOLEAN : Confirm(yes)

UpdNext ==
    \/ EventLoop \/ User \/ EndStudy \/ Relaunch \/ Tick \/ WindowSaveFails
    \/ \E w \in Workers : Worker(w)

UpdSpec == UpdInit /\ [][UpdNext]_updVars

\* Qt delivers results and fires timers that are due while the event loop runs.
UpdFairness == WF_updVars(EventLoop)

-----------------------------------------------------------------------------
(* Properties.                                                             *)

\* A write never loses a setting another wrote before, whatever ends in between:
\* each setting is as its last writer left it.  Writers that overlap lose each
\* other's changes, and after a read that failed the defaults are written
\* (update_settings, load_settings).
SettingsKept == excused \/ file = wanted

\* A place in the order of versions, written as semver.org defines it.
Rank(v) == <<v.core, IF v.beta = None THEN 1 ELSE 0, IF v.beta = None THEN 0 ELSE v.beta>>
Above(v, w) == \E i \in 1..3 : Rank(v)[i] > Rank(w)[i] /\ \A j \in 1..(i - 1) : Rank(v)[j] = Rank(w)[j]

\* An update is announced only if it is newer than what runs, nothing newer that
\* the channel admits was listed, and the user had not skipped it when the check
\* began, in this process or an earlier one.
AnnouncedRightly ==
    \A d \in {dialogs[i] : i \in DOMAIN dialogs} : d.kind = "update" =>
        LET v == d.about.update.version
            admits(r) == /\ ~r.draft /\ r.tag # None
                         /\ d.about.as.channel = "stable" => r.tag.beta = None /\ ~r.prerelease
                         /\ r.prerelease => r.tag.beta # None
            listed == {r \in {d.about.feed[i] : i \in DOMAIN d.about.feed} : admits(r)}
        IN  /\ Above(v, Current)
            /\ excused \/ (/\ v # d.about.as.skipped
                           /\ \E r \in listed : r.tag = v
                           /\ \A r \in listed : ~Above(r.tag, v))

\* What the start-up check found while the user studies is announced in the end,
\* once the studying is over, unless the process ends first.
FoundAtStartup(run) ==
    /\ restarts = run
    /\ \/ deferred # None
       \/ \E w \in Workers : /\ work[w].step = "done" /\ work[w].asker = "startup"
                            /\ work[w].status = "available"

Announcing == \E i \in DOMAIN dialogs : dialogs[i].kind = "update"

AnnouncedInTheEnd ==
    <>[]~studying => \A run \in 0..MaxRestarts :
                        FoundAtStartup(run) ~> (Announcing \/ restarts > run)

\* What is started as the installer is whole and has the manifest's digest, after
\* any failures, earlier partial files and ends of the process.  Two downloads of
\* one version at a time write one file: Refresh content gives a new Check now
\* button while the first one runs.
LaunchVerified ==
    \A l \in launched : l.overlapped \/ (Len(l.blocks) = l.info.size /\ DigestOf(l.blocks) = l.info.digest)
=============================================================================
