---------------------------- MODULE LaunchProofs ----------------------------
(***************************************************************************)
(* What the application can rely on from launch to launch: its settings    *)
(* and updates (SettingsKept, LaunchVerified and AnnouncedRightly) and its *)
(* database (UpgradeSound and LaunchSucceeds), for any workers, listings,  *)
(* settings, streams, processes, rows an older version left, and any       *)
(* number of restarts, faults and kills.                                   *)
(*                                                                         *)
(* The settings: as long as no writers overlapped and no read failed, the  *)
(* only writer there is holds the file, as it is, with its patch.          *)
(*                                                                         *)
(* The installer: as long as no downloads overlapped, the only download    *)
(* there is has in the file what it has received, until it is verified.    *)
(*                                                                         *)
(* The announcement: a check holds the settings the user had when it       *)
(* began, unless a write was lost; what it finds, what is deferred and     *)
(* what a dialog shows is the pick from a listing for those settings.      *)
(*                                                                         *)
(* The database: a launch decides by what it has read, which another       *)
(* launch may have made stale.  What carries it through is that the        *)
(* columns of the file only grow, but for a commit, which leaves all of    *)
(* them: what a launch knows of the columns it sees stays true whoever     *)
(* runs in between.  The rows are the same inside a transaction and        *)
(* outside.  A launch that runs alone moreover knows which columns are     *)
(* missing still, and that no new table is there but its own.              *)
(***************************************************************************)
EXTENDS UpdateDesk, DbUpgrade, FiniteSetTheorems, SequenceTheorems, TLAPS

SettingsInv ==
    /\ edits = [w \in Writers |-> edits[w]]
    /\ excused \in BOOLEAN
    /\ ~excused =>
          /\ file = wanted
          /\ \A w \in Writers : edits[w] # None => edits[w].data = Patched(file, edits[w].patch)
          /\ \A v, w \in Writers : edits[v] # None /\ edits[w] # None => v = w

\* What a step may do to the settings.
SettingsStep ==
    \/ \E w \in Writers :
          \/ \E patch, then : LoadForPatch(w, patch, then)
          \/ Replace(w) \/ SaveFails(w)
    \/ UNCHANGED updSettings
    \/ UNCHANGED <<file, wanted, excused>> /\ edits' = [w \in Writers |-> None]

LEMMA SettingsInitially == UpdInit => SettingsInv
BY DEF UpdInit, SettingsInv

\* Every handler loads, replaces, gives up, or leaves the settings alone.
LEMMA StepsOnSettings == ASSUME UpdNext PROVE SettingsStep
<1>0. Window \in Writers
  BY DEF Writers
<1>1. CASE EventLoop
  <2>1. CASE WindowReplaces
    BY <1>0, <2>1 DEF WindowReplaces, SettingsStep
  <2>2. CASE ShowFirstRun \/ StartupCheck \/ Flush
    BY <2>2 DEF ShowFirstRun, StartupCheck, Flush, SettingsStep
  <2>3. CASE \E w \in Workers : StartupResult(w) \/ PageResult(w) \/ DownloadFinished(w)
    BY <2>3 DEF StartupResult, PageResult, DownloadFinished, SettingsStep
  <2> QED
    BY <1>1, <2>1, <2>2, <2>3 DEF EventLoop
<1>2. CASE User
  <2>1. CASE \E chosen \in BOOLEAN : EndFirstRun(chosen)
    BY <1>0, <2>1 DEF EndFirstRun, SettingsStep
  <2>2. CASE \E skip \in BOOLEAN : EndAnnouncement(skip)
    BY <1>0, <2>2 DEF EndAnnouncement, SettingsStep
  <2>3. CASE \E prefs \in Preferences : Save(prefs) \/ CheckNow(prefs)
    BY <1>0, <2>3 DEF Save, CheckNow, SettingsStep
  <2>4. CASE SkipThisVersion
    BY <1>0, <2>4 DEF SkipThisVersion, SettingsStep
  <2>5. CASE Study \/ RemindLater \/ RefreshContent \/ AskToInstall
    BY <2>5 DEF Study, RemindLater, RefreshContent, AskToInstall, SettingsStep
  <2>6. CASE \E yes \in BOOLEAN : Confirm(yes)
    BY <2>6 DEF Confirm, SettingsStep
  <2> QED
    BY <1>2, <2>1, <2>2, <2>3, <2>4, <2>5, <2>6 DEF User
<1>3. CASE EndStudy \/ Tick
  BY <1>3 DEF EndStudy, Tick, SettingsStep
<1>4. CASE Relaunch
  BY <1>4 DEF Relaunch, SettingsStep
<1>5. CASE WindowSaveFails
  BY <1>0, <1>5 DEF WindowSaveFails, SettingsStep
<1>6. ASSUME NEW w \in Workers, Worker(w) PROVE SettingsStep
  <2>0. w \in Writers
    BY DEF Writers
  <2>1. CASE \E feed \in Feeds \cup {None} : Answered(w, feed)
    BY <2>0, <2>1 DEF Answered, SettingsStep
  <2>2. CASE Recorded(w)
    BY <2>0, <2>2 DEF Recorded, SettingsStep
  <2>3. CASE Load(w) \/ Unreachable(w) \/ Judge(w)
    BY <2>3 DEF Load, Unreachable, Judge, SettingsStep
  <2>4. CASE \/ Clear(w) \/ Checksum(w) \/ Chunk(w) \/ Broken(w) \/ Received(w) \/ Verify(w)
             \/ \E stream \in Streams : OpenInstaller(w, stream)
    BY <2>4 DEF Clear, Checksum, Chunk, Broken, Received, Verify, OpenInstaller, DownloadKeeps,
                SettingsStep
  <2> QED
    BY <1>6, <2>1, <2>2, <2>3, <2>4 DEF Worker
<1> QED
  BY <1>1, <1>2, <1>3, <1>4, <1>5, <1>6 DEF UpdNext

LEMMA SettingsStepKeeps == ASSUME SettingsInv, SettingsStep PROVE SettingsInv'
<1>1. ASSUME NEW w \in Writers, NEW patch, NEW then, LoadForPatch(w, patch, then)
      PROVE SettingsInv'
  <2>1. PICK failing \in BOOLEAN :
          /\ edits' = [edits EXCEPT ![w] =
                 [data |-> Patched(IF failing THEN DefaultSettings ELSE file, patch),
                  patch |-> patch, then |-> then]]
          /\ excused' = (excused \/ failing \/ \E v \in Writers : edits[v] # None)
    BY <1>1 DEF LoadForPatch
  <2>2. file' = file /\ wanted' = wanted
    BY <1>1 DEF LoadForPatch
  <2>3. CASE excused'
    BY <2>1, <2>3 DEF SettingsInv
  <2>4. CASE ~excused'
    <3>1. ~excused /\ ~failing /\ \A v \in Writers : edits[v] = None
      BY <2>1, <2>4
    <3>2. edits'[w].data = Patched(file', edits'[w].patch) /\ \A v \in Writers \ {w} : edits'[v] = None
      BY <2>1, <2>2, <3>1 DEF SettingsInv
    <3> QED
      BY <2>1, <2>2, <3>1, <3>2 DEF SettingsInv
  <2> QED
    BY <2>3, <2>4
<1>2. ASSUME NEW w \in Writers, Replace(w) PROVE SettingsInv'
  <2>1. ~excused => /\ edits[w].data = Patched(wanted, edits[w].patch)
                    /\ \A v \in Writers \ {w} : edits[v] = None
    BY <1>2 DEF Replace, SettingsInv
  <2>2. ~excused => file' = wanted' /\ \A v \in Writers : edits'[v] = None
    BY <1>2, <2>1 DEF Replace, SettingsInv
  <2> QED
    BY <1>2, <2>2 DEF Replace, SettingsInv
<1>3. ASSUME NEW w \in Writers, SaveFails(w) PROVE SettingsInv'
  BY <1>3 DEF SaveFails, SettingsInv
<1>4. ASSUME UNCHANGED updSettings PROVE SettingsInv'
  BY <1>4 DEF updSettings, SettingsInv
<1>5. ASSUME UNCHANGED <<file, wanted, excused>>, edits' = [w \in Writers |-> None] PROVE SettingsInv'
  BY <1>5 DEF SettingsInv
<1> QED
  BY <1>1, <1>2, <1>3, <1>4, <1>5 DEF SettingsStep

\* A write never loses a setting another wrote before (update_settings).
THEOREM SettingsAreKept == UpdSpec => []SettingsKept
<1>1. UpdInit => SettingsInv
  BY SettingsInitially
<1>2. SettingsInv /\ [UpdNext]_updVars => SettingsInv'
  <2> SUFFICES ASSUME SettingsInv, [UpdNext]_updVars PROVE SettingsInv'
    OBVIOUS
  <2>1. CASE UpdNext
    BY <2>1, StepsOnSettings, SettingsStepKeeps
  <2>2. CASE UNCHANGED updVars
    BY <2>2 DEF updVars, updSettings, SettingsInv
  <2> QED
    BY <2>1, <2>2
<1>3. SettingsInv => SettingsKept
  BY DEF SettingsInv, SettingsKept
<1> QED
  BY <1>1, <1>2, <1>3, PTL DEF UpdSpec

-----------------------------------------------------------------------------
(* The installer.                                                          *)

Steps == {"clear", "checksum", "open", "stream", "verify", "downloaded"}
Busy(w) == work[w].step \in Steps

\* The locals of a thread that has something to do with a file.
Shape(r) ==
    /\ r.step \in Steps => r.asker = "install"
    /\ r.step \in {"clear", "checksum", "open"} =>
          r = [step |-> r.step, asker |-> "install", info |-> r.info]
    /\ r.step \in {"stream", "verify"} =>
          /\ r = [step |-> r.step, asker |-> "install", info |-> r.info, stream |-> r.stream,
                  at |-> r.at]
          /\ r.stream \in Streams /\ r.at \in 0..Len(r.stream)
    /\ r.step = "record" =>
          r = [step |-> "record", asker |-> r.asker, settings |-> r.settings, as |-> r.as,
               feed |-> r.feed]

\* What the file d has when a download that nothing disturbs is at r.
Has(d, r) ==
    /\ r.step = "stream" => d = [j \in 1..r.at |-> r.stream[j]]
    /\ r.step = "verify" => d = r.stream /\ Len(d) = r.info.size
    /\ r.step = "downloaded" /\ r.ok /\ d # None =>
          Len(d) = r.info.size /\ DigestOf(d) = r.info.digest

DownloadInv ==
    /\ work = [w \in Workers |-> work[w]]
    /\ overlapped \in BOOLEAN
    /\ \A w \in Workers : Shape(work[w])
    /\ ~overlapped =>
          /\ \A v, w \in Workers : Busy(v) /\ Busy(w) => v = w
          /\ \A w \in Workers : Has(disk, work[w])
    /\ LaunchVerified

\* A step of a thread that has no download, or is done with it.
Quiet(w) ==
    /\ work' = [work EXCEPT ![w] = work'[w]]
    /\ work'[w].step \notin Steps /\ Shape(work'[w])
    /\ UNCHANGED updFiles

QuietStep == (\E w \in Workers : Quiet(w)) \/ UNCHANGED <<work, updFiles>>

DownloadStep ==
    \/ \E yes \in BOOLEAN : Confirm(yes)
    \/ Relaunch
    \/ \E w \in Workers :
          \/ DownloadFinished(w) \/ Clear(w) \/ Checksum(w) \/ Chunk(w) \/ Broken(w)
          \/ Received(w) \/ Verify(w) \/ \E stream \in Streams : OpenInstaller(w, stream)

\* A thread with these locals is quiet.
LEMMA QuietThread ==
    ASSUME work = [v \in Workers |-> work[v]], NEW w \in Workers, NEW r,
           work' = [work EXCEPT ![w] = r], r.step \notin Steps, Shape(r), UNCHANGED updFiles
    PROVE  QuietStep
BY DEF QuietStep, Quiet

LEMMA QuietLocals ==
    /\ NoWork.step \notin Steps /\ Shape(NoWork)
    /\ \A asker : CheckBy(asker).step \notin Steps /\ Shape(CheckBy(asker))
    /\ \A r : r.step \in {"idle", "load", "ask", "judge", "done"} => r.step \notin Steps /\ Shape(r)
BY DEF NoWork, CheckBy, Steps, Shape

LEMMA DownloadInitially == ASSUME UpdInit PROVE DownloadInv
<1>1. /\ work = [w \in Workers |-> work[w]] /\ overlapped = FALSE /\ launched = {}
      /\ \A w \in Workers : work[w] = NoWork
  BY DEF UpdInit
<1>2. \A w \in Workers : ~Busy(w) /\ Shape(work[w]) /\ Has(disk, work[w])
  BY <1>1, QuietLocals DEF Busy, Has, Steps
<1> QED
  BY <1>1, <1>2 DEF DownloadInv, LaunchVerified

LEMMA QuietStepKeeps == ASSUME DownloadInv, QuietStep PROVE DownloadInv'
<1>1. CASE UNCHANGED <<work, updFiles>>
  BY <1>1 DEF updFiles, DownloadInv, Busy, LaunchVerified
<1>2. ASSUME NEW w \in Workers, Quiet(w) PROVE DownloadInv'
  <2>1. /\ work' = [v \in Workers |-> work'[v]]
        /\ \A v \in Workers \ {w} : work'[v] = work[v]
    BY <1>2 DEF Quiet, DownloadInv
  <2>2. UNCHANGED <<disk, launched, overlapped>> /\ ~Busy(w)' /\ Shape(work'[w])
    BY <1>2 DEF Quiet, updFiles, Busy
  <2>3. Has(disk', work'[w])
    BY <2>2 DEF Has, Busy, Steps
  <2> QED
    BY <2>1, <2>2, <2>3 DEF DownloadInv, Busy, LaunchVerified
<1> QED
  BY <1>1, <1>2 DEF QuietStep

LEMMA CheckedIsQuiet ==
    ASSUME work = [v \in Workers |-> work[v]], NEW w \in Workers, NEW status, NEW update,
           Checked(w, status) \/ CheckedWith(w, status, update), UNCHANGED updFiles
    PROVE  QuietStep
<1> DEFINE r == work'[w]
<1>1. r.step = "done"
  BY DEF Checked, CheckedWith
<1>2. work' = [work EXCEPT ![w] = r]
  BY DEF Checked, CheckedWith
<1> HIDE DEF r
<1>3. r.step \notin Steps /\ Shape(r)
  BY <1>1, QuietLocals
<1> QED
  BY <1>2, <1>3, QuietThread

\* What a check or its result does to its thread.
LEMMA StepsOnDownloads == ASSUME DownloadInv, UpdNext PROVE QuietStep \/ DownloadStep
<1>0. work = [w \in Workers |-> work[w]] /\ \A w \in Workers : Shape(work[w])
  BY DEF DownloadInv
<1>1. CASE EventLoop
  <2>1. CASE ShowFirstRun \/ Flush
    BY <2>1 DEF ShowFirstRun, Flush, QuietStep
  <2>2. CASE StartupCheck
    <3>1. (\E w \in Workers : Spawn(w, CheckBy("startup"))) \/ UNCHANGED work
      BY <2>2 DEF StartupCheck
    <3>2. UNCHANGED updFiles
      BY <2>2 DEF StartupCheck
    <3> QED
      BY <1>0, <3>1, <3>2, QuietThread, QuietLocals DEF Spawn, QuietStep
  <2>3. CASE WindowReplaces
    <3>1. (\E w \in Workers : Spawn(w, CheckBy("page"))) \/ UNCHANGED work
      BY <2>3 DEF WindowReplaces
    <3>2. UNCHANGED updFiles
      BY <2>3 DEF WindowReplaces
    <3> QED
      BY <1>0, <3>1, <3>2, QuietThread, QuietLocals DEF Spawn, QuietStep
  <2>4. CASE \E w \in Workers : StartupResult(w) \/ PageResult(w)
    BY <1>0, <2>4, QuietThread, QuietLocals DEF StartupResult, PageResult
  <2>5. CASE \E w \in Workers : DownloadFinished(w)
    BY <2>5 DEF DownloadStep
  <2> QED
    BY <1>1, <2>1, <2>2, <2>3, <2>4, <2>5 DEF EventLoop
<1>2. CASE User
  <2>1. CASE \E yes \in BOOLEAN : Confirm(yes)
    BY <2>1 DEF DownloadStep
  <2>2. CASE \/ \E chosen \in BOOLEAN : EndFirstRun(chosen)
             \/ \E skip \in BOOLEAN : EndAnnouncement(skip)
             \/ \E prefs \in Preferences : Save(prefs) \/ CheckNow(prefs)
             \/ SkipThisVersion \/ Study \/ RemindLater \/ RefreshContent \/ AskToInstall
    BY <2>2 DEF EndFirstRun, EndAnnouncement, Save, CheckNow, SkipThisVersion, Study, RemindLater,
                RefreshContent, AskToInstall, QuietStep
  <2> QED
    BY <1>2, <2>1, <2>2 DEF User
<1>3. CASE EndStudy \/ Tick \/ WindowSaveFails
  BY <1>3 DEF EndStudy, Tick, WindowSaveFails, QuietStep
<1>4. CASE Relaunch
  BY <1>4 DEF DownloadStep
<1>5. ASSUME NEW w \in Workers, Worker(w) PROVE QuietStep \/ DownloadStep
  <2>1. CASE Load(w)
    <3> DEFINE r == work'[w]
    <3>1. r.step \in {"ask", "done"}
      BY <1>0, <2>1 DEF Load
    <3>2. work' = [work EXCEPT ![w] = r]
      BY <1>0, <2>1 DEF Load
    <3>3. UNCHANGED updFiles
      BY <2>1 DEF Load
    <3> HIDE DEF r
    <3>4. r.step \notin Steps /\ Shape(r)
      BY <3>1, QuietLocals
    <3> QED
      BY <1>0, <3>2, <3>3, <3>4, QuietThread
  <2>2. CASE Unreachable(w)
    BY <1>0, <2>2, CheckedIsQuiet DEF Unreachable
  <2>3. CASE Judge(w)
    <3>1. \E status, update : Checked(w, status) \/ CheckedWith(w, status, update)
      BY <2>3 DEF Judge
    <3>2. UNCHANGED updFiles
      BY <2>3 DEF Judge
    <3> QED
      BY <1>0, <3>1, <3>2, CheckedIsQuiet
  <2>4. CASE \E feed \in Feeds \cup {None} : Answered(w, feed)
    <3>1. PICK feed : work' = [work EXCEPT ![w] = [step |-> "record", asker |-> @.asker,
                                   settings |-> @.settings, as |-> @.as, feed |-> feed]]
      BY <2>4 DEF Answered
    <3> DEFINE r == [step |-> "record", asker |-> work[w].asker, settings |-> work[w].settings,
                     as |-> work[w].as, feed |-> feed]
    <3>2. r.step \notin Steps /\ Shape(r)
      BY DEF Steps, Shape
    <3>3. work' = [work EXCEPT ![w] = r]
      BY <1>0, <3>1
    <3> QED
      BY <1>0, <2>4, <3>2, <3>3, QuietThread DEF Answered
  <2>5. CASE Recorded(w)
    <3> DEFINE r == [work[w] EXCEPT !.step = "judge"]
    <3>1. r.step = "judge"
      BY <1>0, <2>5 DEF Recorded, Shape
    <3>2. work' = [work EXCEPT ![w] = r]
      BY <1>0, <2>5 DEF Recorded
    <3>3. UNCHANGED updFiles
      BY <2>5 DEF Recorded
    <3> HIDE DEF r
    <3>4. r.step \notin Steps /\ Shape(r)
      BY <3>1, QuietLocals
    <3> QED
      BY <1>0, <3>2, <3>3, <3>4, QuietThread
  <2>6. CASE \/ Clear(w) \/ Checksum(w) \/ Chunk(w) \/ Broken(w) \/ Received(w) \/ Verify(w)
             \/ \E stream \in Streams : OpenInstaller(w, stream)
    BY <2>6 DEF DownloadStep
  <2> QED
    BY <1>5, <2>1, <2>2, <2>3, <2>4, <2>5, <2>6 DEF Worker
<1> QED
  BY <1>1, <1>2, <1>3, <1>4, <1>5 DEF UpdNext

\* A download goes on; nothing else is one, unless some overlapped.
LEMMA ThreadKeeps ==
    ASSUME DownloadInv, NEW w \in Workers, Busy(w), NEW r,
           work' = [work EXCEPT ![w] = r], Shape(r), UNCHANGED <<launched, overlapped>>,
           ~overlapped => Has(disk', r)
    PROVE  DownloadInv'
<1>1. /\ work' = [v \in Workers |-> work'[v]] /\ work'[w] = r
      /\ \A v \in Workers \ {w} : work'[v] = work[v]
  BY DEF DownloadInv
<1>2. ASSUME ~overlapped, NEW v \in Workers \ {w} PROVE ~Busy(v)' /\ Has(disk', work'[v])
  BY <1>1, <1>2 DEF DownloadInv, Busy, Has, Steps
<1>3. \A v \in Workers : Shape(work'[v])
  BY <1>1 DEF DownloadInv
<1>4. ~overlapped' => /\ \A u, v \in Workers : Busy(u)' /\ Busy(v)' => u = v
                      /\ \A v \in Workers : Has(disk', work'[v])
  BY <1>1, <1>2
<1> QED
  BY <1>1, <1>3, <1>4 DEF DownloadInv, LaunchVerified

LEMMA FailedKeeps ==
    ASSUME DownloadInv, NEW w \in Workers, Busy(w), Downloaded(w, FALSE),
           UNCHANGED <<launched, overlapped>>
    PROVE  DownloadInv'
<1> DEFINE r == [step |-> "downloaded", asker |-> "install", info |-> work[w].info, ok |-> FALSE]
<1>1. work' = [work EXCEPT ![w] = r]
  BY DEF Downloaded
<1>2. Shape(r) /\ Has(disk', r)
  BY DEF Shape, Has, Steps
<1> HIDE DEF r
<1> QED
  BY <1>1, <1>2, ThreadKeeps

LEMMA StepSet ==
    ASSUME NEW info, NEW stream, NEW at, NEW old, NEW new
    PROVE  /\ [[step |-> old, asker |-> "install", info |-> info] EXCEPT !.step = new]
                = [step |-> new, asker |-> "install", info |-> info]
           /\ [[step |-> old, asker |-> "install", info |-> info, stream |-> stream, at |-> at]
                   EXCEPT !.step = new]
                = [step |-> new, asker |-> "install", info |-> info, stream |-> stream, at |-> at]
OBVIOUS

LEMMA AtSet ==
    ASSUME NEW info, NEW stream, NEW at, NEW new
    PROVE  [[step |-> "stream", asker |-> "install", info |-> info, stream |-> stream, at |-> at]
               EXCEPT !.at = new]
           = [step |-> "stream", asker |-> "install", info |-> info, stream |-> stream, at |-> new]
OBVIOUS

LEMMA WholeSequence == ASSUME NEW S, NEW s \in Seq(S) PROVE s = [j \in 1..Len(s) |-> s[j]]
OBVIOUS

LEMMA DownloadStepKeeps == ASSUME DownloadInv, DownloadStep PROVE DownloadInv'
<1>0. work = [w \in Workers |-> work[w]] /\ \A w \in Workers : Shape(work[w])
  BY DEF DownloadInv
<1>1. ASSUME NEW w \in Workers, Clear(w) \/ (Checksum(w) /\ ~Downloaded(w, FALSE))
      PROVE  DownloadInv'
  <2>1. PICK step \in {"checksum", "open"} : work' = [work EXCEPT ![w].step = step]
    BY <1>1 DEF Clear, Checksum
  <2>2. work[w].step \in {"clear", "checksum"} /\ UNCHANGED <<launched, overlapped>>
    BY <1>1 DEF Clear, Checksum, DownloadKeeps
  <2> DEFINE r == [step |-> step, asker |-> "install", info |-> work[w].info]
  <2>3. work' = [work EXCEPT ![w] = r]
    <3>1. work[w] = [step |-> work[w].step, asker |-> "install", info |-> work[w].info]
      BY <1>0, <2>2 DEF Shape
    <3>2. [work[w] EXCEPT !.step = step] = r
      BY <3>1, StepSet
    <3> HIDE DEF r
    <3> QED
      BY <2>1, <3>2
  <2>4. Shape(r) /\ Has(disk', r) /\ Busy(w)
    BY <2>2 DEF Shape, Has, Steps, Busy
  <2> HIDE DEF r
  <2> QED
    BY <2>2, <2>3, <2>4, ThreadKeeps
<1>2. ASSUME NEW w \in Workers, Busy(w), Downloaded(w, FALSE), DownloadKeeps PROVE DownloadInv'
  BY <1>2, FailedKeeps DEF DownloadKeeps
<1>3. ASSUME NEW w \in Workers, NEW stream \in Streams, OpenInstaller(w, stream), ~Downloaded(w, FALSE)
      PROVE  DownloadInv'
  <2> DEFINE r == [step |-> "stream", asker |-> "install", info |-> work[w].info,
                   stream |-> stream, at |-> 0]
  <2>1. /\ work' = [work EXCEPT ![w] = r] /\ disk' = <<>> /\ Busy(w)
        /\ UNCHANGED <<launched, overlapped>>
    BY <1>3 DEF OpenInstaller, DownloadKeeps, Busy, Steps
  <2>2. <<>> = [j \in 1..0 |-> stream[j]]
    OBVIOUS
  <2>3. Shape(r) /\ Has(disk', r)
    BY <2>1, <2>2, StreamsAssumption DEF Shape, Has, Steps
  <2> HIDE DEF r
  <2> QED
    BY <2>1, <2>3, ThreadKeeps
<1>4. ASSUME NEW w \in Workers, Chunk(w), ~Downloaded(w, FALSE) PROVE DownloadInv'
  <2> DEFINE d == work[w]
             r == [step |-> "stream", asker |-> "install", info |-> d.info, stream |-> d.stream,
                   at |-> d.at + 1]
  <2>1. /\ d.step = "stream" /\ d.at < Len(d.stream)
        /\ disk' = WrittenAt(disk, d.at + 1, d.stream[d.at + 1])
        /\ work' = [work EXCEPT ![w].at = @ + 1] /\ UNCHANGED <<launched, overlapped>>
    BY <1>4 DEF Chunk, DownloadKeeps
  <2>2. /\ d = [step |-> "stream", asker |-> "install", info |-> d.info, stream |-> d.stream,
                at |-> d.at]
        /\ d.stream \in Streams /\ d.at \in 0..Len(d.stream) /\ Len(d.stream) \in Nat
    BY <1>0, <2>1, StreamsAssumption DEF Shape
  <2>3. work' = [work EXCEPT ![w] = r]
    <3>1. [d EXCEPT !.at = d.at + 1] = r
      BY <2>2, AtSet
    <3> HIDE DEF r
    <3> QED
      BY <2>1, <3>1
  <2>4. ~overlapped => Has(disk', r)
    <3> SUFFICES ASSUME ~overlapped PROVE disk' = [j \in 1..(d.at + 1) |-> d.stream[j]]
      BY DEF Has
    <3>1. disk = [j \in 1..d.at |-> d.stream[j]]
      BY <2>1 DEF DownloadInv, Has
    <3>2. Len(disk) = d.at
      BY <2>2, <3>1
    <3> QED
      BY <2>1, <2>2, <3>1, <3>2 DEF WrittenAt
  <2>5. Shape(r) /\ Busy(w)
    BY <2>1, <2>2 DEF Shape, Steps, Busy
  <2> HIDE DEF r
  <2> QED
    BY <2>1, <2>3, <2>4, <2>5, ThreadKeeps
<1>5. ASSUME NEW w \in Workers, Received(w), ~Downloaded(w, FALSE) PROVE DownloadInv'
  <2> DEFINE d == work[w]
             r == [step |-> "verify", asker |-> "install", info |-> d.info, stream |-> d.stream,
                   at |-> d.at]
  <2>1. /\ d.step = "stream" /\ d.at = Len(d.stream) /\ d.at = d.info.size
        /\ work' = [work EXCEPT ![w].step = "verify"] /\ UNCHANGED <<disk, launched, overlapped>>
    BY <1>5 DEF Received, DownloadKeeps
  <2>2. /\ d = [step |-> "stream", asker |-> "install", info |-> d.info, stream |-> d.stream,
                at |-> d.at]
        /\ d.stream \in Streams /\ d.at \in 0..Len(d.stream)
    BY <1>0, <2>1 DEF Shape
  <2>3. work' = [work EXCEPT ![w] = r]
    <3>1. [d EXCEPT !.step = "verify"] = r
      BY <2>2, StepSet
    <3> HIDE DEF r
    <3> QED
      BY <2>1, <3>1
  <2>4. d.stream = [j \in 1..Len(d.stream) |-> d.stream[j]]
    BY <2>2, StreamsAssumption, WholeSequence
  <2>5. ~overlapped => Has(disk', r)
    BY <2>1, <2>2, <2>4 DEF DownloadInv, Has
  <2>6. Shape(r) /\ Busy(w)
    BY <2>1, <2>2 DEF Shape, Steps, Busy
  <2> HIDE DEF r
  <2> QED
    BY <2>1, <2>3, <2>5, <2>6, ThreadKeeps
<1>6. ASSUME NEW w \in Workers, Verify(w), ~Downloaded(w, FALSE) PROVE DownloadInv'
  <2> DEFINE d == work[w]
             r == [step |-> "downloaded", asker |-> "install", info |-> d.info, ok |-> TRUE]
  <2>1. /\ d.step = "verify" /\ DigestOf(disk) = d.info.digest
        /\ work' = [work EXCEPT ![w] = r] /\ UNCHANGED <<disk, launched, overlapped>>
    BY <1>6 DEF Verify, Downloaded, DownloadKeeps
  <2>2. ~overlapped => Has(disk', r)
    BY <2>1 DEF DownloadInv, Has
  <2>3. Shape(r) /\ Busy(w)
    BY <2>1 DEF Shape, Steps, Busy
  <2> HIDE DEF r
  <2> QED
    BY <2>1, <2>2, <2>3, ThreadKeeps
<1>7. ASSUME NEW w \in Workers, DownloadFinished(w) PROVE DownloadInv'
  <2>1. /\ work[w].step = "downloaded" /\ work' = [work EXCEPT ![w] = NoWork]
        /\ UNCHANGED <<disk, overlapped>>
        /\ \/ /\ work[w].ok /\ disk # None
              /\ launched' = launched \cup {[blocks |-> disk, overlapped |-> overlapped,
                                             info |-> work[w].info]}
           \/ UNCHANGED launched
    BY <1>7 DEF DownloadFinished
  <2>2. LaunchVerified'
    <3>1. ~overlapped /\ work[w].ok /\ disk # None =>
             Len(disk) = work[w].info.size /\ DigestOf(disk) = work[w].info.digest
      BY <2>1 DEF DownloadInv, Has
    <3> QED
      BY <2>1, <3>1 DEF DownloadInv, LaunchVerified
  <2>3. /\ work' = [v \in Workers |-> work'[v]] /\ work'[w] = NoWork
        /\ \A v \in Workers \ {w} : work'[v] = work[v]
    BY <1>0, <2>1
  <2>4. ~Busy(w)' /\ Shape(work'[w]) /\ Has(disk', work'[w])
    BY <2>3, QuietLocals DEF Busy, Has, Steps
  <2> QED
    BY <2>1, <2>2, <2>3, <2>4 DEF DownloadInv, Busy
<1>8. ASSUME NEW yes \in BOOLEAN, Confirm(yes) PROVE DownloadInv'
  <2>1. CASE ~yes
    BY <1>8, <2>1, QuietStepKeeps DEF Confirm, QuietStep, updFiles
  <2>2. CASE yes
    <3>1. PICK w \in Workers : Spawn(w, [step |-> "clear", asker |-> "install", info |-> Top.about])
      BY <1>8, <2>2 DEF Confirm
    <3> DEFINE r == [step |-> "clear", asker |-> "install", info |-> Top.about]
    <3>2. Shape(r) /\ Has(disk', r)
      BY DEF Shape, Has, Steps
    <3>3. /\ overlapped' = (overlapped \/ Downloading # {}) /\ UNCHANGED <<disk, launched>>
          /\ work' = [work EXCEPT ![w] = r]
      BY <1>8, <2>2, <3>1 DEF Confirm, Spawn
    <3> HIDE DEF r
    <3>4. /\ work' = [v \in Workers |-> work'[v]] /\ work'[w] = r
          /\ \A v \in Workers \ {w} : work'[v] = work[v]
      BY <1>0, <3>3
    <3>5. ASSUME ~overlapped' PROVE \A v \in Workers \ {w} : ~Busy(v)'
      <4>1. \A v \in Workers : Busy(v) => v \in Downloading
        BY <1>0, QuietLocals DEF Busy, Shape, Downloading
      <4> QED
        BY <3>3, <3>4, <3>5, <4>1 DEF Busy
    <3>6. ~overlapped' => \A v \in Workers : Has(disk', work'[v])
      BY <3>2, <3>3, <3>4 DEF DownloadInv
    <3> QED
      BY <1>0, <3>2, <3>3, <3>4, <3>5, <3>6 DEF DownloadInv, LaunchVerified
  <2> QED
    BY <2>1, <2>2
<1>9. CASE Relaunch
  <2>1. /\ work' = [w \in Workers |-> NoWork] /\ overlapped' = FALSE /\ UNCHANGED <<disk, launched>>
    BY <1>9 DEF Relaunch
  <2>2. \A w \in Workers : ~Busy(w)' /\ Shape(work'[w]) /\ Has(disk', work'[w])
    BY <2>1, QuietLocals DEF Busy, Has, Steps
  <2> QED
    BY <2>1, <2>2 DEF DownloadInv, LaunchVerified
<1>10. ASSUME NEW w \in Workers, Checksum(w) \/ Chunk(w) \/ Broken(w) \/ Received(w) \/ Verify(w)
                                 \/ \E stream \in Streams : OpenInstaller(w, stream)
       PROVE  DownloadKeeps /\ Busy(w)
  BY <1>10 DEF Checksum, Chunk, Broken, Received, Verify, OpenInstaller, Busy, Steps
<1>11. ASSUME NEW w \in Workers, Broken(w) PROVE DownloadInv'
  BY <1>2, <1>10, <1>11 DEF Broken
<1> QED
  BY <1>1, <1>2, <1>3, <1>4, <1>5, <1>6, <1>7, <1>8, <1>9, <1>10, <1>11 DEF DownloadStep

\* What is started as the installer is whole and has the manifest's digest, whatever
\* the server sends and whatever failures and ends of the process come before
\* (download_update, launch_installer).
THEOREM LaunchesAreVerified == UpdSpec => []LaunchVerified
<1>1. UpdInit => DownloadInv
  BY DownloadInitially
<1>2. DownloadInv /\ [UpdNext]_updVars => DownloadInv'
  <2> SUFFICES ASSUME DownloadInv, [UpdNext]_updVars PROVE DownloadInv'
    OBVIOUS
  <2>1. CASE UpdNext
    BY <2>1, StepsOnDownloads, QuietStepKeeps, DownloadStepKeeps
  <2>2. CASE UNCHANGED updVars
    BY <2>2, QuietStepKeeps DEF updVars, QuietStep
  <2> QED
    BY <2>1, <2>2
<1>3. DownloadInv => LaunchVerified
  BY DEF DownloadInv
<1> QED
  BY <1>1, <1>2, <1>3, PTL DEF UpdSpec

-----------------------------------------------------------------------------
(* The order of versions and the pick from a listing.                      *)

(* Lt is the strict order that semver.org's ranks give. *)
LEMMA VersionOrder ==
    ASSUME NEW u \in ReleaseVersions, NEW v \in ReleaseVersions, NEW w \in ReleaseVersions
    PROVE  /\ ~Lt(v, v)
           /\ Lt(u, v) /\ Lt(v, w) => Lt(u, w)
           /\ Lt(u, v) \/ Lt(v, u) \/ u = v
<1>1. ~Lt(v, v)
  BY FeedsAssumption DEF Lt, ReleaseVersions, IsPrerelease
<1>2. Lt(u, v) /\ Lt(v, w) => Lt(u, w)
  BY FeedsAssumption DEF Lt, ReleaseVersions, IsPrerelease
<1>3. Lt(u, v) \/ Lt(v, u) \/ (u.core = v.core /\ u.beta = v.beta)
  BY FeedsAssumption DEF Lt, ReleaseVersions, IsPrerelease
<1>4. u.core = v.core /\ u.beta = v.beta => u = v
  BY DEF ReleaseVersions
<1> QED
  BY <1>1, <1>2, <1>3, <1>4

LEMMA AboveIsLt ==
    ASSUME NEW v \in ReleaseVersions, NEW w \in ReleaseVersions
    PROVE  Above(v, w) <=> Lt(w, v)
<1> DEFINE Same(i) == Rank(v)[i] = Rank(w)[i]
           More(i) == Rank(v)[i] > Rank(w)[i]
<1>1. Above(v, w) <=> \/ More(1)
                      \/ Same(1) /\ More(2)
                      \/ Same(1) /\ Same(2) /\ More(3)
  <2>1. /\ \A j \in 1..(1 - 1) : FALSE
        /\ \A j \in 1..(2 - 1) : j = 1
        /\ \A j \in 1..(3 - 1) : j = 1 \/ j = 2
        /\ 1 \in 1..(2 - 1) /\ 1 \in 1..(3 - 1) /\ 2 \in 1..(3 - 1)
    OBVIOUS
  <2>2. \A i \in 1..3 : i = 1 \/ i = 2 \/ i = 3
    OBVIOUS
  <2>3. 1 \in 1..3 /\ 2 \in 1..3 /\ 3 \in 1..3
    OBVIOUS
  <2> QED
    BY <2>1, <2>2, <2>3, Zenon DEF Above
<1>2. /\ Rank(v)[1] = v.core /\ Rank(w)[1] = w.core
      /\ Rank(v)[2] = (IF v.beta = None THEN 1 ELSE 0) /\ Rank(w)[2] = (IF w.beta = None THEN 1 ELSE 0)
      /\ Rank(v)[3] = (IF v.beta = None THEN 0 ELSE v.beta)
      /\ Rank(w)[3] = (IF w.beta = None THEN 0 ELSE w.beta)
  BY DEF Rank
<1> QED
  BY <1>1, <1>2, FeedsAssumption DEF Lt, ReleaseVersions, IsPrerelease

\* The stable sort puts place i of the listing before place j.
Before(feed, i, j) ==
    Lt(feed[j].tag, feed[i].tag) \/ (feed[j].tag = feed[i].tag /\ i < j)

Foremost(feed, i, T) == i \in T /\ \A j \in T \ {i} : Before(feed, i, j)

(* A listing has a newest release, in any of its parts: no part without one is
   smallest. *)
LEMMA NewestExists ==
    ASSUME NEW feed, NEW D \in SUBSET Nat, IsFiniteSet(D), D # {},
           \A i \in D : feed[i].tag \in ReleaseVersions
    PROVE  Foremost(feed, Newest(feed, D), D)
<1> DEFINE Without == {T \in FiniteSubsetsOf(D) :
                          T # {} /\ \A i \in T : ~Foremost(feed, i, T)}
<1>1. Without = {}
  <2> SUFFICES ASSUME Without # {} PROVE FALSE
    OBVIOUS
  <2>1. IsWellFoundedOn(StrictSubsetOrdering(D), FiniteSubsetsOf(D))
    BY FS_StrictSubsetOrderingWellFounded
  <2>2. Without \subseteq FiniteSubsetsOf(D)
    OBVIOUS
  <2> DEFINE R == StrictSubsetOrdering(D)
  <2>3. PICK T \in Without : \A U \in Without : ~(<<U, T>> \in R)
    <3> HIDE DEF Without, R
    <3> QED
      BY <2>1, <2>2, WFMin DEF R
  <2>4. /\ T \in SUBSET D /\ IsFiniteSet(T) /\ T # {}
        /\ \A i \in T : ~Foremost(feed, i, T)
    BY <2>3 DEF FiniteSubsetsOf
  <2>5. PICK x \in T : TRUE
    BY <2>4
  <2> DEFINE U == T \ {x}
  <2>6. U \in FiniteSubsetsOf(D) /\ U # T /\ U \subseteq T
    BY <2>4, <2>5, FS_RemoveElement DEF FiniteSubsetsOf
  <2>7. U \notin Without
    <3>1. <<U, T>> \in R
      BY <2>4, <2>6 DEF StrictSubsetOrdering, FiniteSubsetsOf
    <3> QED
      BY <2>3, <3>1
  <2>8. CASE U = {}
    <3>1. Foremost(feed, x, T)
      BY <2>5, <2>8 DEF Foremost
    <3> QED
      BY <2>4, <2>5, <3>1
  <2>9. CASE U # {}
    <3>1. PICK m \in U : Foremost(feed, m, U)
      BY <2>6, <2>7, <2>9
    <3>2. m \in D /\ x \in D /\ m # x
      BY <2>4, <2>5, <3>1
    <3>3. CASE Before(feed, m, x)
      <4>1. Foremost(feed, m, T)
        BY <2>5, <3>1, <3>3 DEF Foremost
      <4> QED
        BY <2>4, <3>1, <4>1
    <3>4. CASE ~Before(feed, m, x)
      <4>1. feed[m].tag \in ReleaseVersions /\ feed[x].tag \in ReleaseVersions /\ m \in Nat /\ x \in Nat
        BY <3>2
      <4>2. Before(feed, x, m)
        BY <3>2, <3>4, <4>1, VersionOrder DEF Before
      <4>3. ASSUME NEW j \in U \ {m} PROVE Before(feed, x, j)
        <5>1. Before(feed, m, j) /\ j \in D /\ j \in Nat
          BY <2>4, <3>1, <4>3 DEF Foremost
        <5>2. feed[j].tag \in ReleaseVersions
          BY <5>1
        <5> QED
          BY <4>1, <4>2, <5>1, <5>2, VersionOrder DEF Before
      <4>4. Foremost(feed, x, T)
        BY <2>5, <4>2, <4>3 DEF Foremost
      <4> QED
        BY <2>4, <2>5, <4>4
    <3> QED
      BY <3>3, <3>4
  <2> QED
    BY <2>8, <2>9
<1>2. D \in FiniteSubsetsOf(D)
  BY DEF FiniteSubsetsOf
<1>3. PICK i \in D : Foremost(feed, i, D)
  BY <1>1, <1>2
<1> QED
  BY <1>3 DEF Newest, Foremost, Before

(* The release the loop of _pick_release picks: it is one of the candidates,
   and no candidate is newer. *)
LEMMA PickedIsNewest ==
    ASSUME NEW feed \in Feeds, NEW channel, Candidates(feed, channel) # {}
    PROVE  \E i \in Candidates(feed, channel) :
              /\ Picked(feed, channel) = feed[i]
              /\ feed[i].tag \in ReleaseVersions
              /\ \A j \in Candidates(feed, channel) : ~Above(feed[j].tag, feed[i].tag)
<1> DEFINE C == Candidates(feed, channel)
           i == Newest(feed, C)
<1>1. DOMAIN feed = 1..Len(feed) /\ Len(feed) \in Nat
  BY FeedsAssumption
<1>2. C \in SUBSET (1..Len(feed))
  BY <1>1 DEF Candidates
<1>3. IsFiniteSet(C) /\ C \in SUBSET Nat
  <2> HIDE DEF C
  <2>1. IsFiniteSet(1..Len(feed))
    BY <1>1, FS_Interval
  <2>2. IsFiniteSet(C)
    BY <1>2, <2>1, FS_Subset
  <2>3. 1..Len(feed) \subseteq Nat
    OBVIOUS
  <2> QED
    BY <1>2, <2>2, <2>3
<1>4. \A j \in C : feed[j].tag \in ReleaseVersions
  BY FeedsAssumption DEF Candidates, AllowedOn
<1> HIDE DEF C
<1>5. Foremost(feed, i, C)
  BY <1>3, <1>4, NewestExists DEF C
<1>6. Picked(feed, channel) = feed[i]
  BY DEF Picked, C
<1> HIDE DEF i
<1>7. ASSUME NEW j \in C PROVE ~Above(feed[j].tag, feed[i].tag)
  <2>1. feed[i].tag \in ReleaseVersions /\ feed[j].tag \in ReleaseVersions
    BY <1>4, <1>5 DEF Foremost
  <2>2. j = i \/ Before(feed, i, j)
    BY <1>5 DEF Foremost
  <2>3. ~Lt(feed[i].tag, feed[j].tag)
    BY <2>1, <2>2, VersionOrder DEF Before
  <2> QED
    BY <2>1, <2>3, AboveIsLt
<1> QED
  BY <1>4, <1>5, <1>6, <1>7 DEF Foremost, C

-----------------------------------------------------------------------------
(* The announcement.                                                       *)

\* What may be announced: what the pick gives for settings that are, unless
\* something excused them (ex), those the user had set, and that do not skip it.
Offer(f, ex) ==
    \E s : /\ ex \/ s = f.as
           /\ f.feed \in Feeds /\ Candidates(f.feed, s.channel) # {}
           /\ f.update = UpdateInfo(Picked(f.feed, s.channel))
           /\ s.skipped # f.update.version

\* The locals of a check.
GoodCheck(r, ex) ==
    /\ r.step \in {"ask", "record", "judge"} => ex \/ r.settings = r.as
    /\ r.step \in {"record", "judge"} => r.feed \in Feeds \cup {None}
    /\ r.step = "done" /\ r.asker = "startup" /\ r.status = "available" => Offer(Found(r), ex)

GoodDialogs(ds, ex) ==
    \A i \in DOMAIN ds : ds[i].kind = "update" => Offer(ds[i].about, ex)

AnnounceInv ==
    /\ SettingsInv /\ DownloadInv
    /\ \A w \in Workers : GoodCheck(work[w], excused)
    /\ flushes => Offer(deferred, excused)
    /\ \E S : dialogs \in Seq(S)
    /\ GoodDialogs(dialogs, excused)

(* What is on offer is announced rightly. *)
LEMMA OfferIsRight ==
    ASSUME NEW f, NEW ex \in BOOLEAN, Offer(f, ex)
    PROVE  LET v == f.update.version
               admits(r) == /\ ~r.draft /\ r.tag # None
                            /\ f.as.channel = "stable" => r.tag.beta = None /\ ~r.prerelease
                            /\ r.prerelease => r.tag.beta # None
               listed == {r \in {f.feed[i] : i \in DOMAIN f.feed} : admits(r)}
           IN  /\ Above(v, Current)
               /\ ex \/ (/\ v # f.as.skipped
                         /\ \E r \in listed : r.tag = v
                         /\ \A r \in listed : ~Above(r.tag, v))
<1> DEFINE v == f.update.version
           admits(r) == /\ ~r.draft /\ r.tag # None
                        /\ f.as.channel = "stable" => r.tag.beta = None /\ ~r.prerelease
                        /\ r.prerelease => r.tag.beta # None
           listed == {r \in {f.feed[i] : i \in DOMAIN f.feed} : admits(r)}
<1>1. PICK s : /\ ex \/ s = f.as
               /\ f.feed \in Feeds /\ Candidates(f.feed, s.channel) # {}
               /\ f.update = UpdateInfo(Picked(f.feed, s.channel))
               /\ s.skipped # v
  BY DEF Offer
<1>2. PICK i \in Candidates(f.feed, s.channel) :
         /\ Picked(f.feed, s.channel) = f.feed[i]
         /\ f.feed[i].tag \in ReleaseVersions
         /\ \A j \in Candidates(f.feed, s.channel) : ~Above(f.feed[j].tag, f.feed[i].tag)
  BY <1>1, PickedIsNewest
<1>3. v = f.feed[i].tag /\ v \in ReleaseVersions /\ Current \in ReleaseVersions
  BY <1>1, <1>2, FeedsAssumption DEF UpdateInfo
<1>4. /\ i \in DOMAIN f.feed /\ ~f.feed[i].draft
      /\ AllowedOn(s.channel, f.feed[i]) /\ Lt(Current, f.feed[i].tag)
  BY <1>2 DEF Candidates
<1>5. Above(v, Current)
  BY <1>3, <1>4, AboveIsLt
<1>6. ASSUME ~ex PROVE \E r \in listed : r.tag = v
  <2>1. admits(f.feed[i])
    BY <1>1, <1>4, <1>6 DEF AllowedOn, IsPrerelease
  <2> QED
    BY <1>3, <1>4, <2>1
<1>7. ASSUME ~ex, NEW r \in listed PROVE ~Above(r.tag, v)
  <2>1. PICK j \in DOMAIN f.feed : r = f.feed[j] /\ admits(f.feed[j])
    BY <1>7
  <2>2. f.feed[j].tag \in ReleaseVersions
    BY <1>1, <2>1, FeedsAssumption
  <2>3. AllowedOn(s.channel, f.feed[j])
    BY <1>1, <1>7, <2>1 DEF AllowedOn, IsPrerelease
  <2>4. CASE j \in Candidates(f.feed, s.channel)
    BY <1>2, <1>3, <2>1, <2>4
  <2>5. CASE j \notin Candidates(f.feed, s.channel)
    <3>1. ~Lt(Current, f.feed[j].tag)
      BY <2>1, <2>3, <2>5 DEF Candidates
    <3>2. ~Lt(v, f.feed[j].tag)
      BY <1>3, <1>4, <2>2, <3>1, VersionOrder
    <3> QED
      BY <1>3, <2>1, <2>2, <3>2, AboveIsLt
  <2> QED
    BY <2>4, <2>5
<1> QED
  BY <1>1, <1>5, <1>6, <1>7

(* More excuses make nothing wrong that was right. *)
LEMMA ExcusesGrow ==
    ASSUME NEW ex \in BOOLEAN, NEW ey \in BOOLEAN, ex => ey
    PROVE  /\ \A f : Offer(f, ex) => Offer(f, ey)
           /\ \A r : GoodCheck(r, ex) => GoodCheck(r, ey)
           /\ \A ds : GoodDialogs(ds, ex) => GoodDialogs(ds, ey)
<1>1. \A f : Offer(f, ex) => Offer(f, ey)
  BY DEF Offer
<1> QED
  BY <1>1 DEF GoodCheck, GoodDialogs

LEMMA SettingsStepExcuses ==
    ASSUME SettingsInv, SettingsStep
    PROVE  excused \in BOOLEAN /\ excused' \in BOOLEAN /\ (excused => excused')
<1>1. excused' \in BOOLEAN
  BY SettingsStepKeeps DEF SettingsInv
<1>2. ASSUME NEW w \in Writers, NEW patch, NEW then, LoadForPatch(w, patch, then), excused
      PROVE  excused'
  BY <1>2 DEF LoadForPatch
<1>3. ASSUME NEW w \in Writers, Replace(w) \/ SaveFails(w) PROVE excused' = excused
  BY <1>3 DEF Replace, SaveFails
<1> QED
  BY <1>1, <1>2, <1>3 DEF SettingsStep, SettingsInv, updSettings

\* What a step may do to the checks, to what is deferred and to the dialogs.
CheckStep ==
    \/ UNCHANGED work
    \/ work' = [w \in Workers |-> NoWork]
    \/ \E w \in Workers : \E r : work' = [work EXCEPT ![w] = r] /\ GoodCheck(r, excused')

DeferStep == UNCHANGED <<deferred, flushes>> \/ (flushes' => Offer(deferred', excused'))

DialogStep ==
    \/ UNCHANGED dialogs
    \/ dialogs' = <<>>
    \/ dialogs # <<>> /\ Closed
    \/ \E kind, about : Open(kind, about) /\ (kind = "update" => Offer(about, excused'))

LEMMA AnnounceKeeps ==
    ASSUME AnnounceInv, SettingsInv', DownloadInv', excused => excused',
           CheckStep, DeferStep, DialogStep
    PROVE  AnnounceInv'
<1>1. excused \in BOOLEAN /\ excused' \in BOOLEAN /\ work = [w \in Workers |-> work[w]]
  BY DEF AnnounceInv, SettingsInv, DownloadInv
<1>2. /\ \A w \in Workers : GoodCheck(work[w], excused')
      /\ flushes => Offer(deferred, excused')
      /\ GoodDialogs(dialogs, excused')
  BY <1>1, ExcusesGrow DEF AnnounceInv
<1>3. \A w \in Workers : GoodCheck(work'[w], excused')
  <2>1. CASE UNCHANGED work
    BY <1>2, <2>1
  <2>2. CASE work' = [w \in Workers |-> NoWork]
    BY <2>2 DEF NoWork, GoodCheck
  <2>3. ASSUME NEW w \in Workers, NEW r, work' = [work EXCEPT ![w] = r], GoodCheck(r, excused')
        PROVE  \A v \in Workers : GoodCheck(work'[v], excused')
    <3>1. \A v \in Workers : work'[v] = IF v = w THEN r ELSE work[v]
      BY <1>1, <2>3
    <3> QED
      BY <1>2, <2>3, <3>1
  <2> QED
    BY <2>1, <2>2, <2>3 DEF CheckStep
<1>4. flushes' => Offer(deferred', excused')
  BY <1>2 DEF DeferStep
<1>5. (\E S : dialogs' \in Seq(S)) /\ GoodDialogs(dialogs', excused')
  <2>0. PICK S : dialogs \in Seq(S)
    BY DEF AnnounceInv
  <2>1. CASE UNCHANGED dialogs
    BY <1>2, <2>0, <2>1
  <2>2. CASE dialogs' = <<>>
    BY <2>2 DEF GoodDialogs
  <2>3. CASE dialogs # <<>> /\ Closed
    <3>1. /\ dialogs' \in Seq(S)
          /\ \A i \in DOMAIN dialogs' : i \in DOMAIN dialogs /\ dialogs'[i] = dialogs[i]
      BY <2>0, <2>3 DEF Closed
    <3> QED
      BY <1>2, <3>1 DEF GoodDialogs
  <2>4. ASSUME NEW kind, NEW about, Open(kind, about), kind = "update" => Offer(about, excused')
        PROVE  (\E T : dialogs' \in Seq(T)) /\ GoodDialogs(dialogs', excused')
    <3> DEFINE d == [kind |-> kind, about |-> about]
               T == S \cup {d}
    <3>1. dialogs' = Append(dialogs, d) /\ d.kind = kind /\ d.about = about
      BY <2>4 DEF Open
    <3>2. d \in T /\ S \subseteq T
      OBVIOUS
    <3> HIDE DEF d, T
    <3>3. dialogs \in Seq(T)
      BY <2>0, <3>2
    <3>4. dialogs' \in Seq(T)
      BY <3>1, <3>2, <3>3
    <3>5. \A i \in DOMAIN dialogs' : dialogs'[i] = d \/ (i \in DOMAIN dialogs /\ dialogs'[i] = dialogs[i])
      BY <3>1, <3>2, <3>3
    <3>6. GoodDialogs(dialogs', excused')
      BY <1>2, <2>4, <3>1, <3>5 DEF GoodDialogs
    <3> QED
      BY <3>4, <3>6
  <2> QED
    BY <2>1, <2>2, <2>3, <2>4 DEF DialogStep
<1> QED
  BY <1>3, <1>4, <1>5 DEF AnnounceInv

(* The threads of checks: what they load is what the user had set, unless a
   write was lost, and what they judge by it may be announced. *)
LEMMA ChecksGoOn ==
    ASSUME AnnounceInv, excused \in BOOLEAN, NEW w \in Workers,
           \/ Load(w) \/ Unreachable(w) \/ Recorded(w) \/ Judge(w)
           \/ \E feed \in Feeds \cup {None} : Answered(w, feed),
           excused' \in BOOLEAN, excused => excused'
    PROVE  CheckStep
<1>0. /\ work = [v \in Workers |-> work[v]] /\ Shape(work[w])
      /\ GoodCheck(work[w], excused)
  BY DEF AnnounceInv, DownloadInv
<1>1. CASE Load(w)
  <2> DEFINE c == work[w]
             asks == [step |-> "ask", asker |-> c.asker, settings |-> file, as |-> wanted]
             stops == [step |-> "done", asker |-> c.asker, status |-> "throttled"]
  <2>1. work' = [work EXCEPT ![w] = asks] \/ work' = [work EXCEPT ![w] = stops]
    BY <1>0, <1>1 DEF Load
  <2>2. excused' = excused
    BY <1>1 DEF Load, updSettings
  <2>3. GoodCheck(asks, excused')
    BY <2>2 DEF GoodCheck, AnnounceInv, SettingsInv
  <2>4. GoodCheck(stops, excused')
    BY DEF GoodCheck
  <2> HIDE DEF asks, stops
  <2> QED
    BY <2>1, <2>3, <2>4 DEF CheckStep
<1>2. ASSUME NEW status, Checked(w, status), status # "available" PROVE CheckStep
  <2> DEFINE r == [step |-> "done", asker |-> work[w].asker, status |-> status]
  <2>1. work' = [work EXCEPT ![w] = r]
    BY <1>0, <1>2 DEF Checked
  <2>2. GoodCheck(r, excused')
    BY <1>2 DEF GoodCheck
  <2> QED
    BY <2>1, <2>2 DEF CheckStep
<1>3. CASE Unreachable(w)
  BY <1>2, <1>3 DEF Unreachable
<1>4. ASSUME NEW feed \in Feeds \cup {None}, Answered(w, feed) PROVE CheckStep
  <2> DEFINE c == work[w]
             r == [step |-> "record", asker |-> c.asker, settings |-> c.settings,
                   as |-> c.as, feed |-> feed]
  <2>1. work' = [work EXCEPT ![w] = r] /\ c.step = "ask"
    BY <1>0, <1>4 DEF Answered
  <2>2. GoodCheck(r, excused')
    BY <1>0, <2>1 DEF GoodCheck
  <2> QED
    BY <2>1, <2>2 DEF CheckStep
<1>5. CASE Recorded(w)
  <2> DEFINE c == work[w]
             r == [step |-> "judge", asker |-> c.asker, settings |-> c.settings,
                   as |-> c.as, feed |-> c.feed]
  <2>1. /\ c = [step |-> "record", asker |-> c.asker, settings |-> c.settings,
                as |-> c.as, feed |-> c.feed]
        /\ c.step = "record"
    BY <1>0, <1>5 DEF Recorded, Shape
  <2>2. [c EXCEPT !.step = "judge"] = r
    BY <2>1
  <2>3. work' = [work EXCEPT ![w] = [c EXCEPT !.step = "judge"]]
    BY <1>0, <1>5 DEF Recorded
  <2>4. GoodCheck(r, excused')
    BY <1>0, <2>1 DEF GoodCheck
  <2> HIDE DEF r
  <2> QED
    BY <2>2, <2>3, <2>4 DEF CheckStep
<1>6. CASE Judge(w)
  <2> DEFINE c == work[w]
             p == Picked(c.feed, c.settings.channel)
             u == UpdateInfo(p)
  <2>1. \/ Checked(w, "error")
        \/ Checked(w, "up to date")
        \/ /\ c.feed # None /\ Candidates(c.feed, c.settings.channel) # {}
           /\ CheckedWith(w, IF c.asker = "startup" /\ SkippedBy(c.settings, u)
                             THEN "skipped" ELSE "available", u)
    BY <1>6 DEF Judge
  <2>2. c.step = "judge" /\ excused' = excused
    BY <1>6 DEF Judge, updSettings
  <2>3. ASSUME c.feed # None, Candidates(c.feed, c.settings.channel) # {},
               NEW status, CheckedWith(w, status, u),
               status = "available" /\ c.asker = "startup" => ~SkippedBy(c.settings, u)
        PROVE  CheckStep
    <3> DEFINE r == [step |-> "done", asker |-> c.asker, status |-> status,
                     update |-> u, as |-> c.as, feed |-> c.feed]
    <3>1. work' = [work EXCEPT ![w] = r]
      BY <1>0, <2>3 DEF CheckedWith
    <3>2. c.feed \in Feeds /\ (excused \/ c.settings = c.as)
      BY <1>0, <2>2, <2>3 DEF GoodCheck
    <3>3. ASSUME status = "available", c.asker = "startup" PROVE Offer(Found(r), excused')
      <4>1. /\ Found(r).update = u /\ Found(r).as = c.as /\ Found(r).feed = c.feed
        BY DEF Found
      <4>2. c.settings.skipped # u.version
        BY <2>3, <3>3 DEF SkippedBy
      <4> QED
        BY <2>2, <2>3, <3>2, <4>1, <4>2 DEF Offer
    <3>4. GoodCheck(r, excused')
      BY <3>3 DEF GoodCheck
    <3> HIDE DEF r
    <3> QED
      BY <3>1, <3>4 DEF CheckStep
  <2> HIDE DEF u, p
  <2> QED
    BY <1>2, <2>1, <2>3
<1> QED
  BY <1>1, <1>3, <1>4, <1>5, <1>6

(* A download's thread checks nothing. *)
LEMMA DownloadsCheckNothing ==
    ASSUME AnnounceInv, NEW w \in Workers,
           \/ Clear(w) \/ Checksum(w) \/ Chunk(w) \/ Broken(w) \/ Received(w) \/ Verify(w)
           \/ \E stream \in Streams : OpenInstaller(w, stream)
    PROVE  CheckStep
<1>0. work = [v \in Workers |-> work[v]] /\ Shape(work[w])
  BY DEF AnnounceInv, DownloadInv
<1>1. ASSUME NEW r, work' = [work EXCEPT ![w] = r], r.step \in Steps PROVE CheckStep
  <2>1. GoodCheck(r, excused')
    BY <1>1 DEF GoodCheck, Steps
  <2> QED
    BY <1>1, <2>1 DEF CheckStep
<1>2. ASSUME NEW ok, Downloaded(w, ok) PROVE CheckStep
  BY <1>1, <1>2 DEF Downloaded, Steps
<1>3. ASSUME NEW step \in Steps, work' = [work EXCEPT ![w].step = step], Busy(w),
             work[w].step # "downloaded"
      PROVE  CheckStep
  <2>1. work' = [work EXCEPT ![w] = [work[w] EXCEPT !.step = step]]
    BY <1>3
  <2>2. [work[w] EXCEPT !.step = step].step = step
    <3>1. \/ work[w] = [step |-> work[w].step, asker |-> "install", info |-> work[w].info]
          \/ work[w] = [step |-> work[w].step, asker |-> "install", info |-> work[w].info,
                        stream |-> work[w].stream, at |-> work[w].at]
      BY <1>0, <1>3 DEF Shape, Busy, Steps
    <3> QED
      BY <3>1
  <2> QED
    BY <1>1, <2>1, <2>2
<1>4. CASE Clear(w)
  BY <1>3, <1>4 DEF Clear, Steps, Busy
<1>5. CASE Checksum(w)
  BY <1>2, <1>3, <1>5 DEF Checksum, Steps, Busy
<1>6. CASE Chunk(w)
  <2>1. CASE Downloaded(w, FALSE)
    BY <1>2, <2>1
  <2>2. CASE work' = [work EXCEPT ![w].at = @ + 1]
    <3>1. work[w].step = "stream"
      BY <1>6 DEF Chunk
    <3>2. work[w] = [step |-> work[w].step, asker |-> "install", info |-> work[w].info,
                     stream |-> work[w].stream, at |-> work[w].at]
      BY <1>0, <3>1 DEF Shape
    <3>3. [work[w] EXCEPT !.at = work[w].at + 1].step = "stream"
      BY <3>1, <3>2
    <3>4. work' = [work EXCEPT ![w] = [work[w] EXCEPT !.at = work[w].at + 1]]
      BY <2>2
    <3> QED
      BY <1>1, <3>3, <3>4 DEF Steps
  <2> QED
    BY <1>6, <2>1, <2>2 DEF Chunk
<1>7. CASE Broken(w)
  BY <1>2, <1>7 DEF Broken
<1>8. CASE Received(w)
  BY <1>2, <1>3, <1>8 DEF Received, Steps, Busy
<1>9. CASE Verify(w)
  BY <1>2, <1>9 DEF Verify
<1>10. ASSUME NEW stream \in Streams, OpenInstaller(w, stream) PROVE CheckStep
  <2>1. CASE Downloaded(w, FALSE)
    BY <1>2, <2>1
  <2>2. CASE ~Downloaded(w, FALSE)
    <3> DEFINE r == [step |-> "stream", asker |-> "install", info |-> work[w].info,
                     stream |-> stream, at |-> 0]
    <3>1. work' = [work EXCEPT ![w] = r]
      BY <1>0, <1>10, <2>2 DEF OpenInstaller
    <3> QED
      BY <1>1, <3>1 DEF Steps
  <2> QED
    BY <2>1, <2>2
<1> QED
  BY <1>4, <1>5, <1>6, <1>7, <1>8, <1>9, <1>10

(* What the start-up check found is shown at once or deferred with its timer. *)
LEMMA ResultsAreShown ==
    ASSUME AnnounceInv, NEW w \in Workers, StartupResult(w)
    PROVE  CheckStep /\ DeferStep /\ DialogStep
<1>1. /\ work[w].step = "done" /\ work[w].asker = "startup"
      /\ work' = [work EXCEPT ![w] = NoWork]
      /\ UNCHANGED updSettings
  BY DEF StartupResult
<1>2. CheckStep
  <2>1. GoodCheck(NoWork, excused')
    BY DEF GoodCheck, NoWork
  <2> QED
    BY <1>1, <2>1 DEF CheckStep
<1>3. work[w].status = "available" => Offer(Found(work[w]), excused')
  BY <1>1 DEF AnnounceInv, GoodCheck, updSettings
<1>4. CASE work[w].status # "available"
  BY <1>2, <1>4 DEF StartupResult, DeferStep, DialogStep
<1>5. CASE work[w].status = "available" /\ studying
  BY <1>2, <1>3, <1>5 DEF StartupResult, DeferStep, DialogStep
<1>6. CASE work[w].status = "available" /\ ~studying
  <2>1. Open("update", Found(work[w])) /\ UNCHANGED <<deferred, flushes>>
    BY <1>6 DEF StartupResult, ShowUpdate
  <2> QED
    BY <1>2, <1>3, <1>6, <2>1 DEF DeferStep, DialogStep
<1> QED
  BY <1>4, <1>5, <1>6

LEMMA FlushShows ==
    ASSUME AnnounceInv, Flush
    PROVE  CheckStep /\ DeferStep /\ DialogStep
<1>1. /\ flushes /\ flushes' = FALSE /\ Open("update", deferred)
      /\ UNCHANGED work /\ UNCHANGED updSettings
  BY DEF Flush, ShowUpdate
<1>2. Offer(deferred, excused')
  BY <1>1 DEF AnnounceInv, updSettings
<1> QED
  BY <1>1, <1>2 DEF CheckStep, DeferStep, DialogStep

LEMMA StepsOnAnnouncements ==
    ASSUME AnnounceInv, UpdNext, excused \in BOOLEAN, excused' \in BOOLEAN, excused => excused'
    PROVE  CheckStep /\ DeferStep /\ DialogStep
<1>0. work = [w \in Workers |-> work[w]]
  BY DEF AnnounceInv, DownloadInv
<1>1. ASSUME NEW w \in Workers, NEW r, Spawn(w, r), r.step \in {"load", "clear"} PROVE CheckStep
  <2>1. GoodCheck(r, excused') /\ work' = [work EXCEPT ![w] = r]
    BY <1>1 DEF GoodCheck, Spawn
  <2> QED
    BY <2>1 DEF CheckStep
<1>2. \A asker : CheckBy(asker).step = "load"
  BY DEF CheckBy
<1>3. CASE EventLoop
  <2>1. CASE ShowFirstRun
    <3>1. UNCHANGED <<work, deferred, flushes>> /\ (UNCHANGED dialogs \/ Open("first run", None))
      BY <2>1 DEF ShowFirstRun
    <3>2. "first run" # "update"
      OBVIOUS
    <3>3. DialogStep
      BY <3>1, <3>2, Zenon DEF DialogStep
    <3> QED
      BY <3>1, <3>3 DEF CheckStep, DeferStep
  <2>2. CASE StartupCheck
    <3>1. /\ UNCHANGED <<deferred, flushes, dialogs>>
          /\ UNCHANGED work \/ \E w \in Workers : Spawn(w, CheckBy("startup"))
      BY <2>2 DEF StartupCheck
    <3>2. CheckStep
      BY <1>1, <1>2, <3>1 DEF CheckStep
    <3> QED
      BY <3>1, <3>2 DEF DeferStep, DialogStep
  <2>3. CASE Flush
    BY <2>3, FlushShows
  <2>4. CASE WindowReplaces
    <3>1. /\ UNCHANGED <<deferred, flushes, dialogs>>
          /\ UNCHANGED work \/ \E w \in Workers : Spawn(w, CheckBy("page"))
      BY <2>4 DEF WindowReplaces, updWindow
    <3>2. CheckStep
      BY <1>1, <1>2, <3>1 DEF CheckStep
    <3> QED
      BY <3>1, <3>2 DEF DeferStep, DialogStep
  <2>5. ASSUME NEW w \in Workers, StartupResult(w) PROVE CheckStep /\ DeferStep /\ DialogStep
    BY <2>5, ResultsAreShown
  <2>6. ASSUME NEW w \in Workers, PageResult(w) \/ DownloadFinished(w)
        PROVE  CheckStep /\ DeferStep /\ DialogStep
    <3>1. /\ UNCHANGED <<deferred, flushes, dialogs>>
          /\ work' = [work EXCEPT ![w] = NoWork]
      BY <2>6 DEF PageResult, DownloadFinished, updWindow
    <3>2. GoodCheck(NoWork, excused')
      BY DEF GoodCheck, NoWork
    <3> QED
      BY <3>1, <3>2 DEF CheckStep, DeferStep, DialogStep
  <2> QED
    BY <1>3, <2>1, <2>2, <2>3, <2>4, <2>5, <2>6 DEF EventLoop
<1>4. CASE User
  <2>1. ASSUME NEW chosen \in BOOLEAN, EndFirstRun(chosen) PROVE CheckStep /\ DeferStep /\ DialogStep
    BY <2>1 DEF EndFirstRun, CheckStep, DeferStep, DialogStep
  <2>2. ASSUME NEW skip \in BOOLEAN, EndAnnouncement(skip) PROVE CheckStep /\ DeferStep /\ DialogStep
    <3>1. UNCHANGED <<work, deferred, flushes>> /\ dialogs # <<>> /\ Closed
      BY <2>2 DEF EndAnnouncement
    <3> QED
      BY <3>1 DEF CheckStep, DeferStep, DialogStep
  <2>3. CASE \/ Study \/ RemindLater \/ SkipThisVersion \/ RefreshContent
             \/ \E prefs \in Preferences : Save(prefs) \/ CheckNow(prefs)
    <3>1. UNCHANGED <<work, updWindow>>
      BY <2>3 DEF Study, RemindLater, SkipThisVersion, RefreshContent, Save, CheckNow
    <3> QED
      BY <3>1 DEF updWindow, CheckStep, DeferStep, DialogStep
  <2>4. CASE AskToInstall
    <3>1. UNCHANGED <<work, deferred, flushes>> /\ Open("install", page.pending)
      BY <2>4 DEF AskToInstall
    <3> QED
      BY <3>1 DEF CheckStep, DeferStep, DialogStep
  <2>5. ASSUME NEW yes \in BOOLEAN, Confirm(yes) PROVE CheckStep /\ DeferStep /\ DialogStep
    <3>1. /\ UNCHANGED <<deferred, flushes>> /\ dialogs # <<>> /\ Closed
          /\ \/ UNCHANGED work
             \/ \E w \in Workers : Spawn(w, [step |-> "clear", asker |-> "install", info |-> Top.about])
      BY <2>5 DEF Confirm
    <3>2. CheckStep
      BY <1>1, <3>1 DEF CheckStep
    <3> QED
      BY <3>1, <3>2 DEF DeferStep, DialogStep
  <2> QED
    BY <1>4, <2>1, <2>2, <2>3, <2>4, <2>5 DEF User
<1>5. CASE EndStudy \/ Tick \/ WindowSaveFails
  BY <1>5 DEF EndStudy, Tick, WindowSaveFails, updWindow, CheckStep, DeferStep, DialogStep
<1>6. CASE Relaunch
  BY <1>6 DEF Relaunch, CheckStep, DeferStep, DialogStep
<1>7. ASSUME NEW w \in Workers, Worker(w) PROVE CheckStep /\ DeferStep /\ DialogStep
  <2>1. CheckStep
    BY <1>7, ChecksGoOn, DownloadsCheckNothing DEF Worker
  <2>2. UNCHANGED updWindow
    BY <1>7 DEF Worker, Load, Unreachable, Recorded, Judge, Answered, Clear, Checksum, Chunk,
                Broken, Received, Verify, OpenInstaller, DownloadKeeps
  <2> QED
    BY <2>1, <2>2 DEF updWindow, DeferStep, DialogStep
<1> QED
  BY <1>3, <1>4, <1>5, <1>6, <1>7 DEF UpdNext

LEMMA NextAnnounce == AnnounceInv /\ [UpdNext]_updVars => AnnounceInv'
<1> SUFFICES ASSUME AnnounceInv, [UpdNext]_updVars PROVE AnnounceInv'
  OBVIOUS
<1>1. SettingsInv /\ DownloadInv
  BY DEF AnnounceInv
<1>2. CASE UpdNext
  <2>1. SettingsStep /\ (QuietStep \/ DownloadStep)
    BY <1>1, <1>2, StepsOnSettings, StepsOnDownloads
  <2>2. SettingsInv' /\ DownloadInv'
    BY <1>1, <2>1, SettingsStepKeeps, QuietStepKeeps, DownloadStepKeeps
  <2>3. excused \in BOOLEAN /\ excused' \in BOOLEAN /\ (excused => excused')
    BY <1>1, <2>1, SettingsStepExcuses
  <2>4. CheckStep /\ DeferStep /\ DialogStep
    BY <1>2, <2>3, StepsOnAnnouncements
  <2> QED
    BY <2>2, <2>3, <2>4, AnnounceKeeps
<1>3. CASE UNCHANGED updVars
  <2>1. SettingsInv'
    BY <1>1, <1>3 DEF updVars, updSettings, SettingsInv
  <2>2. DownloadInv'
    BY <1>1, <1>3, QuietStepKeeps DEF updVars, QuietStep
  <2>3. UNCHANGED <<excused, work, deferred, flushes, dialogs>>
    BY <1>3 DEF updVars, updSettings, updWindow
  <2> QED
    BY <2>1, <2>2, <2>3 DEF AnnounceInv
<1> QED
  BY <1>2, <1>3

\* An update is announced only if it is newer than what runs, the newest the
\* channel admits of any listing, and not skipped when the check began, whatever
\* the feeds list and in whatever order checks, dialogs, studying, writes that
\* fail and ends of the process come (check_for_updates, main_window.py).
THEOREM AnnouncementsAreRight == UpdSpec => []AnnouncedRightly
<1>1. UpdInit => AnnounceInv
  <2> SUFFICES ASSUME UpdInit PROVE AnnounceInv
    OBVIOUS
  <2>1. SettingsInv /\ DownloadInv
    BY SettingsInitially, DownloadInitially
  <2>2. \A w \in Workers : GoodCheck(work[w], excused)
    BY DEF UpdInit, NoWork, GoodCheck
  <2>3. ~flushes /\ dialogs = <<>>
    BY DEF UpdInit
  <2>4. dialogs \in Seq({}) /\ GoodDialogs(dialogs, excused)
    BY <2>3 DEF GoodDialogs
  <2> QED
    BY <2>1, <2>2, <2>3, <2>4 DEF AnnounceInv
<1>2. AnnounceInv => AnnouncedRightly
  <2> SUFFICES ASSUME AnnounceInv, NEW i \in DOMAIN dialogs, dialogs[i].kind = "update"
               PROVE  LET d == dialogs[i]
                          v == d.about.update.version
                          admits(r) ==
                             /\ ~r.draft /\ r.tag # None
                             /\ d.about.as.channel = "stable" => r.tag.beta = None /\ ~r.prerelease
                             /\ r.prerelease => r.tag.beta # None
                          listed == {r \in {d.about.feed[j] : j \in DOMAIN d.about.feed} : admits(r)}
                      IN  /\ Above(v, Current)
                          /\ excused \/ (/\ v # d.about.as.skipped
                                         /\ \E r \in listed : r.tag = v
                                         /\ \A r \in listed : ~Above(r.tag, v))
    BY DEF AnnouncedRightly
  <2>1. Offer(dialogs[i].about, excused) /\ excused \in BOOLEAN
    BY DEF AnnounceInv, GoodDialogs, SettingsInv
  <2> QED
    BY <2>1, OfferIsRight
<1> QED
  BY <1>1, <1>2, NextAnnounce, PTL DEF UpdSpec

-----------------------------------------------------------------------------
(* The database.                                                           *)

Tables == {"sessions", "answers"}
Added2 == Names(V2Answers)
Added3 == Names(V3Sessions)

\* A table is not there, or its rows are keyed by their ids and have its columns.
TableOk(t) ==
    /\ t = [cols |-> t.cols, rows |-> t.rows]
    /\ t.rows = [id \in DOMAIN t.rows |-> t.rows[id]]
    /\ t = NoTable \/ "kept" \in t.cols
    /\ \A id \in DOMAIN t.rows : t.rows[id] = [c \in t.cols |-> t.rows[id][c]] /\ t.rows[id]["kept"] = id

FileOk(f) ==
    /\ f = [sessions |-> f.sessions, answers |-> f.answers, new |-> f.new, stamp |-> f.stamp]
    /\ TableOk(f.sessions) /\ TableOk(f.answers)
    /\ IsFiniteSet(DOMAIN f.sessions.rows) /\ DOMAIN f.sessions.rows \subseteq Nat
    /\ f.new \subseteq Tables /\ f.stamp \in 0..3

\* The columns of a version.
Promised(f, v) ==
    /\ v >= 1 => V1Sessions \subseteq f.sessions.cols /\ V1Answers \subseteq f.answers.cols
    /\ v >= 2 => Added2 \subseteq f.answers.cols
    /\ v >= 3 => Added3 \subseteq f.sessions.cols

\* The rows of an older version are in tables that are there.
RowsKept(f) ==
    /\ OldRowsIn(f)
    /\ "kept" \in f.sessions.cols /\ "kept" \in f.answers.cols

-----------------------------------------------------------------------------
(* Where a launch may be.                                                  *)

AtEnd == [step : {"off", "failed", "up"}]
AtCreate == [step : {"create"}, missing : SUBSET Tables]
AtVersion == [step : {"migrate"}, version : 0..2] \cup [step : {"commit"}, version : {3}]
AtBackup ==
    [step : {"backup"}, version : 1..2]
    \cup [step : {"copying"}, version : 1..2, second : Nat, since : Nat]
AtTables ==
    [step : {"new", "copy"}, version : {0}, table : Tables, todo : {{}}]
    \cup [step : {"answers"}, version : {0}, table : Tables, todo : {{}}]
    \cup [step : {"stamp"}, version : {0}, table : {"answers"}, todo : {{}}]
AtColumns ==
    [step : {"add", "stamp"}, version : {1}, table : {"answers"}, todo : SUBSET Added2]
    \cup [step : {"add", "stamp"}, version : {2}, table : {"sessions"}, todo : SUBSET Added3]
Places == AtEnd \cup AtCreate \cup AtVersion \cup AtBackup \cup AtTables \cup AtColumns

Working(s) == s.step \in {"migrate", "commit", "new", "copy", "answers", "add", "stamp"}

\* What a launch at s knows of the file it sees.
Knows(s, f) ==
    /\ Working(s) \/ s.step \in {"backup", "copying"} => Promised(f, s.version)
    /\ s.step = "answers" => V1Sessions \subseteq f.sessions.cols
    /\ s.step \in {"new", "copy"} /\ s.table = "answers" => V1Sessions \subseteq f.sessions.cols
    /\ s.step = "add" /\ s.version = 1 => Added2 \subseteq f.answers.cols \cup s.todo
    /\ s.step = "add" /\ s.version = 2 => Added3 \subseteq f.sessions.cols \cup s.todo
    /\ s.step = "stamp" => Promised(f, s.version + 1)
    /\ s.step \in {"commit", "up"} => f.stamp = 3
    /\ s.step = "create" => \A t \in Tables \ s.missing : "kept" \in f[t].cols
    /\ Working(s) \/ s.step \in {"backup", "copying"} => \A t \in Tables : "kept" \in f[t].cols

-----------------------------------------------------------------------------
(* The invariant.                                                          *)

BackupsOk(copies) == IsFiniteSet(copies) /\ \A c \in copies : c.second \in Nat

ShapeInv ==
    /\ FileOk(db)
    /\ proc = [p \in Processes |-> proc[p]]
    /\ \A p \in Processes : proc[p] \in Places
    /\ \/ txn = [by |-> "nobody"]
       \/ /\ txn = [by |-> txn.by, db |-> txn.db] /\ txn.by \in Processes
          /\ Working(proc[txn.by])
          /\ FileOk(txn.db) /\ DOMAIN txn.db.sessions.rows = DOMAIN db.sessions.rows
    /\ launches \in Nat
    /\ launches = 0 => /\ txn.by = "nobody" /\ backups = {}
                       /\ \A p \in Processes : proc[p] = Off
    /\ BackupsOk(backups)
    /\ {installed, raced, cut} \subseteq BOOLEAN

RowsInv ==
    /\ installed => /\ RowsKept(db)
                    /\ txn.by # "nobody" => RowsKept(txn.db)
    /\ installed => \A c \in backups : c.done => raced \/ OldRowsIn(c.file)
    /\ saved \subseteq DOMAIN db.sessions.rows

ColumnsInv ==
    /\ Promised(db, db.stamp)
    /\ \A p \in Processes : Knows(proc[p], Sees(p))

\* As long as no two launches ran at the same time
AloneInv ==
    ~raced =>
       /\ \A p, q \in Processes : Launching(p) /\ Launching(q) => p = q
       /\ db.stamp = 3 => /\ txn.by = "nobody"
                          /\ \A p \in Processes :
                                \/ proc[p].step \in {"off", "failed", "up", "commit"}
                                \/ proc[p].step = "create" /\ proc[p].missing = {}
       /\ \A p \in Processes : proc[p].step = "copying" => proc[p].since = launches
       /\ saved # {} => db.stamp = 3
       /\ \A id \in saved : db.sessions.rows[id]["status"] = "active"

\* ... and none ended in the middle of a rebuild
CleanInv ==
    ~raced /\ ~cut =>
       /\ (\A p \in Processes : ~Launching(p)) => db.new = {}
       /\ \A p \in Processes :
             /\ proc[p].step # "failed"
             /\ Launching(p) => Sees(p).new = IF proc[p].step = "copy" THEN {proc[p].table} ELSE {}
             /\ proc[p].step = "create" => \A t \in proc[p].missing : db[t] = NoTable
             /\ proc[p].step = "add" => proc[p].todo \cap Sees(p)[proc[p].table].cols = {}

DbInvariant == ShapeInv /\ RowsInv /\ ColumnsInv /\ AloneInv /\ CleanInv

-----------------------------------------------------------------------------
(* Columns, tables and rows.                                               *)

LEMMA ColumnNames ==
    /\ Added2 = {"topic_code", "cert_tag", "exam_version"}
    /\ Added3 = {"engine_session_id", "status", "blueprint_id", "current_index",
                 "remaining_seconds", "paused_at", "last_active_at", "state_json"}
<1>1. DOMAIN V2Answers = {1, 2, 3}
  BY DEF V2Answers
<1>2. DOMAIN V3Sessions = {1, 2, 3, 4, 5, 6, 7, 8}
  BY DEF V3Sessions
<1>3. Added2 = {"topic_code", "cert_tag", "exam_version"}
  BY <1>1 DEF Added2, Names, V2Answers
<1>4. Added3 = {"engine_session_id", "status", "blueprint_id", "current_index",
                "remaining_seconds", "paused_at", "last_active_at", "state_json"}
  BY <1>2 DEF Added3, Names, V3Sessions
<1> QED
  BY <1>3, <1>4

LEMMA AllColumnsAre ==
    /\ AllColumns("sessions") = V1Sessions \cup Added3
    /\ AllColumns("answers") = V1Answers \cup Added2
BY DEF AllColumns, Added2, Added3

LEMMA NoTableOk == TableOk(NoTable) /\ NoTable.cols = {} /\ DOMAIN NoTable.rows = {}
BY DEF TableOk, NoTable

\* A table of old or of no rows
LEMMA TableIsOk ==
    ASSUME NEW ids, NEW columns, "kept" \notin columns
    PROVE  LET t == Table(ids, columns)
           IN  /\ TableOk(t) /\ t.cols = {"kept"} \cup columns /\ DOMAIN t.rows = ids
               /\ "exam_code" \in columns => \A id \in ids : t.rows[id]["exam_code"] = CodeOf(id)
<1> DEFINE t == Table(ids, columns)
<1>1. t.cols = {"kept"} \cup columns /\ t.rows = [id \in ids |-> OldRow(id, columns)]
      /\ t = [cols |-> t.cols, rows |-> t.rows]
  BY DEF Table
<1>2. ASSUME NEW id \in ids
      PROVE  /\ t.rows[id] = [c \in t.cols |-> t.rows[id][c]] /\ t.rows[id]["kept"] = id
             /\ "exam_code" \in columns => t.rows[id]["exam_code"] = CodeOf(id)
  BY <1>1 DEF OldRow
<1> QED
  BY <1>1, <1>2 DEF TableOk

\* A rebuild keeps the ids, and gives each its identity.
LEMMA RebuiltTables ==
    ASSUME NEW t, TableOk(t)
    PROVE  /\ LET s == RebuiltSessions(t)
              IN  /\ TableOk(s) /\ s.cols = {"kept"} \cup V1Sessions /\ DOMAIN s.rows = DOMAIN t.rows
                  /\ \A id \in DOMAIN t.rows : s.rows[id]["exam_code"] = CodeOf(id)
           /\ LET a == RebuiltAnswers(t)
              IN  TableOk(a) /\ a.cols = {"kept"} \cup V1Answers /\ DOMAIN a.rows = DOMAIN t.rows
<1>1. \A id \in DOMAIN t.rows : t.rows[id]["kept"] = id
  BY DEF TableOk
<1>2. "kept" \notin V1Sessions /\ "kept" \notin V1Answers /\ "exam_code" \in V1Sessions
  BY DEF V1Sessions, V1Answers
<1>3. RebuiltSessions(t) = Table(DOMAIN t.rows, V1Sessions)
  BY <1>1 DEF RebuiltSessions, Table
<1>4. RebuiltAnswers(t) = Table(DOMAIN t.rows, V1Answers)
  BY <1>1 DEF RebuiltAnswers, Table
<1> QED
  BY <1>2, <1>3, <1>4, TableIsOk

\* A new column leaves the others, and the rows, as they are.
LEMMA WidenedTable ==
    ASSUME NEW t, TableOk(t), NEW c, c \notin t.cols, "kept" \in t.cols
    PROVE  LET w == WithColumn(t, c)
           IN  /\ TableOk(w) /\ w.cols = t.cols \cup {c} /\ DOMAIN w.rows = DOMAIN t.rows
               /\ \A id \in DOMAIN t.rows : \A d \in t.cols : w.rows[id][d] = t.rows[id][d]
<1> DEFINE w == WithColumn(t, c)
<1>1. w.cols = t.cols \cup {c} /\ w = [cols |-> w.cols, rows |-> w.rows]
      /\ w.rows = [id \in DOMAIN t.rows |->
                     [d \in t.cols \cup {c} |-> IF d = c THEN Default(c) ELSE t.rows[id][d]]]
  BY DEF WithColumn
<1>2. ASSUME NEW id \in DOMAIN t.rows
      PROVE  /\ w.rows[id] = [d \in w.cols |-> w.rows[id][d]]
             /\ \A d \in t.cols : w.rows[id][d] = t.rows[id][d]
  BY <1>1
<1>3. \A id \in DOMAIN t.rows : t.rows[id]["kept"] = id
  BY DEF TableOk
<1> QED
  BY <1>1, <1>2, <1>3 DEF TableOk

\* Every finite set of ids has a greatest one.
LEMMA GreatestId ==
    ASSUME NEW D \in SUBSET Nat, IsFiniteSet(D), D # {}
    PROVE  Max(D) \in D /\ \A id \in D : id <= Max(D)
<1> DEFINE Tops(T) == {m \in T : \A n \in T : n <= m}
           Without == {T \in FiniteSubsetsOf(D) : T # {} /\ Tops(T) = {}}
<1>1. Without = {}
  <2> SUFFICES ASSUME Without # {} PROVE FALSE
    OBVIOUS
  <2>1. IsWellFoundedOn(StrictSubsetOrdering(D), FiniteSubsetsOf(D))
    BY FS_StrictSubsetOrderingWellFounded
  <2>2. Without \subseteq FiniteSubsetsOf(D)
    OBVIOUS
  <2> DEFINE R == StrictSubsetOrdering(D)
  <2>3. PICK T \in Without : \A U \in Without : ~(<<U, T>> \in R)
    <3> HIDE DEF Without, R
    <3> QED
      BY <2>1, <2>2, WFMin DEF R
  <2>4. T \in SUBSET D /\ IsFiniteSet(T) /\ T # {} /\ Tops(T) = {}
    BY <2>3 DEF FiniteSubsetsOf
  <2>5. PICK x \in T : TRUE
    BY <2>4
  <2> DEFINE U == T \ {x}
  <2>6. U \in FiniteSubsetsOf(D) /\ U # T /\ U \subseteq T
    BY <2>4, <2>5, FS_RemoveElement DEF FiniteSubsetsOf
  <2>7. <<U, T>> \in R
    BY <2>4, <2>6 DEF StrictSubsetOrdering, FiniteSubsetsOf
  <2>8. U = {} \/ Tops(U) # {}
    BY <2>3, <2>6, <2>7
  <2>9. CASE U = {}
    BY <2>4, <2>5, <2>9
  <2>10. CASE Tops(U) # {}
    <3>1. PICK m \in U : \A n \in U : n <= m
      BY <2>10
    <3>2. m \in Nat /\ x \in Nat /\ \A n \in T : n \in Nat
      BY <2>4, <2>5, <3>1
    <3>3. m \in Tops(T) \/ x \in Tops(T)
      BY <2>5, <3>1, <3>2
    <3> QED
      BY <2>4, <3>3
  <2> QED
    BY <2>8, <2>9, <2>10
<1>2. D \in FiniteSubsetsOf(D)
  BY DEF FiniteSubsetsOf
<1>3. PICK m \in D : \A n \in D : n <= m
  BY <1>1, <1>2
<1>4. \A m2 \in D : \A n \in D : n \in Nat /\ m2 \in Nat
  OBVIOUS
<1> QED
  BY <1>3, <1>4 DEF Max

-----------------------------------------------------------------------------
(* What a step does to the launch that makes it.                           *)

Moves(p, s) == proc' = [proc EXCEPT ![p] = s]
Runs(s) == s.step \notin {"off", "failed", "up"}

\* A file as a statement leaves it: the ids are those of the disk.
Sound(f) ==
    /\ FileOk(f)
    /\ DOMAIN f.sessions.rows = DOMAIN db.sessions.rows
    /\ installed => RowsKept(f)

\* g has what f has.
Grown(f, g) ==
    f.sessions.cols \subseteq g.sessions.cols /\ f.answers.cols \subseteq g.answers.cols /\ g.stamp = f.stamp

LEMMA KnowsMore ==
    ASSUME NEW s, NEW f, NEW g, Knows(s, f), Grown(f, g)
    PROVE  Knows(s, g)
BY DEF Knows, Grown, Promised, Tables

LEMMA KnowsAll ==
    ASSUME NEW s, NEW f, NEW g, Promised(g, 3), g.stamp = 3, "kept" \in g.sessions.cols, "kept" \in g.answers.cols,
           s \in Places
    PROVE  Knows(s, g)
<1>1. Working(s) => s.version \in 0..3
  BY DEF Places, AtEnd, AtCreate, AtVersion, AtBackup, AtTables, AtColumns, Working
<1>2. s.step = "stamp" => s.version \in 0..2
  BY DEF Places, AtEnd, AtCreate, AtVersion, AtBackup, AtTables, AtColumns
<1> QED
  BY <1>1, <1>2 DEF Knows, Promised, Tables, Working

LEMMA SeenIsSound ==
    ASSUME ShapeInv, RowsInv, NEW p \in Processes
    PROVE  Sound(Sees(p)) /\ Sound(db) /\ (~Mine(p) => Sees(p) = db)
BY ProcessAssumption DEF ShapeInv, RowsInv, Sees, Mine, Sound

\* A launch that reads
LEMMA ReadKeeps ==
    ASSUME ShapeInv, ColumnsInv, NEW p \in Processes, NEW s \in Places, Moves(p, s),
           UNCHANGED <<db, txn, installed, cut>>, raced' \in BOOLEAN, launches' \in Nat \ {0},
           Mine(p) => Working(s), Knows(s, Sees(p)), BackupsOk(backups')
    PROVE  ShapeInv' /\ ColumnsInv'
<1>1. proc' = [q \in Processes |-> proc'[q]] /\ proc'[p] = s /\ \A q \in Processes \ {p} : proc'[q] = proc[q]
  BY DEF Moves, ShapeInv
<1>2. \A q \in Processes : Sees(q)' = Sees(q)
  BY DEF Sees, Mine
<1>3. ShapeInv'
  <2>1. txn.by \in Processes /\ Working(proc[txn.by]) => Working(proc'[txn.by])
    BY <1>1 DEF Mine
  <2> QED
    BY <1>1, <2>1 DEF ShapeInv
<1>4. ColumnsInv'
  <2>1. \A q \in Processes : Knows(proc'[q], Sees(q)')
    BY <1>1, <1>2 DEF ColumnsInv
  <2> QED
    BY <2>1 DEF ColumnsInv
<1> QED
  BY <1>3, <1>4

\* A launch that defines: what the others see has grown.
LEMMA DefineKeeps ==
    ASSUME ShapeInv, RowsInv, ColumnsInv, NEW p \in Processes, NEW s \in Places, NEW g,
           Moves(p, s), Define(p, g), Keeps, launches # 0,
           Sound(g), Grown(Sees(p), g), Mine(p) => Working(s), Knows(s, g)
    PROVE  ShapeInv' /\ RowsInv' /\ ColumnsInv' /\ Sees(p)' = g /\ db'.stamp = db.stamp
<1>1. proc' = [q \in Processes |-> proc'[q]] /\ proc'[p] = s /\ \A q \in Processes \ {p} : proc'[q] = proc[q]
  BY DEF Moves, ShapeInv
<1>2. UNCHANGED <<backups, installed, saved, raced, cut, launches>>
  BY DEF Keeps
<1>3. CASE Mine(p)
  <2>0. txn = [by |-> p, db |-> txn.db]
    BY <1>3, ProcessAssumption DEF Mine, ShapeInv
  <2>1. db' = db /\ txn' = [by |-> p, db |-> g]
    BY <1>3, <2>0 DEF Define
  <2>2. txn'.by = p /\ txn'.db = g
    BY <2>1
  <2>3. Working(proc'[p])
    BY <1>1, <1>3
  <2>4. \A q \in Processes \ {p} : Sees(q)' = Sees(q)
    BY <1>3, <2>1, <2>2 DEF Sees, Mine
  <2>5. Sees(p)' = g
    BY <2>2 DEF Sees, Mine
  <2>6. ShapeInv'
    BY <1>1, <1>2, <2>1, <2>2, <2>3 DEF ShapeInv, Sound
  <2>7. RowsInv'
    BY <1>2, <2>1, <2>2 DEF RowsInv, Sound
  <2>8. \A q \in Processes : Knows(proc'[q], Sees(q)')
    BY <1>1, <2>4, <2>5 DEF ColumnsInv
  <2>9. ColumnsInv'
    BY <2>1, <2>8 DEF ColumnsInv
  <2> QED
    BY <2>1, <2>5, <2>6, <2>7, <2>9
<1>4. CASE ~Mine(p)
  <2>1. db' = g /\ txn' = txn /\ txn.by = "nobody"
    BY <1>4 DEF Define, Mine, Free
  <2>2. \A q \in Processes : Sees(q) = db /\ Sees(q)' = g
    BY <2>1, ProcessAssumption DEF Sees, Mine
  <2>3. ShapeInv'
    BY <1>1, <1>2, <2>1, ProcessAssumption DEF ShapeInv, Sound
  <2>4. RowsInv'
    BY <1>2, <2>1 DEF RowsInv, Sound
  <2>5. \A q \in Processes : Knows(proc'[q], Sees(q)')
    BY <1>1, <2>2, KnowsMore DEF ColumnsInv
  <2>6. Promised(db', db'.stamp)
    BY <2>1, <2>2 DEF Promised, Grown, ColumnsInv
  <2>7. ColumnsInv'
    BY <2>5, <2>6 DEF ColumnsInv
  <2> QED
    BY <2>1, <2>2, <2>3, <2>4, <2>7 DEF Grown
<1> QED
  BY <1>3, <1>4

\* A launch that changes rows, in its transaction: the others see nothing of it.
LEMMA ChangeKeeps ==
    ASSUME ShapeInv, RowsInv, ColumnsInv, NEW p \in Processes, NEW s \in Places, NEW g,
           Moves(p, s), Change(p, g), Keeps, launches # 0, Sound(g), Working(s), Knows(s, g)
    PROVE  ShapeInv' /\ RowsInv' /\ ColumnsInv' /\ Sees(p)' = g /\ db'.stamp = db.stamp
<1>1. proc' = [q \in Processes |-> proc'[q]] /\ proc'[p] = s /\ \A q \in Processes \ {p} : proc'[q] = proc[q]
  BY DEF Moves, ShapeInv
<1>2. UNCHANGED <<backups, installed, saved, raced, cut, launches>>
  BY DEF Keeps
<1>3. db' = db /\ txn' = [by |-> p, db |-> g] /\ txn.by \in {"nobody", p}
  BY DEF Change, Free
<1>4. txn'.by = p /\ txn'.db = g /\ p # "nobody"
  BY <1>3, ProcessAssumption
<1>5. \A q \in Processes \ {p} : Sees(q)' = Sees(q)
  BY <1>3, <1>4, ProcessAssumption DEF Sees, Mine
<1>6. Sees(p)' = g
  BY <1>4 DEF Sees, Mine
<1>7. ShapeInv'
  BY <1>1, <1>2, <1>3, <1>4 DEF ShapeInv, Sound
<1>8. RowsInv'
  BY <1>2, <1>3, <1>4 DEF RowsInv, Sound
<1>9. \A q \in Processes : Knows(proc'[q], Sees(q)')
  BY <1>1, <1>5, <1>6 DEF ColumnsInv
<1>10. ColumnsInv'
  BY <1>3, <1>9 DEF ColumnsInv
<1> QED
  BY <1>3, <1>6, <1>7, <1>8, <1>10

\* A launch, or a process, that ends
LEMMA EndKeeps ==
    ASSUME ShapeInv, RowsInv, ColumnsInv, AloneInv, NEW p \in Processes, NEW s \in {Off, [step |-> "failed"]},
           Moves(p, s), Rollback(p), launches # 0,
           UNCHANGED <<db, backups, installed, saved, raced, launches>>, cut' \in BOOLEAN
    PROVE  ShapeInv' /\ RowsInv' /\ ColumnsInv' /\ AloneInv'
<1>1. proc' = [q \in Processes |-> proc'[q]] /\ proc'[p] = s /\ \A q \in Processes \ {p} : proc'[q] = proc[q]
  BY DEF Moves, ShapeInv
<1>2. s \in Places /\ s.step \in {"off", "failed"} /\ Knows(s, db)
  BY DEF Off, Places, AtEnd, Knows, Working
<1>3. IF Mine(p) THEN txn' = [by |-> "nobody"] ELSE txn' = txn
  BY DEF Rollback
<1>4. \A q \in Processes \ {p} : Sees(q)' = Sees(q)
  BY <1>3, ProcessAssumption DEF Sees, Mine
<1>5. Sees(p)' = db
  BY <1>3, ProcessAssumption DEF Sees, Mine
<1>6. ShapeInv'
  BY <1>1, <1>2, <1>3 DEF ShapeInv, Mine
<1>7. RowsInv'
  BY <1>3 DEF RowsInv, Mine
<1>8. \A q \in Processes : Knows(proc'[q], Sees(q)')
  BY <1>1, <1>2, <1>4, <1>5 DEF ColumnsInv
<1>9. ColumnsInv'
  BY <1>8 DEF ColumnsInv
<1>10. AloneInv'
  <2>1. \A q \in Processes : Launching(q)' => Launching(q)
    BY <1>1, <1>2 DEF Launching
  <2>2. \A q \in Processes : proc'[q] = proc[q] \/ proc'[q].step \in {"off", "failed"}
    BY <1>1, <1>2
  <2>3. txn'.by = "nobody" \/ txn' = txn
    BY <1>3
  <2> QED
    BY <2>1, <2>2, <2>3 DEF AloneInv
<1> QED
  BY <1>6, <1>7, <1>9, <1>10

\* The launch that has something to do is the only one, if none raced another, and
\* nothing is saved before it is done.
InLaunch(s) ==
    s.step \in {"backup", "copying", "migrate", "new", "copy", "answers", "add", "stamp"} \/ (s.step = "create" /\ s.missing # {})

LEMMA LaunchStaysAlone ==
    ASSUME ShapeInv, AloneInv, NEW p \in Processes, NEW s, Moves(p, s), InLaunch(proc[p]), Runs(s), s.step # "copying",
           db'.stamp = db.stamp, UNCHANGED <<raced, saved, launches>>
    PROVE  AloneInv'
<1>1. proc'[p] = s /\ \A q \in Processes \ {p} : proc'[q] = proc[q]
  BY DEF Moves, ShapeInv
<1>2. \A q \in Processes : Launching(q)' => Launching(q)
  BY <1>1 DEF Launching, InLaunch
<1>3. ~raced => db.stamp # 3 /\ saved = {}
  BY DEF AloneInv, InLaunch
<1>4. ~raced => \A q \in Processes : proc'[q].step # "copying"
  BY <1>1 DEF AloneInv, Launching, InLaunch
<1> QED
  BY <1>2, <1>3, <1>4 DEF AloneInv

LEMMA RunsCleanly ==
    ASSUME ShapeInv, AloneInv, CleanInv, NEW p \in Processes, NEW s, Moves(p, s), Runs(proc[p]), Runs(s),
           UNCHANGED <<raced, cut>>,
           ~raced /\ ~cut =>
              /\ Sees(p)'.new = IF s.step = "copy" THEN {s.table} ELSE {}
              /\ s.step = "create" => \A t \in s.missing : db'[t] = NoTable
              /\ s.step = "add" => s.todo \cap Sees(p)'[s.table].cols = {}
    PROVE  CleanInv'
<1> SUFFICES ASSUME ~raced, ~cut PROVE CleanInv'
  BY DEF CleanInv
<1>1. proc'[p] = s /\ \A q \in Processes \ {p} : proc'[q] = proc[q]
  BY DEF Moves, ShapeInv
<1>2. \A q \in Processes \ {p} : ~Runs(proc[q])
  BY DEF AloneInv, Launching, Runs
<1>3. \A q \in Processes \ {p} : proc'[q].step \notin {"failed", "create", "add"} /\ ~Launching(q)'
  BY <1>1, <1>2 DEF CleanInv, Launching, Runs
<1>4. Launching(p)' /\ s.step # "failed"
  BY <1>1 DEF Launching, Runs
<1> QED
  BY <1>1, <1>3, <1>4 DEF CleanInv

-----------------------------------------------------------------------------
(* The statements of a launch.                                             *)

LEMMA Started ==
    ASSUME ShapeInv, NEW p \in Processes, proc[p].step # "off"
    PROVE  launches \in Nat \ {0} /\ proc[p] \in Places
BY DEF ShapeInv, Off

LEMMA FileFields ==
    ASSUME NEW f, FileOk(f)
    PROVE  /\ \A x : LET g == [f EXCEPT !["sessions"] = x]
                     IN  g.sessions = x /\ g.answers = f.answers /\ g.new = f.new /\ g.stamp = f.stamp
                         /\ g = [sessions |-> x, answers |-> f.answers, new |-> f.new, stamp |-> f.stamp]
           /\ \A x : LET g == [f EXCEPT !["answers"] = x]
                     IN  g.sessions = f.sessions /\ g.answers = x /\ g.new = f.new /\ g.stamp = f.stamp
                         /\ g = [sessions |-> f.sessions, answers |-> x, new |-> f.new, stamp |-> f.stamp]
           /\ \A x : LET g == [f EXCEPT !.new = x]
                     IN  g.sessions = f.sessions /\ g.answers = f.answers /\ g.new = x /\ g.stamp = f.stamp
                         /\ g = [sessions |-> f.sessions, answers |-> f.answers, new |-> x, stamp |-> f.stamp]
           /\ \A x : LET g == [f EXCEPT !.stamp = x]
                     IN  g.sessions = f.sessions /\ g.answers = f.answers /\ g.new = f.new /\ g.stamp = x
                         /\ g = [sessions |-> f.sessions, answers |-> f.answers, new |-> f.new, stamp |-> x]
BY DEF FileOk

LEMMA Launches ==
    ASSUME DbInvariant, NEW p \in Processes, Launch(p)
    PROVE  DbInvariant'
<1> DEFINE missing == (IF db.sessions = NoTable THEN {"sessions"} ELSE {})
                      \cup (IF db.answers = NoTable THEN {"answers"} ELSE {})
           s == [step |-> "create", missing |-> missing]
<1>1. /\ Moves(p, s) /\ proc[p].step \in {"off", "failed"} /\ launches' = launches + 1
      /\ raced' = (raced \/ \E q \in Processes \ {p} : Launching(q))
      /\ UNCHANGED <<db, txn, backups, installed, saved, cut, kills>>
  BY DEF Launch, Goto, Moves
<1>2. ShapeInv /\ RowsInv /\ ColumnsInv /\ AloneInv /\ CleanInv
  BY DEF DbInvariant
<1>3. missing \subseteq Tables /\ s \in Places /\ s.step = "create" /\ s.missing = missing
  BY DEF Tables, Places, AtCreate
<1>4. ~Mine(p) /\ Sees(p) = db /\ Sees(p)' = db
  BY <1>1, <1>2, ProcessAssumption DEF ShapeInv, Working, Mine, Sees
<1>5. \A t \in Tables \ missing : "kept" \in db[t].cols
  BY <1>2 DEF ShapeInv, FileOk, TableOk, Tables
<1> HIDE DEF missing
<1>6. Knows(s, Sees(p))
  BY <1>3, <1>4, <1>5 DEF Knows, Working
<1>7. launches' \in Nat \ {0} /\ raced' \in BOOLEAN
  BY <1>1, <1>2 DEF ShapeInv
<1> HIDE DEF s
<1>8. ShapeInv' /\ ColumnsInv'
  BY <1>1, <1>2, <1>3, <1>4, <1>6, <1>7, ReadKeeps DEF ShapeInv
<1>9. RowsInv'
  BY <1>1, <1>2 DEF RowsInv
<1>10. proc'[p] = s /\ \A q \in Processes \ {p} : proc'[q] = proc[q]
  BY <1>1, <1>2 DEF Moves, ShapeInv
<1>11. db.stamp = 3 => missing = {}
  <2>1. db.stamp = 3 => "exam_code" \in db.sessions.cols /\ "bank_question_id" \in db.answers.cols
    BY <1>2 DEF ColumnsInv, Promised, V1Sessions, V1Answers
  <2> QED
    BY <2>1, NoTableOk DEF missing
<1>12. AloneInv'
  <2> SUFFICES ASSUME ~raced' PROVE AloneInv'
    BY DEF AloneInv
  <2>1. ~raced /\ \A q \in Processes \ {p} : ~Launching(q)
    BY <1>1
  <2>2. \A q \in Processes \ {p} : ~Launching(q)'
    BY <1>10, <2>1 DEF Launching
  <2>3. \A q \in Processes : proc'[q].step # "copying"
    BY <1>3, <1>10, <2>1 DEF Launching
  <2> QED
    BY <1>1, <1>2, <1>3, <1>10, <1>11, <2>1, <2>2, <2>3 DEF AloneInv
<1>13. CleanInv'
  <2> SUFFICES ASSUME ~raced', ~cut' PROVE CleanInv'
    BY DEF CleanInv
  <2>1. ~raced /\ ~cut /\ \A q \in Processes : ~Launching(q)
    BY <1>1 DEF Launching
  <2>2. \A q \in Processes \ {p} : ~Launching(q)' /\ proc'[q].step \in {"off", "up"}
    BY <1>2, <1>10, <2>1 DEF Launching, CleanInv
  <2>3. db.new = {}
    BY <1>2, <2>1 DEF CleanInv
  <2>4. \A t \in missing : db[t] = NoTable
    BY DEF missing
  <2>5. Launching(p)'
    BY <1>3, <1>10 DEF Launching
  <2> QED
    BY <1>1, <1>3, <1>4, <1>10, <2>2, <2>3, <2>4, <2>5 DEF CleanInv
<1> QED
  BY <1>8, <1>9, <1>12, <1>13 DEF DbInvariant

\* create_all makes a table that is not there: none of an older version is lost.
LEMMA CreatedFile ==
    ASSUME ShapeInv, RowsInv, NEW t \in Tables, db[t] = NoTable
    PROVE  LET g == [db EXCEPT ![t] = Table({}, AllColumns(t))]
           IN  /\ Sound(g) /\ Grown(db, g) /\ g.new = db.new
               /\ "kept" \in g[t].cols /\ \A u \in Tables \ {t} : g[u] = db[u]
<1> DEFINE n == Table({}, AllColumns(t))
           g == [db EXCEPT ![t] = n]
<1>1. FileOk(db)
  BY DEF ShapeInv
<1>2. "kept" \notin AllColumns(t)
  BY ColumnNames, AllColumnsAre DEF Tables, V1Sessions, V1Answers
<1>3. TableOk(n) /\ "kept" \in n.cols /\ DOMAIN n.rows = {}
  BY <1>2, TableIsOk
<1>4. ~installed
  BY NoTableOk DEF RowsInv, RowsKept, Tables
<1> HIDE DEF n
<1>5. CASE t = "sessions"
  <2>1. /\ g.sessions = n /\ g.answers = db.answers /\ g.new = db.new /\ g.stamp = db.stamp
        /\ g = [sessions |-> n, answers |-> db.answers, new |-> db.new, stamp |-> db.stamp]
    BY <1>1, <1>5, FileFields
  <2>2. db.sessions = NoTable
    BY <1>5
  <2> HIDE DEF g
  <2>3. FileOk(g)
    BY <1>1, <1>3, <2>1, FS_EmptySet DEF FileOk
  <2>4. DOMAIN g.sessions.rows = DOMAIN db.sessions.rows
    BY <1>3, <2>1, <2>2, NoTableOk
  <2>5. Grown(db, g)
    BY <2>1, <2>2, NoTableOk DEF Grown
  <2>6. Sound(g)
    BY <1>4, <2>3, <2>4 DEF Sound
  <2>7. "kept" \in g[t].cols /\ \A u \in Tables \ {t} : g[u] = db[u]
    BY <1>3, <1>5, <2>1 DEF Tables
  <2> QED
    BY <2>1, <2>5, <2>6, <2>7 DEF g, n
<1>6. CASE t = "answers"
  <2>1. /\ g.sessions = db.sessions /\ g.answers = n /\ g.new = db.new /\ g.stamp = db.stamp
        /\ g = [sessions |-> db.sessions, answers |-> n, new |-> db.new, stamp |-> db.stamp]
    BY <1>1, <1>6, FileFields
  <2>2. db.answers = NoTable
    BY <1>6
  <2> HIDE DEF g
  <2>3. FileOk(g)
    BY <1>1, <1>3, <2>1 DEF FileOk
  <2>4. Grown(db, g)
    BY <2>1, <2>2, NoTableOk DEF Grown
  <2>6. Sound(g)
    BY <1>4, <2>1, <2>3 DEF Sound
  <2>7. "kept" \in g[t].cols /\ \A u \in Tables \ {t} : g[u] = db[u]
    BY <1>3, <1>6, <2>1 DEF Tables
  <2> QED
    BY <2>1, <2>4, <2>6, <2>7 DEF g, n
<1> QED
  BY <1>5, <1>6 DEF Tables

LEMMA Creates ==
    ASSUME DbInvariant, NEW p \in Processes, CreateTable(p)
    PROVE  DbInvariant'
<1> DEFINE missing == proc[p].missing
           t == IF "sessions" \in missing THEN "sessions" ELSE "answers"
           g == [db EXCEPT ![t] = Table({}, AllColumns(t))]
           s == [step |-> "create", missing |-> missing \ {t}]
<1>1. ShapeInv /\ RowsInv /\ ColumnsInv /\ AloneInv /\ CleanInv
  BY DEF DbInvariant
<1>2. proc[p].step = "create" /\ missing # {} /\ db[t] = NoTable /\ Define(p, g) /\ Keeps
      /\ Goto(p, [proc[p] EXCEPT !.missing = @ \ {t}])
  BY DEF CreateTable
<1>3. launches # 0 /\ proc[p] \in AtCreate
  <2>1. launches # 0 /\ proc[p] \in Places
    BY <1>1, <1>2, Started
  <2> QED
    BY <1>2, <2>1 DEF Places, AtEnd, AtCreate, AtVersion, AtBackup, AtTables, AtColumns
<1>4. missing \subseteq Tables /\ t \in Tables /\ Moves(p, s)
  <2>1. proc[p] = [step |-> "create", missing |-> missing] /\ missing \subseteq Tables
    BY <1>3 DEF AtCreate
  <2>2. t \in Tables
    BY DEF Tables
  <2> HIDE DEF missing, t
  <2>3. [proc[p] EXCEPT !.missing = @ \ {t}] = s
    BY <2>1
  <2> QED
    BY <1>2, <2>1, <2>2, <2>3 DEF Goto, Moves
<1> HIDE DEF missing, t
<1>5. s \in Places /\ s.step = "create" /\ s.missing = missing \ {t}
  BY <1>4 DEF Places, AtCreate
<1>6. ~Mine(p) /\ Sees(p) = db
  BY <1>1, <1>2, ProcessAssumption DEF ShapeInv, Working, Mine, Sees
<1>7. Sound(g) /\ Grown(db, g) /\ g.new = db.new /\ "kept" \in g[t].cols /\ \A u \in Tables \ {t} : g[u] = db[u]
  BY <1>1, <1>2, <1>4, CreatedFile
<1>8. \A u \in Tables \ missing : "kept" \in db[u].cols
  BY <1>1, <1>2, <1>6 DEF ColumnsInv, Knows, missing
<1>9. \A u \in Tables \ s.missing : "kept" \in g[u].cols
  BY <1>5, <1>7, <1>8
<1> HIDE DEF g, s
<1>10. Knows(s, g)
  BY <1>5, <1>9 DEF Knows, Working
<1>11. ShapeInv' /\ RowsInv' /\ ColumnsInv' /\ Sees(p)' = g /\ db'.stamp = db.stamp
  BY <1>1, <1>2, <1>3, <1>4, <1>5, <1>6, <1>7, <1>10, DefineKeeps
<1>12. AloneInv'
  BY <1>1, <1>2, <1>4, <1>5, <1>11, LaunchStaysAlone DEF InLaunch, Runs, Keeps, missing
<1>13. db' = g
  BY <1>2, <1>6 DEF Define
<1>14. CleanInv'
  <2>1. ~raced /\ ~cut => db.new = {} /\ \A u \in missing : db[u] = NoTable
    BY <1>1, <1>2, <1>6 DEF CleanInv, Launching, missing
  <2>2. ~raced /\ ~cut => g.new = {} /\ \A u \in s.missing : g[u] = NoTable
    BY <1>4, <1>5, <1>7, <2>1
  <2> QED
    BY <1>1, <1>2, <1>4, <1>5, <1>11, <1>13, <2>2, RunsCleanly DEF Runs, Keeps
<1> QED
  BY <1>11, <1>12, <1>14 DEF DbInvariant

\* A launch at a step has what the step needs.
LEMMA PlaceOf ==
    ASSUME NEW s \in Places
    PROVE  /\ s.step = "create" => s = [step |-> "create", missing |-> s.missing] /\ s.missing \subseteq Tables
           /\ s.step = "migrate" => s.version \in 0..2
           /\ s.step = "commit" => s.version = 3
           /\ s.step \in {"backup", "copying"} => s.version \in 1..2
           /\ s.step = "copying" => s.second \in Nat /\ s.since \in Nat
           /\ s.step \in {"new", "copy", "answers"} =>
                 /\ s = [step |-> s.step, version |-> 0, table |-> s.table, todo |-> {}]
                 /\ s.version = 0 /\ s.table \in Tables
           /\ s.step = "add" =>
                 /\ s = [step |-> s.step, version |-> s.version, table |-> s.table, todo |-> s.todo]
                 /\ \/ s.version = 1 /\ s.table = "answers" /\ s.todo \subseteq Added2
                    \/ s.version = 2 /\ s.table = "sessions" /\ s.todo \subseteq Added3
           /\ s.step = "stamp" => s.version \in 0..2
<1>1. s.step \in {"off", "failed", "up", "create", "migrate", "commit", "backup", "copying", "new", "copy",
               "answers", "add", "stamp"}
  BY DEF Places, AtEnd, AtCreate, AtVersion, AtBackup, AtTables, AtColumns
<1>2. s.step = "create" => s = [step |-> "create", missing |-> s.missing] /\ s.missing \subseteq Tables
  BY DEF Places, AtEnd, AtCreate, AtVersion, AtBackup, AtTables, AtColumns
<1>3. (s.step = "migrate" => s.version \in 0..2) /\ (s.step = "commit" => s.version = 3)
  BY DEF Places, AtEnd, AtCreate, AtVersion, AtBackup, AtTables, AtColumns
<1>4. s.step \in {"new", "copy", "answers"} =>
         /\ s = [step |-> s.step, version |-> 0, table |-> s.table, todo |-> {}]
         /\ s.version = 0 /\ s.table \in Tables
  <2>1. s.step \in {"new", "copy", "answers"} => s \in AtTables
    BY DEF Places, AtEnd, AtCreate, AtVersion, AtBackup, AtColumns
  <2> QED
    BY <2>1 DEF AtTables, Tables
<1>5. s.step = "add" =>
         /\ s = [step |-> s.step, version |-> s.version, table |-> s.table, todo |-> s.todo]
         /\ \/ s.version = 1 /\ s.table = "answers" /\ s.todo \subseteq Added2
            \/ s.version = 2 /\ s.table = "sessions" /\ s.todo \subseteq Added3
  <2>1. s.step = "add" => s \in AtColumns
    BY DEF Places, AtEnd, AtCreate, AtVersion, AtBackup, AtTables
  <2> QED
    BY <2>1 DEF AtColumns
<1>6. s.step = "stamp" => s.version \in 0..2
  <2>1. s.step = "stamp" => s \in AtColumns \cup AtTables
    BY DEF Places, AtEnd, AtCreate, AtVersion, AtBackup
  <2> QED
    BY <2>1 DEF AtColumns, AtTables
<1>7. /\ s.step \in {"backup", "copying"} => s.version \in 1..2
      /\ s.step = "copying" => s.second \in Nat /\ s.since \in Nat
  BY DEF Places, AtEnd, AtCreate, AtVersion, AtBackup, AtTables, AtColumns
<1> QED
  BY <1>2, <1>3, <1>4, <1>5, <1>6, <1>7

\* What the invariant says of a launch at one of its steps.
LEMMA AtWork ==
    ASSUME DbInvariant, NEW p \in Processes, proc[p].step \notin {"off", "failed", "up"}
    PROVE  /\ launches \in Nat \ {0} /\ proc[p] \in Places /\ Knows(proc[p], Sees(p))
           /\ Sound(Sees(p)) /\ Sound(db) /\ (~Mine(p) => Sees(p) = db) /\ (Mine(p) => Working(proc[p]))
           /\ ShapeInv /\ RowsInv /\ ColumnsInv /\ AloneInv /\ CleanInv
           /\ ~raced /\ ~cut =>
                 /\ Sees(p).new = IF proc[p].step = "copy" THEN {proc[p].table} ELSE {}
                 /\ proc[p].step = "create" => \A t \in proc[p].missing : db[t] = NoTable
                 /\ proc[p].step = "add" => proc[p].todo \cap Sees(p)[proc[p].table].cols = {}
<1>1. ShapeInv /\ RowsInv /\ ColumnsInv /\ AloneInv /\ CleanInv
  BY DEF DbInvariant
<1>2. launches \in Nat \ {0} /\ proc[p] \in Places
  BY <1>1, Started
<1>3. Knows(proc[p], Sees(p))
  BY <1>1 DEF ColumnsInv
<1>4. Mine(p) => Working(proc[p])
  BY <1>1, ProcessAssumption DEF ShapeInv, Mine
<1>5. ~raced /\ ~cut =>
         /\ Sees(p).new = IF proc[p].step = "copy" THEN {proc[p].table} ELSE {}
         /\ proc[p].step = "create" => \A t \in proc[p].missing : db[t] = NoTable
         /\ proc[p].step = "add" => proc[p].todo \cap Sees(p)[proc[p].table].cols = {}
  BY <1>1 DEF CleanInv, Launching
<1> QED
  BY <1>1, <1>2, <1>3, <1>4, <1>5, SeenIsSound

LEMMA ReadsVersion ==
    ASSUME DbInvariant, NEW p \in Processes, ReadVersion(p)
    PROVE  DbInvariant'
<1> DEFINE step == CASE db.stamp = 0 -> "migrate" [] db.stamp = 3 -> "commit" [] OTHER -> "backup"
           s == [step |-> step, version |-> db.stamp]
<1>1. /\ proc[p].step = "create" /\ proc[p].missing = {} /\ Moves(p, s)
      /\ UNCHANGED <<db, txn, backups, installed, saved, raced, cut, launches, kills>>
  BY DEF ReadVersion, Goto, Moves, Keeps
<1>2. /\ launches \in Nat \ {0} /\ Knows(proc[p], Sees(p)) /\ ~Mine(p) /\ Sees(p) = db
      /\ ShapeInv /\ RowsInv /\ ColumnsInv /\ AloneInv /\ CleanInv
      /\ ~raced /\ ~cut => Sees(p).new = {}
  BY <1>1, AtWork DEF Working
<1>3. db.stamp \in 0..3 /\ s.version = db.stamp /\ s.step = step
  BY <1>2 DEF ShapeInv, FileOk
<1>4. \/ step = "migrate" /\ db.stamp = 0
      \/ step = "commit" /\ db.stamp = 3
      \/ step = "backup" /\ db.stamp \in 1..2
  BY <1>3
<1> HIDE DEF step
<1>5. s \in Places
  BY <1>3, <1>4 DEF Places, AtVersion, AtBackup
<1> HIDE DEF s
<1>6. Knows(s, Sees(p))
  <2>1. \A t \in Tables : "kept" \in db[t].cols
    BY <1>1, <1>2 DEF Knows
  <2>2. Promised(db, s.version)
    BY <1>2, <1>3 DEF ColumnsInv
  <2> QED
    BY <1>2, <1>3, <1>4, <2>1, <2>2 DEF Knows, Working
<1>7. ShapeInv' /\ ColumnsInv'
  <2>1. raced \in BOOLEAN /\ BackupsOk(backups')
    BY <1>1, <1>2 DEF ShapeInv
  <2> QED
    BY <1>1, <1>2, <1>5, <1>6, <2>1, ReadKeeps
<1>8. RowsInv'
  BY <1>1, <1>2 DEF RowsInv
<1>9. AloneInv'
  <2>1. proc'[p] = s /\ \A q \in Processes \ {p} : proc'[q] = proc[q]
    BY <1>1, <1>2 DEF Moves, ShapeInv
  <2>2. \A q \in Processes : Launching(q)' => Launching(q)
    BY <1>1, <2>1 DEF Launching
  <2> QED
    BY <1>1, <1>2, <1>3, <1>4, <2>1, <2>2 DEF AloneInv
<1>10. CleanInv'
  <2>1. Sees(p)' = db
    BY <1>1, <1>2 DEF Sees, Mine
  <2> QED
    BY <1>1, <1>2, <1>3, <1>4, <2>1, RunsCleanly DEF Runs
<1> QED
  BY <1>7, <1>8, <1>9, <1>10 DEF DbInvariant

\* A step of the backup, which changes no more than the files in backups/: a finished
\* one is a copy of the file, if no launches raced.
LEMMA BackupKeeps ==
    ASSUME DbInvariant, NEW p \in Processes, proc[p].step \in {"backup", "copying"}, NEW s \in Places,
           Moves(p, s), s.step \in {"copying", "migrate"}, s.version = proc[p].version,
           s.step = "copying" /\ ~raced => s.since = launches,
           UNCHANGED <<db, txn, installed, saved, raced, cut, launches>>, BackupsOk(backups'),
           \A c \in backups' : c \in backups \/ (c.done => raced \/ c.file = db)
    PROVE  DbInvariant'
<1>1. /\ launches \in Nat \ {0} /\ Knows(proc[p], Sees(p)) /\ ~Mine(p) /\ Sees(p) = db
      /\ ShapeInv /\ RowsInv /\ ColumnsInv /\ AloneInv /\ CleanInv
      /\ ~raced /\ ~cut => Sees(p).new = {}
  BY AtWork DEF Working
<1>2. Knows(s, Sees(p))
  BY <1>1 DEF Knows, Working
<1>3. raced' \in BOOLEAN
  BY <1>1 DEF ShapeInv
<1>4. ShapeInv' /\ ColumnsInv'
  BY <1>1, <1>2, <1>3, ReadKeeps
<1>5. RowsInv'
  BY <1>1 DEF RowsInv, RowsKept
<1>6. AloneInv'
  <2>1. proc'[p] = s /\ \A q \in Processes \ {p} : proc'[q] = proc[q]
    BY <1>1 DEF Moves, ShapeInv
  <2>2. \A q \in Processes : Launching(q)' => Launching(q)
    BY <2>1 DEF Launching
  <2>3. ~raced => db.stamp # 3
    BY <1>1 DEF AloneInv
  <2> QED
    BY <1>1, <2>1, <2>2, <2>3 DEF AloneInv
<1>7. CleanInv'
  <2>1. Sees(p)' = db
    BY <1>1 DEF Sees, Mine
  <2> QED
    BY <1>1, <2>1, RunsCleanly DEF Runs
<1> QED
  BY <1>4, <1>5, <1>6, <1>7 DEF DbInvariant

\* The latest of the seconds of finitely many files
LEMMA LatestSecond ==
    ASSUME NEW copies, BackupsOk(copies)
    PROVE  Max({c.second : c \in copies} \cup {0}) \in Nat
<1> DEFINE seconds == {c.second : c \in copies}
<1>1. IsFiniteSet(seconds)
  <2> DEFINE f == [c \in copies |-> c.second]
  <2>1. f \in Surjection(copies, seconds)
    BY DEF Surjection
  <2> QED
    BY <2>1, FS_Surjection DEF BackupsOk
<1>2. seconds \cup {0} \in SUBSET Nat /\ IsFiniteSet(seconds \cup {0}) /\ seconds \cup {0} # {}
  BY <1>1, FS_AddElement DEF BackupsOk
<1> HIDE DEF seconds
<1> QED
  BY <1>2, GreatestId DEF seconds

LEMMA BeginsCopy ==
    ASSUME DbInvariant, NEW p \in Processes, BeginCopy(p)
    PROVE  DbInvariant'
<1> DEFINE seconds == {c.second : c \in backups} \cup {0}
           since == IF \E q \in Processes \ {p} : Launching(q) THEN 0 ELSE launches
           begun(second) == [second |-> second, file |-> NoFile, done |-> FALSE]
           at(second) == [step |-> "copying", version |-> proc[p].version, second |-> second, since |-> since]
<1>1. PICK second \in {Max(seconds), Max(seconds) + 1} \ {0} :
         /\ backups' = {c \in backups : c.second # second} \cup {begun(second)}
         /\ Moves(p, at(second))
  BY DEF BeginCopy, Goto, Moves
<1>2. proc[p].step = "backup" /\ UNCHANGED <<db, txn, installed, saved, raced, cut, launches>>
  BY DEF BeginCopy
<1>3. /\ launches \in Nat \ {0} /\ proc[p] \in Places /\ BackupsOk(backups) /\ AloneInv
  BY <1>2, AtWork DEF ShapeInv
<1>4. second \in Nat
  <2>1. Max(seconds) \in Nat
    BY <1>3, LatestSecond
  <2> HIDE DEF seconds
  <2> QED
    BY <1>1, <2>1
<1>5. proc[p].version \in 1..2
  BY <1>2, <1>3, PlaceOf
<1>6. since \in Nat /\ (~raced => since = launches)
  <2>1. ~raced => \A q \in Processes \ {p} : ~Launching(q)
    BY <1>2, <1>3 DEF AloneInv, Launching
  <2> QED
    BY <1>3, <2>1
<1> HIDE DEF since
<1> DEFINE s == at(second)
<1>7. s \in Places /\ s.step = "copying" /\ s.version = proc[p].version /\ s.since = since
  BY <1>4, <1>5, <1>6 DEF Places, AtBackup
<1>8. BackupsOk(backups')
  <2>1. begun(second).second = second
    OBVIOUS
  <2>2. IsFiniteSet({c \in backups : c.second # second})
    BY <1>3, FS_Subset DEF BackupsOk
  <2> HIDE DEF begun
  <2>3. IsFiniteSet({c \in backups : c.second # second} \cup {begun(second)})
    BY <2>2, FS_AddElement
  <2> QED
    BY <1>1, <1>3, <1>4, <2>1, <2>3 DEF BackupsOk
<1>9. \A c \in backups' : c \in backups \/ ~c.done
  BY <1>1
<1> HIDE DEF at, begun, seconds
<1>10. Moves(p, s)
  BY <1>1
<1> HIDE DEF s
<1> QED
  BY <1>2, <1>6, <1>7, <1>8, <1>9, <1>10, BackupKeeps

LEMMA EndsCopy ==
    ASSUME DbInvariant, NEW p \in Processes, EndCopy(p)
    PROVE  DbInvariant'
<1> DEFINE s == [step |-> "migrate", version |-> proc[p].version]
           others == {c \in backups : c.second # proc[p].second}
           ended(copy) == [second |-> proc[p].second, file |-> copy, done |-> TRUE]
<1>1. /\ proc[p].step = "copying" /\ Moves(p, s)
      /\ UNCHANGED <<db, txn, installed, saved, raced, cut, launches>>
  BY DEF EndCopy, Goto, Moves
<1>2. PICK copy \in Copied(p) : backups' \in Pruned(others \cup {ended(copy)})
  BY DEF EndCopy
<1>3. proc[p] \in Places /\ BackupsOk(backups) /\ AloneInv
  BY <1>1, AtWork DEF ShapeInv
<1>4. proc[p].version \in 1..2 /\ proc[p].second \in Nat
  BY <1>1, <1>3, PlaceOf
<1>5. s \in Places /\ s.step = "migrate" /\ s.version = proc[p].version
  BY <1>4 DEF Places, AtVersion
<1>6. raced \/ copy = db
  <2>1. ~raced => Copied(p) = {db}
    BY <1>1, <1>3 DEF AloneInv, Copied
  <2> QED
    BY <1>2, <2>1
<1>7. backups' \subseteq others \cup {ended(copy)}
  BY <1>2 DEF Pruned, kSubset
<1>8. BackupsOk(backups')
  <2>1. ended(copy).second = proc[p].second
    OBVIOUS
  <2>2. IsFiniteSet(others)
    BY <1>3, FS_Subset DEF BackupsOk
  <2> HIDE DEF ended
  <2>3. IsFiniteSet(others \cup {ended(copy)})
    BY <2>2, FS_AddElement
  <2>4. IsFiniteSet(backups')
    BY <1>7, <2>3, FS_Subset
  <2> QED
    BY <1>3, <1>4, <1>7, <2>1, <2>4 DEF BackupsOk
<1>9. \A c \in backups' : c \in backups \/ (c.done => raced \/ c.file = db)
  BY <1>6, <1>7
<1> HIDE DEF s
<1> QED
  BY <1>1, <1>5, <1>8, <1>9, BackupKeeps

LEMMA BackupsFail ==
    ASSUME DbInvariant, NEW p \in Processes, BackupFails(p)
    PROVE  DbInvariant'
<1> DEFINE s == [step |-> "migrate", version |-> proc[p].version]
<1>1. /\ proc[p].step \in {"backup", "copying"} /\ Moves(p, s)
      /\ UNCHANGED <<db, txn, backups, installed, saved, raced, cut, launches>>
  BY DEF BackupFails, Goto, Moves, Keeps
<1>2. proc[p] \in Places /\ BackupsOk(backups')
  BY <1>1, AtWork DEF ShapeInv
<1>3. s \in Places /\ s.step = "migrate" /\ s.version = proc[p].version
  <2>1. proc[p].version \in 1..2
    BY <1>1, <1>2, PlaceOf
  <2> QED
    BY <2>1 DEF Places, AtVersion
<1> HIDE DEF s
<1> QED
  BY <1>1, <1>2, <1>3, BackupKeeps

\* A step that only reads, and goes on
LEMMA ReadsOn ==
    ASSUME DbInvariant, NEW p \in Processes, InLaunch(proc[p]), NEW s \in Places, Moves(p, s),
           Working(s), s.step # "commit", s.step # "copy", Knows(s, Sees(p)), UNCHANGED <<db, txn>>, Keeps,
           s.step = "add" => s.todo \cap Sees(p)[s.table].cols = {}, proc[p].step # "copy"
    PROVE  DbInvariant'
<1>1. /\ launches \in Nat \ {0}
      /\ ShapeInv /\ RowsInv /\ ColumnsInv /\ AloneInv /\ CleanInv
      /\ ~raced /\ ~cut => Sees(p).new = {}
  BY AtWork DEF InLaunch
<1>2. UNCHANGED <<backups, installed, saved, raced, cut, launches>>
  BY DEF Keeps
<1>3. raced' \in BOOLEAN
  BY <1>1, <1>2 DEF ShapeInv
<1>4. ShapeInv' /\ ColumnsInv'
  BY <1>1, <1>2, <1>3, ReadKeeps DEF ShapeInv
<1>5. RowsInv'
  BY <1>1, <1>2 DEF RowsInv
<1>6. AloneInv'
  BY <1>1, <1>2, LaunchStaysAlone DEF Working, Runs
<1>7. CleanInv'
  <2>1. Sees(p)' = Sees(p)
    BY DEF Sees, Mine
  <2> QED
    BY <1>1, <1>2, <2>1, RunsCleanly DEF Runs, InLaunch, Working
<1> QED
  BY <1>4, <1>5, <1>6, <1>7 DEF DbInvariant

LEMMA ReadsColumns ==
    ASSUME DbInvariant, NEW p \in Processes, ReadColumns(p)
    PROVE  DbInvariant'
<1> DEFINE seen == Sees(p)
           v == proc[p].version
           at(step, table, todo) == [step |-> step, version |-> v, table |-> table, todo |-> todo]
<1>1. proc[p].step = "migrate" /\ UNCHANGED <<db, txn>> /\ Keeps
  BY DEF ReadColumns
<1>2. v \in 0..2 /\ Knows(proc[p], seen) /\ InLaunch(proc[p])
  BY <1>1, AtWork, PlaceOf DEF InLaunch
<1>3. Promised(seen, v) /\ \A t \in Tables : "kept" \in seen[t].cols
  BY <1>1, <1>2 DEF Knows, Working
<1>4. CASE v = 0 /\ ~(V1Sessions \subseteq seen.sessions.cols)
  <2> DEFINE s == at("new", "sessions", {})
  <2>1. Moves(p, s)
    BY <1>4 DEF ReadColumns, Goto, Moves
  <2>2. s.step = "new" /\ s.table = "sessions" /\ s.version = 0
    BY <1>4
  <2>3. s \in Places
    BY <1>4 DEF Places, AtTables, Tables
  <2> HIDE DEF s, v, seen
  <2>4. Knows(s, seen)
    BY <1>3, <1>4, <2>2 DEF Knows, Working
  <2> QED
    BY <1>1, <1>2, <2>1, <2>2, <2>3, <2>4, ReadsOn DEF Working, seen
<1>5. CASE v = 0 /\ V1Sessions \subseteq seen.sessions.cols
  <2> DEFINE s == at("answers", "answers", {})
  <2>1. Moves(p, s)
    BY <1>5 DEF ReadColumns, Goto, Moves
  <2>2. s.step = "answers" /\ s.table = "answers" /\ s.version = 0
    BY <1>5
  <2>3. s \in Places
    BY <1>5 DEF Places, AtTables, Tables
  <2> HIDE DEF s, v, seen
  <2>4. Knows(s, seen)
    BY <1>3, <1>5, <2>2 DEF Knows, Working
  <2> QED
    BY <1>1, <1>2, <2>1, <2>2, <2>3, <2>4, ReadsOn DEF Working, seen
<1>6. CASE v = 1
  <2> DEFINE s == at("add", "answers", MissingFrom(V2Answers, seen.answers))
  <2>1. Moves(p, s)
    BY <1>6 DEF ReadColumns, Goto, Moves
  <2>2. s.step = "add" /\ s.table = "answers" /\ s.version = 1 /\ s.todo = Added2 \ seen.answers.cols
    BY <1>6 DEF MissingFrom, Added2
  <2>3. s \in Places
    BY <1>6 DEF Places, AtColumns, MissingFrom, Added2
  <2> HIDE DEF s, v, seen
  <2>4. Knows(s, seen)
    BY <1>3, <1>6, <2>2 DEF Knows, Working
  <2>5. s.todo \cap seen[s.table].cols = {}
    BY <2>2
  <2> QED
    BY <1>1, <1>2, <2>1, <2>2, <2>3, <2>4, <2>5, ReadsOn DEF Working, seen
<1>7. CASE v = 2
  <2> DEFINE s == at("add", "sessions", MissingFrom(V3Sessions, seen.sessions))
  <2>1. Moves(p, s)
    BY <1>7 DEF ReadColumns, Goto, Moves
  <2>2. s.step = "add" /\ s.table = "sessions" /\ s.version = 2 /\ s.todo = Added3 \ seen.sessions.cols
    BY <1>7 DEF MissingFrom, Added3
  <2>3. s \in Places
    BY <1>7 DEF Places, AtColumns, MissingFrom, Added3
  <2> HIDE DEF s, v, seen
  <2>4. Knows(s, seen)
    BY <1>3, <1>7, <2>2 DEF Knows, Working
  <2>5. s.todo \cap seen[s.table].cols = {}
    BY <2>2
  <2> QED
    BY <1>1, <1>2, <2>1, <2>2, <2>3, <2>4, <2>5, ReadsOn DEF Working, seen
<1> QED
  BY <1>2, <1>4, <1>5, <1>6, <1>7

LEMMA ReadsAnswers ==
    ASSUME DbInvariant, NEW p \in Processes, ReadAnswers(p)
    PROVE  DbInvariant'
<1> DEFINE seen == Sees(p)
           step == IF V1Answers \subseteq seen.answers.cols THEN "stamp" ELSE "new"
           s == [step |-> step, version |-> 0, table |-> "answers", todo |-> {}]
<1>1. proc[p].step = "answers" /\ UNCHANGED <<db, txn>> /\ Keeps
      /\ proc' = [proc EXCEPT ![p] = [proc[p] EXCEPT !.step = step, !.table = "answers"]]
  BY DEF ReadAnswers, Goto
<1>2. Knows(proc[p], seen) /\ InLaunch(proc[p]) /\ proc[p] \in Places
  BY <1>1, AtWork DEF InLaunch
<1>3. proc[p] = [step |-> "answers", version |-> 0, table |-> proc[p].table, todo |-> {}]
  BY <1>1, <1>2, PlaceOf
<1>4. Moves(p, s)
  <2> DEFINE m == [proc[p] EXCEPT !.step = step]
             n == [m EXCEPT !.table = "answers"]
  <2> HIDE DEF step
  <2>1. m.step = step /\ m = [step |-> step, version |-> 0, table |-> proc[p].table, todo |-> {}]
    BY <1>3
  <2> HIDE DEF m
  <2>2. n.table = "answers" /\ n = s
    BY <2>1
  <2>3. [proc[p] EXCEPT !.step = step, !.table = "answers"] = s
    BY <2>2 DEF m
  <2> QED
    BY <1>1, <2>3 DEF Moves
<1>5. V1Sessions \subseteq seen.sessions.cols /\ \A t \in Tables : "kept" \in seen[t].cols
  BY <1>1, <1>2 DEF Knows, Working
<1>6. s \in Places
  BY DEF Places, AtTables, Tables
<1>7. s.step = step /\ s.version = 0 /\ s.table = "answers"
  OBVIOUS
<1> HIDE DEF s, seen
<1>8. Knows(s, seen)
  BY <1>5, <1>7 DEF Knows, Working, Promised
<1> QED
  BY <1>1, <1>2, <1>4, <1>6, <1>7, <1>8, ReadsOn DEF Working, seen

LEMMA CreatesNew ==
    ASSUME DbInvariant, NEW p \in Processes, CreateNew(p)
    PROVE  DbInvariant'
<1> DEFINE t == proc[p].table
           seen == Sees(p)
           g == [seen EXCEPT !.new = @ \cup {t}]
           s == [step |-> "copy", version |-> 0, table |-> t, todo |-> {}]
<1>1. proc[p].step = "new" /\ t \notin seen.new /\ Define(p, g) /\ Keeps
      /\ Goto(p, [proc[p] EXCEPT !.step = "copy"])
  BY DEF CreateNew
<1>2. /\ launches # 0 /\ proc[p] \in Places /\ Knows(proc[p], seen) /\ Sound(seen)
      /\ ShapeInv /\ RowsInv /\ ColumnsInv /\ AloneInv /\ CleanInv
      /\ ~raced /\ ~cut => seen.new = {}
  BY <1>1, AtWork
<1>3. proc[p] = [step |-> "new", version |-> 0, table |-> t, todo |-> {}] /\ t \in Tables /\ proc[p].version = 0
  BY <1>1, <1>2, PlaceOf
<1> HIDE DEF t
<1>4. Moves(p, s)
  <2> DEFINE n == [proc[p] EXCEPT !.step = "copy"]
  <2>1. n.step = "copy" /\ n = s
    BY <1>3
  <2> QED
    BY <1>1, <2>1 DEF Goto, Moves
<1>5. s.step = "copy" /\ s.version = 0 /\ s.table = t /\ s \in Places
  BY <1>3 DEF Places, AtTables
<1> HIDE DEF seen, s
<1>6. /\ g.sessions = seen.sessions /\ g.answers = seen.answers /\ g.new = seen.new \cup {t} /\ g.stamp = seen.stamp
      /\ g = [sessions |-> seen.sessions, answers |-> seen.answers, new |-> seen.new \cup {t}, stamp |-> seen.stamp]
  BY <1>2, FileFields DEF Sound
<1> HIDE DEF g
<1>7. Sound(g) /\ Grown(seen, g)
  <2>1. FileOk(g)
    BY <1>2, <1>3, <1>6 DEF Sound, FileOk
  <2>2. installed => RowsKept(g)
    BY <1>2, <1>6 DEF Sound, RowsKept, OldRowsIn
  <2> QED
    BY <1>2, <1>6, <2>1, <2>2 DEF Sound, Grown
<1>8. Knows(s, g)
  BY <1>1, <1>2, <1>3, <1>5, <1>6 DEF Knows, Working, Promised, Tables, t
<1>9. ShapeInv' /\ RowsInv' /\ ColumnsInv' /\ Sees(p)' = g /\ db'.stamp = db.stamp
  BY <1>1, <1>2, <1>4, <1>5, <1>7, <1>8, DefineKeeps DEF g, seen, Working
<1>10. AloneInv'
  BY <1>1, <1>2, <1>4, <1>5, <1>9, LaunchStaysAlone DEF InLaunch, Runs, Keeps
<1>11. CleanInv'
  <2>1. ~raced /\ ~cut => Sees(p)'.new = {s.table}
    BY <1>2, <1>5, <1>6, <1>9
  <2> QED
    BY <1>1, <1>2, <1>4, <1>5, <2>1, RunsCleanly DEF Runs, Keeps
<1> QED
  BY <1>9, <1>10, <1>11 DEF DbInvariant

\* A rebuilt table in its file
Rebuilt(f, t) ==
    [f EXCEPT ![t] = IF t = "sessions" THEN RebuiltSessions(@) ELSE RebuiltAnswers(@), !.new = @ \ {t}]

LEMMA RebuiltFile ==
    ASSUME NEW f, Sound(f), NEW t \in Tables
    PROVE  LET g == Rebuilt(f, t)
           IN  /\ Sound(g) /\ g.new = f.new \ {t} /\ g.stamp = f.stamp
               /\ t = "sessions" => g.sessions.cols = {"kept"} \cup V1Sessions /\ g.answers = f.answers
               /\ t = "answers" => g.sessions = f.sessions /\ g.answers.cols = {"kept"} \cup V1Answers
<1> DEFINE g == Rebuilt(f, t)
<1>1. FileOk(f) /\ TableOk(f.sessions) /\ TableOk(f.answers)
  BY DEF Sound, FileOk
<1>2. CASE t = "sessions"
  <2> DEFINE r == RebuiltSessions(f.sessions)
             m == [f EXCEPT !["sessions"] = r]
  <2>1. TableOk(r) /\ r.cols = {"kept"} \cup V1Sessions /\ DOMAIN r.rows = DOMAIN f.sessions.rows
        /\ \A id \in DOMAIN f.sessions.rows : r.rows[id]["exam_code"] = CodeOf(id)
    BY <1>1, RebuiltTables
  <2> HIDE DEF r
  <2>2. m.sessions = r /\ m.answers = f.answers /\ m.new = f.new /\ m.stamp = f.stamp
        /\ m = [sessions |-> r, answers |-> f.answers, new |-> f.new, stamp |-> f.stamp]
    BY <1>1, FileFields
  <2>3. g = [m EXCEPT !.new = @ \ {t}]
    BY <1>2 DEF r, Rebuilt
  <2> HIDE DEF m
  <2>4. g.sessions = r /\ g.answers = f.answers /\ g.new = f.new \ {t} /\ g.stamp = f.stamp
        /\ g = [sessions |-> r, answers |-> f.answers, new |-> f.new \ {t}, stamp |-> f.stamp]
    BY <2>2, <2>3
  <2> HIDE DEF g
  <2>5. FileOk(g)
    BY <1>1, <2>1, <2>4 DEF FileOk
  <2>6. installed => RowsKept(g)
    BY <2>1, <2>4 DEF Sound, RowsKept, OldRowsIn
  <2>7. Sound(g)
    BY <2>1, <2>4, <2>5, <2>6 DEF Sound
  <2> QED
    BY <1>2, <2>1, <2>4, <2>7 DEF g
<1>3. CASE t = "answers"
  <2> DEFINE r == RebuiltAnswers(f.answers)
             m == [f EXCEPT !["answers"] = r]
  <2>1. TableOk(r) /\ r.cols = {"kept"} \cup V1Answers /\ DOMAIN r.rows = DOMAIN f.answers.rows
    BY <1>1, RebuiltTables
  <2> HIDE DEF r
  <2>2. m.sessions = f.sessions /\ m.answers = r /\ m.new = f.new /\ m.stamp = f.stamp
        /\ m = [sessions |-> f.sessions, answers |-> r, new |-> f.new, stamp |-> f.stamp]
    BY <1>1, FileFields
  <2>3. g = [m EXCEPT !.new = @ \ {t}]
    BY <1>3 DEF r, Rebuilt
  <2> HIDE DEF m
  <2>4. g.sessions = f.sessions /\ g.answers = r /\ g.new = f.new \ {t} /\ g.stamp = f.stamp
        /\ g = [sessions |-> f.sessions, answers |-> r, new |-> f.new \ {t}, stamp |-> f.stamp]
    BY <2>2, <2>3
  <2> HIDE DEF g
  <2>5. FileOk(g)
    BY <1>1, <2>1, <2>4 DEF FileOk
  <2>6. installed => RowsKept(g)
    BY <2>1, <2>4 DEF Sound, RowsKept, OldRowsIn
  <2>7. Sound(g)
    BY <2>1, <2>4, <2>5, <2>6 DEF Sound
  <2> QED
    BY <1>3, <2>1, <2>4, <2>7 DEF g
<1> QED
  BY <1>2, <1>3 DEF Tables

\* The transaction
LEMMA WritesOn ==
    ASSUME DbInvariant, NEW p \in Processes, InLaunch(proc[p]), NEW s \in Places, NEW g, Moves(p, s),
           Change(p, g), Keeps, Sound(g), Working(s), s.step # "copy", s.step # "add", Knows(s, g),
           ~raced /\ ~cut => g.new = {}
    PROVE  DbInvariant'
<1>1. launches # 0 /\ ShapeInv /\ RowsInv /\ ColumnsInv /\ AloneInv /\ CleanInv /\ Runs(proc[p]) /\ Runs(s)
  BY AtWork DEF InLaunch, Runs, Working
<1>2. ShapeInv' /\ RowsInv' /\ ColumnsInv' /\ Sees(p)' = g /\ db'.stamp = db.stamp
  BY <1>1, ChangeKeeps
<1>3. AloneInv'
  BY <1>1, <1>2, LaunchStaysAlone DEF Keeps, Working
<1>4. CleanInv'
  BY <1>1, <1>2, RunsCleanly DEF Keeps, Working
<1> QED
  BY <1>2, <1>3, <1>4 DEF DbInvariant

LEMMA Copies ==
    ASSUME DbInvariant, NEW p \in Processes, CopyAndSwap(p)
    PROVE  DbInvariant'
<1> DEFINE t == proc[p].table
           seen == Sees(p)
           g == Rebuilt(seen, t)
           step == IF t = "sessions" THEN "answers" ELSE "stamp"
           s == [step |-> step, version |-> 0, table |-> t, todo |-> {}]
<1>1. proc[p].step = "copy" /\ Change(p, g) /\ Keeps /\ Goto(p, [proc[p] EXCEPT !.step = step])
  BY DEF CopyAndSwap, Rebuilt
<1>2. /\ proc[p] \in Places /\ Knows(proc[p], seen) /\ Sound(seen)
      /\ ~raced /\ ~cut => seen.new = {t}
  BY <1>1, AtWork
<1>3. proc[p] = [step |-> "copy", version |-> 0, table |-> t, todo |-> {}] /\ t \in Tables /\ proc[p].version = 0
  BY <1>1, <1>2, PlaceOf
<1>4. Moves(p, s)
  <2> DEFINE n == [proc[p] EXCEPT !.step = step]
  <2> HIDE DEF t, step
  <2>1. n.step = step /\ n = s
    BY <1>3
  <2> QED
    BY <1>1, <2>1 DEF Goto, Moves
<1>5. s.step = step /\ s.version = 0 /\ s.table = t /\ s \in Places
  BY <1>3 DEF Places, AtTables, Tables
<1>6. t = "answers" => V1Sessions \subseteq seen.sessions.cols
  BY <1>1, <1>2 DEF Knows
<1>7. \A u \in Tables : "kept" \in seen[u].cols
  BY <1>1, <1>2 DEF Knows, Working
<1> HIDE DEF seen, s, t, g
<1>8. /\ Sound(g) /\ g.new = seen.new \ {t}
      /\ t = "sessions" => /\ g.sessions.cols = {"kept"} \cup V1Sessions /\ g.answers = seen.answers
      /\ t = "answers" => g.sessions = seen.sessions /\ g.answers.cols = {"kept"} \cup V1Answers
  BY <1>2, <1>3, RebuiltFile DEF g
<1>9. V1Sessions \subseteq g.sessions.cols /\ (t = "answers" => V1Answers \subseteq g.answers.cols)
  BY <1>3, <1>6, <1>8 DEF Tables
<1>10. \A u \in Tables : "kept" \in g[u].cols
  BY <1>3, <1>7, <1>8 DEF Tables
<1>11. Knows(s, g)
  BY <1>3, <1>5, <1>9, <1>10 DEF Knows, Working, Promised, Tables
<1>12. InLaunch(proc[p]) /\ Working(s) /\ s.step # "copy" /\ s.step # "add"
  BY <1>1, <1>5 DEF InLaunch, Working
<1> QED
  BY <1>1, <1>2, <1>4, <1>5, <1>8, <1>11, <1>12, WritesOn

\* A column is added to its file.
Widened(f, t, c) == [f EXCEPT ![t] = WithColumn(@, c)]

LEMMA WidenedFile ==
    ASSUME NEW f, Sound(f), NEW t \in Tables, NEW c, c \notin f[t].cols, "kept" \in f[t].cols, c # "exam_code"
    PROVE  LET g == Widened(f, t, c)
           IN  /\ Sound(g) /\ Grown(f, g) /\ g.new = f.new
               /\ g[t].cols = f[t].cols \cup {c} /\ \A u \in Tables \ {t} : g[u] = f[u]
<1> DEFINE g == Widened(f, t, c)
           w == WithColumn(f[t], c)
<1>1. FileOk(f) /\ TableOk(f[t])
  BY DEF Sound, FileOk, Tables
<1>2. /\ TableOk(w) /\ w.cols = f[t].cols \cup {c} /\ DOMAIN w.rows = DOMAIN f[t].rows
      /\ \A id \in DOMAIN f[t].rows : \A d \in f[t].cols : w.rows[id][d] = f[t].rows[id][d]
  BY <1>1, WidenedTable
<1> HIDE DEF w
<1>3. CASE t = "sessions"
  <2>1. /\ g.sessions = w /\ g.answers = f.answers /\ g.new = f.new /\ g.stamp = f.stamp
        /\ g = [sessions |-> w, answers |-> f.answers, new |-> f.new, stamp |-> f.stamp]
    BY <1>1, <1>3, FileFields DEF Widened, w
  <2> HIDE DEF g
  <2>2. FileOk(g)
    BY <1>1, <1>2, <1>3, <2>1 DEF FileOk
  <2>3. installed => RowsKept(g)
    BY <1>2, <1>3, <2>1 DEF Sound, RowsKept, OldRowsIn
  <2>4. Sound(g) /\ Grown(f, g)
    BY <1>2, <1>3, <2>1, <2>2, <2>3 DEF Sound, Grown
  <2>5. g[t].cols = f[t].cols \cup {c} /\ \A u \in Tables \ {t} : g[u] = f[u]
    BY <1>2, <1>3, <2>1 DEF Tables
  <2> QED
    BY <2>1, <2>4, <2>5 DEF g
<1>4. CASE t = "answers"
  <2>1. /\ g.sessions = f.sessions /\ g.answers = w /\ g.new = f.new /\ g.stamp = f.stamp
        /\ g = [sessions |-> f.sessions, answers |-> w, new |-> f.new, stamp |-> f.stamp]
    BY <1>1, <1>4, FileFields DEF Widened, w
  <2> HIDE DEF g
  <2>2. FileOk(g)
    BY <1>1, <1>2, <1>4, <2>1 DEF FileOk
  <2>3. installed => RowsKept(g)
    BY <1>2, <1>4, <2>1 DEF Sound, RowsKept, OldRowsIn
  <2>4. Sound(g) /\ Grown(f, g)
    BY <1>2, <1>4, <2>1, <2>2, <2>3 DEF Sound, Grown
  <2>5. g[t].cols = f[t].cols \cup {c} /\ \A u \in Tables \ {t} : g[u] = f[u]
    BY <1>2, <1>4, <2>1 DEF Tables
  <2> QED
    BY <2>1, <2>4, <2>5 DEF g
<1> QED
  BY <1>3, <1>4 DEF Tables

LEMMA AddsColumn ==
    ASSUME DbInvariant, NEW p \in Processes, NEW c, AddColumn(p, c)
    PROVE  DbInvariant'
<1> DEFINE t == proc[p].table
           v == proc[p].version
           todo == proc[p].todo
           seen == Sees(p)
           g == Widened(seen, t, c)
           s == [step |-> "add", version |-> v, table |-> t, todo |-> todo \ {c}]
<1>1. proc[p].step = "add" /\ c \in todo /\ c \notin seen[t].cols /\ Define(p, g) /\ Keeps
      /\ Goto(p, [proc[p] EXCEPT !.todo = @ \ {c}])
  BY DEF AddColumn, NextToAdd, IsNext, Widened
<1>2. /\ launches # 0 /\ proc[p] \in Places /\ Knows(proc[p], seen) /\ Sound(seen)
      /\ ShapeInv /\ RowsInv /\ ColumnsInv /\ AloneInv /\ CleanInv
      /\ ~raced /\ ~cut => seen.new = {} /\ todo \cap seen[t].cols = {}
  BY <1>1, AtWork
<1>3. /\ proc[p] = [step |-> "add", version |-> v, table |-> t, todo |-> todo]
      /\ \/ v = 1 /\ t = "answers" /\ todo \subseteq Added2
         \/ v = 2 /\ t = "sessions" /\ todo \subseteq Added3
  BY <1>1, <1>2, PlaceOf
<1>4. t \in Tables /\ "kept" \in seen[t].cols /\ \A u \in Tables : "kept" \in seen[u].cols
  BY <1>1, <1>2, <1>3 DEF Knows, Working, Tables
<1>5. c # "exam_code"
  BY <1>1, <1>3, ColumnNames
<1>6. Promised(seen, v) /\ (v = 1 => Added2 \subseteq seen.answers.cols \cup todo)
      /\ (v = 2 => Added3 \subseteq seen.sessions.cols \cup todo)
  BY <1>1, <1>2 DEF Knows, Working
<1> HIDE DEF t, v, todo, seen
<1>7. Moves(p, s)
  <2> DEFINE n == [proc[p] EXCEPT !.todo = @ \ {c}]
  <2>1. n.todo = todo \ {c} /\ n = s
    BY <1>3
  <2> QED
    BY <1>1, <2>1 DEF Goto, Moves
<1>8. s.step = "add" /\ s.version = v /\ s.table = t /\ s.todo = todo \ {c} /\ s \in Places
  BY <1>3 DEF Places, AtColumns
<1> HIDE DEF g, s
<1>9. /\ Sound(g) /\ Grown(seen, g) /\ g.new = seen.new
      /\ g[t].cols = seen[t].cols \cup {c} /\ \A u \in Tables \ {t} : g[u] = seen[u]
  BY <1>1, <1>2, <1>4, <1>5, WidenedFile DEF g
<1>10. Knows(s, g)
  <2>1. Promised(g, v)
    BY <1>6, <1>9 DEF Promised, Grown
  <2>2. \A u \in Tables : "kept" \in g[u].cols
    BY <1>4, <1>9
  <2>3. (v = 1 => Added2 \subseteq g.answers.cols \cup s.todo) /\ (v = 2 => Added3 \subseteq g.sessions.cols \cup s.todo)
    BY <1>3, <1>6, <1>8, <1>9
  <2> QED
    BY <1>8, <2>1, <2>2, <2>3 DEF Knows, Working
<1>11. ShapeInv' /\ RowsInv' /\ ColumnsInv' /\ Sees(p)' = g /\ db'.stamp = db.stamp
  BY <1>1, <1>2, <1>7, <1>8, <1>9, <1>10, DefineKeeps DEF g, seen, Working
<1>12. AloneInv'
  BY <1>1, <1>2, <1>7, <1>8, <1>11, LaunchStaysAlone DEF InLaunch, Runs, Keeps
<1>13. CleanInv'
  <2>1. ~raced /\ ~cut => g.new = {} /\ s.todo \cap g[s.table].cols = {}
    BY <1>2, <1>8, <1>9 DEF seen, t, todo
  <2> QED
    BY <1>1, <1>2, <1>7, <1>8, <1>11, <2>1, RunsCleanly DEF Runs, Keeps
<1> QED
  BY <1>11, <1>12, <1>13 DEF DbInvariant

LEMMA Adds ==
    ASSUME DbInvariant, NEW p \in Processes, Added(p)
    PROVE  DbInvariant'
<1> DEFINE t == proc[p].table
           v == proc[p].version
           seen == Sees(p)
           s == [step |-> "stamp", version |-> v, table |-> t, todo |-> {}]
<1>1. proc[p].step = "add" /\ proc[p].todo = {} /\ Keeps /\ Goto(p, [proc[p] EXCEPT !.step = "stamp"])
      /\ IF v = 2 THEN Change(p, seen) ELSE UNCHANGED <<db, txn>>
  BY DEF Added
<1>2. /\ proc[p] \in Places /\ Knows(proc[p], seen) /\ Sound(seen)
      /\ ~raced /\ ~cut => seen.new = {}
  BY <1>1, AtWork
<1>3. proc[p] = [step |-> "add", version |-> v, table |-> t, todo |-> {}]
      /\ ((v = 1 /\ t = "answers") \/ (v = 2 /\ t = "sessions"))
  <2>1. /\ proc[p] = [step |-> proc[p].step, version |-> v, table |-> t, todo |-> proc[p].todo]
        /\ ((v = 1 /\ t = "answers") \/ (v = 2 /\ t = "sessions"))
    BY <1>1, <1>2, PlaceOf
  <2> QED
    BY <1>1, <2>1
<1>4. /\ Promised(seen, v) /\ \A u \in Tables : "kept" \in seen[u].cols
      /\ (v = 1 => Added2 \subseteq seen.answers.cols) /\ (v = 2 => Added3 \subseteq seen.sessions.cols)
  BY <1>1, <1>2 DEF Knows, Working
<1> HIDE DEF t, v, seen
<1>5. Moves(p, s)
  <2> DEFINE n == [proc[p] EXCEPT !.step = "stamp"]
  <2>1. n.step = "stamp" /\ n = s
    BY <1>3
  <2> QED
    BY <1>1, <2>1 DEF Goto, Moves
<1>6. s.step = "stamp" /\ s.version = v /\ s \in Places
  BY <1>3 DEF Places, AtColumns
<1> HIDE DEF s
<1>7. Promised(seen, v + 1)
  BY <1>3, <1>4 DEF Promised
<1>8. Knows(s, seen)
  BY <1>4, <1>6, <1>7 DEF Knows, Working
<1>9. InLaunch(proc[p]) /\ Working(s)
  BY <1>1, <1>6 DEF InLaunch, Working
<1>10. CASE v = 2
  BY <1>1, <1>2, <1>5, <1>6, <1>8, <1>9, <1>10, WritesOn
<1>11. CASE v # 2
  BY <1>1, <1>2, <1>5, <1>6, <1>8, <1>9, <1>11, ReadsOn DEF seen
<1> QED
  BY <1>10, <1>11

LEMMA Stamps ==
    ASSUME DbInvariant, NEW p \in Processes, Stamp(p)
    PROVE  DbInvariant'
<1> DEFINE v == proc[p].version + 1
           seen == Sees(p)
           g == [seen EXCEPT !.stamp = v]
           s == [step |-> IF v = 3 THEN "commit" ELSE "migrate", version |-> v]
<1>1. proc[p].step = "stamp" /\ Change(p, g) /\ Keeps /\ Moves(p, s)
  BY DEF Stamp, Goto, Moves
<1>2. /\ proc[p] \in Places /\ Knows(proc[p], seen) /\ Sound(seen)
      /\ ~raced /\ ~cut => seen.new = {}
  BY <1>1, AtWork
<1>3. v \in 1..3
  BY <1>1, <1>2, PlaceOf
<1>4. Promised(seen, v) /\ \A u \in Tables : "kept" \in seen[u].cols
  BY <1>1, <1>2 DEF Knows, Working
<1> HIDE DEF v, seen
<1>5. s \in Places /\ s.version = v /\ ((s.step = "commit" /\ v = 3) \/ (s.step = "migrate" /\ v # 3))
  <2>1. CASE v = 3
    BY <2>1 DEF Places, AtVersion
  <2>2. CASE v \in 0..2
    BY <2>2 DEF Places, AtVersion
  <2> QED
    BY <1>3, <2>1, <2>2
<1>6. /\ g.sessions = seen.sessions /\ g.answers = seen.answers /\ g.new = seen.new /\ g.stamp = v
      /\ g = [sessions |-> seen.sessions, answers |-> seen.answers, new |-> seen.new, stamp |-> v]
  BY <1>2, FileFields DEF Sound
<1> HIDE DEF g, s
<1>7. Sound(g)
  <2>1. FileOk(g)
    BY <1>2, <1>3, <1>6 DEF Sound, FileOk
  <2>2. installed => RowsKept(g)
    BY <1>2, <1>6 DEF Sound, RowsKept, OldRowsIn
  <2> QED
    BY <1>2, <1>6, <2>1, <2>2 DEF Sound
<1>8. Knows(s, g)
  BY <1>4, <1>5, <1>6 DEF Knows, Working, Promised, Tables
<1> QED
  BY <1>1, <1>2, <1>5, <1>6, <1>7, <1>8, WritesOn DEF InLaunch, Working

-----------------------------------------------------------------------------
(* The end of a launch.                                                    *)

LEMMA Commits ==
    ASSUME DbInvariant, NEW p \in Processes, Commit(p)
    PROVE  DbInvariant'
<1> DEFINE s == [step |-> "up"]
           seen == Sees(p)
<1>1. /\ proc[p].step = "commit" /\ Moves(p, s) /\ Keeps
      /\ IF Mine(p) THEN db' = txn.db /\ txn' = [by |-> "nobody"] ELSE UNCHANGED <<db, txn>>
  BY DEF Commit, Goto, Moves
<1>2. /\ launches \in Nat \ {0} /\ proc[p] \in Places /\ Knows(proc[p], seen) /\ Sound(seen)
      /\ ShapeInv /\ RowsInv /\ ColumnsInv /\ AloneInv /\ CleanInv /\ (~Mine(p) => seen = db)
      /\ ~raced /\ ~cut => seen.new = {}
  BY <1>1, AtWork
<1>3. seen.stamp = 3 /\ Promised(seen, 3) /\ "kept" \in seen.sessions.cols /\ "kept" \in seen.answers.cols
  BY <1>1, <1>2, PlaceOf DEF Knows, Working, Tables
<1>4. UNCHANGED <<backups, installed, saved, raced, cut, launches>>
  BY <1>1 DEF Keeps
<1>5. db' = seen /\ (txn' = [by |-> "nobody"] \/ (~Mine(p) /\ txn' = txn /\ db' = db))
  BY <1>1, <1>2 DEF Sees
<1>6. proc' = [q \in Processes |-> proc'[q]] /\ proc'[p] = s /\ \A q \in Processes \ {p} : proc'[q] = proc[q]
  BY <1>1, <1>2 DEF Moves, ShapeInv
<1>7. s.step = "up" /\ s \in Places
  BY DEF Places, AtEnd
<1> HIDE DEF s, seen
<1>8. ShapeInv'
  BY <1>2, <1>4, <1>5, <1>6, <1>7 DEF ShapeInv, Sound, Mine
<1>9. RowsInv'
  BY <1>2, <1>4, <1>5 DEF RowsInv, Sound
<1>10. ColumnsInv'
  <2>1. \A q \in Processes \ {p} : Sees(q)' = Sees(q) \/ Sees(q)' = seen
    BY <1>5, ProcessAssumption DEF Sees, Mine
  <2>2. \A q \in Processes \ {p} : proc[q] \in Places /\ Knows(proc[q], Sees(q))
    BY <1>2 DEF ShapeInv, ColumnsInv
  <2>3. \A q \in Processes \ {p} : Knows(proc[q], Sees(q)')
    BY <1>3, <2>1, <2>2, KnowsAll
  <2>4. Sees(p)' = seen
    BY <1>5, ProcessAssumption DEF Sees, Mine
  <2>5. Knows(s, seen)
    BY <1>3, <1>7, KnowsAll
  <2> QED
    BY <1>3, <1>5, <1>6, <2>3, <2>4, <2>5 DEF ColumnsInv
<1>11. ~raced => \A q \in Processes \ {p} : proc[q].step \in {"off", "failed", "up"}
  BY <1>1, <1>2 DEF AloneInv, Launching
<1>12. AloneInv'
  <2> SUFFICES ASSUME ~raced PROVE AloneInv'
    BY <1>4 DEF AloneInv
  <2>1. \A q \in Processes : proc'[q].step \in {"off", "failed", "up"}
    BY <1>6, <1>7, <1>11
  <2>2. txn'.by = "nobody"
    BY <1>2, <1>3, <1>5, <1>11, ProcessAssumption DEF ShapeInv, Mine, Working
  <2>3. \A id \in saved : db'.sessions.rows[id]["status"] = "active"
    <3>1. CASE Mine(p)
      BY <1>2, <3>1, ProcessAssumption DEF AloneInv, Mine
    <3>2. CASE ~Mine(p)
      BY <1>2, <1>5, <3>2 DEF AloneInv
    <3> QED
      BY <3>1, <3>2
  <2> QED
    BY <1>3, <1>4, <1>5, <2>1, <2>2, <2>3 DEF AloneInv, Launching
<1>13. CleanInv'
  <2> SUFFICES ASSUME ~raced, ~cut PROVE CleanInv'
    BY <1>4 DEF CleanInv
  <2>1. \A q \in Processes : proc'[q].step \in {"off", "up"}
    BY <1>2, <1>6, <1>7, <1>11 DEF CleanInv
  <2> QED
    BY <1>2, <1>5, <2>1 DEF CleanInv, Launching
<1> QED
  BY <1>8, <1>9, <1>10, <1>12, <1>13 DEF DbInvariant

\* A launch that fails does so for one that raced it or that was cut.
LEMMA Failing ==
    ASSUME DbInvariant, NEW p \in Processes, Launching(p), Fails(p), raced \/ cut
    PROVE  DbInvariant'
<1> DEFINE s == [step |-> "failed"]
<1>1. Moves(p, s) /\ Rollback(p) /\ cut' = (cut \/ Exposed(p))
      /\ UNCHANGED <<db, backups, installed, saved, raced, launches, kills>>
  BY DEF Fails, Goto, Moves
<1>2. launches # 0 /\ ShapeInv /\ RowsInv /\ ColumnsInv /\ AloneInv /\ CleanInv
  BY AtWork DEF Launching
<1>3. cut' \in BOOLEAN
  BY <1>1, <1>2 DEF ShapeInv, Exposed, Launching
<1>4. ShapeInv' /\ RowsInv' /\ ColumnsInv' /\ AloneInv'
  BY <1>1, <1>2, <1>3, EndKeeps
<1>5. CleanInv'
  BY <1>1 DEF CleanInv
<1> QED
  BY <1>4, <1>5 DEF DbInvariant

LEMMA FailsRightly ==
    ASSUME DbInvariant, NEW p \in Processes,
           \/ CreateFails(p) \/ NewExists(p) \/ Locked(p) \/ \E c : ColumnExists(p, c)
    PROVE  DbInvariant'
<1>1. CASE CreateFails(p)
  <2>1. proc[p].step = "create" /\ Fails(p) /\ \E t \in proc[p].missing : db[t] # NoTable
    BY <1>1 DEF CreateFails
  <2>2. raced \/ cut
    BY <2>1, AtWork
  <2> QED
    BY <2>1, <2>2, Failing DEF Launching
<1>2. CASE NewExists(p)
  <2>1. proc[p].step = "new" /\ Fails(p) /\ proc[p].table \in Sees(p).new
    BY <1>2 DEF NewExists
  <2>2. raced \/ cut
    BY <2>1, AtWork
  <2> QED
    BY <2>1, <2>2, Failing DEF Launching
<1>3. CASE Locked(p)
  <2>1. Launching(p) /\ Fails(p) /\ txn.by \notin {"nobody", p}
    BY <1>3 DEF Locked, Free
  <2>2. txn.by \in Processes /\ Launching(txn.by)
    BY <2>1 DEF DbInvariant, ShapeInv, Working, Launching
  <2>3. raced
    BY <2>1, <2>2 DEF DbInvariant, AloneInv
  <2> QED
    BY <2>1, <2>3, Failing
<1>4. ASSUME NEW c, ColumnExists(p, c) PROVE DbInvariant'
  <2>1. proc[p].step = "add" /\ Fails(p) /\ c \in proc[p].todo /\ c \in Sees(p)[proc[p].table].cols
    BY <1>4 DEF ColumnExists, NextToAdd, IsNext
  <2>2. raced \/ cut
    BY <2>1, AtWork
  <2> QED
    BY <2>1, <2>2, Failing DEF Launching
<1> QED
  BY <1>1, <1>2, <1>3, <1>4

LEMMA Kills ==
    ASSUME DbInvariant, NEW p \in Processes, Kill(p)
    PROVE  DbInvariant'
<1>1. proc[p].step # "off" /\ Moves(p, Off) /\ Rollback(p) /\ cut' = (cut \/ Exposed(p))
      /\ UNCHANGED <<db, backups, installed, saved, raced, launches>>
  BY DEF Kill, Goto, Moves
<1>2. ShapeInv /\ RowsInv /\ ColumnsInv /\ AloneInv /\ CleanInv
  BY DEF DbInvariant
<1>3. launches # 0
  BY <1>1, <1>2, Started
<1>4. cut' \in BOOLEAN
  BY <1>1, <1>2 DEF ShapeInv, Exposed, Launching
<1>5. ShapeInv' /\ RowsInv' /\ ColumnsInv' /\ AloneInv'
  BY <1>1, <1>2, <1>3, <1>4, EndKeeps
<1>6. CleanInv'
  <2> SUFFICES ASSUME ~raced, ~cut, ~Exposed(p) PROVE CleanInv'
    BY <1>1 DEF CleanInv
  <2>1. proc'[p].step = "off" /\ \A q \in Processes \ {p} : proc'[q] = proc[q]
    BY <1>1, <1>2 DEF Moves, ShapeInv, Off
  <2>2. \A q \in Processes \ {p} : Sees(q)' = Sees(q)
    BY <1>1, ProcessAssumption DEF Rollback, Sees, Mine
  <2>3. CASE Launching(p)
    <3>1. \A q \in Processes \ {p} : ~Launching(q) /\ proc[q].step \in {"off", "up"}
      BY <1>2, <2>3 DEF AloneInv, CleanInv, Launching
    <3>2. db.new = {}
      BY <2>3 DEF Exposed
    <3>3. \A q \in Processes : proc'[q].step \in {"off", "up"}
      BY <2>1, <3>1
    <3> QED
      BY <1>1, <3>2, <3>3 DEF CleanInv, Launching
  <2>4. CASE ~Launching(p)
    <3>1. \A q \in Processes : Launching(q)' <=> Launching(q)
      BY <2>1, <2>4 DEF Launching
    <3>2. ASSUME NEW q \in Processes
          PROVE
             /\ proc'[q].step # "failed"
             /\ Launching(q)' => Sees(q)'.new = IF proc'[q].step = "copy" THEN {proc'[q].table} ELSE {}
             /\ proc'[q].step = "create" => \A t \in proc'[q].missing : db'[t] = NoTable
             /\ proc'[q].step = "add" => proc'[q].todo \cap Sees(q)'[proc'[q].table].cols = {}
      <4>1. CASE q = p
        BY <2>1, <3>1, <2>4, <4>1
      <4>2. CASE q # p
        <5>1. proc'[q] = proc[q] /\ Sees(q)' = Sees(q) /\ db' = db
          BY <1>1, <2>1, <2>2, <4>2
        <5> QED
          BY <1>2, <3>1, <5>1 DEF CleanInv
      <4> QED
        BY <4>1, <4>2
    <3>3. (\A q \in Processes : ~Launching(q)') => db'.new = {}
      BY <1>1, <1>2, <3>1 DEF CleanInv
    <3> QED
      BY <3>2, <3>3 DEF CleanInv
  <2> QED
    BY <2>3, <2>4
<1> QED
  BY <1>5, <1>6 DEF DbInvariant

-----------------------------------------------------------------------------
(* The application, and what is there before it.                           *)

\* The row of an exam in progress: a new id, all the columns.
LEMMA Saves ==
    ASSUME DbInvariant, NEW p \in Processes, SaveExam(p)
    PROVE  DbInvariant'
<1> DEFINE rows == db.sessions.rows
           cols == db.sessions.cols
           id == Max(DOMAIN rows \cup {0}) + 1
           row == [c \in cols |-> CASE c = "kept" -> id [] c = "status" -> "active" [] OTHER -> "set"]
           more == [x \in DOMAIN rows \cup {id} |-> IF x # id THEN rows[x] ELSE row]
<1>1. /\ proc[p].step = "up" /\ txn.by = "nobody" /\ saved = {} /\ saved' = saved \cup {id}
      /\ db' = [db EXCEPT !.sessions.rows = more]
      /\ UNCHANGED <<txn, proc, backups, installed, raced, cut, launches, kills>>
  BY DEF SaveExam
<1>2. ShapeInv /\ RowsInv /\ ColumnsInv /\ AloneInv /\ CleanInv
  BY DEF DbInvariant
<1>3. FileOk(db) /\ TableOk(db.sessions) /\ IsFiniteSet(DOMAIN rows) /\ DOMAIN rows \subseteq Nat
  BY <1>2 DEF ShapeInv, FileOk
<1>4. id \in Nat /\ id \notin DOMAIN rows
  <2> DEFINE D == DOMAIN rows \cup {0}
  <2>1. D \in SUBSET Nat /\ IsFiniteSet(D) /\ D # {}
    BY <1>3, FS_AddElement
  <2> HIDE DEF D
  <2>2. Max(D) \in D /\ \A x \in D : x <= Max(D)
    BY <2>1, GreatestId
  <2>3. Max(D) \in Nat
    BY <2>1, <2>2
  <2>4. Max(D) + 1 \notin D
    BY <2>2, <2>3
  <2> QED
    BY <2>3, <2>4 DEF D
<1>5. db.stamp = 3 /\ \A q \in Processes : Sees(q) = db /\ Sees(q)' = db'
  BY <1>1, <1>2, ProcessAssumption DEF ColumnsInv, Knows, Sees, Mine
<1>6. "status" \in cols /\ "kept" \in cols
  <2>1. "status" \in cols
    BY <1>2, <1>5, ColumnNames DEF ColumnsInv, Promised
  <2> QED
    BY <1>3, <2>1, NoTableOk DEF TableOk
<1> HIDE DEF id
<1>7. /\ DOMAIN more = DOMAIN rows \cup {id} /\ (\A x \in DOMAIN rows : more[x] = rows[x])
      /\ more[id] = row /\ row = [c \in cols |-> row[c]] /\ row["kept"] = id /\ row["status"] = "active"
  <2>1. row["kept"] = id
    BY <1>6
  <2>2. "status" # "kept"
    OBVIOUS
  <2>3. row["status"] = "active"
    BY <1>6, <2>2
  <2> QED
    BY <1>4, <2>1, <2>3
<1> HIDE DEF row
<1> DEFINE table == [cols |-> cols, rows |-> more]
<1>8. TableOk(table) /\ table.cols = cols /\ table.rows = more
  <2>1. \A x \in DOMAIN more : more[x] = [c \in cols |-> more[x][c]] /\ more[x]["kept"] = x
    BY <1>3, <1>7 DEF TableOk
  <2>2. more = [x \in DOMAIN more |-> more[x]]
    BY <1>7
  <2> HIDE DEF more, cols
  <2> QED
    BY <1>6, <2>1, <2>2 DEF TableOk
<1> HIDE DEF more
<1>9. /\ db'.sessions = table /\ db'.answers = db.answers /\ db'.new = db.new /\ db'.stamp = db.stamp
      /\ db' = [sessions |-> table, answers |-> db.answers, new |-> db.new, stamp |-> db.stamp]
  <2>1. db.sessions = [cols |-> cols, rows |-> rows]
    BY <1>3 DEF TableOk
  <2>2. [db.sessions EXCEPT !.rows = more].rows = more /\ [db.sessions EXCEPT !.rows = more] = table
    BY <2>1
  <2>3. db' = [db EXCEPT !["sessions"] = table]
    BY <1>1, <1>3, <2>2 DEF FileOk
  <2> QED
    BY <1>3, <2>3, FileFields
<1> HIDE DEF table
<1>10. FileOk(db')
  <2>1. IsFiniteSet(DOMAIN table.rows) /\ DOMAIN table.rows \subseteq Nat
    BY <1>3, <1>4, <1>7, <1>8, FS_AddElement
  <2> QED
    BY <1>3, <1>8, <1>9, <2>1 DEF FileOk
<1>11. Grown(db, db')
  BY <1>8, <1>9 DEF Grown
<1>12. ShapeInv'
  BY <1>1, <1>2, <1>10, ProcessAssumption DEF ShapeInv
<1>13. RowsInv'
  BY <1>1, <1>2, <1>7, <1>8, <1>9 DEF RowsInv, RowsKept, OldRowsIn
<1>14. ColumnsInv'
  <2>1. \A q \in Processes : Knows(proc'[q], Sees(q)')
    BY <1>1, <1>2, <1>5, <1>11, KnowsMore DEF ColumnsInv
  <2>2. Promised(db', db'.stamp)
    BY <1>2, <1>8, <1>9 DEF ColumnsInv, Promised
  <2> QED
    BY <2>1, <2>2 DEF ColumnsInv
<1>15. AloneInv'
  <2>1. \A x \in saved' : db'.sessions.rows[x]["status"] = "active"
    BY <1>1, <1>7, <1>8, <1>9
  <2> QED
    BY <1>1, <1>2, <1>5, <1>9, <2>1 DEF AloneInv, Launching
<1>16. CleanInv'
  <2> SUFFICES ASSUME ~raced, ~cut PROVE CleanInv'
    BY <1>1 DEF CleanInv
  <2>1. \A q \in Processes : proc'[q] = proc[q] /\ (Launching(q)' <=> Launching(q))
    BY <1>1 DEF Launching
  <2>2. \A q \in Processes : proc[q].step \in {"off", "up", "commit"} \/ (proc[q].step = "create" /\ proc[q].missing = {})
    BY <1>2, <1>5 DEF AloneInv, CleanInv
  <2> QED
    BY <1>2, <1>5, <1>9, <2>1, <2>2 DEF CleanInv
<1> QED
  BY <1>12, <1>13, <1>14, <1>15, <1>16 DEF DbInvariant

LEMMA OldFile ==
    ASSUME NEW v \in Versions
    PROVE  /\ FileOk(FileOf(v)) /\ RowsKept(FileOf(v)) /\ Promised(FileOf(v), v)
           /\ FileOf(v).stamp = v /\ FileOf(v).new = {}
<1> DEFINE f == FileOf(v)
           cs == (IF v >= 1 THEN V1Sessions ELSE {}) \cup (IF v >= 3 THEN Added3 ELSE {})
           ca == (IF v >= 1 THEN V1Answers ELSE {}) \cup (IF v >= 2 THEN Added2 ELSE {})
<1>1. f = [sessions |-> Table(OldSessions, cs), answers |-> Table(OldAnswers, ca), new |-> {}, stamp |-> v]
  BY DEF FileOf, Added2, Added3
<1>2. "kept" \notin cs /\ "kept" \notin ca /\ ("exam_code" \in cs <=> v >= 1) /\ v \in 0..3
  BY ColumnNames DEF V1Sessions, V1Answers, Versions
<1>3. /\ v >= 1 => V1Sessions \subseteq cs /\ V1Answers \subseteq ca
      /\ v >= 2 => Added2 \subseteq ca
      /\ v >= 3 => Added3 \subseteq cs
  BY <1>2
<1> HIDE DEF cs, ca
<1>4. /\ TableOk(f.sessions) /\ f.sessions.cols = {"kept"} \cup cs /\ DOMAIN f.sessions.rows = OldSessions
      /\ "exam_code" \in cs => \A id \in OldSessions : f.sessions.rows[id]["exam_code"] = CodeOf(id)
  BY <1>1, <1>2, TableIsOk
<1>5. TableOk(f.answers) /\ f.answers.cols = {"kept"} \cup ca /\ DOMAIN f.answers.rows = OldAnswers
  BY <1>1, <1>2, TableIsOk
<1>6. f.new = {} /\ f.stamp = v
  BY <1>1
<1>7. f = [sessions |-> f.sessions, answers |-> f.answers, new |-> f.new, stamp |-> f.stamp]
  BY <1>1
<1> HIDE DEF f
<1>8. FileOk(f)
  BY <1>2, <1>4, <1>5, <1>6, <1>7, OldRowsAssumption DEF FileOk, Tables
<1>9. RowsKept(f)
  BY <1>4, <1>5 DEF RowsKept, OldRowsIn
<1>10. Promised(f, v)
  BY <1>3, <1>4, <1>5 DEF Promised
<1> QED
  BY <1>6, <1>8, <1>9, <1>10 DEF f

LEMMA NoFileOk == FileOk(NoFile) /\ NoFile.stamp = 0 /\ NoFile.new = {} /\ DOMAIN NoFile.sessions.rows = {}
<1>1. /\ NoFile.sessions = NoTable /\ NoFile.answers = NoTable /\ NoFile.new = {} /\ NoFile.stamp = 0
      /\ NoFile = [sessions |-> NoFile.sessions, answers |-> NoFile.answers, new |-> NoFile.new, stamp |-> NoFile.stamp]
  BY DEF NoFile
<1> QED
  BY <1>1, NoTableOk, FS_EmptySet DEF FileOk

LEMMA Installs ==
    ASSUME DbInvariant, NEW v \in Versions, Install(v)
    PROVE  DbInvariant'
<1>1. launches = 0 /\ db = NoFile /\ db' = FileOf(v) /\ installed' = TRUE
      /\ UNCHANGED <<txn, proc, backups, saved, raced, cut, launches, kills>>
  BY DEF Install
<1>2. ShapeInv /\ RowsInv /\ ColumnsInv /\ AloneInv /\ CleanInv
  BY DEF DbInvariant
<1>3. txn.by = "nobody" /\ backups = {} /\ \A p \in Processes : proc[p].step = "off"
  BY <1>1, <1>2 DEF ShapeInv, Off
<1>4. saved = {}
  BY <1>1, <1>2, NoFileOk DEF RowsInv
<1>5. /\ FileOk(db') /\ RowsKept(db') /\ Promised(db', db'.stamp) /\ db'.new = {}
  BY <1>1, OldFile
<1>6. ShapeInv'
  BY <1>1, <1>2, <1>3, <1>5, ProcessAssumption DEF ShapeInv
<1>7. RowsInv'
  BY <1>1, <1>2, <1>3, <1>4, <1>5 DEF RowsInv
<1>8. ColumnsInv'
  BY <1>1, <1>3, <1>5 DEF ColumnsInv, Knows, Working
<1>9. AloneInv'
  BY <1>1, <1>3, <1>4 DEF AloneInv, Launching
<1>10. CleanInv'
  BY <1>1, <1>3, <1>5 DEF CleanInv, Launching
<1> QED
  BY <1>6, <1>7, <1>8, <1>9, <1>10 DEF DbInvariant

-----------------------------------------------------------------------------
(* The theorems.                                                           *)

LEMMA DbInitially == DbInit => DbInvariant
<1> SUFFICES ASSUME DbInit PROVE DbInvariant
  OBVIOUS
<1>1. /\ db = NoFile /\ txn = [by |-> "nobody"] /\ proc = [p \in Processes |-> Off]
      /\ backups = {} /\ installed = FALSE /\ saved = {} /\ raced = FALSE /\ cut = FALSE /\ launches = 0
  BY DEF DbInit
<1>2. \A p \in Processes : proc[p] = Off /\ proc[p].step = "off"
  BY <1>1 DEF Off
<1>3. txn.by = "nobody" /\ \A p \in Processes : ~Mine(p)
  BY <1>1, ProcessAssumption DEF Mine
<1>4. Off \in Places
  BY DEF Off, Places, AtEnd
<1>5. ShapeInv
  BY <1>1, <1>2, <1>3, <1>4, NoFileOk, FS_EmptySet DEF ShapeInv, BackupsOk
<1>6. RowsInv
  BY <1>1 DEF RowsInv
<1>7. ColumnsInv
  BY <1>1, <1>2, NoFileOk DEF ColumnsInv, Knows, Working, Promised
<1>8. AloneInv
  BY <1>1, <1>2, NoFileOk DEF AloneInv, Launching
<1>9. CleanInv
  BY <1>1, <1>2, NoFileOk DEF CleanInv, Launching
<1> QED
  BY <1>5, <1>6, <1>7, <1>8, <1>9 DEF DbInvariant

LEMMA DbStepKeeps == ASSUME DbInvariant, [DbNext]_dbVars PROVE DbInvariant'
<1>1. CASE UNCHANGED dbVars
  <2>1. UNCHANGED <<db, txn, proc, backups, installed, saved, raced, cut, launches, kills>>
    BY <1>1 DEF dbVars
  <2>2. \A p \in Processes : Sees(p)' = Sees(p) /\ (Launching(p)' <=> Launching(p))
    BY <2>1 DEF Sees, Mine, Launching
  <2>3. ShapeInv' /\ RowsInv'
    BY <2>1 DEF DbInvariant, ShapeInv, RowsInv
  <2>4. ColumnsInv'
    BY <2>1, <2>2 DEF DbInvariant, ColumnsInv
  <2>5. AloneInv'
    BY <2>1, <2>2 DEF DbInvariant, AloneInv
  <2>6. CleanInv'
    BY <2>1, <2>2 DEF DbInvariant, CleanInv
  <2> QED
    BY <2>3, <2>4, <2>5, <2>6 DEF DbInvariant
<1>2. ASSUME NEW v \in Versions, Install(v) PROVE DbInvariant'
  BY <1>2, Installs
<1>3. ASSUME NEW p \in Processes, Launch(p) \/ CreateTable(p) \/ ReadVersion(p) PROVE DbInvariant'
  BY <1>3, Launches, Creates, ReadsVersion
<1>9. ASSUME NEW p \in Processes, BeginCopy(p) \/ EndCopy(p) \/ BackupFails(p) PROVE DbInvariant'
  BY <1>9, BeginsCopy, EndsCopy, BackupsFail
<1>4. ASSUME NEW p \in Processes, ReadColumns(p) \/ ReadAnswers(p) \/ CreateNew(p) \/ CopyAndSwap(p)
      PROVE  DbInvariant'
  BY <1>4, ReadsColumns, ReadsAnswers, CreatesNew, Copies
<1>5. ASSUME NEW p \in Processes, NEW c, AddColumn(p, c) PROVE DbInvariant'
  BY <1>5, AddsColumn
<1>6. ASSUME NEW p \in Processes, Added(p) \/ Stamp(p) \/ Commit(p) PROVE DbInvariant'
  BY <1>6, Adds, Stamps, Commits
<1>7. ASSUME NEW p \in Processes, CreateFails(p) \/ NewExists(p) \/ Locked(p) \/ \E c : ColumnExists(p, c)
      PROVE  DbInvariant'
  BY <1>7, FailsRightly
<1>8. ASSUME NEW p \in Processes, SaveExam(p) \/ Kill(p) PROVE DbInvariant'
  BY <1>8, Saves, Kills
<1> QED
  BY <1>1, <1>2, <1>3, <1>4, <1>5, <1>6, <1>7, <1>8, <1>9 DEF DbNext

LEMMA DbSafe == DbSpec => []DbInvariant
<1>1. DbInvariant /\ [DbNext]_dbVars => DbInvariant'
  BY DbStepKeeps
<1> QED
  BY DbInitially, <1>1, PTL DEF DbSpec

\* Whatever ends in between and whichever launches overlap, the file has the tables
\* its version promises and the rows an older version left; unless launches raced, each
\* backup whose copy ended has these rows, and what is saved since stays (run_migrations,
\* backup_database).
THEOREM UpgradesAreSound == DbSpec => []UpgradeSound
<1>1. DbInvariant => UpgradeSound
  <2> SUFFICES ASSUME DbInvariant PROVE UpgradeSound
    OBVIOUS
  <2>1. ShapeInv /\ RowsInv /\ ColumnsInv /\ AloneInv
    BY DEF DbInvariant
  <2>2. StampTrue(db)
    BY <2>1 DEF ColumnsInv, Promised, StampTrue, Added2, Added3
  <2>3. installed => OldRowsIn(db) /\ \A c \in backups : c.done => raced \/ OldRowsIn(c.file)
    BY <2>1 DEF RowsInv, RowsKept
  <2>4. \A id \in saved : id \in DOMAIN db.sessions.rows /\ (raced \/ db.sessions.rows[id]["status"] = "active")
    BY <2>1 DEF RowsInv, AloneInv
  <2> QED
    BY <2>2, <2>3, <2>4 DEF UpgradeSound
<1> QED
  BY DbSafe, <1>1, PTL

\* A launch that no other raced fails only after one ended in the middle of a
\* rebuild (init_db).
THEOREM LaunchesSucceed == DbSpec => []LaunchSucceeds
<1>1. DbInvariant => LaunchSucceeds
  BY DEF DbInvariant, CleanInv, LaunchSucceeds
<1> QED
  BY DbSafe, <1>1, PTL
=============================================================================
