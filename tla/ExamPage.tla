------------------------------ MODULE ExamPage ------------------------------
(***************************************************************************)
(* The desktop application's exam: MainWindow, ExamSessionPage, TimerBar   *)
(* and the engine functions they call, over the tables of ExamStore.       *)
(*                                                                         *)
(* Qt runs one handler at a time, so every handler is one action, with the *)
(* database calls it makes.  What is not atomic is a handler and the next: *)
(* the clock, the autosave timer, the user, a failing database and a       *)
(* killed process come in any order.  A relaunch is part of the action     *)
(* that ends the process, since nothing happens in between.                *)
(*                                                                         *)
(* One tick is the period of TimerBar's timer; the autosave timer fires    *)
(* every AutosaveEvery ticks and a tick never overtakes a due autosave.    *)
(***************************************************************************)
EXTENDS ExamStore

CONSTANTS
    Exams,          \* the terms of the exams on offer
    Ordered,        \* questions whose card shows an order, taken as an answer
    AutosaveEvery,  \* ticks between two autosaves
    MaxEdits,       \* bound: answers, toggles and moves in a behaviour
    MaxRestarts,    \* bound: closed or killed processes
    MaxFaults       \* bound: database calls that raise

ASSUME PageAssumption ==
    /\ Exams \subseteq Terms /\ None \notin Terms
    /\ Ordered \subseteq Questions
    /\ AutosaveEvery \in Nat \ {0}
    /\ MaxEdits \in Nat /\ MaxRestarts \in Nat /\ MaxFaults \in Nat

VARIABLES
    rows,       \* the tables
    sid,        \* session_id of the page's _session, None before the first
    session,    \* the page's _session
    screen,     \* "exam" (the exam page), "result", "nav" (any other page)
    active,     \* the page's _active
    timer,      \* its TimerBar
    autosave,   \* its autosave timer, with the ticks since it last fired
    terms,      \* history: what the bank of each started attempt demands
    seen,       \* history: the countdown last shown for each attempt
    saved,      \* history: did the last write of each attempt succeed
    edits, restarts, faults     \* counted against the bounds

page    == <<sid, session, screen, active, timer, autosave>>
history == <<terms, seen, saved>>
counts  == <<edits, restarts, faults>>
vars    == <<rows, page, history, counts>>

-----------------------------------------------------------------------------
(* TimerBar.  `ticking' stands for a running and not paused QTimer.        *)

Timer == [countdown : BOOLEAN, left : Nat, ticking : BOOLEAN, hooked : BOOLEAN]

\* MUTANT: the timer widget that replaces the old one is not connected.
TimerBarUnhooked(limit) ==
    [countdown |-> limit > 0, left |-> limit, ticking |-> FALSE, hooked |-> FALSE]

TimerBar(limit) ==
    [countdown |-> limit > 0, left |-> limit, ticking |-> FALSE, hooked |-> TRUE]

SetRemaining(t, seconds) ==
    IF seconds = None \/ ~t.countdown \/ seconds > t.left THEN t
    ELSE [t EXCEPT !.left = seconds]

RemainingSeconds(t) == IF t.countdown THEN t.left ELSE None

\* MUTANT: the callback is cleared and the timer runs on.
StoppedNot == [timer EXCEPT !.hooked = FALSE]

Stopped == [timer EXCEPT !.ticking = FALSE, !.hooked = FALSE]

AutosaveOff == [on |-> FALSE, since |-> 0]

-----------------------------------------------------------------------------
(* Database calls: each may raise, and the caller only logs a warning.     *)

Failed(ok) == IF ok THEN 0 ELSE 1

Charge(n) == faults + n <= MaxFaults /\ faults' = faults + n

\* save_active_session for the session s of attempt a, from tables rs.
Save(rs, a, s) ==
    \E ok \in BOOLEAN :
        /\ Charge(Failed(ok))
        /\ rows' = IF ok THEN UpsertActiveSession(rs, a, s) ELSE rs
        /\ saved' = [saved EXCEPT ![a] = ok]

\* The countdown goes into the session before it is written.
Clocked(s) == WithRemaining(s, RemainingSeconds(timer))

-----------------------------------------------------------------------------
Init ==
    /\ rows     = [a \in Attempts |-> NoRow]
    /\ sid      = None
    /\ session  = None
    /\ screen   = "nav"
    /\ active   = FALSE
    /\ timer    = TimerBar(0)
    /\ autosave = AutosaveOff
    /\ terms    = [a \in Attempts |-> None]
    /\ seen     = [a \in Attempts |-> None]
    /\ saved    = [a \in Attempts |-> FALSE]
    /\ edits = 0 /\ restarts = 0 /\ faults = 0

\* _render_current: an ordered question without an answer stores the order its
\* card happens to show.
Rendered(s, shown) ==
    IF s.index \in Ordered /\ s.answers[s.index].grade = "absent"
    THEN SubmitAnswer(s, s.index, shown)
    ELSE s

\* ExamSessionPage.start_session and MainWindow._enter_exam, with n failed
\* database calls before it.
StartSession(rs, a, s, n) ==
    \E shown \in Answers, ok \in BOOLEAN :
        LET t    == SetRemaining(TimerBar(s.limit), s.remaining)
            kept == WithRemaining(Rendered(s, shown), RemainingSeconds(t))
        IN  /\ sid' = a
            /\ session' = kept
            /\ screen' = "exam"
            /\ active' = TRUE
            /\ timer' = [t EXCEPT !.ticking = ~IsPaused(s)]
            /\ autosave' = [on |-> ~IsPaused(s), since |-> 0]
            /\ rows' = IF ok THEN UpsertActiveSession(rs, a, kept) ELSE rs
            /\ saved' = [saved EXCEPT ![a] = ok]
            /\ seen' = [seen EXCEPT ![a] = RemainingSeconds(t)]
            /\ Charge(n + Failed(ok))
            /\ UNCHANGED <<edits, restarts>>

Unused(a) == terms[a] = None

StartNew(rs, a, e, n) ==
    /\ Unused(a)
    /\ terms' = [terms EXCEPT ![a] = e]
    /\ StartSession(rs, a, Create("exam", e), n)

\* start_ccna_exam and _on_blueprint_exam when nothing is resumable, as far as
\* they can tell: a query that fails counts as nothing.
StartExam(a, e) ==
    /\ screen = "nav"
    /\ \E ok \in BOOLEAN :
          /\ ok => ResumableInfo(rows) = {}
          /\ StartNew(rows, a, e, Failed(ok))

\* The same, when the user chooses "Abandon & start new".
AbandonAndStart(a, e) ==
    /\ screen = "nav"
    /\ ResumableInfo(rows) # {}
    /\ \E ok \in BOOLEAN :
          StartNew(IF ok THEN AbandonActiveSessions(rows) ELSE rows, a, e, Failed(ok))

\* _on_retake does not ask: writing the new attempt abandons any other.  When
\* the blueprint or preset cannot be drawn again, the finished attempt's own
\* bank is used.
Retake(a, e) ==
    /\ screen = "result"
    /\ StartNew(rows, a, e, 0)

OwnTerms == IF session = None THEN {}
            ELSE {[limit |-> session.limit, pass |-> session.pass]}

\* resume_paused_exam, from the dashboard or from "Resume saved".
ResumePausedExam(a) ==
    /\ screen = "nav"
    /\ a \in ResumableInfo(rows)
    /\ LET s == Restore(rows[a].snap)
       IN  \/ /\ ~IsPaused(s)
              /\ StartSession(rows, a, s, 0)
           \/ /\ IsPaused(s)
              /\ \E ok \in BOOLEAN :
                    StartSession(IF ok THEN UpsertActiveSession(rows, a, Resume(s)) ELSE rows,
                                 a, Resume(s), Failed(ok))
    /\ UNCHANGED terms

-----------------------------------------------------------------------------
(* The exam page in use.                                                   *)

\* Every change the user makes ends in an autosave.
Edit(s) ==
    /\ screen = "exam"
    /\ edits < MaxEdits
    /\ edits' = edits + 1
    /\ session' = Clocked(s)
    /\ Save(rows, sid, Clocked(s))
    /\ UNCHANGED <<sid, screen, active, timer, autosave, terms, seen, restarts>>

StoreAnswer(a) == screen = "exam" /\ Edit(SubmitAnswer(session, session.index, a))
ToggleBookmarkButton == screen = "exam" /\ Edit(ToggleBookmark(session, session.index))
\* MUTANT: the handler forgets the autosave.
ToggleMarkUnsaved ==
    /\ screen = "exam"
    /\ edits < MaxEdits
    /\ edits' = edits + 1
    /\ session' = ToggleMarkForReview(session, session.index)
    /\ UNCHANGED <<rows, sid, screen, active, timer, autosave, history, restarts, faults>>

ToggleMarkButton == screen = "exam" /\ Edit(ToggleMarkForReview(session, session.index))

MoveTo(i) == \E shown \in Answers : Edit(Rendered(GotoIndex(session, i), shown))

Jump(i)    == screen = "exam" /\ MoveTo(i)
GoNext     == screen = "exam" /\ HasNext(session) /\ MoveTo(session.index + 1)
GoPrevious == screen = "exam" /\ HasPrevious(session) /\ MoveTo(session.index - 1)

\* The autosave timer.
Autosave ==
    /\ autosave.on /\ autosave.since = AutosaveEvery
    /\ autosave' = [autosave EXCEPT !.since = 0]
    /\ IF session = None \/ IsFinished(session)
       THEN UNCHANGED <<rows, session, saved, faults>>
       ELSE /\ session' = Clocked(session)
            /\ Save(rows, sid, Clocked(session))
    /\ UNCHANGED <<sid, screen, active, timer, terms, seen, edits, restarts>>

\* MUTANT: the session is paused with the countdown of its last autosave.
PauseWithoutClock ==
    /\ screen = "exam"
    /\ ~IsFinished(session)
    /\ session' = Pause(session, None) /\ Save(rows, sid, Pause(session, None))
    /\ active' = FALSE
    /\ timer' = Stopped
    /\ autosave' = AutosaveOff
    /\ screen' = "nav"
    /\ UNCHANGED <<sid, terms, seen, edits, restarts>>

\* _pause_and_exit and MainWindow._on_exam_paused.
PauseAndExit ==
    /\ screen = "exam"
    /\ ~IsFinished(session)
    /\ LET s == Pause(session, RemainingSeconds(timer))
       IN  session' = s /\ Save(rows, sid, s)
    /\ active' = FALSE
    /\ timer' = Stopped
    /\ autosave' = AutosaveOff
    /\ screen' = "nav"
    /\ UNCHANGED <<sid, terms, seen, edits, restarts>>

\* _finish_exam, engine.finish_and_score and MainWindow._on_exam_result.
FinishExam ==
    /\ ~IsFinished(session)
    /\ LET s == GradeAll(Finish(session))
       IN  /\ session' = s
           /\ \E ok \in BOOLEAN :
                 /\ Charge(Failed(ok))
                 /\ rows' = IF ok THEN FinalizeSession(rows, sid, s, ExamResult(s)) ELSE rows
                 /\ saved' = [saved EXCEPT ![sid] = ok]
    /\ active' = FALSE
    /\ autosave' = AutosaveOff
    /\ screen' = "result"
    /\ UNCHANGED <<sid, terms, edits, restarts>>

FinishButton ==
    /\ screen = "exam"
    /\ FinishExam
    /\ timer' = Stopped
    /\ UNCHANGED seen

-----------------------------------------------------------------------------
(* TimerBar._tick.                                                         *)

Counted == IF timer.countdown /\ timer.left > 0 THEN timer.left - 1 ELSE timer.left

CanTick == timer.ticking /\ (autosave.on => autosave.since < AutosaveEvery)

Expiring == timer.countdown /\ Counted = 0

\* A tick that leaves time on the clock, or has no clock to run down.
Tick ==
    /\ CanTick /\ ~Expiring
    /\ timer' = [timer EXCEPT !.left = Counted]
    /\ autosave' = IF autosave.on THEN [autosave EXCEPT !.since = @ + 1] ELSE autosave
    /\ seen' = [seen EXCEPT ![sid] = RemainingSeconds(timer')]
    /\ UNCHANGED <<rows, sid, session, screen, active, terms, saved, counts>>

\* The tick that reaches zero stops the timer and calls _on_timeout, if hooked:
\* that ignores a page with nothing to finish, cleans up a hidden one and
\* finishes a visible one.
TimeOut ==
    /\ CanTick /\ Expiring
    /\ seen' = [seen EXCEPT ![sid] = 0]
    /\ IF ~timer.hooked \/ ~active \/ IsFinished(session)
       THEN /\ timer' = [timer EXCEPT !.left = 0, !.ticking = FALSE]
            /\ UNCHANGED <<rows, sid, session, screen, active, autosave,
                           terms, saved, counts>>
       ELSE /\ timer' = [Stopped EXCEPT !.left = 0]
            /\ IF screen = "exam"
               THEN FinishExam
               ELSE /\ active' = FALSE
                    /\ autosave' = AutosaveOff
                    /\ UNCHANGED <<rows, sid, session, screen, terms, saved, counts>>

-----------------------------------------------------------------------------
(* Navigation and the end of the process.                                  *)

LeaveResult ==
    /\ screen = "result"
    /\ screen' = "nav"
    /\ UNCHANGED <<rows, sid, session, active, timer, autosave, history, counts>>

\* A process that has just been launched: nothing of the page survives.
Relaunched ==
    /\ restarts < MaxRestarts
    /\ restarts' = restarts + 1
    /\ sid' = None
    /\ session' = None
    /\ screen' = "nav"
    /\ active' = FALSE
    /\ timer' = TimerBar(0)
    /\ autosave' = AutosaveOff
    /\ UNCHANGED <<terms, seen, edits>>

IsExamActive ==
    /\ active
    /\ session # None
    /\ ~IsFinished(session) /\ ~IsPaused(session)

\* closeEvent flushes an exam in progress.
CloseWindow ==
    /\ IF IsExamActive THEN Save(rows, sid, Clocked(session))
       ELSE UNCHANGED <<rows, saved, faults>>
    /\ Relaunched

Kill ==
    /\ Relaunched
    /\ UNCHANGED <<rows, saved, faults>>

-----------------------------------------------------------------------------
UserAction ==
    \/ \E a \in Attempts, e \in Exams : StartExam(a, e) \/ AbandonAndStart(a, e)
    \/ \E a \in Attempts, e \in Exams \cup OwnTerms : Retake(a, e)
    \/ \E a \in Attempts : ResumePausedExam(a)
    \/ \E a \in Answers : StoreAnswer(a)
    \/ \E i \in Questions : Jump(i)
    \/ ToggleBookmarkButton \/ ToggleMarkButton
    \/ GoNext \/ GoPrevious
    \/ PauseAndExit \/ FinishButton \/ LeaveResult

ClockAction == Tick \/ TimeOut \/ Autosave

Next == UserAction \/ ClockAction \/ CloseWindow \/ Kill

Spec == Init /\ [][Next]_vars

\* Qt's event loop fires a timer that is due; nothing obliges the user.
FairSpec == Spec /\ WF_vars(ClockAction)

-----------------------------------------------------------------------------
(* Properties.                                                             *)

TypeOK ==
    /\ rows \in [Attempts -> Row]
    /\ sid \in Attempts \cup {None}
    /\ session \in Session \cup {None}
    /\ screen \in {"nav", "exam", "result"}
    /\ active \in BOOLEAN
    /\ timer \in Timer
    /\ autosave \in [on : BOOLEAN, since : 0..AutosaveEvery]
    /\ terms \in [Attempts -> Terms \cup {None}]
    /\ seen \in [Attempts -> Nat \cup {None}]
    /\ saved \in [Attempts -> BOOLEAN]
    /\ edits \in Nat /\ restarts \in Nat /\ faults \in Nat

\* session_store promises one resumable attempt: however attempts are started,
\* replaced, paused, retaken or lost to a failed write, no two rows are active.
OneActive == AtMostOneActive(rows)

\* Whenever the last write of the attempt on the screen succeeded, the database
\* holds exactly the attempt in memory: no handler of the exam page leaves a
\* change that a crash would lose.
NothingUnsaved ==
    screen = "exam" /\ saved[sid] =>
        /\ rows[sid].status = session.status
        /\ rows[sid].snap = Snapshot(session)

\* A crash gives no more time back than the autosave interval, and Pause & Exit
\* none: the countdown a resume will restore is never below the one the user
\* last saw, and above it by at most AutosaveEvery ticks.
ClockHonest ==
    \A a \in ActiveAttempts(rows) :
        saved[a] /\ seen[a] # None =>
            \/ rows[a].snap.remaining = None
            \/ rows[a].snap.remaining - seen[a] \in
                  0..(IF rows[a].status = "paused" THEN 0 ELSE AutosaveEvery)

\* Score, review snapshot and per-question answer rows of a finished attempt
\* agree, and every recorded grade is the grade of the recorded answer.
ResultsConsistent == \A a \in Attempts : ResultConsistent(rows[a])

\* The clock runs only for a running attempt on the visible page: nothing can
\* time out behind another page, after Pause & Exit or after the finish.
ClockOnlyOnExam ==
    timer.ticking \/ autosave.on =>
        /\ screen = "exam" /\ active /\ timer.hooked
        /\ session.status = "in_progress" /\ ~session.finished

\* "Exam mode: never grade until finish": neither the page nor a snapshot it can
\* resume from holds a grade while the attempt is unfinished.
NoEarlyGrade ==
    /\ session # None /\ ~IsFinished(session) => NoGrades(session.answers)
    /\ \A a \in ActiveAttempts(rows) : NoGrades(rows[a].snap.answers)

\* What the page's fields say of each other and of the row of its attempt.
PageCoherent ==
    /\ sid = None <=> session = None
    /\ active <=> screen = "exam"
    /\ screen = "exam" =>
          /\ session # None
          /\ session.status = "in_progress" /\ ~session.finished
          /\ rows[sid].status \in Active \cup {"absent"}
          /\ terms[sid] # None
    /\ session # None /\ ~IsFinished(session) => Unfinished(session)

UnusedHaveNoRow == \A a \in Attempts : terms[a] = None => rows[a].status = "absent"

\* The inductive invariant that the invariants above are consequences of: it
\* couples the page's flags, its timers, its session and the tables.
PageInvariant ==
    /\ TypeOK
    /\ OneActive
    /\ RowsCoherent(rows)
    /\ PageCoherent
    /\ ClockOnlyOnExam
    /\ NothingUnsaved
    /\ UnusedHaveNoRow

\* An exam with a countdown comes to an end while it is on the screen, whatever
\* the user does or leaves undone.
TimedExamEnds == (screen = "exam" /\ timer.countdown) ~> (screen # "exam")

\* The tables implement the promise of AttemptLedger: one open attempt, final
\* results, nothing reopened.
PhaseOf(r) ==
    CASE r.status = "absent"    -> "new"
      [] r.status \in Active    -> "open"
      [] r.status = "finished"  -> "closed"
      [] r.status = "abandoned" -> "dropped"

Ledger == INSTANCE AttemptLedger WITH
    Results  <- Score,
    NoResult <- None,
    phase    <- [a \in Attempts |-> PhaseOf(rows[a])],
    result   <- [a \in Attempts |-> rows[a].score]

LedgerSpec == Ledger!Spec

\* bank_schema.py: a time limit of 0 means untimed.  An attempt started without
\* a limit never runs against a countdown.
UntimedStaysUntimed ==
    screen = "exam" /\ terms[sid].limit = 0 => ~timer.countdown

\* score_exam passes or fails "against the bank's pass_score".
PassedAgainstBankMark ==
    \A a \in Attempts :
        rows[a].status = "finished" =>
            (rows[a].score.passed <=> ReachesMark(rows[a].score.correct, terms[a].pass))
=============================================================================
