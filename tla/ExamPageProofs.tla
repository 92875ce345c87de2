--------------------------- MODULE ExamPageProofs ---------------------------
(***************************************************************************)
(* PageInvariant is an invariant of ExamPage, for every number of          *)
(* questions, attempts and exams and without the bounds of the model       *)
(* checking runs mattering; the page's safety properties follow from it.   *)
(* With what the session's countdown may lag behind the timer it bounds    *)
(* the time a crash gives back, and its steps are steps of AttemptLedger.  *)
(***************************************************************************)
EXTENDS ExamPage, ExamStoreLemmas

-----------------------------------------------------------------------------
(* Timers, rendering and database calls.                                   *)

(* The timer widget of a session is well typed and hooked, whatever countdown
   it is given, and shows a countdown or None. *)
LEMMA TimerBarType ==
    ASSUME NEW limit \in Nat
    PROVE  /\ TimerBar(limit) \in Timer /\ TimerBar(limit).hooked
           /\ ~TimerBar(limit).ticking
  BY DEF TimerBar, Timer

LEMMA TimerType ==
    ASSUME NEW r \in Nat \cup {None}, NEW t \in Timer
    PROVE  /\ SetRemaining(t, r) \in Timer
           /\ SetRemaining(t, r).hooked = t.hooked
           /\ RemainingSeconds(t) \in Nat \cup {None}
<1>1. SetRemaining(t, r) \in Timer /\ SetRemaining(t, r).hooked = t.hooked
  BY DEF SetRemaining, Timer
<1>2. RemainingSeconds(t) \in Nat \cup {None}
  BY DEF RemainingSeconds, Timer
<1> QED
  BY <1>1, <1>2

(* Showing a question may store the order its card shows: still the same
   unfinished attempt. *)
LEMMA RenderedType ==
    ASSUME NEW s \in Session, Unfinished(s), NEW shown \in Answers
    PROVE  /\ Rendered(s, shown) \in Session
           /\ Unfinished(Rendered(s, shown))
           /\ Rendered(s, shown).status = s.status
<1>1. s.index \in Questions
  BY DEF Session
<1> QED
  BY <1>1, SubmitType, EditUnfinished DEF Rendered

(* Putting the countdown into the session keeps it the unfinished attempt it was. *)
LEMMA ClockedType ==
    ASSUME NEW s \in Session, Unfinished(s), timer \in Timer
    PROVE  /\ Clocked(s) \in Session
           /\ Unfinished(Clocked(s))
           /\ Clocked(s).status = s.status
<1>1. RemainingSeconds(timer) \in Nat \cup {None}
  BY TimerType
<1> QED
  BY <1>1, RemainingType, ClockUnfinished DEF Clocked

\* What every transaction of the page keeps of the tables.
GoodTables(rs) ==
    /\ rs \in Tables
    /\ AtMostOneActive(rs)
    /\ RowsCoherent(rs)

\* What a write for attempt a of an unfinished session s leaves, if it
\* succeeds (ok) and if it does not.
Written(rs, a, s, ok, new) ==
    /\ GoodTables(new)
    /\ ok => new[a].status = s.status /\ new[a].snap = Snapshot(s)
    /\ ~ok => new = rs
    /\ \A x \in Attempts \ {a} : rs[x].status = "absent" => new[x].status = "absent"

(* A save that may fail keeps the tables good and touches no unused row. *)
LEMMA WriteKeepsTables ==
    ASSUME NEW rs, GoodTables(rs), NEW a \in Attempts,
           NEW s \in Session, Unfinished(s), NEW ok \in BOOLEAN,
           NEW new, new = IF ok THEN UpsertActiveSession(rs, a, s) ELSE rs
    PROVE  Written(rs, a, s, ok, new)
<1>1. CASE ~ok
  BY <1>1 DEF Written, GoodTables
<1>2. CASE ok
  <2>1. new = UpsertActiveSession(rs, a, s)
    BY <1>2
  <2>2. rs \in Tables /\ RowsCoherent(rs)
    BY DEF GoodTables
  <2>3. /\ new \in Tables
        /\ new[a].status = s.status /\ new[a].snap = Snapshot(s)
        /\ \A x \in Attempts \ {a} :
              new[x] = IF rs[x].status \in Active THEN AbandonRow(rs[x]) ELSE rs[x]
    BY <2>1, <2>2, UpsertRows
  <2>4. AtMostOneActive(new) /\ RowsCoherent(new)
    BY <2>1, <2>2, OneActivePreserved, UpsertCoherent
  <2>5. \A x \in Attempts \ {a} : rs[x].status = "absent" => new[x].status = "absent"
    BY <2>3 DEF Active
  <2> QED
    BY <1>2, <2>3, <2>4, <2>5 DEF Written, GoodTables
<1> QED
  BY <1>1, <1>2

(* The same for Save, with the outcome remembered. *)
LEMMA SaveKeepsTables ==
    ASSUME TypeOK, GoodTables(rows), NEW a \in Attempts,
           NEW s \in Session, Unfinished(s), Save(rows, a, s)
    PROVE  /\ Written(rows, a, s, saved'[a], rows')
           /\ saved' \in [Attempts -> BOOLEAN]
           /\ faults' \in Nat
<1>1. PICK ok \in BOOLEAN :
        /\ faults' = faults + Failed(ok)
        /\ rows' = IF ok THEN UpsertActiveSession(rows, a, s) ELSE rows
        /\ saved' = [saved EXCEPT ![a] = ok]
  BY DEF Save, Charge
<1>2. saved' \in [Attempts -> BOOLEAN] /\ saved'[a] = ok
  BY <1>1 DEF TypeOK
<1>3. faults' \in Nat
  BY <1>1 DEF TypeOK, Failed
<1>4. Written(rows, a, s, ok, rows')
  BY <1>1, WriteKeepsTables
<1> QED
  BY <1>2, <1>3, <1>4

-----------------------------------------------------------------------------
(* Starting a session.                                                     *)

(* The page, its timers and the tables after start_session, whichever button
   led to it: rs are the tables it finds, s the session it is given. *)
LEMMA StartSessionStep ==
    ASSUME TypeOK, NEW rs, GoodTables(rs), NEW a \in Attempts,
           rs[a].status \in Active \cup {"absent"},
           NEW s \in Session, Unfinished(s), s.status = "in_progress",
           NEW n \in Nat, StartSession(rs, a, s, n)
    PROVE  /\ sid' = a /\ session' \in Session /\ screen' = "exam" /\ active' = TRUE
           /\ timer' \in Timer /\ timer'.hooked
           /\ autosave' \in [on : BOOLEAN, since : 0..AutosaveEvery]
           /\ seen' \in [Attempts -> Nat \cup {None}]
           /\ saved' \in [Attempts -> BOOLEAN]
           /\ edits' = edits /\ restarts' = restarts /\ faults' \in Nat
           /\ Unfinished(session') /\ session'.status = "in_progress"
           /\ Written(rs, a, session', saved'[a], rows')
           /\ rows' \in {rs, UpsertActiveSession(rs, a, session')}
           /\ rows'[a].status \in Active \cup {"absent"}
<1>1. PICK shown \in Answers, ok \in BOOLEAN :
        LET t    == SetRemaining(TimerBar(s.limit), s.remaining)
            kept == WithRemaining(Rendered(s, shown), RemainingSeconds(t))
        IN  /\ sid' = a
            /\ session' = kept
            /\ screen' = "exam"
            /\ active' = TRUE
            /\ timer' = [t EXCEPT !.ticking = ~IsPaused(s)]
            /\ autosave' = [on |-> ~IsPaused(s), since |-> 0]
            /\ rows' = IF ok THEN UpsertActiveSession(rs, a, kept) ELSE rs
            /\ saved' = [saved EXCEPT ![a] = ok]
            /\ seen' = [seen EXCEPT ![a] = RemainingSeconds(t)]
            /\ faults' = faults + (n + Failed(ok))
            /\ UNCHANGED <<edits, restarts>>
  BY DEF StartSession, Charge
<1> DEFINE t    == SetRemaining(TimerBar(s.limit), s.remaining)
           kept == WithRemaining(Rendered(s, shown), RemainingSeconds(t))
<1>2. s.limit \in Nat /\ s.remaining \in Nat \cup {None}
  BY DEF Session
<1>3. t \in Timer /\ t.hooked
  <2>1. TimerBar(s.limit) \in Timer /\ TimerBar(s.limit).hooked
    BY <1>2, TimerBarType
  <2> QED
    BY <1>2, <2>1, TimerType
<1>4. RemainingSeconds(t) \in Nat \cup {None}
  BY <1>3, TimerType
<1>5. /\ Rendered(s, shown) \in Session /\ Unfinished(Rendered(s, shown))
      /\ Rendered(s, shown).status = s.status
  BY RenderedType
<1>6. kept \in Session /\ Unfinished(kept) /\ kept.status = "in_progress"
  BY <1>4, <1>5, RemainingType, ClockUnfinished
<1>7. /\ sid' = a /\ session' = kept /\ screen' = "exam" /\ active' = TRUE
      /\ timer' = [t EXCEPT !.ticking = ~IsPaused(s)]
      /\ autosave' = [on |-> ~IsPaused(s), since |-> 0]
      /\ rows' = IF ok THEN UpsertActiveSession(rs, a, kept) ELSE rs
      /\ saved' = [saved EXCEPT ![a] = ok]
      /\ seen' = [seen EXCEPT ![a] = RemainingSeconds(t)]
      /\ faults' = faults + (n + Failed(ok))
      /\ edits' = edits /\ restarts' = restarts
  BY <1>1
<1> HIDE DEF t, kept
<1>8. timer' \in Timer /\ timer'.hooked
  BY <1>3, <1>7 DEF Timer, IsPaused
<1>9. autosave' \in [on : BOOLEAN, since : 0..AutosaveEvery]
  BY <1>7, PageAssumption DEF IsPaused
<1>10. /\ saved' \in [Attempts -> BOOLEAN] /\ saved'[a] = ok
       /\ seen' \in [Attempts -> Nat \cup {None}]
  BY <1>4, <1>7 DEF TypeOK
<1>11. faults' \in Nat
  BY <1>7 DEF TypeOK, Failed
<1>12. Written(rs, a, kept, ok, rows')
  BY <1>6, <1>7, WriteKeepsTables
<1>13. rows'[a].status \in Active \cup {"absent"}
  BY <1>6, <1>12 DEF Written, Unfinished
<1> QED
  BY <1>6, <1>7, <1>8, <1>9, <1>10, <1>11, <1>12, <1>13

(* With that, every way to start keeps PageInvariant: terms' is the only thing
   left to say. *)
LEMMA StartKeepsInvariant ==
    ASSUME PageInvariant, NEW rs, GoodTables(rs), NEW a \in Attempts,
           rs[a].status \in Active \cup {"absent"},
           NEW s \in Session, Unfinished(s), s.status = "in_progress",
           NEW n \in Nat, StartSession(rs, a, s, n),
           \A x \in Attempts : rows[x].status = "absent" => rs[x].status = "absent",
           terms' \in [Attempts -> Terms \cup {None}],
           terms'[a] # None,
           \A x \in Attempts \ {a} : terms'[x] = terms[x]
    PROVE  PageInvariant'
<1>1. TypeOK /\ UnusedHaveNoRow
  BY DEF PageInvariant
<1>2. /\ sid' = a /\ session' \in Session /\ screen' = "exam" /\ active' = TRUE
      /\ timer' \in Timer /\ timer'.hooked
      /\ autosave' \in [on : BOOLEAN, since : 0..AutosaveEvery]
      /\ seen' \in [Attempts -> Nat \cup {None}]
      /\ saved' \in [Attempts -> BOOLEAN]
      /\ edits' = edits /\ restarts' = restarts /\ faults' \in Nat
      /\ Unfinished(session') /\ session'.status = "in_progress"
      /\ Written(rs, a, session', saved'[a], rows')
      /\ rows'[a].status \in Active \cup {"absent"}
  BY <1>1, StartSessionStep
<1>3. GoodTables(rows')
  BY <1>2 DEF Written
<1>4. TypeOK'
  BY <1>1, <1>2, <1>3 DEF TypeOK, GoodTables, Tables
<1>5. OneActive' /\ RowsCoherent(rows)'
  BY <1>3 DEF GoodTables, OneActive, RowsCoherent
<1>6. session' # None /\ sid' # None /\ ~session'.finished
  BY <1>2, StoreAssumption DEF Unfinished
<1>7. PageCoherent'
  BY <1>2, <1>6 DEF PageCoherent
<1>8. ClockOnlyOnExam'
  BY <1>2, <1>6 DEF ClockOnlyOnExam
<1>9. NothingUnsaved'
  BY <1>2 DEF NothingUnsaved, Written
<1>10. UnusedHaveNoRow'
  BY <1>1, <1>2 DEF UnusedHaveNoRow, Written
<1> QED
  BY <1>4, <1>5, <1>7, <1>8, <1>9, <1>10 DEF PageInvariant

(* A new attempt, of any terms, over tables where unused attempts have no row. *)
LEMMA StartNewStep ==
    ASSUME PageInvariant, NEW rs, GoodTables(rs),
           \A x \in Attempts : rows[x].status = "absent" => rs[x].status = "absent",
           NEW a \in Attempts, NEW e \in Terms, NEW n \in Nat, StartNew(rs, a, e, n)
    PROVE  PageInvariant'
<1>1. /\ terms[a] = None /\ terms' = [terms EXCEPT ![a] = e]
      /\ StartSession(rs, a, Create("exam", e), n)
  BY DEF StartNew, Unused
<1>2. TypeOK /\ UnusedHaveNoRow
  BY DEF PageInvariant
<1>3. rs[a].status = "absent"
  BY <1>1, <1>2 DEF UnusedHaveNoRow
<1>4. /\ Create("exam", e) \in Session /\ Create("exam", e).status = "in_progress"
      /\ Unfinished(Create("exam", e))
  BY CreateType, CreateUnfinished DEF Modes
<1>5. e # None
  BY PageAssumption
<1>6. /\ terms' \in [Attempts -> Terms \cup {None}] /\ terms'[a] # None
      /\ \A x \in Attempts \ {a} : terms'[x] = terms[x]
  BY <1>1, <1>2, <1>5 DEF TypeOK
<1> QED
  BY <1>1, <1>3, <1>4, <1>6, StartKeepsInvariant

(* Good tables stay good when every active row is abandoned. *)
LEMMA AbandonKeepsTables ==
    ASSUME NEW rs, GoodTables(rs)
    PROVE  /\ GoodTables(AbandonActiveSessions(rs))
           /\ \A x \in Attempts :
                 rs[x].status = "absent" => AbandonActiveSessions(rs)[x].status = "absent"
<1>1. rs \in Tables /\ RowsCoherent(rs)
  BY DEF GoodTables
<1>2. /\ AbandonActiveSessions(rs) \in Tables
      /\ \A x \in Attempts :
            AbandonActiveSessions(rs)[x] =
               IF rs[x].status \in Active THEN AbandonRow(rs[x]) ELSE rs[x]
  BY <1>1, AbandonRows
<1>3. RowsCoherent(AbandonActiveSessions(rs))
  BY <1>1, AbandonCoherent
<1>4. AtMostOneActive(AbandonActiveSessions(rs))
  <2>1. \A x \in Attempts : AbandonRow(rs[x]).status = "abandoned"
    BY <1>1 DEF AbandonRow, Row, Tables
  <2> QED
    BY <1>2, <2>1 DEF AtMostOneActive, ActiveAttempts, Active
<1>5. \A x \in Attempts :
         rs[x].status = "absent" => AbandonActiveSessions(rs)[x].status = "absent"
  BY <1>2 DEF Active
<1> QED
  BY <1>2, <1>3, <1>4, <1>5 DEF GoodTables

(* The tables between two handlers are good. *)
LEMMA InvariantTables ==
    ASSUME PageInvariant
    PROVE  GoodTables(rows)
  BY DEF PageInvariant, GoodTables, OneActive, TypeOK, Tables

LEMMA StartExamStep ==
    ASSUME PageInvariant, NEW a \in Attempts, NEW e \in Exams, StartExam(a, e)
    PROVE  PageInvariant'
<1>1. e \in Terms
  BY PageAssumption
<1>2. PICK ok \in BOOLEAN : StartNew(rows, a, e, Failed(ok))
  BY DEF StartExam
<1>3. Failed(ok) \in Nat
  BY DEF Failed
<1> QED
  BY <1>1, <1>2, <1>3, InvariantTables, StartNewStep

LEMMA AbandonAndStartStep ==
    ASSUME PageInvariant, NEW a \in Attempts, NEW e \in Exams, AbandonAndStart(a, e)
    PROVE  PageInvariant'
<1>1. e \in Terms
  BY PageAssumption
<1>2. PICK ok \in BOOLEAN :
        StartNew(IF ok THEN AbandonActiveSessions(rows) ELSE rows, a, e, Failed(ok))
  BY DEF AbandonAndStart
<1>3. GoodTables(rows)
  BY InvariantTables
<1>4. CASE ok
  <2>1. StartNew(AbandonActiveSessions(rows), a, e, 0)
    BY <1>2, <1>4 DEF Failed
  <2> QED
    BY <1>1, <1>3, <2>1, AbandonKeepsTables, StartNewStep
<1>5. CASE ~ok
  <2>1. StartNew(rows, a, e, 1)
    BY <1>2, <1>5 DEF Failed
  <2> QED
    BY <1>1, <1>3, <2>1, StartNewStep
<1> QED
  BY <1>4, <1>5

LEMMA RetakeStep ==
    ASSUME PageInvariant, NEW a \in Attempts, NEW e \in Exams \cup OwnTerms, Retake(a, e)
    PROVE  PageInvariant'
<1>1. session \in Session \cup {None}
  BY DEF PageInvariant, TypeOK
<1>2. e \in Terms
  <2>1. CASE e \in Exams
    BY <2>1, PageAssumption
  <2>2. CASE e \in OwnTerms
    BY <1>1, <2>2 DEF OwnTerms, Session, Terms
  <2> QED
    BY <2>1, <2>2
<1>3. StartNew(rows, a, e, 0)
  BY DEF Retake
<1> QED
  BY <1>2, <1>3, InvariantTables, StartNewStep

(* Resuming: the row of the resumed attempt is the active one, so its snapshot
   is that of an unfinished attempt. *)
LEMMA ResumeStep ==
    ASSUME PageInvariant, NEW a \in Attempts, ResumePausedExam(a)
    PROVE  PageInvariant'
<1> DEFINE s == Restore(rows[a].snap)
<1>1. TypeOK /\ UnusedHaveNoRow /\ GoodTables(rows)
  BY InvariantTables DEF PageInvariant
<1>2. rows[a].status \in Active /\ rows[a].snap # None /\ RowCoherent(rows[a])
  BY <1>1 DEF ResumePausedExam, ResumableInfo, ActiveAttempts, GoodTables, RowsCoherent
<1>3. rows[a].snap \in SnapshotRecord /\ Unfinished(rows[a].snap)
  BY <1>1, <1>2 DEF TypeOK, Row, RowCoherent
<1>4. s \in Session /\ Unfinished(s)
  BY <1>3, RestoreType, RestoreUnfinished
<1>5. /\ terms' \in [Attempts -> Terms \cup {None}] /\ terms'[a] # None
      /\ \A x \in Attempts \ {a} : terms'[x] = terms[x]
  <2>1. terms' = terms
    BY DEF ResumePausedExam
  <2>2. terms[a] # None
    BY <1>1, <1>2 DEF UnusedHaveNoRow, Active
  <2> QED
    BY <1>1, <2>1, <2>2 DEF TypeOK
<1>6. /\ Resume(s) \in Session /\ Unfinished(Resume(s)) /\ Resume(s).status = "in_progress"
  BY <1>4, StatusType, ClockUnfinished, AttemptAssumption
<1>7. CASE ~IsPaused(s) /\ StartSession(rows, a, s, 0)
  <2>1. s.status = "in_progress"
    BY <1>4, <1>7 DEF Unfinished, Active, IsPaused
  <2> QED
    BY <1>1, <1>2, <1>4, <1>5, <1>7, <2>1, StartKeepsInvariant
<1>8. CASE /\ IsPaused(s)
           /\ \E ok \in BOOLEAN :
                 StartSession(IF ok THEN UpsertActiveSession(rows, a, Resume(s)) ELSE rows,
                              a, Resume(s), Failed(ok))
  <2> DEFINE Saved(ok) == IF ok THEN UpsertActiveSession(rows, a, Resume(s)) ELSE rows
  <2>1. PICK ok \in BOOLEAN : StartSession(Saved(ok), a, Resume(s), Failed(ok))
    BY <1>8
  <2>2. Written(rows, a, Resume(s), ok, Saved(ok))
    BY <1>1, <1>6, WriteKeepsTables
  <2>3. Failed(ok) \in Nat
    BY DEF Failed
  <2> HIDE DEF Saved
  <2>4. Saved(ok)[a].status \in Active \cup {"absent"}
    BY <1>2, <1>6, <2>2 DEF Written, Active
  <2>5. \A x \in Attempts : rows[x].status = "absent" => Saved(ok)[x].status = "absent"
    BY <1>2, <2>2 DEF Written, Active
  <2>6. GoodTables(Saved(ok))
    BY <2>2 DEF Written
  <2> QED
    BY <1>5, <1>6, <2>1, <2>3, <2>4, <2>5, <2>6, StartKeepsInvariant
<1> QED
  BY <1>7, <1>8 DEF ResumePausedExam

-----------------------------------------------------------------------------
(* The page in use.                                                        *)

(* What PageInvariant says while the exam is on the screen. *)
LEMMA OnExam ==
    ASSUME PageInvariant, screen = "exam"
    PROVE  /\ sid \in Attempts /\ session \in Session /\ timer \in Timer
           /\ Unfinished(session) /\ session.status = "in_progress"
           /\ rows[sid].status \in Active \cup {"absent"}
           /\ session.index \in Questions
<1>1. TypeOK /\ PageCoherent
  BY DEF PageInvariant
<1>2. /\ session # None /\ sid # None
      /\ session.status = "in_progress" /\ ~session.finished
      /\ rows[sid].status \in Active \cup {"absent"}
  BY <1>1 DEF PageCoherent
<1>3. sid \in Attempts /\ session \in Session /\ timer \in Timer
  BY <1>1, <1>2 DEF TypeOK
<1>4. Unfinished(session)
  BY <1>1, <1>2 DEF PageCoherent, IsFinished
<1> QED
  BY <1>2, <1>3, <1>4 DEF Session

(* Conversely, a running clock or autosave timer is on the exam's screen. *)
LEMMA ClockOnExam ==
    ASSUME PageInvariant, timer.ticking \/ autosave.on
    PROVE  screen = "exam" /\ active /\ timer.hooked
  BY DEF PageInvariant, ClockOnlyOnExam

(* A save of the session on the screen, with the page's timers left as they
   are: the edits and the autosave timer. *)
LEMMA SaveOnExamStep ==
    ASSUME PageInvariant, screen = "exam",
           NEW s \in Session, Unfinished(s), s.status = "in_progress",
           session' = s, Save(rows, sid, s),
           autosave' \in [on : BOOLEAN, since : 0..AutosaveEvery],
           autosave'.on => autosave.on, edits' \in Nat,
           UNCHANGED <<sid, screen, active, timer, terms, seen, restarts>>
    PROVE  PageInvariant'
<1>1. TypeOK /\ PageCoherent /\ ClockOnlyOnExam /\ UnusedHaveNoRow /\ GoodTables(rows)
  BY InvariantTables DEF PageInvariant
<1>2. /\ sid \in Attempts /\ timer \in Timer
      /\ rows[sid].status \in Active \cup {"absent"}
  BY OnExam
<1>3. /\ Written(rows, sid, s, saved'[sid], rows')
      /\ saved' \in [Attempts -> BOOLEAN]
      /\ faults' \in Nat
  BY <1>1, <1>2, SaveKeepsTables
<1>4. TypeOK'
  BY <1>1, <1>3 DEF TypeOK, Written, GoodTables, Tables
<1>5. OneActive' /\ RowsCoherent(rows)'
  BY <1>3 DEF Written, GoodTables, OneActive, RowsCoherent
<1>6. rows'[sid].status \in Active \cup {"absent"}
  BY <1>2, <1>3 DEF Written, Unfinished
<1>7. s # None /\ ~s.finished
  BY StoreAssumption DEF Unfinished
<1>8. PageCoherent'
  BY <1>1, <1>2, <1>6, <1>7, StoreAssumption DEF PageCoherent
<1>9. ClockOnlyOnExam'
  <2>1. timer'.ticking \/ autosave'.on => active /\ timer.hooked
    BY <1>1 DEF ClockOnlyOnExam
  <2> QED
    BY <1>7, <2>1 DEF ClockOnlyOnExam
<1>10. NothingUnsaved'
  BY <1>3 DEF NothingUnsaved, Written
<1>11. UnusedHaveNoRow'
  <2>1. terms[sid] # None
    BY <1>1 DEF PageCoherent
  <2> QED
    BY <1>1, <1>3, <2>1 DEF UnusedHaveNoRow, Written
<1> QED
  BY <1>4, <1>5, <1>8, <1>9, <1>10, <1>11 DEF PageInvariant

(* An edit of the session on the screen. *)
LEMMA EditStep ==
    ASSUME PageInvariant, NEW s \in Session, Unfinished(s), s.status = "in_progress", Edit(s)
    PROVE  PageInvariant'
<1>1. /\ screen = "exam" /\ edits' = edits + 1
      /\ session' = Clocked(s) /\ Save(rows, sid, Clocked(s))
      /\ UNCHANGED <<sid, screen, active, timer, autosave, terms, seen, restarts>>
  BY DEF Edit
<1>2. TypeOK /\ timer \in Timer
  BY DEF PageInvariant, TypeOK
<1>3. /\ Clocked(s) \in Session /\ Unfinished(Clocked(s))
      /\ Clocked(s).status = "in_progress"
  BY <1>2, ClockedType
<1>4. edits' \in Nat /\ autosave' \in [on : BOOLEAN, since : 0..AutosaveEvery]
      /\ autosave' = autosave
  BY <1>1, <1>2 DEF TypeOK
<1> QED
  BY <1>1, <1>3, <1>4, SaveOnExamStep

(* Every change the user can make on the exam page edits the session to another
   unfinished one. *)
LEMMA EditsUnfinished ==
    ASSUME PageInvariant,
           \/ \E a \in Answers : StoreAnswer(a)
           \/ \E i \in Questions : Jump(i)
           \/ ToggleBookmarkButton \/ ToggleMarkButton
           \/ GoNext \/ GoPrevious
    PROVE  \E s \in Session : Unfinished(s) /\ s.status = "in_progress" /\ Edit(s)
<1> DEFINE Goal ==
          \E s \in Session : Unfinished(s) /\ s.status = "in_progress" /\ Edit(s)
<1>1. screen = "exam"
  BY DEF StoreAnswer, Jump, ToggleBookmarkButton, ToggleMarkButton, GoNext, GoPrevious
<1>2. /\ session \in Session /\ Unfinished(session) /\ session.status = "in_progress"
      /\ session.index \in Questions
  BY <1>1, OnExam
<1>3. ASSUME NEW a \in Answers, StoreAnswer(a)
      PROVE  Goal
  <2>1. /\ SubmitAnswer(session, session.index, a) \in Session
        /\ Unfinished(SubmitAnswer(session, session.index, a))
        /\ SubmitAnswer(session, session.index, a).status = "in_progress"
    BY <1>2, SubmitType, EditUnfinished
  <2> QED
    BY <1>3, <2>1 DEF StoreAnswer
<1>4. None \in Answers \cup {None}
  OBVIOUS
<1>5. CASE ToggleBookmarkButton
  <2>1. /\ ToggleBookmark(session, session.index) \in Session
        /\ Unfinished(ToggleBookmark(session, session.index))
        /\ ToggleBookmark(session, session.index).status = "in_progress"
    BY <1>2, <1>4, MarkType, EditUnfinished
  <2> QED
    BY <1>5, <2>1 DEF ToggleBookmarkButton
<1>6. CASE ToggleMarkButton
  <2>1. /\ ToggleMarkForReview(session, session.index) \in Session
        /\ Unfinished(ToggleMarkForReview(session, session.index))
        /\ ToggleMarkForReview(session, session.index).status = "in_progress"
    BY <1>2, <1>4, MarkType, EditUnfinished
  <2> QED
    BY <1>6, <2>1 DEF ToggleMarkButton
<1>7. ASSUME NEW i \in Questions, MoveTo(i)
      PROVE  Goal
  <2>1. PICK shown \in Answers : Edit(Rendered(GotoIndex(session, i), shown))
    BY <1>7 DEF MoveTo
  <2>2. /\ GotoIndex(session, i) \in Session
        /\ Unfinished(GotoIndex(session, i))
        /\ GotoIndex(session, i).status = "in_progress"
    BY <1>2, <1>4, MarkType, EditUnfinished
  <2>3. /\ Rendered(GotoIndex(session, i), shown) \in Session
        /\ Unfinished(Rendered(GotoIndex(session, i), shown))
        /\ Rendered(GotoIndex(session, i), shown).status = "in_progress"
    BY <2>2, RenderedType
  <2> QED
    BY <2>1, <2>3
<1>8. CASE GoNext
  <2>1. session.index + 1 \in Questions
    BY <1>2, <1>8, AttemptAssumption DEF GoNext, HasNext, Questions
  <2> QED
    BY <1>7, <1>8, <2>1 DEF GoNext
<1>9. CASE GoPrevious
  <2>1. session.index - 1 \in Questions
    BY <1>2, <1>9, AttemptAssumption DEF GoPrevious, HasPrevious, Questions
  <2> QED
    BY <1>7, <1>9, <2>1 DEF GoPrevious
<1>10. ASSUME NEW i \in Questions, Jump(i)
       PROVE  Goal
  BY <1>7, <1>10 DEF Jump
<1> QED
  BY <1>3, <1>5, <1>6, <1>8, <1>9, <1>10

LEMMA EditSteps ==
    ASSUME PageInvariant,
           \/ \E a \in Answers : StoreAnswer(a)
           \/ \E i \in Questions : Jump(i)
           \/ ToggleBookmarkButton \/ ToggleMarkButton
           \/ GoNext \/ GoPrevious
    PROVE  PageInvariant'
<1>1. PICK s \in Session : Unfinished(s) /\ s.status = "in_progress" /\ Edit(s)
  BY EditsUnfinished
<1> QED
  BY <1>1, EditStep

LEMMA AutosaveStep ==
    ASSUME PageInvariant, Autosave
    PROVE  PageInvariant'
<1>1. /\ autosave.on /\ autosave' = [autosave EXCEPT !.since = 0]
      /\ UNCHANGED <<sid, screen, active, timer, terms, seen, edits, restarts>>
  BY DEF Autosave
<1>2. screen = "exam"
  BY <1>1, ClockOnExam
<1>3. session \in Session /\ Unfinished(session) /\ session.status = "in_progress"
  BY <1>2, OnExam
<1>4. ~(session = None \/ IsFinished(session))
  BY <1>3, StoreAssumption DEF IsFinished, Unfinished
<1>5. session' = Clocked(session) /\ Save(rows, sid, Clocked(session))
  BY <1>4 DEF Autosave
<1>6. TypeOK /\ timer \in Timer
  BY DEF PageInvariant, TypeOK
<1>7. /\ Clocked(session) \in Session /\ Unfinished(Clocked(session))
      /\ Clocked(session).status = "in_progress"
  BY <1>3, <1>6, ClockedType
<1>8. /\ autosave' \in [on : BOOLEAN, since : 0..AutosaveEvery]
      /\ autosave'.on => autosave.on
      /\ edits' \in Nat
  BY <1>1, <1>6, PageAssumption DEF TypeOK
<1> QED
  BY <1>1, <1>2, <1>5, <1>7, <1>8, SaveOnExamStep

-----------------------------------------------------------------------------
(* Leaving the exam, and the clock.                                        *)

(* Every way off the exam's screen stops both timers. *)
LEMMA OffExamStep ==
    ASSUME PageInvariant,
           screen' \in {"nav", "result"}, active' = FALSE,
           timer' \in Timer, ~timer'.ticking, ~autosave'.on,
           autosave' \in [on : BOOLEAN, since : 0..AutosaveEvery],
           GoodTables(rows'),
           \A x \in Attempts : terms[x] = None => rows'[x].status = "absent",
           sid' \in Attempts \cup {None}, session' \in Session \cup {None},
           sid' = None <=> session' = None,
           session' # None /\ ~IsFinished(session') => Unfinished(session'),
           terms' = terms, seen' \in [Attempts -> Nat \cup {None}],
           saved' \in [Attempts -> BOOLEAN],
           edits' \in Nat, restarts' \in Nat, faults' \in Nat
    PROVE  PageInvariant'
<1>1. TypeOK
  BY DEF PageInvariant
<1>2. TypeOK'
  BY <1>1 DEF TypeOK, GoodTables, Tables
<1>3. OneActive' /\ RowsCoherent(rows)'
  BY DEF GoodTables, OneActive, RowsCoherent
<1>4. PageCoherent'
  BY DEF PageCoherent
<1>5. ClockOnlyOnExam' /\ NothingUnsaved' /\ UnusedHaveNoRow'
  BY DEF ClockOnlyOnExam, NothingUnsaved, UnusedHaveNoRow
<1> QED
  BY <1>2, <1>3, <1>4, <1>5 DEF PageInvariant

(* Both timers, stopped. *)
LEMMA StoppedType ==
    ASSUME timer \in Timer
    PROVE  Stopped \in Timer /\ ~Stopped.ticking
  BY DEF Stopped, Timer

LEMMA AutosaveOffType ==
    AutosaveOff \in [on : BOOLEAN, since : 0..AutosaveEvery] /\ ~AutosaveOff.on
  BY PageAssumption DEF AutosaveOff

LEMMA PauseStep ==
    ASSUME PageInvariant, PauseAndExit
    PROVE  PageInvariant'
<1> DEFINE s == Pause(session, RemainingSeconds(timer))
<1>1. TypeOK /\ PageCoherent /\ UnusedHaveNoRow /\ GoodTables(rows)
  BY InvariantTables DEF PageInvariant
<1>2. /\ screen = "exam" /\ screen' = "nav" /\ active' = FALSE /\ timer' = Stopped
      /\ autosave' = AutosaveOff
      /\ session' = s /\ Save(rows, sid, s)
      /\ UNCHANGED <<sid, terms, seen, edits, restarts>>
  BY DEF PauseAndExit
<1>3. sid \in Attempts /\ session \in Session /\ timer \in Timer /\ Unfinished(session)
  BY <1>2, OnExam
<1>4. s \in Session /\ Unfinished(s)
  BY <1>3, TimerType, StatusType, ClockUnfinished, AttemptAssumption
<1> HIDE DEF s
<1>5. /\ Written(rows, sid, s, saved'[sid], rows')
      /\ saved' \in [Attempts -> BOOLEAN]
      /\ faults' \in Nat
  BY <1>1, <1>2, <1>3, <1>4, SaveKeepsTables
<1>6. \A x \in Attempts : terms[x] = None => rows'[x].status = "absent"
  <2>1. terms[sid] # None
    BY <1>1, <1>2 DEF PageCoherent
  <2> QED
    BY <1>1, <1>5, <2>1 DEF UnusedHaveNoRow, Written
<1>7. s # None /\ sid # None
  BY <1>3, <1>4, StoreAssumption
<1>8. GoodTables(rows')
  BY <1>5 DEF Written
<1>9. /\ seen' \in [Attempts -> Nat \cup {None}] /\ edits' \in Nat /\ restarts' \in Nat
      /\ sid' \in Attempts \cup {None} /\ session' \in Session \cup {None}
      /\ sid' = None <=> session' = None
      /\ session' # None /\ ~IsFinished(session') => Unfinished(session')
  BY <1>1, <1>2, <1>3, <1>4, <1>7 DEF TypeOK
<1>10. timer' \in Timer /\ ~timer'.ticking
  BY <1>2, <1>3, StoppedType
<1> QED
  BY <1>2, <1>5, <1>6, <1>8, <1>9, <1>10, AutosaveOffType, OffExamStep

(* The finish, by the button or by the clock. *)
LEMMA FinishStep ==
    ASSUME PageInvariant, screen = "exam", FinishExam,
           timer' \in Timer, ~timer'.ticking, seen' \in [Attempts -> Nat \cup {None}]
    PROVE  PageInvariant'
<1> DEFINE s == GradeAll(Finish(session))
<1>1. TypeOK /\ PageCoherent /\ UnusedHaveNoRow /\ GoodTables(rows)
  BY InvariantTables DEF PageInvariant
<1>2. sid \in Attempts /\ session \in Session /\ Unfinished(session)
  BY OnExam
<1>3. s \in Session /\ s.status = "finished" /\ s.finished
  BY <1>2, FinishGrades
<1>4. /\ session' = s /\ screen' = "result" /\ active' = FALSE /\ autosave' = AutosaveOff
      /\ UNCHANGED <<sid, terms, edits, restarts>>
  BY DEF FinishExam
<1>5. PICK ok \in BOOLEAN :
        /\ faults' = faults + Failed(ok)
        /\ rows' = IF ok THEN FinalizeSession(rows, sid, s, ExamResult(s)) ELSE rows
        /\ saved' = [saved EXCEPT ![sid] = ok]
  BY DEF FinishExam, Charge
<1>6. GoodTables(FinalizeSession(rows, sid, s, ExamResult(s)))
  <2>1. rows \in Tables /\ AtMostOneActive(rows) /\ RowsCoherent(rows)
    BY <1>1 DEF GoodTables
  <2>2. FinalizeSession(rows, sid, s, ExamResult(s)) \in Tables
    BY <1>2, <1>3, <2>1, FinalizeRows
  <2>3. RowsCoherent(FinalizeSession(rows, sid, s, ExamResult(s)))
    BY <1>2, <2>1, FinalizeCoherent
  <2>4. AtMostOneActive(FinalizeSession(rows, sid, s, ExamResult(s)))
    BY <1>2, <1>3, <2>1, OneActivePreserved
  <2> QED
    BY <2>2, <2>3, <2>4 DEF GoodTables
<1>7. \A x \in Attempts : terms[x] = None => rows'[x].status = "absent"
  <2>1. terms[sid] # None
    BY <1>1 DEF PageCoherent
  <2>2. \A x \in Attempts \ {sid} :
           FinalizeSession(rows, sid, s, ExamResult(s))[x] = rows[x]
    BY <1>1, <1>2, <1>3, FinalizeRows DEF GoodTables
  <2> QED
    BY <1>1, <1>5, <2>1, <2>2 DEF UnusedHaveNoRow
<1> HIDE DEF s
<1>8. GoodTables(rows')
  BY <1>1, <1>5, <1>6
<1>9. s # None /\ sid # None
  BY <1>2, <1>3, StoreAssumption
<1>10. /\ edits' \in Nat /\ restarts' \in Nat /\ faults' \in Nat
       /\ saved' \in [Attempts -> BOOLEAN]
       /\ sid' \in Attempts \cup {None} /\ session' \in Session \cup {None}
       /\ sid' = None <=> session' = None
       /\ session' # None /\ ~IsFinished(session') => Unfinished(session')
  BY <1>1, <1>2, <1>3, <1>4, <1>5, <1>9 DEF TypeOK, Failed, IsFinished
<1> QED
  BY <1>4, <1>7, <1>8, <1>10, AutosaveOffType, OffExamStep

LEMMA FinishButtonStep ==
    ASSUME PageInvariant, FinishButton
    PROVE  PageInvariant'
<1>1. screen = "exam" /\ FinishExam /\ timer' = Stopped /\ seen' = seen
  BY DEF FinishButton
<1>2. timer' \in Timer /\ ~timer'.ticking
  BY <1>1, StoppedType DEF PageInvariant, TypeOK
<1>3. seen' \in [Attempts -> Nat \cup {None}]
  BY <1>1 DEF PageInvariant, TypeOK
<1> QED
  BY <1>1, <1>2, <1>3, FinishStep

LEMMA TickStep ==
    ASSUME PageInvariant, Tick
    PROVE  PageInvariant'
<1>1. TypeOK /\ PageCoherent /\ ClockOnlyOnExam
  BY DEF PageInvariant
<1>2. /\ timer.ticking
      /\ autosave.on => autosave.since < AutosaveEvery
      /\ timer' = [timer EXCEPT !.left = Counted]
      /\ autosave' = IF autosave.on THEN [autosave EXCEPT !.since = @ + 1] ELSE autosave
      /\ seen' = [seen EXCEPT ![sid] = RemainingSeconds(timer')]
      /\ UNCHANGED <<rows, sid, session, screen, active, terms, saved, edits, restarts, faults>>
  BY DEF Tick, CanTick, counts
<1>3. Counted \in Nat
  BY <1>1 DEF TypeOK, Timer, Counted
<1>4. timer' \in Timer /\ timer'.ticking = timer.ticking /\ timer'.hooked = timer.hooked
  BY <1>1, <1>2, <1>3 DEF TypeOK, Timer
<1>5. /\ autosave' \in [on : BOOLEAN, since : 0..AutosaveEvery]
      /\ autosave'.on = autosave.on
  BY <1>1, <1>2, PageAssumption DEF TypeOK
<1>6. seen' \in [Attempts -> Nat \cup {None}]
  <2>1. RemainingSeconds(timer') \in Nat \cup {None}
    BY <1>4, TimerType
  <2> QED
    BY <1>1, <1>2, <2>1 DEF TypeOK
<1>7. TypeOK'
  BY <1>1, <1>2, <1>4, <1>5, <1>6 DEF TypeOK
<1>8. PageCoherent' /\ ClockOnlyOnExam'
  BY <1>1, <1>2, <1>4, <1>5 DEF PageCoherent, ClockOnlyOnExam, IsFinished
<1>9. OneActive' /\ RowsCoherent(rows)' /\ NothingUnsaved' /\ UnusedHaveNoRow'
  BY <1>2 DEF PageInvariant, OneActive, NothingUnsaved, UnusedHaveNoRow
<1> QED
  BY <1>7, <1>8, <1>9 DEF PageInvariant

(* The tick that runs out finds a page with something to finish. *)
LEMMA TimeOutStep ==
    ASSUME PageInvariant, TimeOut
    PROVE  PageInvariant'
<1>1. timer.ticking
  BY DEF TimeOut, CanTick
<1>2. screen = "exam" /\ active /\ timer.hooked
  BY <1>1, ClockOnExam
<1>3. session \in Session /\ Unfinished(session) /\ timer \in Timer /\ sid \in Attempts
  BY <1>2, OnExam
<1>4. ~IsFinished(session)
  BY <1>3 DEF IsFinished, Unfinished, Active
<1>5. FinishExam /\ timer' = [Stopped EXCEPT !.left = 0] /\ seen' = [seen EXCEPT ![sid] = 0]
  BY <1>2, <1>4 DEF TimeOut
<1>6. timer' \in Timer /\ ~timer'.ticking
  BY <1>3, <1>5, StoppedType DEF Timer
<1>7. seen' \in [Attempts -> Nat \cup {None}]
  BY <1>3, <1>5 DEF PageInvariant, TypeOK
<1> QED
  BY <1>2, <1>5, <1>6, <1>7, FinishStep

LEMMA LeaveResultStep ==
    ASSUME PageInvariant, LeaveResult
    PROVE  PageInvariant'
<1>1. /\ screen = "result" /\ screen' = "nav"
      /\ UNCHANGED <<rows, sid, session, active, timer, autosave, terms, seen, saved,
                     edits, restarts, faults>>
  BY DEF LeaveResult, history, counts
<1>2. ~timer.ticking /\ ~autosave.on
  BY <1>1, ClockOnExam
<1>3. /\ GoodTables(rows)
      /\ TypeOK /\ PageCoherent /\ UnusedHaveNoRow
  BY InvariantTables DEF PageInvariant
<1>4. ~active
  BY <1>1, <1>3 DEF PageCoherent
<1> QED
  BY <1>1, <1>2, <1>3, <1>4, OffExamStep DEF TypeOK, PageCoherent, UnusedHaveNoRow, IsFinished

(* The end of a process, with the last flush of closeEvent or without. *)
LEMMA RelaunchedStep ==
    ASSUME PageInvariant, Relaunched,
           GoodTables(rows'),
           \A x \in Attempts : terms[x] = None => rows'[x].status = "absent",
           saved' \in [Attempts -> BOOLEAN], faults' \in Nat
    PROVE  PageInvariant'
<1>1. TypeOK
  BY DEF PageInvariant
<1>2. /\ restarts' = restarts + 1 /\ sid' = None /\ session' = None
      /\ screen' = "nav" /\ active' = FALSE
      /\ timer' = TimerBar(0) /\ autosave' = AutosaveOff
      /\ UNCHANGED <<terms, seen, edits>>
  BY DEF Relaunched
<1>3. timer' \in Timer /\ ~timer'.ticking
  BY <1>2, TimerBarType
<1>4. edits' \in Nat /\ restarts' \in Nat /\ seen' \in [Attempts -> Nat \cup {None}]
  BY <1>1, <1>2 DEF TypeOK
<1> QED
  BY <1>2, <1>3, <1>4, AutosaveOffType, OffExamStep

LEMMA CloseOrKillStep ==
    ASSUME PageInvariant, CloseWindow \/ Kill
    PROVE  PageInvariant'
<1>1. /\ GoodTables(rows)
      /\ TypeOK /\ PageCoherent /\ UnusedHaveNoRow
  BY InvariantTables DEF PageInvariant
<1>2. Relaunched
  BY DEF CloseWindow, Kill
<1>3. CASE UNCHANGED <<rows, saved, faults>>
  BY <1>1, <1>2, <1>3, RelaunchedStep DEF TypeOK, UnusedHaveNoRow
<1>4. CASE IsExamActive /\ Save(rows, sid, Clocked(session))
  <2>1. screen = "exam"
    BY <1>1, <1>4 DEF IsExamActive, PageCoherent
  <2>2. sid \in Attempts /\ session \in Session /\ Unfinished(session) /\ timer \in Timer
    BY <2>1, OnExam
  <2>3. Clocked(session) \in Session /\ Unfinished(Clocked(session))
    BY <2>2, ClockedType
  <2>4. /\ Written(rows, sid, Clocked(session), saved'[sid], rows')
        /\ saved' \in [Attempts -> BOOLEAN] /\ faults' \in Nat
    BY <1>1, <1>4, <2>2, <2>3, SaveKeepsTables
  <2>5. terms[sid] # None
    BY <1>1, <2>1 DEF PageCoherent
  <2>6. /\ GoodTables(rows')
        /\ \A x \in Attempts : terms[x] = None => rows'[x].status = "absent"
    BY <1>1, <2>4, <2>5 DEF Written, UnusedHaveNoRow
  <2> QED
    BY <1>2, <2>4, <2>6, RelaunchedStep
<1> QED
  BY <1>3, <1>4 DEF CloseWindow, Kill

-----------------------------------------------------------------------------
(* The theorems.                                                           *)

LEMMA InitInvariant == Init => PageInvariant
<1> SUFFICES ASSUME Init
             PROVE  PageInvariant
  OBVIOUS
<1>1. NoRow \in Row
  BY RowType
<1>2. TimerBar(0) \in Timer /\ ~TimerBar(0).ticking
  BY TimerBarType
<1>3. TypeOK
  BY <1>1, <1>2, AutosaveOffType DEF Init, TypeOK
<1>4. \A a \in Attempts : rows[a].status = "absent" /\ rows[a].score = None
  BY DEF Init, NoRow
<1>5. OneActive /\ RowsCoherent(rows)
  BY <1>4 DEF OneActive, AtMostOneActive, ActiveAttempts, Active, RowsCoherent, RowCoherent,
              ResultConsistent
<1>6. PageCoherent /\ ClockOnlyOnExam /\ NothingUnsaved /\ UnusedHaveNoRow
  BY <1>2, <1>4, AutosaveOffType DEF Init, PageCoherent, ClockOnlyOnExam, NothingUnsaved,
                                     UnusedHaveNoRow
<1> QED
  BY <1>3, <1>5, <1>6 DEF PageInvariant

LEMMA NextInvariant == PageInvariant /\ [Next]_vars => PageInvariant'
<1> SUFFICES ASSUME PageInvariant, [Next]_vars
             PROVE  PageInvariant'
  OBVIOUS
<1>1. CASE UserAction
  <2>1. ASSUME NEW a \in Attempts, NEW e \in Exams, StartExam(a, e) \/ AbandonAndStart(a, e)
        PROVE  PageInvariant'
    BY <2>1, StartExamStep, AbandonAndStartStep
  <2>2. ASSUME NEW a \in Attempts, NEW e \in Exams \cup OwnTerms, Retake(a, e)
        PROVE  PageInvariant'
    BY <2>2, RetakeStep
  <2>3. ASSUME NEW a \in Attempts, ResumePausedExam(a)
        PROVE  PageInvariant'
    BY <2>3, ResumeStep
  <2>4. CASE \/ \E a \in Answers : StoreAnswer(a)
             \/ \E i \in Questions : Jump(i)
             \/ ToggleBookmarkButton \/ ToggleMarkButton
             \/ GoNext \/ GoPrevious
    BY <2>4, EditSteps
  <2>5. CASE PauseAndExit
    BY <2>5, PauseStep
  <2>6. CASE FinishButton
    BY <2>6, FinishButtonStep
  <2>7. CASE LeaveResult
    BY <2>7, LeaveResultStep
  <2> QED
    BY <1>1, <2>1, <2>2, <2>3, <2>4, <2>5, <2>6, <2>7 DEF UserAction
<1>2. CASE ClockAction
  BY <1>2, TickStep, TimeOutStep, AutosaveStep DEF ClockAction
<1>3. CASE CloseWindow \/ Kill
  BY <1>3, CloseOrKillStep
<1>4. CASE UNCHANGED vars
  BY <1>4 DEF vars, page, history, counts, PageInvariant, TypeOK, OneActive, PageCoherent,
              ClockOnlyOnExam, NothingUnsaved, UnusedHaveNoRow, IsFinished
<1> QED
  BY <1>1, <1>2, <1>3, <1>4 DEF Next

(* The coupling of the page, its timers, its session and the tables holds in
   every behaviour of the desktop application. *)
THEOREM PageInvariantHolds == Spec => []PageInvariant
  BY InitInvariant, NextInvariant, PTL DEF Spec

(* Every variable keeps its type: every row is one the database can hold, and
   the page's session is a session. *)
THEOREM PageTypeOK == Spec => []TypeOK
<1>1. PageInvariant => TypeOK
  BY DEF PageInvariant
<1> QED
  BY <1>1, PageInvariantHolds, PTL

(* However attempts are started, replaced, retaken, resumed or lost to failed
   writes and crashes, at most one row is active. *)
THEOREM PageOneActive == Spec => []OneActive
<1>1. PageInvariant => OneActive
  BY DEF PageInvariant
<1> QED
  BY <1>1, PageInvariantHolds, PTL

(* While the exam is shown and the last write of it succeeded, the row is the
   attempt in memory: a crash loses no edit. *)
THEOREM PageNothingUnsaved == Spec => []NothingUnsaved
<1>1. PageInvariant => NothingUnsaved
  BY DEF PageInvariant
<1> QED
  BY <1>1, PageInvariantHolds, PTL

(* A finished attempt's score, graded snapshot and answer rows agree. *)
THEOREM PageResultsConsistent == Spec => []ResultsConsistent
<1>1. PageInvariant => ResultsConsistent
  BY DEF PageInvariant, RowsCoherent, RowCoherent, ResultsConsistent
<1> QED
  BY <1>1, PageInvariantHolds, PTL

(* No timer of the exam page runs but for the running attempt on the screen. *)
THEOREM PageClockOnlyOnExam == Spec => []ClockOnlyOnExam
<1>1. PageInvariant => ClockOnlyOnExam
  BY DEF PageInvariant
<1> QED
  BY <1>1, PageInvariantHolds, PTL

(* Neither the session nor a snapshot it can resume from holds a grade before
   the finish. *)
THEOREM PageNoEarlyGrade == Spec => []NoEarlyGrade
<1>1. ASSUME PageInvariant
      PROVE  NoEarlyGrade
  <2>1. session # None /\ ~IsFinished(session) => NoGrades(session.answers)
    BY <1>1 DEF PageInvariant, PageCoherent, Unfinished
  <2>2. \A a \in ActiveAttempts(rows) : NoGrades(rows[a].snap.answers)
    BY <1>1 DEF PageInvariant, RowsCoherent, RowCoherent, ActiveAttempts, Unfinished
  <2> QED
    BY <2>1, <2>2 DEF NoEarlyGrade
<1> QED
  BY <1>1, PageInvariantHolds, PTL

-----------------------------------------------------------------------------
(* The countdown.                                                          *)

\* ClockHonest, of one row: sn is the countdown last shown for its attempt, sv
\* whether its last write succeeded.
Honest(r, sn, sv) ==
    r.status \in Active /\ sv /\ sn # None =>
        \/ r.snap.remaining = None
        \/ r.snap.remaining - sn \in 0..(IF r.status = "paused" THEN 0 ELSE AutosaveEvery)

\* While the exam is on the screen the user sees the timer, and the session is
\* behind it by no more than the ticks since the last autosave.
OnTheClock ==
    screen = "exam" =>
        /\ autosave.on /\ seen[sid] = RemainingSeconds(timer)
        /\ timer.countdown =>
              /\ session.remaining \in Nat
              /\ session.remaining - timer.left \in 0..autosave.since

ClockInvariant == PageInvariant /\ ClockHonest /\ OnTheClock

\* No row but attempt a's is active after the transactions that was not so, as
\* it was, before.
Quiet(old, new, a) ==
    \A x \in Attempts \ {a} : new[x] = old[x] \/ new[x].status \notin Active

LEMMA QuietTransactions ==
    ASSUME NEW rs \in Tables, NEW a \in Attempts, NEW s \in Session
    PROVE  /\ Quiet(rs, UpsertActiveSession(rs, a, s), a)
           /\ Quiet(rs, AbandonActiveSessions(rs), a)
           /\ Quiet(rs, FinalizeSession(rs, a, s, ExamResult(s)), a)
<1>1. \A x \in Attempts : AbandonRow(rs[x]).status \notin Active
  BY DEF AbandonRow, Tables, Row, Active
<1>2. \A x \in Attempts \ {a} :
         UpsertActiveSession(rs, a, s)[x] =
            IF rs[x].status \in Active THEN AbandonRow(rs[x]) ELSE rs[x]
  BY UpsertRows
<1>3. \A x \in Attempts :
         AbandonActiveSessions(rs)[x] =
            IF rs[x].status \in Active THEN AbandonRow(rs[x]) ELSE rs[x]
  BY AbandonRows
<1>4. \A x \in Attempts \ {a} : FinalizeSession(rs, a, s, ExamResult(s))[x] = rs[x]
  BY FinalizeRows
<1> QED
  BY <1>1, <1>2, <1>3, <1>4 DEF Quiet

(* A step that is quiet but for attempt a keeps the clock honest if a's row is. *)
LEMMA HonestStep ==
    ASSUME ClockHonest, NEW a \in Attempts, Quiet(rows, rows', a),
           \A x \in Attempts \ {a} : seen'[x] = seen[x] /\ saved'[x] = saved[x],
           Honest(rows'[a], seen'[a], saved'[a])
    PROVE  ClockHonest'
<1>1. \A x \in Attempts : Honest(rows[x], seen[x], saved[x])
  BY DEF ClockHonest, Honest, ActiveAttempts
<1>2. ASSUME NEW x \in Attempts
      PROVE  Honest(rows'[x], seen'[x], saved'[x])
  <2>1. CASE x = a
    BY <2>1
  <2>2. CASE x # a /\ rows'[x] = rows[x]
    BY <1>1, <2>2
  <2>3. CASE x # a /\ rows'[x].status \notin Active
    BY <2>3 DEF Honest
  <2> QED
    BY <2>1, <2>2, <2>3 DEF Quiet
<1> QED
  BY <1>2 DEF ClockHonest, Honest, ActiveAttempts

(* The attempt on the screen has an honest row: what the row lacks of the
   session's countdown is the autosave's to write. *)
LEMMA OnScreenHonest ==
    ASSUME PageInvariant', OnTheClock', screen' = "exam"
    PROVE  Honest(rows'[sid'], seen'[sid'], saved'[sid'])
<1>1. /\ TypeOK' /\ session'.status = "in_progress"
      /\ saved'[sid'] => /\ rows'[sid'].status = session'.status
                         /\ rows'[sid'].snap = Snapshot(session')
  BY DEF PageInvariant, PageCoherent, NothingUnsaved
<1>2. /\ seen'[sid'] = RemainingSeconds(timer')
      /\ timer'.countdown => /\ session'.remaining \in Nat
                             /\ session'.remaining - timer'.left \in 0..autosave'.since
  BY DEF OnTheClock
<1>3. CASE saved'[sid'] /\ timer'.countdown
  <2>1. seen'[sid'] = timer'.left /\ timer'.left \in Nat
    BY <1>1, <1>2, <1>3 DEF RemainingSeconds, TypeOK, Timer
  <2>2. rows'[sid'].status = "in_progress" /\ rows'[sid'].snap.remaining = session'.remaining
    BY <1>1, <1>3 DEF Snapshot
  <2>3. autosave'.since \in 0..AutosaveEvery
    BY <1>1 DEF TypeOK
  <2>4. rows'[sid'].snap.remaining - seen'[sid'] \in 0..AutosaveEvery
    BY <1>2, <1>3, <2>1, <2>2, <2>3, PageAssumption
  <2> QED
    BY <2>2, <2>4 DEF Honest
<1>4. CASE ~saved'[sid']
  BY <1>4 DEF Honest
<1>5. CASE ~timer'.countdown
  BY <1>2, <1>5 DEF Honest, RemainingSeconds
<1> QED
  BY <1>3, <1>4, <1>5

(* A step that stays on the exam, or comes to it. *)
LEMMA StaysOnClock ==
    ASSUME ClockInvariant, PageInvariant', OnTheClock', screen' = "exam",
           sid' \in Attempts, Quiet(rows, rows', sid'),
           \A x \in Attempts \ {sid'} : seen'[x] = seen[x] /\ saved'[x] = saved[x]
    PROVE  ClockInvariant'
<1>1. Honest(rows'[sid'], seen'[sid'], saved'[sid'])
  BY OnScreenHonest
<1>2. ClockHonest
  BY DEF ClockInvariant
<1>3. ClockHonest'
  BY <1>1, <1>2, HonestStep
<1> QED
  BY <1>3 DEF ClockInvariant

(* start_session shows the timer it restores, after writing it. *)
LEMMA StartClock ==
    ASSUME ClockInvariant, PageInvariant', NEW rs, GoodTables(rs), NEW a \in Attempts,
           rs[a].status \in Active \cup {"absent"}, Quiet(rows, rs, a),
           NEW s \in Session, Unfinished(s), s.status = "in_progress",
           NEW n \in Nat, StartSession(rs, a, s, n)
    PROVE  ClockInvariant'
<1>1. TypeOK /\ TypeOK'
  BY DEF ClockInvariant, PageInvariant
<1>2. /\ sid' = a /\ screen' = "exam" /\ session' \in Session
      /\ rows' \in {rs, UpsertActiveSession(rs, a, session')}
  BY <1>1, StartSessionStep
<1>3. PICK shown \in Answers, ok \in BOOLEAN :
        LET t    == SetRemaining(TimerBar(s.limit), s.remaining)
            kept == WithRemaining(Rendered(s, shown), RemainingSeconds(t))
        IN  /\ session' = kept
            /\ timer' = [t EXCEPT !.ticking = ~IsPaused(s)]
            /\ autosave' = [on |-> ~IsPaused(s), since |-> 0]
            /\ saved' = [saved EXCEPT ![a] = ok]
            /\ seen' = [seen EXCEPT ![a] = RemainingSeconds(t)]
  BY DEF StartSession
<1> DEFINE t    == SetRemaining(TimerBar(s.limit), s.remaining)
<1>4. t \in Timer
  <2>1. s.limit \in Nat /\ s.remaining \in Nat \cup {None}
    BY DEF Session
  <2> QED
    BY <2>1, TimerBarType, TimerType
<1>5. Rendered(s, shown) \in Session
  BY RenderedType
<1> HIDE DEF t
<1>6. /\ session' = WithRemaining(Rendered(s, shown), RemainingSeconds(t))
      /\ timer' = [t EXCEPT !.ticking = ~IsPaused(s)]
      /\ autosave'.on /\ autosave'.since = 0
      /\ seen'[a] = RemainingSeconds(t)
      /\ \A x \in Attempts \ {a} : seen'[x] = seen[x] /\ saved'[x] = saved[x]
  BY <1>1, <1>3 DEF t, TypeOK, IsPaused
<1>7. OnTheClock'
  <2>1. timer'.countdown = t.countdown /\ timer'.left = t.left
    BY <1>4, <1>6 DEF Timer
  <2>2. RemainingSeconds(timer') = RemainingSeconds(t)
    BY <2>1 DEF RemainingSeconds
  <2>3. ASSUME timer'.countdown
        PROVE  session'.remaining = timer'.left /\ timer'.left \in Nat
    <3>1. RemainingSeconds(t) = t.left /\ t.left \in Nat /\ t.left # None
      BY <1>4, <2>1, <2>3, AttemptAssumption DEF Timer, RemainingSeconds
    <3> QED
      BY <1>5, <1>6, <2>1, <3>1 DEF WithRemaining, Session
  <2> QED
    BY <1>2, <1>6, <2>2, <2>3 DEF OnTheClock
<1>8. Quiet(rows, rows', a)
  <2>1. Quiet(rs, rows', a)
    BY <1>2, QuietTransactions DEF GoodTables, Quiet
  <2> QED
    BY <2>1 DEF Quiet
<1> QED
  BY <1>2, <1>6, <1>7, <1>8, StaysOnClock

LEMMA StartNewClock ==
    ASSUME ClockInvariant, PageInvariant', NEW rs, GoodTables(rs),
           \A x \in Attempts : rows[x].status = "absent" => rs[x].status = "absent",
           NEW a \in Attempts, Quiet(rows, rs, a),
           NEW e \in Terms, NEW n \in Nat, StartNew(rs, a, e, n)
    PROVE  ClockInvariant'
<1>1. terms[a] = None /\ StartSession(rs, a, Create("exam", e), n)
  BY DEF StartNew, Unused
<1>2. rs[a].status = "absent"
  BY <1>1 DEF ClockInvariant, PageInvariant, UnusedHaveNoRow
<1>3. /\ Create("exam", e) \in Session /\ Create("exam", e).status = "in_progress"
      /\ Unfinished(Create("exam", e))
  BY CreateType, CreateUnfinished DEF Modes
<1> QED
  BY <1>1, <1>2, <1>3, StartClock

LEMMA StartExamClock ==
    ASSUME ClockInvariant, PageInvariant', NEW a \in Attempts, NEW e \in Exams,
           StartExam(a, e) \/ AbandonAndStart(a, e)
    PROVE  ClockInvariant'
<1>1. e \in Terms /\ GoodTables(rows)
  BY PageAssumption, InvariantTables DEF ClockInvariant
<1>2. Quiet(rows, rows, a)
  BY DEF Quiet
<1>3. Quiet(rows, AbandonActiveSessions(rows), a)
  <2>1. Create("exam", e) \in Session
    BY <1>1, CreateType DEF Modes
  <2> QED
    BY <1>1, <2>1, QuietTransactions DEF GoodTables
<1>4. ASSUME NEW n \in Nat, StartNew(rows, a, e, n)
      PROVE  ClockInvariant'
  BY <1>1, <1>2, <1>4, StartNewClock
<1>5. ASSUME NEW n \in Nat, StartNew(AbandonActiveSessions(rows), a, e, n)
      PROVE  ClockInvariant'
  BY <1>1, <1>3, <1>5, AbandonKeepsTables, StartNewClock
<1>6. \A ok \in BOOLEAN : Failed(ok) \in Nat
  BY DEF Failed
<1>7. CASE StartExam(a, e)
  BY <1>4, <1>6, <1>7 DEF StartExam
<1>8. CASE AbandonAndStart(a, e)
  <2>1. PICK ok \in BOOLEAN :
          StartNew(IF ok THEN AbandonActiveSessions(rows) ELSE rows, a, e, Failed(ok))
    BY <1>8 DEF AbandonAndStart
  <2> QED
    BY <1>4, <1>5, <1>6, <2>1
<1> QED
  BY <1>7, <1>8

LEMMA RetakeClock ==
    ASSUME ClockInvariant, PageInvariant', NEW a \in Attempts,
           NEW e \in Exams \cup OwnTerms, Retake(a, e)
    PROVE  ClockInvariant'
<1>1. session \in Session \cup {None}
  BY DEF ClockInvariant, PageInvariant, TypeOK
<1>2. e \in Terms
  <2>1. CASE e \in Exams
    BY <2>1, PageAssumption
  <2>2. CASE e \in OwnTerms
    BY <1>1, <2>2 DEF OwnTerms, Session, Terms
  <2> QED
    BY <2>1, <2>2
<1>3. StartNew(rows, a, e, 0) /\ GoodTables(rows) /\ Quiet(rows, rows, a)
  BY InvariantTables DEF Retake, ClockInvariant, Quiet
<1> QED
  BY <1>2, <1>3, StartNewClock

LEMMA ResumeClock ==
    ASSUME ClockInvariant, PageInvariant', NEW a \in Attempts, ResumePausedExam(a)
    PROVE  ClockInvariant'
<1> DEFINE s == Restore(rows[a].snap)
<1>1. TypeOK /\ GoodTables(rows) /\ Quiet(rows, rows, a)
  BY InvariantTables DEF ClockInvariant, PageInvariant, Quiet
<1>2. rows[a].status \in Active /\ rows[a].snap # None /\ RowCoherent(rows[a])
  BY <1>1 DEF ResumePausedExam, ResumableInfo, ActiveAttempts, GoodTables, RowsCoherent
<1>3. rows[a].snap \in SnapshotRecord /\ Unfinished(rows[a].snap)
  BY <1>1, <1>2 DEF TypeOK, Row, RowCoherent
<1>4. s \in Session /\ Unfinished(s)
  BY <1>3, RestoreType, RestoreUnfinished
<1>5. Resume(s) \in Session /\ Unfinished(Resume(s)) /\ Resume(s).status = "in_progress"
  BY <1>4, StatusType, ClockUnfinished, AttemptAssumption
<1>6. CASE ~IsPaused(s) /\ StartSession(rows, a, s, 0)
  <2>1. s.status = "in_progress"
    BY <1>4, <1>6 DEF Unfinished, Active, IsPaused
  <2> QED
    BY <1>1, <1>2, <1>4, <1>6, <2>1, StartClock
<1>7. CASE /\ IsPaused(s)
           /\ \E ok \in BOOLEAN :
                 StartSession(IF ok THEN UpsertActiveSession(rows, a, Resume(s)) ELSE rows,
                              a, Resume(s), Failed(ok))
  <2> DEFINE Saved(ok) == IF ok THEN UpsertActiveSession(rows, a, Resume(s)) ELSE rows
  <2>1. PICK ok \in BOOLEAN : StartSession(Saved(ok), a, Resume(s), Failed(ok))
    BY <1>7
  <2>2. Written(rows, a, Resume(s), ok, Saved(ok))
    BY <1>1, <1>5, WriteKeepsTables
  <2>3. Quiet(rows, UpsertActiveSession(rows, a, Resume(s)), a)
    BY <1>1, <1>5, QuietTransactions DEF GoodTables
  <2>4. Quiet(rows, Saved(ok), a)
    BY <1>1, <2>3
  <2>5. Failed(ok) \in Nat
    BY DEF Failed
  <2> HIDE DEF Saved
  <2>6. Saved(ok)[a].status \in Active \cup {"absent"} /\ GoodTables(Saved(ok))
    BY <1>2, <1>5, <2>2 DEF Written, Active
  <2> QED
    BY <1>5, <2>1, <2>4, <2>5, <2>6, StartClock
<1> QED
  BY <1>6, <1>7 DEF ResumePausedExam

(* What a write of attempt sid leaves of the others. *)
LEMMA SaveQuiet ==
    ASSUME TypeOK, sid \in Attempts, NEW s \in Session, Save(rows, sid, s)
    PROVE  /\ Quiet(rows, rows', sid)
           /\ \A x \in Attempts \ {sid} : saved'[x] = saved[x]
<1>1. rows \in Tables
  BY DEF TypeOK, Tables
<1>2. Quiet(rows, UpsertActiveSession(rows, sid, s), sid)
  BY <1>1, QuietTransactions
<1>3. PICK ok \in BOOLEAN :
        /\ rows' = IF ok THEN UpsertActiveSession(rows, sid, s) ELSE rows
        /\ saved' = [saved EXCEPT ![sid] = ok]
  BY DEF Save
<1>4. Quiet(rows, rows', sid)
  <2>1. CASE ok
    BY <1>2, <1>3, <2>1
  <2>2. CASE ~ok
    BY <1>3, <2>2 DEF Quiet
  <2> QED
    BY <2>1, <2>2
<1> QED
  BY <1>3, <1>4 DEF TypeOK

(* The session has caught up with the timer once the countdown is in it. *)
LEMMA ClockedCatchesUp ==
    ASSUME timer \in Timer, timer.countdown, NEW s \in Session
    PROVE  /\ RemainingSeconds(timer) = timer.left /\ timer.left \in Nat /\ timer.left # None
           /\ Clocked(s).remaining = timer.left
           /\ Pause(s, RemainingSeconds(timer)).remaining = timer.left
<1>1. RemainingSeconds(timer) = timer.left /\ timer.left \in Nat /\ timer.left # None
  BY AttemptAssumption DEF RemainingSeconds, Timer
<1>2. WithRemaining(s, timer.left).remaining = timer.left
  BY <1>1 DEF WithRemaining, Session
<1>3. [WithRemaining(s, timer.left) EXCEPT !.status = "paused"].remaining = timer.left
  BY <1>1, <1>2 DEF WithRemaining, Session
<1> QED
  BY <1>1, <1>2, <1>3 DEF Clocked, Pause

(* An edit or an autosave: the clock is in the session it writes. *)
LEMMA SaveClock ==
    ASSUME ClockInvariant, PageInvariant', screen = "exam",
           NEW s \in Session, session' = Clocked(s), Clocked(s) \in Session,
           Save(rows, sid, Clocked(s)),
           autosave'.on = autosave.on, autosave'.since \in Nat,
           UNCHANGED <<sid, screen, timer, seen>>
    PROVE  ClockInvariant'
<1>1. TypeOK /\ PageInvariant /\ OnTheClock
  BY DEF ClockInvariant, PageInvariant
<1>2. sid \in Attempts /\ timer \in Timer
  BY <1>1, OnExam
<1>3. OnTheClock'
  <2>1. ASSUME timer.countdown
        PROVE  session'.remaining = timer.left /\ timer.left \in Nat
    BY <1>2, <2>1, ClockedCatchesUp
  <2> QED
    BY <1>1, <2>1 DEF OnTheClock, RemainingSeconds
<1>4. /\ Quiet(rows, rows', sid)
      /\ \A x \in Attempts \ {sid} : saved'[x] = saved[x]
  BY <1>1, <1>2, SaveQuiet
<1> QED
  BY <1>2, <1>3, <1>4, StaysOnClock

LEMMA EditClock ==
    ASSUME ClockInvariant, PageInvariant',
           \/ \E a \in Answers : StoreAnswer(a)
           \/ \E i \in Questions : Jump(i)
           \/ ToggleBookmarkButton \/ ToggleMarkButton
           \/ GoNext \/ GoPrevious
    PROVE  ClockInvariant'
<1>1. PageInvariant /\ TypeOK
  BY DEF ClockInvariant, PageInvariant
<1>2. PICK s \in Session : Unfinished(s) /\ s.status = "in_progress" /\ Edit(s)
  BY <1>1, EditsUnfinished
<1>3. /\ screen = "exam" /\ session' = Clocked(s) /\ Save(rows, sid, Clocked(s))
      /\ UNCHANGED <<sid, screen, timer, seen>> /\ autosave' = autosave
  BY <1>2 DEF Edit
<1>4. Clocked(s) \in Session /\ autosave.since \in Nat
  BY <1>1, <1>2, ClockedType, PageAssumption DEF TypeOK
<1> QED
  BY <1>3, <1>4, SaveClock

LEMMA AutosaveClock ==
    ASSUME ClockInvariant, PageInvariant', Autosave
    PROVE  ClockInvariant'
<1>1. PageInvariant /\ TypeOK
  BY DEF ClockInvariant, PageInvariant
<1>2. autosave.on /\ autosave' = [autosave EXCEPT !.since = 0]
      /\ UNCHANGED <<sid, screen, timer, seen>>
  BY DEF Autosave
<1>3. screen = "exam"
  BY <1>1, <1>2, ClockOnExam
<1>4. session \in Session /\ Unfinished(session)
  BY <1>1, <1>3, OnExam
<1>5. ~(session = None \/ IsFinished(session))
  BY <1>4, StoreAssumption DEF IsFinished, Unfinished, Active
<1>6. session' = Clocked(session) /\ Save(rows, sid, Clocked(session))
  BY <1>5 DEF Autosave
<1>7. Clocked(session) \in Session /\ autosave'.on = autosave.on /\ autosave'.since \in Nat
  BY <1>1, <1>2, <1>4, ClockedType DEF TypeOK
<1> QED
  BY <1>2, <1>3, <1>4, <1>6, <1>7, SaveClock

(* A tick takes one from the timer and from what the autosave has left. *)
LEMMA TickClock ==
    ASSUME ClockInvariant, PageInvariant', Tick
    PROVE  ClockInvariant'
<1>1. PageInvariant /\ TypeOK /\ OnTheClock
  BY DEF ClockInvariant, PageInvariant
<1>2. /\ timer.ticking /\ ~Expiring
      /\ timer' = [timer EXCEPT !.left = Counted]
      /\ autosave' = IF autosave.on THEN [autosave EXCEPT !.since = @ + 1] ELSE autosave
      /\ seen' = [seen EXCEPT ![sid] = RemainingSeconds(timer')]
      /\ UNCHANGED <<rows, sid, session, screen, saved>>
  BY DEF Tick, CanTick
<1>3. screen = "exam"
  BY <1>1, <1>2, ClockOnExam
<1>4. sid \in Attempts /\ timer \in Timer
  BY <1>1, <1>3, OnExam
<1>5. /\ autosave.on /\ autosave.since \in Nat
      /\ timer.countdown => /\ session.remaining \in Nat
                            /\ session.remaining - timer.left \in 0..autosave.since
  BY <1>1, <1>3, PageAssumption DEF OnTheClock, TypeOK
<1>6. autosave'.on /\ autosave'.since = autosave.since + 1
  BY <1>1, <1>2, <1>5 DEF TypeOK
<1>7. /\ seen'[sid] = RemainingSeconds(timer')
      /\ \A x \in Attempts \ {sid} : seen'[x] = seen[x]
  BY <1>1, <1>2, <1>4 DEF TypeOK
<1>8. ASSUME timer'.countdown
      PROVE  session.remaining \in Nat /\ session.remaining - timer'.left \in 0..autosave'.since
  <2>1. timer.countdown /\ timer'.left = Counted /\ timer.left \in Nat
    BY <1>2, <1>4, <1>8 DEF Timer
  <2>2. timer'.left \in {timer.left - 1, timer.left}
    BY <2>1 DEF Counted
  <2>3. session.remaining \in Nat /\ session.remaining - timer.left \in 0..autosave.since
    BY <1>5, <2>1
  <2> QED
    BY <1>5, <1>6, <2>1, <2>2, <2>3
<1>9. OnTheClock'
  BY <1>2, <1>6, <1>7, <1>8 DEF OnTheClock
<1>10. Quiet(rows, rows', sid) /\ sid' = sid
       /\ \A x \in Attempts \ {sid} : saved'[x] = saved[x]
  BY <1>2 DEF Quiet
<1> QED
  BY <1>2, <1>3, <1>4, <1>7, <1>9, <1>10, StaysOnClock

(* Off the screen, the row of the attempt that left it is all there is to say. *)
LEMMA LeavesClock ==
    ASSUME ClockInvariant, PageInvariant', screen' # "exam", NEW a \in Attempts,
           Quiet(rows, rows', a), Honest(rows'[a], seen'[a], saved'[a]),
           \A x \in Attempts \ {a} : seen'[x] = seen[x] /\ saved'[x] = saved[x]
    PROVE  ClockInvariant'
<1>1. ClockHonest /\ OnTheClock'
  BY DEF ClockInvariant, OnTheClock
<1> QED
  BY <1>1, HonestStep DEF ClockInvariant

(* The last write of a session that leaves the screen, with the countdown the
   user saw in it: by Pause & Exit or by closing the window. *)
LEMMA LastSaveClock ==
    ASSUME ClockInvariant, PageInvariant', screen = "exam", screen' # "exam", seen' = seen,
           NEW s \in Session, Unfinished(s), Save(rows, sid, s),
           timer.countdown => s.remaining = timer.left
    PROVE  ClockInvariant'
<1>1. PageInvariant /\ TypeOK /\ OnTheClock /\ GoodTables(rows)
  BY InvariantTables DEF ClockInvariant, PageInvariant
<1>2. sid \in Attempts /\ timer \in Timer
  BY <1>1, OnExam
<1>3. Written(rows, sid, s, saved'[sid], rows')
  BY <1>1, <1>2, SaveKeepsTables
<1>4. seen'[sid] = RemainingSeconds(timer)
  BY <1>1 DEF OnTheClock
<1>5. Honest(rows'[sid], seen'[sid], saved'[sid])
  <2>1. CASE saved'[sid] /\ timer.countdown
    <3>1. rows'[sid].snap.remaining = timer.left /\ timer.left \in Nat
      BY <1>2, <1>3, <2>1 DEF Written, Snapshot, Timer
    <3>2. seen'[sid] = timer.left
      BY <1>4, <2>1 DEF RemainingSeconds
    <3>3. rows'[sid].snap.remaining - seen'[sid] = 0
      BY <3>1, <3>2
    <3> QED
      BY <3>3, PageAssumption DEF Honest
  <2>2. CASE ~saved'[sid]
    BY <2>2 DEF Honest
  <2>3. CASE ~timer.countdown
    BY <1>4, <2>3 DEF Honest, RemainingSeconds
  <2> QED
    BY <2>1, <2>2, <2>3
<1>6. /\ Quiet(rows, rows', sid)
      /\ \A x \in Attempts \ {sid} : saved'[x] = saved[x]
  BY <1>1, <1>2, SaveQuiet
<1> QED
  BY <1>2, <1>5, <1>6, LeavesClock

LEMMA PauseClock ==
    ASSUME ClockInvariant, PageInvariant', PauseAndExit
    PROVE  ClockInvariant'
<1> DEFINE s == Pause(session, RemainingSeconds(timer))
<1>1. screen = "exam" /\ screen' = "nav" /\ Save(rows, sid, s) /\ seen' = seen
  BY DEF PauseAndExit
<1>2. PageInvariant
  BY DEF ClockInvariant
<1>3. session \in Session /\ timer \in Timer /\ Unfinished(session)
  BY <1>1, <1>2, OnExam
<1>4. s \in Session /\ Unfinished(s)
  BY <1>3, TimerType, StatusType, ClockUnfinished, AttemptAssumption
<1>5. timer.countdown => s.remaining = timer.left
  BY <1>3, ClockedCatchesUp
<1> HIDE DEF s
<1> QED
  BY <1>1, <1>4, <1>5, LastSaveClock

LEMMA FinishClock ==
    ASSUME ClockInvariant, PageInvariant', screen = "exam", FinishExam,
           \A x \in Attempts \ {sid} : seen'[x] = seen[x]
    PROVE  ClockInvariant'
<1> DEFINE s == GradeAll(Finish(session))
<1>1. PageInvariant /\ TypeOK /\ rows \in Tables
  BY DEF ClockInvariant, PageInvariant, TypeOK, Tables
<1>2. sid \in Attempts /\ session \in Session /\ Unfinished(session)
  BY <1>1, OnExam
<1>3. s \in Session
  BY <1>2, FinishGrades
<1>4. screen' = "result"
  BY DEF FinishExam
<1>5. PICK ok \in BOOLEAN :
        /\ rows' = IF ok THEN FinalizeSession(rows, sid, s, ExamResult(s)) ELSE rows
        /\ saved' = [saved EXCEPT ![sid] = ok]
  BY DEF FinishExam
<1>6. /\ FinalizeSession(rows, sid, s, ExamResult(s))[sid].status = "finished"
      /\ Quiet(rows, FinalizeSession(rows, sid, s, ExamResult(s)), sid)
  BY <1>1, <1>2, <1>3, FinalizeRows, QuietTransactions
<1> HIDE DEF s
<1>7. saved'[sid] = ok /\ \A x \in Attempts \ {sid} : saved'[x] = saved[x]
  BY <1>1, <1>2, <1>5 DEF TypeOK
<1>8. Honest(rows'[sid], seen'[sid], saved'[sid])
  BY <1>5, <1>6, <1>7 DEF Honest, Active
<1>9. Quiet(rows, rows', sid)
  BY <1>5, <1>6 DEF Quiet
<1> QED
  BY <1>2, <1>4, <1>7, <1>8, <1>9, LeavesClock

LEMMA TimeOutClock ==
    ASSUME ClockInvariant, PageInvariant', TimeOut
    PROVE  ClockInvariant'
<1>1. PageInvariant /\ TypeOK /\ timer.ticking
  BY DEF ClockInvariant, PageInvariant, TimeOut, CanTick
<1>2. screen = "exam" /\ active /\ timer.hooked
  BY <1>1, ClockOnExam
<1>3. Unfinished(session) /\ sid \in Attempts
  BY <1>1, <1>2, OnExam
<1>4. ~IsFinished(session)
  BY <1>3 DEF IsFinished, Unfinished, Active
<1>5. FinishExam /\ seen' = [seen EXCEPT ![sid] = 0]
  BY <1>2, <1>4 DEF TimeOut
<1>6. \A x \in Attempts \ {sid} : seen'[x] = seen[x]
  BY <1>1, <1>5 DEF TypeOK
<1> QED
  BY <1>2, <1>5, <1>6, FinishClock

(* A step that touches neither the tables nor what was shown of them. *)
LEMMA NothingWrittenClock ==
    ASSUME ClockInvariant, PageInvariant', OnTheClock', UNCHANGED <<rows, seen, saved>>
    PROVE  ClockInvariant'
  BY DEF ClockInvariant, ClockHonest

LEMMA CloseOrKillClock ==
    ASSUME ClockInvariant, PageInvariant', CloseWindow \/ Kill
    PROVE  ClockInvariant'
<1>1. PageInvariant /\ PageCoherent
  BY DEF ClockInvariant, PageInvariant
<1>2. screen' = "nav" /\ seen' = seen
  BY DEF CloseWindow, Kill, Relaunched
<1>3. CASE UNCHANGED <<rows, saved>>
  BY <1>2, <1>3, NothingWrittenClock DEF OnTheClock
<1>4. CASE IsExamActive /\ Save(rows, sid, Clocked(session))
  <2>1. screen = "exam"
    BY <1>1, <1>4 DEF IsExamActive, PageCoherent
  <2>2. session \in Session /\ Unfinished(session) /\ timer \in Timer
    BY <1>1, <2>1, OnExam
  <2>3. Clocked(session) \in Session /\ Unfinished(Clocked(session))
    BY <2>2, ClockedType
  <2>4. timer.countdown => Clocked(session).remaining = timer.left
    BY <2>2, ClockedCatchesUp
  <2> QED
    BY <1>2, <1>4, <2>1, <2>3, <2>4, LastSaveClock
<1> QED
  BY <1>3, <1>4 DEF CloseWindow, Kill

LEMMA NextClock == ClockInvariant /\ [Next]_vars => ClockInvariant'
<1> SUFFICES ASSUME ClockInvariant, [Next]_vars
             PROVE  ClockInvariant'
  OBVIOUS
<1>1. PageInvariant'
  BY NextInvariant DEF ClockInvariant
<1>2. CASE UserAction
  <2>1. ASSUME NEW a \in Attempts, NEW e \in Exams, StartExam(a, e) \/ AbandonAndStart(a, e)
        PROVE  ClockInvariant'
    BY <1>1, <2>1, StartExamClock
  <2>2. ASSUME NEW a \in Attempts, NEW e \in Exams \cup OwnTerms, Retake(a, e)
        PROVE  ClockInvariant'
    BY <1>1, <2>2, RetakeClock
  <2>3. ASSUME NEW a \in Attempts, ResumePausedExam(a)
        PROVE  ClockInvariant'
    BY <1>1, <2>3, ResumeClock
  <2>4. CASE \/ \E a \in Answers : StoreAnswer(a)
             \/ \E i \in Questions : Jump(i)
             \/ ToggleBookmarkButton \/ ToggleMarkButton
             \/ GoNext \/ GoPrevious
    BY <1>1, <2>4, EditClock
  <2>5. CASE PauseAndExit
    BY <1>1, <2>5, PauseClock
  <2>6. CASE FinishButton
    BY <1>1, <2>6, FinishClock DEF FinishButton
  <2>7. CASE LeaveResult
    BY <1>1, <2>7, NothingWrittenClock DEF LeaveResult, history, OnTheClock
  <2> QED
    BY <1>2, <2>1, <2>2, <2>3, <2>4, <2>5, <2>6, <2>7 DEF UserAction
<1>3. CASE ClockAction
  BY <1>1, <1>3, TickClock, TimeOutClock, AutosaveClock DEF ClockAction
<1>4. CASE CloseWindow \/ Kill
  BY <1>1, <1>4, CloseOrKillClock
<1>5. CASE UNCHANGED vars
  <2>1. OnTheClock'
    BY <1>5 DEF vars, page, history, ClockInvariant, OnTheClock, RemainingSeconds
  <2> QED
    BY <1>1, <1>5, <2>1, NothingWrittenClock DEF vars, history
<1> QED
  BY <1>2, <1>3, <1>4, <1>5 DEF Next

(* Between the countdown a resume restores and the one the user last saw lie at
   most the ticks between two autosaves, after Pause & Exit none, and never is
   time lost: through crashes, failed writes and any order of the timers. *)
THEOREM PageClockHonest == Spec => []ClockHonest
<1>1. ASSUME Init
      PROVE  ClockInvariant
  <2>1. \A a \in Attempts : seen[a] = None
    BY <1>1 DEF Init
  <2>2. ClockHonest
    BY <2>1 DEF ClockHonest, ActiveAttempts
  <2>3. OnTheClock
    BY <1>1 DEF Init, OnTheClock
  <2> QED
    BY <1>1, <2>2, <2>3, InitInvariant DEF ClockInvariant
<1>2. ClockInvariant => ClockHonest
  BY DEF ClockInvariant
<1> QED
  BY <1>1, <1>2, NextClock, PTL DEF Spec

-----------------------------------------------------------------------------
(* ExamPage implements AttemptLedger: whatever the tables go through, an   *)
(* attempt is opened at most until another one is, closed once with its    *)
(* result, and never opened again.                                         *)

\* What opening attempt a does to the status and score of every row.
Opened(rs, a, new) ==
    /\ new[a].status \in Active /\ new[a].score = None
    /\ \A x \in Attempts \ {a} :
          /\ new[x].score = rs[x].score
          /\ new[x].status = IF rs[x].status \in Active THEN "abandoned" ELSE rs[x].status

(* One upsert opens; so does an upsert after a first one or after the others
   were abandoned, as when the user resumes or chooses to start anew. *)
LEMMA UpsertOpens ==
    ASSUME NEW rs \in Tables, NEW a \in Attempts, NEW s \in Session, Unfinished(s)
    PROVE  Opened(rs, a, UpsertActiveSession(rs, a, s))
<1>1. \A x \in Attempts :
        AbandonRow(rs[x]).status = "abandoned" /\ AbandonRow(rs[x]).score = rs[x].score
  BY DEF AbandonRow, Tables, Row
<1> QED
  BY <1>1, UpsertRows DEF Opened, Unfinished

LEMMA UpsertOpensAgain ==
    ASSUME NEW rs \in Tables, NEW mid \in Tables, NEW a \in Attempts,
           NEW s \in Session, Unfinished(s),
           Opened(rs, a, mid) \/ mid = AbandonActiveSessions(rs)
    PROVE  Opened(rs, a, UpsertActiveSession(mid, a, s))
<1>1. Opened(mid, a, UpsertActiveSession(mid, a, s))
  BY UpsertOpens
<1>2. ASSUME NEW x \in Attempts \ {a}
      PROVE  /\ mid[x].score = rs[x].score
             /\ mid[x].status = IF rs[x].status \in Active THEN "abandoned" ELSE rs[x].status
  <2>1. CASE Opened(rs, a, mid)
    BY <2>1 DEF Opened
  <2>2. CASE mid = AbandonActiveSessions(rs)
    <3>1. AbandonRow(rs[x]).status = "abandoned" /\ AbandonRow(rs[x]).score = rs[x].score
      BY DEF AbandonRow, Tables, Row
    <3>2. mid[x] = IF rs[x].status \in Active THEN AbandonRow(rs[x]) ELSE rs[x]
      BY <2>2, AbandonRows
    <3> QED
      BY <3>1, <3>2
  <2> QED
    BY <2>1, <2>2
<1>3. \A x \in Attempts \ {a} :
        (IF mid[x].status \in Active THEN "abandoned" ELSE mid[x].status) =
           IF rs[x].status \in Active THEN "abandoned" ELSE rs[x].status
  BY <1>2 DEF Active
<1> QED
  BY <1>1, <1>2, <1>3 DEF Opened

-----------------------------------------------------------------------------
(* The steps of the ledger.                                                *)

(* The row's phase is its status, seen from outside. *)
LEMMA PhaseOfStatus ==
    ASSUME NEW r \in Row
    PROVE  /\ PhaseOf(r) = "new" <=> r.status = "absent"
           /\ PhaseOf(r) = "open" <=> r.status \in Active
           /\ PhaseOf(r) = "closed" <=> r.status = "finished"
           /\ PhaseOf(r) = "dropped" <=> r.status = "abandoned"
           /\ PhaseOf(r) \in {"new", "open", "closed", "dropped"}
  BY DEF PhaseOf, Row, Statuses, Active

LEMMA OpenedIsOpen ==
    ASSUME GoodTables(rows), rows' \in Tables, NEW a \in Attempts,
           rows[a].status \in Active \cup {"absent"}, Opened(rows, a, rows')
    PROVE  Ledger!Open(a)
<1>1. /\ rows \in Tables /\ rows[a].score = None
      /\ \A x \in Attempts : rows[x] \in Row /\ rows'[x] \in Row
  BY DEF GoodTables, RowsCoherent, RowCoherent, Tables, Active
<1>2. PhaseOf(rows[a]) \in {"new", "open"} /\ PhaseOf(rows'[a]) = "open"
  BY <1>1, PhaseOfStatus DEF Opened
<1>3. ASSUME NEW x \in Attempts \ {a}
      PROVE  PhaseOf(rows'[x]) = IF PhaseOf(rows[x]) = "open" THEN "dropped" ELSE PhaseOf(rows[x])
  <2>1. rows'[x].status = IF rows[x].status \in Active THEN "abandoned" ELSE rows[x].status
    BY DEF Opened
  <2>2. rows[x] \in Row /\ rows'[x] \in Row
    BY <1>1
  <2> QED
    BY <2>1, <2>2 DEF PhaseOf, Row, Statuses, Active
<1>4. \A x \in Attempts : rows'[x].score = rows[x].score
  BY <1>1 DEF Opened
<1> QED
  BY <1>2, <1>3, <1>4 DEF Ledger!Open, Ledger!DropOpen

LEMMA AbandonedIsDrop ==
    ASSUME GoodTables(rows), rows' = AbandonActiveSessions(rows)
    PROVE  Ledger!Drop
<1>1. /\ rows \in Tables /\ rows' \in Tables
      /\ \A x \in Attempts :
            rows'[x] = IF rows[x].status \in Active THEN AbandonRow(rows[x]) ELSE rows[x]
  BY AbandonRows DEF GoodTables
<1>2. ASSUME NEW x \in Attempts
      PROVE  /\ PhaseOf(rows'[x]) =
                    IF PhaseOf(rows[x]) = "open" THEN "dropped" ELSE PhaseOf(rows[x])
             /\ rows'[x].score = rows[x].score
  <2>1. rows[x] \in Row /\ rows'[x] \in Row
    BY <1>1 DEF Tables
  <2>2. AbandonRow(rows[x]).status = "abandoned" /\ AbandonRow(rows[x]).score = rows[x].score
    BY <2>1 DEF AbandonRow, Row
  <2> QED
    BY <1>1, <2>1, <2>2 DEF PhaseOf, Row, Statuses, Active
<1> QED
  BY <1>2 DEF Ledger!Drop, Ledger!DropOpen

LEMMA FinalizedIsClose ==
    ASSUME GoodTables(rows), NEW a \in Attempts, NEW s \in Session,
           rows[a].status \in Active \cup {"absent"},
           rows' = FinalizeSession(rows, a, s, ExamResult(s))
    PROVE  Ledger!Close(a)
<1>1. /\ rows \in Tables /\ rows' \in Tables
      /\ rows'[a].status = "finished" /\ rows'[a].score = RecordedScore(ExamResult(s))
      /\ \A x \in Attempts \ {a} : rows'[x] = rows[x]
  BY FinalizeRows DEF GoodTables
<1>2. rows'[a].score \in Score
  BY <1>1, ResultType
<1>3. PhaseOf(rows[a]) \in {"new", "open"} /\ PhaseOf(rows'[a]) = "closed"
  BY <1>1, PhaseOfStatus DEF Tables
<1> QED
  BY <1>1, <1>2, <1>3 DEF Ledger!Close

-----------------------------------------------------------------------------
(* Every step of the page is a step of the ledger or leaves it alone.      *)

\* Rows that do not change leave the ledger as it is.
LEMMA SameRows ==
    ASSUME rows' = rows
    PROVE  UNCHANGED Ledger!ledger
  BY DEF Ledger!ledger

(* Starting or resuming over the tables as they are. *)
LEMMA StartIsLedger ==
    ASSUME PageInvariant, NEW a \in Attempts, rows[a].status \in Active \cup {"absent"},
           NEW s \in Session, Unfinished(s), s.status = "in_progress",
           NEW n \in Nat, StartSession(rows, a, s, n)
    PROVE  [Ledger!Next]_(Ledger!ledger)
<1>1. TypeOK /\ GoodTables(rows) /\ rows \in Tables
  BY InvariantTables DEF PageInvariant, GoodTables
<1>2. /\ session' \in Session /\ Unfinished(session')
      /\ rows' \in {rows, UpsertActiveSession(rows, a, session')}
      /\ Written(rows, a, session', saved'[a], rows')
  BY <1>1, StartSessionStep
<1>3. CASE rows' = rows
  BY <1>3, SameRows
<1>4. CASE rows' = UpsertActiveSession(rows, a, session')
  <2>1. Opened(rows, a, rows')
    BY <1>1, <1>2, <1>4, UpsertOpens
  <2>2. rows' \in Tables
    BY <1>2 DEF Written, GoodTables
  <2>3. Ledger!Open(a)
    BY <1>1, <2>1, <2>2, OpenedIsOpen
  <2> QED
    BY <2>3 DEF Ledger!Next
<1> QED
  BY <1>2, <1>3, <1>4

(* Starting over tables that a transaction of the same handler has changed. *)
LEMMA StartAgainIsLedger ==
    ASSUME PageInvariant, NEW rs, GoodTables(rs), NEW a \in Attempts,
           rows[a].status \in Active \cup {"absent"},
           rs[a].status \in Active \cup {"absent"},
           Opened(rows, a, rs) \/ rs = AbandonActiveSessions(rows),
           NEW s \in Session, Unfinished(s), s.status = "in_progress",
           NEW n \in Nat, StartSession(rs, a, s, n)
    PROVE  [Ledger!Next]_(Ledger!ledger)
<1>1. /\ TypeOK /\ GoodTables(rows) /\ rows \in Tables
      /\ rs \in Tables
  BY InvariantTables DEF PageInvariant, GoodTables
<1>2. /\ session' \in Session /\ Unfinished(session')
      /\ rows' \in {rs, UpsertActiveSession(rs, a, session')}
      /\ Written(rs, a, session', saved'[a], rows')
  BY <1>1, StartSessionStep
<1>3. rows' \in Tables
  BY <1>2 DEF Written, GoodTables
<1>4. CASE rows' = UpsertActiveSession(rs, a, session') \/ Opened(rows, a, rows')
  <2>1. Opened(rows, a, rows')
    BY <1>1, <1>2, <1>4, UpsertOpensAgain
  <2>2. Ledger!Open(a)
    BY <1>1, <1>3, <2>1, OpenedIsOpen
  <2> QED
    BY <2>2 DEF Ledger!Next
<1>5. CASE rows' = rs /\ rs = AbandonActiveSessions(rows)
  BY <1>1, <1>5, AbandonedIsDrop DEF Ledger!Next
<1> QED
  BY <1>2, <1>4, <1>5

(* A new attempt has no row yet. *)
LEMMA StartNewIsLedger ==
    ASSUME PageInvariant, NEW a \in Attempts, NEW e \in Terms, NEW n \in Nat,
           \/ StartNew(rows, a, e, n)
           \/ StartNew(AbandonActiveSessions(rows), a, e, n)
    PROVE  [Ledger!Next]_(Ledger!ledger)
<1>1. GoodTables(rows) /\ UnusedHaveNoRow
  BY InvariantTables DEF PageInvariant
<1>2. rows[a].status = "absent"
  BY <1>1 DEF StartNew, Unused, UnusedHaveNoRow
<1>3. /\ Create("exam", e) \in Session /\ Create("exam", e).status = "in_progress"
      /\ Unfinished(Create("exam", e))
  BY CreateType, CreateUnfinished DEF Modes
<1>4. CASE StartNew(rows, a, e, n)
  <2>1. StartSession(rows, a, Create("exam", e), n)
    BY <1>4 DEF StartNew
  <2> QED
    BY <1>2, <1>3, <2>1, StartIsLedger
<1>5. CASE StartNew(AbandonActiveSessions(rows), a, e, n)
  <2>1. StartSession(AbandonActiveSessions(rows), a, Create("exam", e), n)
    BY <1>5 DEF StartNew
  <2>2. /\ GoodTables(AbandonActiveSessions(rows))
        /\ AbandonActiveSessions(rows)[a].status = "absent"
    BY <1>1, <1>2, AbandonKeepsTables
  <2> QED
    BY <1>2, <1>3, <2>1, <2>2, StartAgainIsLedger
<1> QED
  BY <1>4, <1>5

LEMMA ResumeIsLedger ==
    ASSUME PageInvariant, NEW a \in Attempts, ResumePausedExam(a)
    PROVE  [Ledger!Next]_(Ledger!ledger)
<1> DEFINE s == Restore(rows[a].snap)
<1>1. TypeOK /\ GoodTables(rows) /\ rows \in Tables
  BY InvariantTables DEF PageInvariant, GoodTables
<1>2. rows[a].status \in Active /\ rows[a].snap # None /\ RowCoherent(rows[a])
  BY <1>1 DEF ResumePausedExam, ResumableInfo, ActiveAttempts, GoodTables, RowsCoherent
<1>3. rows[a].snap \in SnapshotRecord /\ Unfinished(rows[a].snap)
  BY <1>1, <1>2 DEF TypeOK, Row, RowCoherent
<1>4. s \in Session /\ Unfinished(s)
  BY <1>3, RestoreType, RestoreUnfinished
<1>5. /\ Resume(s) \in Session /\ Unfinished(Resume(s)) /\ Resume(s).status = "in_progress"
  BY <1>4, StatusType, ClockUnfinished, AttemptAssumption
<1>6. CASE ~IsPaused(s) /\ StartSession(rows, a, s, 0)
  <2>1. s.status = "in_progress"
    BY <1>4, <1>6 DEF Unfinished, Active, IsPaused
  <2> QED
    BY <1>2, <1>4, <1>6, <2>1, StartIsLedger
<1>7. CASE \E ok \in BOOLEAN :
              StartSession(IF ok THEN UpsertActiveSession(rows, a, Resume(s)) ELSE rows,
                           a, Resume(s), Failed(ok))
  <2>1. CASE StartSession(UpsertActiveSession(rows, a, Resume(s)), a, Resume(s), 0)
    <3> DEFINE mid == UpsertActiveSession(rows, a, Resume(s))
    <3>1. Written(rows, a, Resume(s), TRUE, mid)
      BY <1>1, <1>5, WriteKeepsTables
    <3>2. Opened(rows, a, mid)
      BY <1>1, <1>5, UpsertOpens
    <3>3. GoodTables(mid) /\ mid[a].status \in Active \cup {"absent"}
      BY <1>5, <3>1 DEF Written, Active
    <3> QED
      BY <1>2, <1>5, <2>1, <3>2, <3>3, StartAgainIsLedger
  <2>2. CASE StartSession(rows, a, Resume(s), 1)
    BY <1>2, <1>5, <2>2, StartIsLedger
  <2>3. PICK ok \in BOOLEAN :
          StartSession(IF ok THEN UpsertActiveSession(rows, a, Resume(s)) ELSE rows,
                       a, Resume(s), Failed(ok))
    BY <1>7
  <2>4. CASE ok
    BY <2>1, <2>3, <2>4 DEF Failed
  <2>5. CASE ~ok
    BY <2>2, <2>3, <2>5 DEF Failed
  <2> QED
    BY <2>4, <2>5
<1> QED
  BY <1>6, <1>7 DEF ResumePausedExam

(* A save of the attempt on the screen keeps it open. *)
LEMMA SaveIsLedger ==
    ASSUME PageInvariant, screen = "exam",
           NEW s \in Session, Unfinished(s), Save(rows, sid, s)
    PROVE  [Ledger!Next]_(Ledger!ledger)
<1>1. TypeOK /\ GoodTables(rows) /\ rows \in Tables
  BY InvariantTables DEF PageInvariant, GoodTables
<1>2. sid \in Attempts /\ rows[sid].status \in Active \cup {"absent"}
  BY OnExam
<1>3. rows' \in {rows, UpsertActiveSession(rows, sid, s)}
  BY DEF Save
<1>4. CASE rows' = rows
  BY <1>4, SameRows
<1>5. CASE rows' = UpsertActiveSession(rows, sid, s)
  <2>1. Opened(rows, sid, rows') /\ rows' \in Tables
    BY <1>1, <1>2, <1>5, UpsertOpens, UpsertRows
  <2>2. Ledger!Open(sid)
    BY <1>1, <1>2, <2>1, OpenedIsOpen
  <2> QED
    BY <1>2, <2>2 DEF Ledger!Next
<1> QED
  BY <1>3, <1>4, <1>5

LEMMA FinishIsLedger ==
    ASSUME PageInvariant, screen = "exam", FinishExam
    PROVE  [Ledger!Next]_(Ledger!ledger)
<1> DEFINE s == GradeAll(Finish(session))
<1>1. GoodTables(rows)
  BY InvariantTables
<1>2. /\ sid \in Attempts /\ session \in Session /\ Unfinished(session)
      /\ rows[sid].status \in Active \cup {"absent"}
  BY OnExam
<1>3. s \in Session
  BY <1>2, FinishGrades
<1>4. rows' \in {rows, FinalizeSession(rows, sid, s, ExamResult(s))}
  BY DEF FinishExam
<1> HIDE DEF s
<1>5. CASE rows' = rows
  BY <1>5, SameRows
<1>6. CASE rows' = FinalizeSession(rows, sid, s, ExamResult(s))
  BY <1>1, <1>2, <1>3, <1>6, FinalizedIsClose DEF Ledger!Next
<1> QED
  BY <1>4, <1>5, <1>6

LEMMA UserIsLedger ==
    ASSUME PageInvariant, UserAction
    PROVE  [Ledger!Next]_(Ledger!ledger)
<1>1. ASSUME NEW a \in Attempts, NEW e \in Exams, StartExam(a, e)
      PROVE  [Ledger!Next]_(Ledger!ledger)
  <2>1. PICK ok \in BOOLEAN : StartNew(rows, a, e, Failed(ok))
    BY <1>1 DEF StartExam
  <2>2. Failed(ok) \in Nat
    BY DEF Failed
  <2> QED
    BY <2>1, <2>2, StartNewIsLedger, PageAssumption
<1>2. ASSUME NEW a \in Attempts, NEW e \in Exams, AbandonAndStart(a, e)
      PROVE  [Ledger!Next]_(Ledger!ledger)
  <2>1. PICK ok \in BOOLEAN :
          StartNew(IF ok THEN AbandonActiveSessions(rows) ELSE rows, a, e, Failed(ok))
    BY <1>2 DEF AbandonAndStart
  <2>2. Failed(ok) \in Nat
    BY DEF Failed
  <2>3. \/ StartNew(rows, a, e, Failed(ok))
        \/ StartNew(AbandonActiveSessions(rows), a, e, Failed(ok))
    BY <2>1
  <2> QED
    BY <2>2, <2>3, StartNewIsLedger, PageAssumption
<1>3. ASSUME NEW a \in Attempts, NEW e \in Exams \cup OwnTerms, Retake(a, e)
      PROVE  [Ledger!Next]_(Ledger!ledger)
  <2>1. session \in Session \cup {None}
    BY DEF PageInvariant, TypeOK
  <2>2. OwnTerms \subseteq Terms
    BY <2>1 DEF OwnTerms, Session, Terms
  <2>3. e \in Terms
    BY <2>2, PageAssumption
  <2> QED
    BY <1>3, <2>3, StartNewIsLedger DEF Retake
<1>4. ASSUME NEW a \in Attempts, ResumePausedExam(a)
      PROVE  [Ledger!Next]_(Ledger!ledger)
  BY <1>4, ResumeIsLedger
<1>5. CASE \/ \E a \in Answers : StoreAnswer(a)
           \/ \E i \in Questions : Jump(i)
           \/ ToggleBookmarkButton \/ ToggleMarkButton
           \/ GoNext \/ GoPrevious
  <2>1. PICK s \in Session : Unfinished(s) /\ s.status = "in_progress" /\ Edit(s)
    BY <1>5, EditsUnfinished
  <2>2. screen = "exam" /\ Save(rows, sid, Clocked(s))
    BY <2>1 DEF Edit
  <2>3. Clocked(s) \in Session /\ Unfinished(Clocked(s))
    BY <2>1, ClockedType DEF PageInvariant, TypeOK
  <2> QED
    BY <2>2, <2>3, SaveIsLedger
<1>6. CASE PauseAndExit
  <2> DEFINE s == Pause(session, RemainingSeconds(timer))
  <2>1. screen = "exam" /\ Save(rows, sid, s)
    BY <1>6 DEF PauseAndExit
  <2>2. session \in Session /\ timer \in Timer /\ Unfinished(session)
    BY <2>1, OnExam
  <2>3. s \in Session /\ Unfinished(s)
    BY <2>2, TimerType, StatusType, ClockUnfinished, AttemptAssumption
  <2> QED
    BY <2>1, <2>3, SaveIsLedger
<1>7. CASE FinishButton
  BY <1>7, FinishIsLedger DEF FinishButton
<1>8. CASE LeaveResult
  BY <1>8, SameRows DEF LeaveResult
<1> QED
  BY <1>1, <1>2, <1>3, <1>4, <1>5, <1>6, <1>7, <1>8 DEF UserAction

LEMMA ClockIsLedger ==
    ASSUME PageInvariant, ClockAction
    PROVE  [Ledger!Next]_(Ledger!ledger)
<1>1. CASE Tick
  BY <1>1, SameRows DEF Tick
<1>2. CASE TimeOut
  <2>1. CASE rows' = rows
    BY <2>1, SameRows
  <2>2. CASE screen = "exam" /\ FinishExam
    BY <2>2, FinishIsLedger
  <2> QED
    BY <1>2, <2>1, <2>2 DEF TimeOut
<1>3. CASE Autosave
  <2>1. screen = "exam"
    BY <1>3, ClockOnExam DEF Autosave
  <2>2. session \in Session /\ Unfinished(session) /\ timer \in Timer
    BY <2>1, OnExam
  <2>3. Clocked(session) \in Session /\ Unfinished(Clocked(session))
    BY <2>2, ClockedType
  <2>4. rows' = rows \/ Save(rows, sid, Clocked(session))
    BY <1>3 DEF Autosave
  <2> QED
    BY <2>1, <2>3, <2>4, SameRows, SaveIsLedger
<1> QED
  BY <1>1, <1>2, <1>3 DEF ClockAction

LEMMA CloseOrKillIsLedger ==
    ASSUME PageInvariant, CloseWindow \/ Kill
    PROVE  [Ledger!Next]_(Ledger!ledger)
<1>1. CASE rows' = rows
  BY <1>1, SameRows
<1>2. CASE IsExamActive /\ Save(rows, sid, Clocked(session))
  <2>1. screen = "exam"
    BY <1>2 DEF IsExamActive, PageInvariant, PageCoherent
  <2>2. session \in Session /\ Unfinished(session) /\ timer \in Timer
    BY <2>1, OnExam
  <2>3. Clocked(session) \in Session /\ Unfinished(Clocked(session))
    BY <2>2, ClockedType
  <2> QED
    BY <1>2, <2>1, <2>3, SaveIsLedger
<1> QED
  BY <1>1, <1>2 DEF CloseWindow, Kill

(* The tables start as an empty ledger. *)
LEMMA InitIsLedger == Init => Ledger!Init
<1> SUFFICES ASSUME Init
             PROVE  Ledger!Init
  OBVIOUS
<1>1. \A a \in Attempts : rows[a].status = "absent" /\ rows[a].score = None
  BY DEF Init, NoRow
<1>2. \A a \in Attempts : PhaseOf(rows[a]) = "new"
  BY <1>1 DEF PhaseOf, Active
<1> QED
  BY <1>1, <1>2 DEF Ledger!Init

(* The desktop application implements the promise of AttemptLedger: at most one
   open attempt, a result recorded once and for ever, nothing reopened. *)
THEOREM PageImplementsLedger == Spec => LedgerSpec
<1>1. PageInvariant /\ [Next]_vars => [Ledger!Next]_(Ledger!ledger)
  <2> SUFFICES ASSUME PageInvariant, [Next]_vars
               PROVE  [Ledger!Next]_(Ledger!ledger)
    OBVIOUS
  <2>1. CASE UNCHANGED vars
    BY <2>1, SameRows DEF vars
  <2> QED
    BY <2>1, UserIsLedger, ClockIsLedger, CloseOrKillIsLedger DEF Next
<1> QED
  BY <1>1, InitIsLedger, PageInvariantHolds, PTL DEF Spec, LedgerSpec, Ledger!Spec
=============================================================================
