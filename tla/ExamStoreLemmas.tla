-------------------------- MODULE ExamStoreLemmas --------------------------
(***************************************************************************)
(* What the operators of ExamAttempt and ExamStore return and preserve:    *)
(* the lemmas that the proofs about their users cite by name.              *)
(***************************************************************************)
EXTENDS ExamStore, FiniteSetTheorems, TLAPS

-----------------------------------------------------------------------------
(* Types of the operations on a session.                                   *)

(* The question positions are a finite set of NumQuestions elements that contains 0. *)
LEMMA QuestionsFinite ==
    /\ IsFiniteSet(Questions)
    /\ Cardinality(Questions) = NumQuestions
    /\ 0 \in Questions
<1>1. NumQuestions \in Nat /\ NumQuestions > 0
  BY AttemptAssumption
<1>2. /\ IsFiniteSet(0..(NumQuestions - 1))
      /\ Cardinality(0..(NumQuestions - 1)) = NumQuestions
  BY <1>1, FS_Interval
<1> QED
  BY <1>1, <1>2 DEF Questions

(* Any set of questions counts between 0 and NumQuestions: the score columns
   are in range whatever the answers are. *)
LEMMA CountOfQuestions ==
    ASSUME NEW S \in SUBSET Questions
    PROVE  Cardinality(S) \in 0..NumQuestions
<1>1. /\ IsFiniteSet(S)
      /\ Cardinality(S) <= Cardinality(Questions)
  BY QuestionsFinite, FS_Subset
<1>2. Cardinality(S) \in Nat
  BY <1>1, FS_CardinalityType
<1> QED
  BY <1>1, <1>2, QuestionsFinite, AttemptAssumption

(* ExamSession.create returns a session in progress, of its exam's terms. *)
LEMMA CreateType ==
    ASSUME NEW m \in Modes, NEW e \in Terms
    PROVE  /\ Create(m, e) \in Session
           /\ Create(m, e).status = "in_progress" /\ ~Create(m, e).finished
  BY QuestionsFinite DEF Create, Terms, Session, NoEntry, Cell, Grades, Statuses, Active

(* Submitting an answer changes one cell and leaves the session well typed. *)
LEMMA SubmitType ==
    ASSUME NEW s \in Session, NEW q \in Questions, NEW a \in Answers \cup {None}
    PROVE  SubmitAnswer(s, q, a) \in Session
  BY DEF SubmitAnswer, Session, Cell, Grades, GradeAnswer

(* The two toggles and the moves keep the session well typed. *)
LEMMA MarkType ==
    ASSUME NEW s \in Session, NEW q \in Questions
    PROVE  /\ ToggleBookmark(s, q) \in Session
           /\ ToggleMarkForReview(s, q) \in Session
           /\ GotoIndex(s, q) \in Session
  BY DEF ToggleBookmark, ToggleMarkForReview, GotoIndex, Toggle, Session

(* The countdown of a session may be replaced by any other, or left alone. *)
LEMMA RemainingType ==
    ASSUME NEW s \in Session, NEW r \in Nat \cup {None}
    PROVE  WithRemaining(s, r) \in Session
  BY DEF WithRemaining, Session

(* Pause, resume and finish change the status and nothing that grading reads. *)
LEMMA StatusType ==
    ASSUME NEW s \in Session, NEW r \in Nat \cup {None}
    PROVE  /\ Pause(s, r) \in Session /\ Pause(s, r).status = "paused"
           /\ Resume(s) \in Session
           /\ Finish(s) \in Session /\ Finish(s).status = "finished" /\ Finish(s).finished
           /\ Finish(s).answers = s.answers
  BY DEF Pause, Resume, Finish, IsPaused, WithRemaining, Session, Statuses, Active

(* score_exam leaves no answer ungraded and changes nothing but grades. *)
LEMMA GradeAllType ==
    ASSUME NEW s \in Session
    PROVE  /\ GradeAll(s) \in Session
           /\ AllGraded(GradeAll(s).answers)
           /\ GradeAll(s).status = s.status /\ GradeAll(s).finished = s.finished
  BY DEF GradeAll, GradeCell, GradeAnswer, AllGraded, Session, Cell, Grades

(* The recorded score is in range. *)
LEMMA ResultType ==
    ASSUME NEW s \in Session
    PROVE  RecordedScore(ExamResult(s)) \in Score
<1>1. Cardinality(CorrectQuestions(s.answers)) \in 0..NumQuestions
  BY CountOfQuestions DEF CorrectQuestions
<1>2. ReachesMark(Cardinality(CorrectQuestions(s.answers)), s.pass) \in BOOLEAN
  BY DEF ReachesMark
<1> QED
  BY <1>1, <1>2 DEF RecordedScore, ExamResult, Score

(* A snapshot is a snapshot record, and restoring one gives a session with the
   snapshot's answers, status and flag. *)
LEMMA SnapshotType ==
    ASSUME NEW s \in Session
    PROVE  Snapshot(s) \in SnapshotRecord
  BY DEF Snapshot, Session, SnapshotRecord

LEMMA RestoreType ==
    ASSUME NEW snap \in SnapshotRecord
    PROVE  /\ Restore(snap) \in Session
           /\ Restore(snap).answers = snap.answers
           /\ Restore(snap).status = snap.status
           /\ Restore(snap).finished = snap.finished
  BY QuestionsFinite, AttemptAssumption DEF Restore, Session, SnapshotRecord

-----------------------------------------------------------------------------
(* The tables.                                                             *)

Tables == [Attempts -> Row]

(* A row that is not there is well typed, and the row a transaction writes to
   is a row. *)
LEMMA RowType ==
    /\ NoRow \in Row
    /\ \A rs \in Tables, a \in Attempts : FoundOrNew(rs, a) \in Row
<1>1. NoRow \in Row
  BY DEF NoRow, Row, Batch
<1>2. ASSUME NEW rs \in Tables, NEW a \in Attempts
      PROVE  FoundOrNew(rs, a) \in Row
  <2>1. IsFiniteSet(Inserted(rs))
    BY StoreAssumption, FS_Subset DEF Inserted
  <2>2. Cardinality(Inserted(rs)) + 1 \in Nat
    BY <2>1, FS_CardinalityType
  <2>3. [NoRow EXCEPT !.id = Cardinality(Inserted(rs)) + 1] \in Row
    BY <1>1, <2>2 DEF Row
  <2> QED
    BY <2>3 DEF FoundOrNew, Tables
<1> QED
  BY <1>1, <1>2

(* Writing an active session or abandoning a row gives a row with that status. *)
LEMMA ActiveRowType ==
    ASSUME NEW r \in Row, NEW st \in Statuses, NEW snap \in SnapshotRecord
    PROVE  /\ SaveActive(r, st, snap) \in Row
           /\ AbandonRow(r) \in Row
  BY DEF SaveActive, AbandonRow, Row, Statuses

(* The effect of upsert_active_session on every row. *)
LEMMA UpsertRows ==
    ASSUME NEW rs \in Tables, NEW a \in Attempts, NEW s \in Session
    PROVE  /\ UpsertActiveSession(rs, a, s) \in Tables
           /\ UpsertActiveSession(rs, a, s)[a].status = s.status
           /\ UpsertActiveSession(rs, a, s)[a].snap = Snapshot(s)
           /\ UpsertActiveSession(rs, a, s)[a].score = None
           /\ \A x \in Attempts \ {a} :
                 UpsertActiveSession(rs, a, s)[x] =
                    IF rs[x].status \in Active THEN AbandonRow(rs[x]) ELSE rs[x]
<1>1. Snapshot(s) \in SnapshotRecord
  BY SnapshotType
<1>2. s.status \in Statuses
  BY DEF Session
<1>3. FoundOrNew(rs, a) \in Row
  BY RowType
<1>4. /\ SaveActive(FoundOrNew(rs, a), s.status, Snapshot(s)) \in Row
      /\ SaveActive(FoundOrNew(rs, a), s.status, Snapshot(s)).status = s.status
      /\ SaveActive(FoundOrNew(rs, a), s.status, Snapshot(s)).snap = Snapshot(s)
      /\ SaveActive(FoundOrNew(rs, a), s.status, Snapshot(s)).score = None
  BY <1>1, <1>2, <1>3, ActiveRowType DEF SaveActive, Row
<1>5. \A x \in Attempts : AbandonRow(rs[x]) \in Row
  BY DEF AbandonRow, Row, Statuses, Tables
<1> QED
  BY <1>4, <1>5 DEF UpsertActiveSession, Tables

(* The effect of abandon_active_sessions on every row. *)
LEMMA AbandonRows ==
    ASSUME NEW rs \in Tables
    PROVE  /\ AbandonActiveSessions(rs) \in Tables
           /\ \A x \in Attempts :
                 AbandonActiveSessions(rs)[x] =
                    IF rs[x].status \in Active THEN AbandonRow(rs[x]) ELSE rs[x]
<1>1. \A x \in Attempts : AbandonRow(rs[x]) \in Row
  BY DEF AbandonRow, Row, Statuses, Tables
<1> QED
  BY <1>1 DEF AbandonActiveSessions, Tables

\* The row's answers are those of one finish, of session s.
OneBatch(r, s) ==
    \E n \in Nat :
        r.batches = {[n |-> n, grades |-> [q \in Questions |-> s.answers[q].grade]]}

(* The effect of finalize_session: only the attempt's own row changes. *)
LEMMA FinalizeRows ==
    ASSUME NEW rs \in Tables, NEW a \in Attempts, NEW s \in Session,
           NEW new, new = FinalizeSession(rs, a, s, ExamResult(s))
    PROVE  /\ new \in Tables
           /\ new[a].status = "finished"
           /\ new[a].snap = Snapshot(s)
           /\ new[a].score = RecordedScore(ExamResult(s))
           /\ OneBatch(new[a], s)
           /\ \A x \in Attempts \ {a} : new[x] = rs[x]
<1> DEFINE r == FoundOrNew(rs, a)
           f == SaveFinished(r, s, Snapshot(s), ExamResult(s))
<1>1. r \in Row
  BY RowType
<1>2. Snapshot(s) \in SnapshotRecord
  BY SnapshotType
<1>3. RecordedScore(ExamResult(s)) \in Score
  BY ResultType
<1>4. /\ AnswerBatch(r, s) \in Batch
      /\ AnswerBatch(r, s) =
           [n |-> r.finishes + 1, grades |-> [q \in Questions |-> s.answers[q].grade]]
      /\ r.finishes + 1 \in Nat
  BY <1>1 DEF AnswerBatch, Batch, Row, Session, Cell
<1>5. /\ f \in Row
      /\ f.status = "finished" /\ f.snap = Snapshot(s)
      /\ f.score = RecordedScore(ExamResult(s))
      /\ f.batches = {AnswerBatch(r, s)}
  BY <1>1, <1>2, <1>3, <1>4 DEF SaveFinished, Row, Statuses
<1>6. new = [rs EXCEPT ![a] = f]
  BY DEF FinalizeSession
<1> HIDE DEF r, f
<1> QED
  BY <1>4, <1>5, <1>6 DEF Tables, OneBatch

(* After an upsert the attempt it was for is the only one that can be active;
   after abandoning, none is; a finished attempt is not active. *)
LEMMA OneActivePreserved ==
    ASSUME NEW rs \in Tables, NEW a \in Attempts, NEW s \in Session
    PROVE  /\ AtMostOneActive(UpsertActiveSession(rs, a, s))
           /\ AtMostOneActive(AbandonActiveSessions(rs))
           /\ AtMostOneActive(rs) => AtMostOneActive(FinalizeSession(rs, a, s, ExamResult(s)))
<1>1. \A x \in Attempts : AbandonRow(rs[x]).status = "abandoned"
  BY DEF AbandonRow, Row, Tables
<1>2. AtMostOneActive(UpsertActiveSession(rs, a, s))
  BY <1>1, UpsertRows DEF AtMostOneActive, ActiveAttempts, Active
<1>3. AtMostOneActive(AbandonActiveSessions(rs))
  BY <1>1, AbandonRows DEF AtMostOneActive, ActiveAttempts, Active
<1>4. ASSUME AtMostOneActive(rs)
      PROVE  AtMostOneActive(FinalizeSession(rs, a, s, ExamResult(s)))
  <2> DEFINE new == FinalizeSession(rs, a, s, ExamResult(s))
  <2>1. new[a].status = "finished" /\ \A x \in Attempts \ {a} : new[x] = rs[x]
    BY FinalizeRows
  <2> HIDE DEF new
  <2>2. ActiveAttempts(new) \subseteq ActiveAttempts(rs)
    BY <2>1 DEF ActiveAttempts, Active
  <2>3. AtMostOneActive(new)
    BY <1>4, <2>2 DEF AtMostOneActive
  <2> QED
    BY <2>3 DEF new
<1> QED
  BY <1>2, <1>3, <1>4

-----------------------------------------------------------------------------
(* Unfinished exam-mode attempts.                                          *)

(* A new exam-mode session is unfinished. *)
LEMMA CreateUnfinished ==
    ASSUME NEW e \in Terms
    PROVE  Unfinished(Create("exam", e))
  BY DEF Create, Unfinished, Active, NoGrades, GradesAreCurrent, GradeIsCurrent, NoEntry

(* No edit of the session finishes it or grades an answer: answers given again
   lose the grade of the answer they replace. *)
LEMMA EditUnfinished ==
    ASSUME NEW s \in Session, Unfinished(s), NEW q \in Questions,
           NEW a \in Answers \cup {None}
    PROVE  /\ Unfinished(SubmitAnswer(s, q, a))
           /\ SubmitAnswer(s, q, a).status = s.status
           /\ Unfinished(ToggleBookmark(s, q)) /\ ToggleBookmark(s, q).status = s.status
           /\ Unfinished(ToggleMarkForReview(s, q))
           /\ ToggleMarkForReview(s, q).status = s.status
           /\ Unfinished(GotoIndex(s, q)) /\ GotoIndex(s, q).status = s.status
<1> USE DEF Unfinished, NoGrades, GradesAreCurrent, GradeIsCurrent, Session, Active
<1>1. Unfinished(SubmitAnswer(s, q, a)) /\ SubmitAnswer(s, q, a).status = s.status
  BY DEF SubmitAnswer
<1>2. /\ Unfinished(ToggleBookmark(s, q)) /\ ToggleBookmark(s, q).status = s.status
      /\ Unfinished(ToggleMarkForReview(s, q))
      /\ ToggleMarkForReview(s, q).status = s.status
      /\ Unfinished(GotoIndex(s, q)) /\ GotoIndex(s, q).status = s.status
  BY DEF ToggleBookmark, ToggleMarkForReview, GotoIndex
<1> QED
  BY <1>1, <1>2

(* Neither the countdown nor a pause or a resume finishes an attempt. *)
LEMMA ClockUnfinished ==
    ASSUME NEW s \in Session, Unfinished(s), NEW r \in Nat \cup {None}
    PROVE  /\ Unfinished(WithRemaining(s, r)) /\ WithRemaining(s, r).status = s.status
           /\ Unfinished(Pause(s, r)) /\ Pause(s, r).status = "paused"
           /\ Unfinished(Resume(s)) /\ Resume(s).status = "in_progress"
<1> USE DEF Unfinished, Session, Active
<1>1. Unfinished(WithRemaining(s, r)) /\ WithRemaining(s, r).status = s.status
  BY DEF WithRemaining
<1>2. Unfinished(Pause(s, r)) /\ Pause(s, r).status = "paused"
  BY DEF Pause, WithRemaining
<1>3. Unfinished(Resume(s)) /\ Resume(s).status = "in_progress"
  BY DEF Resume, IsPaused
<1> QED
  BY <1>1, <1>2, <1>3

(* A snapshot says what its session says, and so does the restored session. *)
LEMMA SnapshotUnfinished ==
    ASSUME NEW s \in Session
    PROVE  /\ Snapshot(s) # None
           /\ Snapshot(s).status = s.status /\ Snapshot(s).answers = s.answers
           /\ Unfinished(s) => Unfinished(Snapshot(s))
<1>1. Snapshot(s) # None
  BY SnapshotType, StoreAssumption
<1> QED
  BY <1>1 DEF Snapshot, Unfinished

LEMMA RestoreUnfinished ==
    ASSUME NEW snap \in SnapshotRecord, Unfinished(snap)
    PROVE  Unfinished(Restore(snap))
  BY DEF Restore, Unfinished

(* Finishing and scoring an unfinished attempt grades each of its answers, with
   the grade of that answer. *)
LEMMA FinishGrades ==
    ASSUME NEW x \in Session, Unfinished(x), NEW s, s = GradeAll(Finish(x))
    PROVE  /\ s \in Session
           /\ s.status = "finished" /\ s.finished
           /\ AllGraded(s.answers)
           /\ GradesAreCurrent(s.answers)
<1>1. /\ Finish(x) \in Session /\ Finish(x).status = "finished" /\ Finish(x).finished
      /\ Finish(x).answers = x.answers
  BY StatusType
<1>2. GradesAreCurrent(GradeAll(Finish(x)).answers)
  BY <1>1 DEF GradeAll, GradeCell, GradeAnswer, GradesAreCurrent, GradeIsCurrent,
              Unfinished, NoGrades, Session, Cell
<1> QED
  BY <1>1, <1>2, GradeAllType

-----------------------------------------------------------------------------
(* Coherent rows.                                                          *)

(* Writing an unfinished session over its row, or a new one, keeps every row
   coherent, and so does abandoning. *)
LEMMA UpsertCoherent ==
    ASSUME NEW rs \in Tables, RowsCoherent(rs), NEW a \in Attempts,
           NEW s \in Session, Unfinished(s)
    PROVE  RowsCoherent(UpsertActiveSession(rs, a, s))
<1> DEFINE new == UpsertActiveSession(rs, a, s)
<1>1. /\ new[a].status = s.status /\ new[a].snap = Snapshot(s) /\ new[a].score = None
      /\ \A x \in Attempts \ {a} :
            new[x] = IF rs[x].status \in Active THEN AbandonRow(rs[x]) ELSE rs[x]
  BY UpsertRows
<1> HIDE DEF new
<1>2. RowCoherent(new[a])
  BY <1>1, SnapshotUnfinished DEF RowCoherent, ResultConsistent, Unfinished, Active
<1>3. ASSUME NEW x \in Attempts \ {a}
      PROVE  RowCoherent(new[x])
  <2>1. RowCoherent(rs[x])
    BY DEF RowsCoherent
  <2>2. CASE rs[x].status \in Active
    <3>1. /\ new[x].status = "abandoned"
          /\ new[x].score = rs[x].score
      BY <1>1, <2>2 DEF AbandonRow, Tables, Row
    <3> QED
      BY <2>1, <2>2, <3>1 DEF RowCoherent, ResultConsistent, Active
  <2>3. CASE rs[x].status \notin Active
    BY <1>1, <2>1, <2>3
  <2> QED
    BY <2>2, <2>3
<1> QED
  BY <1>2, <1>3 DEF RowsCoherent, new

LEMMA AbandonCoherent ==
    ASSUME NEW rs \in Tables, RowsCoherent(rs)
    PROVE  RowsCoherent(AbandonActiveSessions(rs))
<1> DEFINE new == AbandonActiveSessions(rs)
<1> SUFFICES ASSUME NEW x \in Attempts
             PROVE  RowCoherent(new[x])
  BY DEF RowsCoherent
<1>1. new[x] = IF rs[x].status \in Active THEN AbandonRow(rs[x]) ELSE rs[x]
  BY AbandonRows
<1> HIDE DEF new
<1>2. RowCoherent(rs[x])
  BY DEF RowsCoherent
<1>3. CASE rs[x].status \in Active
  <2>1. new[x].status = "abandoned" /\ new[x].score = rs[x].score
    BY <1>1, <1>3 DEF AbandonRow, Tables, Row
  <2> QED
    BY <1>2, <1>3, <2>1 DEF RowCoherent, ResultConsistent, Active
<1>4. CASE rs[x].status \notin Active
  BY <1>1, <1>2, <1>4
<1> QED
  BY <1>3, <1>4

(* The row of an attempt that is finished, scored and finalized agrees with
   itself; the others are untouched. *)
LEMMA FinalizeCoherent ==
    ASSUME NEW rs \in Tables, RowsCoherent(rs), NEW a \in Attempts,
           NEW x \in Session, Unfinished(x), NEW s, s = GradeAll(Finish(x)),
           NEW new, new = FinalizeSession(rs, a, s, ExamResult(s))
    PROVE  RowsCoherent(new)
<1>1. /\ s \in Session
      /\ AllGraded(s.answers) /\ GradesAreCurrent(s.answers)
  BY FinishGrades
<1>2. /\ new[a].status = "finished"
      /\ new[a].snap = Snapshot(s)
      /\ new[a].score = RecordedScore(ExamResult(s))
      /\ OneBatch(new[a], s)
      /\ \A y \in Attempts \ {a} : new[y] = rs[y]
  BY <1>1, FinalizeRows
<1>3. RecordedScore(ExamResult(s)).correct = Cardinality(CorrectQuestions(s.answers))
  BY DEF RecordedScore, ExamResult
<1>4. RecordedScore(ExamResult(s)) # None
  BY <1>1, ResultType, StoreAssumption
<1>5. Snapshot(s) # None /\ Snapshot(s).answers = s.answers
  BY <1>1, SnapshotUnfinished
<1>6. RowCoherent(new[a])
  <2>1. PICK n \in Nat :
          new[a].batches = {[n |-> n, grades |-> [q \in Questions |-> s.answers[q].grade]]}
    BY <1>2 DEF OneBatch
  <2>2. \E b \in new[a].batches :
          /\ new[a].batches = {b}
          /\ b.grades = [q \in Questions |-> s.answers[q].grade]
    BY <2>1
  <2>3. ResultConsistent(new[a])
    BY <1>1, <1>2, <1>3, <1>4, <1>5, <2>2 DEF ResultConsistent
  <2> QED
    BY <1>2, <2>3 DEF RowCoherent, Active
<1>7. \A y \in Attempts \ {a} : RowCoherent(new[y])
  BY <1>2 DEF RowsCoherent
<1> QED
  BY <1>6, <1>7 DEF RowsCoherent
=============================================================================
