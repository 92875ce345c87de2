---------------------------- MODULE ExamAttempt ----------------------------
(***************************************************************************)
(* One exam attempt: the in-memory ExamSession of exsim/session.py with    *)
(* the operations its callers invoke, its JSON snapshot, and the scoring   *)
(* of exsim/scoring.py.  There are no variables here: the modules that     *)
(* hold attempts (the desktop exam page, the HTTP router, the store) apply *)
(* these operators to records they keep.                                   *)
(*                                                                         *)
(* A question is its position in the attempt: the question list is drawn   *)
(* once and never reordered.  An answer is right, wrong or None (cleared). *)
(* Every entry of `answers' is a cell; "absent" is the grade of a question *)
(* that has no entry in the dictionary yet.                                *)
(***************************************************************************)
EXTENDS Integers, FiniteSets

CONSTANTS
    NumQuestions,   \* length of the attempt's question list
    Answers,        \* the answers a user can give to a question
    Right,          \* the one that grades as correct
    None,           \* Python's None
    DefaultLimit,   \* ExamBank.time_limit_minutes when not given, in ticks
    DefaultPass     \* ExamBank.pass_score when not given, in percent

ASSUME AttemptAssumption ==
    /\ NumQuestions \in Nat \ {0}
    /\ Right \in Answers
    /\ None \notin Answers \cup Nat
    /\ DefaultLimit \in Nat \ {0}
    /\ DefaultPass \in 0..100

Questions == 0..(NumQuestions - 1)

Modes    == {"exam", "practice"}
Active   == {"in_progress", "paused"}
Statuses == Active \cup {"finished", "abandoned"}
Grades   == {"absent", "ungraded", "right", "wrong"}

Cell == [answer : Answers \cup {None}, grade : Grades]
NoEntry == [answer |-> None, grade |-> "absent"]

\* What the bank an attempt was drawn from demands of it.  limit = 0: untimed.
Terms == [limit : Nat, pass : 0..100]

Session ==
    [mode       : Modes,
     limit      : Nat,
     pass       : 0..100,
     index      : Questions,
     answers    : [Questions -> Cell],
     bookmarked : SUBSET Questions,
     marked     : SUBSET Questions,
     status     : Statuses,
     finished   : BOOLEAN,
     remaining  : Nat \cup {None}]

\* The snapshot keeps the time limit of the exam and not its pass mark.
SnapshotRecord ==
    [mode       : Modes,
     limit      : Nat,
     index      : Questions,
     answers    : [Questions -> Cell],
     bookmarked : SUBSET Questions,
     marked     : SUBSET Questions,
     status     : Statuses,
     finished   : BOOLEAN,
     remaining  : Nat \cup {None}]

-----------------------------------------------------------------------------
(* Operations of ExamSession.                                              *)

\* ExamSession.create: an untimed bank leaves the countdown at None.
Create(mode, terms) ==
    [mode       |-> mode,
     limit      |-> terms.limit,
     pass       |-> terms.pass,
     index      |-> 0,
     answers    |-> [q \in Questions |-> NoEntry],
     bookmarked |-> {},
     marked     |-> {},
     status     |-> "in_progress",
     finished   |-> FALSE,
     remaining  |-> IF terms.limit > 0 THEN terms.limit ELSE None]

\* grade_answer: an answer of None is wrong whatever the question.
GradeAnswer(a) == IF a = Right THEN "right" ELSE "wrong"

\* MUTANT: an answer is graded as it is given, whatever the mode.
SubmitAnswerGraded(s, q, a) ==
    [s EXCEPT !.answers[q] = [answer |-> a, grade |-> GradeAnswer(a)]]

\* MUTANT: a new answer inherits the grade of the answer it replaces.
SubmitAnswerKeepsGrade(s, q, a) ==
    [s EXCEPT !.answers[q] =
        [answer |-> a,
         grade  |-> IF @.grade \in {"right", "wrong"} THEN @.grade
                    ELSE IF s.mode = "practice" THEN GradeAnswer(a) ELSE "ungraded"]]

\* A new UserAnswer replaces the old one, grade included.
SubmitAnswer(s, q, a) ==
    [s EXCEPT !.answers[q] =
        [answer |-> a,
         grade  |-> IF s.mode = "practice" THEN GradeAnswer(a) ELSE "ungraded"]]

Toggle(set, q) == IF q \in set THEN set \ {q} ELSE set \cup {q}

ToggleBookmark(s, q)      == [s EXCEPT !.bookmarked = Toggle(@, q)]
ToggleMarkForReview(s, q) == [s EXCEPT !.marked = Toggle(@, q)]

GotoIndex(s, i) == [s EXCEPT !.index = i]
HasNext(s)      == s.index < NumQuestions - 1
HasPrevious(s)  == s.index > 0

IsFinished(s) == s.finished \/ s.status = "finished"
IsPaused(s)   == s.status = "paused"

\* remaining = None leaves the stored countdown alone.
WithRemaining(s, remaining) ==
    IF remaining = None THEN s ELSE [s EXCEPT !.remaining = remaining]

Pause(s, remaining) == [WithRemaining(s, remaining) EXCEPT !.status = "paused"]

Resume(s) == IF IsPaused(s) THEN [s EXCEPT !.status = "in_progress"] ELSE s

Finish(s) == [s EXCEPT !.finished = TRUE, !.status = "finished"]

-----------------------------------------------------------------------------
(* Snapshot and restore.                                                   *)

Snapshot(s) ==
    [mode       |-> s.mode,
     limit      |-> s.limit,
     index      |-> s.index,
     answers    |-> s.answers,
     bookmarked |-> s.bookmarked,
     marked     |-> s.marked,
     status     |-> s.status,
     finished   |-> s.finished,
     remaining  |-> s.remaining]

\* MUTANT: every restored attempt is in progress again.
RestoreReopened(snap) ==
    [mode |-> snap.mode, limit |-> snap.limit, pass |-> DefaultPass, index |-> snap.index,
     answers |-> snap.answers, bookmarked |-> snap.bookmarked, marked |-> snap.marked,
     status |-> "in_progress", finished |-> FALSE, remaining |-> snap.remaining]

\* from_snapshot without a bank, as every caller of it does: the pass mark is
\* the bank default, a limit of 0 becomes the default limit, and an index
\* outside the question list becomes 0.
Restore(snap) ==
    [mode       |-> snap.mode,
     limit      |-> IF snap.limit = 0 THEN DefaultLimit ELSE snap.limit,
     pass       |-> DefaultPass,
     index      |-> IF snap.index \in Questions THEN snap.index ELSE 0,
     answers    |-> snap.answers,
     bookmarked |-> snap.bookmarked,
     marked     |-> snap.marked,
     status     |-> snap.status,
     finished   |-> snap.finished,
     remaining  |-> snap.remaining]

-----------------------------------------------------------------------------
(* Scoring.                                                                *)

\* MUTANT: scoring counts the grades it finds and grades nothing.
GradeCellNever(c) == c

GradeCell(c) ==
    IF c.grade = "ungraded" THEN [c EXCEPT !.grade = GradeAnswer(c.answer)] ELSE c

\* score_exam grades what is not graded yet, in place ...
GradeAll(s) == [s EXCEPT !.answers = [q \in Questions |-> GradeCell(s.answers[q])]]

CorrectQuestions(answers)  == {q \in Questions : answers[q].grade = "right"}
AnsweredQuestions(answers) == {q \in Questions : answers[q].answer # None}

ReachesMark(correct, pass) == correct * 100 >= pass * NumQuestions

\* ... and then counts the grades.
ExamResult(s) ==
    LET correct  == Cardinality(CorrectQuestions(s.answers))
        answered == Cardinality(AnsweredQuestions(s.answers))
    IN  [correct    |-> correct,
         incorrect  |-> answered - correct,
         unanswered |-> NumQuestions - answered,
         passed     |-> ReachesMark(correct, s.pass)]

-----------------------------------------------------------------------------
(* Predicates on one attempt that its owners' invariants are built from.   *)

\* A cell's grade is the grade of the answer it holds, never of an earlier one.
GradeIsCurrent(c) ==
    /\ c.grade = "absent" => c.answer = None
    /\ c.grade \in {"right", "wrong"} => c.grade = GradeAnswer(c.answer)

GradesAreCurrent(answers) == \A q \in Questions : GradeIsCurrent(answers[q])

\* No answer has been graded.
NoGrades(answers) == \A q \in Questions : answers[q].grade \in {"absent", "ungraded"}

\* An exam-mode attempt before its finish, as a session or as a snapshot.
Unfinished(s) ==
    /\ s.mode = "exam"
    /\ s.status \in Active
    /\ ~s.finished
    /\ NoGrades(s.answers)
    /\ GradesAreCurrent(s.answers)

\* No answer is waiting for a grade.
AllGraded(answers) == \A q \in Questions : answers[q].grade # "ungraded"
=============================================================================
