----------------------------- MODULE ExamStore -----------------------------
(***************************************************************************)
(* The exam_sessions and user_answers tables as exsim/session_store.py     *)
(* reads and writes them.  `rows' maps every engine_session_id (the column *)
(* is unique) to its row; a row that was never inserted is NoRow.          *)
(*                                                                         *)
(* The operators are whole transactions: they give the tables after the    *)
(* commit.  The desktop application calls them one at a time; ExamApi      *)
(* splits the same transactions at the points where another request thread *)
(* can run, with the row-level operators below.                            *)
(*                                                                         *)
(* Columns that copy a field of the snapshot for the dashboard             *)
(* (current_index, remaining_seconds, paused_at, ...) are left out, and so *)
(* is the user: there is one.                                              *)
(***************************************************************************)
EXTENDS ExamAttempt

CONSTANT Attempts       \* engine_session_ids

\* The answer rows one finalize_session writes: a grade for every question.
Batch == [n : Nat, grades : [Questions -> Grades]]

Score == [correct : 0..NumQuestions, passed : BOOLEAN]

ASSUME StoreAssumption ==
    /\ IsFiniteSet(Attempts)
    /\ None \notin Attempts
    /\ None \notin Session \cup SnapshotRecord \cup Score

Row ==
    [id       : Nat,                          \* insertion order; 0: no row
     status   : Statuses \cup {"absent"},
     snap     : SnapshotRecord \cup {None},   \* state_json
     score    : Score \cup {None},            \* score, passed, finished_at
     batches  : SUBSET Batch,                 \* user_answers of the row
     finishes : Nat]                          \* batches ever written for it

NoRow == [id |-> 0, status |-> "absent", snap |-> None, score |-> None,
          batches |-> {}, finishes |-> 0]

Inserted(rs) == {a \in Attempts : rs[a].status # "absent"}
ActiveAttempts(rs) == {a \in Attempts : rs[a].status \in Active}

-----------------------------------------------------------------------------
(* One row.                                                                *)

\* The row a transaction writes to: the one it found or a new one.
FoundOrNew(rs, a) ==
    IF rs[a].status = "absent"
    THEN [NoRow EXCEPT !.id = Cardinality(Inserted(rs)) + 1]
    ELSE rs[a]

\* upsert_active_session takes the status from the session and the rest from
\* the snapshot made before the transaction; it clears finished_at, score and
\* passed whatever the row was.
SaveActive(r, status, snap) ==
    [r EXCEPT !.status = status, !.snap = snap, !.score = None]

AbandonRow(r) == [r EXCEPT !.status = "abandoned", !.snap = None]

AnswerBatch(r, s) ==
    [n |-> r.finishes + 1, grades |-> [q \in Questions |-> s.answers[q].grade]]

RecordedScore(result) == [correct |-> result.correct, passed |-> result.passed]

\* MUTANT: the status column is left alone.
SaveFinishedNoStatus(r, s, snap, result) ==
    [r EXCEPT !.snap = snap, !.score = RecordedScore(result),
              !.batches = {AnswerBatch(r, s)}, !.finishes = @ + 1]

\* finalize_session: prior answer rows are dropped, one is written per question.
SaveFinished(r, s, snap, result) ==
    [r EXCEPT !.status   = "finished",
              !.snap     = snap,
              !.score    = RecordedScore(result),
              !.batches  = {AnswerBatch(r, s)},
              !.finishes = @ + 1]

-----------------------------------------------------------------------------
(* Whole transactions.                                                     *)

\* MUTANT: the other active rows are left alone.
UpsertOwnRowOnly(rs, a, s) ==
    [rs EXCEPT ![a] = SaveActive(FoundOrNew(rs, a), s.status, Snapshot(s))]

\* upsert_active_session: every other active row is abandoned first.
UpsertActiveSession(rs, a, s) ==
    [x \in Attempts |->
        IF x = a THEN SaveActive(FoundOrNew(rs, a), s.status, Snapshot(s))
        ELSE IF rs[x].status \in Active THEN AbandonRow(rs[x])
        ELSE rs[x]]

AbandonActiveSessions(rs) ==
    [x \in Attempts |->
        IF rs[x].status \in Active THEN AbandonRow(rs[x]) ELSE rs[x]]

FinalizeSession(rs, a, s, result) ==
    [rs EXCEPT ![a] = SaveFinished(FoundOrNew(rs, a), s, Snapshot(s), result)]

\* get_resumable_info: the latest active row, if it has a snapshot.
ResumableInfo(rs) ==
    {a \in ActiveAttempts(rs) :
        /\ \A b \in ActiveAttempts(rs) : rs[b].id <= rs[a].id
        /\ rs[a].snap # None}

\* load_session_by_id: a row of any status, if it has a snapshot.
CanLoadById(rs, a) == rs[a].snap # None

-----------------------------------------------------------------------------
(* What the tables should look like between transactions.                  *)

AtMostOneActive(rs) ==
    \A a, b \in ActiveAttempts(rs) : a = b

\* A finished row tells one story three times: the score column, the grades in
\* the snapshot (the review page) and the answer rows (the statistics).
ResultConsistent(r) ==
    r.status = "finished" =>
        /\ r.snap # None
        /\ r.score # None
        /\ AllGraded(r.snap.answers)
        /\ GradesAreCurrent(r.snap.answers)
        /\ r.score.correct = Cardinality(CorrectQuestions(r.snap.answers))
        /\ \E b \in r.batches :
              /\ r.batches = {b}
              /\ b.grades = [q \in Questions |-> r.snap.answers[q].grade]

\* What one user interface of exam-mode attempts keeps true of every row: an
\* active row holds a snapshot of an unfinished attempt in the same status, and
\* only a finished row has a score.
RowCoherent(r) ==
    /\ r.status \in Active =>
          r.snap # None /\ Unfinished(r.snap) /\ r.snap.status = r.status
    /\ r.status # "finished" => r.score = None
    /\ ResultConsistent(r)

RowsCoherent(rs) == \A a \in Attempts : RowCoherent(rs[a])
=============================================================================
