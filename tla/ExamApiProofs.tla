--------------------------- MODULE ExamApiProofs ---------------------------
(***************************************************************************)
(* Theorems about ExamApi.  For any number of threads: types, and grades   *)
(* that are those of their answers.  For requests that do not overlap: one *)
(* active attempt, results that agree and stay, and a cache that is saved. *)
(***************************************************************************)
EXTENDS ExamApi, ExamStoreLemmas

-----------------------------------------------------------------------------
(* Any number of threads: the invariant.                                   *)

\* The steps of a request from which it has found its session object.
Holding == {"apply", "persist", "others", "own", "commit", "finalize", "closing", "evict"}

\* What a request holds when.
GoodRequest(r) ==
    /\ r \in Request
    /\ r.pc # "idle" => r.a \in Attempts
    /\ r.pc \in {"lookup", "restore", "apply"} => r.op \in Ops
    /\ r.pc \in Holding => r.h \in Handles
    /\ r.pc \in {"restore", "others", "own"} => r.snap # None
    /\ r.pc = "finalize" => r.result \in Result
    /\ r.pc = "closing" => \E b \in r.wrote.batches : r.wrote.batches = {b}
    /\ r.snap # None => GradesAreCurrent(r.snap.answers)
    /\ r.wrote.snap # None => GradesAreCurrent(r.wrote.snap.answers)

GoodSession(s) == s \in Session /\ GradesAreCurrent(s.answers)
GoodObjects(hp) == hp \in [Handles -> Session \cup {None}] /\ \A h \in Handles : hp[h] # None => GoodSession(hp[h])
GoodRow(r) == r \in Row /\ (r.snap # None => GradesAreCurrent(r.snap.answers))
GoodRows(rs) == rs \in Tables /\ \A a \in Attempts : GoodRow(rs[a])
GoodRequests(rq) == rq \in [Threads -> Request] /\ \A t \in Threads : GoodRequest(rq[t])

\* Nothing that is pointed to has been collected.
Live(hp, c, rq) ==
    /\ \A a \in Attempts : c[a] # None => hp[c[a]] # None
    /\ \A t \in Threads : rq[t].h # None => hp[rq[t].h] # None

GoodCounts ==
    /\ cache \in [Attempts -> Handles \cup {None}]
    /\ writer \in Threads \cup {None}
    /\ requests \in Nat /\ restarts \in Nat /\ faults \in Nat

ApiInv ==
    /\ GoodRows(rows) /\ GoodObjects(heap) /\ GoodRequests(req)
    /\ Live(heap, cache, req)
    /\ GoodCounts

(* The invariant says what the runs check. *)
LEMMA ApiInvImplies == ApiInv => TypeOK /\ GradesCurrent
  BY DEF ApiInv, TypeOK, GradesCurrent, GoodRows, GoodRow, GoodObjects, GoodSession, GoodRequests,
         GoodRequest, GoodCounts, Tables

-----------------------------------------------------------------------------
(* Sessions and rows.                                                      *)

(* None is no object and no snapshot. *)
LEMMA NoneIsNothing ==
    /\ None \notin Session /\ None \notin SnapshotRecord /\ None \notin Score
    /\ None \notin Attempts /\ None \notin Threads /\ None \notin Handles
<1>1. None \notin Handles
  BY AttemptAssumption, ApiAssumption DEF Handles
<1> QED
  BY <1>1, StoreAssumption, ApiAssumption

(* What a request may ask, by its kind. *)
LEMMA OpsByKind ==
    ASSUME NEW op \in Ops
    PROVE  /\ op \in OpRecord
           /\ op.kind \in {"get", "resume", "finish", "review", "goto", "answer", "bookmark",
                           "mark", "pause"}
           /\ op.kind = "answer" => op.arg \in Answers \cup {None}
           /\ op.kind \in {"bookmark", "mark"} => op.q \in Questions
           /\ op.kind = "pause" => op.arg \in Nat \cup {None}
<1>1. Questions \subseteq 0..NumQuestions /\ 0 \in 0..NumQuestions
  BY AttemptAssumption DEF Questions
<1> QED
  BY <1>1, ApiAssumption DEF Ops, Op, OpRecord

(* A handler's change to a session pairs no answer with the grade of another. *)
LEMMA AppliedGood ==
    ASSUME NEW s, GoodSession(s), NEW op \in Ops, ~Rejected(s, op)
    PROVE  GoodSession(Applied(s, op))
<1> USE DEF GoodSession
<1>1. CASE op.kind = "get"
  BY <1>1 DEF Applied
<1>2. CASE op.kind \in {"goto", "bookmark", "mark"}
  <2>1. op.q \in Questions
    BY <1>2, OpsByKind DEF Rejected
  <2>2. Applied(s, op) \in {GotoIndex(s, op.q), ToggleBookmark(s, op.q), ToggleMarkForReview(s, op.q)}
    BY <1>2 DEF Applied
  <2>3. /\ GotoIndex(s, op.q).answers = s.answers
        /\ ToggleBookmark(s, op.q).answers = s.answers
        /\ ToggleMarkForReview(s, op.q).answers = s.answers
    BY DEF GotoIndex, ToggleBookmark, ToggleMarkForReview, Session
  <2> QED
    BY <2>1, <2>2, <2>3, MarkType
<1>3. CASE op.kind = "answer"
  <2>1. op.q \in Questions /\ op.arg \in Answers \cup {None}
    BY <1>3, OpsByKind DEF Rejected
  <2>2. Applied(s, op) = SubmitAnswer(s, op.q, op.arg)
    BY <1>3 DEF Applied
  <2>3. GradesAreCurrent(SubmitAnswer(s, op.q, op.arg).answers)
    <3> DEFINE c == [answer |-> op.arg, grade |-> IF s.mode = "practice" THEN GradeAnswer(op.arg) ELSE "ungraded"]
    <3>1. SubmitAnswer(s, op.q, op.arg).answers = [s.answers EXCEPT ![op.q] = c]
      BY DEF SubmitAnswer, Session
    <3>2. GradeIsCurrent(c)
      BY DEF GradeIsCurrent, GradeAnswer
    <3> HIDE DEF c
    <3> QED
      BY <2>1, <3>1, <3>2 DEF GradesAreCurrent, Session
  <2> QED
    BY <2>1, <2>2, <2>3, SubmitType
<1>4. CASE op.kind \in {"pause", "resume"}
  <2>1. op.kind = "pause" => op.arg \in Nat \cup {None}
    BY OpsByKind
  <2>2. /\ op.kind = "pause" => Applied(s, op) = Pause(s, op.arg)
        /\ op.kind = "resume" => Applied(s, op) = Resume(s)
    BY DEF Applied
  <2>3. Pause(s, op.arg).answers = s.answers /\ Resume(s).answers = s.answers
    BY DEF Pause, WithRemaining, Resume, IsPaused, Session
  <2> QED
    BY <1>4, <2>1, <2>2, <2>3, StatusType
<1>5. CASE op.kind \in {"finish", "review"}
  <2>1. /\ Finish(s) \in Session /\ Finish(s).answers = s.answers
    BY StatusType
  <2>2. \A x \in Session : GradesAreCurrent(x.answers) => GradesAreCurrent(GradeAll(x).answers)
    BY DEF GradeAll, GradeCell, GradeAnswer, GradesAreCurrent, GradeIsCurrent, Session, Cell, Grades
  <2>3. Applied(s, op) \in {GradeAll(s), GradeAll(Finish(s))}
    BY <1>5 DEF Applied
  <2> QED
    BY <2>1, <2>2, <2>3, GradeAllType
<1> QED
  BY <1>1, <1>2, <1>3, <1>4, <1>5, OpsByKind

(* So is a new session and one restored from a snapshot. *)
LEMMA NewSessionGood ==
    /\ \A m \in Modes, e \in Terms : GoodSession(Create(m, e))
    /\ \A snap \in SnapshotRecord : GradesAreCurrent(snap.answers) => GoodSession(Restore(snap))
<1>1. \A m \in Modes, e \in Terms : GradesAreCurrent(Create(m, e).answers)
  BY DEF Create, GradesAreCurrent, GradeIsCurrent, NoEntry
<1> QED
  BY <1>1, CreateType, RestoreType DEF GoodSession

(* A snapshot is what a row can hold. *)
LEMMA SnapshotGood ==
    ASSUME NEW s, GoodSession(s)
    PROVE  /\ Snapshot(s) \in SnapshotRecord /\ Snapshot(s) # None
           /\ GradesAreCurrent(Snapshot(s).answers)
  BY SnapshotType, SnapshotUnfinished DEF GoodSession

(* The rows a transaction may write, alone or merged into what it finds. *)
LEMMA RowsGood ==
    /\ GoodRow(NoRow)
    /\ \A rs, a : GoodRows(rs) /\ a \in Attempts => GoodRow(FoundOrNew(rs, a))
    /\ \A r : GoodRow(r) => GoodRow(AbandonRow(r))
<1>1. GoodRow(NoRow)
  BY RowType DEF GoodRow, NoRow
<1>2. ASSUME NEW rs, GoodRows(rs), NEW a \in Attempts
      PROVE  GoodRow(FoundOrNew(rs, a))
  <2>1. FoundOrNew(rs, a) \in Row
    BY <1>2, RowType DEF GoodRows
  <2>2. FoundOrNew(rs, a).snap \in {None, rs[a].snap}
    BY DEF FoundOrNew, NoRow
  <2> QED
    BY <1>2, <2>1, <2>2 DEF GoodRow, GoodRows, FoundOrNew
<1>3. ASSUME NEW r, GoodRow(r)
      PROVE  GoodRow(AbandonRow(r))
  BY <1>3 DEF GoodRow, AbandonRow, Row, Statuses
<1> QED
  BY <1>1, <1>2, <1>3

LEMMA SaveActiveGood ==
    ASSUME NEW r, GoodRow(r), NEW st \in Statuses, NEW snap \in SnapshotRecord,
           GradesAreCurrent(snap.answers)
    PROVE  GoodRow(SaveActive(r, st, snap))
<1>1. SaveActive(r, st, snap).snap = snap
  BY DEF SaveActive, GoodRow, Row
<1> QED
  BY <1>1, ActiveRowType DEF GoodRow

LEMMA MergedGood ==
    ASSUME NEW current, GoodRow(current), NEW loaded, NEW wrote, GoodRow(wrote)
    PROVE  GoodRow(Merged(current, loaded, wrote))
<1> DEFINE m == Merged(current, loaded, wrote)
<1>1. /\ m.status \in {current.status, wrote.status}
      /\ m.snap \in {current.snap, wrote.snap}
      /\ m.score \in {current.score, wrote.score}
      /\ m = [current EXCEPT !.status = m.status, !.snap = m.snap, !.score = m.score]
  BY DEF Merged, Column, GoodRow, Row
<1>2. m \in Row
  BY <1>1 DEF GoodRow, Row
<1> QED
  BY <1>1, <1>2 DEF GoodRow

-----------------------------------------------------------------------------
(* Requests and objects.                                                   *)

LEMMA IdleGood == GoodRequest(Idle) /\ Idle.h = None /\ Idle.pc = "idle" /\ Idle.snap = None
  BY RowType DEF GoodRequest, Idle, Request, Holding, NoRow

(* Only thread t goes on. *)
LEMMA RequestStep ==
    ASSUME GoodRequests(req), NEW t \in Threads, NEW r, GoodRequest(r), req' = [req EXCEPT ![t] = r]
    PROVE  /\ GoodRequests(req')
           /\ req'[t] = r /\ \A u \in Threads \ {t} : req'[u] = req[u]
  BY DEF GoodRequests, GoodRequest

(* What is collected is pointed to by nothing. *)
LEMMA CollectedGood ==
    ASSUME NEW hp, GoodObjects(hp), NEW c \in [Attempts -> Handles \cup {None}],
           NEW rq, GoodRequests(rq), Live(hp, c, rq)
    PROVE  /\ GoodObjects(Collected(hp, c, rq))
           /\ Live(Collected(hp, c, rq), c, rq)
<1>1. \A h \in Handles : Collected(hp, c, rq)[h] \in {hp[h], None}
  BY DEF Collected
<1>2. Collected(hp, c, rq) \in [Handles -> Session \cup {None}]
  BY DEF Collected, GoodObjects
<1>3. \A a \in Attempts : c[a] # None => Collected(hp, c, rq)[c[a]] = hp[c[a]]
  BY DEF Collected
<1>4. \A t \in Threads : rq[t].h # None => Collected(hp, c, rq)[rq[t].h] = hp[rq[t].h]
  BY DEF Collected, GoodRequests, Request
<1> QED
  BY <1>1, <1>2, <1>3, <1>4 DEF GoodObjects, Live

\* The part of the invariant that a request can disturb without a commit.
ObjectsInv == GoodObjects(heap) /\ GoodRequests(req) /\ Live(heap, cache, req)

(* A response leaves the others' requests and objects as they are. *)
LEMMA RespondStep ==
    ASSUME ApiInv, NEW t \in Threads, Respond(t), UNCHANGED cache
    PROVE  ObjectsInv'
<1>1. GoodRequests(req') /\ req'[t] = Idle /\ \A u \in Threads \ {t} : req'[u] = req[u]
  BY IdleGood, RequestStep DEF Respond, ApiInv
<1>2. Live(heap, cache', req')
  BY <1>1, IdleGood DEF Live, ApiInv
<1>3. heap' = Collected(heap, cache', req')
  BY DEF Respond
<1>4. cache' \in [Attempts -> Handles \cup {None}]
  BY DEF ApiInv, GoodCounts
<1> QED
  BY <1>1, <1>2, <1>3, <1>4, CollectedGood DEF ApiInv, ObjectsInv

(* A request that goes on with its object, or with none yet. *)
LEMMA GoOnStep ==
    ASSUME ApiInv, NEW t \in Threads, NEW r, GoodRequest(r), GoOn(t, r),
           r.h \in {req[t].h, None}, UNCHANGED <<cache, heap>>
    PROVE  ObjectsInv'
<1>1. GoodRequests(req') /\ req'[t] = r /\ \A u \in Threads \ {t} : req'[u] = req[u]
  BY RequestStep DEF GoOn, ApiInv
<1> QED
  BY <1>1 DEF Live, ApiInv, ObjectsInv

(* A request that stores an object, new or changed, and may give it to the cache. *)
LEMMA ObjectStep ==
    ASSUME ApiInv, NEW t \in Threads, NEW r, GoodRequest(r), req' = [req EXCEPT ![t] = r],
           NEW h \in Handles, r.h \in {req[t].h, h, None},
           NEW s, GoodSession(s),
           cache' \in [Attempts -> Handles \cup {None}],
           \A a \in Attempts : cache'[a] \in {cache[a], h, None},
           heap' \in {[heap EXCEPT ![h] = s], Collected([heap EXCEPT ![h] = s], cache', req')}
    PROVE  ObjectsInv'
<1> DEFINE hp == [heap EXCEPT ![h] = s]
<1>1. GoodRequests(req') /\ req'[t] = r /\ \A u \in Threads \ {t} : req'[u] = req[u]
  BY RequestStep DEF ApiInv
<1>2. s # None
  BY NoneIsNothing DEF GoodSession
<1>3. GoodObjects(hp)
  BY DEF ApiInv, GoodObjects, GoodSession
<1>4. \A g \in Handles : heap[g] # None => hp[g] # None
  BY <1>2 DEF ApiInv, GoodObjects
<1>5. hp[h] # None
  BY <1>2 DEF ApiInv, GoodObjects
<1>6. Live(hp, cache', req')
  <2>1. \A a \in Attempts : cache'[a] # None => hp[cache'[a]] # None
    BY <1>4, <1>5 DEF ApiInv, Live, GoodCounts
  <2>2. \A u \in Threads : req[u].h # None => hp[req[u].h] # None
    BY <1>4 DEF ApiInv, Live, GoodRequests, GoodRequest, Request
  <2> QED
    BY <1>1, <1>5, <2>1, <2>2 DEF Live
<1> HIDE DEF hp
<1>7. CASE heap' = hp
  BY <1>1, <1>3, <1>6, <1>7 DEF ObjectsInv
<1>8. CASE heap' = Collected(hp, cache', req')
  BY <1>1, <1>3, <1>6, <1>8, CollectedGood DEF ObjectsInv
<1> QED
  BY <1>7, <1>8 DEF hp

(* A new object is one nothing points to. *)
LEMMA NewHandleFree ==
    ASSUME ApiInv, FreeHandles # {}
    PROVE  /\ NewHandle \in Handles /\ heap[NewHandle] = None
           /\ \A a \in Attempts : cache[a] # NewHandle
           /\ \A t \in Threads : req[t].h # NewHandle
<1>1. NewHandle \in Handles /\ heap[NewHandle] = None
  BY DEF NewHandle, FreeHandles
<1>2. NewHandle # None
  BY <1>1, NoneIsNothing
<1> QED
  BY <1>1, <1>2 DEF ApiInv, Live

(* The object of a request that has found one. *)
LEMMA ObjectOf ==
    ASSUME ApiInv, NEW t \in Threads, req[t].pc \in Holding
    PROVE  /\ GoodRequest(req[t]) /\ req[t].h \in Handles /\ req[t].a \in Attempts
           /\ GoodSession(Obj(t)) /\ Obj(t) \in Session
<1>1. GoodRequest(req[t]) /\ req[t].h \in Handles /\ req[t].a \in Attempts
  BY DEF ApiInv, GoodRequests, GoodRequest, Holding
<1>2. req[t].h # None
  BY <1>1, NoneIsNothing
<1> QED
  BY <1>1, <1>2 DEF ApiInv, Live, Obj, GoodObjects, GoodSession

(* What score_exam returns. *)
LEMMA ExamResultType ==
    ASSUME NEW s \in Session
    PROVE  ExamResult(s) \in Result
<1>1. /\ Cardinality(CorrectQuestions(s.answers)) \in 0..NumQuestions
      /\ Cardinality(AnsweredQuestions(s.answers)) \in 0..NumQuestions
  BY CountOfQuestions DEF CorrectQuestions, AnsweredQuestions
<1>2. ReachesMark(Cardinality(CorrectQuestions(s.answers)), s.pass) \in BOOLEAN
  BY DEF ReachesMark
<1> QED
  BY <1>1, <1>2, AttemptAssumption DEF ExamResult, Result

-----------------------------------------------------------------------------
(* The steps.                                                              *)

LEMMA CreateKeeps ==
    ASSUME ApiInv, NEW t \in Threads, NEW a \in Attempts, NEW m \in ModesOffered,
           NEW e \in Offered, CreateSession(t, a, m, e)
    PROVE  ApiInv'
<1> DEFINE r == [Idle EXCEPT !.pc = "persist", !.op = Op("create", 0, None), !.a = a, !.h = NewHandle]
<1>1. NewHandle \in Handles
  BY NewHandleFree DEF CreateSession
<1>2. GoodRequest(r) /\ r.h = NewHandle
  <2>1. Op("create", 0, None) \in OpRecord
    BY AttemptAssumption DEF Op, OpRecord
  <2> QED
    BY <1>1, <2>1, RowType DEF GoodRequest, Idle, Request, Holding, NoRow
<1>3. GoodSession(Create(m, e))
  BY NewSessionGood, ApiAssumption
<1>4. req' = [req EXCEPT ![t] = r]
  BY DEF CreateSession, GoOn
<1> HIDE DEF r
<1>5. /\ heap' = [heap EXCEPT ![NewHandle] = Create(m, e)]
      /\ cache' = [cache EXCEPT ![a] = NewHandle]
  BY DEF CreateSession
<1>6. /\ cache' \in [Attempts -> Handles \cup {None}]
      /\ \A x \in Attempts : cache'[x] \in {cache[x], NewHandle, None}
  BY <1>1, <1>5 DEF ApiInv, GoodCounts
<1>7. ObjectsInv'
  BY <1>1, <1>2, <1>3, <1>4, <1>5, <1>6, ObjectStep
<1>8. GoodRows(rows') /\ GoodCounts'
  BY <1>6 DEF CreateSession, Receive, ApiInv, GoodCounts
<1> QED
  BY <1>7, <1>8 DEF ApiInv, ObjectsInv

LEMMA ReceiveKeeps ==
    ASSUME ApiInv, NEW t \in Threads, NEW a \in Attempts, NEW op \in Ops, ReceiveOp(t, a, op)
    PROVE  ApiInv'
<1> DEFINE r == [Idle EXCEPT !.pc = "lookup", !.op = op, !.a = a]
<1>1. GoodRequest(r) /\ r.h = None
  BY RowType, OpsByKind DEF GoodRequest, Idle, Request, Holding, NoRow
<1>2. GoOn(t, r) /\ UNCHANGED <<cache, heap>>
  BY DEF ReceiveOp
<1> HIDE DEF r
<1>3. ObjectsInv'
  BY <1>1, <1>2, GoOnStep
<1>4. GoodRows(rows') /\ GoodCounts'
  BY DEF ReceiveOp, Receive, ApiInv, GoodCounts
<1> QED
  BY <1>3, <1>4 DEF ApiInv, ObjectsInv

LEMMA LookupKeeps ==
    ASSUME ApiInv, NEW t \in Threads, LookupHit(t) \/ LookupRow(t) \/ LookupMiss(t)
    PROVE  ApiInv'
<1>1. req[t].pc = "lookup" /\ GoodRequest(req[t]) /\ req[t].a \in Attempts
  BY DEF LookupHit, LookupRow, LookupMiss, ApiInv, GoodRequests, GoodRequest
<1>2. CASE LookupHit(t)
  <2> DEFINE r == [req[t] EXCEPT !.pc = "apply", !.h = cache[req[t].a]]
  <2>1. cache[req[t].a] \in Handles
    BY <1>1, <1>2 DEF LookupHit, ApiInv, GoodCounts
  <2>2. GoodRequest(r) /\ r.h = cache[req[t].a]
    BY <1>1, <2>1 DEF GoodRequest, Request, Holding
  <2>3. heap[cache[req[t].a]] # None
    BY <1>1, <1>2 DEF LookupHit, ApiInv, Live
  <2>4. GoodRequests(req') /\ req'[t] = r /\ \A u \in Threads \ {t} : req'[u] = req[u]
    BY <1>2, <2>2, RequestStep DEF LookupHit, GoOn, ApiInv
  <2> HIDE DEF r
  <2>5. Live(heap', cache', req')
    BY <1>2, <2>2, <2>3, <2>4 DEF LookupHit, ApiInv, Live
  <2> QED
    BY <1>2, <2>4, <2>5 DEF LookupHit, ApiInv, GoodCounts, counts
<1>3. CASE LookupRow(t)
  <2> DEFINE r == [req[t] EXCEPT !.pc = "restore", !.snap = rows[req[t].a].snap]
  <2>1. GoodRow(rows[req[t].a]) /\ rows[req[t].a].snap # None
    BY <1>1, <1>3 DEF LookupRow, CanLoadById, ApiInv, GoodRows
  <2>2. GoodRequest(r) /\ r.h = req[t].h
    BY <1>1, <2>1 DEF GoodRequest, Request, Holding, GoodRow, Row
  <2>3. ObjectsInv'
    BY <1>3, <2>2, GoOnStep DEF LookupRow
  <2> QED
    BY <1>3, <2>3 DEF LookupRow, ApiInv, ObjectsInv, GoodCounts, counts
<1>4. CASE LookupMiss(t)
  BY <1>4, RespondStep DEF LookupMiss, ApiInv, ObjectsInv, GoodCounts, counts
<1> QED
  BY <1>2, <1>3, <1>4

LEMMA RestoreKeeps ==
    ASSUME ApiInv, NEW t \in Threads, CacheRestored(t)
    PROVE  ApiInv'
<1> DEFINE r == [req[t] EXCEPT !.pc = "apply", !.h = NewHandle, !.snap = None]
<1>1. /\ GoodRequest(req[t]) /\ req[t].pc = "restore" /\ req[t].a \in Attempts
      /\ req[t].snap \in SnapshotRecord /\ GradesAreCurrent(req[t].snap.answers)
  BY DEF CacheRestored, ApiInv, GoodRequests, GoodRequest, Request
<1>2. NewHandle \in Handles
  BY NewHandleFree DEF CacheRestored
<1>3. GoodSession(Restore(req[t].snap))
  BY <1>1, NewSessionGood
<1>4. GoodRequest(r) /\ r.h = NewHandle
  BY <1>1, <1>2 DEF GoodRequest, Request, Holding
<1>5. cache' = [cache EXCEPT ![req[t].a] = NewHandle] /\ req' = [req EXCEPT ![t] = r]
  BY DEF CacheRestored, GoOn
<1>6. /\ cache' \in [Attempts -> Handles \cup {None}]
      /\ \A x \in Attempts : cache'[x] \in {cache[x], NewHandle, None}
  BY <1>1, <1>2, <1>5 DEF ApiInv, GoodCounts
<1> HIDE DEF r
<1>7. heap' = Collected([heap EXCEPT ![NewHandle] = Restore(req[t].snap)], cache', req')
  BY DEF CacheRestored
<1>8. ObjectsInv'
  BY <1>2, <1>3, <1>4, <1>5, <1>6, <1>7, ObjectStep
<1> QED
  BY <1>6, <1>8 DEF CacheRestored, ApiInv, ObjectsInv, GoodCounts, counts

LEMMA ApplyKeeps ==
    ASSUME ApiInv, NEW t \in Threads,
           Reject(t) \/ ApplyRead(t) \/ ApplyChange(t) \/ ApplyFinish(t)
    PROVE  ApiInv'
<1>1. /\ req[t].pc = "apply" /\ GoodRequest(req[t]) /\ req[t].op \in Ops
      /\ req[t].h \in Handles /\ GoodSession(Obj(t))
  BY ObjectOf DEF Reject, ApplyRead, ApplyChange, ApplyFinish, Holding, GoodRequest
<1>2. ~Rejected(Obj(t), req[t].op) => GoodSession(Applied(Obj(t), req[t].op))
  BY <1>1, AppliedGood
<1>3. UNCHANGED <<rows, cache, writer, counts>>
  BY DEF Reject, ApplyRead, ApplyChange, ApplyFinish
<1>4. /\ cache' \in [Attempts -> Handles \cup {None}]
      /\ \A a \in Attempts : cache'[a] \in {cache[a], req[t].h, None}
  BY <1>3 DEF ApiInv, GoodCounts
<1>5. CASE Reject(t)
  <2>1. ObjectsInv'
    BY <1>3, <1>5, RespondStep DEF Reject
  <2> QED
    BY <1>3, <2>1 DEF ApiInv, ObjectsInv, GoodCounts, counts
<1>6. CASE ApplyRead(t)
  <2>1. ~Rejected(Obj(t), req[t].op) /\ req' = [req EXCEPT ![t] = Idle]
        /\ heap' = Collected([heap EXCEPT ![req[t].h] = Applied(Obj(t), req[t].op)], cache', req')
    BY <1>3, <1>6 DEF ApplyRead
  <2>2. ObjectsInv'
    BY <1>1, <1>2, <1>4, <2>1, IdleGood, ObjectStep
  <2> QED
    BY <1>3, <2>2 DEF ApiInv, ObjectsInv, GoodCounts, counts
<1>7. CASE ApplyChange(t)
  <2> DEFINE r == [req[t] EXCEPT !.pc = "persist"]
  <2>1. GoodRequest(r) /\ r.h = req[t].h
    BY <1>1 DEF GoodRequest, Request, Holding
  <2>2. ~Rejected(Obj(t), req[t].op) /\ req' = [req EXCEPT ![t] = r]
        /\ heap' = [heap EXCEPT ![req[t].h] = Applied(Obj(t), req[t].op)]
    BY <1>7 DEF ApplyChange, GoOn, Obj
  <2> HIDE DEF r
  <2>3. ObjectsInv'
    BY <1>1, <1>2, <1>4, <2>1, <2>2, ObjectStep
  <2> QED
    BY <1>3, <2>3 DEF ApiInv, ObjectsInv, GoodCounts, counts
<1>8. CASE ApplyFinish(t)
  <2> DEFINE s == Applied(Obj(t), req[t].op)
             r == [req[t] EXCEPT !.pc = "finalize", !.result = ExamResult(s)]
  <2>1. GoodSession(s)
    BY <1>1, <1>2, <1>8 DEF ApplyFinish, Rejected
  <2>2. req' = [req EXCEPT ![t] = r] /\ heap' = [heap EXCEPT ![req[t].h] = s]
    BY <1>8 DEF ApplyFinish, GoOn
  <2> HIDE DEF s
  <2>3. ExamResult(s) \in Result
    BY <2>1, ExamResultType DEF GoodSession
  <2>4. GoodRequest(r) /\ r.h = req[t].h
    BY <1>1, <2>3 DEF GoodRequest, Request, Holding
  <2> HIDE DEF r
  <2>5. ObjectsInv'
    BY <1>1, <1>4, <2>1, <2>2, <2>4, ObjectStep
  <2> QED
    BY <1>3, <2>5 DEF ApiInv, ObjectsInv, GoodCounts, counts
<1> QED
  BY <1>5, <1>6, <1>7, <1>8

LEMMA PersistKeeps ==
    ASSUME ApiInv, NEW t \in Threads,
           SkipFinished(t) \/ TakeSnapshot(t) \/ SelectOthers(t) \/ SelectOwn(t)
    PROVE  ApiInv'
<1>1. /\ req[t].pc \in {"persist", "others", "own"} /\ GoodRequest(req[t])
      /\ req[t].h \in Handles /\ req[t].a \in Attempts /\ GoodSession(Obj(t))
  BY ObjectOf DEF SkipFinished, TakeSnapshot, SelectOthers, SelectOwn, Holding
<1>2. UNCHANGED <<rows, cache, counts>>
  BY DEF SkipFinished, TakeSnapshot, SelectOthers, SelectOwn
<1>3. writer' \in Threads \cup {None}
  BY DEF SkipFinished, TakeSnapshot, SelectOthers, SelectOwn, ApiInv, GoodCounts
<1>4. ObjectsInv'
  <2>1. CASE SkipFinished(t)
    BY <2>1, RespondStep DEF SkipFinished
  <2>2. CASE TakeSnapshot(t)
    <3> DEFINE r == [req[t] EXCEPT !.pc = "others", !.snap = Snapshot(Obj(t))]
    <3>1. GoodRequest(r) /\ r.h = req[t].h
      BY <1>1, SnapshotGood DEF GoodRequest, Request, Holding
    <3>2. GoOn(t, r) /\ UNCHANGED <<cache, heap>>
      BY <2>2 DEF TakeSnapshot
    <3> HIDE DEF r
    <3> QED
      BY <3>1, <3>2, GoOnStep
  <2>3. CASE SelectOthers(t)
    <3> DEFINE r == [req[t] EXCEPT !.pc = "own", !.others = ActiveAttempts(rows) \ {req[t].a}]
    <3>1. GoodRequest(r) /\ r.h = req[t].h
      BY <1>1, <2>3 DEF SelectOthers, ActiveAttempts, GoodRequest, Request, Holding
    <3>2. GoOn(t, r) /\ UNCHANGED <<cache, heap>>
      BY <2>3 DEF SelectOthers
    <3> HIDE DEF r
    <3> QED
      BY <3>1, <3>2, GoOnStep
  <2>4. CASE SelectOwn(t)
    <3> DEFINE w == SaveActive(FoundOrNew(rows, req[t].a), Obj(t).status, req[t].snap)
               r == [req[t] EXCEPT !.pc = "commit", !.loaded = rows[req[t].a], !.wrote = w]
    <3>1. /\ req[t].snap \in SnapshotRecord /\ GradesAreCurrent(req[t].snap.answers)
          /\ Obj(t).status \in Statuses
      BY <1>1, <2>4 DEF SelectOwn, GoodRequest, Request, GoodSession, Session
    <3>2. GoodRow(w) /\ GoodRow(rows[req[t].a])
      BY <1>1, <3>1, RowsGood, SaveActiveGood DEF ApiInv, GoodRows
    <3>3. GoOn(t, r) /\ UNCHANGED <<cache, heap>>
      BY <2>4 DEF SelectOwn
    <3> HIDE DEF w
    <3>4. GoodRequest(r) /\ r.h = req[t].h
      BY <1>1, <3>2 DEF GoodRequest, Request, Holding, GoodRow
    <3> HIDE DEF r
    <3> QED
      BY <3>3, <3>4, GoOnStep
  <2> QED
    BY <2>1, <2>2, <2>3, <2>4
<1> QED
  BY <1>2, <1>3, <1>4 DEF ApiInv, ObjectsInv, GoodCounts, counts

(* The response of a commit: rows and the lock are the commit's. *)
LEMMA CommitKeeps ==
    ASSUME ApiInv, NEW t \in Threads, CommitUpsert(t)
    PROVE  ApiInv'
<1>1. /\ GoodRequest(req[t]) /\ req[t].a \in Attempts
      /\ GoodRow(req[t].wrote) /\ GoodRow(rows[req[t].a])
  BY ObjectOf DEF CommitUpsert, Holding, GoodRequest, GoodRow, Request, ApiInv, GoodRows
<1>2. GoodRow(OwnRow(t))
  <2>1. GoodRow(Merged(rows[req[t].a], req[t].loaded, req[t].wrote))
    BY <1>1, MergedGood
  <2>2. FoundOrNew(rows, req[t].a).id \in Nat
    BY <1>1, RowType DEF ApiInv, GoodRows, Row
  <2>3. GoodRow([req[t].wrote EXCEPT !.id = FoundOrNew(rows, req[t].a).id])
    BY <1>1, <2>2 DEF GoodRow, Row
  <2> QED
    BY <2>1, <2>3 DEF OwnRow
<1>3. GoodRows(rows')
  <2>1. \A x \in Attempts : GoodRow(rows[x]) /\ GoodRow(AbandonRow(rows[x]))
    BY RowsGood DEF ApiInv, GoodRows
  <2>2. rows \in Tables
    BY DEF ApiInv, GoodRows
  <2> QED
    BY <1>2, <2>1, <2>2 DEF CommitUpsert, GoodRows, GoodRow, Tables
<1>4. ObjectsInv'
  BY RespondStep DEF CommitUpsert
<1>5. writer' \in Threads \cup {None} /\ UNCHANGED <<cache, counts>>
  BY DEF CommitUpsert, Release, ApiInv, GoodCounts
<1> QED
  BY <1>3, <1>4, <1>5 DEF ApiInv, ObjectsInv, GoodCounts, counts

LEMMA FinalizeKeeps ==
    ASSUME ApiInv, NEW t \in Threads, SelectFinalRow(t) \/ CommitFinal(t) \/ Evict(t)
    PROVE  ApiInv'
<1>1. /\ req[t].pc \in {"finalize", "closing", "evict"} /\ GoodRequest(req[t])
      /\ req[t].h \in Handles /\ req[t].a \in Attempts /\ GoodSession(Obj(t))
      /\ GoodRow(rows[req[t].a])
  BY ObjectOf DEF SelectFinalRow, CommitFinal, Evict, Holding, ApiInv, GoodRows
<1>2. CASE SelectFinalRow(t)
  <2> DEFINE f == FoundOrNew(rows, req[t].a)
             w == SaveFinished(f, Obj(t), Snapshot(Obj(t)), req[t].result)
             r == [req[t] EXCEPT !.pc = "closing", !.loaded = rows[req[t].a], !.wrote = w]
  <2>1. GoodRow(f)
    BY <1>1, RowsGood DEF ApiInv
  <2>2. /\ AnswerBatch(f, Obj(t)) \in Batch /\ RecordedScore(req[t].result) \in Score
        /\ f.finishes + 1 \in Nat
    <3>1. req[t].result \in Result
      BY <1>1, <1>2 DEF SelectFinalRow, GoodRequest
    <3> QED
      BY <1>1, <2>1, <3>1 DEF AnswerBatch, Batch, RecordedScore, Score, Result, GoodRow, Row,
                              GoodSession, Session, Cell
  <2>3. Snapshot(Obj(t)) \in SnapshotRecord /\ GradesAreCurrent(Snapshot(Obj(t)).answers)
    BY <1>1, SnapshotGood
  <2> HIDE DEF f
  <2>4. GoodRow(w) /\ w.batches = {AnswerBatch(f, Obj(t))}
    BY <2>1, <2>2, <2>3 DEF SaveFinished, GoodRow, Row, Statuses
  <2>5. GoOn(t, r) /\ UNCHANGED <<cache, heap>>
    BY <1>2 DEF SelectFinalRow, f
  <2> HIDE DEF w
  <2>6. GoodRequest(r) /\ r.h = req[t].h
    BY <1>1, <2>4 DEF GoodRequest, Request, Holding, GoodRow
  <2> HIDE DEF r
  <2>7. ObjectsInv'
    BY <2>5, <2>6, GoOnStep
  <2>8. writer' \in Threads \cup {None} /\ UNCHANGED <<rows, cache, counts>>
    BY <1>2 DEF SelectFinalRow, ApiInv, GoodCounts
  <2> QED
    BY <2>7, <2>8 DEF ApiInv, ObjectsInv, GoodCounts, counts
<1>3. CASE CommitFinal(t)
  <2> DEFINE r == [req[t] EXCEPT !.pc = "evict"]
             grades == (CHOOSE b \in req[t].wrote.batches : TRUE).grades
             b == [n |-> rows[req[t].a].finishes + 1, grades |-> grades]
  <2>1. GoodRow(req[t].wrote)
    BY <1>1 DEF GoodRequest, GoodRow, Request
  <2>2. GoodRow(OwnRow(t))
    <3>1. GoodRow(Merged(rows[req[t].a], req[t].loaded, req[t].wrote))
      BY <1>1, <2>1, MergedGood
    <3>2. FoundOrNew(rows, req[t].a).id \in Nat
      BY <1>1, RowType DEF ApiInv, GoodRows, Row
    <3>3. GoodRow([req[t].wrote EXCEPT !.id = FoundOrNew(rows, req[t].a).id])
      BY <2>1, <3>2 DEF GoodRow, Row
    <3> QED
      BY <3>1, <3>3 DEF OwnRow
  <2>3. b \in Batch /\ rows[req[t].a].finishes + 1 \in Nat
    <3>1. PICK x \in req[t].wrote.batches : req[t].wrote.batches = {x}
      BY <1>1, <1>3 DEF CommitFinal, GoodRequest
    <3>2. x \in Batch /\ grades = x.grades
      BY <2>1, <3>1 DEF GoodRow, Row
    <3>3. x.grades \in [Questions -> Grades]
      BY <3>2 DEF Batch
    <3>4. rows[req[t].a].finishes \in Nat
      BY <1>1 DEF GoodRow, Row
    <3> HIDE DEF grades
    <3> QED
      BY <3>2, <3>3, <3>4 DEF Batch
  <2>4. FinalRow(t) = [OwnRow(t) EXCEPT
                          !.batches = (rows[req[t].a].batches \ req[t].loaded.batches) \cup {b},
                          !.finishes = rows[req[t].a].finishes + 1]
    BY DEF FinalRow
  <2> HIDE DEF b
  <2>5. GoodRow(FinalRow(t))
    <3> DEFINE bs == (rows[req[t].a].batches \ req[t].loaded.batches) \cup {b}
               n == rows[req[t].a].finishes + 1
    <3>1. bs \in SUBSET Batch /\ n \in Nat
      BY <1>1, <2>3 DEF GoodRow, Row
    <3>2. FinalRow(t) = [OwnRow(t) EXCEPT !.batches = bs, !.finishes = n]
      BY <2>4
    <3> HIDE DEF bs, n
    <3> QED
      BY <2>2, <3>1, <3>2 DEF GoodRow, Row
  <2>6. GoodRows(rows')
    BY <1>1, <1>3, <2>5 DEF CommitFinal, ApiInv, GoodRows, GoodRow, Tables
  <2>7. GoOn(t, r) /\ UNCHANGED <<cache, heap, counts>>
    BY <1>3 DEF CommitFinal
  <2>8. GoodRequest(r) /\ r.h = req[t].h
    BY <1>1 DEF GoodRequest, Request, Holding
  <2> HIDE DEF r
  <2>9. ObjectsInv'
    BY <2>7, <2>8, GoOnStep
  <2>10. writer' \in Threads \cup {None}
    BY <1>3 DEF CommitFinal, Release, ApiInv, GoodCounts
  <2> QED
    BY <2>6, <2>7, <2>9, <2>10 DEF ApiInv, ObjectsInv, GoodCounts, counts
<1>4. CASE Evict(t)
  <2>1. cache' \in [Attempts -> Handles \cup {None}] /\ \A a \in Attempts : cache'[a] \in {cache[a], None}
    BY <1>1, <1>4 DEF Evict, ApiInv, GoodCounts
  <2>2. GoodRequests(req') /\ req'[t] = Idle /\ \A u \in Threads \ {t} : req'[u] = req[u]
    BY <1>4, IdleGood, RequestStep DEF Evict, ApiInv
  <2>3. Live(heap, cache', req')
    BY <2>1, <2>2, IdleGood DEF ApiInv, Live
  <2>4. heap' = Collected(heap, cache', req')
    BY <1>4 DEF Evict
  <2>5. ObjectsInv'
    BY <2>1, <2>2, <2>3, <2>4, CollectedGood DEF ApiInv, ObjectsInv
  <2> QED
    BY <1>4, <2>1, <2>5 DEF Evict, ApiInv, ObjectsInv, GoodCounts, counts
<1> QED
  BY <1>2, <1>3, <1>4

(* A failing database call answers the request, or goes on without the result. *)
LEMMA RaiseKeeps ==
    ASSUME ApiInv, NEW t \in Threads, Raise(t)
    PROVE  ApiInv'
<1>1. writer' \in Threads \cup {None} /\ faults' \in Nat /\ UNCHANGED <<rows, cache, requests, restarts>>
  BY DEF Raise, Release, ApiInv, GoodCounts
<1>2. ObjectsInv'
  <2>1. CASE Respond(t)
    BY <1>1, <2>1, RespondStep
  <2>2. CASE ~Respond(t)
    <3> DEFINE r == [req[t] EXCEPT !.pc = "evict"]
    <3>1. req[t].pc \in {"finalize", "closing"} /\ GoOn(t, r) /\ UNCHANGED heap
      BY <2>2 DEF Raise
    <3>2. GoodRequest(req[t])
      BY DEF ApiInv, GoodRequests
    <3>3. GoodRequest(r) /\ r.h = req[t].h
      BY <3>1, <3>2 DEF GoodRequest, Request, Holding
    <3> HIDE DEF r
    <3> QED
      BY <1>1, <3>1, <3>3, GoOnStep
  <2> QED
    BY <2>1, <2>2
<1> QED
  BY <1>1, <1>2 DEF ApiInv, ObjectsInv, GoodCounts

LEMMA RestartKeeps ==
    ASSUME ApiInv, Restart
    PROVE  ApiInv'
<1>1. GoodRequests(req') /\ \A t \in Threads : req'[t].h = None
  BY IdleGood DEF Restart, GoodRequests, GoodRequest
<1>2. GoodObjects(heap') /\ \A a \in Attempts : cache'[a] = None
  BY DEF Restart, GoodObjects
<1> QED
  BY <1>1, <1>2 DEF Restart, ApiInv, Live, GoodCounts

LEMMA ApiInvInit == Init => ApiInv
<1> SUFFICES ASSUME Init PROVE ApiInv
  OBVIOUS
<1>1. GoodRequests(req) /\ \A t \in Threads : req[t].h = None
  BY IdleGood DEF Init, GoodRequests, GoodRequest
<1>2. GoodRows(rows)
  BY RowsGood DEF Init, GoodRows, GoodRow, Tables
<1> QED
  BY <1>1, <1>2 DEF Init, ApiInv, GoodObjects, Live, GoodCounts

LEMMA ApiInvStep == ApiInv /\ [Next]_vars => ApiInv'
<1> SUFFICES ASSUME ApiInv, [Next]_vars PROVE ApiInv'
  OBVIOUS
<1>1. CASE Next
  <2>1. ASSUME NEW t \in Threads, Client(t) PROVE ApiInv'
    BY <2>1, CreateKeeps, ReceiveKeeps DEF Client
  <2>2. ASSUME NEW t \in Threads, Serve(t) PROVE ApiInv'
    BY <2>2, LookupKeeps, RestoreKeeps, ApplyKeeps, PersistKeeps, CommitKeeps, FinalizeKeeps DEF Serve
  <2> QED
    BY <1>1, <2>1, <2>2, RaiseKeeps, RestartKeeps DEF Next
<1>2. CASE UNCHANGED vars
  BY <1>2 DEF vars, counts, ApiInv, GoodRows, GoodObjects, GoodRequests, Live, GoodCounts
<1> QED
  BY <1>1, <1>2

(* Every variable of the router keeps its type, and every grade in an object, a
   snapshot under way or a row is that of the answer beside it, for any number of
   threads, attempts and questions. *)
THEOREM ApiTypeOK == Spec => []TypeOK
<1>1. Spec => []ApiInv
  BY ApiInvInit, ApiInvStep, PTL DEF Spec
<1> QED
  BY <1>1, ApiInvImplies, PTL

THEOREM ApiGradesCurrent == Spec => []GradesCurrent
<1>1. Spec => []ApiInv
  BY ApiInvInit, ApiInvStep, PTL DEF Spec
<1> QED
  BY <1>1, ApiInvImplies, PTL

-----------------------------------------------------------------------------
(* Requests that do not overlap: the invariant.                            *)

OneAtATime == \A t, u \in Threads : t = u

\* A session or a snapshot says twice, and the same way, whether it is finished.
SaysFinished(s) == (s.finished <=> s.status = "finished") /\ s.status # "abandoned"

\* The row of an attempt and the snapshot in it agree, and nothing is left in the
\* row of an abandoned one.
RowStory(r) ==
    /\ r.status \in {"absent", "abandoned"} <=> r.snap = None
    /\ r.snap # None => SaysFinished(r.snap) /\ r.snap.status = r.status
    /\ ResultConsistent(r)

\* The session of an attempt may be ahead of its row, and never behind a finish.
SessionStory(s, r) == SaysFinished(s) /\ (r.status = "finished" => s.status = "finished")

\* What a request knows is still so: nobody came between.
RequestStory(r, rs, c, hp) ==
    LET s == hp[c[r.a]]
    IN  /\ r.pc \in Holding => c[r.a] = r.h
        /\ r.pc = "restore" => c[r.a] = None /\ r.snap = rs[r.a].snap
        /\ r.pc \in {"others", "own", "commit"} => s.status # "finished"
        /\ r.pc \in {"others", "own"} => r.snap = Snapshot(s)
        /\ r.pc \in {"own", "commit"} => r.others = ActiveAttempts(rs) \ {r.a}
        /\ r.pc = "commit" =>
              /\ r.loaded = rs[r.a]
              /\ r.wrote = SaveActive(FoundOrNew(rs, r.a), s.status, Snapshot(s))
        /\ r.pc \in {"finalize", "closing"} =>
              /\ s.status = "finished" /\ AllGraded(s.answers)
              /\ r.result = ExamResult(s)
        /\ r.pc = "closing" =>
              /\ r.loaded = rs[r.a]
              /\ r.wrote = SaveFinished(FoundOrNew(rs, r.a), s, Snapshot(s), ExamResult(s))

OneEach(c) == \A a, b \in Attempts : c[a] # None /\ c[a] = c[b] => a = b

Serial(rs, c, hp, rq) ==
    /\ AtMostOneActive(rs)
    /\ \A a \in Attempts : RowStory(rs[a])
    /\ OneEach(c)
    /\ \A a \in Attempts : c[a] # None => SessionStory(hp[c[a]], rs[a])
    /\ \A t \in Threads : RequestStory(rq[t], rs, c, hp)

SerialInv == ApiInv /\ Serial(rows, cache, heap, req)

(* Finished is finished, whichever of the two fields is asked. *)
LEMMA FinishedStatus ==
    ASSUME NEW s, SaysFinished(s)
    PROVE  IsFinished(s) <=> s.status = "finished"
  BY DEF SaysFinished, IsFinished

(* No handler makes a finished session unfinished, reading changes no other one,
   and finishing leaves no answer ungraded. *)
LEMMA AppliedStory ==
    ASSUME NEW s \in Session, SaysFinished(s), NEW op \in Ops, ~Rejected(s, op),
           NEW n, n = Applied(s, op)
    PROVE  /\ SaysFinished(n) /\ n.limit = s.limit
           /\ s.status = "finished" => n.status = "finished"
           /\ op.kind = "get" => n = s
           /\ op.kind = "review" => s.status = "finished"
           /\ op.kind = "finish" => n.status = "finished" /\ AllGraded(n.answers)
<1>1. IsFinished(s) <=> s.status = "finished"
  BY FinishedStatus
<1>2. CASE op.kind \in {"get", "goto", "bookmark", "mark", "answer"}
  <2>1. n \in {s, GotoIndex(s, op.q), ToggleBookmark(s, op.q), ToggleMarkForReview(s, op.q),
               SubmitAnswer(s, op.q, op.arg)} /\ (op.kind = "get" => n = s)
    BY <1>2 DEF Applied
  <2>2. n.status = s.status /\ n.finished = s.finished /\ n.limit = s.limit
    BY <2>1 DEF GotoIndex, ToggleBookmark, ToggleMarkForReview, SubmitAnswer, Session
  <2> QED
    BY <1>2, <2>1, <2>2 DEF SaysFinished
<1>3. CASE op.kind \in {"pause", "resume"}
  <2>1. s.status # "finished" /\ ~s.finished
    BY <1>1, <1>3 DEF Rejected, SaysFinished
  <2>2. n \in {Pause(s, op.arg), Resume(s)}
    BY <1>3 DEF Applied
  <2>3. /\ Pause(s, op.arg).status = "paused" /\ Pause(s, op.arg).finished = s.finished
        /\ Pause(s, op.arg).limit = s.limit
        /\ Resume(s).status \in {"in_progress", s.status} /\ Resume(s).finished = s.finished
        /\ Resume(s).limit = s.limit
    BY DEF Pause, WithRemaining, Resume, Session
  <2> QED
    BY <1>3, <2>1, <2>2, <2>3 DEF SaysFinished
<1>4. CASE op.kind = "finish"
  <2>1. n = GradeAll(Finish(s))
    BY <1>4 DEF Applied
  <2>2. Finish(s) \in Session /\ Finish(s).status = "finished" /\ Finish(s).finished
    BY AttemptAssumption, StatusType
  <2>3. n.limit = s.limit
    BY <2>1 DEF GradeAll, Finish, Session
  <2> QED
    BY <1>4, <2>1, <2>2, <2>3, GradeAllType DEF SaysFinished
<1>5. CASE op.kind = "review"
  <2>1. s.status = "finished"
    BY <1>1, <1>5 DEF Rejected
  <2>2. n = GradeAll(s)
    BY <1>5 DEF Applied
  <2>3. n.limit = s.limit
    BY <2>2 DEF GradeAll, Session
  <2> QED
    BY <1>5, <2>1, <2>2, <2>3, GradeAllType DEF SaysFinished
<1> QED
  BY <1>2, <1>3, <1>4, <1>5, OpsByKind

(* Objects the cache points to are not collected. *)
LEMMA CollectedKeeps ==
    ASSUME NEW hp, NEW c \in [Attempts -> Handles \cup {None}], NEW rq
    PROVE  /\ \A a \in Attempts : c[a] # None => Collected(hp, c, rq)[c[a]] = hp[c[a]]
           /\ \A h \in Handles : (\E a \in Attempts : c[a] = h) => Collected(hp, c, rq)[h] = hp[h]
  BY DEF Collected

(* A request that is answered claims nothing. *)
LEMMA IdleStory ==
    ASSUME NEW rs, NEW c, NEW hp
    PROVE  RequestStory(Idle, rs, c, hp)
  BY DEF RequestStory, Idle, Holding

(* A step that changes neither the rows nor the cached objects. *)
LEMMA QuietStep ==
    ASSUME OneAtATime, NEW rs, NEW c, NEW hp, NEW rq, Serial(rs, c, hp, rq),
           NEW t \in Threads, NEW rq2, NEW hp2, RequestStory(rq2[t], rs, c, hp2),
           \A a \in Attempts : c[a] # None => hp2[c[a]] = hp[c[a]]
    PROVE  Serial(rs, c, hp2, rq2)
  BY DEF Serial, OneAtATime

(* A step that gives attempt a an object of its own, or changes the one it has. *)
LEMMA CachedStep ==
    ASSUME OneAtATime, NEW rs, NEW c, NEW hp, NEW rq, Serial(rs, c, hp, rq),
           NEW a \in Attempts, NEW c2, NEW hp2, SessionStory(hp2[c2[a]], rs[a]),
           \A x \in Attempts \ {a} : c[x] # c2[a] /\ c2[x] = c[x],
           \A x \in Attempts \ {a} : c[x] # None => hp2[c[x]] = hp[c[x]],
           NEW t \in Threads, NEW rq2, RequestStory(rq2[t], rs, c2, hp2)
    PROVE  Serial(rs, c2, hp2, rq2)
<1>1. OneEach(c2)
  BY DEF Serial, OneEach
<1>2. \A x \in Attempts : c2[x] # None => SessionStory(hp2[c2[x]], rs[x])
  BY DEF Serial
<1> QED
  BY <1>1, <1>2 DEF Serial, OneAtATime

-----------------------------------------------------------------------------
(* The serial invariant, step by step.                                     *)

(* The session a request works on is the one the cache has. *)
LEMMA SerialObject ==
    ASSUME SerialInv, NEW t \in Threads, req[t].pc \in Holding
    PROVE  /\ req[t].a \in Attempts /\ req[t].h \in Handles /\ req[t].h # None
           /\ cache[req[t].a] = req[t].h
           /\ heap[cache[req[t].a]] = Obj(t)
           /\ GoodSession(Obj(t)) /\ Obj(t) \in Session
           /\ SessionStory(Obj(t), rows[req[t].a])
           /\ SaysFinished(Obj(t))
           /\ IsFinished(Obj(t)) <=> Obj(t).status = "finished"
           /\ RowStory(rows[req[t].a]) /\ rows[req[t].a] \in Row
           /\ \A x \in Attempts \ {req[t].a} : cache[x] # req[t].h
<1>1. /\ req[t].a \in Attempts /\ req[t].h \in Handles /\ GoodSession(Obj(t)) /\ Obj(t) \in Session
  BY ObjectOf DEF SerialInv
<1>2. req[t].h # None
  BY <1>1, NoneIsNothing
<1>3. cache[req[t].a] = req[t].h
  BY DEF SerialInv, Serial, RequestStory
<1>4. SessionStory(Obj(t), rows[req[t].a])
  BY <1>1, <1>2, <1>3 DEF SerialInv, Serial, Obj
<1>5. RowStory(rows[req[t].a]) /\ rows[req[t].a] \in Row
  BY <1>1 DEF SerialInv, Serial, ApiInv, GoodRows, Tables
<1>6. \A x \in Attempts \ {req[t].a} : cache[x] # req[t].h
  BY <1>1, <1>2, <1>3 DEF SerialInv, Serial, OneEach
<1> QED
  BY <1>1, <1>2, <1>3, <1>4, <1>5, <1>6, FinishedStatus DEF SessionStory, Obj

(* A response changes no row and no cached object. *)
LEMMA RespondSerial ==
    ASSUME OneAtATime, SerialInv, NEW t \in Threads, Respond(t), UNCHANGED <<rows, cache>>
    PROVE  Serial(rows', cache', heap', req')
<1>1. req'[t] = Idle
  BY DEF Respond, SerialInv, ApiInv, GoodRequests
<1>2. \A a \in Attempts : cache[a] # None => heap'[cache[a]] = heap[cache[a]]
  BY CollectedKeeps DEF Respond, SerialInv, ApiInv, GoodCounts
<1>3. RequestStory(req'[t], rows, cache, heap')
  BY <1>1, IdleStory
<1>4. Serial(rows, cache, heap', req')
  BY <1>2, <1>3, QuietStep DEF SerialInv
<1> QED
  BY <1>4

(* A request that goes on without changing rows, cache or objects. *)
LEMMA GoOnSerial ==
    ASSUME OneAtATime, SerialInv, NEW t \in Threads, NEW r, GoOn(t, r),
           RequestStory(r, rows, cache, heap), UNCHANGED <<rows, cache, heap>>
    PROVE  Serial(rows', cache', heap', req')
<1>1. req'[t] = r
  BY DEF GoOn, SerialInv, ApiInv, GoodRequests
<1>2. Serial(rows, cache, heap, req')
  BY <1>1, QuietStep DEF SerialInv
<1> QED
  BY <1>2

(* Receiving a request and finding its session. *)
LEMMA CreateSerial ==
    ASSUME OneAtATime, SerialInv, NEW t \in Threads, NEW a \in Attempts, NEW m \in ModesOffered,
           NEW e \in Offered, CreateSession(t, a, m, e)
    PROVE  Serial(rows', cache', heap', req')
<1> DEFINE s == Create(m, e)
           r == [Idle EXCEPT !.pc = "persist", !.op = Op("create", 0, None), !.a = a, !.h = NewHandle]
<1>1. s \in Session /\ s.status = "in_progress" /\ ~s.finished
  BY CreateType, ApiAssumption
<1>2. /\ NewHandle \in Handles /\ \A x \in Attempts : cache[x] # NewHandle
      /\ rows[a].status = "absent"
  BY NewHandleFree DEF CreateSession, NeverUsed, SerialInv
<1>3. req'[t] = r /\ heap' = [heap EXCEPT ![NewHandle] = s] /\ UNCHANGED rows
      /\ cache' = [cache EXCEPT ![a] = NewHandle]
  BY DEF CreateSession, GoOn, Receive, SerialInv, ApiInv, GoodRequests
<1>4. /\ heap'[NewHandle] = s
      /\ \A x \in Attempts \ {a} : cache[x] # None => heap'[cache[x]] = heap[cache[x]]
  BY <1>2, <1>3 DEF SerialInv, ApiInv, GoodObjects, GoodCounts
<1> HIDE DEF s
<1>5. SessionStory(s, rows[a])
  BY <1>1, <1>2 DEF SessionStory, SaysFinished
<1>6. RequestStory(r, rows, cache', heap')
  BY <1>2, <1>3 DEF RequestStory, Holding, Idle, SerialInv, ApiInv, GoodCounts
<1>7. cache \in [Attempts -> Handles \cup {None}] /\ Serial(rows, cache, heap, req)
  BY DEF SerialInv, ApiInv, GoodCounts
<1>8. RequestStory(req'[t], rows, cache', heap') /\ SessionStory(heap'[NewHandle], rows[a])
  BY <1>3, <1>4, <1>5, <1>6
<1>9. cache'[a] = NewHandle /\ \A x \in Attempts \ {a} : cache[x] # cache'[a] /\ cache'[x] = cache[x]
  BY <1>2, <1>3, <1>7
<1> HIDE DEF r
<1>10. Serial(rows, cache', heap', req')
  <2>1. SessionStory(heap'[cache'[a]], rows[a])
    BY <1>8, <1>9
  <2> QED
    BY <1>4, <1>7, <1>8, <1>9, <2>1, CachedStep
<1> QED
  BY <1>3, <1>10

LEMMA ReceiveSerial ==
    ASSUME OneAtATime, SerialInv, NEW t \in Threads, NEW a \in Attempts, NEW op \in Ops,
           ReceiveOp(t, a, op)
    PROVE  Serial(rows', cache', heap', req')
<1> DEFINE r == [Idle EXCEPT !.pc = "lookup", !.op = op, !.a = a]
<1>1. GoOn(t, r) /\ UNCHANGED <<rows, cache, heap>>
  BY DEF ReceiveOp, Receive
<1>2. RequestStory(r, rows, cache, heap)
  BY DEF RequestStory, Holding, Idle
<1> HIDE DEF r
<1> QED
  BY <1>1, <1>2, GoOnSerial

LEMMA LookupSerial ==
    ASSUME OneAtATime, SerialInv, NEW t \in Threads,
           LookupHit(t) \/ LookupRow(t) \/ LookupMiss(t)
    PROVE  Serial(rows', cache', heap', req')
<1>1. req[t] \in Request
  BY DEF SerialInv, ApiInv, GoodRequests
<1>2. CASE LookupHit(t)
  <2> DEFINE r == [req[t] EXCEPT !.pc = "apply", !.h = cache[req[t].a]]
  <2>1. RequestStory(r, rows, cache, heap)
    BY <1>1 DEF RequestStory, Holding, Request
  <2>2. GoOn(t, r) /\ UNCHANGED <<rows, cache, heap>>
    BY <1>2 DEF LookupHit
  <2> HIDE DEF r
  <2> QED
    BY <2>1, <2>2, GoOnSerial
<1>3. CASE LookupRow(t)
  <2> DEFINE r == [req[t] EXCEPT !.pc = "restore", !.snap = rows[req[t].a].snap]
  <2>1. RequestStory(r, rows, cache, heap)
    BY <1>1, <1>3 DEF RequestStory, Holding, Request, LookupRow
  <2>2. GoOn(t, r) /\ UNCHANGED <<rows, cache, heap>>
    BY <1>3 DEF LookupRow
  <2> HIDE DEF r
  <2> QED
    BY <2>1, <2>2, GoOnSerial
<1>4. CASE LookupMiss(t)
  BY <1>4, RespondSerial DEF LookupMiss
<1> QED
  BY <1>2, <1>3, <1>4

(* The session restored from a row tells that row's story. *)
LEMMA RestoreSerial ==
    ASSUME OneAtATime, SerialInv, NEW t \in Threads, CacheRestored(t)
    PROVE  Serial(rows', cache', heap', req')
<1> DEFINE a == req[t].a
           snap == rows[a].snap
           hp == [heap EXCEPT ![NewHandle] = Restore(snap)]
           r == [req[t] EXCEPT !.pc = "apply", !.h = NewHandle, !.snap = None]
<1>1. /\ req[t] \in Request /\ a \in Attempts /\ req[t].snap # None /\ req[t].snap = snap
      /\ snap \in SnapshotRecord
  BY DEF CacheRestored, SerialInv, ApiInv, GoodRequests, GoodRequest, Request, Serial, RequestStory
<1>2. /\ NewHandle \in Handles /\ \A x \in Attempts : cache[x] # NewHandle
  BY NewHandleFree DEF CacheRestored, SerialInv
<1>3. /\ req'[t] = r /\ UNCHANGED rows /\ cache' = [cache EXCEPT ![a] = NewHandle]
      /\ heap' = Collected(hp, cache', req')
  BY <1>1 DEF CacheRestored, GoOn, SerialInv, ApiInv, GoodRequests
<1>4. cache \in [Attempts -> Handles \cup {None}] /\ cache' \in [Attempts -> Handles \cup {None}]
      /\ cache'[a] = NewHandle /\ \A x \in Attempts \ {a} : cache'[x] = cache[x]
  BY <1>1, <1>2, <1>3 DEF SerialInv, ApiInv, GoodCounts
<1>5. \A x \in Attempts : cache'[x] # None => heap'[cache'[x]] = hp[cache'[x]]
  <2> HIDE DEF hp
  <2> QED
    BY <1>3, <1>4 DEF Collected
<1>6. /\ hp[NewHandle] = Restore(snap)
      /\ \A x \in Attempts \ {a} : cache[x] # None => hp[cache[x]] = heap[cache[x]]
  BY <1>2, <1>4 DEF SerialInv, ApiInv, GoodObjects
<1>7. SessionStory(Restore(snap), rows[a])
  <2>1. RowStory(rows[a]) /\ snap # None
    BY <1>1 DEF SerialInv, Serial
  <2> HIDE DEF snap
  <2>2. Restore(snap).status = snap.status /\ Restore(snap).finished = snap.finished
    BY <1>1, RestoreType
  <2> QED
    BY <2>1, <2>2 DEF RowStory, SessionStory, SaysFinished, snap
<1> HIDE DEF hp
<1>8. RequestStory(r, rows, cache', heap')
  BY <1>1, <1>4 DEF RequestStory, Holding, Request
<1>9. /\ NewHandle # None /\ heap'[NewHandle] = Restore(snap)
      /\ \A x \in Attempts \ {a} : cache[x] # None => heap'[cache[x]] = heap[cache[x]]
  BY <1>1, <1>2, <1>4, <1>5, <1>6, NoneIsNothing
<1>10. RequestStory(req'[t], rows, cache', heap') /\ SessionStory(heap'[NewHandle], rows[a])
  BY <1>3, <1>7, <1>8, <1>9
<1>11. Serial(rows, cache, heap, req) /\ a \in Attempts
       /\ \A x \in Attempts \ {a} : cache[x] # cache'[a] /\ cache'[x] = cache[x]
  BY <1>1, <1>2, <1>4 DEF SerialInv
<1> HIDE DEF r, a, snap
<1>12. Serial(rows, cache', heap', req')
  BY <1>4, <1>9, <1>10, <1>11, CachedStep
<1> QED
  BY <1>3, <1>12

(* A handler changes the object of its own attempt and no other. *)
LEMMA ObjectSerial ==
    ASSUME OneAtATime, SerialInv, NEW t \in Threads, req[t].pc = "apply",
           ~Rejected(Obj(t), req[t].op), UNCHANGED <<rows, cache>>,
           NEW n, n = Applied(Obj(t), req[t].op),
           \/ heap' = [heap EXCEPT ![req[t].h] = n]
           \/ heap' = Collected([heap EXCEPT ![req[t].h] = n], cache, req'),
           heap'[cache[req[t].a]] = n => RequestStory(req'[t], rows, cache, heap')
    PROVE  Serial(rows', cache', heap', req')
<1> DEFINE a == req[t].a
           hp == [heap EXCEPT ![req[t].h] = n]
<1>1. req[t].pc \in Holding /\ req[t].op \in Ops
  BY DEF Holding, SerialInv, ApiInv, GoodRequests, GoodRequest
<1>2. /\ a \in Attempts /\ req[t].h \in Handles /\ cache[a] = req[t].h /\ cache[a] # None
      /\ Obj(t) \in Session /\ SessionStory(Obj(t), rows[a]) /\ SaysFinished(Obj(t))
      /\ \A x \in Attempts \ {a} : cache[x] # cache[a]
  BY <1>1, SerialObject
<1>3. cache \in [Attempts -> Handles \cup {None}] /\ heap \in [Handles -> Session \cup {None}]
      /\ Serial(rows, cache, heap, req)
  BY DEF SerialInv, ApiInv, GoodCounts, GoodObjects
<1>4. hp[cache[a]] = n /\ \A x \in Attempts \ {a} : cache[x] # None => hp[cache[x]] = heap[cache[x]]
  BY <1>2, <1>3
<1>5. heap' = hp \/ heap' = Collected(hp, cache, req')
  OBVIOUS
<1> HIDE DEF hp
<1>6. \A x \in Attempts : cache[x] # None => heap'[cache[x]] = hp[cache[x]]
  BY <1>3, <1>5 DEF Collected
<1>7. SessionStory(n, rows[a])
  BY <1>1, <1>2, AppliedStory DEF SessionStory
<1>8. /\ heap'[cache[a]] = n
      /\ \A x \in Attempts \ {a} : cache[x] # None => heap'[cache[x]] = heap[cache[x]]
  BY <1>2, <1>4, <1>6
<1>9. SessionStory(heap'[cache[a]], rows[a]) /\ RequestStory(req'[t], rows, cache, heap')
  BY <1>7, <1>8
<1> HIDE DEF a
<1>10. Serial(rows, cache, heap', req')
  BY <1>2, <1>3, <1>8, <1>9, CachedStep
<1> QED
  BY <1>10

LEMMA ApplySerial ==
    ASSUME OneAtATime, SerialInv, NEW t \in Threads,
           Reject(t) \/ ApplyRead(t) \/ ApplyChange(t) \/ ApplyFinish(t)
    PROVE  Serial(rows', cache', heap', req')
<1> DEFINE n == Applied(Obj(t), req[t].op)
<1>1. /\ req[t].pc = "apply" /\ req[t].pc \in Holding /\ req[t] \in Request /\ req[t].op \in Ops
      /\ req \in [Threads -> Request]
  BY DEF Reject, ApplyRead, ApplyChange, ApplyFinish, Holding, SerialInv, ApiInv, GoodRequests,
         GoodRequest
<1>2. cache[req[t].a] = req[t].h /\ Obj(t) \in Session /\ SaysFinished(Obj(t))
  BY <1>1, SerialObject
<1>3. CASE Reject(t)
  BY <1>3, RespondSerial DEF Reject
<1>4. CASE ApplyRead(t)
  <2>1. req'[t] = Idle
    BY <1>1, <1>4 DEF ApplyRead
  <2>2. RequestStory(req'[t], rows, cache, heap')
    BY <2>1, IdleStory
  <2> QED
    BY <1>1, <1>4, <2>2, ObjectSerial DEF ApplyRead
<1>5. CASE ApplyChange(t)
  <2>1. req'[t] = [req[t] EXCEPT !.pc = "persist"]
    BY <1>1, <1>5 DEF ApplyChange, GoOn
  <2>2. RequestStory(req'[t], rows, cache, heap')
    BY <1>1, <1>2, <2>1 DEF RequestStory, Holding, Request
  <2>3. heap' = [heap EXCEPT ![req[t].h] = n]
    BY <1>5 DEF ApplyChange, Obj
  <2> QED
    BY <1>1, <1>5, <2>2, <2>3, ObjectSerial DEF ApplyChange
<1>6. CASE ApplyFinish(t)
  <2>1. req'[t] = [req[t] EXCEPT !.pc = "finalize", !.result = ExamResult(n)]
    BY <1>1, <1>6 DEF ApplyFinish, GoOn
  <2>2. ~Rejected(Obj(t), req[t].op) /\ req[t].op.kind = "finish"
    BY <1>6 DEF ApplyFinish, Rejected
  <2>3. n.status = "finished" /\ AllGraded(n.answers)
    BY <1>1, <1>2, <2>2, AppliedStory
  <2>4. heap' = [heap EXCEPT ![req[t].h] = n] /\ UNCHANGED <<rows, cache>>
    BY <1>6 DEF ApplyFinish
  <2> HIDE DEF n
  <2>5. heap'[cache[req[t].a]] = n => RequestStory(req'[t], rows, cache, heap')
    BY <1>1, <1>2, <2>1, <2>3 DEF RequestStory, Holding, Request
  <2> QED
    BY <1>1, <2>2, <2>4, <2>5, ObjectSerial DEF n
<1> QED
  BY <1>3, <1>4, <1>5, <1>6

(* The reads of an upsert, and those of a finish. *)
LEMMA PersistSerial ==
    ASSUME OneAtATime, SerialInv, NEW t \in Threads,
           SkipFinished(t) \/ TakeSnapshot(t) \/ SelectOthers(t) \/ SelectOwn(t) \/ SelectFinalRow(t)
    PROVE  Serial(rows', cache', heap', req')
<1>1. req[t].pc \in Holding /\ req[t] \in Request
  BY DEF SkipFinished, TakeSnapshot, SelectOthers, SelectOwn, SelectFinalRow, Holding, SerialInv,
         ApiInv, GoodRequests
<1>2. RequestStory(req[t], rows, cache, heap)
  BY DEF SerialInv, Serial
<1>3. /\ cache[req[t].a] = req[t].h /\ heap[cache[req[t].a]] = Obj(t)
      /\ IsFinished(Obj(t)) <=> Obj(t).status = "finished"
  BY <1>1, SerialObject
<1>4. CASE SkipFinished(t)
  BY <1>4, RespondSerial DEF SkipFinished
<1>5. CASE TakeSnapshot(t)
  <2> DEFINE r == [req[t] EXCEPT !.pc = "others", !.snap = Snapshot(Obj(t))]
  <2>1. RequestStory(r, rows, cache, heap)
    BY <1>1, <1>3, <1>5 DEF RequestStory, Holding, Request, TakeSnapshot
  <2>2. GoOn(t, r) /\ UNCHANGED <<rows, cache, heap>>
    BY <1>5 DEF TakeSnapshot
  <2> HIDE DEF r
  <2> QED
    BY <2>1, <2>2, GoOnSerial
<1>6. CASE SelectOthers(t)
  <2> DEFINE r == [req[t] EXCEPT !.pc = "own", !.others = ActiveAttempts(rows) \ {req[t].a}]
  <2>1. RequestStory(r, rows, cache, heap)
    BY <1>1, <1>2, <1>6 DEF RequestStory, Holding, Request, SelectOthers
  <2>2. GoOn(t, r) /\ UNCHANGED <<rows, cache, heap>>
    BY <1>6 DEF SelectOthers
  <2> HIDE DEF r
  <2> QED
    BY <2>1, <2>2, GoOnSerial
<1>7. CASE SelectOwn(t)
  <2> DEFINE w == SaveActive(FoundOrNew(rows, req[t].a), Obj(t).status, req[t].snap)
             r == [req[t] EXCEPT !.pc = "commit", !.loaded = rows[req[t].a], !.wrote = w]
  <2>1. w = SaveActive(FoundOrNew(rows, req[t].a), Obj(t).status, Snapshot(Obj(t)))
    BY <1>2, <1>3, <1>7 DEF RequestStory, SelectOwn
  <2>2. GoOn(t, r) /\ UNCHANGED <<rows, cache, heap>>
    BY <1>7 DEF SelectOwn
  <2> HIDE DEF w
  <2>3. RequestStory(r, rows, cache, heap)
    BY <1>1, <1>2, <1>3, <1>7, <2>1 DEF RequestStory, Holding, Request, SelectOwn
  <2> HIDE DEF r
  <2> QED
    BY <2>2, <2>3, GoOnSerial
<1>8. CASE SelectFinalRow(t)
  <2> DEFINE w == SaveFinished(FoundOrNew(rows, req[t].a), Obj(t), Snapshot(Obj(t)), req[t].result)
             r == [req[t] EXCEPT !.pc = "closing", !.loaded = rows[req[t].a], !.wrote = w]
  <2>1. req[t].result = ExamResult(Obj(t))
    BY <1>2, <1>3, <1>8 DEF RequestStory, SelectFinalRow
  <2>2. w = SaveFinished(FoundOrNew(rows, req[t].a), Obj(t), Snapshot(Obj(t)), ExamResult(Obj(t)))
    BY <2>1
  <2>3. GoOn(t, r) /\ UNCHANGED <<rows, cache, heap>>
    BY <1>8 DEF SelectFinalRow
  <2> HIDE DEF w
  <2>4. RequestStory(r, rows, cache, heap)
    BY <1>1, <1>2, <1>3, <1>8, <2>1, <2>2 DEF RequestStory, Holding, Request, SelectFinalRow
  <2> HIDE DEF r
  <2> QED
    BY <2>3, <2>4, GoOnSerial
<1> QED
  BY <1>4, <1>5, <1>6, <1>7, <1>8

(* Failures: nothing is written, and a restart leaves the rows alone. *)
LEMMA FailureSerial ==
    /\ \A t \in Threads : OneAtATime /\ SerialInv /\ Raise(t) => Serial(rows', cache', heap', req')
    /\ SerialInv /\ Restart => Serial(rows', cache', heap', req')
<1>1. ASSUME OneAtATime, SerialInv, NEW t \in Threads, Raise(t)
      PROVE  Serial(rows', cache', heap', req')
  <2> DEFINE r == [req[t] EXCEPT !.pc = "evict"]
  <2>1. CASE Respond(t)
    BY <1>1, <2>1, RespondSerial DEF Raise
  <2>2. CASE req[t].pc \in {"finalize", "closing"} /\ GoOn(t, r) /\ UNCHANGED heap
    <3>1. UNCHANGED <<rows, cache>>
      BY <1>1 DEF Raise
    <3>2. RequestStory(req[t], rows, cache, heap) /\ req[t] \in Request
      BY <1>1 DEF SerialInv, Serial, ApiInv, GoodRequests
    <3>3. RequestStory(r, rows, cache, heap)
      BY <2>2, <3>2 DEF RequestStory, Holding, Request
    <3> HIDE DEF r
    <3> QED
      BY <1>1, <2>2, <3>1, <3>3, GoOnSerial
  <2> QED
    BY <1>1, <2>1, <2>2 DEF Raise
<1>2. ASSUME SerialInv, Restart
      PROVE  Serial(rows', cache', heap', req')
  <2>1. /\ rows' = rows /\ \A a \in Attempts : cache'[a] = None
        /\ \A t \in Threads : req'[t] = Idle
    BY <1>2 DEF Restart
  <2>2. Serial(rows, cache, heap, req)
    BY <1>2 DEF SerialInv
  <2>3. Serial(rows, cache', heap', req')
    BY <2>1, <2>2, IdleStory DEF Serial, OneEach
  <2> QED
    BY <2>1, <2>3
<1> QED
  BY <1>1, <1>2

(* The row committed is the row written, when what was loaded is still there. *)
LEMMA OwnRowIsWritten ==
    ASSUME SerialInv, NEW t \in Threads, req[t].a \in Attempts, req[t].loaded = rows[req[t].a],
           req[t].wrote \in Row
    PROVE  /\ ~Conflict(t)
           /\ OwnRow(t) \in Row
           /\ OwnRow(t).status = req[t].wrote.status
           /\ OwnRow(t).snap = req[t].wrote.snap
           /\ OwnRow(t).score = req[t].wrote.score
<1> DEFINE r == rows[req[t].a]
           w == req[t].wrote
           id == FoundOrNew(rows, req[t].a).id
<1>1. r \in Row /\ rows \in Tables
  BY DEF SerialInv, ApiInv, GoodRows, Tables
<1>2. id \in Nat
  BY <1>1, RowType DEF Row
<1>3. OwnRow(t) = IF r.status = "absent" THEN [w EXCEPT !.id = id] ELSE Merged(r, r, w)
  BY DEF OwnRow
<1>4. ~Conflict(t)
  BY DEF Conflict
<1> HIDE DEF id, r, w
<1>5. /\ [w EXCEPT !.id = id] \in Row
      /\ [w EXCEPT !.id = id].status = w.status /\ [w EXCEPT !.id = id].snap = w.snap
      /\ [w EXCEPT !.id = id].score = w.score
  BY <1>2 DEF Row, w
<1>6. Merged(r, r, w) = [r EXCEPT !.status = w.status, !.snap = w.snap, !.score = w.score]
  BY <1>1 DEF Merged, Column, Row
<1>7. w \in Row
  BY DEF w
<1>8. /\ Merged(r, r, w) \in Row
      /\ Merged(r, r, w).status = w.status /\ Merged(r, r, w).snap = w.snap
      /\ Merged(r, r, w).score = w.score
  BY <1>1, <1>6, <1>7 DEF Row
<1> QED
  BY <1>3, <1>4, <1>5, <1>8 DEF w

(* A committed upsert makes its attempt the one active attempt. *)
LEMMA UpsertCommitted ==
    ASSUME SerialInv, NEW t \in Threads, CommitUpsert(t)
    PROVE  /\ rows' \in Tables
           /\ rows[req[t].a].status # "finished"
           /\ rows'[req[t].a].status = Obj(t).status /\ Obj(t).status \in Active
           /\ rows'[req[t].a].snap = Snapshot(Obj(t))
           /\ \A x \in Attempts \ {req[t].a} :
                 rows'[x] = IF rows[x].status \in Active THEN AbandonRow(rows[x]) ELSE rows[x]
<1> DEFINE a == req[t].a
           f == FoundOrNew(rows, a)
           w == SaveActive(f, Obj(t).status, Snapshot(Obj(t)))
<1>1. /\ req[t].pc \in Holding /\ req[t].pc = "commit"
      /\ rows \in Tables
      /\ RequestStory(req[t], rows, cache, heap)
      /\ req[t].wrote \in Row
  BY DEF CommitUpsert, Holding, SerialInv, Serial, ApiInv, GoodRows, GoodRequests, Request
<1>2. /\ a \in Attempts /\ heap[cache[a]] = Obj(t)
      /\ Obj(t) \in Session /\ SessionStory(Obj(t), rows[a]) /\ SaysFinished(Obj(t))
  BY <1>1, SerialObject
<1>3. /\ Obj(t).status # "finished" /\ req[t].others = ActiveAttempts(rows) \ {a}
      /\ req[t].loaded = rows[a] /\ req[t].wrote = w
  BY <1>1, <1>2 DEF RequestStory
<1>4. Obj(t).status \in Active /\ rows[a].status # "finished"
  BY <1>2, <1>3 DEF SessionStory, SaysFinished, Session, Statuses
<1>5. f \in Row /\ Snapshot(Obj(t)) \in SnapshotRecord
  BY <1>1, <1>2, RowType, SnapshotType
<1> HIDE DEF f
<1>6. w.status = Obj(t).status /\ w.snap = Snapshot(Obj(t))
  BY <1>5 DEF SaveActive, Row
<1> HIDE DEF w
<1>7. ~Conflict(t) /\ OwnRow(t) \in Row /\ OwnRow(t).status = w.status /\ OwnRow(t).snap = w.snap
  BY <1>1, <1>2, <1>3, OwnRowIsWritten
<1>8. rows' = [x \in Attempts |-> IF x = a THEN OwnRow(t)
                                  ELSE IF x \in req[t].others THEN AbandonRow(rows[x])
                                  ELSE rows[x]]
  BY <1>7 DEF CommitUpsert
<1>9. \A x \in Attempts : AbandonRow(rows[x]) \in Row
  BY <1>1 DEF Tables, Row, AbandonRow, Statuses
<1>10. rows' \in Tables
  BY <1>1, <1>7, <1>8, <1>9 DEF Tables
<1>11. \A x \in Attempts \ {a} : x \in req[t].others <=> rows[x].status \in Active
  BY <1>3 DEF ActiveAttempts
<1> QED
  BY <1>2, <1>4, <1>6, <1>7, <1>8, <1>10, <1>11

(* A committed finish records one result three times. *)
LEMMA FinalCommitted ==
    ASSUME SerialInv, NEW t \in Threads, CommitFinal(t)
    PROVE  /\ RowStory(rows'[req[t].a]) /\ rows'[req[t].a].status = "finished"
           /\ rows'[req[t].a].snap = Snapshot(Obj(t)) /\ Obj(t).status = "finished"
           /\ \A x \in Attempts \ {req[t].a} : rows'[x] = rows[x]
<1> DEFINE a == req[t].a
           s == Obj(t)
           f == FoundOrNew(rows, a)
           w == SaveFinished(f, s, Snapshot(s), ExamResult(s))
           g == [q \in Questions |-> s.answers[q].grade]
           n == rows[a].finishes + 1
           b == [n |-> n, grades |-> (CHOOSE x \in req[t].wrote.batches : TRUE).grades]
<1>1. /\ req[t].pc \in Holding /\ req[t].pc = "closing"
      /\ rows \in Tables
      /\ RequestStory(req[t], rows, cache, heap)
      /\ req[t].wrote \in Row
  BY DEF CommitFinal, Holding, SerialInv, Serial, ApiInv, GoodRows, GoodRequests, Request
<1>2. /\ a \in Attempts /\ heap[cache[a]] = s
      /\ s \in Session /\ GoodSession(s) /\ SaysFinished(s)
  BY <1>1, SerialObject
<1>3. /\ s.status = "finished" /\ AllGraded(s.answers)
      /\ req[t].loaded = rows[a] /\ req[t].wrote = w
  BY <1>1, <1>2 DEF RequestStory
<1>4. f \in Row /\ f.finishes + 1 \in Nat
  BY <1>1, <1>2, RowType DEF Row
<1>5. /\ w.status = "finished" /\ w.snap = Snapshot(s) /\ w.score = RecordedScore(ExamResult(s))
      /\ w.batches = {AnswerBatch(f, s)}
  <2> HIDE DEF f, s
  <2> QED
    BY <1>4 DEF SaveFinished, Row
<1>6. AnswerBatch(f, s).grades = g
  BY DEF AnswerBatch
<1> HIDE DEF w, f
<1>7. /\ OwnRow(t) \in Row /\ OwnRow(t).status = "finished" /\ OwnRow(t).snap = Snapshot(s)
      /\ OwnRow(t).score = RecordedScore(ExamResult(s))
  BY <1>1, <1>2, <1>3, <1>5, OwnRowIsWritten
<1>8. b.grades = g
  BY <1>3, <1>5, <1>6
<1>9. FinalRow(t) = [OwnRow(t) EXCEPT !.batches = {b}, !.finishes = n]
  <2>1. (rows[a].batches \ req[t].loaded.batches) \cup {b} = {b}
    BY <1>3
  <2> QED
    BY <2>1 DEF FinalRow
<1>10. rows'[a] = FinalRow(t) /\ \A x \in Attempts \ {a} : rows'[x] = rows[x]
  BY <1>1, <1>2 DEF CommitFinal, Tables
<1> HIDE DEF b, n
<1>11. /\ rows'[a].status = "finished" /\ rows'[a].snap = Snapshot(s)
       /\ rows'[a].score = RecordedScore(ExamResult(s)) /\ rows'[a].batches = {b}
  BY <1>7, <1>9, <1>10 DEF Row
<1>12. /\ Snapshot(s) # None /\ Snapshot(s).status = s.status /\ Snapshot(s).answers = s.answers
       /\ Snapshot(s).finished = s.finished
  BY <1>2, SnapshotUnfinished DEF Snapshot
<1>13. RecordedScore(ExamResult(s)) # None
       /\ RecordedScore(ExamResult(s)).correct = Cardinality(CorrectQuestions(s.answers))
  BY <1>2, ResultType, StoreAssumption DEF RecordedScore, ExamResult
<1>14. ResultConsistent(rows'[a])
  BY <1>2, <1>3, <1>8, <1>11, <1>12, <1>13 DEF ResultConsistent, GoodSession
<1>15. RowStory(rows'[a])
  BY <1>2, <1>3, <1>11, <1>12, <1>14 DEF RowStory, SaysFinished
<1> QED
  BY <1>3, <1>10, <1>11, <1>15

LEMMA CommitSerial ==
    ASSUME OneAtATime, SerialInv, NEW t \in Threads, CommitUpsert(t) \/ CommitFinal(t)
    PROVE  Serial(rows', cache', heap', req')
<1>1. /\ req[t].pc \in Holding /\ req[t] \in Request /\ req \in [Threads -> Request]
      /\ rows \in Tables /\ Serial(rows, cache, heap, req)
      /\ cache \in [Attempts -> Handles \cup {None}]
  BY DEF CommitUpsert, CommitFinal, Holding, SerialInv, ApiInv, GoodRows, GoodRequests, GoodCounts
<1>2. /\ req[t].a \in Attempts /\ cache[req[t].a] = req[t].h /\ heap[cache[req[t].a]] = Obj(t)
      /\ SaysFinished(Obj(t)) /\ Obj(t) \in Session
  BY <1>1, SerialObject
<1>3. Snapshot(Obj(t)) # None /\ SaysFinished(Snapshot(Obj(t)))
      /\ Snapshot(Obj(t)).status = Obj(t).status
  BY <1>2, SnapshotUnfinished DEF Snapshot, SaysFinished
<1>4. CASE CommitUpsert(t)
  <2>1. \A x \in Attempts :
          /\ RowStory(rows'[x])
          /\ rows'[x].status \in Active => x = req[t].a
          /\ rows'[x].status = "finished" => rows[x].status = "finished"
    <3> SUFFICES ASSUME NEW x \in Attempts
                 PROVE  /\ RowStory(rows'[x])
                        /\ rows'[x].status \in Active => x = req[t].a
                        /\ rows'[x].status = "finished" => rows[x].status = "finished"
      OBVIOUS
    <3>1. CASE x = req[t].a
      BY <1>3, <1>4, <3>1, UpsertCommitted DEF RowStory, ResultConsistent, Active
    <3>2. CASE x # req[t].a
      <4>1. rows'[x] = IF rows[x].status \in Active THEN AbandonRow(rows[x]) ELSE rows[x]
        BY <1>4, <3>2, UpsertCommitted
      <4>2. AbandonRow(rows[x]).status = "abandoned" /\ AbandonRow(rows[x]).snap = None
        BY <1>1 DEF AbandonRow, Tables, Row
      <4>3. RowStory(rows[x])
        BY <1>1 DEF Serial
      <4> QED
        BY <3>2, <4>1, <4>2, <4>3 DEF RowStory, ResultConsistent, Active
    <3> QED
      BY <3>1, <3>2
  <2>2. AtMostOneActive(rows')
    BY <2>1 DEF AtMostOneActive, ActiveAttempts
  <2>3. req'[t] = Idle /\ cache' = cache /\ heap' = Collected(heap, cache, req')
    BY <1>1, <1>4 DEF CommitUpsert, Respond
  <2>4. \A x \in Attempts : cache[x] # None => heap'[cache[x]] = heap[cache[x]]
    BY <1>1, <2>3, CollectedKeeps
  <2>5. RequestStory(req'[t], rows', cache, heap')
    BY <2>3, IdleStory
  <2>6. \A x \in Attempts : cache[x] # None => SessionStory(heap'[cache[x]], rows'[x])
    BY <1>1, <2>1, <2>4 DEF Serial, SessionStory
  <2>7. Serial(rows', cache, heap', req')
    BY <1>1, <2>1, <2>2, <2>5, <2>6 DEF Serial, OneAtATime
  <2> QED
    BY <2>3, <2>7
<1>5. CASE CommitFinal(t)
  <2>1. /\ RowStory(rows'[req[t].a]) /\ rows'[req[t].a].status = "finished"
        /\ Obj(t).status = "finished"
        /\ \A x \in Attempts \ {req[t].a} : rows'[x] = rows[x]
    BY <1>5, FinalCommitted
  <2>2. AtMostOneActive(rows')
    BY <1>1, <2>1 DEF Serial, AtMostOneActive, ActiveAttempts, Active
  <2>3. req'[t] = [req[t] EXCEPT !.pc = "evict"] /\ UNCHANGED <<cache, heap>>
    BY <1>1, <1>5 DEF CommitFinal, GoOn
  <2>4. RequestStory(req'[t], rows', cache, heap)
    BY <1>1, <1>2, <2>3 DEF RequestStory, Request
  <2>5. \A x \in Attempts : cache[x] # None => SessionStory(heap[cache[x]], rows'[x])
    BY <1>1, <1>2, <2>1 DEF Serial, SessionStory
  <2>6. Serial(rows', cache, heap, req')
    BY <1>1, <2>1, <2>2, <2>4, <2>5 DEF Serial, OneAtATime
  <2> QED
    BY <2>3, <2>6
<1> QED
  BY <1>4, <1>5

LEMMA EvictSerial ==
    ASSUME OneAtATime, SerialInv, NEW t \in Threads, Evict(t)
    PROVE  Serial(rows', cache', heap', req')
<1>1. /\ cache \in [Attempts -> Handles \cup {None}] /\ Serial(rows, cache, heap, req)
      /\ req \in [Threads -> Request]
  BY DEF SerialInv, ApiInv, GoodCounts, GoodRequests
<1>2. /\ req'[t] = Idle /\ rows' = rows
      /\ heap' = Collected(heap, cache', req') /\ cache' = [cache EXCEPT ![req[t].a] = None]
  BY <1>1 DEF Evict
<1>3. \A x \in Attempts : cache'[x] # None => cache'[x] = cache[x] /\ cache[x] \in Handles
  BY <1>1, <1>2
<1>4. \A x \in Attempts : cache'[x] # None => heap'[cache'[x]] = heap[cache[x]]
  BY <1>2, <1>3 DEF Collected
<1>5. OneEach(cache')
  BY <1>1, <1>3 DEF Serial, OneEach
<1>6. \A x \in Attempts : cache'[x] # None => SessionStory(heap'[cache'[x]], rows[x])
  BY <1>1, <1>3, <1>4 DEF Serial
<1>7. RequestStory(req'[t], rows, cache', heap')
  BY <1>2, IdleStory
<1>8. Serial(rows, cache', heap', req')
  BY <1>1, <1>5, <1>6, <1>7 DEF Serial, OneAtATime
<1> QED
  BY <1>2, <1>8

LEMMA SerialInit == Init => SerialInv
<1> SUFFICES ASSUME Init PROVE SerialInv
  OBVIOUS
<1>1. \A a \in Attempts : RowStory(rows[a]) /\ cache[a] = None
  BY DEF Init, RowStory, NoRow, ResultConsistent
<1>2. AtMostOneActive(rows) /\ OneEach(cache)
  BY <1>1 DEF Init, AtMostOneActive, ActiveAttempts, NoRow, Active, OneEach
<1>3. \A t \in Threads : RequestStory(req[t], rows, cache, heap)
  BY IdleStory DEF Init
<1> QED
  BY <1>1, <1>2, <1>3, ApiInvInit DEF SerialInv, Serial

LEMMA SerialStep == OneAtATime /\ SerialInv /\ [Next]_vars => SerialInv'
<1> SUFFICES ASSUME OneAtATime, SerialInv, [Next]_vars PROVE SerialInv'
  OBVIOUS
<1>1. ApiInv'
  BY ApiInvStep DEF SerialInv
<1>2. Serial(rows', cache', heap', req')
  <2>1. ASSUME NEW t \in Threads, Client(t) PROVE Serial(rows', cache', heap', req')
    BY <2>1, CreateSerial, ReceiveSerial DEF Client
  <2>2. ASSUME NEW t \in Threads, Serve(t) PROVE Serial(rows', cache', heap', req')
    BY <2>2, LookupSerial, RestoreSerial, ApplySerial, PersistSerial, CommitSerial, EvictSerial DEF Serve
  <2>3. CASE UNCHANGED vars
    <3>1. Serial(rows, cache, heap, req)
      BY DEF SerialInv
    <3> QED
      BY <2>3, <3>1 DEF vars
  <2> QED
    BY <2>1, <2>2, <2>3, FailureSerial DEF Next
<1> QED
  BY <1>1, <1>2 DEF SerialInv

-----------------------------------------------------------------------------
(* What a restart would lose.                                              *)

\* Every exam on offer has a time limit: restoring a snapshot gives an untimed
\* attempt the default limit.
Timed == \A e \in Offered : e.limit > 0

\* The row holds what the session says, or need not.
Saved(s, r) ==
    \/ s.status = "finished" \/ r.status = "abandoned"
    \/ r.status = s.status /\ r.snap = Snapshot(s)

Persisting(r, a) == r.a = a /\ r.pc \in {"persist", "others", "own", "commit"}

\* A session not saved is being persisted.
SavedInv ==
    /\ \A a \in Attempts : rows[a].snap # None => rows[a].snap.limit > 0
    /\ \A a \in Attempts : cache[a] # None => heap[cache[a]].limit > 0
    /\ \A a \in Attempts : faults = 0 /\ cache[a] # None =>
          \/ Saved(heap[cache[a]], rows[a])
          \/ \E t \in Threads : Persisting(req[t], a)

(* A step that leaves rows, cache and objects alone. *)
LEMMA QuietSaved ==
    ASSUME OneAtATime, SerialInv, SavedInv, NEW t \in Threads, UNCHANGED <<rows, cache>>,
           heap' = heap \/ heap' = Collected(heap, cache', req'),
           faults' = 0 => faults = 0,
           \A a \in Attempts : faults' = 0 /\ cache[a] # None /\ Persisting(req[t], a)
                                  => heap[cache[a]].status = "finished" \/ Persisting(req'[t], a)
    PROVE  SavedInv'
<1>1. \A a \in Attempts : cache[a] # None => heap'[cache[a]] = heap[cache[a]]
  <2>1. cache \in [Attempts -> Handles \cup {None}]
    BY DEF SerialInv, ApiInv, GoodCounts
  <2> QED
    BY <2>1, CollectedKeeps
<1>2. \A a \in Attempts : cache'[a] # None => heap'[cache'[a]].limit > 0
  BY <1>1 DEF SavedInv
<1>3. ASSUME NEW a \in Attempts, faults' = 0, cache'[a] # None
      PROVE  Saved(heap'[cache'[a]], rows'[a]) \/ \E u \in Threads : Persisting(req'[u], a)
  <2>1. Saved(heap[cache[a]], rows[a]) \/ Persisting(req[t], a)
    BY <1>3 DEF SavedInv, OneAtATime
  <2>2. Saved(heap[cache[a]], rows[a]) \/ Persisting(req'[t], a)
    BY <1>3, <2>1 DEF Saved
  <2> QED
    BY <1>1, <1>3, <2>2
<1> QED
  BY <1>2, <1>3 DEF SavedInv

(* A step that gives attempt a an object, new or changed. *)
LEMMA ObjectSaved ==
    ASSUME OneAtATime, SavedInv, NEW t \in Threads, UNCHANGED rows, UNCHANGED faults,
           NEW a \in Attempts, heap'[cache'[a]].limit > 0,
           \A x \in Attempts \ {a} : cache'[x] = cache[x] /\ ~Persisting(req[t], x),
           \A x \in Attempts \ {a} : cache[x] # None => heap'[cache[x]] = heap[cache[x]],
           faults = 0 => Saved(heap'[cache'[a]], rows[a]) \/ Persisting(req'[t], a)
    PROVE  SavedInv'
<1>1. \A x \in Attempts : cache'[x] # None => heap'[cache'[x]].limit > 0
  BY DEF SavedInv
<1>2. ASSUME NEW x \in Attempts, faults' = 0, cache'[x] # None
      PROVE  Saved(heap'[cache'[x]], rows'[x]) \/ \E u \in Threads : Persisting(req'[u], x)
  <2>1. CASE x = a
    BY <1>2, <2>1
  <2>2. CASE x # a
    <3>1. Saved(heap[cache[x]], rows[x])
      BY <1>2, <2>2 DEF SavedInv, OneAtATime
    <3> QED
      BY <1>2, <2>2, <3>1
  <2> QED
    BY <2>1, <2>2
<1> QED
  BY <1>1, <1>2 DEF SavedInv

LEMMA RequestSaved ==
    ASSUME OneAtATime, SerialInv, SavedInv, NEW t \in Threads,
           \/ \E a \in Attempts, op \in Ops : ReceiveOp(t, a, op)
           \/ LookupHit(t) \/ LookupRow(t) \/ LookupMiss(t) \/ Reject(t)
           \/ SkipFinished(t) \/ TakeSnapshot(t) \/ SelectOthers(t) \/ SelectOwn(t)
           \/ SelectFinalRow(t)
    PROVE  SavedInv'
<1>1. req[t] \in Request /\ req \in [Threads -> Request]
  BY DEF SerialInv, ApiInv, GoodRequests
<1>2. /\ UNCHANGED <<rows, cache, faults>>
      /\ heap' = heap \/ heap' = Collected(heap, cache', req')
  BY DEF ReceiveOp, Receive, LookupHit, LookupRow, LookupMiss, Reject, SkipFinished, TakeSnapshot,
         SelectOthers, SelectOwn, SelectFinalRow, Respond, counts
<1>3. ASSUME NEW a \in Attempts, cache[a] # None, Persisting(req[t], a)
      PROVE  heap[cache[a]].status = "finished" \/ Persisting(req'[t], a)
  <2>1. CASE SkipFinished(t)
    <3>1. req[t].pc \in Holding /\ req[t].a = a
      BY <1>3 DEF Persisting, Holding
    <3>2. heap[cache[a]] = Obj(t) /\ (IsFinished(Obj(t)) <=> Obj(t).status = "finished")
      BY <3>1, SerialObject
    <3> QED
      BY <2>1, <3>2 DEF SkipFinished
  <2>2. CASE TakeSnapshot(t) \/ SelectOthers(t) \/ SelectOwn(t)
    <3>1. req'[t].a = req[t].a /\ req'[t].pc \in {"others", "own", "commit"}
      <4>1. CASE TakeSnapshot(t)
        BY <1>1, <4>1 DEF TakeSnapshot, GoOn, Request
      <4>2. CASE SelectOthers(t)
        BY <1>1, <4>2 DEF SelectOthers, GoOn, Request
      <4>3. CASE SelectOwn(t)
        BY <1>1, <4>3 DEF SelectOwn, GoOn, Request
      <4> QED
        BY <2>2, <4>1, <4>2, <4>3
    <3> QED
      BY <1>3, <3>1 DEF Persisting
  <2> QED
    BY <1>3, <2>1, <2>2 DEF Persisting, ReceiveOp, Receive, Busy, LookupHit, LookupRow, LookupMiss,
                            Reject, SelectFinalRow
<1> QED
  BY <1>2, <1>3, QuietSaved

LEMMA CreateSaved ==
    ASSUME OneAtATime, Timed, SerialInv, SavedInv, NEW t \in Threads, NEW a \in Attempts,
           NEW m \in ModesOffered, NEW e \in Offered, CreateSession(t, a, m, e)
    PROVE  SavedInv'
<1> DEFINE s == Create(m, e)
<1>1. s.limit > 0
  BY DEF Timed, Create
<1>2. /\ NewHandle \in Handles /\ \A x \in Attempts : cache[x] # NewHandle
      /\ req[t].pc = "idle"
  BY NewHandleFree DEF CreateSession, Receive, Busy, SerialInv
<1>3. cache \in [Attempts -> Handles \cup {None}] /\ heap \in [Handles -> Session \cup {None}]
      /\ req \in [Threads -> Request]
  BY DEF SerialInv, ApiInv, GoodCounts, GoodObjects, GoodRequests
<1>4. /\ heap' = [heap EXCEPT ![NewHandle] = s] /\ cache' = [cache EXCEPT ![a] = NewHandle]
      /\ UNCHANGED rows /\ UNCHANGED faults
  BY DEF CreateSession, Receive
<1>5. req'[t].a = a /\ req'[t].pc = "persist"
  BY <1>3 DEF CreateSession, GoOn, Idle
<1> HIDE DEF s
<1>6. /\ heap'[cache'[a]] = s /\ \A x \in Attempts \ {a} : cache'[x] = cache[x]
      /\ \A x \in Attempts \ {a} : cache[x] # None => heap'[cache[x]] = heap[cache[x]]
  BY <1>2, <1>3, <1>4
<1>7. \A x \in Attempts : ~Persisting(req[t], x)
  BY <1>2 DEF Persisting
<1>8. Persisting(req'[t], a)
  BY <1>5 DEF Persisting
<1> QED
  BY <1>1, <1>4, <1>6, <1>7, <1>8, ObjectSaved

(* What is restored from a row is what the row holds. *)
LEMMA RestoreSaved ==
    ASSUME OneAtATime, SerialInv, SavedInv, NEW t \in Threads, CacheRestored(t)
    PROVE  SavedInv'
<1> DEFINE a == req[t].a
           snap == rows[a].snap
           hp == [heap EXCEPT ![NewHandle] = Restore(snap)]
<1>1. /\ req[t] \in Request /\ a \in Attempts /\ req[t].snap # None /\ req[t].snap = snap
      /\ snap \in SnapshotRecord /\ RowStory(rows[a])
  BY DEF CacheRestored, SerialInv, ApiInv, GoodRequests, GoodRequest, Request, Serial, RequestStory
<1>2. /\ NewHandle \in Handles /\ \A x \in Attempts : cache[x] # NewHandle
  BY NewHandleFree DEF CacheRestored, SerialInv
<1>3. /\ UNCHANGED rows /\ UNCHANGED faults /\ cache' = [cache EXCEPT ![a] = NewHandle]
      /\ heap' = Collected(hp, cache', req') /\ req[t].pc = "restore"
  BY <1>1 DEF CacheRestored, counts
<1>4. cache \in [Attempts -> Handles \cup {None}] /\ cache' \in [Attempts -> Handles \cup {None}]
      /\ cache'[a] = NewHandle /\ \A x \in Attempts \ {a} : cache'[x] = cache[x]
  BY <1>1, <1>2, <1>3 DEF SerialInv, ApiInv, GoodCounts
<1>5. \A x \in Attempts : cache'[x] # None => heap'[cache'[x]] = hp[cache'[x]]
  <2> HIDE DEF hp
  <2> QED
    BY <1>3, <1>4 DEF Collected
<1>6. /\ hp[NewHandle] = Restore(snap)
      /\ \A x \in Attempts \ {a} : cache[x] # None => hp[cache[x]] = heap[cache[x]]
  BY <1>2, <1>4 DEF SerialInv, ApiInv, GoodObjects
<1> HIDE DEF hp
<1>7. /\ NewHandle # None /\ heap'[cache'[a]] = Restore(snap)
      /\ \A x \in Attempts \ {a} : cache[x] # None => heap'[cache[x]] = heap[cache[x]]
  BY <1>1, <1>2, <1>4, <1>5, <1>6, NoneIsNothing
<1>8. snap.limit > 0
  BY <1>1 DEF SavedInv
<1>9. snap # None /\ snap.status = rows[a].status
  BY <1>1 DEF RowStory
<1>10. Restore(snap).limit > 0 /\ Saved(Restore(snap), rows[a])
  <2> HIDE DEF snap
  <2>1. Restore(snap).status = snap.status /\ Restore(snap).limit = snap.limit
    BY <1>8 DEF Restore
  <2>2. Snapshot(Restore(snap)) = snap
    BY <1>1, <1>8 DEF Snapshot, Restore, SnapshotRecord
  <2> QED
    BY <1>8, <1>9, <2>1, <2>2 DEF Saved, snap
<1>11. \A x \in Attempts : ~Persisting(req[t], x)
  BY <1>3 DEF Persisting
<1>12. heap'[cache'[a]].limit > 0 /\ Saved(heap'[cache'[a]], rows[a])
  BY <1>7, <1>10
<1> HIDE DEF a, snap
<1> QED
  BY <1>1, <1>3, <1>4, <1>7, <1>11, <1>12, ObjectSaved

(* Reading changes nothing that is kept; a change is persisted next. *)
LEMMA ApplySaved ==
    ASSUME OneAtATime, SerialInv, SavedInv, NEW t \in Threads,
           ApplyRead(t) \/ ApplyChange(t) \/ ApplyFinish(t)
    PROVE  SavedInv'
<1> DEFINE a == req[t].a
           n == Applied(Obj(t), req[t].op)
           hp == [heap EXCEPT ![req[t].h] = n]
<1>1. /\ req[t].pc = "apply" /\ req[t].pc \in Holding /\ req[t] \in Request /\ req[t].op \in Ops
      /\ req \in [Threads -> Request] /\ UNCHANGED rows /\ UNCHANGED cache /\ UNCHANGED faults
      /\ ~Rejected(Obj(t), req[t].op)
  BY DEF ApplyRead, ApplyChange, ApplyFinish, Rejected, Holding, SerialInv, ApiInv, GoodRequests,
         GoodRequest, counts
<1>2. /\ a \in Attempts /\ cache[a] = req[t].h /\ cache[a] # None /\ cache[a] \in Handles
      /\ heap[cache[a]] = Obj(t)
      /\ Obj(t) \in Session /\ SaysFinished(Obj(t))
      /\ \A x \in Attempts \ {a} : cache[x] # cache[a]
  BY <1>1, SerialObject
<1>3. /\ n.limit = Obj(t).limit
      /\ req[t].op.kind = "get" => n = Obj(t)
      /\ req[t].op.kind \in {"review", "finish"} => n.status = "finished"
  BY <1>1, <1>2, AppliedStory
<1>4. cache \in [Attempts -> Handles \cup {None}] /\ heap \in [Handles -> Session \cup {None}]
  BY DEF SerialInv, ApiInv, GoodCounts, GoodObjects
<1>5. heap' = hp \/ heap' = Collected(hp, cache, req')
  BY DEF ApplyRead, ApplyChange, ApplyFinish, Obj
<1> HIDE DEF n
<1>6. hp[cache[a]] = n /\ \A x \in Attempts \ {a} : cache[x] # None => hp[cache[x]] = heap[cache[x]]
  BY <1>2, <1>4
<1> HIDE DEF hp
<1>7. \A x \in Attempts : cache[x] # None => heap'[cache[x]] = hp[cache[x]]
  BY <1>4, <1>5 DEF Collected
<1>8. /\ heap'[cache'[a]] = n
      /\ \A x \in Attempts \ {a} : cache[x] # None => heap'[cache[x]] = heap[cache[x]]
  BY <1>1, <1>2, <1>6, <1>7
<1>9. \A x \in Attempts : ~Persisting(req[t], x)
  BY <1>1 DEF Persisting
<1>10. n.limit > 0
  BY <1>2, <1>3 DEF SavedInv
<1>11. ASSUME faults = 0
       PROVE  Saved(n, rows[a]) \/ Persisting(req'[t], a)
  <2>1. CASE ApplyChange(t)
    BY <1>1, <2>1 DEF ApplyChange, GoOn, Persisting, Request
  <2>2. CASE ApplyRead(t) \/ ApplyFinish(t)
    <3>1. Saved(Obj(t), rows[a])
      BY <1>2, <1>9, <1>11 DEF SavedInv, OneAtATime
    <3>2. n = Obj(t) \/ n.status = "finished"
      BY <1>3, <2>2 DEF ApplyRead, ApplyFinish
    <3> QED
      BY <3>1, <3>2 DEF Saved
  <2> QED
    BY <2>1, <2>2 DEF ApplyRead, ApplyChange, ApplyFinish
<1> HIDE DEF a
<1> QED
  BY <1>1, <1>2, <1>8, <1>9, <1>10, <1>11, ObjectSaved

(* A commit saves the session it is for; the ones it abandons need no saving. *)
LEMMA CommitSaved ==
    ASSUME OneAtATime, SerialInv, SavedInv, NEW t \in Threads, CommitUpsert(t) \/ CommitFinal(t)
    PROVE  SavedInv'
<1> DEFINE a == req[t].a
<1>1. /\ req[t].pc \in Holding /\ UNCHANGED cache /\ UNCHANGED faults
      /\ heap' = heap \/ heap' = Collected(heap, cache', req')
  BY DEF CommitUpsert, CommitFinal, Holding, Respond, counts
<1>2. a \in Attempts /\ heap[cache[a]] = Obj(t) /\ cache[a] # None
  BY <1>1, SerialObject
<1>3. \A x \in Attempts : cache[x] # None => heap'[cache[x]] = heap[cache[x]]
  <2>1. cache \in [Attempts -> Handles \cup {None}]
    BY DEF SerialInv, ApiInv, GoodCounts
  <2> QED
    BY <1>1, <2>1, CollectedKeeps
<1>4. /\ rows'[a].snap = Snapshot(Obj(t)) /\ Saved(Obj(t), rows'[a])
  BY UpsertCommitted, FinalCommitted DEF Saved
<1>5. Snapshot(Obj(t)).limit > 0
  BY <1>2 DEF SavedInv, Snapshot
<1>6. ASSUME NEW x \in Attempts \ {a}
      PROVE  /\ rows'[x].snap \in {None, rows[x].snap}
             /\ rows'[x] = rows[x] \/ rows'[x].status = "abandoned"
  <2>1. rows[x] \in Row
    BY DEF SerialInv, ApiInv, GoodRows, Tables
  <2>2. AbandonRow(rows[x]).status = "abandoned" /\ AbandonRow(rows[x]).snap = None
    BY <2>1 DEF AbandonRow, Row
  <2> QED
    BY <2>2, UpsertCommitted, FinalCommitted
<1>7. \A x \in Attempts : rows'[x].snap # None => rows'[x].snap.limit > 0
  BY <1>4, <1>5, <1>6 DEF SavedInv
<1>8. \A x \in Attempts : cache'[x] # None => heap'[cache'[x]].limit > 0
  BY <1>1, <1>3 DEF SavedInv
<1>9. ASSUME NEW x \in Attempts, faults' = 0, cache'[x] # None
      PROVE  Saved(heap'[cache'[x]], rows'[x])
  <2>1. CASE x = a
    BY <1>1, <1>2, <1>3, <1>4, <2>1
  <2>2. CASE x # a
    <3>1. Saved(heap[cache[x]], rows[x])
      BY <1>1, <1>9, <2>2 DEF SavedInv, OneAtATime, Persisting
    <3> QED
      BY <1>1, <1>3, <1>6, <1>9, <2>2, <3>1 DEF Saved
  <2> QED
    BY <2>1, <2>2
<1> QED
  BY <1>7, <1>8, <1>9 DEF SavedInv

(* A finished session leaves the cache; a failure is excused; a restart empties it. *)
LEMMA RestSaved ==
    ASSUME OneAtATime, SerialInv, SavedInv,
           (\E t \in Threads : Evict(t) \/ Raise(t)) \/ Restart
    PROVE  SavedInv'
<1>1. cache \in [Attempts -> Handles \cup {None}] /\ faults \in Nat
  BY DEF SerialInv, ApiInv, GoodCounts
<1>2. ASSUME NEW t \in Threads, Evict(t)
      PROVE  SavedInv'
  <2>1. /\ UNCHANGED rows /\ UNCHANGED faults /\ cache' = [cache EXCEPT ![req[t].a] = None]
        /\ heap' = Collected(heap, cache', req') /\ req[t].pc = "evict"
    BY <1>2 DEF Evict, counts
  <2>2. \A x \in Attempts : cache'[x] # None => cache'[x] = cache[x] /\ cache[x] \in Handles
    BY <1>1, <2>1
  <2>3. \A x \in Attempts : cache'[x] # None => heap'[cache'[x]] = heap[cache[x]]
    BY <2>1, <2>2 DEF Collected
  <2>4. \A x \in Attempts, u \in Threads : ~Persisting(req[u], x)
    BY <2>1 DEF Persisting, OneAtATime
  <2> QED
    BY <2>1, <2>2, <2>3, <2>4 DEF SavedInv
<1>3. ASSUME NEW t \in Threads, Raise(t)
      PROVE  SavedInv'
  <2>1. /\ UNCHANGED <<rows, cache>> /\ faults' = faults + 1
        /\ heap' = heap \/ heap' = Collected(heap, cache', req')
    BY <1>3 DEF Raise, Respond
  <2>2. faults' # 0
    BY <1>1, <2>1
  <2> QED
    BY <2>1, <2>2, QuietSaved
<1>4. ASSUME Restart
      PROVE  SavedInv'
  BY <1>4 DEF Restart, SavedInv
<1> QED
  BY <1>2, <1>3, <1>4

LEMMA SavedInit == Init => SavedInv
  BY DEF Init, SavedInv, NoRow

LEMMA SavedStep == OneAtATime /\ Timed /\ SerialInv /\ SavedInv /\ [Next]_vars => SavedInv'
<1> SUFFICES ASSUME OneAtATime, Timed, SerialInv, SavedInv, [Next]_vars PROVE SavedInv'
  OBVIOUS
<1>1. ASSUME NEW t \in Threads, Client(t) PROVE SavedInv'
  BY <1>1, CreateSaved, RequestSaved DEF Client
<1>2. ASSUME NEW t \in Threads, Serve(t) PROVE SavedInv'
  BY <1>2, RequestSaved, RestoreSaved, ApplySaved, CommitSaved, RestSaved DEF Serve
<1>3. CASE UNCHANGED vars
  BY <1>3 DEF vars, counts, SavedInv
<1> QED
  BY <1>1, <1>2, <1>3, RestSaved DEF Next

-----------------------------------------------------------------------------
(* What the invariants say.                                                *)

LEMMA SerialInvImplies == SerialInv => OneActive /\ ResultsConsistent
  BY DEF SerialInv, Serial, OneActive, ResultsConsistent, RowStory

LEMMA SavedInvImplies == SerialInv /\ SavedInv => CacheIsSaved
<1> SUFFICES ASSUME SerialInv, SavedInv, faults = 0, \A t \in Threads : ~Busy(t),
                    NEW a \in Attempts, cache[a] # None
             PROVE  \/ IsFinished(heap[cache[a]]) \/ rows[a].status = "abandoned"
                    \/ /\ rows[a].status = heap[cache[a]].status
                       /\ rows[a].snap = Snapshot(heap[cache[a]])
  BY DEF CacheIsSaved
<1>1. Saved(heap[cache[a]], rows[a])
  BY DEF SavedInv, Persisting, Busy
<1> QED
  BY <1>1 DEF Saved, IsFinished

(* A request that changes a finished row is another finish of its attempt. *)
LEMMA FinishedStep ==
    ASSUME SerialInv, [Next]_vars, NEW a \in Attempts, rows[a].status = "finished"
    PROVE  rows'[a].status = "finished"
<1>1. ASSUME NEW t \in Threads, CommitUpsert(t)
      PROVE  rows'[a] = rows[a]
  BY <1>1, UpsertCommitted DEF Active
<1>2. ASSUME NEW t \in Threads, CommitFinal(t)
      PROVE  rows'[a].status = "finished"
  BY <1>2, FinalCommitted
<1>3. ASSUME NEW t \in Threads, Client(t) \/ Serve(t) \/ Raise(t)
      PROVE  rows'[a].status = "finished"
  <2>1. rows' = rows \/ CommitUpsert(t) \/ CommitFinal(t)
    BY <1>3 DEF Client, Serve, CreateSession, ReceiveOp, Receive, LookupHit, LookupRow, LookupMiss,
                CacheRestored, Reject, ApplyRead, ApplyChange, ApplyFinish, SkipFinished,
                TakeSnapshot, SelectOthers, SelectOwn, SelectFinalRow, Evict, Raise
  <2> QED
    BY <1>1, <1>2, <2>1
<1>4. CASE Restart \/ UNCHANGED vars
  BY <1>4 DEF Restart, vars
<1> QED
  BY <1>3, <1>4 DEF Next

(* With one request at a time, no sequence of creates, stale sessions, failed
   calls and restarts leaves two active attempts ... *)
THEOREM ApiOneActive == ASSUME OneAtATime PROVE Spec => []OneActive
<1>1. Spec => []SerialInv
  BY SerialInit, SerialStep, PTL DEF Spec
<1> QED
  BY <1>1, SerialInvImplies, PTL

(* ... or a finished one whose score, reviewed grades and answer rows disagree. *)
THEOREM ApiResultsConsistent == ASSUME OneAtATime PROVE Spec => []ResultsConsistent
<1>1. Spec => []SerialInv
  BY SerialInit, SerialStep, PTL DEF Spec
<1> QED
  BY <1>1, SerialInvImplies, PTL

(* A recorded result is never turned back into an attempt or dropped. *)
THEOREM ApiFinishedStaysFinished == ASSUME OneAtATime PROVE Spec => FinishedStaysFinished
<1>1. Spec => []SerialInv
  BY SerialInit, SerialStep, PTL DEF Spec
<1>2. SerialInv /\ [Next]_vars =>
        [\A a \in Attempts : rows[a].status = "finished" => rows'[a].status = "finished"]_rows
  BY FinishedStep
<1> QED
  BY <1>1, <1>2, PTL DEF Spec, FinishedStaysFinished

(* Where every exam has a time limit, a restart between two requests loses no
   session that a failing call has not already left unsaved. *)
THEOREM ApiCacheIsSaved == ASSUME OneAtATime, Timed PROVE Spec => []CacheIsSaved
<1>1. Spec => [](SerialInv /\ SavedInv)
  BY SerialInit, SerialStep, SavedInit, SavedStep, PTL DEF Spec
<1> QED
  BY <1>1, SavedInvImplies, PTL
=============================================================================
