------------------------------ MODULE ExamApi ------------------------------
(***************************************************************************)
(* The HTTP exam router (exsim/router.py) over the tables of ExamStore.    *)
(*                                                                         *)
(* The handlers are plain functions, so FastAPI runs each request on a     *)
(* worker thread: one thread of this module.  All threads share _SESSIONS  *)
(* (cache), the ExamSession objects it points to (heap) and the database.  *)
(* A request is cut where another thread can come between two of its reads *)
(* and writes: finding the session, changing it, copying it for the        *)
(* database, reading the rows to change, and the commit.                   *)
(*                                                                         *)
(* SQLite admits one writing transaction, and SELECTs before the first     *)
(* write take no part in it.  SQLAlchemy writes only the columns that      *)
(* differ from what it read, so a commit merges into the row it finds.     *)
(***************************************************************************)
EXTENDS ExamStore

CONSTANTS
    Threads,        \* worker threads of the server
    Offered,         \* the terms of the exams on offer
    ModesOffered,   \* exam modes clients ask for
    Countdowns,     \* remaining_seconds in the body of a pause request
    MaxObjects,     \* bound: ExamSession objects alive at once
    MaxRequests,    \* bound: requests in a behaviour
    MaxRestarts,    \* bound: server restarts
    MaxFaults       \* bound: database calls that raise

ASSUME ApiAssumption ==
    /\ None \notin Threads
    /\ Offered \subseteq Terms
    /\ ModesOffered \subseteq Modes
    /\ Countdowns \subseteq Nat
    /\ MaxObjects \in Nat /\ MaxRequests \in Nat
    /\ MaxRestarts \in Nat /\ MaxFaults \in Nat

VARIABLES
    rows,       \* the tables
    cache,      \* _SESSIONS: attempt -> handle of an object, or None
    heap,       \* handle -> ExamSession object, or None
    req,        \* thread -> the request it is serving
    writer,     \* the thread whose transaction holds SQLite's write lock
    requests, restarts, faults      \* counted against the bounds

counts == <<requests, restarts, faults>>
vars == <<rows, cache, heap, req, writer, counts>>

Handles == 1..MaxObjects

-----------------------------------------------------------------------------
(* Requests on an existing session.                                        *)

Op(kind, q, arg) == [kind |-> kind, q |-> q, arg |-> arg]

\* An index may be out of range; a question outside the attempt is rejected
\* like one, so NumQuestions stands for both.
Ops ==
    {Op(kind, 0, None) : kind \in {"get", "resume", "finish", "review"}}
    \cup {Op("goto", q, None) : q \in 0..NumQuestions}
    \cup {Op("answer", q, a) : q \in 0..NumQuestions, a \in Answers \cup {None}}
    \cup {Op(kind, q, None) : kind \in {"bookmark", "mark"}, q \in Questions}
    \cup {Op("pause", 0, r) : r \in Countdowns \cup {None}}

\* MUTANT: the question index is not checked.
RejectedAnyIndex(s, op) ==
    \/ op.kind = "answer" /\ op.q \notin Questions
    \/ op.kind \in {"pause", "resume"} /\ IsFinished(s)
    \/ op.kind = "review" /\ ~IsFinished(s)

\* The responses with status 400.
Rejected(s, op) ==
    \/ op.kind \in {"goto", "answer"} /\ op.q \notin Questions
    \/ op.kind \in {"pause", "resume"} /\ IsFinished(s)
    \/ op.kind = "review" /\ ~IsFinished(s)

\* What the handler does to the session object before it persists it.
\* finish_session neither asks whether the session is finished already nor
\* does submit_answer.
Applied(s, op) ==
    CASE op.kind = "get"      -> s
      [] op.kind = "goto"     -> GotoIndex(s, op.q)
      [] op.kind = "answer"   -> SubmitAnswer(s, op.q, op.arg)
      [] op.kind = "bookmark" -> ToggleBookmark(s, op.q)
      [] op.kind = "mark"     -> ToggleMarkForReview(s, op.q)
      [] op.kind = "pause"    -> Pause(s, op.arg)
      [] op.kind = "resume"   -> Resume(s)
      [] op.kind = "finish"   -> GradeAll(Finish(s))
      [] op.kind = "review"   -> GradeAll(s)

-----------------------------------------------------------------------------
(* The state of a request: where it is, and what it holds in locals.       *)

Idle ==
    [pc |-> "idle", op |-> None, a |-> None, h |-> None, snap |-> None,
     others |-> {}, result |-> None, loaded |-> NoRow, wrote |-> NoRow]

Busy(t) == req[t].pc # "idle"

Obj(t) == heap[req[t].h]

\* Objects nothing points to any more are collected.
Collected(hp, c, r) ==
    [h \in Handles |->
        IF (\E a \in Attempts : c[a] = h) \/ (\E t \in Threads : r[t].h = h)
        THEN hp[h] ELSE None]

FreeHandles == {h \in Handles : heap[h] = None}
NewHandle == CHOOSE h \in FreeHandles : TRUE

\* Thread t goes on with its locals changed, or answers the request.
GoOn(t, r) == req' = [req EXCEPT ![t] = r]

Respond(t) ==
    /\ req' = [req EXCEPT ![t] = Idle]
    /\ heap' = Collected(heap, cache, req')

\* MUTANT: the transaction is left open.
ReleaseNever(t) == writer' = writer

Release(t) == writer' = IF writer = t THEN None ELSE writer

-----------------------------------------------------------------------------
Init ==
    /\ rows   = [a \in Attempts |-> NoRow]
    /\ cache  = [a \in Attempts |-> None]
    /\ heap   = [h \in Handles |-> None]
    /\ req    = [t \in Threads |-> Idle]
    /\ writer = None
    /\ requests = 0 /\ restarts = 0 /\ faults = 0

Receive(t) ==
    /\ ~Busy(t)
    /\ requests < MaxRequests
    /\ requests' = requests + 1
    /\ UNCHANGED <<rows, writer, restarts, faults>>

\* Attempts are numbered by uuid4: an id is used once.
NeverUsed(a) ==
    /\ rows[a].status = "absent"
    /\ cache[a] = None
    /\ \A t \in Threads : req[t].a # a

\* create_session and create_custom_session up to _persist.
CreateSession(t, a, mode, terms) ==
    /\ Receive(t)
    /\ NeverUsed(a)
    /\ FreeHandles # {}
    /\ heap' = [heap EXCEPT ![NewHandle] = Create(mode, terms)]
    /\ cache' = [cache EXCEPT ![a] = NewHandle]
    /\ GoOn(t, [Idle EXCEPT !.pc = "persist", !.op = Op("create", 0, None),
                            !.a = a, !.h = NewHandle])

\* The response of the create request is what tells a client the session id.
BeingCreated(a) == \E t \in Threads : req[t].a = a /\ req[t].op.kind = "create"

\* Any other request, with the id of a session the server knows, has forgotten
\* or never had.
ReceiveOp(t, a, op) ==
    /\ Receive(t)
    /\ ~BeingCreated(a)
    /\ GoOn(t, [Idle EXCEPT !.pc = "lookup", !.op = op, !.a = a])
    /\ UNCHANGED <<cache, heap>>

-----------------------------------------------------------------------------
(* _get_session.                                                           *)

LookupHit(t) ==
    /\ req[t].pc = "lookup"
    /\ cache[req[t].a] # None
    /\ GoOn(t, [req[t] EXCEPT !.pc = "apply", !.h = cache[req[t].a]])
    /\ UNCHANGED <<rows, cache, heap, writer, counts>>

\* Loads whatever row the id has, an active one or not.
LookupRow(t) ==
    /\ req[t].pc = "lookup"
    /\ cache[req[t].a] = None
    /\ CanLoadById(rows, req[t].a)
    /\ GoOn(t, [req[t] EXCEPT !.pc = "restore", !.snap = rows[req[t].a].snap])
    /\ UNCHANGED <<rows, cache, heap, writer, counts>>

LookupMiss(t) ==
    /\ req[t].pc = "lookup"
    /\ cache[req[t].a] = None
    /\ ~CanLoadById(rows, req[t].a)
    /\ Respond(t)
    /\ UNCHANGED <<rows, cache, writer, counts>>

\* The restored object replaces any other the cache has got meanwhile.
CacheRestored(t) ==
    /\ req[t].pc = "restore"
    /\ FreeHandles # {}
    /\ cache' = [cache EXCEPT ![req[t].a] = NewHandle]
    /\ GoOn(t, [req[t] EXCEPT !.pc = "apply", !.h = NewHandle, !.snap = None])
    /\ heap' = Collected([heap EXCEPT ![NewHandle] = Restore(req[t].snap)], cache', req')
    /\ UNCHANGED <<rows, writer, counts>>

-----------------------------------------------------------------------------
(* The handler's change to the session object.                             *)

Reject(t) ==
    /\ req[t].pc = "apply"
    /\ Rejected(Obj(t), req[t].op)
    /\ Respond(t)
    /\ UNCHANGED <<rows, cache, writer, counts>>

\* get_session and review_session answer without persisting; the scoring of a
\* review grades the object in memory.
ApplyRead(t) ==
    /\ req[t].pc = "apply"
    /\ req[t].op.kind \in {"get", "review"}
    /\ ~Rejected(Obj(t), req[t].op)
    /\ req' = [req EXCEPT ![t] = Idle]
    /\ heap' = Collected([heap EXCEPT ![req[t].h] = Applied(Obj(t), req[t].op)], cache, req')
    /\ UNCHANGED <<rows, cache, writer, counts>>

ApplyChange(t) ==
    /\ req[t].pc = "apply"
    /\ req[t].op.kind \notin {"get", "review", "finish"}
    /\ ~Rejected(Obj(t), req[t].op)
    /\ heap' = [heap EXCEPT ![req[t].h] = Applied(@, req[t].op)]
    /\ GoOn(t, [req[t] EXCEPT !.pc = "persist"])
    /\ UNCHANGED <<rows, cache, writer, counts>>

ApplyFinish(t) ==
    /\ req[t].pc = "apply"
    /\ req[t].op.kind = "finish"
    /\ LET s == Applied(Obj(t), req[t].op)
       IN  /\ heap' = [heap EXCEPT ![req[t].h] = s]
           /\ GoOn(t, [req[t] EXCEPT !.pc = "finalize", !.result = ExamResult(s)])
    /\ UNCHANGED <<rows, cache, writer, counts>>

-----------------------------------------------------------------------------
(* _persist and upsert_active_session.                                     *)

SkipFinished(t) ==
    /\ req[t].pc = "persist"
    /\ IsFinished(Obj(t))
    /\ Respond(t)
    /\ UNCHANGED <<rows, cache, writer, counts>>

TakeSnapshot(t) ==
    /\ req[t].pc = "persist"
    /\ ~IsFinished(Obj(t))
    /\ GoOn(t, [req[t] EXCEPT !.pc = "others", !.snap = Snapshot(Obj(t))])
    /\ UNCHANGED <<rows, cache, heap, writer, counts>>

\* MUTANT: the other active rows are not looked for.
SelectNoOthers(t) ==
    /\ req[t].pc = "others"
    /\ GoOn(t, [req[t] EXCEPT !.pc = "own"])
    /\ UNCHANGED <<rows, cache, heap, writer, counts>>

SelectOthers(t) ==
    /\ req[t].pc = "others"
    /\ GoOn(t, [req[t] EXCEPT !.pc = "own", !.others = ActiveAttempts(rows) \ {req[t].a}])
    /\ UNCHANGED <<rows, cache, heap, writer, counts>>

\* The query for the own row first flushes the abandoned others, which takes
\* the write lock.  The status written is the one the object has now.
SelectOwn(t) ==
    /\ req[t].pc = "own"
    /\ req[t].others # {} => writer = None
    /\ writer' = IF req[t].others # {} THEN t ELSE writer
    /\ GoOn(t, [req[t] EXCEPT
           !.pc = "commit",
           !.loaded = rows[req[t].a],
           !.wrote = SaveActive(FoundOrNew(rows, req[t].a), Obj(t).status, req[t].snap)])
    /\ UNCHANGED <<rows, cache, heap, counts>>

\* Only columns that differ from what was loaded are written.
Column(current, loaded, wrote) == IF wrote = loaded THEN current ELSE wrote

\* MUTANT: the status of an existing row is not written.
MergedNoStatus(current, loaded, wrote) ==
    [current EXCEPT !.snap  = Column(@, loaded.snap, wrote.snap),
                    !.score = Column(@, loaded.score, wrote.score)]

Merged(current, loaded, wrote) ==
    [current EXCEPT
        !.status = Column(@, loaded.status, wrote.status),
        !.snap   = Column(@, loaded.snap, wrote.snap),
        !.score  = Column(@, loaded.score, wrote.score)]

\* A row to insert that another thread has inserted violates the unique index.
Conflict(t) == req[t].loaded.status = "absent" /\ rows[req[t].a].status # "absent"

OwnRow(t) ==
    LET r == req[t]
    IN  IF r.loaded.status = "absent"
        THEN [r.wrote EXCEPT !.id = FoundOrNew(rows, r.a).id]
        ELSE Merged(rows[r.a], r.loaded, r.wrote)

CommitUpsert(t) ==
    /\ req[t].pc = "commit"
    /\ writer \in {None, t}
    /\ rows' = IF Conflict(t) THEN rows
               ELSE [x \in Attempts |->
                        IF x = req[t].a THEN OwnRow(t)
                        ELSE IF x \in req[t].others THEN AbandonRow(rows[x])
                        ELSE rows[x]]
    /\ Release(t)
    /\ Respond(t)
    /\ UNCHANGED <<cache, counts>>

-----------------------------------------------------------------------------
(* finish_session: save_exam_result, then the cache entry is dropped.      *)

\* A row to insert is flushed at once, which takes the write lock.
SelectFinalRow(t) ==
    /\ req[t].pc = "finalize"
    /\ LET new == rows[req[t].a].status = "absent"
       IN  /\ new => writer = None
           /\ writer' = IF new THEN t ELSE writer
    /\ GoOn(t, [req[t] EXCEPT
           !.pc = "closing",
           !.loaded = rows[req[t].a],
           !.wrote = SaveFinished(FoundOrNew(rows, req[t].a), Obj(t), Snapshot(Obj(t)),
                                  req[t].result)])
    /\ UNCHANGED <<rows, cache, heap, counts>>

\* MUTANT: the answer rows of an earlier finish stay.
FinalRowKeepsAnswers(t) ==
    [OwnRow(t) EXCEPT
        !.batches  = rows[req[t].a].batches \cup
                     {[n |-> rows[req[t].a].finishes + 1,
                       grades |-> (CHOOSE b \in req[t].wrote.batches : TRUE).grades]},
        !.finishes = rows[req[t].a].finishes + 1]

\* The answer rows deleted are those loaded; the new ones are added to the rest.
FinalRow(t) ==
    LET r == req[t]
        current == rows[r.a]
        grades == (CHOOSE b \in r.wrote.batches : TRUE).grades
    IN  [OwnRow(t) EXCEPT
            !.batches  = (current.batches \ r.loaded.batches)
                         \cup {[n |-> current.finishes + 1, grades |-> grades]},
            !.finishes = current.finishes + 1]

CommitFinal(t) ==
    /\ req[t].pc = "closing"
    /\ writer \in {None, t}
    /\ rows' = [rows EXCEPT ![req[t].a] = FinalRow(t)]
    /\ Release(t)
    /\ GoOn(t, [req[t] EXCEPT !.pc = "evict"])
    /\ UNCHANGED <<cache, heap, counts>>

\* _SESSIONS.pop(session_id, None), whichever object is there by now.
Evict(t) ==
    /\ req[t].pc = "evict"
    /\ cache' = [cache EXCEPT ![req[t].a] = None]
    /\ req' = [req EXCEPT ![t] = Idle]
    /\ heap' = Collected(heap, cache', req')
    /\ UNCHANGED <<rows, writer, counts>>

-----------------------------------------------------------------------------
(* Failures.                                                               *)

\* A database call raises: the transaction is rolled back.  A load that fails
\* fails the request, _persist suppresses the error, and finish_session goes on.
Raise(t) ==
    /\ faults < MaxFaults
    /\ faults' = faults + 1
    /\ Release(t)
    /\ \/ /\ \/ req[t].pc \in {"others", "own", "commit"}
             \/ req[t].pc = "lookup" /\ cache[req[t].a] = None
          /\ Respond(t)
       \/ /\ req[t].pc \in {"finalize", "closing"}
          /\ GoOn(t, [req[t] EXCEPT !.pc = "evict"])
          /\ UNCHANGED heap
    /\ UNCHANGED <<rows, cache, requests, restarts>>

\* The server process ends and is started again.
Restart ==
    /\ restarts < MaxRestarts
    /\ restarts' = restarts + 1
    /\ cache' = [a \in Attempts |-> None]
    /\ heap' = [h \in Handles |-> None]
    /\ req' = [t \in Threads |-> Idle]
    /\ writer' = None
    /\ UNCHANGED <<rows, requests, faults>>

-----------------------------------------------------------------------------
Client(t) ==
    \/ \E a \in Attempts, m \in ModesOffered, e \in Offered : CreateSession(t, a, m, e)
    \/ \E a \in Attempts, op \in Ops : ReceiveOp(t, a, op)

\* The steps of the request a thread is serving.
Serve(t) ==
    \/ LookupHit(t) \/ LookupRow(t) \/ LookupMiss(t) \/ CacheRestored(t)
    \/ Reject(t) \/ ApplyRead(t) \/ ApplyChange(t) \/ ApplyFinish(t)
    \/ SkipFinished(t) \/ TakeSnapshot(t)
    \/ SelectOthers(t) \/ SelectOwn(t) \/ CommitUpsert(t)
    \/ SelectFinalRow(t) \/ CommitFinal(t) \/ Evict(t)

Next ==
    \/ \E t \in Threads : Client(t) \/ Serve(t) \/ Raise(t)
    \/ Restart

Spec == Init /\ [][Next]_vars

\* The operating system keeps running every thread; no client has to ask.
FairSpec == Spec /\ \A t \in Threads : WF_vars(Serve(t))

-----------------------------------------------------------------------------
(* Properties.                                                             *)

OpRecord == [kind : {"create", "get", "resume", "finish", "review", "goto", "answer",
                     "bookmark", "mark", "pause"},
             q : 0..NumQuestions, arg : Answers \cup Nat \cup {None}]

Result == [correct : 0..NumQuestions, incorrect : Int, unanswered : Int, passed : BOOLEAN]

Request ==
    [pc     : {"idle", "lookup", "restore", "apply", "persist", "others", "own", "commit",
               "finalize", "closing", "evict"},
     op     : OpRecord \cup {None},
     a      : Attempts \cup {None},
     h      : Handles \cup {None},
     snap   : SnapshotRecord \cup {None},
     others : SUBSET Attempts,
     result : Result \cup {None},
     loaded : Row,
     wrote  : Row]

TypeOK ==
    /\ rows \in [Attempts -> Row]
    /\ cache \in [Attempts -> Handles \cup {None}]
    /\ heap \in [Handles -> Session \cup {None}]
    /\ req \in [Threads -> Request]
    /\ writer \in Threads \cup {None}
    /\ requests \in Nat /\ restarts \in Nat /\ faults \in Nat

\* With one request at a time, "only one active attempt per user" holds through
\* creates, stale cached sessions, failed writes and restarts.  Two threads
\* that select the other active rows before either commits break it.
OneActive == AtMostOneActive(rows)

\* A grade shown, stored or recorded is the grade of the answer beside it:
\* answers given again, finishes that race with answers, reviews and restores
\* of old snapshots never pair an answer with the grade of another one.
GradesCurrent ==
    /\ \A h \in Handles : heap[h] # None => GradesAreCurrent(heap[h].answers)
    /\ \A a \in Attempts : rows[a].snap # None => GradesAreCurrent(rows[a].snap.answers)
    /\ \A t \in Threads : req[t].snap # None => GradesAreCurrent(req[t].snap.answers)

\* Between requests, and while no database call has failed, what the server
\* would lose in a restart is nothing: the row of every unfinished cached
\* session that has not been abandoned holds that session.
CacheIsSaved ==
    faults = 0 /\ (\A t \in Threads : ~Busy(t)) =>
        \A a \in Attempts :
            cache[a] # None =>
                LET s == heap[cache[a]]
                IN  \/ IsFinished(s) \/ rows[a].status = "abandoned"
                    \/ rows[a].status = s.status /\ rows[a].snap = Snapshot(s)

\* The three records of a finished attempt agree, also when it is restored,
\* answered again and finished again.
ResultsConsistent == \A a \in Attempts : ResultConsistent(rows[a])

\* A recorded result is never turned back into an attempt or dropped.
FinishedStaysFinished ==
    [][\A a \in Attempts : rows[a].status = "finished" => rows'[a].status = "finished"]_rows

\* Every request is answered: no thread waits for the write lock for ever.
Responds == \A t \in Threads : Busy(t) ~> ~Busy(t)
=============================================================================
