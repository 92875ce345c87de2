------------------------------- MODULE LabApi -------------------------------
(***************************************************************************)
(* The HTTP endpoints of the labs: netsim/router.py.                       *)
(*                                                                         *)
(* A session lives in _SESSIONS until the server ends; nothing is stored.  *)
(* The endpoints are plain functions, which the server runs in a pool of   *)
(* threads, so `submit', which grades, reads the index of the task again   *)
(* and advances it, is cut where another request can come between.         *)
(***************************************************************************)
EXTENDS LabSession

CONSTANTS
    SessionIds,     \* uuid4
    Threads,        \* workers of the pool
    Configs,        \* what a client sends: sequences of lines
    MaxCalls        \* requests in a run

VARIABLES
    served,         \* _SESSIONS: id |-> session
    calls,          \* thread |-> the locals of its `submit'
    reported,       \* id |-> the result `finish' gave last
    requests        \* requests so far

apiVars == <<served, calls, reported, requests>>

IdleCall == [step |-> "idle", id |-> "", task |-> 0, config |-> <<>>]

ApiInit == /\ served = [x \in {} |-> 0]
           /\ calls = [t \in Threads |-> IdleCall]
           /\ reported = [x \in {} |-> 0]
           /\ requests = 0

Request == requests < MaxCalls /\ requests' = requests + 1

\* A worker of the pool is free to serve the request.
FreeWorker == \E t \in Threads : calls[t] = IdleCall

\* POST /labs/{lab_id}/sessions
CreateLabSession(l, id) ==
    /\ Request /\ FreeWorker /\ id \notin DOMAIN served
    /\ served' = [x \in DOMAIN served \cup {id} |-> IF x = id THEN Create(l) ELSE served[x]]
    /\ UNCHANGED <<calls, reported>>

\* POST /lab-sessions/{id}/submit: submit_task takes the current task...
SubmitConfig(t, id, config) ==
    /\ Request /\ calls[t] = IdleCall /\ id \in DOMAIN served
    /\ calls' = [calls EXCEPT ![t] = [step |-> "grade", id |-> id, config |-> config,
                                      task |-> served[id].task]]
    /\ UNCHANGED <<served, reported>>

\* ...grades it against the configuration of the request...
StoreGrade(t) ==
    LET c == calls[t]
    IN  /\ c.step = "grade"
        /\ served' = [served EXCEPT ![c.id] = SubmitTask(@, c.task, c.config)]
        /\ calls' = [calls EXCEPT ![t].step = "next"]
        /\ UNCHANGED <<reported, requests>>

\* ...next_task compares the index...
ReadIndex(t) ==
    LET c == calls[t]
    IN  /\ c.step = "next"
        /\ calls' = [calls EXCEPT ![t] =
                       IF HasNextTask(served[c.id]) THEN [@ EXCEPT !.step = "advance"]
                       ELSE IdleCall]
        /\ UNCHANGED <<served, reported, requests>>

\* ...and increments it.
\* A mutant advances by the task it has graded and one more.
AdvanceMutant(t) ==
    LET c == calls[t]
    IN  /\ c.step = "advance"
        /\ served' = [served EXCEPT ![c.id].task = c.task + 2]
        /\ calls' = [calls EXCEPT ![t] = IdleCall]
        /\ UNCHANGED <<reported, requests>>

Advance(t) ==
    LET c == calls[t]
    IN  /\ c.step = "advance"
        /\ served' = [served EXCEPT ![c.id].task = @ + 1]
        /\ calls' = [calls EXCEPT ![t] = IdleCall]
        /\ UNCHANGED <<reported, requests>>

\* POST /lab-sessions/{id}/reset
ResetLabSession(id, replay) ==
    /\ Request /\ FreeWorker /\ id \in DOMAIN served
    /\ served' = [served EXCEPT ![id] = Reset(@, replay)]
    /\ UNCHANGED <<calls, reported>>

\* POST /lab-sessions/{id}/finish: what has been submitted is scored, nothing
\* is graded again, and the session goes on.
FinishLabSession(id) ==
    /\ Request /\ FreeWorker /\ id \in DOMAIN served
    /\ served' = [served EXCEPT ![id] = Finish(@)]
    /\ reported' = [x \in DOMAIN reported \cup {id} |->
                      IF x = id THEN ScoreLab(served[id]) ELSE reported[x]]
    /\ UNCHANGED calls

ApiNext ==
    \/ \E l \in DOMAIN LabOf, id \in SessionIds : CreateLabSession(l, id)
    \/ \E t \in Threads, id \in SessionIds, config \in Configs : SubmitConfig(t, id, config)
    \/ \E t \in Threads : StoreGrade(t)
    \/ \E t \in Threads : ReadIndex(t)
    \/ \E t \in Threads : Advance(t)
    \/ \E id \in SessionIds, replay \in BOOLEAN : ResetLabSession(id, replay)
    \/ \E id \in SessionIds : FinishLabSession(id)

ApiSpec == ApiInit /\ [][ApiNext]_apiVars

-----------------------------------------------------------------------------
(* Properties.                                                             *)

Calling(id) == {t \in Threads : calls[t] # IdleCall /\ calls[t].id = id}

\* Submit & Next walks through the tasks one by one: between two requests the
\* tasks before the current one are graded and no other, or all are and the
\* last task is current (submit_config: "staying at the last task").  Of
\* requests that run one at a time only: two at once skip a task, and a reset
\* between the steps of a submission is undone by its grade.
GradedInOrder ==
    \A id \in DOMAIN served : Calling(id) = {} =>
        LET s == served[id]
        IN  \/ DOMAIN s.grades = 1..s.task - 1
            \/ DOMAIN s.grades = DOMAIN Tasks(s.lab) /\ s.task = Len(Tasks(s.lab))
=============================================================================
