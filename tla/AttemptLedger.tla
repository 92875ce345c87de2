--------------------------- MODULE AttemptLedger ---------------------------
(***************************************************************************)
(* What the student is promised about exam attempts, with no pages,        *)
(* snapshots or tables: at most one attempt is open at a time, opening     *)
(* another one drops it, a closed attempt keeps the result it was closed   *)
(* with for ever, and neither a closed nor a dropped attempt is ever       *)
(* opened again.  ExamPage implements this specification.                  *)
(***************************************************************************)
CONSTANTS Attempts, Results, NoResult

VARIABLES
    phase,      \* [Attempts -> {"new", "open", "closed", "dropped"}]
    result      \* [Attempts -> Results \cup {NoResult}]

ledger == <<phase, result>>

Init ==
    /\ phase  = [a \in Attempts |-> "new"]
    /\ result = [a \in Attempts |-> NoResult]

\* Drop every open attempt except those in `keep'.
DropOpen(keep) ==
    [a \in Attempts |->
        IF phase[a] = "open" /\ a \notin keep THEN "dropped" ELSE phase[a]]

Open(a) ==
    /\ phase[a] \in {"new", "open"}
    /\ phase' = [DropOpen({a}) EXCEPT ![a] = "open"]
    /\ UNCHANGED result

Close(a) ==
    /\ phase[a] \in {"new", "open"}
    /\ phase' = [phase EXCEPT ![a] = "closed"]
    /\ result'[a] \in Results
    /\ result' = [result EXCEPT ![a] = result'[a]]

Drop ==
    /\ phase' = DropOpen({})
    /\ UNCHANGED result

Next == \/ \E a \in Attempts : Open(a) \/ Close(a)
        \/ Drop

Spec == Init /\ [][Next]_ledger
=============================================================================
