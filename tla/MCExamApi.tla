----------------------------- MODULE MCExamApi -----------------------------
(* Small instances of ExamApi: one worker thread, and two that race.       *)
EXTENDS ExamApi

MCTerms == {[limit |-> 2, pass |-> 50]}
=============================================================================
