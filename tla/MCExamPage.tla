---------------------------- MODULE MCExamPage ----------------------------
(***************************************************************************)
(* Small instances of ExamPage.  Each configuration picks the exams its    *)
(* question needs: a short timed one and an untimed one where answers and  *)
(* rows matter, a longer one where the countdown does, and one with a pass *)
(* mark of its own.                                                        *)
(***************************************************************************)
EXTENDS ExamPage, TLC

UntimedExam == [limit |-> 0, pass |-> 50]

MCExams   == {[limit |-> 2, pass |-> 50], UntimedExam}
MCClock   == {[limit |-> 4, pass |-> 50], UntimedExam}
MCUntimed == {UntimedExam}
MCStrict  == {[limit |-> 3, pass |-> 100]}
MCOrdered == {1}

\* The attempts' names play no part in the specification.
MCSymmetry == Permutations(Attempts)
=============================================================================
