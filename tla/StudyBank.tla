----------------------------- MODULE StudyBank -----------------------------
(***************************************************************************)
(* A question as the pages select it (bank_schema.py: Question).  A topic  *)
(* code is the sequence of its segments; the first one is the domain.      *)
(***************************************************************************)
EXTENDS Absent, Integers, SequencesExt

CONSTANTS
    Questions, Certs(_), Topic(_), Difficulty(_),
    FirstCert(_)    \* the first track of a question, which its answers are stored with

OfCert(questions, cert) == {q \in questions : cert \in Certs(q)}
InDomain(questions, d) == {q \in questions : Head(Topic(q)) = d}

\* list.sort of a finite set by a strict total order: each element has its rank, the
\* number of those ahead of it.  (SetToSortSeq gives the same; its definition rests
\* on TLC's SortSeq, which the prover has no definition of.)
InRank(S, ahead) == [k \in 1..Cardinality(S) |-> CHOOSE x \in S : Cardinality(ahead[x]) = k - 1]
Ranked(S, before(_, _)) == InRank(S, [x \in S |-> {y \in S : before(y, x)}])
=============================================================================
