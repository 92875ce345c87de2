---------------------------- MODULE QuestionCard ----------------------------
(***************************************************************************)
(* The card that shows a question and takes its answer                     *)
(* (gui/widgets/question_card.py), on the exam page, which stores every    *)
(* change, and on the practice page, which grades once and locks the card. *)
(* A question of each type stands for the questions of that type.          *)
(*                                                                         *)
(* The items to match are tokens: several may show the same text, and an   *)
(* answer holds texts.  The terms to match them to are all different.  A   *)
(* drag is one step: nothing else of the card runs between the drop and    *)
(* the removal from the pool.  What is dropped from outside is left out.   *)
(***************************************************************************)
EXTENDS Absent, Integers, SequencesExt, FiniteSetsExt

CONSTANTS
    Terms, Tokens,  \* 1..n: left_items and right_items, as presented
    Text(_),        \* what a token shows
    Options,        \* of the two choice types
    Presented,      \* ordered_items, as the session presents them
    Configs,        \* what may be typed in a simulation: sets of lines
    Key,            \* question |-> the right answer
    Exams           \* the questions an exam may have

ASSUME MatchAssumption ==
    /\ IsFiniteSet(Terms) /\ Terms = 1..Cardinality(Terms)
    /\ IsFiniteSet(Tokens) /\ Tokens = 1..Cardinality(Tokens)
    /\ None \notin Tokens

ASSUME PageNameAssumption == None \notin {"exam", "practice"}

VARIABLES
    slots,          \* term |-> its token or None: the slot, and its combo box
    tray,           \* token |-> how many the pool shows
    order, picked, ticked, typed,   \* the other types' controls
    shown,          \* the question on the card
    on,             \* the page it is on
    answer,         \* _current_answer
    locked, verdict,
    exam, stored    \* the exam's questions and answers

controls == <<slots, tray, order, picked, ticked, typed>>
cardVars == <<controls, shown, on, answer, locked, verdict, exam, stored>>

Kinds == {"single_choice", "multiple_choice", "drag_match", "ordered_list", "sim"}

NoSlots == [s \in Terms |-> None]
FullTray == [t \in Tokens |-> 1]

CardInit ==
    /\ slots = NoSlots /\ tray = FullTray
    /\ order = Presented /\ picked = None /\ ticked = {} /\ typed = {}
    /\ shown = None /\ on = None /\ answer = None
    /\ locked = FALSE /\ verdict = None
    /\ exam = {} /\ stored = [q \in Kinds |-> None]

\* _emit: the texts by term
Pairs(s) == [term \in {x \in Terms : s[x] # None} |-> Text(s[term])]

-----------------------------------------------------------------------------
(* What a change emits.                                                    *)

\* _store_answer on the exam page
Emit(a) ==
    /\ answer' = a
    /\ stored' = IF on = "exam" THEN [stored EXCEPT ![shown] = a] ELSE stored
    /\ UNCHANGED <<shown, on, locked, verdict, exam>>

Editing(kind) == shown = kind /\ ~locked

\* _on_single, _on_check, _on_sim
Pick(c) ==
    /\ Editing("single_choice") /\ picked # c
    /\ picked' = c /\ Emit(c)
    /\ UNCHANGED <<slots, tray, order, ticked, typed>>

TickBox(c) ==
    /\ Editing("multiple_choice")
    /\ ticked' = (ticked \ {c}) \cup ({c} \ ticked) /\ Emit(ticked')
    /\ UNCHANGED <<slots, tray, order, picked, typed>>

Type(config) ==
    /\ Editing("sim") /\ config # typed
    /\ typed' = config /\ Emit(config)
    /\ UNCHANGED <<slots, tray, order, picked, ticked>>

\* _move by the buttons, and rowsMoved after a drag
MoveItem(i, j) ==
    /\ Editing("ordered_list") /\ i # j
    /\ order' = InsertAt(RemoveAt(order, i), j, order[i]) /\ Emit(order')
    /\ UNCHANGED <<slots, tray, picked, ticked, typed>>

-----------------------------------------------------------------------------
(* Matching.                                                               *)

Returned(t, token) == IF token = None THEN t ELSE [t EXCEPT ![token] = @ + 1]
TakenOut(t, token) == [t EXCEPT ![token] = IF @ = 0 THEN 0 ELSE @ - 1]

\* dropEvent of a slot and the end of startDrag: what was in the slot goes back.
\* A mutant forgets it.
DropMutant(token, term) ==
    /\ Editing("drag_match") /\ tray[token] > 0
    /\ tray' = TakenOut(tray, token)
    /\ slots' = [slots EXCEPT ![term] = token]
    /\ Emit(Pairs(slots'))
    /\ UNCHANGED <<order, picked, ticked, typed>>

Drop(token, term) ==
    /\ Editing("drag_match") /\ tray[token] > 0
    /\ tray' = TakenOut(Returned(tray, slots[term]), token)
    /\ slots' = [slots EXCEPT ![term] = token]
    /\ Emit(Pairs(slots'))
    /\ UNCHANGED <<order, picked, ticked, typed>>

\* The slot's button
ClearSlot(term) ==
    /\ Editing("drag_match") /\ slots[term] # None
    /\ slots' = [slots EXCEPT ![term] = None]
    /\ tray' = Returned(tray, slots[term])
    /\ Emit(Pairs(slots'))
    /\ UNCHANGED <<order, picked, ticked, typed>>

\* _on_combo_changed: the combo box offers what no other slot has.
Offers(term) == {token \in Tokens : \A other \in Terms \ {term} : slots[other] # token}

ChooseNothing(term) ==
    /\ Editing("drag_match") /\ slots[term] # None
    /\ tray' = IF \E other \in Terms \ {term} : slots[other] = slots[term] THEN tray
               ELSE Returned(tray, slots[term])
    /\ slots' = [slots EXCEPT ![term] = None]
    /\ Emit(Pairs(slots'))
    /\ UNCHANGED <<order, picked, ticked, typed>>

Choose(term, token) ==
    /\ Editing("drag_match") /\ token \in Offers(term) /\ slots[term] # token
    /\ tray' = TakenOut(IF \E other \in Terms \ {term} : slots[other] = slots[term] THEN tray
                        ELSE Returned(tray, slots[term]), token)
    /\ slots' = [s \in Terms |-> IF s = term THEN token
                                 ELSE IF slots[s] = token THEN None ELSE slots[s]]
    /\ Emit(Pairs(slots'))
    /\ UNCHANGED <<order, picked, ticked, typed>>

\* set_pairs: the terms take, in turn, the first token left of their text.
\* A mutant takes the first one of that text.
TurnOfTerm(pairs, term) == {s \in DOMAIN pairs : s < term /\ pairs[s] = pairs[term]}
TurnOfToken(token) == {t \in Tokens : t < token /\ Text(t) = Text(token)}

RestoredMutant(pairs) ==
    [term \in Terms |->
        IF term \in DOMAIN pairs /\ \E t \in Tokens : Text(t) = pairs[term]
        THEN CHOOSE t \in Tokens : Text(t) = pairs[term] /\ TurnOfToken(t) = {} ELSE None]

Takes(pairs, term, token) ==
    /\ term \in DOMAIN pairs /\ Text(token) = pairs[term]
    /\ Cardinality(TurnOfToken(token)) = Cardinality(TurnOfTerm(pairs, term))

Restored(pairs) ==
    [term \in Terms |->
        IF \E token \in Tokens : Takes(pairs, term, token)
        THEN CHOOSE token \in Tokens : Takes(pairs, term, token) ELSE None]

Rest(s) == [t \in Tokens |-> IF \E term \in Terms : s[term] = t THEN 0 ELSE 1]

-----------------------------------------------------------------------------
(* The pages.                                                              *)

Given(a, default) == IF a = None THEN default ELSE a

\* A new card: its controls, and set_answer of what was answered.
NewCard(kind, a, presented) ==
    /\ slots' = IF kind = "drag_match" /\ a # None THEN Restored(a) ELSE NoSlots
    /\ tray' = IF kind = "drag_match" /\ a # None THEN Rest(slots') ELSE FullTray
    /\ order' = IF kind = "ordered_list" THEN Given(a, presented) ELSE Presented
    /\ picked' = IF kind = "single_choice" THEN a ELSE None
    /\ ticked' = IF kind = "multiple_choice" THEN Given(a, {}) ELSE {}
    /\ typed' = IF kind = "sim" THEN Given(a, {}) ELSE {}
    /\ shown' = kind /\ locked' = FALSE /\ verdict' = None

\* _render_current: after a step, a jump, or a resumption.  An order is stored as
\* it is first shown.
\* A mutant leaves it to the first move.
RenderCurrentMutant(q) ==
    /\ q \in exam
    /\ on' = "exam"
    /\ NewCard(q, stored[q], Presented)
    /\ answer' = CASE stored[q] # None -> stored[q]
                   [] stored[q] = None /\ q = "ordered_list" -> Presented
                   [] stored[q] = None /\ q = "drag_match" -> Pairs(NoSlots)
                   [] OTHER -> None
    /\ UNCHANGED <<exam, stored>>

RenderCurrent(q) ==
    /\ q \in exam
    /\ on' = "exam"
    /\ NewCard(q, stored[q], Presented)
    /\ answer' = CASE stored[q] # None -> stored[q]
                   [] stored[q] = None /\ q = "ordered_list" -> Presented
                   [] stored[q] = None /\ q = "drag_match" -> Pairs(NoSlots)
                   [] OTHER -> None
    /\ stored' = IF q = "ordered_list" THEN [stored EXCEPT ![q] = answer'] ELSE stored
    /\ UNCHANGED exam

\* start_session
StartExam(questions) ==
    /\ exam' = questions /\ stored' = [q \in Kinds |-> None]
    /\ shown' = None /\ on' = None /\ answer' = None /\ locked' = FALSE /\ verdict' = None
    /\ UNCHANGED controls

\* _load_current of the practice page shuffles anew.
LoadCurrent(q, presented) ==
    /\ q \in Kinds
    /\ on' = "practice"
    /\ NewCard(q, None, presented)
    /\ answer' = CASE q = "ordered_list" -> presented
                   [] q = "drag_match" -> Pairs(NoSlots)
                   [] OTHER -> None
    /\ UNCHANGED <<exam, stored>>

\* grade_answer
GradeAnswer(q, a) == CASE q = "sim" -> Key[q] # {} /\ Key[q] \subseteq a
                       [] OTHER -> a = Key[q]

\* _check_answer
CheckCard ==
    /\ on = "practice" /\ ~locked /\ answer # None
    /\ locked' = TRUE /\ verdict' = GradeAnswer(shown, answer)
    /\ UNCHANGED <<controls, shown, on, answer, exam, stored>>

Orders == {o \in [1..Len(Presented) -> Range(Presented)] : Range(o) = Range(Presented)}

CardNext ==
    \/ \E c \in Options : Pick(c) \/ TickBox(c)
    \/ \E config \in Configs : Type(config)
    \/ \E i, j \in DOMAIN order : MoveItem(i, j)
    \/ \E token \in Tokens, term \in Terms : Drop(token, term) \/ Choose(term, token)
    \/ \E term \in Terms : ClearSlot(term) \/ ChooseNothing(term)
    \/ \E questions \in Exams : StartExam(questions)
    \/ \E q \in Kinds : RenderCurrent(q)
    \/ \E q \in Kinds, presented \in Orders : LoadCurrent(q, presented)
    \/ CheckCard

CardSpec == CardInit /\ [][CardNext]_cardVars

-----------------------------------------------------------------------------
(* Properties.                                                             *)

\* Each item to match is in one place, its slot or the pool, whatever is dropped on
\* whatever, cleared or chosen, and after the answer was left and found again, with
\* items of the same text too (_MatchWidget).
MatchTokenOnce ==
    \A token \in Tokens :
        IF \E term \in Terms : slots[term] = token
        THEN tray[token] = 0 /\ \A s, t \in Terms : slots[s] = token /\ slots[t] = token => s = t
        ELSE tray[token] = 1

\* What the controls show.
OnTheCard ==
    CASE shown = "single_choice" -> picked
      [] shown = "multiple_choice" -> ticked
      [] shown = "sim" -> typed
      [] shown = "ordered_list" -> order
      [] shown = "drag_match" -> Pairs(slots)

Untouched ==
    CASE shown = "single_choice" -> picked = None
      [] shown = "multiple_choice" -> ticked = {}
      [] shown = "sim" -> typed = {}
      [] shown = "ordered_list" -> FALSE
      [] shown = "drag_match" -> slots = NoSlots

\* What the exam has stored for the question is what its card shows, also when the
\* question was left and is shown again; and what was graded on the practice page
\* is what is shown (set_answer, _store_answer, _check_answer).
AnswerShown ==
    /\ on = "exam" => stored[shown] = OnTheCard \/ (stored[shown] = None /\ Untouched)
    /\ locked => verdict = GradeAnswer(shown, OnTheCard)
=============================================================================
