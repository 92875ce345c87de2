---------------------------- MODULE ExamRecipes ----------------------------
(***************************************************************************)
(* What an exam is made of: blueprints (exsim/blueprint.py), custom exams  *)
(* and their saved presets (exsim/custom_exam.py, custom_exam_store.py),   *)
(* the page that builds them (gui/pages/custom_exam_page.py), the facade   *)
(* that starts them (gui/engine.py), the window's retake, and the same     *)
(* operations of the HTTP router, in a process of its own: it shares the   *)
(* presets and the database with the application, not the pool.            *)
(*                                                                         *)
(* Weights are whole numbers: the float remainders of the code order the   *)
(* domains as the exact ones do, but for ties they may break either way.   *)
(***************************************************************************)
EXTENDS StudyBank

CONSTANTS
    Corrupt,        \* a file that is no preset
    Pools,          \* what the content may be: sets of questions
    Blueprints,     \* id |-> blueprint; its weights are a function on domains
    Forms,          \* what the user may enter, what a client may send: specs
    PresetIds,
    SeededPick(_, _, _),    \* random.Random(seed): seed, eligible, how many
    Plans           \* what the user and a client may do in a run: for each, a
                    \*   sequence of acts

ASSUME WeightsAssumption ==
    \A b \in DOMAIN Blueprints :
        LET w == Blueprints[b].weights
        IN  /\ Blueprints[b].count \in Nat
            /\ IsFiniteSet(DOMAIN w) /\ DOMAIN w \subseteq Int
            /\ \A d \in DOMAIN w : w[d] \in Nat
            /\ SumFunction(w) > 0

ASSUME BlueprintIdsAssumption == None \notin DOMAIN Blueprints

ASSUME PoolsAssumption == \A content \in Pools : content \subseteq Questions /\ IsFiniteSet(content)

\* CustomExamSpec; a topic code is a sequence.
SpecFields == {"cert", "topics", "difficulties", "history", "count", "seed"}

ASSUME FormsAssumption ==
    \A f \in Forms :
        /\ DOMAIN f = SpecFields /\ f.count \in Nat
        /\ \A t \in f.topics : t \in Seq(Range(t))

\* random.sample draws as many as it is asked for, each once.
ASSUME PickAssumption ==
    \A f \in Forms, S \in SUBSET Questions :
        IsFiniteSet(S) /\ f.seed # None /\ Cardinality(S) >= f.count =>
            SeededPick(f.seed, S, f.count) \in kSubset(f.count, S)

VARIABLES
    pool,           \* what the application's load_pool gives from now on
    served,         \* ... the router's
    practiced,      \* practice_attempts: question, outcome
    answered,       \* user_answers: question, is_correct
    presets,        \* id |-> the spec in its file, Corrupt or None
    saving,         \* who |-> what save_preset has written to a temporary file
    leftovers,      \* such files of processes that ended before os.replace
    form, editing,  \* the page: its form, _editing_id
    listed,         \* ... its list of presets
    enabled,        \* ... its Start exam button
    place,          \* where the window is
    running,        \* the window's attempt, also when it is paused or over
    client,         \* the router's session
    met, failed,    \* history: questions checked or in an exam that is over;
                    \*   those without a right answer
    touched,        \* history: the database or the content changed since the last
                    \*   preview
    refused,        \* history: a start the button allowed was refused, then
                    \*   `touched'
    done            \* who |-> acts so far

recipePool == <<pool, served>>
recipeRows == <<practiced, answered, met, failed>>
recipePage == <<form, editing, listed, enabled>>
recipeFiles == <<presets, saving, leftovers>>
recipeVars == <<recipePool, recipeRows, recipeFiles, recipePage, place, running, client,
                touched, refused, done>>

-----------------------------------------------------------------------------
(* Blueprints.                                                             *)

\* allocate_counts: the whole part of each share, and one more for the largest
\* remainders, the higher prefix first, until the total is reached.
\* A mutant rounds each share.
AllocateCountsMutant(total, weights) ==
    LET sum == SumFunction(weights)
    IN  [d \in DOMAIN weights |-> (2 * total * weights[d] + sum) \div (2 * sum)]

AllocateCounts(total, weights) ==
    LET sum == SumFunction(weights)
        floors == [d \in DOMAIN weights |-> (total * weights[d]) \div sum]
        remainder == [d \in DOMAIN weights |-> (total * weights[d]) % sum]
        before(d) == {e \in DOMAIN weights \ {d} : \/ remainder[e] > remainder[d]
                                                   \/ remainder[e] = remainder[d] /\ e > d}
        leftover == total - SumFunction(floors)
    IN  [d \in DOMAIN weights |-> floors[d] + IF Cardinality(before(d)) < leftover THEN 1 ELSE 0]

Required(b) == AllocateCounts(Blueprints[b].count, Blueprints[b].weights)

\* build_exam_from_blueprint: what it may draw, nothing if a domain is short or
\* the blueprint is not enabled.
BuildsFrom(b, questions) ==
    LET need == Required(b)
        eligible == OfCert(questions, Blueprints[b].cert)
        picks == [d \in DOMAIN need |-> kSubset(need[d], InDomain(eligible, d))]
    IN  IF ~Blueprints[b].enabled THEN {}
        ELSE {UNION {pick[d] : d \in DOMAIN pick} :
                 pick \in {f \in [DOMAIN need -> UNION {picks[d] : d \in DOMAIN need}] :
                              \A d \in DOMAIN need : f[d] \in picks[d]}}

\* coverage_for_blueprint(...).ready
CoverageReady(b, questions) ==
    LET eligible == OfCert(questions, Blueprints[b].cert)
    IN  \A d \in DOMAIN Required(b) : Cardinality(InDomain(eligible, d)) >= Required(b)[d]

\* What coverage says and what can be drawn agree.
ReadyIsDrawable(b, questions) ==
    Blueprints[b].enabled => (CoverageReady(b, questions) <=> BuildsFrom(b, questions) # {})

-----------------------------------------------------------------------------
(* Custom exams.                                                           *)

\* question_history_map, of what the database holds: an answer row without a
\* grade counts as a miss.
\* A mutant leaves the exams out.
HistoryMapMutant == [seen |-> {r.q : r \in practiced}, missed |-> {r.q : r \in {x \in practiced : ~x.right}}]

HistoryMap ==
    [seen |-> {r.q : r \in practiced \cup answered},
     missed |-> {r.q : r \in {x \in practiced \cup answered : x.right # TRUE}}]

\* _topic_matches: the code itself, or a domain or a section it lies in.
TopicMatches(q, topics) == topics = {} \/ \E t \in topics : IsPrefix(t, Topic(q))

\* filter_questions
FilterQuestions(questions, spec) ==
    {q \in OfCert(questions, spec.cert) :
        /\ TopicMatches(q, spec.topics)
        /\ spec.difficulties = {} \/ Difficulty(q) \in spec.difficulties
        /\ spec.history = "missed" => q \in HistoryMap.missed
        /\ spec.history = "unseen" => q \notin HistoryMap.seen}

\* coverage_for_custom, as the page reads it
Suffices(questions, spec) == Cardinality(FilterQuestions(questions, spec)) >= spec.count

\* build_exam_from_custom: what it may draw, nothing if the pool is too small.
CustomFrom(questions, spec) ==
    LET eligible == FilterQuestions(questions, spec)
    IN  IF ~Suffices(questions, spec) THEN {}
        ELSE IF spec.seed = None THEN kSubset(spec.count, eligible)
        ELSE {SeededPick(spec.seed, eligible, spec.count)}

-----------------------------------------------------------------------------
(* Attempts.                                                               *)

\* ExamSession.create; `asked', `seen' and `missed' are what the questions were
\* drawn for, and what had been met by then.
Attempt(questions, preset, blueprint, asked) ==
    [questions |-> questions, preset |-> preset, blueprint |-> blueprint, asked |-> asked,
     seen |-> met, missed |-> failed, status |-> "active"]

\* One thing more of what a plan of the run allows; the two do not wait for each
\* other.
Does(who, act) ==
    /\ \E plan \in Plans :
          /\ Len(done[who]) < Len(plan[who]) /\ act = plan[who][Len(done[who]) + 1]
          /\ \A w \in {"window", "client"} : IsPrefix(done[w], plan[w])
    /\ done' = [done EXCEPT ![who] = Append(@, act)]

NothingElse == UNCHANGED <<recipePool, recipeRows, recipeFiles>>

\* start_blueprint_exam, start_custom_exam: the attempts they may give.
BlueprintAttempts(b, questions) ==
    {Attempt(qs, None, b, b) : qs \in BuildsFrom(b, questions)}

CustomAttempts(spec, preset, questions) ==
    {Attempt(qs, preset, None, spec) : qs \in CustomFrom(questions, spec)}

\* get_preset
Known(id) == id # None /\ presets[id] \notin {None, Corrupt}

\* What a resumption finds: an attempt that is not over, the client's too.
Resumable == {a \in {running, client} : a # None /\ a.status \in {"active", "paused"}}

\* _confirm_replace_active_exam before the session page starts: abandon, resume
\* what is saved, or neither.
Confirmed(attempt) ==
    \/ running' = attempt /\ place' = "exam"
    \/ \E a \in Resumable : running' = [a EXCEPT !.status = "active"] /\ place' = "exam"
    \/ Resumable # {} /\ UNCHANGED <<running, place>>

\* start_ccna_exam of the dashboard, _start_exam of the practice page
StartBlueprint(b) ==
    /\ place = "elsewhere" /\ Does("window", <<"blueprint", b>>)
    /\ \E a \in BlueprintAttempts(b, pool) : Confirmed(a)
    /\ NothingElse /\ UNCHANGED <<recipePage, client, touched, refused>>

\* finalize_session, when a session is over: a row for every question.  It may fail.
Graded(attempt) ==
    \/ \E right \in SUBSET attempt.questions, blank \in SUBSET attempt.questions :
          /\ right \cap blank = {}
          /\ answered' = answered \cup
                {[q |-> q, right |-> IF q \in blank THEN None ELSE q \in right] : q \in attempt.questions}
          /\ met' = met \cup attempt.questions
          /\ failed' = failed \cup (attempt.questions \ right)
    \/ UNCHANGED <<answered, met, failed>>

Finish ==
    /\ place = "exam"
    /\ running' = [running EXCEPT !.status = "finished"]
    /\ place' = "result"
    /\ Graded(running)
    /\ UNCHANGED <<recipePool, practiced, recipeFiles, recipePage, client, touched, refused, done>>

Pause ==
    /\ place = "exam"
    /\ running' = [running EXCEPT !.status = "paused"] /\ place' = "elsewhere"
    /\ NothingElse /\ UNCHANGED <<recipePage, client, touched, refused, done>>

LeaveResult ==
    /\ place = "result" /\ place' = "elsewhere"
    /\ NothingElse /\ UNCHANGED <<recipePage, running, client, touched, refused, done>>

\* _on_retake: from the preset as it is now, or from the blueprint; when that
\* fails, and without either, from the questions of the attempt.
Retakes(a) ==
    IF a.preset # None
    THEN IF Known(a.preset) THEN CustomAttempts(presets[a.preset], a.preset, pool) ELSE {}
    ELSE IF a.blueprint # None THEN BlueprintAttempts(a.blueprint, pool) ELSE {}

Retake ==
    /\ place = "result" /\ Does("window", <<"retake">>)
    /\ running' \in (IF Retakes(running) # {} THEN Retakes(running)
                     ELSE {Attempt(running.questions, None, None, [same |-> running.questions])})
    /\ place' = "exam"
    /\ NothingElse /\ UNCHANGED <<recipePage, client, touched, refused>>

-----------------------------------------------------------------------------
(* Presets.  save_preset writes a temporary file and puts it in the place  *)
(* of the preset.  Both lie in one directory under names that end alike,   *)
(* so that list_presets, of any process, reads the temporary one too.      *)

SaveBegins(who, id, spec) ==
    /\ saving[who] = None
    /\ saving' = [saving EXCEPT ![who] = [id |-> id, spec |-> spec]]
    /\ UNCHANGED <<presets, leftovers>>

Stored(who) ==
    /\ saving[who] # None
    /\ presets' = [presets EXCEPT ![saving[who].id] = saving[who].spec]
    /\ saving' = [saving EXCEPT ![who] = None]
    /\ UNCHANGED leftovers

\* list_presets: of two with an id, a caller that looks it up takes the older one.
TempFiles == leftovers \cup ({saving[who] : who \in DOMAIN saving} \ {None})
Readable(id) == (IF Known(id) THEN {presets[id]} ELSE {}) \cup {t.spec : t \in {x \in TempFiles : x.id = id}}
Listed == {id \in PresetIds : Readable(id) # {}}

\* delete_preset: of a leftover nothing goes.
Deleted(id) == presets' = [presets EXCEPT ![id] = None] /\ UNCHANGED <<saving, leftovers>>

\* uuid4
FreshIds == {id \in PresetIds : presets[id] = None /\ \A t \in TempFiles : t.id # id}

-----------------------------------------------------------------------------
(* The page.                                                               *)

AtForm == place = "custom" /\ saving["window"] = None

\* _rebuild_topics keeps the topic if the pool has it.
Offered(spec) == IF \A t \in spec.topics : \E q \in OfCert(pool, spec.cert) : Topic(q) = t
                 THEN spec ELSE [spec EXCEPT !.topics = {}]

\* _update_eligible
Preview(spec) == enabled' = Suffices(pool, spec) /\ touched' = FALSE

\* _open_custom_exam and refresh
OpenPage ==
    /\ place = "elsewhere" /\ place' = "custom"
    /\ form' = Offered(form) /\ listed' = Listed
    /\ Preview(form')
    /\ NothingElse /\ UNCHANGED <<editing, running, client, refused, done>>

LeavePage ==
    /\ AtForm /\ place' = "elsewhere"
    /\ NothingElse /\ UNCHANGED <<recipePage, running, client, touched, refused, done>>

\* _on_filters_changed, after the edits of a few fields
\* A mutant does not preview again.
EditFormMutant(spec) ==
    /\ AtForm /\ Does("window", <<"edit", spec>>)
    /\ form' = Offered(spec)
    /\ NothingElse /\ UNCHANGED <<editing, listed, enabled, place, running, client, touched, refused>>

EditForm(spec) ==
    /\ AtForm /\ Does("window", <<"edit", spec>>)
    /\ form' = Offered(spec)
    /\ Preview(form')
    /\ NothingElse /\ UNCHANGED <<editing, listed, place, running, client, refused>>

\* _load_selected_preset: the first topic of the preset, if it is offered.
LoadPreset(id) ==
    /\ AtForm /\ id \in listed /\ Does("window", <<"load", id>>)
    /\ editing' = id
    /\ \E spec \in Readable(id) :
          \E ts \in IF spec.topics = {} THEN {{}} ELSE {{t} : t \in spec.topics} :
             form' = Offered([spec EXCEPT !.topics = ts])
    /\ Preview(form')
    /\ NothingElse /\ UNCHANGED <<listed, place, running, client, refused>>

\* _save_preset, a new preset under a new id...
SavePreset ==
    /\ AtForm /\ Does("window", <<"save">>)
    /\ \E id \in IF editing = None THEN FreshIds ELSE {editing} : SaveBegins("window", id, form)
    /\ UNCHANGED <<recipePool, recipeRows, recipePage, place, running, client, touched, refused>>

\* ...that is written, and edited from then on...
PresetSaved ==
    /\ Stored("window")
    /\ editing' = saving["window"].id
    /\ listed' = Listed
    /\ UNCHANGED <<recipePool, recipeRows, form, enabled, place, running, client, touched, refused, done>>

\* ...or not.
SaveFailed ==
    /\ saving["window"] # None
    /\ saving' = [saving EXCEPT !["window"] = None]
    /\ UNCHANGED <<recipePool, recipeRows, presets, leftovers, recipePage, place, running, client, touched, refused, done>>

\* _delete_selected_preset
DeletePreset(id) ==
    /\ AtForm /\ id \in listed /\ Does("window", <<"delete", id>>)
    /\ Deleted(id)
    /\ editing' = (IF editing = id THEN None ELSE editing)
    /\ listed' = {x \in Listed : x # id \/ \E t \in TempFiles : t.id = id}
    /\ UNCHANGED <<recipePool, recipeRows, form, enabled, place, running, client, touched, refused>>

\* _start: the attempt carries the id that is edited, whatever the form says by now.
StartCustom ==
    /\ AtForm /\ enabled /\ Suffices(pool, form) /\ Does("window", <<"start">>)
    /\ \E a \in CustomAttempts(form, editing, pool) : Confirmed(a)
    /\ NothingElse /\ UNCHANGED <<recipePage, client, touched, refused>>

StartRefused ==
    /\ AtForm /\ enabled /\ ~Suffices(pool, form) /\ refused = None
    /\ refused' = [touched |-> touched]
    /\ NothingElse /\ UNCHANGED <<recipePage, place, running, client, touched, done>>

\* The practice page: see StudyDesk.
Practice(q, right) ==
    /\ place = "elsewhere" /\ q \in pool /\ Does("window", <<"practice">>)
    /\ practiced' = practiced \cup {[q |-> q, right |-> right]}
    /\ met' = met \cup {q}
    /\ failed' = IF right THEN failed ELSE failed \cup {q}
    /\ UNCHANGED <<recipePool, answered, recipeFiles, recipePage, place, running, client, touched, refused>>

-----------------------------------------------------------------------------
(* The router, and what may happen to a file by hand.                      *)

ClientKeeps == UNCHANGED <<recipePool, recipePage, place, running, refused>>

\* POST /custom-exams/presets, with the id of a preset or a new one...
ClientSaves(id, spec) ==
    /\ Does("client", <<"save", spec>>) /\ SaveBegins("client", id, spec)
    /\ UNCHANGED <<recipeRows, client, touched>> /\ ClientKeeps

ClientSaved ==
    /\ Stored("client")
    /\ UNCHANGED <<recipeRows, client, touched, done>> /\ ClientKeeps

\* DELETE /custom-exams/presets/{preset_id}
ClientDeletes(id) ==
    /\ presets[id] # None /\ Does("client", <<"delete">>)
    /\ Deleted(id)
    /\ UNCHANGED <<recipeRows, client, touched>> /\ ClientKeeps

\* POST /exams/{exam_id}/sessions, /custom-exams/sessions with a preset or a spec;
\* what cannot be resolved or filled is refused.
ClientStarts ==
    /\ \/ \E b \in DOMAIN Blueprints :
             Does("client", <<"blueprint", b>>) /\ client' \in BlueprintAttempts(b, served)
       \/ \E id \in PresetIds :
             Does("client", <<"preset", id>>) /\ Known(id) /\ client' \in CustomAttempts(presets[id], id, served)
       \/ \E spec \in Forms :
             Does("client", <<"spec", spec>>) /\ client' \in CustomAttempts(spec, None, served)
    /\ UNCHANGED <<recipeRows, recipeFiles, touched>> /\ ClientKeeps

\* POST /sessions/{session_id}/finish
ClientFinishes ==
    /\ client # None /\ client.status = "active"
    /\ client' = [client EXCEPT !.status = "finished"]
    /\ Graded(client)
    /\ touched' = TRUE
    /\ UNCHANGED <<practiced, recipeFiles, done>> /\ ClientKeeps

\* A bank or a pack changes, whatever page is shown: each load_pool collects the
\* fingerprints, and rescans (_ensure_loaded).  The router may miss what has none, and
\* the application finds at Refresh content.
ContentChanges(content) ==
    /\ content # pool /\ Does("client", <<"content">>)
    /\ pool' = content /\ served' \in {served, content}
    /\ touched' = TRUE
    /\ UNCHANGED <<recipeRows, recipeFiles, recipePage, place, running, client, refused>>

Corrupted(id) ==
    /\ Known(id) /\ Does("client", <<"corrupt">>)
    /\ presets' = [presets EXCEPT ![id] = Corrupt]
    /\ UNCHANGED <<recipeRows, saving, leftovers, client, touched>> /\ ClientKeeps

\* A process ends during a save.  The application starts again.
Ends(who) ==
    /\ saving[who] # None
    /\ leftovers' = leftovers \cup {saving[who]}
    /\ saving' = [saving EXCEPT ![who] = None]
    /\ IF who = "window"
       THEN /\ place' = "elsewhere" /\ running' = None /\ editing' = None /\ listed' = {} /\ enabled' = FALSE
            /\ UNCHANGED <<form, client>>
       ELSE client' = None /\ UNCHANGED <<recipePage, place, running>>
    /\ UNCHANGED <<recipePool, recipeRows, presets, touched, refused, done>>

-----------------------------------------------------------------------------
RecipeInit ==
    /\ pool \in Pools /\ served = pool
    /\ practiced = {} /\ answered = {} /\ met = {} /\ failed = {}
    /\ presets = [id \in PresetIds |-> None]
    /\ saving = [who \in {"window", "client"} |-> None] /\ leftovers = {}
    /\ form \in Forms /\ editing = None /\ listed = {} /\ enabled = FALSE
    /\ place = "elsewhere" /\ running = None /\ client = None
    /\ touched = FALSE /\ refused = None
    /\ done = [who \in {"window", "client"} |-> <<>>]

RecipeNext ==
    \/ OpenPage \/ LeavePage \/ SavePreset \/ PresetSaved \/ SaveFailed
    \/ StartCustom \/ StartRefused \/ Finish \/ Pause \/ LeaveResult \/ Retake
    \/ \E b \in DOMAIN Blueprints : StartBlueprint(b)
    \/ \E spec \in Forms : EditForm(spec)
    \/ \E id \in PresetIds : LoadPreset(id) \/ DeletePreset(id) \/ ClientDeletes(id) \/ Corrupted(id)
    \/ \E q \in Questions, right \in BOOLEAN : Practice(q, right)
    \/ \E content \in Pools : ContentChanges(content)
    \/ \E id \in PresetIds, spec \in Forms : ClientSaves(id, spec)
    \/ \E who \in {"window", "client"} : Ends(who)
    \/ ClientSaved \/ ClientStarts \/ ClientFinishes

RecipeSpec == RecipeInit /\ [][RecipeNext]_recipeVars

-----------------------------------------------------------------------------
(* Properties.                                                             *)

\* A blueprint's exam has its number of questions, all of its track, and each
\* domain's share of them but for less than one question.
FollowsBlueprint(a) ==
    LET b == Blueprints[a.blueprint]
        sum == SumFunction(b.weights)
    IN  /\ Cardinality(a.questions) = b.count
        /\ \A q \in a.questions : b.cert \in Certs(q) /\ Head(Topic(q)) \in DOMAIN b.weights
        /\ \A d \in DOMAIN b.weights :
              LET off == Cardinality(InDomain(a.questions, d)) * sum - b.count * b.weights[d]
              IN  off < sum /\ -off < sum

\* A custom exam has what its spec says, of what the user had met by then in any
\* process, on the practice page or in an exam that was over.
FollowsSpec(a) ==
    /\ Cardinality(a.questions) = a.asked.count
    /\ \A q \in a.questions :
          /\ a.asked.cert \in Certs(q)
          /\ a.asked.topics # {} => \E t \in a.asked.topics : SubSeq(Topic(q), 1, Len(t)) = t
          /\ a.asked.difficulties # {} => Difficulty(q) \in a.asked.difficulties
          /\ a.asked.history = "unseen" => q \notin a.seen
          /\ a.asked.history = "missed" => q \in a.missed

\* Whatever the pool, the presets and the history became meanwhile, an attempt has
\* the questions that were asked for: the blueprint's, the form's, those of the
\* preset as it is when it is used, or those of the attempt that is retaken
\* (build_exam_from_blueprint, build_exam_from_custom, _on_retake).
DrawnAsAsked ==
    \A a \in {running, client} \ {None} :
        IF a.blueprint # None THEN FollowsBlueprint(a)
        ELSE IF a.asked \in {[same |-> a.questions]} THEN TRUE
        ELSE FollowsSpec(a)

\* "Start exam" is enabled only when the exam can be filled, unless since the last
\* preview another process has finished an exam or the content has changed
\* (_update_eligible).
EnabledStarts == refused # None => refused.touched
=============================================================================
