------------------------------- MODULE MCBench -------------------------------
(***************************************************************************)
(* The updates, the database's upgrade, the exams' recipes, the question   *)
(* card, the question library and the pages that show the history.  They   *)
(* share no state but the settings and the database, of which each models  *)
(* its own part: a run steps one of them, the others stay as they begin.   *)
(***************************************************************************)
EXTENDS UpdateDesk, DbUpgrade, ExamRecipes, QuestionCard, StudyDesk, StudyHome, TLC

-----------------------------------------------------------------------------
(* Releases: the application is 1's first beta.                            *)

MCCurrent == Version(1, 1)
MCUpdater == Version(1, None)
MCDigest(blocks) == <<"sha256", blocks>>

Asset == [trusted |-> TRUE, size |-> 2]
ManifestOf(v) ==
    [wellFormed |-> TRUE, version |-> v, tag |-> v, named |-> TRUE, trusted |-> TRUE, size |-> 2,
     minimum |-> Updater, digest |-> MCDigest(<<"a", "b">>)]
Release(v, prerelease) ==
    [tag |-> v, prerelease |-> prerelease, draft |-> FALSE,
     assets |-> [a \in Assets |-> Asset], manifest |-> ManifestOf(v)]

\* The second beta, the release, a beta of the next version that is not flagged as
\* one; a draft, a name that is no version, a release that is flagged a prerelease.
GoodFeed ==
    <<[Release(Version(3, None), FALSE) EXCEPT !.draft = TRUE],
      [Release(Version(3, None), FALSE) EXCEPT !.tag = None],
      Release(Version(3, None), TRUE),
      Release(Version(1, None), FALSE), Release(Version(2, 1), FALSE), Release(Version(1, 2), TRUE)>>

\* A beta lacks its checksum file: nothing for the stable channel.
BadFeed == <<Release(Version(0, None), FALSE),
             [Release(Version(1, 2), TRUE) EXCEPT !.assets = [a \in {"installer", "manifest"} |-> Asset]]>>

MCFeeds == {GoodFeed, BadFeed}
MCStreams == {<<"a", "b">>, <<"a", "x">>, <<"a", "b", "c">>}

Stable == [channel |-> "stable", startupChecks |-> TRUE]
Beta == [channel |-> "beta", startupChecks |-> TRUE]

MCPreferences == {Stable, Beta}

MCUserPlans ==
    {<<<<"choose">>, <<"study">>, <<"skip">>, <<"save", Beta>>>>,
     <<<<"choose">>, <<"later">>>>,
     <<<<"choose">>, <<"check", Beta>>, <<"skip">>>>,
     <<<<"close">>, <<"check", Stable>>, <<"remind">>>>,
     <<<<"close">>, <<"check", Stable>>, <<"install">>, <<"refresh">>, <<"check", Stable>>, <<"install">>>>}

-----------------------------------------------------------------------------
(* The database: one session knows its exam, one does not.                 *)

MCCodeOf(id) == IF id = 1 THEN "code" ELSE ""

-----------------------------------------------------------------------------
(* The bank.                                                               *)

MCQuestions == 1..5
MCCerts(q) == CASE q = 5 -> {"ccnp"} [] q = 4 -> {"ccna", "ccnp"} [] OTHER -> {"ccna"}
MCFirstCert(q) == IF q = 5 THEN "ccnp" ELSE "ccna"
MCTopic(q) == CASE q \in {1, 2} -> <<1, 1>> [] q = 3 -> <<2, 1>> [] OTHER -> <<2, 2>>
MCDifficulty(q) == IF q = 1 THEN 1 ELSE 2

MCPools == {MCQuestions, MCQuestions \ {4}, MCQuestions \ {1, 2}}
MCBlueprints == [ccna |-> [cert |-> "ccna", count |-> 2, weights |-> <<3, 1>>, enabled |-> TRUE],
                 enarsi |-> [cert |-> "ccnp", count |-> 1, weights |-> <<0, 1>>, enabled |-> FALSE]]

Spec2 == [cert |-> "ccna", topics |-> {}, difficulties |-> {}, history |-> "any", count |-> 2, seed |-> None]
Unseen == [Spec2 EXCEPT !.history = "unseen", !.topics = {<<1, 1>>}]
Missed == [Spec2 EXCEPT !.history = "missed", !.count = 1]
Seeded == [Spec2 EXCEPT !.topics = {<<2>>, <<1, 1>>}, !.difficulties = {2}, !.seed = 7]
MCForms == {Unseen, Missed, Seeded}

ASSUME CoverageAssumption ==
    \A questions \in MCPools, b \in DOMAIN MCBlueprints : ReadyIsDrawable(b, questions)

MCPick(seed, eligible, n) == CHOOSE s \in kSubset(n, eligible) : TRUE

Plan(w, c) == [window |-> w, client |-> c]
MCPlans ==
    {Plan(<<<<"save">>, <<"start">>, <<"retake">>>>, <<<<"delete">>>>),
     Plan(<<<<"load", "p1">>, <<"save">>, <<"start">>, <<"retake">>>>, <<<<"save", Seeded>>, <<"corrupt">>>>),
     Plan(<<<<"load", "p1">>, <<"delete", "p1">>, <<"start">>>>, <<<<"save", Seeded>>, <<"preset", "p1">>>>),
     Plan(<<<<"edit", Unseen>>, <<"start">>>>, <<<<"spec", Unseen>>>>),
     Plan(<<<<"edit", Unseen>>, <<"start">>>>, <<<<"content">>, <<"spec", Unseen>>>>),
     Plan(<<<<"practice">>, <<"edit", Missed>>, <<"start">>>>, <<>>),
     Plan(<<<<"blueprint", "ccna">>, <<"retake">>>>, <<<<"content">>>>),
     Plan(<<>>, <<<<"blueprint", "ccna">>>>),
     Plan(<<<<"blueprint", "ccna">>, <<"blueprint", "ccna">>>>, <<>>)}

-----------------------------------------------------------------------------
(* The card and the library.                                               *)

MCText(token) == IF token = 3 THEN "second" ELSE "first"
MCPresented == <<"third", "first", "second">>
MCKey == [single_choice |-> "x", multiple_choice |-> {"x"}, drag_match |-> <<"first", "first", "second">>,
          ordered_list |-> <<"first", "second", "third">>, sim |-> {"line"}]

MCContents == {1..4, 2..5}
MCSorted(key, questions) ==
    SetToSortSeq(questions, LAMBDA a, b :
        IF key = "id" THEN a < b
        ELSE Difficulty(a) > Difficulty(b) \/ (Difficulty(a) = Difficulty(b) /\ a > b))
MCSheets == {(1 :> TRUE @@ 3 :> FALSE), (2 :> FALSE @@ 3 :> FALSE @@ 4 :> TRUE), (5 :> FALSE)}

-----------------------------------------------------------------------------
(* The pages that show the history: three exams' worth of answers.         *)

Ended(version, sheet, finish) ==
    [version |-> version, status |-> "finished", answered |-> 2, finish |-> finish, score |-> 50,
     passed |-> FALSE, sheet |-> sheet]
Unfinished(n) ==
    [version |-> "v1", status |-> "active", answered |-> n, finish |-> None, score |-> None,
     passed |-> None, sheet |-> <<>>]
MCHistories ==
    {<<>>,
     <<Ended("", 1 :> TRUE @@ 5 :> FALSE, 1), Ended("v2", 3 :> TRUE @@ 5 :> None, 2), Unfinished(1)>>}
MCOutcomes == {(1 :> TRUE @@ 3 :> FALSE), (3 :> None @@ 5 :> TRUE)}
MCCatalogues ==
    {<<[certs |-> {"ccna"}, domain |-> 2, gold |-> TRUE], [certs |-> {"ccnp"}, domain |-> 1, gold |-> FALSE]>>,
     <<>>}

-----------------------------------------------------------------------------
RecipeStart == RecipeInit /\ pool = MCQuestions /\ form = Unseen

HomeStart == HomeInit /\ exams = <<>> /\ labs = <<>>

LibraryStart == StudyInit /\ HomeStart

UpdatesOnly ==
    /\ DbInit /\ RecipeStart /\ CardInit /\ LibraryStart
    /\ UNCHANGED <<dbVars, recipeVars, cardVars, studyVars, homeVars>>

BenchInit == UpdInit /\ DbInit /\ RecipeStart /\ CardInit /\ StudyInit /\ HomeInit

BenchSpec ==
    /\ BenchInit
    /\ [][ \/ UpdatesOnly /\ UpdNext
           \/ UpdInit /\ RecipeStart /\ CardInit /\ LibraryStart /\ DbNext
              /\ UNCHANGED <<updVars, recipeVars, cardVars, studyVars, homeVars>>
           \/ UpdInit /\ DbInit /\ CardInit /\ LibraryStart /\ RecipeNext
              /\ UNCHANGED <<updVars, dbVars, cardVars, studyVars, homeVars>>
           \/ UpdInit /\ DbInit /\ RecipeStart /\ LibraryStart /\ CardNext
              /\ UNCHANGED <<updVars, dbVars, recipeVars, studyVars, homeVars>>
           \/ UpdInit /\ DbInit /\ RecipeStart /\ CardInit /\ HomeStart /\ StudyNext
              /\ UNCHANGED <<updVars, dbVars, recipeVars, cardVars, homeVars>>
           \/ UpdInit /\ DbInit /\ RecipeStart /\ CardInit /\ StudyInit /\ HomeNext
              /\ UNCHANGED <<updVars, dbVars, recipeVars, cardVars, studyVars>>
         ]_<<updVars, dbVars, recipeVars, cardVars, studyVars, homeVars>>
    /\ WF_updVars(UpdatesOnly /\ EventLoop)
=============================================================================
