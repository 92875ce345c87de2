----------------------------- MODULE StudyHome -----------------------------
(***************************************************************************)
(* The dashboard (gui/pages/__init__.py) and the statistics page           *)
(* (gui/pages/stats_page.py): what they read of the history                *)
(* (stats_service.py) and when, and what the dashboard's buttons start     *)
(* (gui/main_window.py).                                                   *)
(*                                                                         *)
(* The window's thread runs one handler at a time; a page that is chosen   *)
(* is shown at once and refreshed by a timer that is due next.             *)
(***************************************************************************)
EXTENDS StudyBank

CONSTANTS
    Histories,      \* what the database may hold at the start: rows of exam_sessions
    Outcomes,       \* how an exam may end: question |-> is_correct or None
    ExamVersion,    \* of a new exam
    PassMark,       \* in per cent
    LabScores,      \* how a lab may end, in per cent
    Catalogues,     \* what the registry may load: lab |-> its certs, its domain, gold or not
    Recent,         \* the limits of the histories and the trends: 5, 8 or 10 in the code
    MaxSteps        \* a bound on what the user does in a run

ASSUME RecentAssumption == Recent \in Nat \ {0}

ASSUME TimesAssumption == None \notin Nat
ASSUME RecordsAssumption ==
    /\ None \notin [domain : Int, lab : Nat \cup {None}]
    /\ None \notin [exam : Nat, answered : Nat]

\* The domains of the banks are numbered.
ASSUME DomainsAssumption == \A q \in Questions : Head(Topic(q)) \in Int

ASSUME OutcomesAssumption == \A sheet \in Outcomes : DOMAIN sheet \subseteq Questions /\ IsFiniteSet(DOMAIN sheet)

\* Labs are numbered in the order of their ids.
ASSUME CataloguesAssumption == \A catalogue \in Catalogues : DOMAIN catalogue \subseteq Nat

\* What earlier launches have left: the attempts that are over have been finished one
\* after the other, only they have answers, and one at most can be resumed.
RowFields == {"version", "status", "answered", "finish", "score", "passed", "sheet"}
ASSUME HistoriesAssumption ==
    \A h \in Histories :
        LET over == {i \in DOMAIN h : h[i].finish # None}
        IN  /\ h \in Seq(Range(h))
            /\ {h[i].finish : i \in over} = 1..Cardinality(over)
            /\ \A i, j \in DOMAIN h : h[i].status = "active" /\ h[j].status = "active" => i = j
            /\ \A i \in DOMAIN h :
                  /\ DOMAIN h[i] = RowFields /\ h[i].answered \in Nat
                  /\ h[i].status = "finished" <=> h[i].finish # None
                  /\ DOMAIN h[i].sheet \subseteq Questions /\ IsFiniteSet(DOMAIN h[i].sheet)
                  /\ h[i].finish = None => DOMAIN h[i].sheet = {}

VARIABLES
    exams,          \* exam_sessions with their user_answers, by id
    labRuns,        \* lab_sessions, in the order they were finished
    labs,           \* the registry's
    front,          \* the page that is shown
    sitting,        \* the attempt on the exam page
    pending,        \* pages whose refresh is due
    home,           \* the dashboard's cards, None for its error message
    filter,         \* the statistics page's filters...
    board,          \* ... and panels, None for its error message
    aside,          \* history: the files changed since the page was made, or a read failed
    acted

homeRows == <<exams, labRuns>>
homePages == <<home, filter, board, aside>>
homeVars == <<homeRows, labs, front, sitting, pending, homePages, acted>>

Act == acted < MaxSteps /\ acted' = acted + 1

-----------------------------------------------------------------------------
(* Histories.                                                              *)

Upto(n, s) == SubSeq(s, 1, IF Len(s) < n THEN Len(s) ELSE n)
When(x) == IF x.finish = None THEN 0 ELSE x.finish
NewestFirst(ids) ==
    Ranked(ids, LAMBDA i, j :
        \/ When(exams[i]) > When(exams[j])
        \/ When(exams[i]) = When(exams[j]) /\ i < j)

\* exam_history lists attempts that are not finished too, after the others, as
\* failed with no points.
ExamItem(i) ==
    [kind |-> "exam", finish |-> exams[i].finish, passed |-> exams[i].passed = TRUE,
     score |-> IF exams[i].score = None THEN 0 ELSE exams[i].score]
ExamHistory(n) == LET ids == Upto(n, NewestFirst(DOMAIN exams)) IN [k \in DOMAIN ids |-> ExamItem(ids[k])]

LabItem(l) == [kind |-> "lab", finish |-> l.finish, passed |-> l.score >= 70, score |-> l.score]
LabHistory(n) == LET runs == Upto(n, Reverse(labRuns)) IN [k \in DOMAIN runs |-> LabItem(runs[k])]

ScoreTrend == Reverse(ExamHistory(Recent))

\* latest_activity
LatestActivity ==
    LET exam == ExamHistory(1)
        lab == LabHistory(1)
    IN  IF exam = <<>> /\ lab = <<>> THEN None
        ELSE IF lab = <<>> \/ (exam # <<>> /\ When(exam[1]) >= When(lab[1])) THEN exam[1] ELSE lab[1]

\* _activity_feed, of which six are shown
ActivityFeed(es, ls) ==
    LET all == es \o ls
        order == Ranked(DOMAIN all, LAMBDA j, k :
                     When(all[j]) > When(all[k]) \/ (When(all[j]) = When(all[k]) /\ j < k))
    IN  Upto(6, [n \in DOMAIN order |-> all[order[n]]])

\* exam_summary: "failed" is what is not passed.
ExamSummary ==
    [total |-> Len(exams), passed |-> Cardinality({i \in DOMAIN exams : exams[i].passed = TRUE}),
     points |-> SumFunction([i \in DOMAIN exams |-> ExamItem(i).score])]
LabSummary == [total |-> Len(labRuns), points |-> SumFunction([i \in DOMAIN labRuns |-> labRuns[i].score])]

-----------------------------------------------------------------------------
(* Answers: pairs of an attempt and a question.                            *)

AnswersOf(i) == {<<i, q>> : q \in DOMAIN exams[i].sheet}
Outcome(a) == exams[a[1]].sheet[a[2]]
Matches(a, cert) == cert = None \/ FirstCert(a[2]) = cert
ScoredOf(i) == {a \in AnswersOf(i) : Outcome(a) # None}
Scored(cert) == {a \in UNION {ScoredOf(i) : i \in DOMAIN exams} : Matches(a, cert)}

Prefix(a) == Head(Topic(a[2]))
Tally(answers) == [right |-> Cardinality({a \in answers : Outcome(a)}), total |-> Cardinality(answers)]
ByDomain(answers) == [d \in {Prefix(a) : a \in answers} |-> Tally({a \in answers : Prefix(a) = d})]

DomainTotals(cert) == ByDomain(Scored(cert))

\* weak_domains
Weaker(s, t) == s.right * t.total < t.right * s.total
WeakestFirst(totals) ==
    Ranked(DOMAIN totals, LAMBDA d, e :
        IF Weaker(totals[d], totals[e]) THEN TRUE
        ELSE /\ ~Weaker(totals[e], totals[d])
             /\ \/ totals[d].total > totals[e].total
                \/ totals[d].total = totals[e].total /\ d < e)

\* suggest_next: a gold lab of the weakest domain if there is one
Advice(cert) ==
    LET weak == WeakestFirst(DomainTotals(cert))
        gold == {l \in DOMAIN labs : /\ labs[l].gold /\ labs[l].domain = weak[1]
                                     /\ cert = None \/ cert \in labs[l].certs}
    IN  IF weak = <<>> THEN None
        ELSE [domain |-> weak[1],
              lab |-> IF gold = {} THEN None ELSE CHOOSE l \in gold : \A m \in gold : l <= m]

\* The column the statistics name "unknown" is empty in the rows.
Named(version) == IF version = "" THEN "unknown" ELSE version

\* domain_accuracy_by_version
Cells(cert, version) ==
    LET chosen == {a \in Scored(cert) : version = None \/ exams[a[1]].version = version}
        key(a) == <<Prefix(a), Named(exams[a[1]].version)>>
    IN  [k \in {key(a) : a \in chosen} |-> Tally({a \in chosen : key(a) = k})]

\* list_exam_versions
ExamVersions(cert) == {Named(exams[a[1]].version) : a \in Scored(cert)}

\* domain_trend: the newest attempts that have an answer of the track, graded or not
DomainTrend(cert) ==
    LET ids == {i \in DOMAIN exams : /\ exams[i].finish # None
                                     /\ cert # None => \E a \in AnswersOf(i) : Matches(a, cert)}
        shown == Reverse(Upto(Recent, NewestFirst(ids)))
    IN  [k \in DOMAIN shown |-> ByDomain({a \in ScoredOf(shown[k]) : Matches(a, cert)})]

\* recent_missed_question_ids, by the newest miss of each question
Misses ==
    LET missed(q) == {i \in DOMAIN exams : q \in DOMAIN exams[i].sheet /\ exams[i].sheet[q] = FALSE}
        last(q) == NewestFirst(missed(q))[1]
    IN  Upto(Recent, Ranked({q \in Questions : missed(q) # {}}, LAMBDA p, q :
            \/ When(exams[last(p)]) > When(exams[last(q)])
            \/ last(p) = last(q) /\ p > q))

-----------------------------------------------------------------------------
(* The pages.                                                              *)

\* get_resumable_info
ToResume ==
    LET active == {i \in DOMAIN exams : exams[i].status = "active"}
    IN  IF active = {} THEN None
        ELSE LET i == CHOOSE j \in active : \A k \in active : k <= j
             IN  [exam |-> i, answered |-> exams[i].answered]

\* DashboardPage.refresh, with what it was told of an exam to resume
Dashboard(resume) ==
    LET es == ExamHistory(Recent)
        ls == LabHistory(Recent)
        next == Advice(None)
        history == es # <<>> \/ ls # <<>> \/ resume # None
    IN  [resume |-> resume, next |-> next, first |-> next = None /\ ~history, quick |-> history,
         feed |-> ActivityFeed(es, ls), weak |-> WeakestFirst(DomainTotals(None)) # <<>>,
         missed |-> Misses # <<>>, last |-> LatestActivity]

\* StatsPage._rebuild.  A filter that is not offered shows as "All versions".
Board(f) ==
    LET offered == ExamVersions(f.cert)
    IN  [summary |-> ExamSummary, labSummary |-> LabSummary,
         exams |-> ExamHistory(Recent), labs |-> LabHistory(Recent), trend |-> ScoreTrend,
         bars |-> DomainTotals(f.cert), cells |-> Cells(f.cert, f.version),
         series |-> DomainTrend(f.cert), misses |-> Misses, next |-> Advice(f.cert),
         certBox |-> f.cert, offered |-> offered,
         versionBox |-> IF f.version \in offered THEN f.version ELSE None]

NoFilter == [cert |-> None, version |-> None]

\* A query may fail; only that for the exam to resume fails alone.
ShowDashboard ==
    \/ home' = Dashboard(ToResume) /\ aside' = FALSE
    \/ home' \in {None, Dashboard(None)} /\ aside' = TRUE

ShowBoard(f) ==
    /\ filter' = f /\ board' \in {Board(f), None} /\ aside' = FALSE

HomeInit ==
    /\ exams \in Histories /\ labRuns = <<>> /\ labs \in Catalogues
    /\ front = "closed" /\ sitting = None /\ pending = {}
    /\ home = None /\ aside = FALSE
    /\ filter = NoFilter /\ board = None
    /\ acted = 0

\* _on_nav_clicked, select_page: the page is shown...
SelectPage(page) == front' = page /\ pending' = pending \cup ({page} \cap {"dashboard", "stats"})

\* ... and refreshed later, if it is shown still.
RefreshShown(page) ==
    /\ page \in pending /\ pending' = pending \ {page}
    /\ CASE page = "dashboard" /\ front = page -> ShowDashboard /\ UNCHANGED <<filter, board>>
         [] page = "stats" /\ front = page -> ShowBoard(filter) /\ UNCHANGED home
         [] front # page -> UNCHANGED homePages
    /\ UNCHANGED <<homeRows, labs, front, sitting, acted>>

ChooseTab(page) ==
    /\ front # "exam" /\ Act /\ SelectPage(page)
    /\ UNCHANGED <<homeRows, labs, sitting, homePages>>

\* The boxes of the statistics page: a cert resets the version, but for a mutant.
CertChosenMutant(cert) == ShowBoard([filter EXCEPT !.cert = cert])
CertChosen(cert) == ShowBoard([cert |-> cert, version |-> None])

ChooseFilter ==
    /\ front = "stats" /\ board # None /\ Act
    /\ \/ \E cert \in {"ccna", "ccnp", None} : cert # board.certBox /\ CertChosen(cert)
       \/ \E version \in board.offered \cup {None} :
             version # board.versionBox /\ ShowBoard([filter EXCEPT !.version = version])
    /\ UNCHANGED <<homeRows, labs, front, sitting, pending, home>>

-----------------------------------------------------------------------------
(* Exams and labs.                                                         *)

Clock == 1 + Len(labRuns) + Cardinality({i \in DOMAIN exams : exams[i].finish # None})

ActiveRow(s) == [version |-> s.version, status |-> "active", answered |-> s.answered,
                 finish |-> None, score |-> None, passed |-> None, sheet |-> <<>>]
FinishedRow(s, sheet) ==
    LET score == (100 * Cardinality({q \in DOMAIN sheet : sheet[q] = TRUE})) \div Cardinality(DOMAIN sheet)
    IN  [ActiveRow(s) EXCEPT !.status = "finished", !.finish = Clock, !.score = score,
                             !.passed = (score >= PassMark), !.sheet = sheet]

\* The row of an attempt has the place it was first saved at.
RowId(s) == IF s.id = None THEN Len(exams) + 1 ELSE s.id
Put(rows, s, row) == IF s.id = None THEN Append(rows, row) ELSE [rows EXCEPT ![s.id] = row]
Abandoned ==
    [i \in DOMAIN exams |-> IF exams[i].status = "active" THEN [exams[i] EXCEPT !.status = "abandoned"]
                            ELSE exams[i]]

\* upsert_active_session (see ExamStore), which may fail
SaveSitting(s) ==
    \/ exams' = Put(Abandoned, s, ActiveRow(s)) /\ sitting' = [s EXCEPT !.id = RowId(s)]
    \/ exams' = exams /\ sitting' = s

\* resume_paused_exam, if its questions are in the pool still
ResumeExam ==
    /\ ToResume # None
    /\ SaveSitting([id |-> ToResume.exam, answered |-> ToResume.answered,
                 version |-> exams[ToResume.exam].version])
    /\ front' = "exam"

\* _confirm_replace_active_exam abandons what could be resumed, the new attempt is
\* saved; each may fail.
StartNew ==
    LET s == [id |-> None, answered |-> 0, version |-> ExamVersion]
    IN  /\ SaveSitting(s) \/ (exams' = Abandoned /\ sitting' = s)
        /\ front' = "exam"

\* The card of the first session, or another page
StartAnExam ==
    /\ front = "elsewhere" \/ (front = "dashboard" /\ home # None /\ home.first)
    /\ Act
    /\ ResumeExam \/ StartNew
    /\ UNCHANGED <<labRuns, labs, pending, homePages>>

OnDashboard == front = "dashboard" /\ home # None

\* navigate_continue_activity: the exam, or the page of the last activity
ContinueActivity ==
    /\ OnDashboard /\ home.quick /\ Act
    /\ ResumeExam \/ (front' = "elsewhere" /\ UNCHANGED <<exams, sitting>>)
    /\ UNCHANGED <<labRuns, labs, pending, homePages>>

\* apply_suggestion, start_lab_by_id: a lab that is gone is not started.
Follow(next) ==
    IF next.lab = None THEN front' = "elsewhere" ELSE next.lab \in DOMAIN labs /\ front' = "lab"

\* The other cards: the suggestion, also on the statistics page; the weakest domain
\* and what was missed, in the library; a first lab (start_intro_gold_lab).  A lab
\* may be started from the list, too.
FollowCard ==
    /\ Act
    /\ \/ OnDashboard /\ home.next # None /\ Follow(home.next)
       \/ front = "stats" /\ board # None /\ board.next # None /\ Follow(board.next)
       \/ OnDashboard /\ home.quick /\ (home.weak \/ home.missed) /\ front' = "elsewhere"
       \/ /\ OnDashboard /\ home.first
          /\ front' = IF \E l \in DOMAIN labs : labs[l].gold THEN "lab" ELSE "elsewhere"
       \/ front = "elsewhere" /\ DOMAIN labs # {} /\ front' = "lab"
    /\ UNCHANGED <<homeRows, labs, sitting, pending, homePages>>

\* An answer, or another edit that is saved
AnswerOne ==
    /\ front = "exam" /\ Act
    /\ SaveSitting([sitting EXCEPT !.answered = @ + 1])
    /\ UNCHANGED <<labRuns, labs, front, pending, homePages>>

\* _on_exam_paused.  A mutant shows the dashboard without its refresh.
PauseExamMutant ==
    /\ front = "exam" /\ Act /\ front' = "dashboard"
    /\ exams' \in {exams, Put(Abandoned, sitting, ActiveRow(sitting))} /\ sitting' = None
    /\ UNCHANGED <<labRuns, labs, pending, homePages>>

PauseExam ==
    /\ front = "exam" /\ Act /\ SelectPage("dashboard")
    /\ exams' \in {exams, Put(Abandoned, sitting, ActiveRow(sitting))} /\ sitting' = None
    /\ UNCHANGED <<labRuns, labs, homePages>>

\* finish_and_score, _on_exam_result
EndExam(sheet) ==
    /\ front = "exam" /\ Act /\ front' = "elsewhere"
    /\ exams' \in {exams, Put(exams, sitting, FinishedRow(sitting, sheet))} /\ sitting' = None
    /\ UNCHANGED <<labRuns, labs, pending, homePages>>

\* finish_and_score_lab, save_lab_result, _on_lab_result
EndLab(score) ==
    /\ front = "lab" /\ Act /\ front' = "elsewhere"
    /\ labRuns' \in {labRuns, Append(labRuns, [score |-> score, finish |-> Clock])}
    /\ UNCHANGED <<exams, labs, sitting, pending, homePages>>

\* The registry finds other files (see ContentRegistry).
ChangeLabs(catalogue) ==
    /\ catalogue # labs /\ Act /\ labs' = catalogue /\ aside' = TRUE
    /\ UNCHANGED <<homeRows, front, sitting, pending, home, filter, board>>

\* closeEvent
CloseApp ==
    /\ front # "closed" /\ Act /\ front' = "closed" /\ sitting' = None /\ pending' = {}
    /\ IF front = "exam" THEN exams' \in {exams, Put(Abandoned, sitting, ActiveRow(sitting))}
       ELSE UNCHANGED exams
    /\ UNCHANGED <<labRuns, labs, homePages>>

\* The main window makes the pages anew and refreshes the dashboard.
OpenApp ==
    /\ front = "closed" /\ front' = "dashboard"
    /\ ShowDashboard /\ filter' = NoFilter /\ board' = None
    /\ UNCHANGED <<homeRows, labs, sitting, pending, acted>>

HomeNext ==
    \/ ChooseFilter \/ StartAnExam \/ ContinueActivity \/ FollowCard
    \/ AnswerOne \/ PauseExam \/ CloseApp \/ OpenApp
    \/ \E page \in {"dashboard", "stats", "elsewhere"} : ChooseTab(page) \/ RefreshShown(page)
    \/ \E sheet \in Outcomes : EndExam(sheet)
    \/ \E score \in LabScores : EndLab(score)
    \/ \E catalogue \in Catalogues : ChangeLabs(catalogue)

HomeSpec == HomeInit /\ [][HomeNext]_homeVars

-----------------------------------------------------------------------------
(* Properties.                                                             *)

\* The dashboard offers the exam that can be resumed, as it was left, and nothing
\* of one that cannot, through pauses, failing saves and finishes, exams that are
\* replaced, and launches; its last activity is the newest finish and heads the
\* feed; its suggestion is for a domain none is weaker than, and starts a lab that
\* is there.  Not so if the files changed since, or the exam could not be read
\* (refresh, _on_nav_clicked, _on_exam_paused).
HomeCurrent ==
    OnDashboard /\ "dashboard" \notin pending /\ ~aside =>
        LET active == {i \in DOMAIN exams : exams[i].status = "active"}
            finished == {i \in DOMAIN exams : exams[i].status = "finished"}
            tally(d) == Tally({a \in Scored(None) : Prefix(a) = d})
        IN  /\ active = IF home.resume = None THEN {} ELSE {home.resume.exam}
            /\ \A i \in active : home.resume.answered = exams[i].answered
            /\ home.first <=> exams = <<>> /\ labRuns = <<>>
            /\ finished # {} \/ labRuns # <<>> => home.last.finish = Clock - 1
            /\ home.last # None => home.feed[1] = home.last
            /\ home.next # None =>
                  /\ \A a \in Scored(None) : ~Weaker(tally(Prefix(a)), tally(home.next.domain))
                  /\ home.next.lab # None => labs[home.next.lab].gold

SumOver(f, keys, part(_)) == SumFunction([k \in keys |-> part(f[k])])

\* The panels of the statistics page, which are computed one by one, agree: the
\* boxes show the filters that the panels were made with, whatever was finished and
\* wherever the user went since they were set; the answers of a domain are those of
\* its versions, and those of its attempts while no limit cuts them; what is
\* suggested is a weakest bar; a version that is offered has answers.  Not so for
\* answers without a version, which are offered as "unknown" and then not found
\* (_rebuild, _on_cert_changed).
StatsAgree ==
    front = "stats" /\ "stats" \notin pending /\ board # None =>
        LET domains == DOMAIN board.bars
            right(t) == t.right
            total(t) == t.total
            sums(f, keys) == [right |-> SumOver(f, keys, right), total |-> SumOver(f, keys, total)]
        IN  /\ board.certBox = filter.cert /\ board.versionBox = filter.version
            /\ filter.version = None =>
                  /\ {k[1] : k \in DOMAIN board.cells} = domains
                  /\ \A d \in domains :
                        sums(board.cells, {k \in DOMAIN board.cells : k[1] = d}) = board.bars[d]
            /\ filter.version \notin {None, "unknown"} => DOMAIN board.cells # {}
            /\ Len(board.series) < Recent =>
                  \A d \in domains :
                     LET points == {n \in DOMAIN board.series : d \in DOMAIN board.series[n]}
                     IN  sums([n \in points |-> board.series[n][d]], points) = board.bars[d]
            /\ (board.next = None) <=> (domains = {})
            /\ \A d \in domains : ~Weaker(board.bars[d], board.bars[board.next.domain])
=============================================================================
