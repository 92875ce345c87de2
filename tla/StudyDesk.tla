----------------------------- MODULE StudyDesk -----------------------------
(***************************************************************************)
(* The question library (gui/pages/practice_page.py), the page that        *)
(* practises one question after the other (practice_question_page.py), the *)
(* links into the library from the dashboard and the first run             *)
(* (gui/main_window.py), and what they read of the history                 *)
(* (stats_service.py).                                                     *)
(*                                                                         *)
(* The window's thread runs one handler at a time; a click on a tab shows  *)
(* its page at once and refreshes it by a timer that is due next.          *)
(***************************************************************************)
EXTENDS StudyBank

CONSTANTS
    Contents,       \* what a refresh of the content may load
    Narrowings,     \* what the difficulty and type filters let through: sets
    Searches,       \* what a search finds: sets of questions
    Sorted(_, _),   \* a set in the order of a sort key
    SortKeys,
    Sheets,         \* finished exams: question |-> is_correct
    PageSize,
    MaxActs         \* a bound on what the user does in a run

ASSUME PageAssumption == PageSize \in Nat \ {0}

\* A topic is below a domain: its code has two segments or more, as in all bundled
\* banks.  The schema does not enforce it ("1.1" of bank_schema.py:135 is a comment).
ASSUME TopicAssumption == \A q \in Questions : Len(Topic(q)) \in Nat /\ Len(Topic(q)) > 1

ASSUME PoolAssumption == Contents \subseteq SUBSET Questions

Keys == SortKeys \cup {"topic"}

\* A sort keeps each question once.
ASSUME SortAssumption ==
    \A key \in Keys, S \in SUBSET Questions :
        /\ {Sorted(key, S)[i] : i \in DOMAIN Sorted(key, S)} = S
        /\ Len(Sorted(key, S)) = Cardinality(S)

ASSUME SeenAssumption == None \notin {"unseen", "missed"}

VARIABLES
    content,        \* the registry's pool, with the number of its load
    lib,            \* the library: what it has loaded, its filters, its list
    where,          \* the page that is shown
    due,            \* pages whose refresh is due
    advice,         \* the dashboard's suggestion
    queue, at, checked,     \* the practised questions
    attempted,      \* practice_attempts: question, outcome
    sheets,         \* user_answers of the finished exams
    asked,          \* history: what the link asked for, until a filter is set
    stuck,          \* history: a topic was selected when the link was followed
    moved,          \* history: the content changed under the library
    behind,         \* history: the rows changed since the list was made
    acts

studyPages == <<lib, where, due, advice, queue, at, checked>>
studyRows == <<attempted, sheets>>
studyVars == <<content, studyPages, studyRows, asked, stuck, moved, behind, acts>>

All == None

NoLink == [link |-> FALSE, cert |-> None, code |-> None, ids |-> None]

StudyInit ==
    /\ content = [load |-> 1, questions |-> Questions]
    /\ lib = [load |-> 0, all |-> {}, offered |-> {}, cert |-> All, topic |-> All,
              narrow |-> Questions, search |-> Questions, seen |-> All,
              sort |-> "topic", ids |-> None, prefix |-> None,
              stats |-> [seen |-> {}, missed |-> {}], list |-> <<>>, page |-> 1]
    /\ where = "dashboard" /\ due = {} /\ advice = None
    /\ queue = <<>> /\ at = 0 /\ checked = FALSE
    /\ attempted = {} /\ sheets = <<>>
    /\ asked = NoLink /\ stuck = FALSE /\ moved = FALSE /\ behind = FALSE
    /\ acts = 0

\* The user does one thing more.
Acts == acts < MaxActs /\ acts' = acts + 1

-----------------------------------------------------------------------------
(* The history.                                                            *)

\* question_stats_map counts what was practised, not the exams.
QuestionStats ==
    [seen |-> {r.q : r \in attempted}, missed |-> {r.q : r \in {x \in attempted : ~x.right}}]

\* domain_totals: a finished answer counts for the first track of its question only.
Answers(cert, d) ==
    {a \in (DOMAIN sheets) \X Questions :
        /\ a[2] \in DOMAIN sheets[a[1]] /\ Head(Topic(a[2])) = d
        /\ cert = None \/ cert = FirstCert(a[2])}
Right(cert, d) == Cardinality({a \in Answers(cert, d) : sheets[a[1]][a[2]]})
Total(cert, d) == Cardinality(Answers(cert, d))

\* weak_domains: the lowest share of right answers, then the most answers, then
\* the first prefix.
WeakDomains(cert) ==
    LET domains == {d \in {Head(Topic(q)) : q \in Questions} : Total(cert, d) > 0}
        weaker(d, e) == \/ Right(cert, d) * Total(cert, e) < Right(cert, e) * Total(cert, d)
                        \/ /\ Right(cert, d) * Total(cert, e) = Right(cert, e) * Total(cert, d)
                           /\ \/ Total(cert, d) > Total(cert, e)
                              \/ Total(cert, d) = Total(cert, e) /\ d < e
    IN  {d \in domains : \A e \in domains \ {d} : weaker(d, e)}

\* suggest_next, where no lab of the domain is there
SuggestNext(cert) == IF WeakDomains(cert) = {} THEN None
                     ELSE [domain |-> CHOOSE d \in WeakDomains(cert) : TRUE]

\* recent_missed_question_ids, of the exams, with a limit no run reaches
RecentMissed == UNION {{q \in DOMAIN sheets[i] : ~sheets[i][q]} : i \in DOMAIN sheets}

-----------------------------------------------------------------------------
(* The library.                                                            *)

\* _apply_filters
Passes(l, q) ==
    /\ l.ids # None => q \in l.ids
    /\ l.cert # All => l.cert \in Certs(q)
    /\ IF l.prefix # None THEN IsPrefix(l.prefix, Topic(q)) ELSE l.topic # All => Topic(q) = l.topic
    /\ q \in l.narrow /\ q \in l.search
    /\ l.seen = "unseen" => q \notin l.stats.seen
    /\ l.seen = "missed" => q \in l.stats.missed

ApplyFilters(l) ==
    [l EXCEPT !.list = Sorted(l.sort, {q \in l.all : Passes(l, q)}), !.page = 1]

\* _rebuild_topic_combo keeps the topic if it is offered still.
RebuildTopicCombo(l) ==
    LET codes == {Topic(q) : q \in {x \in l.all : l.cert = All \/ l.cert \in Certs(x)}}
    IN  [l EXCEPT !.offered = codes, !.topic = IF @ \in codes THEN @ ELSE All]

\* refresh: the pool if it is another one, the statistics if they can be read;
\* the list if it must, or is empty.
Reloaded(l) ==
    IF l.load = content.load THEN l
    ELSE RebuildTopicCombo([l EXCEPT !.load = content.load, !.all = content.questions])

StatsRead == {QuestionStats, [seen |-> {}, missed |-> {}]}

Relists(l, list) == list \/ l.load # content.load \/ l.list = <<>>

\* `list' is refresh_list; the next two are shown with the statistics they read.
Refresh(l, list) ==
    \E stats \in StatsRead :
        lib' = LET fresh == [Reloaded(l) EXCEPT !.stats = stats]
               IN  IF Relists(l, list) THEN ApplyFilters(fresh) ELSE fresh

\* The history was not read.
Unread == lib'.stats # QuestionStats

\* apply_deep_link.  The combo boxes are blocked while it sets them, but
\* _rebuild_topic_combo unblocks the topic's: then selecting "All topics" is a
\* change of a filter, which drops the link.
Linked(l, cert, code, ids) ==
    LET clean == [Reloaded(l) EXCEPT !.cert = All, !.narrow = Questions, !.search = Questions,
                                     !.seen = All, !.ids = ids, !.prefix = None]
        certed == IF cert = None THEN clean ELSE RebuildTopicCombo([clean EXCEPT !.cert = cert])
        drops == cert # None /\ certed.topic # All
    IN  IF code = None THEN certed
        ELSE IF code \in certed.offered THEN [certed EXCEPT !.topic = code]
        ELSE [certed EXCEPT !.topic = All, !.prefix = IF drops THEN None ELSE code]

\* navigate_practice
NavigatePractice(cert, code, ids) ==
    /\ where' = "practice"
    /\ IF cert = None /\ code = None /\ ids = None
       THEN Refresh([lib EXCEPT !.ids = None, !.prefix = None], TRUE) /\ asked' = NoLink /\ stuck' = FALSE
       ELSE \E stats \in StatsRead :
              /\ lib' = ApplyFilters([Linked(lib, cert, code, ids) EXCEPT !.stats = stats])
              /\ asked' = [link |-> TRUE, cert |-> cert, code |-> code, ids |-> ids]
              /\ stuck' = (Reloaded(lib).topic # All)
    /\ behind' = Unread /\ moved' = FALSE
    /\ UNCHANGED <<content, due, advice, queue, at, checked, studyRows>>

\* The first run's track, the dashboard's buttons: the weakest domain, the
\* suggestion it shows, what was missed last, the continuation.
Links ==
    \/ \E cert \in {"ccna", "ccnp"} : Acts /\ NavigatePractice(cert, None, None)
    \/ /\ where = "dashboard" /\ Acts
       /\ LET domains == WeakDomains(None) \cup (IF advice = None THEN {} ELSE {advice.domain})
          IN  IF domains = {} THEN NavigatePractice(None, None, None)
              ELSE \E d \in domains : NavigatePractice(None, <<d>>, None)
    \/ \E cert \in {"ccna", "ccnp"} :     \* of the statistics page, with its filter
       /\ where = "elsewhere" /\ SuggestNext(cert) # None /\ Acts
       /\ NavigatePractice(cert, <<SuggestNext(cert).domain>>, None)
    \/ where = "dashboard" /\ Acts /\ NavigatePractice(None, None, RecentMissed)
    \/ where = "dashboard" /\ Acts /\ NavigatePractice(None, None, None)

\* _on_filter_changed; a cert changes the topics that are offered.
FilterChanged(l, rebuild) ==
    LET unlinked == [l EXCEPT !.ids = None, !.prefix = None]
    IN  /\ lib' = ApplyFilters(IF rebuild THEN RebuildTopicCombo(unlinked) ELSE unlinked)
        /\ asked' = NoLink /\ stuck' = FALSE

SetFilter ==
    /\ where = "practice" /\ due = {}
    /\ \/ \E cert \in {"ccna", "ccnp", All} :
             cert # lib.cert /\ Acts /\ FilterChanged([lib EXCEPT !.cert = cert], TRUE)
       \/ \E topic \in lib.offered \cup {All} :
             topic # lib.topic /\ Acts /\ FilterChanged([lib EXCEPT !.topic = topic], FALSE)
       \/ \E seen \in {"unseen", "missed", All} :
             seen # lib.seen /\ Acts /\ FilterChanged([lib EXCEPT !.seen = seen], FALSE)
       \/ \E narrow \in Narrowings :
             narrow # lib.narrow /\ Acts /\ FilterChanged([lib EXCEPT !.narrow = narrow], FALSE)
       \/ \E key \in SortKeys :
             key # lib.sort /\ Acts /\ FilterChanged([lib EXCEPT !.sort = key], FALSE)
    /\ behind' = (lib.stats # QuestionStats)
    /\ UNCHANGED <<content, where, due, advice, queue, at, checked, studyRows, moved>>

\* The search keeps the link.
Search(found) ==
    /\ where = "practice" /\ due = {} /\ found # lib.search /\ Acts
    /\ lib' = ApplyFilters([lib EXCEPT !.search = found])
    /\ behind' = (lib.stats # QuestionStats)
    /\ UNCHANGED <<content, where, due, advice, queue, at, checked, studyRows, asked, stuck, moved>>

\* _page_count, _go_prev_page, _go_next_page
Pages == IF lib.list = <<>> THEN 1 ELSE (Len(lib.list) + PageSize - 1) \div PageSize

TurnPage(delta) ==
    /\ where = "practice" /\ lib.page + delta \in 1..Pages /\ Acts
    /\ lib' = [lib EXCEPT !.page = @ + delta]
    /\ UNCHANGED <<content, where, due, advice, queue, at, checked, studyRows, asked, stuck, moved, behind>>

-----------------------------------------------------------------------------
(* The tabs.                                                               *)

\* _on_nav_clicked...
ClickTab(page) ==
    /\ Acts
    /\ where' = page
    /\ due' = due \cup ({page} \cap {"practice", "dashboard"})
    /\ UNCHANGED <<content, lib, advice, queue, at, checked, studyRows, asked, stuck, moved, behind>>

\* ..._refresh_static_page, if the page is shown still.
RefreshStaticPage(page) ==
    /\ page \in due /\ due' = due \ {page}
    /\ CASE page = "practice" /\ where = page ->
                /\ Refresh(lib, FALSE) /\ UNCHANGED advice
                /\ behind' = IF Relists(lib, FALSE) THEN Unread ELSE behind
         [] page = "dashboard" /\ where = page -> advice' = SuggestNext(None) /\ UNCHANGED <<lib, behind>>
         [] where # page -> UNCHANGED <<lib, advice, behind>>
    /\ moved' = (moved /\ ~(page = "practice" /\ where = page))
    /\ UNCHANGED <<content, where, queue, at, checked, studyRows, asked, stuck, acts>>

\* The content changes, or is refreshed by hand: the next load_pool gives another
\* pool.
ReloadContent(questions) ==
    /\ Acts
    /\ content' = [load |-> content.load + 1, questions |-> questions]
    /\ moved' = (moved \/ where = "practice")
    /\ UNCHANGED <<studyPages, studyRows, asked, stuck, behind>>

\* An exam is finished: see ExamPage.
FinishExam(sheet) ==
    /\ where = "elsewhere" /\ Acts
    /\ sheets' = Append(sheets, sheet)
    /\ UNCHANGED <<content, studyPages, attempted, asked, stuck, moved, behind>>

-----------------------------------------------------------------------------
(* The practised question.                                                 *)

OnPage == {i \in DOMAIN lib.list : (i - 1) \div PageSize = lib.page - 1}

\* _open, show_question: the list goes along as the queue.
OpenQuestion(i) ==
    /\ where = "practice" /\ i \in OnPage /\ Acts
    /\ where' = "question" /\ queue' = lib.list /\ at' = i /\ checked' = FALSE
    /\ UNCHANGED <<content, lib, due, advice, studyRows, asked, stuck, moved, behind>>

\* _check_answer, once for a question; the row may fail to be saved.
CheckAnswer(right) ==
    /\ where = "question" /\ ~checked /\ Acts
    /\ checked' = TRUE
    /\ attempted' \in {attempted, attempted \cup {[q |-> queue[at], right |-> right]}}
    /\ behind' = (behind \/ attempted' # attempted)
    /\ UNCHANGED <<content, lib, where, due, advice, queue, at, sheets, asked, stuck, moved>>

\* _go_back, _go_to_practice: the link stays, the list is made anew.
\* A mutant refreshes as a tab does.
GoToPracticeMutant ==
    /\ where' = "practice"
    /\ Refresh(lib, FALSE) /\ behind' = Unread /\ moved' = FALSE
    /\ UNCHANGED <<content, due, advice, queue, at, checked, studyRows, asked, stuck>>

GoToPractice ==
    /\ where' = "practice"
    /\ Refresh(lib, TRUE) /\ behind' = Unread /\ moved' = FALSE
    /\ UNCHANGED <<content, due, advice, queue, at, checked, studyRows, asked, stuck>>

GoBack == where = "question" /\ Acts /\ GoToPractice

\* _go_next
GoNext ==
    /\ where = "question" /\ checked /\ Acts
    /\ IF at = Len(queue) THEN GoToPractice
       ELSE /\ at' = at + 1 /\ checked' = FALSE
            /\ UNCHANGED <<content, lib, where, due, advice, queue, studyRows, asked, stuck, moved, behind>>

StudyNext ==
    \/ Links \/ SetFilter \/ GoBack \/ GoNext
    \/ \E found \in Searches : Search(found)
    \/ \E delta \in {-1, 1} : TurnPage(delta)
    \/ \E page \in {"practice", "dashboard", "elsewhere"} : ClickTab(page) \/ RefreshStaticPage(page)
    \/ \E questions \in Contents : ReloadContent(questions)
    \/ \E sheet \in Sheets : FinishExam(sheet)
    \/ \E i \in 1..Cardinality(Questions) : OpenQuestion(i)
    \/ \E right \in BOOLEAN : CheckAnswer(right)

StudySpec == StudyInit /\ [][StudyNext]_studyVars

-----------------------------------------------------------------------------
(* Properties.                                                             *)

\* What the user asked for: a link, narrowed by the search only, or the filters
\* that are shown, over the pool and the rows there are now.
AskedFor(q) ==
    /\ q \in lib.search
    /\ IF asked.link
       THEN /\ asked.cert # None => asked.cert \in Certs(q)
            /\ asked.code # None => SubSeq(Topic(q), 1, Len(asked.code)) = asked.code
            /\ asked.ids # None => q \in asked.ids
       ELSE /\ lib.cert # All => lib.cert \in Certs(q)
            /\ lib.topic # All => Topic(q) = lib.topic
            /\ q \in lib.narrow
            /\ lib.seen = "unseen" => \A r \in attempted : r.q # q
            /\ lib.seen = "missed" => \E r \in attempted : r.q = q /\ ~r.right

\* The library lists each question that was asked for and no other, through links,
\* filters, searches, checks and the way back, tabs, and another content, which it
\* takes when it is shown the next time.  Not so after a link followed while a
\* topic was selected, which keeps the topic or drops the link; and the history filter lags when a question that was checked is left by
\* a tab, or the statistics could not be read (apply_deep_link, refresh).
LibraryCurrent ==
    where = "practice" /\ "practice" \notin due /\ ~stuck /\ ~moved /\ (lib.seen # All => ~behind) =>
        /\ {lib.list[i] : i \in DOMAIN lib.list} = {q \in content.questions : AskedFor(q)}
        /\ Len(lib.list) = Cardinality({q \in content.questions : AskedFor(q)})
=============================================================================
