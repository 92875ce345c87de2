----------------------------- MODULE LabSession -----------------------------
(***************************************************************************)
(* One run of a lab: netsim/session.py and netsim/grader.py, as operators  *)
(* on a session record                                                     *)
(*     [lab, w, sh, task, grades, finished, log].                          *)
(* The terminal page and the HTTP endpoints call them.                     *)
(*                                                                         *)
(* A task is [rules, named, verify, weight]; rules is NoRules or           *)
(* [device, require, forbid, order, weight] over lines of the running      *)
(* configuration, named are the devices its instructions name, and verify  *)
(* is [pings, shows], both sequences.  A score is in hundredths; the texts *)
(* of the feedback are left out, but for the reason explain_unreachable    *)
(* finds.                                                                  *)
(***************************************************************************)
EXTENDS OpenIosShell, FiniteSetsExt

CONSTANT NoRules

Tasks(l) == LabOf[l].tasks

IsSequence(s) == s \in Seq({s[i] : i \in DOMAIN s})

\* What a line holds: the numbers of a pool's network, the length of a terminal.
LineOk(l) ==
    /\ Resolve(l.tok, "config-dhcp") = "network" /\ l.sub # "" => l.net \in Nat /\ l.mask \in Nat \ {0}
    /\ Resolve(l.tok, "user") = "terminal" /\ l.sub = "length" => l.n \in Nat

\* A lab has a task, and its scripts, tasks and pings are lists.
ASSUME ScriptAssumption ==
    \A l \in DOMAIN LabOf :
       /\ IsSequence(Tasks(l)) /\ Tasks(l) # <<>>
       /\ \A i \in DOMAIN Tasks(l) : IsSequence(Tasks(l)[i].verify.pings)
       /\ \A d \in DOMAIN LabOf[l].role :
             /\ IsSequence(LabOf[l].base[d])
             /\ \A i \in DOMAIN LabOf[l].base[d] : LineOk(LabOf[l].base[d][i])

\* An abbreviation is a proper prefix of a command, and these are none.
ASSUME AbbrevAssumption ==
    \A c \in DOMAIN Abbrevs : Abbrevs[c] \cap {"enable", "configure", "end", "!"} = {}

Full == 100

-----------------------------------------------------------------------------
(* grader.py                                                               *)

\* The lines a configuration is compared by: separators and `end' are
\* dropped.
Significant(config) ==
    LET keep(line) == line \notin {<<"!">>, <<"end">>}
    IN  SelectSeq(config, keep)

\* order_violations: required lines found in the opposite order; a line that
\* is not there is passed over.
OrderViolated(order, lines) ==
    LET at(x) == LET S == {i \in DOMAIN lines : lines[i] = x}
                 IN  IF S = {} THEN None ELSE Lowest(S)
    IN  \E i \in 1..Len(order) - 1 :
          /\ at(order[i]) # None /\ at(order[i + 1]) # None
          /\ at(order[i + 1]) < at(order[i])

Missing(rules, config) ==
    {r \in rules.require : \A i \in DOMAIN Significant(config) : Significant(config)[i] # r}
ForbiddenFound(rules, config) ==
    {f \in rules.forbid : \E i \in DOMAIN Significant(config) : Significant(config)[i] = f}

\* evaluate_verify: the failures, each with the hint for the learner.
FailuresIn(w, verify) ==
    LET ping(i) == verify.pings[i]
        ok(i) == CanReach(w, ping(i).source, ping(i).destination)
        config(i) == RunningConfig(w.dev[verify.shows[i].device])
    IN  {<<"unreachable", i, Explain(w, ping(i).source, ping(i).destination)>> :
            i \in {k \in DOMAIN verify.pings : ping(k).succeed /\ ~ok(k)}}
        \cup {<<"reachable", i, "">> :
            i \in {k \in DOMAIN verify.pings : ~ping(k).succeed /\ ok(k)}}
        \cup {<<"show", i, "">> :
            i \in {k \in DOMAIN verify.shows : \E x \in verify.shows[k].contains :
                     \A j \in DOMAIN config(k) : config(k)[j] # x}}

VerifyFailures(w, verify) ==
    FailuresIn(IF verify.pings = <<>> THEN w ELSE Converge(w), verify)

\* The world after the verify pings.
AfterVerify(w, verify) ==
    LET after[i \in 0..Len(verify.pings)] ==
          IF i = 0 THEN w
          ELSE Ping(after[i - 1], verify.pings[i].source, verify.pings[i].destination)
    IN  after[Len(verify.pings)]

\* grade_task.  The score counts the required lines only; a failed check on a
\* complete configuration gives nothing, on an incomplete one it halves.
Verdict(task, config, failures) ==
    LET rules == task.rules
        missing == IF rules = NoRules THEN {} ELSE Missing(rules, config)
        wrong == /\ rules # NoRules
                 /\ \/ ForbiddenFound(rules, config) # {}
                    \/ OrderViolated(rules.order, Significant(config))
        required == IF rules = NoRules THEN 0 ELSE Cardinality(rules.require)
        share == IF required = 0 THEN Full
                 ELSE (Full * (required - Cardinality(missing))) \div required
    IN  [correct |-> missing = {} /\ ~wrong /\ failures = {},
         score |-> IF failures = {} THEN share
                   ELSE IF missing = {} THEN 0 ELSE share \div 2,
         missing |-> missing, failures |-> failures,
         weight |-> IF rules = NoRules THEN task.weight ELSE rules.weight]

GradeTask(w, task, config) == Verdict(task, config, VerifyFailures(w, task.verify))

NotGraded(task) == [correct |-> FALSE, score |-> 0, missing |-> {}, failures |-> {},
                    weight |-> task.weight]

\* score_lab and weighted_score: a task without a grade earns nothing.  The
\* threshold 0 is read as "not set" and becomes 1.
ScoreLab(s) ==
    LET tasks == Tasks(s.lab)
        grade(i) == IF i \in DOMAIN s.grades THEN s.grades[i] ELSE NotGraded(tasks[i])
        weight(i) == grade(i).weight
        points(i) == grade(i).weight * grade(i).score
        total == MapThenSumSet(weight, DOMAIN tasks)
        earned == MapThenSumSet(points, DOMAIN tasks)
        asked == LabOf[s.lab].threshold
        threshold == IF asked = 0 THEN Full ELSE asked
    IN  [passed_tasks |-> Cardinality({i \in DOMAIN tasks : grade(i).correct}),
         score |-> IF total = 0 THEN 0 ELSE earned \div total,
         passed |-> total > 0 /\ earned >= threshold * total,
         grades |-> [i \in DOMAIN tasks |-> grade(i)]]

-----------------------------------------------------------------------------
(* session.py                                                              *)

Enable == [tok |-> "enable", sub |-> ""]
ConfigureTerminal == [tok |-> "configure", sub |-> "terminal"]
EndLine == [tok |-> "end", sub |-> ""]

IsHost(s, d) == Role(s.w, d) = "pc"

Took(s, d, r) == [s EXCEPT !.w = r.w, !.sh[d] = r.s]

\* One line to the shell of a device, not logged.
FeedDevice(s, d, l) ==
    IF IsHost(s, d) THEN [s EXCEPT !.w = HostFeed(@, d, l)]
    ELSE Took(s, d, Feed(s.w, d, s.sh[d], l))

\* The wrapped feed: every line that is not blank and no comment is logged,
\* also one that a pager takes.
Logged(s, d, l) ==
    IF l \in {Blank, Comment} THEN s ELSE [s EXCEPT !.log = Append(@, <<d, l>>)]

\* A mutant does not log what leaves configuration mode.
LoggedFeedMutant(s, d, l) ==
    IF l = EndLine THEN FeedDevice(s, d, l) ELSE FeedDevice(Logged(s, d, l), d, l)

LoggedFeed(s, d, l) == FeedDevice(Logged(s, d, l), d, l)

\* A sequence of <<device, line>> fed one after the other.
FeedAll(s, script) ==
    LET after[i \in 0..Len(script)] ==
          IF i = 0 THEN s ELSE LoggedFeed(after[i - 1], script[i][1], script[i][2])
    IN  after[Len(script)]

\* _apply_base_configs, device after device, network devices in
\* configuration mode; what it logs is taken out again.
BaseScript(lab) ==
    LET typed(d) ==
          IF lab.base[d] = <<>> \/ lab.role[d] = "pc" THEN lab.base[d]
          ELSE <<Enable, ConfigureTerminal>> \o lab.base[d] \o <<EndLine>>
        lines(d) == [i \in DOMAIN typed(d) |-> <<d, typed(d)[i]>>]
    IN  Blocks([d \in DOMAIN lab.role |-> d], lines)

\* A new world with the base configurations, and then the lines of a log.
\* What is logged in the end are the lines of that log, logged again.
Build(l, log) ==
    LET w == FromLab(l)
        bare == [lab |-> l, w |-> w, sh |-> [d \in Devs(w) |-> NewShell],
                 task |-> 1, grades |-> <<>>, finished |-> FALSE, log |-> <<>>]
    IN  [FeedAll(bare, BaseScript(LabOf[l]) \o log) EXCEPT !.log = log]

Create(l) == Build(l, <<>>)

\* reset: with replay the old log is fed again.
Reset(s, replay) == Build(s.lab, IF replay THEN s.log ELSE <<>>)

\* combined_running_config: all devices one after the other, under a comment.
CombinedConfig(dev) ==
    LET part(d) == <<<<"!">>>> \o RunningConfig(dev[d])
    IN  Blocks([d \in DOMAIN dev |-> d], part)

\* _config_for_task: the device of the rules, or the only one that the
\* instructions name, or all together.
ConfigFor(w, task) ==
    LET asked == IF task.rules = NoRules THEN None ELSE task.rules.device
        graded == IF asked \in Devs(w) THEN {asked} ELSE task.named \cap Devs(w)
    IN  IF Cardinality(graded) = 1
        THEN RunningConfig(w.dev[CHOOSE d \in graded : TRUE])
        ELSE CombinedConfig(w.dev)

SetGrade(s, i, g) ==
    [s EXCEPT !.grades = [j \in DOMAIN @ \cup {i} |-> IF j = i THEN g ELSE @[j]]]

\* check_current_task grades the live configuration; its pings are real.
CheckTask(s, i) ==
    LET task == Tasks(s.lab)[i]
    IN  [SetGrade(s, i, GradeTask(s.w, task, ConfigFor(s.w, task)))
           EXCEPT !.w = AfterVerify(@, task.verify), !.task = i]

CheckAll(s) ==
    LET after[i \in 0..Len(Tasks(s.lab))] == IF i = 0 THEN s ELSE CheckTask(after[i - 1], i)
    IN  after[Len(Tasks(s.lab))]

\* submit_task grades a configuration the client sends for the task i it
\* found to be the current one.
SubmitTask(s, i, config) ==
    LET task == Tasks(s.lab)[i]
    IN  [SetGrade(s, i, GradeTask(s.w, task, config))
           EXCEPT !.w = AfterVerify(@, task.verify)]

HasNextTask(s) == s.task < Len(Tasks(s.lab))
NextTask(s) == IF HasNextTask(s) THEN [s EXCEPT !.task = @ + 1] ELSE s
PreviousTask(s) == IF s.task > 1 THEN [s EXCEPT !.task = @ - 1] ELSE s

Finish(s) == [s EXCEPT !.finished = TRUE]
=============================================================================
