------------------------------ MODULE LabDesk ------------------------------
(***************************************************************************)
(* The lab as the learner works on it: gui/pages/lab_session_page.py with  *)
(* a terminal per device (gui/widgets/cisco_terminal.py), the lab list,    *)
(* the result page and the main window's moves between them.               *)
(*                                                                         *)
(* `sess' is the session of the page, `more' the devices whose terminal    *)
(* waits for a pager key.  `told', `checked' and `unlogged' are history:   *)
(* the ranges the learner excluded from DHCP, whether the pings of a check *)
(* have changed the world, and whether a shell has read something that a   *)
(* replay of the command log does not give it.                             *)
(***************************************************************************)
EXTENDS LabSession

CONSTANTS
    NoSession,
    TypedLines,     \* lab |-> a sequence: what may be typed as the n-th line, as <<device, line>>
    MaxResets       \* resets and replays in a run

ASSUME TypedAssumption ==
    \A l \in DOMAIN LabOf :
       /\ IsSequence(TypedLines[l])
       /\ \A n \in DOMAIN TypedLines[l] : \A x \in TypedLines[l][n] :
             x[1] \in DOMAIN LabOf[l].role /\ LineOk(x[2])

VARIABLES sess, more, page, result, typed, resets, told, checked, unlogged

vars == <<sess, more, page, result, typed, resets, told, checked, unlogged>>

Pages == {"Labs", "Lab", "Lab Result"}

Init ==
    /\ sess = NoSession /\ more = {} /\ page = "Labs" /\ result = NoSession
    /\ typed = 0 /\ resets = 0 /\ told = {}
    /\ checked = FALSE /\ unlogged = FALSE

Active == sess # NoSession /\ page = "Lab"

\* The bound on the lines of a run.
MayType == Active /\ typed < Len(TypedLines[sess.lab])

\* start_lab, from the list or as the retake of a result: new terminals.
\* An old result is not shown again.
StartLab(l) ==
    /\ page # "Lab"
    /\ page = "Lab Result" => l = result.lab
    /\ typed = 0 \/ page = "Lab Result"
    /\ sess' = Create(l)
    /\ more' = {} /\ page' = "Lab" /\ told' = {}
    /\ checked' = FALSE /\ unlogged' = FALSE
    /\ result' = NoSession
    /\ UNCHANGED <<typed, resets>>

\* A line typed at a prompt or pasted.  While the terminal waits for a pager
\* key only a pasted line comes through.
Typed(d, l) == <<d, l>> \in TypedLines[sess.lab][typed + 1]

\* Space, Enter and q while the terminal waits.
PagerKeys == {Blank, [tok |-> "q", sub |-> ""]}
PagerKey(d, l) == d \in more /\ l \in PagerKeys

\* Ctrl+Z sends `end' in the modes _in_config_mode lists.
CtrlZ(d, l) ==
    /\ l = EndLine /\ ~IsHost(sess, d)
    /\ sess.sh[d].mode \in {"config", "config-if", "config-vlan", "config-line", "config-router"}

\* show ip route and show ip arp, also after `do': a check that pinged leaves
\* rows there that a replay does not, and the pager counts them.
AsksTable(mode, l) ==
    LET doing == Resolve(l.tok, mode) = "do" /\ l.sub # ""
        line == IF doing THEN l.line ELSE l
    IN  /\ Resolve(line.tok, IF doing THEN "enable" ELSE mode) = "show"
        /\ line.sub \in {"ip route", "ip arp"}

\* _submit: the line goes to the shell, and the terminal waits for a pager
\* key if the output stopped at a full page.
Submit(d, l) ==
    LET host == IsHost(sess, d)
        paged == ~host /\ sess.sh[d].more > 0
    IN  /\ MayType /\ typed' = typed + 1
        /\ Typed(d, l) \/ PagerKey(d, l) \/ CtrlZ(d, l)
        /\ sess' = LoggedFeed(sess, d, l)
        /\ more' = IF ~host /\ sess'.sh[d].more > 0 THEN more \cup {d} ELSE more \ {d}
        /\ unlogged' = (unlogged \/ (l \in {Blank, Comment} /\ sess'.sh # sess.sh)
                                \/ (checked /\ ~host /\ AsksTable(sess.sh[d].mode, l)))
        /\ told' = IF ~host /\ ~paged /\ sess.sh[d].mode = "config"
                      /\ l.sub = "dhcp excluded-address"
                   THEN told \cup {<<d, l.lo, l.hi>>} ELSE told
        /\ UNCHANGED <<page, result, resets, checked>>

\* Ctrl+C, Ctrl+L: the terminal shows a prompt again, the shell is not told.
Interrupt(d) ==
    /\ Active /\ d \in more
    /\ more' = more \ {d}
    /\ UNCHANGED <<sess, page, result, typed, resets, told, checked, unlogged>>

GotoTask(i) ==
    /\ Active /\ i \in DOMAIN Tasks(sess.lab)
    /\ sess' = [sess EXCEPT !.task = i]
    /\ UNCHANGED <<more, page, result, typed, resets, told, checked, unlogged>>

GoNext == /\ Active
          /\ sess' = NextTask(sess)
          /\ UNCHANGED <<more, page, result, typed, resets, told, checked, unlogged>>

GoPrev == /\ Active
          /\ sess' = PreviousTask(sess)
          /\ UNCHANGED <<more, page, result, typed, resets, told, checked, unlogged>>

CheckCurrent ==
    /\ Active
    /\ sess' = CheckTask(sess, sess.task)
    /\ checked' = (checked \/ sess'.w # sess.w)
    /\ UNCHANGED <<more, page, result, typed, resets, told, unlogged>>

\* Finish Lab grades every task again, scores and leaves the page; that the
\* row cannot be saved changes nothing here.
\* A mutant scores the grades the learner has collected.
ResultOf(s) == [lab |-> s.lab, w |-> s.w, of |-> ScoreLab(Finish(s))]

FinishLabMutant ==
    /\ Active
    /\ result' = ResultOf(sess)
    /\ sess' = NoSession
    /\ more' = {} /\ page' = "Lab Result"
    /\ UNCHANGED <<typed, resets, told, checked, unlogged>>

FinishLab ==
    /\ Active
    /\ result' = ResultOf(CheckAll(sess))
    /\ sess' = NoSession
    /\ more' = {} /\ page' = "Lab Result"
    /\ UNCHANGED <<typed, resets, told, checked, unlogged>>

\* Reset Lab, and Reset & Replay when a command has been logged: new
\* terminals at the prompt.
ResetLab(replay) ==
    /\ Active /\ resets < MaxResets
    /\ replay => sess.log # <<>>
    /\ sess' = Reset(sess, replay)
    /\ more' = {} /\ resets' = resets + 1
    /\ told' = IF replay THEN told ELSE {}
    /\ checked' = FALSE /\ unlogged' = FALSE
    /\ UNCHANGED <<page, result, typed>>

\* Another page: nothing stops the learner, and the list starts a new
\* session.
LeaveLab ==
    /\ Active
    /\ page' = "Labs"
    /\ UNCHANGED <<sess, more, result, typed, resets, told, checked, unlogged>>

Next ==
    \/ \E l \in DOMAIN LabOf : StartLab(l)
    \/ MayType /\ \E x \in TypedLines[sess.lab][typed + 1]
                         \cup Devs(sess.w) \X (PagerKeys \cup {EndLine}) : Submit(x[1], x[2])
    \/ \E d \in more : Interrupt(d)
    \/ Active /\ \E i \in DOMAIN Tasks(sess.lab) : GotoTask(i)
    \/ GoNext \/ GoPrev \/ CheckCurrent
    \/ \E replay \in BOOLEAN : ResetLab(replay)
    \/ FinishLab \/ LeaveLab

Spec == Init /\ [][Next]_vars

-----------------------------------------------------------------------------
(* Properties.                                                             *)

\* The line protocol of both ends of a link is up exactly when both ends are
\* enabled, after every command on any device (_refresh_link_state is called
\* by those commands that the code remembers to end with it).
LinkProtocolOf(w) ==
    \A d \in Devs(w) : \A p \in Ifs(w, d) : \A e \in PeerPorts(w, d, p) :
        IfOf(w, d, p).proto <=> (IfOf(w, d, p).admin /\ IfOf(w, e[1], e[2]).admin)

LinkProtocol == sess # NoSession => LinkProtocolOf(sess.w)

\* No two hosts hold one leased address, whichever routers leased it
\* (_used_ipv4s looks through the lease tables of all devices).
LeasesOf(w) == {x \in Devs(w) \X Devs(w) : x[2] \in DOMAIN w.dev[x[1]].leases}
Leased(w, x) == w.dev[x[1]].leases[x[2]]

LeaseUniqueOf(w) ==
    \A x, y \in LeasesOf(w) : x[2] # y[2] => Leased(w, x) # Leased(w, y)

LeaseUnique == sess # NoSession => LeaseUniqueOf(sess.w)

\* A shell has the context of the mode it is in and no other, so a command
\* never configures the port, pool or VLAN of an earlier mode.  (`do end'
\* clears the context and keeps the mode.)
CtxOnlyIn(s) ==
    /\ s.if # None => s.mode = "config-if"
    /\ s.vlan # None => s.mode = "config-vlan"
    /\ s.line # "" => s.mode = "config-line"
    /\ s.router # "" => s.mode = "config-router"
    /\ s.dhcp # "" => s.mode = "config-dhcp"

CtxOnlyInMode == sess # NoSession => \A d \in DOMAIN sess.sh : CtxOnlyIn(sess.sh[d])

\* Layer 2 adjacency is symmetric: ping asks it from either end, and the
\* choice of the forwarding link between two switches must not depend on
\* which of them asks.
L2Symmetric ==
    sess # NoSession =>
        LET adj == Adjacent(Wires(sess.w))
        IN  \A a, b \in Devs(sess.w) : <<a, b>> \in adj <=> <<b, a>> \in adj

\* Reset & Replay rebuilds the configuration of every device and the mode of
\* every shell, unless the pager of a shell took a key or a comment, which the
\* log does not have, or a table was shown after a check had pinged.
ReplayRebuilds ==
    [][resets' > resets /\ sess'.log # <<>> /\ ~unlogged =>
          \A d \in Devs(sess.w) :
             /\ RunningConfig(sess'.w.dev[d]) = RunningConfig(sess.w.dev[d])
             /\ sess'.sh[d] = sess.sh[d]]_vars

\* An address a renewal binds is nobody else's at that moment: on no port of
\* another device, in no lease of another client, and not the gateway.
LeaseIsFree ==
    [][\A d \in IF sess = NoSession \/ sess' = NoSession THEN {} ELSE Devs(sess.w) :
          LET f == IfOf(sess'.w, d, HostIf(sess.w, d))
          IN  sess.lab = sess'.lab /\ IsHost(sess, d) /\ f.leased
              /\ f # IfOf(sess.w, d, HostIf(sess.w, d))
              /\ sess'.log = Append(sess.log, <<d, [tok |-> "ipconfig", sub |-> "renew"]>>)
                => f.ip \notin UsedIps(sess'.w, d) \cup {sess'.w.dev[d].gw}]_vars

\* The result page tells what the devices are configured to at the finish:
\* every task is graded again, also one that was correct when it was checked,
\* against the device or the devices that _config_for_task takes for it.
ResultIsCurrent ==
    page = "Lab Result" =>
        \A i \in DOMAIN Tasks(result.lab) :
           LET task == Tasks(result.lab)[i]
           IN  result.of.grades[i].correct
                   <=> GradeTask(result.w, task, ConfigFor(result.w, task)).correct

\* An address the learner excluded with `ip dhcp excluded-address' is never
\* leased afterwards.
ExcludedNeverLeased ==
    [][\A r \in IF sess = NoSession \/ sess' = NoSession THEN {} ELSE Devs(sess.w) :
          \A c \in DOMAIN sess'.w.dev[r].leases :
             \/ c \in DOMAIN sess.w.dev[r].leases
                /\ sess.w.dev[r].leases[c] = sess'.w.dev[r].leases[c]
             \/ \A x \in told : x[1] = r =>
                   sess'.w.dev[r].leases[c] \notin x[2]..x[3]]_vars
=============================================================================
