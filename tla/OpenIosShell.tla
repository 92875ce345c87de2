---------------------------- MODULE OpenIosShell ----------------------------
(***************************************************************************)
(* The command lines of the devices: netsim/ios/shell.py for network       *)
(* devices and netsim/ios/host.py for hosts, with running_config of        *)
(* device.py.                                                              *)
(*                                                                         *)
(* A shell is a record of its mode, the five contexts a configuration      *)
(* command works in, the terminal length and the number of lines the pager *)
(* holds back.  A line is a record: `tok' is the first word as typed and   *)
(* `sub' the keyword after it; the other fields are its arguments, and a   *)
(* missing or malformed argument is `sub' = "" ("% Incomplete command.").  *)
(* Feed gives the world and the shell after one line.  Of the output only  *)
(* the number of lines is kept, because the pager depends on it; a refusal *)
(* counts as one line, and help (`?') is left out.  In the running         *)
(* configuration a description is one of the extra lines of its port and   *)
(* an excluded range is written by its first address.                      *)
(***************************************************************************)
EXTENDS LabWorld

CONSTANTS
    Abbrevs,        \* command |-> the proper prefixes of it that are typed
    PortPrefixes,   \* pairs <<p, q>>: the name of port q begins with that of p
    PageLength      \* _term_length of a new shell (24)

ASSUME PageAssumption == PageLength \in Nat

Modes == {"user", "enable", "config", "config-if", "config-vlan", "config-line",
          "config-router", "config-dhcp"}

NewShell == [mode |-> "user", if |-> None, vlan |-> None, line |-> "",
             router |-> "", dhcp |-> "", term |-> PageLength, more |-> 0]

Commands(mode) ==
    CASE mode = "user" -> {"enable", "exit", "logout", "ping", "show", "terminal", "help"}
      [] mode = "enable" -> {"disable", "exit", "end", "configure", "show", "ping",
            "traceroute", "write", "copy", "clear", "reload", "help"}
      [] mode = "config" -> {"hostname", "interface", "vlan", "ip", "ipv6", "access-list",
            "no", "banner", "line", "router", "do", "exit", "end", "help"}
      [] mode = "config-if" -> {"ip", "ipv6", "no", "shutdown", "description", "switchport",
            "spanning-tree", "channel-group", "interface", "exit", "end", "do", "help"}
      [] mode = "config-vlan" -> {"name", "interface", "vlan", "exit", "end", "do", "help"}
      [] mode = "config-line" -> {"login", "password", "transport", "exit", "end", "do", "help"}
      [] mode = "config-router" -> {"network", "router-id", "exit", "end", "do", "help"}
      [] mode = "config-dhcp" -> {"network", "default-router", "dns-server", "exit", "end",
            "do", "help"}

\* _resolve_command: an exact name wins, then the only command the word
\* abbreviates; "" is an unknown and "?" an ambiguous word.
Resolve(tok, mode) ==
    LET hits == {c \in Commands(mode) : c \in DOMAIN Abbrevs /\ tok \in Abbrevs[c]}
    IN  IF tok \in Commands(mode) THEN tok
        ELSE IF Cardinality(hits) = 1 THEN CHOOSE c \in hits : TRUE
        ELSE IF hits = {} THEN "" ELSE "?"

-----------------------------------------------------------------------------
(* The running configuration, as a sequence of lines.                      *)

When(test, line) == IF test THEN <<line>> ELSE <<>>

IfLines(f, p) ==
    <<<<"interface", p>>>>
    \o When(HasNet(f), <<"ip address", f.ip, f.mask>>)
    \o When(f.nat # "none", <<"ip nat", f.nat>>)
    \o When(f.sw # "none", <<"switchport mode", f.sw>>)
    \o When(f.sw = "access" /\ f.vlan # None, <<"switchport access vlan", f.vlan>>)
    \o f.extra
    \o <<IF f.admin THEN <<"no shutdown">> ELSE <<"shutdown">>, <<"!">>>>

PoolLines(q) ==
    <<<<"ip dhcp pool", q.name>>>>
    \o When(q.net # None /\ q.mask # None, <<"network", q.net, q.mask>>)
    \o When(q.gw # None, <<"default-router", q.gw>>)

RunningConfig(dev) ==
    LET vlanLines(v) == <<<<"vlan", v>>, <<"name", dev.vlans[v]>>, <<"!">>>>
        named == {v \in DOMAIN dev.vlans : ~(v = 1 /\ dev.vlans[v] = "default")}
        ifLines(p) == IfLines(dev.if[p], p)
        poolLines(i) == PoolLines(dev.pools[i])
        lows == UNION {{x[1] : x \in dev.pools[i].excluded} : i \in DOMAIN dev.pools}
        exclLines(lo) == <<<<"ip dhcp excluded-address", lo>>>>
        routeLine(i) == <<<<"ip route", dev.routes[i].net, dev.routes[i].mask, dev.routes[i].nh>>>>
        globalLine(i) == <<dev.globals[i].line>>
    IN  <<<<"!">>, <<"hostname", dev.hostname>>, <<"!">>>>
        \o Blocks(Sorted(named), vlanLines)
        \o Blocks(Sorted(DOMAIN dev.if), ifLines)
        \o Blocks(Sorted(DOMAIN dev.routes), routeLine)
        \o Blocks(Sorted(lows), exclLines)
        \o Blocks(Sorted(DOMAIN dev.pools), poolLines)
        \o When(dev.nat # None, <<"ip nat inside source", dev.nat>>)
        \o Blocks(Sorted(DOMAIN dev.globals), globalLine)
        \o <<<<"end">>>>

-----------------------------------------------------------------------------
(* The result of a command: world, shell and lines of output.              *)

Result(w, s, out) == [w |-> w, s |-> s, out |-> out]
Refused(w, s) == Result(w, s, 1)        \* _CmdError, or a command without effect

\* exit, one level up.
\* A mutant leaves a context behind.
CmdExitMutant(w, s) ==
    CASE s.mode = "user" -> Refused(w, s)
      [] s.mode = "enable" -> Result(w, [s EXCEPT !.mode = "user"], 0)
      [] s.mode = "config" -> Result(w, [s EXCEPT !.mode = "enable"], 0)
      [] OTHER -> Result(w, [s EXCEPT !.mode = "config"], 0)

CmdExit(w, s) ==
    CASE s.mode = "user" -> Refused(w, s)
      [] s.mode = "enable" -> Result(w, [s EXCEPT !.mode = "user"], 0)
      [] s.mode = "config" -> Result(w, [s EXCEPT !.mode = "enable"], 0)
      [] s.mode = "config-if" -> Result(w, [s EXCEPT !.mode = "config", !.if = None], 0)
      [] s.mode = "config-vlan" -> Result(w, [s EXCEPT !.mode = "config", !.vlan = None], 0)
      [] s.mode = "config-line" -> Result(w, [s EXCEPT !.mode = "config", !.line = ""], 0)
      [] s.mode = "config-router" -> Result(w, [s EXCEPT !.mode = "config", !.router = ""], 0)
      [] s.mode = "config-dhcp" -> Result(w, [s EXCEPT !.mode = "config", !.dhcp = ""], 0)

CmdEnd(w, s) ==
    Result(w, [s EXCEPT !.mode = "enable", !.if = None, !.vlan = None, !.line = "",
                        !.router = "", !.dhcp = ""], 0)

CmdTerminal(w, s, l) ==
    IF l.sub # "length" THEN Refused(w, s)
    ELSE Result(w, [s EXCEPT !.term = l.n, !.more = 0], 0)

\* write, and copy running-config startup-config.
CmdWrite(w, d, s) ==
    Result([w EXCEPT !.dev[d].startup = RunningConfig(w.dev[d])], s, 2)

\* The lines a table has; "" is an incomplete command, and what is no table is
\* invalid input.  The tables of routes and addresses hold what pings left.
Shown(w, d, what) ==
    LET dev == w.dev[d]
        up == {p \in DOMAIN dev.if : dev.if[p].admin}
        own == {dev.if[p].ip : p \in DOMAIN dev.if}
        routes == Cardinality({p \in up : HasNet(dev.if[p])}) + Len(dev.routes) + Len(w.ospf[d])
    IN  CASE what = "running-config" -> Len(RunningConfig(dev))
          [] what = "startup-config" -> IF dev.startup = <<>> THEN 1 ELSE Len(dev.startup)
          [] what = "version" -> 11
          [] what = "vlan" -> IF Role(w, d) \in {"switch", "ap"}
                              THEN 2 + Cardinality(DOMAIN dev.vlans) ELSE 1
          [] what = "interfaces" -> 7 * Cardinality(DOMAIN dev.if)
          [] what = "ip interface" -> 1 + Cardinality(DOMAIN dev.if)
          [] what = "ip route" -> 4 + IF routes = 0 THEN 1 ELSE routes
          [] what = "ip arp" -> 1 + Cardinality({p \in up : dev.if[p].ip # None})
                                  + Cardinality(w.arp[d] \ own)
          [] what \in {"", "users"} -> 1
          [] OTHER -> 3

CmdShow(w, d, s, l) ==
    IF s.mode = "user" THEN Result(w, s, IF l.sub = "version" THEN 11 ELSE 1)
    ELSE Result(w, s, Shown(w, d, l.sub))

\* interface: get_iface takes a name that begins with the word before a
\* Loopback or a Vlan is created.
CmdInterface(w, d, s, l) ==
    LET near == {q \in Ifs(w, d) : <<l.port, q>> \in PortPrefixes}
        enter(v, p) == Result(v, [s EXCEPT !.if = p, !.vlan = None, !.mode = "config-if"], 0)
    IN  IF l.sub = "" THEN Refused(w, s)
        ELSE IF l.port \in Ifs(w, d) THEN enter(w, l.port)
        ELSE IF near # {} THEN enter(w, Lowest(near))
        ELSE IF l.sub = "virtual"
             THEN enter([w EXCEPT !.dev[d].if = [p \in DOMAIN @ \cup {l.port} |->
                            IF p = l.port THEN NewIf(TRUE, None, None) ELSE @[p]]], l.port)
        ELSE Refused(w, s)

AddVlan(w, d, v) ==
    IF v \in DOMAIN w.dev[d].vlans THEN w
    ELSE [w EXCEPT !.dev[d].vlans = [x \in DOMAIN @ \cup {v} |-> IF x = v THEN "VLAN" ELSE @[x]]]

CmdVlan(w, d, s, l) ==
    IF Role(w, d) \notin {"switch", "ap"} \/ l.sub = "" THEN Refused(w, s)
    ELSE Result(AddVlan(w, d, l.vlan), [s EXCEPT !.vlan = l.vlan, !.mode = "config-vlan"], 0)

AddGlobal(w, d, g) == [w EXCEPT !.dev[d].globals = Append(@, g)]

\* A new pool is appended; a known one is entered again.
EnterPool(w, d, s, name) ==
    LET pools == w.dev[d].pools
        new == [name |-> name, net |-> None, mask |-> None, gw |-> None, excluded |-> {}]
    IN  Result(IF \E i \in DOMAIN pools : pools[i].name = name THEN w
               ELSE [w EXCEPT !.dev[d].pools = Append(@, new)],
               [s EXCEPT !.dhcp = name, !.mode = "config-dhcp"], 0)

\* excluded-address is kept by the pools there are, not by the device.
ExcludeAddress(w, d, lo, hi) ==
    LET pools == w.dev[d].pools
    IN  [w EXCEPT !.dev[d].pools = [i \in DOMAIN pools |->
            [pools[i] EXCEPT !.excluded = @ \cup {<<lo, hi>>}]]]

CmdIpGlobal(w, d, s, l) ==
    CASE l.sub = "route" ->
           Result([w EXCEPT !.dev[d].routes =
                     Append(@, [net |-> l.net, mask |-> l.mask, nh |-> l.nh])], s, 0)
      [] l.sub = "nat" -> Result([w EXCEPT !.dev[d].nat = l.acl], s, 0)
      [] l.sub = "dhcp pool" -> EnterPool(w, d, s, l.name)
      [] l.sub = "dhcp excluded-address" -> Result(ExcludeAddress(w, d, l.lo, l.hi), s, 0)
      [] l.sub \in {"access-list", "default-gateway"} ->
           Result(AddGlobal(w, d, [kind |-> l.sub, line |-> <<l.sub>>]), s, 0)
      [] OTHER -> Refused(w, s)

CmdIpv6Global(w, d, s, l) ==
    LET on == \E i \in DOMAIN w.dev[d].globals : w.dev[d].globals[i].kind = "ipv6"
    IN  IF l.sub # "unicast-routing" \/ on THEN Refused(w, s)
        ELSE Result(AddGlobal(w, d, [kind |-> "ipv6", line |-> <<"ipv6", l.sub>>]), s, 0)

CmdAccessList(w, d, s, l) ==
    Result(AddGlobal(w, d, [kind |-> "acl", id |-> l.id, action |-> l.action, proto |-> l.proto,
                            src |-> l.src, dst |-> l.dst,
                            line |-> <<"access-list", l.id, l.action, l.proto, l.src, l.dst>>]),
           s, 0)

CmdRouter(w, d, s, l) ==
    IF l.sub = "" THEN Refused(w, s)
    ELSE Result(AddGlobal(w, d, [kind |-> "router", proto |-> l.sub, line |-> <<"router", l.sub>>]),
                [s EXCEPT !.router = l.sub, !.mode = "config-router"], 0)

CmdRouterNetwork(w, d, s, l) ==
    IF l.sub = "" THEN Refused(w, s)
    ELSE Result(AddGlobal(w, d, [kind |-> "network", net |-> l.net, wild |-> l.mask,
                                 area |-> l.sub = "area", line |-> <<"network", l.net, l.mask>>]),
                s, 0)

\* The extra line of one kind is replaced by a new one.
SetExtra(f, line) ==
    LET other(x) == x[1] # line[1]
    IN  [f EXCEPT !.extra = Append(SelectSeq(@, other), line)]
DropExtra(f, kind) ==
    LET other(x) == x[1] # kind
    IN  [f EXCEPT !.extra = SelectSeq(@, other)]

\* switchport mode, access vlan and trunk: an access port is blocked until
\* PortFast, a trunk forwards.
Access(f, v) == [f EXCEPT !.sw = "access", !.vlan = v, !.stp = f.portfast]
Trunk(f) == [f EXCEPT !.sw = "trunk", !.stp = TRUE]

NoChange(f) == f

\* The commands that change one port alone: the port after the command.
\* `no ip' takes the address away, whatever follows it.
IfAfter(c, l, f) ==
    CASE c = "ip" /\ l.sub = "address" -> [f EXCEPT !.ip = l.ip, !.mask = l.mask]
      [] c = "ip" /\ l.sub = "access-group" -> SetExtra(f, <<"access-group", l.acl>>)
      [] c = "ip" /\ l.sub = "nat" -> [f EXCEPT !.nat = l.side]
      [] c = "no" /\ l.sub = "ip" -> [f EXCEPT !.ip = None, !.mask = None]
      [] c = "no" /\ l.sub = "spanning-tree" ->
           [DropExtra(f, "portfast") EXCEPT !.portfast = FALSE,
                                            !.stp = IF f.sw = "access" THEN FALSE ELSE @]
      [] c = "no" /\ l.sub = "channel-group" -> [DropExtra(f, "channel-group") EXCEPT !.chan = None]
      [] c \in {"description", "ipv6"} /\ l.sub # "" -> SetExtra(f, <<c, l.sub>>)
      [] c = "spanning-tree" /\ l.sub = "portfast" ->
           [IF f.portfast THEN f ELSE SetExtra(f, <<"portfast">>)
              EXCEPT !.portfast = TRUE, !.stp = TRUE]
      [] c = "channel-group" /\ l.sub # "" ->
           [SetExtra(f, <<"channel-group", l.group>>) EXCEPT !.chan = l.group]
      [] c = "switchport" /\ l.sub = "mode access" ->
           Access(f, IF f.vlan = None THEN 1 ELSE f.vlan)
      [] c = "switchport" /\ l.sub = "access vlan" -> Access(f, l.vlan)
      [] c = "switchport" /\ l.sub \in {"mode trunk", "trunk"} -> Trunk(f)
      [] OTHER -> f

SwitchOnly == {"spanning-tree", "channel-group", "switchport"}
IfCommands == {"ip", "ipv6", "no", "shutdown", "description"} \cup SwitchOnly

\* shutdown and no shutdown: notify_link_change refreshes every link.
SetAdmin(w, d, p, up) ==
    RefreshLinkState(SetIf(w, d, p,
        [IfOf(w, d, p) EXCEPT !.admin = up, !.proto = up /\ @]))

CmdIf(w, d, s, c, l) ==
    IF s.if = None \/ s.if \notin Ifs(w, d) THEN Refused(w, s)     \* _require_if
    ELSE IF c = "shutdown" THEN Result(SetAdmin(w, d, s.if, FALSE), s, 2)
    ELSE IF c = "no" /\ l.sub = "shutdown" THEN Result(SetAdmin(w, d, s.if, TRUE), s, 2)
    ELSE IF c \in SwitchOnly /\ Role(w, d) \notin {"switch", "ap"} THEN Refused(w, s)
    ELSE LET v == SetIf(w, d, s.if, IfAfter(c, l, IfOf(w, d, s.if)))
         IN  Result(IF c = "switchport" /\ l.sub = "access vlan" THEN AddVlan(v, d, l.vlan) ELSE v,
                    s, 0)

CmdVlanName(w, d, s, l) ==
    IF l.sub = "" \/ s.vlan = None THEN Refused(w, s)
    ELSE Result([w EXCEPT !.dev[d].vlans[s.vlan] = l.sub], s, 0)

CmdDhcp(w, d, s, c, l) ==
    LET pools == w.dev[d].pools
        here == {i \in DOMAIN pools : pools[i].name = s.dhcp}
        at == CHOOSE i \in here : TRUE
    IN  IF s.dhcp = "" \/ here = {} \/ l.sub = "" THEN Refused(w, s)
        ELSE IF c = "network"
             THEN Result([w EXCEPT !.dev[d].pools[at] = [@ EXCEPT !.net = l.net, !.mask = l.mask]], s, 0)
        ELSE Result([w EXCEPT !.dev[d].pools[at].gw = l.gw], s, 0)

CmdPing(w, d, s, l) ==
    IF l.sub = "" THEN Refused(w, s) ELSE Result(Ping(w, d, l.ip), s, 4)

-----------------------------------------------------------------------------
(* Dispatch.                                                               *)

\* Every command but `do', which runs one of these.  A hostname, like any
\* other argument, is missing when `sub' is "".
Run(w, d, s, c, l) ==
    CASE c = "" -> Result(w, s, 3)          \* invalid input
      [] c = "?" -> Result(w, s, 2)
      [] c = "enable" -> Result(w, [s EXCEPT !.mode = "enable"], 0)
      [] c = "disable" -> Result(w, [s EXCEPT !.mode = "user"], 0)
      [] c = "configure" -> IF l.sub = "" THEN Refused(w, s)
                            ELSE Result(w, [s EXCEPT !.mode = "config"], 1)
      [] c = "exit" -> CmdExit(w, s)
      [] c = "end" -> CmdEnd(w, s)
      [] c = "terminal" -> CmdTerminal(w, s, l)
      [] c = "show" -> CmdShow(w, d, s, l)
      [] c = "ping" -> CmdPing(w, d, s, l)
      [] c = "traceroute" -> Result(Converge(w), s, 5)
      [] c = "write" \/ (c = "copy" /\ l.sub = "run start") -> CmdWrite(w, d, s)
      [] c = "help" -> Result(w, s, Cardinality(Commands(s.mode)) + 2)
      [] c = "hostname" /\ l.sub # "" -> Result([w EXCEPT !.dev[d].hostname = l.sub], s, 0)
      [] c = "interface" -> CmdInterface(w, d, s, l)
      [] c = "vlan" -> CmdVlan(w, d, s, l)
      [] c = "name" -> CmdVlanName(w, d, s, l)
      [] c = "access-list" -> CmdAccessList(w, d, s, l)
      [] c = "router" -> CmdRouter(w, d, s, l)
      [] c = "line" -> IF l.sub = "" THEN Refused(w, s)
                       ELSE Result(w, [s EXCEPT !.line = l.sub, !.mode = "config-line"], 0)
      [] c = "network" /\ s.mode = "config-router" -> CmdRouterNetwork(w, d, s, l)
      [] c \in {"network", "default-router"} /\ s.mode = "config-dhcp" -> CmdDhcp(w, d, s, c, l)
      [] c = "ip" /\ s.mode = "config" -> CmdIpGlobal(w, d, s, l)
      [] c = "ipv6" /\ s.mode = "config" -> CmdIpv6Global(w, d, s, l)
      [] c \in IfCommands /\ s.mode = "config-if" -> CmdIf(w, d, s, c, l)
      [] OTHER -> Refused(w, s)             \* no effect in this model of the device

\* `do' runs the rest of the line as in enable mode and restores the mode,
\* whatever the command did to it.
Restored(r, doing, mode) == IF doing THEN [r EXCEPT !.s.mode = mode] ELSE r

Dispatch(w, d, s, l) ==
    LET doing == Resolve(l.tok, s.mode) = "do"
        line == IF doing /\ l.sub # "" THEN l.line ELSE l
        t == IF doing THEN [s EXCEPT !.mode = "enable"] ELSE s
    IN  IF doing /\ l.sub = "" THEN Refused(w, s)
        ELSE Restored(Run(w, d, t, Resolve(line.tok, t.mode), line), doing, s.mode)

Blank == [tok |-> "", sub |-> ""]
Comment == [tok |-> "!", sub |-> ""]

\* feed: a pending page takes the line, a blank line does nothing, and an
\* output longer than the terminal is held back.
HeldBack(r) ==
    IF r.s.term > 0 /\ r.out > r.s.term
    THEN [r EXCEPT !.s.more = r.out - r.s.term] ELSE r

Feed(w, d, s, l) ==
    IF s.more > 0
    THEN Result(w, [s EXCEPT !.more = IF l.tok \in {"q", "quit"} \/ @ <= s.term THEN 0
                                      ELSE @ - s.term], 1)
    ELSE IF l = Blank THEN Result(w, s, 0)
    ELSE HeldBack(Dispatch(w, d, s, l))

-----------------------------------------------------------------------------
(* HostShell.                                                              *)

\* ip address on the first adapter; the gateway of the host is kept if it
\* has one.
HostAddress(w, d, l) ==
    LET p == FirstIf(w, d)
        f == [IfOf(w, d, p) EXCEPT !.ip = l.ip, !.mask = l.mask, !.admin = TRUE,
                                   !.proto = TRUE, !.leased = FALSE]
    IN  RefreshLinkState([SetIf(w, d, p, f) EXCEPT !.dev[d].gw = GuessGateway(@, f)])

HostFeed(w, d, l) ==
    CASE l.tok = "ipconfig" /\ l.sub = "renew" -> OfferDhcp(w, d)
      [] l.tok = "ip" /\ l.sub = "address" /\ Ifs(w, d) # {} -> HostAddress(w, d, l)
      [] l.tok = "ping" /\ l.sub # "" -> Ping(w, d, l.ip)
      [] l.tok = "tracert" /\ l.sub # "" -> Converge(w)
      [] OTHER -> w
=============================================================================
