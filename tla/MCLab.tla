------------------------------- MODULE MCLab -------------------------------
(* Small labs for LabDesk and LabApi.  A topology and the lines that may be *)
(* typed as the first, the second and so on are chosen so that the orders   *)
(* that matter fit in a few lines.  Tasks are graded against the device of  *)
(* the rules, the one of the instructions and all of them.                  *)
EXTENDS LabDesk, LabApi

L(tok, sub) == [tok |-> tok, sub |-> sub]
Conf == L("conf", "terminal")
Port(p) == [tok |-> "int", sub |-> "port", port |-> p]
NoShut == L("no", "shutdown")
Renew == L("ipconfig", "renew")
Address(ip, size) == [tok |-> "ip", sub |-> "address", ip |-> ip, mask |-> size]
PoolLine(n) == [tok |-> "ip", sub |-> "dhcp pool", name |-> n]
NetworkLine(net, size) == [tok |-> "network", sub |-> "net", net |-> net, mask |-> size]
Gateway(ip) == [tok |-> "default-router", sub |-> "gw", gw |-> ip]
Exclude(lo, hi) == [tok |-> "ip", sub |-> "dhcp excluded-address", lo |-> lo, hi |-> hi]
Do(line) == [tok |-> "do", sub |-> "line", line |-> line]

At(ip, size) == [ip |-> ip, mask |-> size]
Bare == At(None, None)
NoVerify == [pings |-> <<>>, shows |-> <<>>]
PingTask(from, to, ok, weight) ==
    [rules |-> NoRules, named |-> {from}, weight |-> weight,
     verify |-> [pings |-> <<[source |-> from, destination |-> to, succeed |-> ok]>>,
                 shows |-> <<>>]]

\* Two hosts and two routers on one switch; both routers serve one network.
DhcpLab ==
    [role |-> <<"pc", "pc", "router", "router", "switch">>,
     ports |-> <<{1}, {1}, {1}, {1}, {1, 2, 3, 4}>>,
     addr |-> <<<<Bare>>, <<Bare>>, <<At(1, 8)>>, <<At(2, 8)>>, <<Bare, Bare, Bare, Bare>>>>,
     links |-> <<<<1, 1, 5, 1>>, <<2, 1, 5, 2>>, <<3, 1, 5, 3>>, <<4, 1, 5, 4>>>>,
     base |-> <<<<>>, <<>>,
                <<Port(1), NoShut, L("exit", ""), PoolLine("A"), NetworkLine(0, 8), Gateway(1)>>,
                <<Port(1), NoShut, L("exit", ""), PoolLine("B"), NetworkLine(0, 8), Gateway(1)>>,
                <<>>>>,
     tasks |-> <<[PingTask(1, 1, TRUE, 1) EXCEPT
                    !.rules = [device |-> None, require |-> {<<"shutdown">>}, forbid |-> {},
                               order |-> <<>>, weight |-> 1], !.named = {3}]>>,
     threshold |-> 0]

DhcpLines ==
    <<{<<1, Renew>>, <<3, Conf>>},
      {<<1, Address(3, 8)>>, <<3, Conf>>, <<3, Exclude(4, 3)>>},
      {<<2, Renew>>, <<3, Port(1)>>},
      {<<1, Renew>>, <<3, L("shut", "")>>},
      {<<1, Renew>>, <<2, Renew>>}>>

\* The same without a pool on the first router: the learner makes one.
PoolLab == [DhcpLab EXCEPT !.base[3] = <<Port(1), NoShut>>, !.base[4] = <<>>]

PoolScript ==
    <<{<<3, Conf>>},
      {<<3, Exclude(2, 4)>>, <<3, PoolLine("A")>>},
      {<<3, PoolLine("A")>>, <<3, Exclude(2, 4)>>, <<3, NetworkLine(0, 8)>>},
      {<<3, NetworkLine(0, 8)>>, <<3, L("exit", "")>>},
      {<<3, Exclude(2, 4)>>, <<1, Renew>>},
      {<<1, Renew>>, <<2, Renew>>}>>

\* Two switches joined by two links that cross their ports.
SwitchLab ==
    [role |-> <<"pc", "pc", "switch", "switch">>,
     ports |-> <<{1}, {1}, {1, 2, 3, 4}, {1, 2, 3}>>,
     addr |-> <<<<At(1, 8)>>, <<At(2, 8)>>, <<Bare, Bare, Bare, Bare>>, <<Bare, Bare, Bare>>>>,
     links |-> <<<<1, 1, 3, 1>>, <<2, 1, 4, 1>>, <<3, 2, 4, 3>>, <<3, 3, 4, 2>>>>,
     base |-> <<<<>>, <<>>, <<>>, <<>>>>,
     tasks |-> <<[rules |-> [device |-> 3, require |-> {<<"shutdown">>},
                             forbid |-> {<<"switchport mode", "trunk">>},
                             order |-> <<<<"hostname", 3>>, <<"shutdown">>>>, weight |-> 2],
                  named |-> {4}, weight |-> 1,
                  verify |-> [pings |-> <<[source |-> 1, destination |-> 2, succeed |-> TRUE]>>,
                              shows |-> <<>>]]>>,
     threshold |-> 50]

SwitchLines ==
    <<{<<3, L("en", "")>>, <<3, L("show", "interfaces")>>},
      {<<3, Conf>>, <<3, L("write", "")>>},
      {<<3, Port(2)>>, <<3, [tok |-> "vlan", sub |-> "id", vlan |-> 5]>>},
      {<<3, L("shut", "")>>, <<3, L("switchport", "mode access")>>, <<3, Do(L("end", ""))>>},
      {<<3, L("spanning-tree", "portfast")>>, <<3, NoShut>>},
      {<<3, Port(3)>>, <<3, L("shut", "")>>}>>

\* Two routers between two hosts.
RoutingLab ==
    [role |-> <<"pc", "pc", "router", "router">>,
     ports |-> <<{1}, {1}, {1, 2}, {1, 2}>>,
     addr |-> <<<<At(2, 8)>>, <<At(18, 8)>>, <<At(1, 8), At(9, 8)>>, <<At(10, 8), At(17, 8)>>>>,
     links |-> <<<<1, 1, 3, 1>>, <<3, 2, 4, 1>>, <<4, 2, 2, 1>>>>,
     base |-> <<<<>>, <<>>,
                <<Port(1), NoShut, Port(2), NoShut, L("exit", ""),
                  [tok |-> "access-list", sub |-> "", id |-> 1, action |-> "deny",
                   proto |-> "icmp", src |-> Any, dst |-> Any],
                  L("router", "ospf"), [tok |-> "network", sub |-> "area", net |-> 0, mask |-> 16]>>,
                <<Port(1), NoShut, Port(2), NoShut, L("exit", ""), L("router", "ospf"),
                  [tok |-> "network", sub |-> "area", net |-> 8, mask |-> 8],
                  [tok |-> "network", sub |-> "area", net |-> 16, mask |-> 8]>>>>,
     tasks |-> <<PingTask(1, 18, TRUE, 1),
                 [rules |-> [device |-> None, require |-> {<<"ip route", 16, 8, 10>>, <<"router", "ospf">>},
                             forbid |-> {}, order |-> <<>>, weight |-> 1],
                  named |-> {3, 4}, weight |-> 3,
                  verify |-> [pings |-> <<[source |-> 2, destination |-> 2, succeed |-> FALSE]>>,
                              shows |-> <<[device |-> 4, contains |-> {<<"router", "ospf">>}]>>]]>>,
     threshold |-> 70]

RoutingLines ==
    <<{<<3, Conf>>, <<3, L("exit", "")>>, <<1, [tok |-> "ping", sub |-> "ip", ip |-> 18]>>},
      {<<3, Port(2)>>, <<3, [tok |-> "terminal", sub |-> "length", n |-> 2]>>},
      {<<3, L("shut", "")>>, <<3, L("en", "")>>, <<3, Comment>>,
       <<3, [tok |-> "ip", sub |-> "access-group", acl |-> 1]>>},
      {<<3, L("exit", "")>>, <<3, L("show", "ip route")>>,
       <<1, [tok |-> "ping", sub |-> "ip", ip |-> 18]>>},
      {<<3, [tok |-> "ip", sub |-> "route", net |-> 16, mask |-> 8, nh |-> 10]>>}>>

MCAbbrevs == [c \in {"enable", "configure", "interface", "shutdown"} |->
    CASE c = "enable" -> {"en"} [] c = "configure" -> {"conf"}
      [] c = "interface" -> {"int"} [] c = "shutdown" -> {"sh", "shut"}]

MCLabs == [dhcp |-> DhcpLab, switch |-> SwitchLab, routing |-> RoutingLab]
MCLines == [dhcp |-> DhcpLines, switch |-> SwitchLines, routing |-> RoutingLines]
PoolLabs == [pool |-> PoolLab]
PoolTyping == [pool |-> PoolScript]
MCPrefixes == {}

\* What a client sends: the configuration the second routing task asks for,
\* and nothing.
MCConfigs == {<<>>, <<<<"ip route", 16, 8, 10>>, <<"router", "ospf">>>>}

LabsInit == Init /\ ApiInit

\* The application and the server have no session in common: a run has the
\* one or the other.
LabSpec ==
    /\ LabsInit
    /\ [][ \/ ApiInit /\ Next /\ UNCHANGED apiVars
           \/ Init /\ ApiNext /\ UNCHANGED vars ]_<<vars, apiVars>>
=============================================================================
