------------------------------ MODULE LabWorld ------------------------------
(***************************************************************************)
(* The runtime of a lab: netsim/ios/device.py and netsim/ios/world.py.     *)
(*                                                                         *)
(* A world is a record [role, links, dev, ospf, arp]: the topology, one    *)
(* record per device, and the two tables of every device that pings fill.  *)
(* The operators take a world and give the world after the call, so that a *)
(* session can build one again and replay commands.                        *)
(*                                                                         *)
(* Devices and ports are numbered in the order the topology lists them,    *)
(* which is also the order of their names.  An address is a number and a   *)
(* mask is the size of its block, so a network is a block of addresses.    *)
(* MAC addresses, descriptions of devices and the layout of texts are left *)
(* out.  Wildcard masks are contiguous, written as block sizes too.        *)
(***************************************************************************)
EXTENDS Integers, Sequences, FiniteSets

CONSTANTS
    LabOf,          \* lab id |-> [role, ports, addr, links, base, tasks, threshold]
    Octet           \* addresses that differ in the last octet only (256)

None == -1          \* Python's None where an address, a mask or a number is expected
Any == -2           \* the word "any" of an access list

Roles == {"router", "switch", "ap", "firewall", "pc"}

\* x itself.  TLC evaluates a function constructor anew at every application;
\* the comparison makes it build the table once.
Tabulated(x) == IF x = x THEN x ELSE x

Lowest(S) == CHOOSE x \in S : \A y \in S : x <= y

\* The elements of a set of numbers in ascending order.
Sorted(S) == [i \in 1..Cardinality(S) |->
                CHOOSE x \in S : Cardinality({y \in S : y <= x}) = i]

\* The concatenation of the sequences lines(x) for x in the numbers of seq.
Blocks(seq, lines(_)) ==
    LET upTo[i \in 0..Len(seq)] == IF i = 0 THEN <<>> ELSE upTo[i - 1] \o lines(seq[i])
    IN  upTo[Len(seq)]

\* LabBank.topology: who the devices are and which ports a link joins.
Role(w, d) == w.role[d]
Links(w) == w.links
LinkEnds(w) == {Links(w)[i] : i \in DOMAIN Links(w)}
Devs(w) == DOMAIN w.dev
Ifs(w, d) == DOMAIN w.dev[d].if
IfOf(w, d, p) == w.dev[d].if[p]

\* The world without what pings have left: what they are answered from, but
\* for the routes, and what a lease is found from.
Wires(w) == [role |-> w.role, links |-> w.links, dev |-> w.dev]

\* Every port is in at most one link, and a link joins two devices.
WellWired(lab) ==
    /\ \A d \in DOMAIN lab.role : lab.role[d] \in Roles
    /\ \A i, j \in DOMAIN lab.links :
          LET a == lab.links[i]
              b == lab.links[j]
          IN  /\ a[1] # a[3]
              /\ i # j => {<<a[1], a[2]>>, <<a[3], a[4]>>}
                             \cap {<<b[1], b[2]>>, <<b[3], b[4]>>} = {}

\* Devices and ports are numbered, and a link joins ports that are there.
Numbered(lab) ==
    /\ lab.role \in Seq(Roles)
    /\ \A d \in DOMAIN lab.role : lab.ports[d] \in SUBSET Nat
    /\ lab.links \in Seq(Nat \X Nat \X Nat \X Nat)
    /\ \A i \in DOMAIN lab.links :
          LET t == lab.links[i]
          IN  /\ t[1] \in DOMAIN lab.role /\ t[2] \in lab.ports[t[1]]
              /\ t[3] \in DOMAIN lab.role /\ t[4] \in lab.ports[t[3]]

ASSUME LabAssumption ==
    /\ Octet \in Nat \ {0}
    /\ \A l \in DOMAIN LabOf : Numbered(LabOf[l]) /\ WellWired(LabOf[l])

-----------------------------------------------------------------------------
(* Addresses.                                                              *)

Net(ip, size) == [base |-> (ip \div size) * size, size |-> size]
Within(ip, net) == net.base <= ip /\ ip < net.base + net.size
Overlap(m, n) == Within(m.base, n) \/ Within(n.base, m)

\* IPv4Network.hosts(): without the network and the broadcast address.
Hosts(net) == IF net.size <= 2 THEN net.base .. net.base + net.size - 1
              ELSE net.base + 1 .. net.base + net.size - 2

HasNet(f) == f.ip # None /\ f.mask # None

-----------------------------------------------------------------------------
(* Building the world.                                                     *)

NewIf(admin, ip, mask) ==
    [ip |-> ip, mask |-> mask, admin |-> admin, proto |-> FALSE,
     sw |-> "none", vlan |-> None, nat |-> "none", leased |-> FALSE,
     portfast |-> FALSE, stp |-> TRUE, chan |-> None, extra |-> <<>>]

\* HostShell._guess_gateway: a gateway once known is kept, otherwise .1 of
\* the address's last octet.
GuessGateway(gw, f) ==
    IF gw # None THEN gw
    ELSE IF HasNet(f) THEN (f.ip \div Octet) * Octet + 1 ELSE None

FirstIf(w, d) == Lowest(Ifs(w, d))

NewDevice(lab, d) ==
    LET role == lab.role[d]
        ifs == [p \in lab.ports[d] |->
                  LET a == lab.addr[d][p]
                  IN  NewIf(role # "router", a.ip, a.mask)]
        first == IF ifs = <<>> THEN NewIf(FALSE, None, None)
                 ELSE ifs[Lowest(DOMAIN ifs)]
    IN  [hostname |-> d,
         if |-> ifs,
         vlans |-> IF role = "switch" THEN [v \in {1} |-> "default"] ELSE <<>>,
         routes |-> <<>>, globals |-> <<>>, startup |-> <<>>,
         nat |-> None, pools |-> <<>>, leases |-> [x \in {} |-> None],
         gw |-> IF role = "pc" /\ first.ip # None
                THEN GuessGateway(None, first) ELSE None]

\* A mutant asks the own end only.
LinkUpMutant(w, a, p, b, q) == IfOf(w, a, p).admin

LinkUp(w, a, p, b, q) == IfOf(w, a, p).admin /\ IfOf(w, b, q).admin

Present(w, t) == /\ t[1] \in Devs(w) /\ t[3] \in Devs(w)
                 /\ t[2] \in Ifs(w, t[1]) /\ t[4] \in Ifs(w, t[3])

\* The port at the other end of the link of port p, if both exist.
PeerPorts(w, d, p) ==
    {<<t[3], t[4]>> : t \in {u \in LinkEnds(w) : Present(w, u) /\ u[1] = d /\ u[2] = p}}
    \cup
    {<<t[1], t[2]>> : t \in {u \in LinkEnds(w) : Present(w, u) /\ u[3] = d /\ u[4] = p}}

\* _refresh_link_state: both ends of a link are up when both are enabled.
RefreshLinkState(w) ==
    LET proto(d, p) ==
          IF PeerPorts(w, d, p) = {} THEN IfOf(w, d, p).proto
          ELSE \E e \in PeerPorts(w, d, p) : LinkUp(w, d, p, e[1], e[2])
        ifs(d) == [p \in Ifs(w, d) |-> [IfOf(w, d, p) EXCEPT !.proto = proto(d, p)]]
    IN  Tabulated([w EXCEPT !.dev = [d \in Devs(w) |-> [w.dev[d] EXCEPT !.if = ifs(d)]]])

World(lab) ==
    RefreshLinkState(Tabulated(
        [role |-> lab.role, links |-> lab.links,
         dev |-> [d \in DOMAIN lab.role |-> NewDevice(lab, d)],
         ospf |-> [d \in DOMAIN lab.role |-> <<>>],
         arp |-> [d \in DOMAIN lab.role |-> {}]]))

FromLab(l) == World(LabOf[l])

SetIf(w, d, p, f) == [w EXCEPT !.dev[d].if[p] = f]

-----------------------------------------------------------------------------
(* Layer 2: who hears whom.                                                *)

\* The links between a and b as <<port of a, port of b>>.
Joins(w, a, b) ==
    {<<t[2], t[4]>> : t \in {u \in LinkEnds(w) : u[1] = a /\ u[3] = b}}
    \cup {<<t[4], t[2]>> : t \in {u \in LinkEnds(w) : u[1] = b /\ u[3] = a}}

MemberForwarding(f) == f.admin /\ f.proto /\ f.stp

PairForwarding(w, a, b, j) ==
    MemberForwarding(IfOf(w, a, j[1])) /\ MemberForwarding(IfOf(w, b, j[2]))

\* Links that are not bundled by one channel-group number at both ends.
UnbundledPairs(w, a, b) ==
    {j \in Joins(w, a, b) :
        \/ IfOf(w, a, j[1]).chan = None
        \/ IfOf(w, a, j[1]).chan # IfOf(w, b, j[2]).chan}

\* A mutant takes the lowest port of the device that asks.
DirectLinkUpMutant(w, a, b) ==
    LET pairs == UnbundledPairs(w, a, b)
    IN  /\ pairs # {}
        /\ IF Role(w, a) = "switch" /\ Role(w, b) = "switch" /\ Cardinality(pairs) > 1
           THEN LET j == CHOOSE i \in pairs : \A k \in pairs : i[1] <= k[1]
                IN  PairForwarding(w, a, b, j)
           ELSE \E i \in pairs : PairForwarding(w, a, b, i)

\* Between two switches only the lowest port of the first device forwards.
DirectLinkUp(w, a, b) ==
    LET pairs == UnbundledPairs(w, a, b)
        local(j) == IF a <= b THEN j[1] ELSE j[2]
    IN  /\ pairs # {}
        /\ IF Role(w, a) = "switch" /\ Role(w, b) = "switch" /\ Cardinality(pairs) > 1
           THEN LET j == CHOOSE i \in pairs : \A k \in pairs : local(i) <= local(k)
                IN  PairForwarding(w, a, b, j)
           ELSE \E i \in pairs : PairForwarding(w, a, b, i)

\* A channel group that has a forwarding member on each side.
ChannelUp(w, a, b) ==
    LET groups(d, k) == {IfOf(w, d, j[k]).chan :
            j \in {i \in Joins(w, a, b) : MemberForwarding(IfOf(w, d, i[k]))}}
    IN  (groups(a, 1) \cap groups(b, 2)) \ {None} # {}

L2LinkUp(w, a, b) == ChannelUp(w, a, b) \/ DirectLinkUp(w, a, b)

\* The first link of the list decides which port of a switch faces a device.
Toward(w, sw, peer) ==
    LET i == Lowest({k \in DOMAIN Links(w) :
                {Links(w)[k][1], Links(w)[k][3]} = {sw, peer}})
        t == Links(w)[i]
    IN  IfOf(w, sw, IF t[1] = sw THEN t[2] ELSE t[4])

AccessVlan(f) == IF f.sw = "access" /\ f.vlan # None THEN f.vlan ELSE 1

\* _hosts_share_access_vlan and _hosts_share_vlan_via_two_switches: a trunk
\* on either side bridges, access ports must be in one VLAN.
ShareVlan(fa, fb) ==
    fa.sw = "trunk" \/ fb.sw = "trunk" \/ AccessVlan(fa) = AccessVlan(fb)

Switches(w) == {d \in Devs(w) : Role(w, d) = "switch"}

\* _l2_adjacent_or_same, as the set of pairs it holds of.
Adjacent(w) ==
    LET up == {x \in Devs(w) \X Devs(w) : L2LinkUp(w, x[1], x[2])}
        Bridges(m, n, a, b) == ShareVlan(Toward(w, m, a), Toward(w, n, b))
        viaSwitches(a, b) ==
          \E m, n \in Switches(w) \ {a, b} :
             /\ <<a, m>> \in up /\ <<n, b>> \in up
             /\ m = n \/ <<m, n>> \in up
             /\ Bridges(m, n, a, b)
    IN  {x \in Devs(w) \X Devs(w) : x[1] = x[2] \/ x \in up \/ viaSwitches(x[1], x[2])}

-----------------------------------------------------------------------------
(* Layer 3: ping and traceroute.                                           *)

\* The ports an address is enabled on, and the first device that owns it.
Owners(w, ip) == {d \in Devs(w) : \E p \in Ifs(w, d) :
                    IfOf(w, d, p).admin /\ IfOf(w, d, p).ip = ip}
Owned(w, ip) == ip # None /\ Owners(w, ip) # {}
OwnerOf(w, ip) == Lowest(Owners(w, ip))

ConnectedSubnets(w, d) ==
    {Net(IfOf(w, d, p).ip, IfOf(w, d, p).mask) :
        p \in {q \in Ifs(w, d) : IfOf(w, d, q).admin /\ HasNet(IfOf(w, d, q))}}

Connected(w, d, ip) == \E n \in ConnectedSubnets(w, d) : Within(ip, n)

AclRules(w, d, id) ==
    LET isRule(g) == g.kind = "acl" /\ g.id = id
    IN  SelectSeq(w.dev[d].globals, isRule)

AclMatch(r, src, dst) ==
    LET one(t, ip) == t = Any \/ t = ip
    IN  \/ r.proto = "any"
        \/ r.proto \in {"host", "std"} /\ one(r.dst, dst)
        \/ r.proto \in {"ip", "icmp"} /\ one(r.src, src) /\ one(r.dst, dst)

\* The first line that matches decides; a list without lines does not.
AclDenies(w, d, id, src, dst) ==
    LET rules == AclRules(w, d, id)
        hits == {i \in DOMAIN rules : AclMatch(rules[i], src, dst)}
    IN  rules # <<>> /\ (hits = {} \/ rules[Lowest(hits)].action = "deny")

AppliedAcls(w, d) ==
    {g[2] : g \in {x \in UNION {{IfOf(w, d, p).extra[i] : i \in DOMAIN IfOf(w, d, p).extra}
                                  : p \in Ifs(w, d)} : x[1] = "access-group"}}

AddressedIfs(w, d) == {p \in Ifs(w, d) : IfOf(w, d, p).admin /\ IfOf(w, d, p).ip # None}

\* Any list applied on or next to the path filters, whatever its direction.
AclBlocksIcmp(w, adj, from, dst) ==
    LET src == IfOf(w, from, Lowest(AddressedIfs(w, from))).ip
        ends == {from} \cup (IF Owned(w, dst) THEN {OwnerOf(w, dst)} ELSE {})
    IN  /\ AddressedIfs(w, from) # {}
        /\ \E d \in Devs(w) :
             /\ Role(w, d) \in {"router", "firewall"}
             /\ \E e \in ends : d = e \/ <<d, e>> \in adj
             /\ \E id \in AppliedAcls(w, d) : AclDenies(w, d, id, src, dst)

Faces(w, r, side, peer) ==
    \E j \in Joins(w, r, peer) : IfOf(w, r, j[1]).nat = side

\* From an inside device to an outside one without a PAT statement.
NatBlocks(w, r, from, dst) ==
    /\ Owned(w, dst)
    /\ Faces(w, r, "inside", from)
    /\ Faces(w, r, "outside", OwnerOf(w, dst))
    /\ w.dev[r].nat = None

CanReachSimple(w, adj, d, dst) ==
    /\ Connected(w, d, dst)
    /\ Owned(w, dst) => <<d, OwnerOf(w, dst)>> \in adj

\* _follow_routes: the first route to the destination whose next hop is on a
\* connected subnet decides; a next hop nobody answers for counts as reached.
Routed(w, ospf, adj, d, dst) ==
    LET routes == w.dev[d].routes \o ospf[d]
        usable == {i \in DOMAIN routes :
                     /\ Within(dst, Net(routes[i].net, routes[i].mask))
                     /\ Connected(w, d, routes[i].nh)}
        nh == routes[Lowest(usable)].nh
    IN  /\ usable # {}
        /\ Owned(w, nh) /\ <<d, OwnerOf(w, nh)>> \in adj
              => CanReachSimple(w, adj, OwnerOf(w, nh), dst)

\* A host hands what is not on its own subnet to its gateway.
ViaGateway(w, adj, from, dst) ==
    LET gw == w.dev[from].gw
    IN  /\ Role(w, from) = "pc" /\ ~Connected(w, from, dst)
        /\ Owned(w, gw) /\ <<from, OwnerOf(w, gw)>> \in adj

Reaches(w, ospf, adj, from, dst) ==
    LET viaGw == ViaGateway(w, adj, from, dst)
        hop == IF viaGw THEN OwnerOf(w, w.dev[from].gw) ELSE from
    IN  /\ ~AclBlocksIcmp(w, adj, from, dst)
        /\ \/ from \in Owners(w, dst)
           \/ /\ viaGw => ~NatBlocks(w, hop, from, dst)
              /\ CanReachSimple(w, adj, hop, dst) \/ Routed(w, ospf, adj, hop, dst)

CanReach(w, from, dst) == Reaches(Wires(w), w.ospf, Adjacent(Wires(w)), from, dst)

\* The coach hint of explain_unreachable.
WhyNot(w, ospf, adj, from, dst) ==
    LET gw == w.dev[from].gw
    IN  IF AddressedIfs(w, from) = {} THEN "no address"
        ELSE IF ~Owned(w, dst) THEN "nobody owns it"
        ELSE IF AclBlocksIcmp(w, adj, from, dst) THEN "access list"
        ELSE IF Owned(w, gw) /\ NatBlocks(w, OwnerOf(w, gw), from, dst) THEN "needs PAT"
        ELSE IF <<from, OwnerOf(w, dst)>> \notin adj /\ ~Routed(w, ospf, adj, from, dst) THEN "no path"
        ELSE "path check failed"

Explain(w, from, dst) == WhyNot(Wires(w), w.ospf, Adjacent(Wires(w)), from, dst)

-----------------------------------------------------------------------------
(* OSPF: routes between adjacent speakers, built anew by every ping.       *)

\* The enabled ports of d that a `network' statement under `router ospf' covers.
Advertised(w, d) ==
    LET g == w.dev[d].globals
        lines(kind) == {g[i] : i \in {k \in DOMAIN g : g[k].kind = kind}}
    IN  {p \in Ifs(w, d) :
           /\ \E r \in lines("router") : r.proto = "ospf"
           /\ IfOf(w, d, p).admin /\ HasNet(IfOf(w, d, p))
           /\ \E s \in lines("network") :
                 s.area /\ Net(IfOf(w, d, p).ip, s.wild) = Net(s.net, s.wild)}

Speakers(w) == {d \in Devs(w) : Advertised(w, d) # {}}

PeerIp(w, d, peer) ==
    LET ks == {k \in DOMAIN Links(w) : {Links(w)[k][1], Links(w)[k][3]} = {d, peer}}
    IN  IF ks = {} THEN None
        ELSE LET t == Links(w)[Lowest(ks)]
             IN  IfOf(w, peer, IF t[1] = peer THEN t[2] ELSE t[4]).ip

IfNet(w, d, p) == Net(IfOf(w, d, p).ip, IfOf(w, d, p).mask)

\* Every <<device, port>> of the world, in the order of the topology.
PortsInOrder(w) ==
    LET ports(d) == [i \in 1..Cardinality(Ifs(w, d)) |-> <<d, Sorted(Ifs(w, d))[i]>>]
    IN  Blocks(Sorted(Devs(w)), ports)

\* What the adjacent speakers advertise to d, but for what d is connected to
\* or has a static route for.
Heard(w, adj, d) ==
    LET isHeard(x) ==
          /\ x[1] # d /\ x[2] \in Advertised(w, x[1])
          /\ <<d, x[1]>> \in adj /\ PeerIp(w, d, x[1]) # None
          /\ \A r \in {w.dev[d].routes[i] : i \in DOMAIN w.dev[d].routes} :
                Net(r.net, r.mask) # IfNet(w, x[1], x[2])
          /\ \A c \in ConnectedSubnets(w, d) : ~Overlap(IfNet(w, x[1], x[2]), c)
    IN  SelectSeq(PortsInOrder(w), isHeard)

RouteVia(w, d, net, peer) == [net |-> net.base, mask |-> net.size, nh |-> PeerIp(w, d, peer)]

\* Of the routes to one network the first to come is kept.
FirstOfEach(routes) ==
    LET same(i, k) == routes[i].net = routes[k].net /\ routes[i].mask = routes[k].mask
        kept(x) == \E i \in DOMAIN routes : x = <<i>> /\ \A k \in 1..i - 1 : ~same(i, k)
        firsts == SelectSeq([i \in DOMAIN routes |-> <<i>>], kept)
    IN  [n \in DOMAIN firsts |-> routes[firsts[n][1]]]

RoutesVia(w, d, heard) ==
    [i \in DOMAIN heard |->
       RouteVia(w, d, IfNet(w, heard[i][1], heard[i][2]), heard[i][1])]

OspfRoutes(w, adj, d) ==
    IF d \in Speakers(w) /\ Cardinality(Speakers(w)) >= 2
    THEN FirstOfEach(RoutesVia(w, d, Heard(w, adj, d))) ELSE <<>>

OspfTables(w, adj) == Tabulated([d \in Devs(w) |-> OspfRoutes(w, adj, d)])

RebuildOspfRoutes(w) ==
    Tabulated([w EXCEPT !.ospf = OspfTables(Wires(w), Adjacent(Wires(w)))])

\* What ping and traceroute do to the world before they look for a path.
Converge(w) == RebuildOspfRoutes(RefreshLinkState(w))

\* ping: a success on an owned address is remembered in the ARP table.
Answered(w, from, dst) ==
    IF CanReach(w, from, dst) /\ Owned(w, dst)
    THEN [w EXCEPT !.arp[from] = @ \cup {dst}] ELSE w

Ping(w, from, dst) == Answered(Converge(w), from, dst)

-----------------------------------------------------------------------------
(* DHCP.                                                                   *)

\* Addresses another device has, on a port or in any router's lease table.
UsedIps(w, pc) ==
    ({IfOf(w, x[1], x[2]).ip : x \in {y \in (Devs(w) \ {pc}) \X UNION {Ifs(w, e) : e \in Devs(w)} :
                                         y[2] \in Ifs(w, y[1])}}
     \cup UNION {{w.dev[r].leases[c] : c \in DOMAIN w.dev[r].leases \ {pc}} : r \in Devs(w)})
    \ {None}

Excluded(pool, ip) == \E x \in pool.excluded : (x[1] <= ip /\ ip <= x[2]) \/ (x[2] <= ip /\ ip <= x[1])

ServesNetwork(w, r, net) == net \in ConnectedSubnets(w, r)

\* The address a pool gives: the one the client had there, or the first free
\* host; None when there is none.
\* A mutant looks at the leases of the asking router's other clients only.
PoolOfferMutant(w, r, pool, pc) ==
    LET net == Net(pool.net, pool.mask)
        used == {w.dev[r].leases[c] : c \in DOMAIN w.dev[r].leases \ {pc}} \cup {pool.gw}
        free(ip) == ip \notin used /\ ~Excluded(pool, ip)
        open == {ip \in Hosts(net) : free(ip)}
    IN  IF pool.net = None \/ pool.mask = None \/ ~ServesNetwork(w, r, net) THEN None
        ELSE IF open = {} THEN None ELSE Lowest(open)

PoolOffer(w, r, pool, pc) ==
    LET net == Net(pool.net, pool.mask)
        used == UsedIps(w, pc) \cup {pool.gw}
        free(ip) == ip \notin used /\ ~Excluded(pool, ip)
        open == {ip \in Hosts(net) : free(ip)}
        held == IF pc \in DOMAIN w.dev[r].leases THEN w.dev[r].leases[pc] ELSE None
    IN  IF pool.net = None \/ pool.mask = None \/ ~ServesNetwork(w, r, net) THEN None
        ELSE IF held # None /\ Within(held, net) /\ free(held) THEN held
        ELSE IF open = {} THEN None ELSE Lowest(open)

\* The port of a host that asks for an address: its first connected one.
HostIf(w, pc) ==
    LET wired == {p \in Ifs(w, pc) : \E t \in LinkEnds(w) :
                    <<pc, p>> \in {<<t[1], t[2]>>, <<t[3], t[4]>>}}
    IN  IF wired # {} THEN Lowest(wired) ELSE FirstIf(w, pc)

\* The routers and pools that would answer, in the order they are asked.
Offers(w, pc) ==
    {x \in Devs(w) \X UNION {DOMAIN w.dev[r].pools : r \in Devs(w)} :
        /\ Role(w, x[1]) = "router" /\ <<pc, x[1]>> \in Adjacent(w)
        /\ x[2] \in DOMAIN w.dev[x[1]].pools
        /\ PoolOffer(w, x[1], w.dev[x[1]].pools[x[2]], pc) # None}

BindLease(w, pc, p, r, pool, ip) ==
    LET leases == [c \in DOMAIN w.dev[r].leases \cup {pc} |->
                     IF c = pc THEN ip ELSE w.dev[r].leases[c]]
    IN  RefreshLinkState(
          [w EXCEPT !.dev[pc].if[p] = [@ EXCEPT !.ip = ip, !.mask = pool.mask,
                                                !.admin = TRUE, !.leased = TRUE],
                    !.dev[pc].gw = pool.gw,
                    !.dev[r].leases = Tabulated(leases)])

\* The first answer is bound.
FirstOffer(answers) == CHOOSE x \in answers : \A y \in answers :
                          x[1] < y[1] \/ (x[1] = y[1] /\ x[2] <= y[2])

TakeOffer(w, pc, answers) ==
    LET r == FirstOffer(answers)[1]
        pool == w.dev[r].pools[FirstOffer(answers)[2]]
    IN  IF answers = {} THEN w
        ELSE BindLease(w, pc, HostIf(w, pc), r, pool, PoolOffer(Wires(w), r, pool, pc))

Renewed(w, pc) == TakeOffer(w, pc, Offers(Wires(w), pc))

OfferDhcp(w, pc) ==
    IF Role(w, pc) # "pc" \/ Ifs(w, pc) = {} THEN w ELSE Renewed(RefreshLinkState(w), pc)
=============================================================================
