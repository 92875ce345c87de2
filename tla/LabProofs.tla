----------------------------- MODULE LabProofs -----------------------------
(***************************************************************************)
(* The labs: for any labs, lines, tasks, resets and clients, the links     *)
(* (LinkProtocol), the leases (LeaseUnique, LeaseIsFree), the contexts of  *)
(* the shells (CtxOnlyInMode), layer 2 (L2Symmetric), Reset & Replay       *)
(* (ReplayRebuilds), the result page (ResultIsCurrent) and, with one       *)
(* worker, the order the server grades in (GradedInOrder).                 *)
(*                                                                         *)
(* A world is Sound when it has the lab's devices, ports and links, when   *)
(* both ends of a link agree and no address is leased twice.  What is      *)
(* proved of a world, from the inside out:                                 *)
(*   - a port has one peer (OnePeer), so that _refresh_link_state sets     *)
(*     each link as it is to be, whatever was before, and a second run of  *)
(*     it finds nothing to do (RefreshIdle);                               *)
(*   - a command either changes one device and leaves its links alone, or  *)
(*     opens or shuts a port and refreshes (a section per kind below);     *)
(*   - an offer is an address that no other device has and no other client *)
(*     has leased, from any router (OfferFree), so binding it keeps leases *)
(*     apart (BindLeaseIs);                                                *)
(*   - a ping converges the tables and learns neighbours, no more;         *)
(*   - two worlds with the same devices stay so under every line, whatever *)
(*     their tables are (Alike), for a replay repeats the lines and not    *)
(*     the checks between them.                                            *)
(* A session is a sound world with a shell for every device in a mode with *)
(* its own context.  A line keeps it, so does a script line after line,    *)
(* hence a new lab, a reset and a replay; grading leaves the devices as    *)
(* they are.  A loop is gone through by the first round that would fail,   *)
(* which is a smallest number (SmallestNumber).  The page adds that the    *)
(* current task is one of the lab and that the log builds the session      *)
(* (ReplayInv), the server what its one worker is about to do (Between).   *)
(***************************************************************************)
EXTENDS LabDesk, LabApi, FiniteSetTheorems, SequenceTheorems,
        WellFoundedInduction, TLAPS

-----------------------------------------------------------------------------
(* Numbers.                                                                *)

\* A set of numbers has a smallest one.
LEMMA SmallestNumber == ASSUME NEW S, S \subseteq Nat, S # {} PROVE \E l \in S : \A m \in S : l <= m
<1> DEFINE R == OpToRel(<, Nat)
<1>1. IsWellFoundedOn(R, Nat)
  BY NatLessThanWellFounded
<1>2. PICK l \in S : \A m \in S : ~(<<m, l>> \in R)
  <2> HIDE DEF R
  <2> QED
    BY <1>1, WFMin
<1>3. \A m \in S : ~(m < l)
  BY <1>2 DEF OpToRel
<1> QED
  BY <1>3

-----------------------------------------------------------------------------
(* The topology: a port has one peer at most.                              *)

\* The peers of a port by the links of the lab.
LabPeers(lab, d, p) ==
    {<<lab.links[i][3], lab.links[i][4]>> :
        i \in {k \in DOMAIN lab.links : lab.links[k][1] = d /\ lab.links[k][2] = p}}
    \cup
    {<<lab.links[i][1], lab.links[i][2]>> :
        i \in {k \in DOMAIN lab.links : lab.links[k][3] = d /\ lab.links[k][4] = p}}

Labs == {LabOf[l] : l \in DOMAIN LabOf}

LEMMA LinkShape ==
    ASSUME NEW lab \in Labs, NEW i \in DOMAIN lab.links
    PROVE  LET t == lab.links[i]
           IN  /\ t = <<t[1], t[2], t[3], t[4]>>
               /\ t[1] \in Nat /\ t[2] \in Nat /\ t[3] \in Nat /\ t[4] \in Nat
               /\ t[1] \in DOMAIN lab.role /\ t[2] \in lab.ports[t[1]]
               /\ t[3] \in DOMAIN lab.role /\ t[4] \in lab.ports[t[3]]
               /\ t[1] # t[3]
<1>1. Numbered(lab) /\ WellWired(lab)
  BY LabAssumption DEF Labs
<1>2. lab.links[i] \in Nat \X Nat \X Nat \X Nat
  BY <1>1 DEF Numbered
<1>3. lab.links[i][1] # lab.links[i][3]
  BY <1>1 DEF WellWired
<1>4. LET t == lab.links[i]
      IN  /\ t[1] \in DOMAIN lab.role /\ t[2] \in lab.ports[t[1]]
          /\ t[3] \in DOMAIN lab.role /\ t[4] \in lab.ports[t[3]]
  BY <1>1 DEF Numbered
<1> QED
  BY <1>2, <1>3, <1>4

\* An end of a link is at one side of one link.
LEMMA OneLink ==
    ASSUME NEW lab \in Labs, NEW i \in DOMAIN lab.links, NEW j \in DOMAIN lab.links
    PROVE  LET a == lab.links[i]
               b == lab.links[j]
           IN  /\ a[1] = b[1] /\ a[2] = b[2] => i = j
               /\ a[3] = b[3] /\ a[4] = b[4] => i = j
               /\ ~(a[1] = b[3] /\ a[2] = b[4])
<1> DEFINE a == lab.links[i]
           b == lab.links[j]
<1>1. WellWired(lab)
  BY LabAssumption DEF Labs
<1>2. i # j => {<<a[1], a[2]>>, <<a[3], a[4]>>} \cap {<<b[1], b[2]>>, <<b[3], b[4]>>} = {}
  BY <1>1 DEF WellWired
<1>3. a[1] # a[3]
  BY LinkShape
<1> QED
  BY <1>2, <1>3

LEMMA PeersKnown ==
    ASSUME NEW lab \in Labs, NEW d, NEW p, NEW e \in LabPeers(lab, d, p)
    PROVE  /\ e = <<e[1], e[2]>>
           /\ e[1] \in DOMAIN lab.role /\ e[2] \in lab.ports[e[1]]
           /\ d \in DOMAIN lab.role /\ p \in lab.ports[d] /\ e[1] # d
           /\ <<d, p>> \in LabPeers(lab, e[1], e[2])
<1>1. CASE \E i \in DOMAIN lab.links : /\ lab.links[i][1] = d /\ lab.links[i][2] = p
                                       /\ e = <<lab.links[i][3], lab.links[i][4]>>
  BY <1>1, LinkShape DEF LabPeers
<1>2. CASE \E i \in DOMAIN lab.links : /\ lab.links[i][3] = d /\ lab.links[i][4] = p
                                       /\ e = <<lab.links[i][1], lab.links[i][2]>>
  BY <1>2, LinkShape DEF LabPeers
<1> QED
  BY <1>1, <1>2 DEF LabPeers

LEMMA OnePeer ==
    ASSUME NEW lab \in Labs, NEW d, NEW p, NEW e \in LabPeers(lab, d, p), NEW f \in LabPeers(lab, d, p)
    PROVE  e = f
<1>1. PICK i \in DOMAIN lab.links :
        \/ lab.links[i][1] = d /\ lab.links[i][2] = p /\ e = <<lab.links[i][3], lab.links[i][4]>>
        \/ lab.links[i][3] = d /\ lab.links[i][4] = p /\ e = <<lab.links[i][1], lab.links[i][2]>>
  BY DEF LabPeers
<1>2. PICK j \in DOMAIN lab.links :
        \/ lab.links[j][1] = d /\ lab.links[j][2] = p /\ f = <<lab.links[j][3], lab.links[j][4]>>
        \/ lab.links[j][3] = d /\ lab.links[j][4] = p /\ f = <<lab.links[j][1], lab.links[j][2]>>
  BY DEF LabPeers
<1> QED
  BY <1>1, <1>2, OneLink

-----------------------------------------------------------------------------
(* The shape of a world.                                                   *)

IfOk(f) ==
    /\ f = [ip |-> f.ip, mask |-> f.mask, admin |-> f.admin, proto |-> f.proto,
            sw |-> f.sw, vlan |-> f.vlan, nat |-> f.nat, leased |-> f.leased,
            portfast |-> f.portfast, stp |-> f.stp, chan |-> f.chan, extra |-> f.extra]
    /\ f.admin \in BOOLEAN /\ f.proto \in BOOLEAN

PoolOk(q) ==
    /\ q = [name |-> q.name, net |-> q.net, mask |-> q.mask, gw |-> q.gw,
            excluded |-> q.excluded]
    /\ q.net # None /\ q.mask # None => q.net \in Nat /\ q.mask \in Nat \ {0}

DeviceOk(x) ==
    /\ x = [hostname |-> x.hostname, if |-> x.if, vlans |-> x.vlans, routes |-> x.routes,
            globals |-> x.globals, startup |-> x.startup, nat |-> x.nat, pools |-> x.pools,
            leases |-> x.leases, gw |-> x.gw]
    /\ x.if = [p \in DOMAIN x.if |-> x.if[p]]
    /\ \A p \in DOMAIN x.if : IfOk(x.if[p])
    /\ IsSequence(x.pools)
    /\ \A i \in DOMAIN x.pools : PoolOk(x.pools[i])
    /\ x.leases = [c \in DOMAIN x.leases |-> x.leases[c]]
    /\ \A c \in DOMAIN x.leases : x.leases[c] # None

\* The ports of the lab are there, and a host has no other.
PortsOk(lab, d, x) ==
    /\ lab.ports[d] \subseteq DOMAIN x.if
    /\ lab.role[d] = "pc" => DOMAIN x.if = lab.ports[d]

WorldOk(lab, w) ==
    /\ w = [role |-> lab.role, links |-> lab.links, dev |-> w.dev, ospf |-> w.ospf, arp |-> w.arp]
    /\ w.dev = [d \in DOMAIN lab.role |-> w.dev[d]]
    /\ \A d \in DOMAIN lab.role : DeviceOk(w.dev[d]) /\ PortsOk(lab, d, w.dev[d])

LEMMA WorldParts ==
    ASSUME NEW lab, NEW w, WorldOk(lab, w)
    PROVE  /\ w.role = lab.role /\ w.links = lab.links /\ DOMAIN w.dev = DOMAIN lab.role
           /\ Devs(w) = DOMAIN lab.role
           /\ \A d \in DOMAIN lab.role : DeviceOk(w.dev[d]) /\ PortsOk(lab, d, w.dev[d])
<1>1. /\ w = [role |-> lab.role, links |-> lab.links, dev |-> w.dev, ospf |-> w.ospf, arp |-> w.arp]
      /\ w.dev = [d \in DOMAIN lab.role |-> w.dev[d]]
      /\ \A d \in DOMAIN lab.role : DeviceOk(w.dev[d]) /\ PortsOk(lab, d, w.dev[d])
  BY DEF WorldOk
<1>2. w.role = lab.role /\ w.links = lab.links
  BY ONLY <1>1
<1>3. DOMAIN w.dev = DOMAIN lab.role
  BY ONLY <1>1
<1> QED
  BY <1>1, <1>2, <1>3 DEF Devs

\* The peers the world finds are those of the lab: all ports are there.
LEMMA PeersOfLab ==
    ASSUME NEW lab \in Labs, NEW w, WorldOk(lab, w), NEW d, NEW p
    PROVE  PeerPorts(w, d, p) = LabPeers(lab, d, p)
<1>1. w.links = lab.links /\ Devs(w) = DOMAIN lab.role
  BY WorldParts
<1>2. LinkEnds(w) = {lab.links[i] : i \in DOMAIN lab.links}
  BY <1>1 DEF LinkEnds, Links
<1>3. ASSUME NEW i \in DOMAIN lab.links PROVE Present(w, lab.links[i])
  <2> DEFINE t == lab.links[i]
  <2>1. /\ t[1] \in DOMAIN lab.role /\ t[2] \in lab.ports[t[1]]
        /\ t[3] \in DOMAIN lab.role /\ t[4] \in lab.ports[t[3]]
    BY LinkShape
  <2>2. \A e \in DOMAIN lab.role : lab.ports[e] \subseteq DOMAIN w.dev[e].if
    BY WorldParts DEF PortsOk
  <2> QED
    BY <1>1, <2>1, <2>2 DEF Present, Ifs
<1> QED
  BY <1>2, <1>3 DEF PeerPorts, LabPeers

\* The line protocol of both ends, by the links of the lab.
LinksRight(lab, dev) ==
    \A d \in DOMAIN lab.role : \A p \in DOMAIN dev[d].if : \A e \in LabPeers(lab, d, p) :
        dev[d].if[p].proto <=> (dev[d].if[p].admin /\ dev[e[1]].if[e[2]].admin)

LEMMA ProtocolByLab ==
    ASSUME NEW lab \in Labs, NEW w, WorldOk(lab, w)
    PROVE  LinkProtocolOf(w) <=> LinksRight(lab, w.dev)
  BY PeersOfLab, WorldParts DEF LinkProtocolOf, LinksRight, Ifs, IfOf

-----------------------------------------------------------------------------
(* _refresh_link_state.                                                    *)

\* The devices afterwards.
Proto(lab, dev, d, p) ==
    IF LabPeers(lab, d, p) = {} THEN dev[d].if[p].proto
    ELSE \E e \in LabPeers(lab, d, p) : dev[d].if[p].admin /\ dev[e[1]].if[e[2]].admin

RefreshedIfs(lab, dev, d) ==
    [p \in DOMAIN dev[d].if |-> [dev[d].if[p] EXCEPT !.proto = Proto(lab, dev, d, p)]]

Refreshed(lab, dev) ==
    [d \in DOMAIN lab.role |-> [dev[d] EXCEPT !.if = RefreshedIfs(lab, dev, d)]]

LEMMA RefreshIs ==
    ASSUME NEW lab \in Labs, NEW w, WorldOk(lab, w)
    PROVE  RefreshLinkState(w) = [w EXCEPT !.dev = Refreshed(lab, w.dev)]
<1>1. \A d, p : PeerPorts(w, d, p) = LabPeers(lab, d, p)
  BY PeersOfLab
<1>2. Devs(w) = DOMAIN lab.role
  BY WorldParts
<1> DEFINE proto(d, p) ==
             IF PeerPorts(w, d, p) = {} THEN IfOf(w, d, p).proto
             ELSE \E e \in PeerPorts(w, d, p) : LinkUp(w, d, p, e[1], e[2])
           ifs(d) == [p \in Ifs(w, d) |-> [IfOf(w, d, p) EXCEPT !.proto = proto(d, p)]]
<1>3. ASSUME NEW d, NEW p PROVE proto(d, p) = Proto(lab, w.dev, d, p)
  BY <1>1 DEF Proto, LinkUp, IfOf
<1> HIDE DEF proto
<1>4. ASSUME NEW d PROVE ifs(d) = RefreshedIfs(lab, w.dev, d)
  BY <1>3 DEF RefreshedIfs, Ifs, IfOf
<1> HIDE DEF ifs
<1>5. [d \in Devs(w) |-> [w.dev[d] EXCEPT !.if = ifs(d)]] = Refreshed(lab, w.dev)
  BY <1>2, <1>4 DEF Refreshed
<1>6. RefreshLinkState(w) = [w EXCEPT !.dev = [d \in Devs(w) |-> [w.dev[d] EXCEPT !.if = ifs(d)]]]
  BY DEF RefreshLinkState, Tabulated, proto, ifs
<1> QED
  BY <1>5, <1>6

\* Only the line protocol of linked ports is another.
RefreshedFrom(lab, dev, d, x, y) ==
    /\ DeviceOk(y) /\ DOMAIN y.if = DOMAIN x.if /\ y = [x EXCEPT !.if = y.if]
    /\ y.if = RefreshedIfs(lab, dev, d)
    /\ \A p \in DOMAIN x.if :
          /\ y.if[p] = [x.if[p] EXCEPT !.proto = Proto(lab, dev, d, p)]
          /\ y.if[p].admin = x.if[p].admin /\ y.if[p].proto = Proto(lab, dev, d, p)
    /\ y.leases = x.leases

LEMMA RefreshedDevices ==
    ASSUME NEW lab \in Labs, NEW dev, NEW d \in DOMAIN lab.role, DeviceOk(dev[d])
    PROVE  RefreshedFrom(lab, dev, d, dev[d], Refreshed(lab, dev)[d])
<1> DEFINE x == dev[d]
           ifs == RefreshedIfs(lab, dev, d)
           y == Refreshed(lab, dev)[d]
<1>1. y = [x EXCEPT !.if = ifs]
  BY DEF Refreshed
<1>2. ASSUME NEW p \in DOMAIN x.if
      PROVE  /\ ifs[p] = [x.if[p] EXCEPT !.proto = Proto(lab, dev, d, p)]
             /\ IfOk(ifs[p]) /\ ifs[p].admin = x.if[p].admin /\ ifs[p].proto = Proto(lab, dev, d, p)
  <2> DEFINE f == x.if[p]
             b == Proto(lab, dev, d, p)
  <2>1. ifs[p] = [f EXCEPT !.proto = b]
    BY DEF RefreshedIfs
  <2>2. IfOk(f)
    BY DEF DeviceOk
  <2>3. b \in BOOLEAN
    BY <2>2 DEF Proto, IfOk
  <2> HIDE DEF b, f
  <2>4. ifs[p] = [ip |-> f.ip, mask |-> f.mask, admin |-> f.admin, proto |-> b,
            sw |-> f.sw, vlan |-> f.vlan, nat |-> f.nat, leased |-> f.leased,
            portfast |-> f.portfast, stp |-> f.stp, chan |-> f.chan, extra |-> f.extra]
    BY <2>1, <2>2 DEF IfOk
  <2>5. IfOk(ifs[p]) /\ ifs[p].admin = f.admin /\ ifs[p].proto = b
    <3> HIDE DEF ifs
    <3> QED BY <2>2, <2>3, <2>4 DEF IfOk
  <2> QED
    BY <2>1, <2>5 DEF b, f
<1>3. DOMAIN ifs = DOMAIN x.if /\ ifs = [p \in DOMAIN ifs |-> ifs[p]]
  BY DEF RefreshedIfs
<1> HIDE DEF ifs, y
<1>4. y = [hostname |-> x.hostname, if |-> ifs, vlans |-> x.vlans, routes |-> x.routes,
            globals |-> x.globals, startup |-> x.startup, nat |-> x.nat, pools |-> x.pools,
            leases |-> x.leases, gw |-> x.gw]
  BY <1>1 DEF DeviceOk
<1>5. y.if = ifs /\ y.leases = x.leases /\ y.pools = x.pools
  BY <1>4
<1>6. DeviceOk(y)
  BY <1>2, <1>3, <1>4, <1>5 DEF DeviceOk
<1> QED
  BY <1>1, <1>2, <1>3, <1>5, <1>6 DEF ifs, y, RefreshedFrom

LEMMA RefreshRight ==
    ASSUME NEW lab \in Labs, NEW w, WorldOk(lab, w)
    PROVE  LET v == RefreshLinkState(w)
           IN  /\ WorldOk(lab, v) /\ LinkProtocolOf(v)
               /\ v = [w EXCEPT !.dev = Refreshed(lab, w.dev)] /\ v.dev = Refreshed(lab, w.dev)
               /\ v.ospf = w.ospf /\ v.arp = w.arp
               /\ LeaseUniqueOf(w) => LeaseUniqueOf(v)
<1> DEFINE v == RefreshLinkState(w)
           dev == Refreshed(lab, w.dev)
<1>1. v = [w EXCEPT !.dev = dev]
  BY RefreshIs
<1>2. w = [role |-> lab.role, links |-> lab.links, dev |-> w.dev, ospf |-> w.ospf, arp |-> w.arp]
  BY DEF WorldOk
<1> HIDE DEF v, dev
<1>3. v = [role |-> lab.role, links |-> lab.links, dev |-> dev, ospf |-> w.ospf, arp |-> w.arp]
  BY <1>1, <1>2
<1>4. v.dev = dev /\ v.ospf = w.ospf /\ v.arp = w.arp
  BY <1>3
<1>5. dev = [d \in DOMAIN lab.role |-> dev[d]]
  BY DEF dev, Refreshed
<1>6. ASSUME NEW d \in DOMAIN lab.role
      PROVE  /\ DeviceOk(dev[d]) /\ DOMAIN dev[d].if = DOMAIN w.dev[d].if
             /\ PortsOk(lab, d, dev[d]) /\ dev[d].leases = w.dev[d].leases
             /\ \A p \in DOMAIN w.dev[d].if :
                   /\ dev[d].if[p].admin = w.dev[d].if[p].admin
                   /\ dev[d].if[p].proto = Proto(lab, w.dev, d, p)
  <2>1. DeviceOk(w.dev[d]) /\ PortsOk(lab, d, w.dev[d])
    BY WorldParts
  <2>2. DeviceOk(dev[d]) /\ DOMAIN dev[d].if = DOMAIN w.dev[d].if
        /\ dev[d].leases = w.dev[d].leases
        /\ \A p \in DOMAIN w.dev[d].if :
                   /\ dev[d].if[p].admin = w.dev[d].if[p].admin
                   /\ dev[d].if[p].proto = Proto(lab, w.dev, d, p)
    <3>1. RefreshedFrom(lab, w.dev, d, w.dev[d], Refreshed(lab, w.dev)[d])
      BY <2>1, RefreshedDevices
    <3> QED
      BY <3>1 DEF dev, RefreshedFrom
  <2> QED
    BY <2>1, <2>2 DEF PortsOk
<1>7. WorldOk(lab, v)
  BY <1>3, <1>4, <1>5, <1>6 DEF WorldOk
<1>8. LinksRight(lab, dev)
  <2> SUFFICES ASSUME NEW d \in DOMAIN lab.role, NEW p \in DOMAIN dev[d].if, NEW e \in LabPeers(lab, d, p)
               PROVE  dev[d].if[p].proto <=> (dev[d].if[p].admin /\ dev[e[1]].if[e[2]].admin)
    BY DEF LinksRight
  <2>1. e[1] \in DOMAIN lab.role /\ e[2] \in lab.ports[e[1]]
    BY PeersKnown
  <2>2. e[2] \in DOMAIN w.dev[e[1]].if
    BY <2>1, WorldParts DEF PortsOk
  <2>3. dev[e[1]].if[e[2]].admin = w.dev[e[1]].if[e[2]].admin
    BY <1>6, <2>1, <2>2
  <2>4. p \in DOMAIN w.dev[d].if /\ dev[d].if[p].admin = w.dev[d].if[p].admin
        /\ dev[d].if[p].proto = Proto(lab, w.dev, d, p)
    BY <1>6
  <2>5. Proto(lab, w.dev, d, p) <=> (w.dev[d].if[p].admin /\ w.dev[e[1]].if[e[2]].admin)
    BY OnePeer DEF Proto
  <2> QED
    BY <2>3, <2>4, <2>5
<1>9. LinkProtocolOf(v)
  BY <1>4, <1>7, <1>8, ProtocolByLab
<1>10. LeaseUniqueOf(w) => LeaseUniqueOf(v)
  <2>1. \A d \in DOMAIN lab.role : v.dev[d].leases = w.dev[d].leases
    BY <1>4, <1>6
  <2>2. Devs(v) = DOMAIN lab.role /\ Devs(w) = DOMAIN lab.role
    BY <1>7, WorldParts
  <2>3. LeasesOf(v) = LeasesOf(w)
    BY <2>1, <2>2 DEF LeasesOf
  <2>4. \A x \in LeasesOf(w) : Leased(v, x) = Leased(w, x)
    BY <2>1, <2>2 DEF LeasesOf, Leased
  <2> QED
    BY <2>3, <2>4 DEF LeaseUniqueOf
<1> QED
  BY <1>1, <1>4, <1>7, <1>9, <1>10 DEF v, dev

\* Where the line protocols are right there is nothing to refresh.
LEMMA RefreshIdle ==
    ASSUME NEW lab \in Labs, NEW w, WorldOk(lab, w), LinkProtocolOf(w)
    PROVE  RefreshLinkState(w) = w
<1> DEFINE dev == Refreshed(lab, w.dev)
<1>1. LinksRight(lab, w.dev)
  BY ProtocolByLab
<1>2. ASSUME NEW d \in DOMAIN lab.role PROVE dev[d] = w.dev[d]
  <2> DEFINE x == w.dev[d]
             y == dev[d]
  <2>1. DeviceOk(x)
    BY WorldParts
  <2>2. /\ DeviceOk(y) /\ DOMAIN y.if = DOMAIN x.if /\ y = [x EXCEPT !.if = y.if]
        /\ \A p \in DOMAIN x.if : y.if[p] = [x.if[p] EXCEPT !.proto = Proto(lab, w.dev, d, p)]
    <3>1. RefreshedFrom(lab, w.dev, d, w.dev[d], Refreshed(lab, w.dev)[d])
      BY <2>1, RefreshedDevices
    <3> QED
      BY <3>1 DEF dev, RefreshedFrom
  <2>3. ASSUME NEW p \in DOMAIN x.if PROVE y.if[p] = x.if[p]
    <3>1. IfOk(x.if[p])
      BY <2>1 DEF DeviceOk
    <3>2. Proto(lab, w.dev, d, p) = x.if[p].proto
      <4>1. CASE LabPeers(lab, d, p) = {}
        BY <4>1 DEF Proto
      <4>2. ASSUME NEW e \in LabPeers(lab, d, p) PROVE Proto(lab, w.dev, d, p) = x.if[p].proto
        <5>1. x.if[p].proto <=> (x.if[p].admin /\ w.dev[e[1]].if[e[2]].admin)
          BY <1>1 DEF LinksRight
        <5>2. Proto(lab, w.dev, d, p) <=> (x.if[p].admin /\ w.dev[e[1]].if[e[2]].admin)
          BY OnePeer DEF Proto
        <5>3. x.if[p].proto \in BOOLEAN /\ Proto(lab, w.dev, d, p) \in BOOLEAN
          BY <3>1 DEF Proto, IfOk
        <5> QED
          BY <5>1, <5>2, <5>3
      <4> QED
        BY <4>1, <4>2
    <3>3. y.if[p] = [x.if[p] EXCEPT !.proto = x.if[p].proto]
      BY <2>2, <3>2
    <3> HIDE DEF x, y
    <3> QED
      BY <3>1, <3>3 DEF IfOk
  <2>4. y.if = x.if
    <3>1. y.if = [p \in DOMAIN y.if |-> y.if[p]] /\ x.if = [p \in DOMAIN x.if |-> x.if[p]]
      BY <2>1, <2>2 DEF DeviceOk
    <3> HIDE DEF x, y
    <3> QED
      BY <2>2, <2>3, <3>1
  <2> HIDE DEF x, y
  <2>5. y = [x EXCEPT !.if = x.if]
    BY <2>2, <2>4
  <2>6. y = x
    BY <2>1, <2>5 DEF DeviceOk
  <2> QED
    BY <2>6 DEF x, y
<1>3. dev = [d \in DOMAIN lab.role |-> dev[d]] /\ w.dev = [d \in DOMAIN lab.role |-> w.dev[d]]
  BY DEF WorldOk, Refreshed
<1> HIDE DEF dev
<1>4. dev = w.dev
  BY <1>2, <1>3
<1>5. RefreshLinkState(w) = [w EXCEPT !.dev = w.dev]
  BY <1>4, RefreshIs DEF dev
<1>6. w = [role |-> lab.role, links |-> lab.links, dev |-> w.dev, ospf |-> w.ospf, arp |-> w.arp]
  BY DEF WorldOk
<1> QED
  BY <1>5, <1>6

-----------------------------------------------------------------------------
(* Layer 2 is the same from either end.                                    *)

Flip(j) == <<j[2], j[1]>>

\* The topology of a world is that of the lab.
Wired(lab, w) == w.role = lab.role /\ w.links = lab.links /\ Devs(w) = DOMAIN lab.role

LEMMA JoinsAre ==
    ASSUME NEW lab \in Labs, NEW w, Wired(lab, w), NEW a, NEW b
    PROVE  /\ Joins(w, a, b) =
                {<<lab.links[i][2], lab.links[i][4]>> :
                    i \in {k \in DOMAIN lab.links : lab.links[k][1] = a /\ lab.links[k][3] = b}}
                \cup
                {<<lab.links[i][4], lab.links[i][2]>> :
                    i \in {k \in DOMAIN lab.links : lab.links[k][1] = b /\ lab.links[k][3] = a}}
           /\ \A j \in Joins(w, a, b) : j = <<j[1], j[2]>> /\ j[1] \in Nat /\ j[2] \in Nat
           /\ IsFiniteSet(Joins(w, a, b))
<1> DEFINE I == {k \in DOMAIN lab.links : lab.links[k][1] = a /\ lab.links[k][3] = b}
           J == {k \in DOMAIN lab.links : lab.links[k][1] = b /\ lab.links[k][3] = a}
           X == {<<lab.links[i][2], lab.links[i][4]>> : i \in I}
           Y == {<<lab.links[i][4], lab.links[i][2]>> : i \in J}
<1>1. LinkEnds(w) = {lab.links[i] : i \in DOMAIN lab.links}
  BY DEF Wired, LinkEnds, Links
<1>2. Joins(w, a, b) = X \cup Y
  BY <1>1 DEF Joins
<1>3. \A j \in X \cup Y : j = <<j[1], j[2]>> /\ j[1] \in Nat /\ j[2] \in Nat
  BY LinkShape
<1>4. IsFiniteSet(DOMAIN lab.links)
  <2>1. lab.links \in Seq(Nat \X Nat \X Nat \X Nat)
    BY LabAssumption DEF Labs, Numbered
  <2>2. DOMAIN lab.links = 1..Len(lab.links) /\ Len(lab.links) \in Nat
    BY <2>1
  <2>3. 1 \in Int /\ Len(lab.links) \in Int
    BY <2>2
  <2> QED
    BY <2>2, <2>3, FS_Interval
<1>5. IsFiniteSet(I) /\ IsFiniteSet(J)
  BY <1>4, FS_Subset
<1>6. IsFiniteSet(X) /\ IsFiniteSet(Y)
  <2> DEFINE f == [i \in I |-> <<lab.links[i][2], lab.links[i][4]>>]
             g == [i \in J |-> <<lab.links[i][4], lab.links[i][2]>>]
  <2>1. f \in Surjection(I, X) /\ g \in Surjection(J, Y)
    BY DEF Surjection
  <2> QED
    BY <1>5, <2>1, FS_Surjection
<1>7. IsFiniteSet(X \cup Y)
  BY <1>6, FS_Union
<1> QED
  BY <1>2, <1>3, <1>7

LEMMA JoinsFlip ==
    ASSUME NEW lab \in Labs, NEW w, Wired(lab, w), NEW a, NEW b, NEW j \in Joins(w, a, b)
    PROVE  Flip(j) \in Joins(w, b, a) /\ Flip(Flip(j)) = j
<1>1. j = <<j[1], j[2]>>
  BY JoinsAre
<1>2. CASE \E k \in DOMAIN lab.links : /\ lab.links[k][1] = a /\ lab.links[k][3] = b
                                       /\ j = <<lab.links[k][2], lab.links[k][4]>>
  <2>1. PICK k \in DOMAIN lab.links : /\ lab.links[k][1] = a /\ lab.links[k][3] = b
                                      /\ j = <<lab.links[k][2], lab.links[k][4]>>
    BY <1>2
  <2>2. Flip(j) = <<lab.links[k][4], lab.links[k][2]>>
    BY <2>1 DEF Flip
  <2> QED
    BY <1>1, <2>1, <2>2, JoinsAre DEF Flip
<1>3. CASE \E k \in DOMAIN lab.links : /\ lab.links[k][1] = b /\ lab.links[k][3] = a
                                       /\ j = <<lab.links[k][4], lab.links[k][2]>>
  <2>1. PICK k \in DOMAIN lab.links : /\ lab.links[k][1] = b /\ lab.links[k][3] = a
                                      /\ j = <<lab.links[k][4], lab.links[k][2]>>
    BY <1>3
  <2>2. Flip(j) = <<lab.links[k][2], lab.links[k][4]>>
    BY <2>1 DEF Flip
  <2> QED
    BY <1>1, <2>1, <2>2, JoinsAre DEF Flip
<1> QED
  BY <1>2, <1>3, JoinsAre

\* A port is an end of one of the links.
LEMMA JoinsApart ==
    ASSUME NEW lab \in Labs, NEW w, Wired(lab, w), NEW a, NEW b,
           NEW j \in Joins(w, a, b), NEW k \in Joins(w, a, b), j[1] = k[1]
    PROVE  j = k
<1>1. PICK m \in DOMAIN lab.links :
        \/ lab.links[m][1] = a /\ lab.links[m][3] = b /\ j = <<lab.links[m][2], lab.links[m][4]>>
        \/ lab.links[m][1] = b /\ lab.links[m][3] = a /\ j = <<lab.links[m][4], lab.links[m][2]>>
  BY JoinsAre
<1>2. PICK n \in DOMAIN lab.links :
        \/ lab.links[n][1] = a /\ lab.links[n][3] = b /\ k = <<lab.links[n][2], lab.links[n][4]>>
        \/ lab.links[n][1] = b /\ lab.links[n][3] = a /\ k = <<lab.links[n][4], lab.links[n][2]>>
  BY JoinsAre
<1>3. \/ m = n
      \/ lab.links[m][1] # lab.links[n][1]
  BY <1>1, <1>2, OneLink
<1>4. lab.links[m][1] # lab.links[m][3]
  BY LinkShape
<1> QED
  BY <1>1, <1>2, <1>3, <1>4, OneLink

LEMMA UnbundledFlip ==
    ASSUME NEW lab \in Labs, NEW w, Wired(lab, w), NEW a, NEW b, NEW j \in UnbundledPairs(w, a, b)
    PROVE  /\ Flip(j) \in UnbundledPairs(w, b, a) /\ Flip(Flip(j)) = j
           /\ PairForwarding(w, a, b, j) <=> PairForwarding(w, b, a, Flip(j))
<1>1. j \in Joins(w, a, b)
  BY DEF UnbundledPairs
<1>2. Flip(j) \in Joins(w, b, a) /\ Flip(Flip(j)) = j /\ Flip(j)[1] = j[2] /\ Flip(j)[2] = j[1]
  BY <1>1, JoinsFlip DEF Flip
<1>3. \/ IfOf(w, a, j[1]).chan = None
      \/ IfOf(w, a, j[1]).chan # IfOf(w, b, j[2]).chan
  BY DEF UnbundledPairs
<1>4. \/ IfOf(w, b, j[2]).chan = None
      \/ IfOf(w, b, j[2]).chan # IfOf(w, a, j[1]).chan
  BY <1>3
<1> QED
  BY <1>2, <1>4 DEF UnbundledPairs, PairForwarding

\* As many one way as the other.
LEMMA UnbundledCount ==
    ASSUME NEW lab \in Labs, NEW w, Wired(lab, w), NEW a, NEW b
    PROVE  Cardinality(UnbundledPairs(w, a, b)) = Cardinality(UnbundledPairs(w, b, a))
<1> DEFINE P == UnbundledPairs(w, a, b)
           Q == UnbundledPairs(w, b, a)
           f == [j \in P |-> Flip(j)]
<1>1. \A j \in P : Flip(j) \in Q /\ Flip(Flip(j)) = j
  BY UnbundledFlip
<1>2. \A j \in Q : Flip(j) \in P /\ Flip(Flip(j)) = j
  BY UnbundledFlip
<1>3. IsFiniteSet(P)
  <2>1. P \subseteq Joins(w, a, b)
    BY DEF UnbundledPairs
  <2> QED
    BY <2>1, JoinsAre, FS_Subset
<1> HIDE DEF P, Q
<1>4. f \in Bijection(P, Q)
  BY <1>1, <1>2 DEF Bijection, Injection, Surjection, IsInjective
<1> QED
  BY <1>3, <1>4, FS_Bijection DEF ExistsBijection, P, Q

\* The link that forwards between two switches.
LEMMA DirectOrdered ==
    ASSUME NEW lab \in Labs, NEW w, Wired(lab, w), NEW a \in Nat, NEW b \in Nat, a < b
    PROVE  DirectLinkUp(w, a, b) <=> DirectLinkUp(w, b, a)
<1> DEFINE P == UnbundledPairs(w, a, b)
           Q == UnbundledPairs(w, b, a)
           two == Role(w, a) = "switch" /\ Role(w, b) = "switch" /\ Cardinality(P) > 1
           First(i) == i \in P /\ \A k \in P : i[1] <= k[1]
           Last(i) == i \in Q /\ \A k \in Q : i[2] <= k[2]
<1>1. \A j \in P : /\ Flip(j) \in Q /\ Flip(Flip(j)) = j
                   /\ PairForwarding(w, a, b, j) <=> PairForwarding(w, b, a, Flip(j))
  BY UnbundledFlip
<1>2. \A j \in Q : /\ Flip(j) \in P /\ Flip(Flip(j)) = j
                   /\ PairForwarding(w, b, a, j) <=> PairForwarding(w, a, b, Flip(j))
  BY UnbundledFlip
<1>3. Cardinality(P) = Cardinality(Q)
  BY UnbundledCount
<1>4. /\ \A j \in P : j[1] \in Nat /\ Flip(j)[2] = j[1]
      /\ \A j \in Q : j[2] \in Nat /\ Flip(j)[1] = j[2]
      /\ \A j \in P, k \in P : j[1] = k[1] => j = k
  <2>1. P \subseteq Joins(w, a, b) /\ Q \subseteq Joins(w, b, a)
    BY DEF UnbundledPairs
  <2>2. \A j \in P, k \in P : j[1] = k[1] => j = k
    BY <2>1, JoinsApart
  <2>3. /\ \A j \in P : j[1] \in Nat
        /\ \A j \in Q : j[2] \in Nat
    BY <2>1, JoinsAre
  <2> QED
    BY <2>2, <2>3 DEF Flip
<1> DEFINE i == CHOOSE m \in P : \A k \in P : m[1] <= k[1]
           j == CHOOSE m \in Q : \A k \in Q : m[2] <= k[2]
<1>5. DirectLinkUp(w, a, b) <=>
        P # {} /\ IF two THEN PairForwarding(w, a, b, i)
                  ELSE \E k \in P : PairForwarding(w, a, b, k)
  <2>1. a <= b
    OBVIOUS
  <2> QED
    BY <2>1 DEF DirectLinkUp
<1>6. DirectLinkUp(w, b, a) <=>
        Q # {} /\ IF two THEN PairForwarding(w, b, a, j)
                  ELSE \E k \in Q : PairForwarding(w, b, a, k)
  <2>1. ~(b <= a)
    OBVIOUS
  <2> QED
    BY <1>3, <2>1 DEF DirectLinkUp
<1>7. P # {} <=> Q # {}
  BY <1>1, <1>2
<1>8. (\E k \in P : PairForwarding(w, a, b, k)) <=> (\E k \in Q : PairForwarding(w, b, a, k))
  BY <1>1, <1>2
<1>9. ASSUME P # {} PROVE j = Flip(i) /\ i \in P
  <2> HIDE DEF P, Q
  <2>1. \E k \in P : \A m \in P : k[1] <= m[1]
    <3> DEFINE S == {k[1] : k \in P}
    <3>1. S \subseteq Nat /\ S # {}
      BY <1>4, <1>9
    <3>2. PICK l \in S : \A m \in S : l <= m
      <4> HIDE DEF S
      <4> QED
        BY <3>1, SmallestNumber
    <3> QED
      BY <3>2
  <2>2. i \in P /\ \A k \in P : i[1] <= k[1]
    BY <2>1
  <2> HIDE DEF i
  <2>3. Flip(i) \in Q /\ \A k \in Q : Flip(i)[2] <= k[2]
    BY <1>1, <1>2, <1>4, <2>2
  <2>4. j \in Q /\ \A k \in Q : j[2] <= k[2]
    BY <2>3
  <2> HIDE DEF j
  <2>5. Flip(j) \in P /\ Flip(j)[1] = j[2] /\ Flip(i)[2] = i[1]
    BY <1>2, <1>4, <2>2, <2>4
  <2>6. j[2] <= i[1] /\ i[1] <= j[2] /\ i[1] \in Nat /\ j[2] \in Nat
    BY <1>4, <2>2, <2>3, <2>4, <2>5
  <2>7. Flip(j) = i
    BY <1>4, <2>2, <2>5, <2>6
  <2> QED
    BY <1>2, <2>2, <2>4, <2>7
<1> HIDE DEF P, Q, i, j, two
<1> QED
  BY <1>1, <1>5, <1>6, <1>7, <1>8, <1>9

LEMMA ChannelFlip ==
    ASSUME NEW lab \in Labs, NEW w, Wired(lab, w), NEW a, NEW b, ChannelUp(w, a, b)
    PROVE  ChannelUp(w, b, a)
<1> DEFINE groups(d, k) == {IfOf(w, d, j[k]).chan :
              j \in {i \in Joins(w, a, b) : MemberForwarding(IfOf(w, d, i[k]))}}
           groupz(d, k) == {IfOf(w, d, j[k]).chan :
              j \in {i \in Joins(w, b, a) : MemberForwarding(IfOf(w, d, i[k]))}}
<1>1. (groups(a, 1) \cap groups(b, 2)) \ {None} # {}
  BY DEF ChannelUp
<1>2. PICK c : c \in groups(a, 1) /\ c \in groups(b, 2) /\ c # None
  BY <1>1
<1>3. c \in groupz(a, 2)
  <2>1. PICK j \in Joins(w, a, b) : MemberForwarding(IfOf(w, a, j[1])) /\ c = IfOf(w, a, j[1]).chan
    BY <1>2
  <2>2. Flip(j) \in Joins(w, b, a) /\ Flip(j)[2] = j[1]
    BY JoinsFlip DEF Flip
  <2> QED
    BY <2>1, <2>2
<1>4. c \in groupz(b, 1)
  <2>1. PICK j \in Joins(w, a, b) : MemberForwarding(IfOf(w, b, j[2])) /\ c = IfOf(w, b, j[2]).chan
    BY <1>2
  <2>2. Flip(j) \in Joins(w, b, a) /\ Flip(j)[1] = j[2]
    BY JoinsFlip DEF Flip
  <2> QED
    BY <2>1, <2>2
<1>5. (groupz(b, 1) \cap groupz(a, 2)) \ {None} # {}
  BY <1>2, <1>3, <1>4
<1> QED
  BY <1>5 DEF ChannelUp

LEMMA LinkUpFlip ==
    ASSUME NEW lab \in Labs, NEW w, Wired(lab, w), NEW a \in Devs(w), NEW b \in Devs(w),
           L2LinkUp(w, a, b)
    PROVE  L2LinkUp(w, b, a)
<1>1. a \in Nat /\ b \in Nat
  <2>1. lab.role \in Seq(Roles)
    BY LabAssumption DEF Labs, Numbered
  <2>2. DOMAIN lab.role = 1..Len(lab.role)
    BY <2>1
  <2> QED
    BY <2>2 DEF Wired
<1>2. CASE ChannelUp(w, a, b)
  BY <1>2, ChannelFlip DEF L2LinkUp
<1>3. CASE DirectLinkUp(w, a, b)
  <2>1. a = b \/ a < b \/ b < a
    BY <1>1
  <2>2. DirectLinkUp(w, b, a)
    BY <1>1, <1>3, <2>1, DirectOrdered
  <2> QED
    BY <2>2 DEF L2LinkUp
<1> QED
  BY <1>2, <1>3 DEF L2LinkUp

LEMMA AdjacentFlip ==
    ASSUME NEW lab \in Labs, NEW w, Wired(lab, w), NEW a \in Devs(w), NEW b \in Devs(w),
           <<a, b>> \in Adjacent(w)
    PROVE  <<b, a>> \in Adjacent(w)
<1> DEFINE up == {x \in Devs(w) \X Devs(w) : L2LinkUp(w, x[1], x[2])}
           Bridges(m, n, c, d) == ShareVlan(Toward(w, m, c), Toward(w, n, d))
           via(c, d) == \E m, n \in Switches(w) \ {c, d} :
                           /\ <<c, m>> \in up /\ <<n, d>> \in up
                           /\ m = n \/ <<m, n>> \in up
                           /\ Bridges(m, n, c, d)
<1>1. \A c, d \in Devs(w) : <<c, d>> \in Adjacent(w) <=> c = d \/ <<c, d>> \in up \/ via(c, d)
  <2>1. Adjacent(w) = {x \in Devs(w) \X Devs(w) : x[1] = x[2] \/ x \in up \/ via(x[1], x[2])}
    BY DEF Adjacent
  <2> HIDE DEF up, via
  <2> QED
    BY <2>1
<1>2. \A c, d \in Devs(w) : <<c, d>> \in up => <<d, c>> \in up
  BY LinkUpFlip
<1>3. via(a, b) => via(b, a)
  <2> SUFFICES ASSUME NEW m \in Switches(w) \ {a, b}, NEW n \in Switches(w) \ {a, b},
                      <<a, m>> \in up, <<n, b>> \in up, m = n \/ <<m, n>> \in up, Bridges(m, n, a, b)
               PROVE  via(b, a)
    OBVIOUS
  <2>1. m \in Devs(w) /\ n \in Devs(w)
    BY DEF Switches
  <2> HIDE DEF up
  <2>2. <<b, n>> \in up /\ <<m, a>> \in up /\ (n = m \/ <<n, m>> \in up)
    BY <1>2, <2>1
  <2>3. Bridges(n, m, b, a)
    BY DEF ShareVlan
  <2> HIDE DEF Bridges
  <2> QED
    BY <2>2, <2>3
<1> HIDE DEF up, via
<1> QED
  BY <1>1, <1>2, <1>3

-----------------------------------------------------------------------------
(* The shell: its mode and its contexts.                                   *)

ShellShape(s) ==
    s = [mode |-> s.mode, if |-> s.if, vlan |-> s.vlan, line |-> s.line,
         router |-> s.router, dhcp |-> s.dhcp, term |-> s.term, more |-> s.more]

ShellOk(s) == ShellShape(s) /\ s.mode \in Modes /\ CtxOnlyIn(s) /\ s.term \in Nat

\* The contexts of t are those of s, or gone.
FewerContexts(s, t) ==
    /\ t.if \in {s.if, None} /\ t.vlan \in {s.vlan, None} /\ t.line \in {s.line, ""}
    /\ t.router \in {s.router, ""} /\ t.dhcp \in {s.dhcp, ""} /\ t.term = s.term

LEMMA ResolveIn ==
    ASSUME NEW tok, NEW mode PROVE Resolve(tok, mode) \in Commands(mode) \cup {"", "?"}
<1> DEFINE hits == {c \in Commands(mode) : c \in DOMAIN Abbrevs /\ tok \in Abbrevs[c]}
<1>1. ASSUME Cardinality(hits) = 1 PROVE (CHOOSE c \in hits : TRUE) \in Commands(mode)
  <2>1. hits # {}
    <3> SUFFICES ASSUME hits = {} PROVE FALSE
      OBVIOUS
    <3>1. Cardinality({}) = 0
      BY FS_EmptySet
    <3> QED
      BY <1>1, <3>1
  <2> QED
    BY <2>1
<1> QED
  BY <1>1 DEF Resolve

\* The commands that leave the shell alone.
LEMMA QuietCommands ==
    ASSUME NEW w, NEW d, NEW s, NEW l, NEW c
    PROVE  /\ CmdWrite(w, d, s).s = s /\ CmdShow(w, d, s, l).s = s
           /\ CmdPing(w, d, s, l).s = s /\ CmdVlanName(w, d, s, l).s = s
           /\ CmdAccessList(w, d, s, l).s = s /\ CmdRouterNetwork(w, d, s, l).s = s
           /\ CmdIpv6Global(w, d, s, l).s = s
           /\ CmdDhcp(w, d, s, c, l).s = s /\ CmdIf(w, d, s, c, l).s = s
<1>1. \A v, out : Result(v, s, out).s = s /\ Refused(v, s).s = s
  BY DEF Result, Refused
<1>2. CmdShow(w, d, s, l).s = s
  BY <1>1 DEF CmdShow
<1>3. CmdWrite(w, d, s).s = s /\ CmdPing(w, d, s, l).s = s /\ CmdVlanName(w, d, s, l).s = s
      /\ CmdAccessList(w, d, s, l).s = s /\ CmdRouterNetwork(w, d, s, l).s = s
      /\ CmdIpv6Global(w, d, s, l).s = s
  BY <1>1 DEF CmdWrite, CmdPing, CmdVlanName, CmdAccessList, CmdRouterNetwork, CmdIpv6Global
<1>4. CmdDhcp(w, d, s, c, l).s = s /\ CmdIf(w, d, s, c, l).s = s
  BY <1>1 DEF CmdDhcp, CmdIf
<1> QED
  BY <1>2, <1>3, <1>4

\* The other commands, each with the shell it leaves.
InPort(s, p) == [s EXCEPT !.if = p, !.vlan = None, !.mode = "config-if"]
InVlan(s, v) == [s EXCEPT !.vlan = v, !.mode = "config-vlan"]
InPool(s, name) == [s EXCEPT !.dhcp = name, !.mode = "config-dhcp"]
InRouter(s, proto) == [s EXCEPT !.router = proto, !.mode = "config-router"]
InLine(s, line) == [s EXCEPT !.line = line, !.mode = "config-line"]
InMode(s, mode) == [s EXCEPT !.mode = mode]
NoContext(s) == [s EXCEPT !.mode = "enable", !.if = None, !.vlan = None, !.line = "",
                          !.router = "", !.dhcp = ""]

LEMMA AfterInterface ==
    ASSUME NEW w, NEW d, NEW s, NEW l
    PROVE  CmdInterface(w, d, s, l).s = s \/ \E p : CmdInterface(w, d, s, l).s = InPort(s, p)
  BY DEF CmdInterface, Result, Refused, InPort

LEMMA AfterVlan ==
    ASSUME NEW w, NEW d, NEW s, NEW l
    PROVE  CmdVlan(w, d, s, l).s = s \/ \E v : CmdVlan(w, d, s, l).s = InVlan(s, v)
  BY DEF CmdVlan, Result, Refused, InVlan

LEMMA AfterIpGlobal ==
    ASSUME NEW w, NEW d, NEW s, NEW l
    PROVE  CmdIpGlobal(w, d, s, l).s = s \/ \E name : CmdIpGlobal(w, d, s, l).s = InPool(s, name)
<1>1. EnterPool(w, d, s, l.name).s = InPool(s, l.name)
  BY DEF EnterPool, Result, InPool
<1> QED
  BY <1>1 DEF CmdIpGlobal, Result, Refused

LEMMA AfterRouter ==
    ASSUME NEW w, NEW d, NEW s, NEW l
    PROVE  CmdRouter(w, d, s, l).s = s \/ \E proto : CmdRouter(w, d, s, l).s = InRouter(s, proto)
  BY DEF CmdRouter, Result, Refused, InRouter

LEMMA AfterExit ==
    ASSUME NEW w, NEW s, NEW r, r = CmdExit(w, s), ShellOk(s)
    PROVE  ShellOk(r.s)
<1>2. CASE s.mode = "config-if"
  <2>1. r.s = [s EXCEPT !.mode = "config", !.if = None]
    BY <1>2 DEF CmdExit, Result
  <2> QED
    BY <1>2, <2>1 DEF ShellOk, ShellShape, CtxOnlyIn, Modes
<1>3. CASE s.mode = "config-vlan"
  <2>1. r.s = [s EXCEPT !.mode = "config", !.vlan = None]
    BY <1>3 DEF CmdExit, Result
  <2> QED
    BY <1>3, <2>1 DEF ShellOk, ShellShape, CtxOnlyIn, Modes
<1>4. CASE s.mode = "config-line"
  <2>1. r.s = [s EXCEPT !.mode = "config", !.line = ""]
    BY <1>4 DEF CmdExit, Result
  <2> QED
    BY <1>4, <2>1 DEF ShellOk, ShellShape, CtxOnlyIn, Modes
<1>5. CASE s.mode = "config-router"
  <2>1. r.s = [s EXCEPT !.mode = "config", !.router = ""]
    BY <1>5 DEF CmdExit, Result
  <2> QED
    BY <1>5, <2>1 DEF ShellOk, ShellShape, CtxOnlyIn, Modes
<1>6. CASE s.mode = "config-dhcp"
  <2>1. r.s = [s EXCEPT !.mode = "config", !.dhcp = ""]
    BY <1>6 DEF CmdExit, Result
  <2> QED
    BY <1>6, <2>1 DEF ShellOk, ShellShape, CtxOnlyIn, Modes
<1>7. CASE s.mode \in {"user", "enable", "config"}
  <2>1. r.s = s \/ r.s = [s EXCEPT !.mode = "user"] \/ r.s = [s EXCEPT !.mode = "enable"]
    BY <1>7 DEF CmdExit, Result, Refused
  <2> QED
    BY <1>7, <2>1 DEF ShellOk, ShellShape, CtxOnlyIn, Modes
<1> QED
  BY <1>2, <1>3, <1>4, <1>5, <1>6, <1>7 DEF ShellOk, Modes

LEMMA QuietResults ==
    ASSUME NEW s PROVE \A v, out : Result(v, s, out).s = s /\ Refused(v, s).s = s
  BY DEF Result, Refused

LEMMA RunShellOk ==
    ASSUME NEW w, NEW d, NEW s, ShellOk(s), NEW l, NEW c, c \in Commands(s.mode) \cup {"", "?"},
           c = "terminal" /\ l.sub = "length" => l.n \in Nat, NEW r, r = Run(w, d, s, c, l)
    PROVE  ShellOk(r.s)
<1>1. CASE c = "enable"
  <2>1. s.mode = "user"
    BY <1>1 DEF ShellOk, Modes, Commands
  <2>2. r.s = InMode(s, "enable")
    BY <1>1 DEF Run, IfCommands, SwitchOnly, Result, InMode
  <2> QED
    BY <2>1, <2>2 DEF InMode, ShellOk, ShellShape, CtxOnlyIn, Modes
<1>2. CASE c = "disable"
  <2>1. s.mode = "enable"
    BY <1>2 DEF ShellOk, Modes, Commands
  <2>2. r.s = InMode(s, "user")
    BY <1>2 DEF Run, IfCommands, SwitchOnly, Result, InMode
  <2> QED
    BY <2>1, <2>2 DEF InMode, ShellOk, ShellShape, CtxOnlyIn, Modes
<1>3. CASE c = "configure"
  <2>1. s.mode = "enable"
    BY <1>3 DEF ShellOk, Modes, Commands
  <2>2. r.s = s \/ r.s = InMode(s, "config")
    BY <1>3 DEF Run, IfCommands, SwitchOnly, Result, Refused, InMode
  <2> QED
    BY <2>1, <2>2 DEF InMode, ShellOk, ShellShape, CtxOnlyIn, Modes
<1>4. CASE c = "exit"
  <2>1. r = CmdExit(w, s)
    BY <1>4 DEF Run, IfCommands, SwitchOnly
  <2> QED
    BY <2>1, AfterExit
<1>5. CASE c = "end"
  <2>1. r.s = NoContext(s)
    BY <1>5 DEF Run, IfCommands, SwitchOnly, CmdEnd, Result, NoContext
  <2> QED
    BY <2>1 DEF NoContext, ShellOk, ShellShape, CtxOnlyIn, Modes
<1>6. CASE c = "terminal"
  <2>1. r = CmdTerminal(w, s, l)
    BY <1>6 DEF Run, IfCommands, SwitchOnly
  <2>2. r.s = s \/ (r.s = [s EXCEPT !.term = l.n, !.more = 0] /\ l.sub = "length")
    BY ONLY <2>1 DEF CmdTerminal, Result, Refused
  <2> QED
    BY <1>6, <2>2 DEF ShellOk, ShellShape, CtxOnlyIn, Modes
<1>7. CASE c = "interface"
  <2>1. r = CmdInterface(w, d, s, l)
    BY <1>7 DEF Run, IfCommands, SwitchOnly
  <2>2. s.mode \in {"config", "config-if", "config-vlan"}
    BY <1>7 DEF ShellOk, Modes, Commands
  <2>3. r.s = s \/ \E p : r.s = InPort(s, p)
    BY <2>1, AfterInterface
  <2> QED
    BY <2>2, <2>3 DEF InPort, ShellOk, ShellShape, CtxOnlyIn, Modes
<1>8. CASE c = "vlan"
  <2>1. r = CmdVlan(w, d, s, l)
    BY <1>8 DEF Run, IfCommands, SwitchOnly
  <2>2. s.mode \in {"config", "config-vlan"}
    BY <1>8 DEF ShellOk, Modes, Commands
  <2>3. r.s = s \/ \E v : r.s = InVlan(s, v)
    BY <2>1, AfterVlan
  <2> QED
    BY <2>2, <2>3 DEF InVlan, ShellOk, ShellShape, CtxOnlyIn, Modes
<1>9. CASE c = "router"
  <2>1. r = CmdRouter(w, d, s, l)
    BY <1>9 DEF Run, IfCommands, SwitchOnly
  <2>2. s.mode = "config"
    BY <1>9 DEF ShellOk, Modes, Commands
  <2>3. r.s = s \/ \E proto : r.s = InRouter(s, proto)
    BY <2>1, AfterRouter
  <2> QED
    BY <2>2, <2>3 DEF InRouter, ShellOk, ShellShape, CtxOnlyIn, Modes
<1>10. CASE c = "line"
  <2>1. r.s = s \/ r.s = InLine(s, l.sub)
    BY <1>10 DEF Run, IfCommands, SwitchOnly, Result, Refused, InLine
  <2>2. s.mode = "config"
    BY <1>10 DEF ShellOk, Modes, Commands
  <2> QED
    BY <2>1, <2>2 DEF InLine, ShellOk, ShellShape, CtxOnlyIn, Modes
<1>11. CASE c = "ip" /\ s.mode = "config"
  <2>1. r = CmdIpGlobal(w, d, s, l)
    BY <1>11 DEF Run, IfCommands, SwitchOnly
  <2>2. r.s = s \/ \E name : r.s = InPool(s, name)
    BY <2>1, AfterIpGlobal
  <2> QED
    BY <1>11, <2>2 DEF InPool, ShellOk, ShellShape, CtxOnlyIn, Modes
<1>12. CASE c \notin {"enable", "disable", "configure", "exit", "end", "terminal", "interface",
                      "vlan", "router", "line"} /\ ~(c = "ip" /\ s.mode = "config")
  <2>1. \/ r \in {Refused(w, s), CmdShow(w, d, s, l), CmdPing(w, d, s, l), CmdWrite(w, d, s),
                  Result(Converge(w), s, 5), Result(w, s, Cardinality(Commands(s.mode)) + 2),
                  Result(w, s, 3), Result(w, s, 2),
                  Result([w EXCEPT !.dev[d].hostname = l.sub], s, 0), CmdVlanName(w, d, s, l),
                  CmdAccessList(w, d, s, l), CmdRouterNetwork(w, d, s, l), CmdIpv6Global(w, d, s, l)}
        \/ r = CmdDhcp(w, d, s, c, l)
        \/ r = CmdIf(w, d, s, c, l)
    BY <1>12 DEF Run, IfCommands, SwitchOnly
  <2>2. /\ CmdWrite(w, d, s).s = s /\ CmdShow(w, d, s, l).s = s
        /\ CmdPing(w, d, s, l).s = s /\ CmdVlanName(w, d, s, l).s = s
        /\ CmdAccessList(w, d, s, l).s = s /\ CmdRouterNetwork(w, d, s, l).s = s
        /\ CmdIpv6Global(w, d, s, l).s = s
        /\ CmdDhcp(w, d, s, c, l).s = s /\ CmdIf(w, d, s, c, l).s = s
    BY ONLY QuietCommands
  <2>3. /\ Result(Converge(w), s, 5).s = s /\ Refused(w, s).s = s
        /\ Result(w, s, Cardinality(Commands(s.mode)) + 2).s = s
        /\ Result(w, s, 3).s = s /\ Result(w, s, 2).s = s
        /\ Result([w EXCEPT !.dev[d].hostname = l.sub], s, 0).s = s
    BY ONLY QuietResults
  <2>4. r.s = s
    BY ONLY <2>1, <2>2, <2>3
  <2> QED
    BY <2>4
<1> QED
  BY <1>1, <1>2, <1>3, <1>4, <1>5, <1>6, <1>7, <1>8, <1>9, <1>10, <1>11, <1>12

\* What a command leaves has the three parts the callers take.
IsResult(r) == r = Result(r.w, r.s, r.out)

LEMMA ResultIs ==
    \A w, s, out : IsResult(Result(w, s, out)) /\ IsResult(Refused(w, s))
  BY DEF IsResult, Result, Refused

LEMMA CommandResults ==
    ASSUME NEW w, NEW d, NEW s, NEW l, NEW c, s.mode \in Modes
    PROVE  /\ IsResult(CmdExit(w, s)) /\ IsResult(CmdEnd(w, s)) /\ IsResult(CmdTerminal(w, s, l))
           /\ IsResult(CmdWrite(w, d, s)) /\ IsResult(CmdShow(w, d, s, l))
           /\ IsResult(CmdPing(w, d, s, l)) /\ IsResult(CmdVlanName(w, d, s, l))
           /\ IsResult(CmdInterface(w, d, s, l)) /\ IsResult(CmdVlan(w, d, s, l))
           /\ IsResult(CmdIpGlobal(w, d, s, l)) /\ IsResult(CmdRouter(w, d, s, l))
           /\ IsResult(CmdAccessList(w, d, s, l)) /\ IsResult(CmdRouterNetwork(w, d, s, l))
           /\ IsResult(CmdIpv6Global(w, d, s, l))
           /\ IsResult(CmdDhcp(w, d, s, c, l)) /\ IsResult(CmdIf(w, d, s, c, l))
<1>1. IsResult(CmdExit(w, s))
  BY ResultIs DEF CmdExit, Modes
<1>2. IsResult(CmdEnd(w, s)) /\ IsResult(CmdTerminal(w, s, l))
  BY ResultIs DEF CmdEnd, CmdTerminal
<1>3. IsResult(CmdWrite(w, d, s)) /\ IsResult(CmdPing(w, d, s, l)) /\ IsResult(CmdVlanName(w, d, s, l))
  BY ResultIs DEF CmdWrite, CmdPing, CmdVlanName
<1>4. IsResult(CmdShow(w, d, s, l))
  BY ResultIs DEF CmdShow
<1>5. IsResult(CmdInterface(w, d, s, l)) /\ IsResult(CmdVlan(w, d, s, l)) /\ IsResult(CmdRouter(w, d, s, l))
  BY ResultIs DEF CmdInterface, CmdVlan, CmdRouter
<1>6. IsResult(CmdIpGlobal(w, d, s, l))
  BY ResultIs DEF CmdIpGlobal, EnterPool
<1>7. IsResult(CmdAccessList(w, d, s, l)) /\ IsResult(CmdRouterNetwork(w, d, s, l))
      /\ IsResult(CmdIpv6Global(w, d, s, l))
  BY ResultIs DEF CmdAccessList, CmdRouterNetwork, CmdIpv6Global
<1>8. IsResult(CmdDhcp(w, d, s, c, l)) /\ IsResult(CmdIf(w, d, s, c, l))
  BY ResultIs DEF CmdDhcp, CmdIf
<1> QED
  BY <1>1, <1>2, <1>3, <1>4, <1>5, <1>6, <1>7, <1>8

LEMMA RunResult ==
    ASSUME NEW w, NEW d, NEW s, NEW l, NEW c, s.mode \in Modes
    PROVE  IsResult(Run(w, d, s, c, l))
  BY ResultIs, CommandResults DEF Run, IfCommands, SwitchOnly

\* What `do' runs leaves the contexts or clears them.
LEMMA DoingShell ==
    ASSUME NEW w, NEW d, NEW s, ShellShape(s), s.mode = "enable", NEW l,
           NEW c, c \in Commands("enable") \cup {"", "?"}, NEW r, r = Run(w, d, s, c, l)
    PROVE  ShellShape(r.s) /\ FewerContexts(s, r.s)
<1>1. c \in {"disable", "exit", "end", "configure", "show", "ping", "traceroute", "write", "copy",
             "clear", "reload", "help", "", "?"}
  BY DEF Commands
<1>2. CASE c = "end"
  <2>1. r.s = NoContext(s)
    BY <1>2 DEF Run, IfCommands, SwitchOnly, CmdEnd, Result, NoContext
  <2> QED
    BY <2>1 DEF NoContext, ShellShape, FewerContexts
<1>3. CASE c \in {"exit", "disable", "configure"}
  <2>1. CASE c = "exit"
    <3>1. r = CmdExit(w, s)
      BY <2>1 DEF Run, IfCommands, SwitchOnly
    <3>2. r.s = InMode(s, "user")
      BY ONLY <3>1, s.mode = "enable" DEF CmdExit, Result, InMode
    <3> QED
      BY <3>2 DEF InMode, ShellShape, FewerContexts
  <2>2. CASE c \in {"disable", "configure"}
    <3>1. r.s = s \/ r.s = InMode(s, "user") \/ r.s = InMode(s, "config")
      BY <2>2 DEF Run, IfCommands, SwitchOnly, Result, Refused, InMode
    <3> QED
      BY <3>1 DEF InMode, ShellShape, FewerContexts
  <2> QED
    BY <1>3, <2>1, <2>2
<1>4. CASE c \notin {"end", "exit", "disable", "configure"}
  <2>1. r \in {Refused(w, s), CmdShow(w, d, s, l), CmdPing(w, d, s, l), CmdWrite(w, d, s),
               Result(Converge(w), s, 5), Result(w, s, Cardinality(Commands(s.mode)) + 2),
               Result(w, s, 3), Result(w, s, 2)}
    BY <1>1, <1>4 DEF Run, IfCommands, SwitchOnly
  <2>2. /\ CmdWrite(w, d, s).s = s /\ CmdShow(w, d, s, l).s = s
        /\ CmdPing(w, d, s, l).s = s /\ CmdVlanName(w, d, s, l).s = s
        /\ CmdAccessList(w, d, s, l).s = s /\ CmdRouterNetwork(w, d, s, l).s = s
        /\ CmdIpv6Global(w, d, s, l).s = s
        /\ CmdDhcp(w, d, s, c, l).s = s /\ CmdIf(w, d, s, c, l).s = s
    BY ONLY QuietCommands
  <2>3. /\ Result(Converge(w), s, 5).s = s /\ Refused(w, s).s = s
        /\ Result(w, s, Cardinality(Commands(s.mode)) + 2).s = s
        /\ Result(w, s, 3).s = s /\ Result(w, s, 2).s = s
    BY ONLY QuietResults
  <2>4. r.s = s
    BY ONLY <2>1, <2>2, <2>3
  <2> QED
    BY <2>4 DEF FewerContexts
<1> QED
  BY <1>2, <1>3, <1>4

LEMMA DispatchShellOk ==
    ASSUME NEW w, NEW d, NEW s, ShellOk(s), NEW l, LineOk(l), NEW r, r = Dispatch(w, d, s, l)
    PROVE  ShellOk(r.s) /\ IsResult(r)
<1> DEFINE doing == Resolve(l.tok, s.mode) = "do"
           line == IF doing /\ l.sub # "" THEN l.line ELSE l
           t == IF doing THEN [s EXCEPT !.mode = "enable"] ELSE s
           c == Resolve(line.tok, t.mode)
           q == Run(w, d, t, c, line)
<1>0. s.mode \in Modes /\ ShellShape(s) /\ CtxOnlyIn(s)
  BY DEF ShellOk
<1>4. s.term \in Nat
  BY DEF ShellOk
<1>1. CASE doing /\ l.sub = ""
  <2>1. r = Refused(w, s)
    BY <1>1 DEF Dispatch
  <2>2. r.s = s /\ IsResult(r)
    BY <2>1, ResultIs DEF Refused, Result
  <2> QED
    BY <2>2
<1>2. CASE doing /\ l.sub # ""
  <2>1. r = [q EXCEPT !.s.mode = s.mode]
    BY <1>2 DEF Dispatch, Restored
  <2>2. t = [s EXCEPT !.mode = "enable"]
    BY <1>2
  <2>3. ShellShape(t) /\ t.mode = "enable" /\ t.mode \in Modes
    BY <1>0, <2>2 DEF ShellShape, Modes
  <2>4. c \in Commands("enable") \cup {"", "?"}
    BY <2>3, ResolveIn
  <2>5. ShellShape(q.s) /\ FewerContexts(t, q.s)
    <3> HIDE DEF t, c, line
    <3> QED
      BY <2>3, <2>4, DoingShell
  <2>6. IsResult(q)
    <3> HIDE DEF t, c, line
    <3> QED
      BY <2>3, RunResult
  <2> HIDE DEF q, t
  <2>7. r = Result(q.w, [q.s EXCEPT !.mode = s.mode], q.out)
    BY <2>1, <2>6 DEF IsResult, Result
  <2>8. r.s = [q.s EXCEPT !.mode = s.mode] /\ IsResult(r)
    BY <2>7, ResultIs DEF Result
  <2>9. FewerContexts(s, q.s)
    BY <1>0, <2>2, <2>5 DEF FewerContexts, ShellShape
  <2>10. ShellOk(r.s)
    BY <1>0, <1>4, <2>5, <2>8, <2>9 DEF ShellOk, ShellShape, CtxOnlyIn, FewerContexts
  <2> QED
    BY <2>8, <2>10
<1>3. CASE ~doing
  <2>1. r = Run(w, d, s, Resolve(l.tok, s.mode), l)
    BY <1>3 DEF Dispatch, Restored
  <2>2. Resolve(l.tok, s.mode) \in Commands(s.mode) \cup {"", "?"}
    BY ResolveIn
  <2>5. Resolve(l.tok, s.mode) = "terminal" /\ l.sub = "length" => l.n \in Nat
    <3>1. Resolve(l.tok, s.mode) = "terminal" => s.mode = "user"
      BY <1>0, <2>2 DEF Commands, Modes
    <3> QED
      BY <3>1 DEF LineOk
  <2>3. ShellOk(r.s)
    BY <2>1, <2>2, <2>5, RunShellOk
  <2>4. IsResult(r)
    BY <1>0, <2>1, RunResult
  <2> QED
    BY <2>3, <2>4
<1> QED
  BY <1>1, <1>2, <1>3

\* A shell stays sound under every line.
LEMMA FeedShellOk ==
    ASSUME NEW w, NEW d, NEW s, ShellOk(s), NEW l, LineOk(l), NEW r, r = Feed(w, d, s, l)
    PROVE  ShellOk(r.s) /\ IsResult(r)
<1>1. CASE s.more > 0
  <2> DEFINE m == IF l.tok \in {"q", "quit"} \/ s.more <= s.term THEN 0 ELSE s.more - s.term
  <2>1. r = Result(w, [s EXCEPT !.more = m], 1)
    BY <1>1 DEF Feed, ShellOk, ShellShape
  <2> HIDE DEF m
  <2>2. r.s = [s EXCEPT !.more = m] /\ IsResult(r)
    BY <2>1, ResultIs DEF Result
  <2> QED
    BY <2>2 DEF ShellOk, ShellShape, CtxOnlyIn
<1>2. CASE ~(s.more > 0) /\ l = Blank
  <2>1. r = Result(w, s, 0)
    BY <1>2 DEF Feed
  <2>2. r.s = s /\ IsResult(r)
    BY <2>1, ResultIs DEF Result
  <2> QED
    BY <2>2
<1>3. CASE ~(s.more > 0) /\ l # Blank
  <2> DEFINE q == Dispatch(w, d, s, l)
  <2>1. r = HeldBack(q)
    BY <1>3 DEF Feed
  <2>2. ShellOk(q.s) /\ IsResult(q)
    BY DispatchShellOk
  <2> HIDE DEF q
  <2>3. r = q \/ r = Result(q.w, [q.s EXCEPT !.more = q.out - q.s.term], q.out)
    BY <2>1, <2>2 DEF HeldBack, IsResult, Result
  <2>4. CASE r = q
    BY <2>2, <2>4
  <2>5. CASE r = Result(q.w, [q.s EXCEPT !.more = q.out - q.s.term], q.out)
    <3>1. r.s = [q.s EXCEPT !.more = q.out - q.s.term] /\ IsResult(r)
      BY <2>5, ResultIs DEF Result
    <3> QED
      BY <2>2, <3>1 DEF ShellOk, ShellShape, CtxOnlyIn
  <2> QED
    BY <2>3, <2>4, <2>5
<1> QED
  BY <1>1, <1>2, <1>3

LEMMA NewShellOk == ShellOk(NewShell)
  BY PageAssumption DEF NewShell, ShellOk, ShellShape, CtxOnlyIn, Modes

-----------------------------------------------------------------------------
(* A change of one device that leaves its links alone.                     *)

Sound(lab, w) == WorldOk(lab, w) /\ LinkProtocolOf(w) /\ LeaseUniqueOf(w)

SetDev(w, d, y) == [w EXCEPT !.dev[d] = y]

KeepsLinks(x, y) ==
    /\ DeviceOk(y)
    /\ DOMAIN x.if \subseteq DOMAIN y.if
    /\ \A p \in DOMAIN x.if : y.if[p].admin = x.if[p].admin /\ y.if[p].proto = x.if[p].proto
    /\ y.leases = x.leases

LEMMA SetDevIs ==
    ASSUME NEW lab \in Labs, NEW w, WorldOk(lab, w), NEW d \in DOMAIN lab.role, NEW y
    PROVE  LET v == SetDev(w, d, y)
           IN  /\ v = [role |-> lab.role, links |-> lab.links, dev |-> [w.dev EXCEPT ![d] = y],
                       ospf |-> w.ospf, arp |-> w.arp]
               /\ v.dev = [e \in DOMAIN lab.role |-> v.dev[e]]
               /\ v.dev[d] = y
               /\ \A e \in DOMAIN lab.role : e # d => v.dev[e] = w.dev[e]
<1> DEFINE v == SetDev(w, d, y)
           dev == [w.dev EXCEPT ![d] = y]
<1>1. /\ w = [role |-> lab.role, links |-> lab.links, dev |-> w.dev, ospf |-> w.ospf, arp |-> w.arp]
      /\ w.dev = [e \in DOMAIN lab.role |-> w.dev[e]]
  BY DEF WorldOk
<1>2. v = [w EXCEPT !.dev = dev]
  BY DEF SetDev
<1>3. dev = [e \in DOMAIN lab.role |-> dev[e]] /\ dev[d] = y
      /\ \A e \in DOMAIN lab.role : e # d => dev[e] = w.dev[e]
  BY <1>1
<1> HIDE DEF v, dev
<1>4. v = [role |-> lab.role, links |-> lab.links, dev |-> dev, ospf |-> w.ospf, arp |-> w.arp]
  BY <1>1, <1>2
<1>5. v.dev = dev
  BY <1>4
<1> QED
  BY <1>3, <1>4, <1>5 DEF v, dev

LEMMA DeviceSet ==
    ASSUME NEW lab \in Labs, NEW w, WorldOk(lab, w), NEW d \in DOMAIN lab.role, NEW y,
           DeviceOk(y), DOMAIN w.dev[d].if \subseteq DOMAIN y.if,
           lab.role[d] = "pc" => DOMAIN y.if = DOMAIN w.dev[d].if,
           NEW v, v = SetDev(w, d, y)
    PROVE  /\ WorldOk(lab, v)
           /\ v.dev[d] = y
           /\ \A e \in DOMAIN lab.role : e # d => v.dev[e] = w.dev[e]
           /\ y.leases = w.dev[d].leases /\ LeaseUniqueOf(w) => LeaseUniqueOf(v)
<1>1. /\ v = [role |-> lab.role, links |-> lab.links, dev |-> v.dev, ospf |-> v.ospf, arp |-> v.arp]
      /\ v.dev = [e \in DOMAIN lab.role |-> v.dev[e]]
      /\ v.dev[d] = y
      /\ \A e \in DOMAIN lab.role : e # d => v.dev[e] = w.dev[e]
  BY SetDevIs
<1>2. \A e \in DOMAIN lab.role : DeviceOk(w.dev[e]) /\ PortsOk(lab, e, w.dev[e])
  BY WorldParts
<1>3. DeviceOk(y) /\ PortsOk(lab, d, y)
  BY <1>2 DEF PortsOk
<1>4. ASSUME NEW e \in DOMAIN lab.role PROVE DeviceOk(v.dev[e]) /\ PortsOk(lab, e, v.dev[e])
  <2>1. CASE e = d
    BY ONLY <1>1, <1>3, <2>1
  <2>2. CASE e # d
    BY ONLY <1>1, <1>2, <2>2, e \in DOMAIN lab.role
  <2> QED
    BY ONLY <2>1, <2>2
<1>5. WorldOk(lab, v)
  BY ONLY <1>1, <1>4 DEF WorldOk
<1>6. ASSUME y.leases = w.dev[d].leases, LeaseUniqueOf(w) PROVE LeaseUniqueOf(v)
  <2>1. \A e \in DOMAIN lab.role : v.dev[e].leases = w.dev[e].leases
    BY ONLY <1>1, <1>6
  <2>2. Devs(v) = DOMAIN lab.role /\ Devs(w) = DOMAIN lab.role
    BY <1>5, WorldParts
  <2>3. LeasesOf(v) = LeasesOf(w)
    BY <2>1, <2>2 DEF LeasesOf
  <2>4. \A x \in LeasesOf(w) : Leased(v, x) = Leased(w, x)
    BY <2>1, <2>2 DEF LeasesOf, Leased
  <2> QED
    BY <1>6, <2>3, <2>4 DEF LeaseUniqueOf
<1> QED
  BY <1>1, <1>5, <1>6

LEMMA OneDevice ==
    ASSUME NEW lab \in Labs, NEW w, Sound(lab, w), NEW d \in DOMAIN lab.role, NEW y,
           KeepsLinks(w.dev[d], y), lab.role[d] = "pc" => DOMAIN y.if = DOMAIN w.dev[d].if,
           NEW v, v = SetDev(w, d, y)
    PROVE  Sound(lab, v)
<1>1. WorldOk(lab, w) /\ LinkProtocolOf(w) /\ LeaseUniqueOf(w)
  BY DEF Sound
<1>2. /\ DeviceOk(y) /\ DOMAIN w.dev[d].if \subseteq DOMAIN y.if /\ y.leases = w.dev[d].leases
      /\ \A p \in DOMAIN w.dev[d].if :
            y.if[p].admin = w.dev[d].if[p].admin /\ y.if[p].proto = w.dev[d].if[p].proto
  BY DEF KeepsLinks
<1>3. /\ WorldOk(lab, v) /\ LeaseUniqueOf(v) /\ v.dev[d] = y
      /\ \A e \in DOMAIN lab.role : e # d => v.dev[e] = w.dev[e]
  BY <1>1, <1>2, DeviceSet
<1>4. ASSUME NEW e \in DOMAIN lab.role
      PROVE  /\ DOMAIN w.dev[e].if \subseteq DOMAIN v.dev[e].if
             /\ \A p \in DOMAIN w.dev[e].if : /\ v.dev[e].if[p].admin = w.dev[e].if[p].admin
                                              /\ v.dev[e].if[p].proto = w.dev[e].if[p].proto
  BY ONLY <1>2, <1>3, e \in DOMAIN lab.role
<1>5. \A e \in DOMAIN lab.role : PortsOk(lab, e, w.dev[e])
  BY <1>1, WorldParts
<1>6. LinkProtocolOf(v)
  <2>1. LinksRight(lab, w.dev)
    BY <1>1, ProtocolByLab
  <2>2. ASSUME NEW e \in DOMAIN lab.role, NEW p \in DOMAIN v.dev[e].if, NEW f \in LabPeers(lab, e, p)
        PROVE  v.dev[e].if[p].proto <=> (v.dev[e].if[p].admin /\ v.dev[f[1]].if[f[2]].admin)
    <3>1. f[1] \in DOMAIN lab.role /\ f[2] \in lab.ports[f[1]] /\ p \in lab.ports[e]
      BY PeersKnown
    <3>2. f[2] \in DOMAIN w.dev[f[1]].if /\ p \in DOMAIN w.dev[e].if
      BY <1>5, <3>1 DEF PortsOk
    <3>3. w.dev[e].if[p].proto <=> (w.dev[e].if[p].admin /\ w.dev[f[1]].if[f[2]].admin)
      BY <2>1, <3>2 DEF LinksRight
    <3> QED
      BY ONLY <1>4, <3>1, <3>2, <3>3, e \in DOMAIN lab.role
  <2>3. LinksRight(lab, v.dev)
    BY <2>2 DEF LinksRight
  <2> QED
    BY <1>3, <2>3, ProtocolByLab
<1> QED
  BY <1>3, <1>6 DEF Sound

\* What no link depends on may be anything.
LEMMA FieldChange ==
    ASSUME NEW x, DeviceOk(x), NEW e, NEW y,
           \/ y = [x EXCEPT !.hostname = e] \/ y = [x EXCEPT !.vlans = e]
           \/ y = [x EXCEPT !.routes = e] \/ y = [x EXCEPT !.globals = e]
           \/ y = [x EXCEPT !.startup = e] \/ y = [x EXCEPT !.nat = e]
           \/ y = [x EXCEPT !.gw = e]
    PROVE  KeepsLinks(x, y) /\ DOMAIN y.if = DOMAIN x.if
<1>1. x = [hostname |-> x.hostname, if |-> x.if, vlans |-> x.vlans, routes |-> x.routes,
            globals |-> x.globals, startup |-> x.startup, nat |-> x.nat, pools |-> x.pools,
            leases |-> x.leases, gw |-> x.gw]
  BY DEF DeviceOk
<1>2. /\ y = [hostname |-> y.hostname, if |-> y.if, vlans |-> y.vlans, routes |-> y.routes,
            globals |-> y.globals, startup |-> y.startup, nat |-> y.nat, pools |-> y.pools,
            leases |-> y.leases, gw |-> y.gw]
      /\ y.if = x.if /\ y.pools = x.pools /\ y.leases = x.leases
  BY <1>1
<1>3. DeviceOk(y)
  <2>1. DeviceOk(x)
    OBVIOUS
  <2> QED
    BY ONLY <1>2, <2>1 DEF DeviceOk
<1> QED
  BY <1>2, <1>3 DEF KeepsLinks

LEMMA PoolsChange ==
    ASSUME NEW x, DeviceOk(x), NEW q, IsSequence(q), \A i \in DOMAIN q : PoolOk(q[i]),
           NEW y, y = [x EXCEPT !.pools = q]
    PROVE  KeepsLinks(x, y) /\ DOMAIN y.if = DOMAIN x.if
<1>1. x = [hostname |-> x.hostname, if |-> x.if, vlans |-> x.vlans, routes |-> x.routes,
            globals |-> x.globals, startup |-> x.startup, nat |-> x.nat, pools |-> x.pools,
            leases |-> x.leases, gw |-> x.gw]
  BY DEF DeviceOk
<1>2. /\ y = [hostname |-> y.hostname, if |-> y.if, vlans |-> y.vlans, routes |-> y.routes,
            globals |-> y.globals, startup |-> y.startup, nat |-> y.nat, pools |-> y.pools,
            leases |-> y.leases, gw |-> y.gw]
      /\ y.if = x.if /\ y.pools = q /\ y.leases = x.leases
  BY <1>1
<1>3. DeviceOk(y)
  <2>1. DeviceOk(x) /\ IsSequence(q) /\ \A i \in DOMAIN q : PoolOk(q[i])
    OBVIOUS
  <2> QED
    BY ONLY <1>2, <2>1 DEF DeviceOk
<1> QED
  BY <1>2, <1>3 DEF KeepsLinks

\* A port changes but for its link, or a port without one is added.
LEMMA IfsChange ==
    ASSUME NEW x, DeviceOk(x), NEW ifs, ifs = [p \in DOMAIN ifs |-> ifs[p]],
           DOMAIN x.if \subseteq DOMAIN ifs, \A p \in DOMAIN ifs : IfOk(ifs[p]),
           \A p \in DOMAIN x.if : ifs[p].admin = x.if[p].admin /\ ifs[p].proto = x.if[p].proto,
           NEW y, y = [x EXCEPT !.if = ifs]
    PROVE  KeepsLinks(x, y) /\ DOMAIN y.if = DOMAIN ifs
<1>1. x = [hostname |-> x.hostname, if |-> x.if, vlans |-> x.vlans, routes |-> x.routes,
            globals |-> x.globals, startup |-> x.startup, nat |-> x.nat, pools |-> x.pools,
            leases |-> x.leases, gw |-> x.gw]
  BY DEF DeviceOk
<1>2. /\ y = [hostname |-> y.hostname, if |-> y.if, vlans |-> y.vlans, routes |-> y.routes,
            globals |-> y.globals, startup |-> y.startup, nat |-> y.nat, pools |-> y.pools,
            leases |-> y.leases, gw |-> y.gw]
      /\ y.if = ifs /\ y.pools = x.pools /\ y.leases = x.leases
  BY <1>1
<1>3. DeviceOk(y)
  <2>1. DeviceOk(x) /\ ifs = [p \in DOMAIN ifs |-> ifs[p]] /\ \A p \in DOMAIN ifs : IfOk(ifs[p])
    OBVIOUS
  <2> QED
    BY ONLY <1>2, <2>1 DEF DeviceOk
<1> QED
  BY <1>2, <1>3 DEF KeepsLinks

-----------------------------------------------------------------------------
(* The commands.                                                           *)

LEMMA Lists ==
    ASSUME NEW q, IsSequence(q)
    PROVE  /\ Len(q) \in Nat /\ DOMAIN q = 1..Len(q) /\ q = [i \in 1..Len(q) |-> q[i]]
  BY DEF IsSequence

LEMMA ListOf ==
    ASSUME NEW n \in Nat, NEW q, q = [i \in 1..n |-> q[i]]
    PROVE  IsSequence(q) /\ Len(q) = n /\ DOMAIN q = 1..n
<1>1. q \in Seq({q[i] : i \in DOMAIN q})
  BY q = [i \in 1..n |-> q[i]], DOMAIN q = 1..n, \A i \in DOMAIN q : q[i] \in {q[k] : k \in DOMAIN q}, n \in Nat
<1> QED
  BY <1>1 DEF IsSequence

LEMMA ListGrows ==
    ASSUME NEW q, IsSequence(q), NEW e
    PROVE  /\ IsSequence(Append(q, e)) /\ DOMAIN Append(q, e) = DOMAIN q \cup {Len(q) + 1}
           /\ Append(q, e)[Len(q) + 1] = e /\ \A i \in DOMAIN q : Append(q, e)[i] = q[i]
<1> DEFINE S == {q[i] : i \in DOMAIN q} \cup {e}
           r == Append(q, e)
<1>1. q \in Seq(S) /\ e \in S /\ DOMAIN q = 1..Len(q) /\ Len(q) \in Nat
  <2>1. q \in Seq({q[i] : i \in DOMAIN q})
    BY DEF IsSequence
  <2>2. {q[i] : i \in DOMAIN q} \subseteq S
    OBVIOUS
  <2> HIDE DEF S
  <2>3. q \in Seq(S)
    BY ONLY <2>1, <2>2
  <2> QED
    BY <2>3 DEF S
<1> HIDE DEF S
<1>2. r \in Seq(S) /\ Len(r) = Len(q) + 1 /\ r[Len(q) + 1] = e /\ \A i \in 1..Len(q) : r[i] = q[i]
  BY <1>1
<1> HIDE DEF r
<1>3. DOMAIN r = 1..Len(q) + 1 /\ r = [i \in 1..Len(q) + 1 |-> r[i]] /\ Len(q) + 1 \in Nat
  BY <1>1, <1>2
<1>4. IsSequence(r)
  BY <1>3, ListOf
<1>5. DOMAIN r = DOMAIN q \cup {Len(q) + 1}
  BY <1>1, <1>3
<1> QED
  BY <1>1, <1>2, <1>4, <1>5 DEF r

\* A command that changes what no link depends on.
LEMMA FieldStep ==
    ASSUME NEW lab \in Labs, NEW w, Sound(lab, w), NEW d \in DOMAIN lab.role, NEW y, NEW e,
           \/ y = [w.dev[d] EXCEPT !.hostname = e] \/ y = [w.dev[d] EXCEPT !.vlans = e]
           \/ y = [w.dev[d] EXCEPT !.routes = e] \/ y = [w.dev[d] EXCEPT !.globals = e]
           \/ y = [w.dev[d] EXCEPT !.startup = e] \/ y = [w.dev[d] EXCEPT !.nat = e]
           \/ y = [w.dev[d] EXCEPT !.gw = e],
           NEW v, v = SetDev(w, d, y)
    PROVE  Sound(lab, v)
<1>1. DeviceOk(w.dev[d])
  BY WorldParts DEF Sound
<1>2. KeepsLinks(w.dev[d], y) /\ DOMAIN y.if = DOMAIN w.dev[d].if
  BY <1>1, FieldChange
<1> QED
  BY <1>2, OneDevice

LEMMA PoolsStep ==
    ASSUME NEW lab \in Labs, NEW w, Sound(lab, w), NEW d \in DOMAIN lab.role,
           NEW q, IsSequence(q), \A i \in DOMAIN q : PoolOk(q[i]),
           NEW v, v = SetDev(w, d, [w.dev[d] EXCEPT !.pools = q])
    PROVE  Sound(lab, v)
<1> DEFINE y == [w.dev[d] EXCEPT !.pools = q]
<1>1. DeviceOk(w.dev[d])
  BY WorldParts DEF Sound
<1>2. v = SetDev(w, d, y)
  OBVIOUS
<1>3. KeepsLinks(w.dev[d], y) /\ DOMAIN y.if = DOMAIN w.dev[d].if
  BY <1>1, PoolsChange
<1> HIDE DEF y
<1> QED
  BY <1>2, <1>3, OneDevice

\* One port changes.
LEMMA PortSet ==
    ASSUME NEW x, DeviceOk(x), NEW p \in DOMAIN x.if, NEW f, IfOk(f),
           NEW y, y = [x EXCEPT !.if = [x.if EXCEPT ![p] = f]]
    PROVE  /\ DeviceOk(y) /\ DOMAIN y.if = DOMAIN x.if /\ y.leases = x.leases
           /\ y.if[p] = f /\ \A q \in DOMAIN x.if : q # p => y.if[q] = x.if[q]
           /\ f.admin = x.if[p].admin /\ f.proto = x.if[p].proto => KeepsLinks(x, y)
<1> DEFINE ifs == [x.if EXCEPT ![p] = f]
<1>1. x = [hostname |-> x.hostname, if |-> x.if, vlans |-> x.vlans, routes |-> x.routes,
            globals |-> x.globals, startup |-> x.startup, nat |-> x.nat, pools |-> x.pools,
            leases |-> x.leases, gw |-> x.gw]
      /\ x.if = [q \in DOMAIN x.if |-> x.if[q]] /\ \A q \in DOMAIN x.if : IfOk(x.if[q])
  BY DEF DeviceOk
<1>2. /\ ifs = [q \in DOMAIN ifs |-> ifs[q]] /\ DOMAIN ifs = DOMAIN x.if /\ ifs[p] = f
      /\ \A q \in DOMAIN x.if : q # p => ifs[q] = x.if[q]
  BY <1>1
<1> HIDE DEF ifs
<1>3. /\ y = [hostname |-> y.hostname, if |-> y.if, vlans |-> y.vlans, routes |-> y.routes,
            globals |-> y.globals, startup |-> y.startup, nat |-> y.nat, pools |-> y.pools,
            leases |-> y.leases, gw |-> y.gw]
      /\ y.if = ifs /\ y.pools = x.pools /\ y.leases = x.leases
  BY <1>1 DEF ifs
<1>4. \A q \in DOMAIN ifs : IfOk(ifs[q])
  BY <1>1, <1>2
<1>5. DeviceOk(y)
  <2>1. DeviceOk(x)
    OBVIOUS
  <2> QED
    BY ONLY <1>2, <1>3, <1>4, <2>1 DEF DeviceOk
<1> QED
  BY <1>2, <1>3, <1>5 DEF KeepsLinks

LEMMA PortStep ==
    ASSUME NEW lab \in Labs, NEW w, Sound(lab, w), NEW d \in DOMAIN lab.role,
           NEW p \in Ifs(w, d), NEW f, IfOk(f),
           f.admin = IfOf(w, d, p).admin, f.proto = IfOf(w, d, p).proto
    PROVE  Sound(lab, SetIf(w, d, p, f))
<1> DEFINE x == w.dev[d]
           y == [x EXCEPT !.if = [x.if EXCEPT ![p] = f]]
<1>1. DeviceOk(x)
  BY WorldParts DEF Sound
<1>2. KeepsLinks(x, y) /\ DOMAIN y.if = DOMAIN x.if
  BY <1>1, PortSet DEF Ifs, IfOf
<1>3. SetIf(w, d, p, f) = SetDev(w, d, y)
  BY DEF SetIf, SetDev
<1> HIDE DEF y
<1> QED
  BY <1>2, <1>3, OneDevice

\* shutdown and no shutdown, and whatever else ends with a refresh.
LEMMA PortRefresh ==
    ASSUME NEW lab \in Labs, NEW w, Sound(lab, w), NEW d \in DOMAIN lab.role,
           NEW p \in Ifs(w, d), NEW f, IfOk(f)
    PROVE  Sound(lab, RefreshLinkState(SetIf(w, d, p, f)))
<1> DEFINE x == w.dev[d]
           y == [x EXCEPT !.if = [x.if EXCEPT ![p] = f]]
           v == SetIf(w, d, p, f)
<1>1. DeviceOk(x) /\ WorldOk(lab, w) /\ LeaseUniqueOf(w)
  BY WorldParts DEF Sound
<1>2. DeviceOk(y) /\ DOMAIN y.if = DOMAIN x.if /\ y.leases = x.leases
  BY <1>1, PortSet DEF Ifs
<1>3. v = SetDev(w, d, y)
  BY DEF SetIf, SetDev
<1> HIDE DEF y, v
<1>4. WorldOk(lab, v) /\ LeaseUniqueOf(v)
  BY <1>1, <1>2, <1>3, DeviceSet
<1>5. Sound(lab, RefreshLinkState(v))
  BY <1>4, RefreshRight DEF Sound
<1> QED
  BY <1>5 DEF v

LEMMA SetAdminStep ==
    ASSUME NEW lab \in Labs, NEW w, Sound(lab, w), NEW d \in DOMAIN lab.role,
           NEW p \in Ifs(w, d), NEW up \in BOOLEAN
    PROVE  Sound(lab, SetAdmin(w, d, p, up))
<1> DEFINE g == IfOf(w, d, p)
           f == [g EXCEPT !.admin = up, !.proto = up /\ @]
<1>1. IfOk(g)
  BY WorldParts DEF Sound, DeviceOk, Ifs, IfOf
<1>2. f = [g EXCEPT !.admin = up, !.proto = up /\ g.proto]
  OBVIOUS
<1> HIDE DEF g, f
<1>3. IfOk(f)
  BY <1>1, <1>2 DEF IfOk
<1>4. Sound(lab, RefreshLinkState(SetIf(w, d, p, f)))
  BY <1>3, PortRefresh
<1>5. SetAdmin(w, d, p, up) = RefreshLinkState(SetIf(w, d, p, f))
  BY DEF SetAdmin, f, g
<1> QED
  BY <1>4, <1>5

\* A port after a command has the same link.
SamePort(f, g) == IfOk(g) /\ g.admin = f.admin /\ g.proto = f.proto

LEMMA ExtraKept ==
    ASSUME NEW f, IfOk(f), NEW line
    PROVE  /\ SamePort(f, SetExtra(f, line)) /\ SamePort(f, DropExtra(f, line))
<1>1. ASSUME NEW x PROVE SamePort(f, [f EXCEPT !.extra = x])
  BY DEF SamePort, IfOk
<1>2. \E x : SetExtra(f, line) = [f EXCEPT !.extra = x]
  BY DEF SetExtra
<1>3. \E x : DropExtra(f, line) = [f EXCEPT !.extra = x]
  BY DEF DropExtra
<1> QED
  BY <1>1, <1>2, <1>3

LEMMA IfAfterKept ==
    ASSUME NEW f, IfOk(f), NEW c, NEW l
    PROVE  SamePort(f, IfAfter(c, l, f))
<1>1. ASSUME NEW h, SamePort(f, h), NEW a, NEW b, NEW e
      PROVE  /\ SamePort(f, [h EXCEPT !.ip = a, !.mask = b]) /\ SamePort(f, [h EXCEPT !.nat = a])
             /\ SamePort(f, [h EXCEPT !.portfast = a, !.stp = b]) /\ SamePort(f, [h EXCEPT !.chan = a])
             /\ SamePort(f, [h EXCEPT !.sw = a, !.vlan = b, !.stp = e])
             /\ SamePort(f, [h EXCEPT !.sw = a, !.stp = b])
  <2>1. ASSUME NEW x, SamePort(f, x), NEW v
        PROVE  /\ SamePort(f, [x EXCEPT !.ip = v]) /\ SamePort(f, [x EXCEPT !.mask = v])
               /\ SamePort(f, [x EXCEPT !.nat = v]) /\ SamePort(f, [x EXCEPT !.portfast = v])
               /\ SamePort(f, [x EXCEPT !.stp = v]) /\ SamePort(f, [x EXCEPT !.chan = v])
               /\ SamePort(f, [x EXCEPT !.sw = v]) /\ SamePort(f, [x EXCEPT !.vlan = v])
    <3>0. IfOk(x) /\ x.admin = f.admin /\ x.proto = f.proto
      BY <2>1 DEF SamePort
    <3>1. SamePort(f, [x EXCEPT !.ip = v])
      BY ONLY <3>0 DEF SamePort, IfOk
    <3>2. SamePort(f, [x EXCEPT !.mask = v])
      BY ONLY <3>0 DEF SamePort, IfOk
    <3>3. SamePort(f, [x EXCEPT !.nat = v])
      BY ONLY <3>0 DEF SamePort, IfOk
    <3>4. SamePort(f, [x EXCEPT !.portfast = v])
      BY ONLY <3>0 DEF SamePort, IfOk
    <3>5. SamePort(f, [x EXCEPT !.stp = v])
      BY ONLY <3>0 DEF SamePort, IfOk
    <3>6. SamePort(f, [x EXCEPT !.chan = v])
      BY ONLY <3>0 DEF SamePort, IfOk
    <3>7. SamePort(f, [x EXCEPT !.sw = v])
      BY ONLY <3>0 DEF SamePort, IfOk
    <3>8. SamePort(f, [x EXCEPT !.vlan = v])
      BY ONLY <3>0 DEF SamePort, IfOk
    <3> QED
      BY <3>1, <3>2, <3>3, <3>4, <3>5, <3>6, <3>7, <3>8
  <2>2. SamePort(f, [h EXCEPT !.ip = a]) /\ SamePort(f, [h EXCEPT !.portfast = a])
        /\ SamePort(f, [h EXCEPT !.sw = a])
    BY <1>1, <2>1
  <2>3. SamePort(f, [[h EXCEPT !.ip = a] EXCEPT !.mask = b])
        /\ SamePort(f, [[h EXCEPT !.portfast = a] EXCEPT !.stp = b])
        /\ SamePort(f, [[h EXCEPT !.sw = a] EXCEPT !.vlan = b])
        /\ SamePort(f, [[h EXCEPT !.sw = a] EXCEPT !.stp = b])
    BY <2>1, <2>2
  <2>4. SamePort(f, [[[h EXCEPT !.sw = a] EXCEPT !.vlan = b] EXCEPT !.stp = e])
    BY <2>1, <2>3
  <2> QED
    BY <1>1, <2>1, <2>3, <2>4
<1>2. SamePort(f, f)
  BY DEF SamePort
<1>3. \A line : SamePort(f, SetExtra(f, line)) /\ SamePort(f, DropExtra(f, line))
  BY ExtraKept
<1>4. \A v : SamePort(f, Access(f, v))
  BY <1>1, <1>2 DEF Access
<1>5. SamePort(f, Trunk(f))
  BY <1>1, <1>2 DEF Trunk
<1>6. CASE c \in {"ip", "description", "ipv6", "channel-group"}
  <2> DEFINE h == SetExtra(f, <<"channel-group", l.group>>)
  <2>1. SamePort(f, h) /\ SamePort(f, SetExtra(f, <<"access-group", l.acl>>))
        /\ SamePort(f, SetExtra(f, <<c, l.sub>>))
    BY <1>3
  <2>2. SamePort(f, [h EXCEPT !.chan = l.group]) /\ SamePort(f, [f EXCEPT !.ip = l.ip, !.mask = l.mask])
        /\ SamePort(f, [f EXCEPT !.nat = l.side])
    <3> HIDE DEF h
    <3> QED
      BY <1>1, <1>2, <2>1
  <2>3. IfAfter(c, l, f) \in {[f EXCEPT !.ip = l.ip, !.mask = l.mask], [f EXCEPT !.nat = l.side],
                              SetExtra(f, <<"access-group", l.acl>>), SetExtra(f, <<c, l.sub>>),
                              [h EXCEPT !.chan = l.group], f}
    BY <1>6 DEF IfAfter
  <2> HIDE DEF h
  <2> QED
    BY <1>2, <2>1, <2>2, <2>3
<1>7. CASE c = "no"
  <2> DEFINE h == DropExtra(f, "portfast")
             k == DropExtra(f, "channel-group")
             stp == IF f.sw = "access" THEN FALSE ELSE h.stp
  <2>1. SamePort(f, h) /\ SamePort(f, k)
    BY <1>3
  <2>2. SamePort(f, [h EXCEPT !.portfast = FALSE, !.stp = stp]) /\ SamePort(f, [k EXCEPT !.chan = None])
        /\ SamePort(f, [f EXCEPT !.ip = None, !.mask = None])
    <3> HIDE DEF h, k, stp
    <3> QED
      BY <1>1, <1>2, <2>1
  <2>3. IfAfter(c, l, f) \in {[f EXCEPT !.ip = None, !.mask = None],
                              [h EXCEPT !.portfast = FALSE, !.stp = stp],
                              [k EXCEPT !.chan = None], f}
    BY <1>7 DEF IfAfter
  <2> HIDE DEF h, k, stp
  <2> QED
    BY <1>2, <2>2, <2>3
<1>8. CASE c = "spanning-tree"
  <2> DEFINE h == IF f.portfast THEN f ELSE SetExtra(f, <<"portfast">>)
  <2>1. SamePort(f, h)
    BY <1>2, <1>3
  <2>2. SamePort(f, [h EXCEPT !.portfast = TRUE, !.stp = TRUE])
    <3> HIDE DEF h
    <3> QED
      BY <1>1, <2>1
  <2>3. IfAfter(c, l, f) \in {[h EXCEPT !.portfast = TRUE, !.stp = TRUE], f}
    BY <1>8 DEF IfAfter
  <2> QED
    BY <1>2, <2>2, <2>3
<1>9. CASE c = "switchport"
  <2>1. IfAfter(c, l, f) \in {Access(f, IF f.vlan = None THEN 1 ELSE f.vlan), Access(f, l.vlan), Trunk(f), f}
    BY <1>9 DEF IfAfter
  <2> QED
    BY <1>2, <1>4, <1>5, <2>1
<1>10. CASE c \notin {"ip", "description", "ipv6", "channel-group", "no", "spanning-tree", "switchport"}
  BY <1>2, <1>10 DEF IfAfter
<1> QED
  BY <1>6, <1>7, <1>8, <1>9, <1>10

LEMMA ResultParts ==
    ASSUME NEW w PROVE \A s, out : Result(w, s, out).w = w /\ Refused(w, s).w = w
  BY DEF Result, Refused

LEMMA AddVlanStep ==
    ASSUME NEW lab \in Labs, NEW w, Sound(lab, w), NEW d \in DOMAIN lab.role, NEW n
    PROVE  Sound(lab, AddVlan(w, d, n))
<1> DEFINE vlans == [x \in DOMAIN w.dev[d].vlans \cup {n} |->
                       IF x = n THEN "VLAN" ELSE w.dev[d].vlans[x]]
           y == [w.dev[d] EXCEPT !.vlans = vlans]
<1>1. AddVlan(w, d, n) = w \/ AddVlan(w, d, n) = SetDev(w, d, y)
  BY DEF AddVlan, SetDev
<1>2. y = [w.dev[d] EXCEPT !.vlans = vlans]
  OBVIOUS
<1> HIDE DEF y, vlans
<1>3. Sound(lab, SetDev(w, d, y))
  BY <1>2, FieldStep
<1> QED
  BY <1>1, <1>3

LEMMA AddGlobalStep ==
    ASSUME NEW lab \in Labs, NEW w, Sound(lab, w), NEW d \in DOMAIN lab.role, NEW g
    PROVE  Sound(lab, AddGlobal(w, d, g))
<1> DEFINE globals == Append(w.dev[d].globals, g)
           y == [w.dev[d] EXCEPT !.globals = globals]
<1>1. AddGlobal(w, d, g) = SetDev(w, d, y)
  BY DEF AddGlobal, SetDev
<1>2. y = [w.dev[d] EXCEPT !.globals = globals]
  OBVIOUS
<1> HIDE DEF y, globals
<1>3. Sound(lab, SetDev(w, d, y))
  BY <1>2, FieldStep
<1> QED
  BY <1>1, <1>3

LEMMA InterfaceStep ==
    ASSUME NEW lab \in Labs, NEW w, Sound(lab, w), NEW d \in DOMAIN lab.role, lab.role[d] # "pc",
           NEW s, NEW l
    PROVE  Sound(lab, CmdInterface(w, d, s, l).w)
<1> DEFINE x == w.dev[d]
           ifs == [p \in DOMAIN x.if \cup {l.port} |->
                     IF p = l.port THEN NewIf(TRUE, None, None) ELSE x.if[p]]
           y == [x EXCEPT !.if = ifs]
<1>1. \/ CmdInterface(w, d, s, l).w = w
      \/ l.port \notin Ifs(w, d) /\ CmdInterface(w, d, s, l).w = SetDev(w, d, y)
  BY DEF CmdInterface, Result, Refused, SetDev
<1>2. CASE l.port \notin Ifs(w, d)
  <2>1. DeviceOk(x)
    BY WorldParts DEF Sound
  <2>2. IfOk(NewIf(TRUE, None, None))
    BY DEF IfOk, NewIf
  <2>3. ifs = [p \in DOMAIN ifs |-> ifs[p]] /\ DOMAIN x.if \subseteq DOMAIN ifs
        /\ \A p \in DOMAIN ifs : IfOk(ifs[p])
    BY <2>1, <2>2 DEF DeviceOk
  <2>4. \A p \in DOMAIN x.if : ifs[p] = x.if[p]
    BY <1>2 DEF Ifs
  <2>5. y = [x EXCEPT !.if = ifs]
    OBVIOUS
  <2> HIDE DEF ifs, y
  <2>6. KeepsLinks(x, y)
    BY <2>1, <2>3, <2>4, <2>5, IfsChange
  <2>7. Sound(lab, SetDev(w, d, y))
    BY <2>6, OneDevice
  <2> QED
    BY <1>1, <2>7
<1> QED
  BY <1>1, <1>2

LEMMA IfStep ==
    ASSUME NEW lab \in Labs, NEW w, Sound(lab, w), NEW d \in DOMAIN lab.role, NEW s, NEW c, NEW l
    PROVE  Sound(lab, CmdIf(w, d, s, c, l).w)
<1> DEFINE p == s.if
           f == IfAfter(c, l, IfOf(w, d, p))
           v == SetIf(w, d, p, f)
<1>1. \/ CmdIf(w, d, s, c, l).w = w
      \/ /\ p \in Ifs(w, d)
         /\ \/ CmdIf(w, d, s, c, l).w = SetAdmin(w, d, p, FALSE)
            \/ CmdIf(w, d, s, c, l).w = SetAdmin(w, d, p, TRUE)
            \/ CmdIf(w, d, s, c, l).w = v
            \/ CmdIf(w, d, s, c, l).w = AddVlan(v, d, l.vlan)
  BY DEF CmdIf, Result, Refused
<1>2. CASE p \in Ifs(w, d)
  <2>1. IfOk(IfOf(w, d, p))
    BY <1>2, WorldParts DEF Sound, DeviceOk, Ifs, IfOf
  <2>2. SamePort(IfOf(w, d, p), f)
    BY <2>1, IfAfterKept
  <2> HIDE DEF f
  <2>3. Sound(lab, v)
    BY <1>2, <2>2, PortStep DEF SamePort
  <2> HIDE DEF v
  <2>4. Sound(lab, AddVlan(v, d, l.vlan))
    BY <2>3, AddVlanStep
  <2>5. Sound(lab, SetAdmin(w, d, p, FALSE)) /\ Sound(lab, SetAdmin(w, d, p, TRUE))
    BY <1>2, SetAdminStep
  <2> QED
    BY <1>1, <2>3, <2>4, <2>5
<1> QED
  BY <1>1, <1>2

LEMMA PoolsMapped ==
    ASSUME NEW q, IsSequence(q), NEW r, r = [i \in DOMAIN q |-> r[i]]
    PROVE  IsSequence(r) /\ DOMAIN r = DOMAIN q
<1>1. Len(q) \in Nat /\ DOMAIN q = 1..Len(q)
  BY Lists
<1> QED
  BY <1>1, ListOf

LEMMA PoolsOf ==
    ASSUME NEW lab \in Labs, NEW w, Sound(lab, w), NEW d \in DOMAIN lab.role
    PROVE  IsSequence(w.dev[d].pools) /\ \A i \in DOMAIN w.dev[d].pools : PoolOk(w.dev[d].pools[i])
  BY WorldParts DEF Sound, DeviceOk

LEMMA EnterPoolStep ==
    ASSUME NEW lab \in Labs, NEW w, Sound(lab, w), NEW d \in DOMAIN lab.role, NEW s, NEW name
    PROVE  Sound(lab, EnterPool(w, d, s, name).w)
<1> DEFINE pools == w.dev[d].pools
           new == [name |-> name, net |-> None, mask |-> None, gw |-> None, excluded |-> {}]
           q == Append(pools, new)
<1>1. \/ EnterPool(w, d, s, name).w = w
      \/ EnterPool(w, d, s, name).w = SetDev(w, d, [w.dev[d] EXCEPT !.pools = q])
  BY DEF EnterPool, Result, SetDev
<1>2. IsSequence(pools) /\ \A i \in DOMAIN pools : PoolOk(pools[i])
  BY PoolsOf
<1>3. PoolOk(new)
  BY DEF PoolOk
<1> HIDE DEF new, pools
<1>4. IsSequence(q) /\ \A i \in DOMAIN q : PoolOk(q[i])
  BY <1>2, <1>3, ListGrows
<1> HIDE DEF q
<1>5. Sound(lab, SetDev(w, d, [w.dev[d] EXCEPT !.pools = q]))
  BY <1>4, PoolsStep
<1> QED
  BY <1>1, <1>5

LEMMA ExcludeStep ==
    ASSUME NEW lab \in Labs, NEW w, Sound(lab, w), NEW d \in DOMAIN lab.role, NEW lo, NEW hi
    PROVE  Sound(lab, ExcludeAddress(w, d, lo, hi))
<1> DEFINE pools == w.dev[d].pools
           q == [i \in DOMAIN pools |-> [pools[i] EXCEPT !.excluded = pools[i].excluded \cup {<<lo, hi>>}]]
<1>1. ExcludeAddress(w, d, lo, hi) = SetDev(w, d, [w.dev[d] EXCEPT !.pools = q])
  BY DEF ExcludeAddress, SetDev
<1>2. IsSequence(pools) /\ \A i \in DOMAIN pools : PoolOk(pools[i])
  BY PoolsOf
<1> HIDE DEF pools
<1>3. ASSUME NEW i \in DOMAIN pools PROVE PoolOk(q[i])
  <2> DEFINE z == pools[i]
             e == pools[i].excluded \cup {<<lo, hi>>}
  <2>1. q[i] = [z EXCEPT !.excluded = e] /\ PoolOk(z)
    BY <1>2
  <2> HIDE DEF z, e, q
  <2> QED
    BY <2>1 DEF PoolOk
<1>4. q = [i \in DOMAIN pools |-> q[i]] /\ DOMAIN q = DOMAIN pools
  OBVIOUS
<1> HIDE DEF q
<1>5. IsSequence(q)
  BY <1>2, <1>4, PoolsMapped
<1>6. Sound(lab, SetDev(w, d, [w.dev[d] EXCEPT !.pools = q]))
  BY <1>3, <1>4, <1>5, PoolsStep
<1> QED
  BY <1>1, <1>6

LEMMA DhcpStep ==
    ASSUME NEW lab \in Labs, NEW w, Sound(lab, w), NEW d \in DOMAIN lab.role, NEW s, NEW c, NEW l,
           c = "network" /\ l.sub # "" => l.net \in Nat /\ l.mask \in Nat \ {0}
    PROVE  Sound(lab, CmdDhcp(w, d, s, c, l).w)
<1> DEFINE pools == w.dev[d].pools
           here == {i \in DOMAIN pools : pools[i].name = s.dhcp}
           at == CHOOSE i \in here : TRUE
           z == pools[at]
           a == [z EXCEPT !.net = l.net, !.mask = l.mask]
           b == [z EXCEPT !.gw = l.gw]
           q == [pools EXCEPT ![at] = a]
           r == [pools EXCEPT ![at] = b]
<1>1. \/ CmdDhcp(w, d, s, c, l).w = w
      \/ /\ here # {}
         /\ \/ /\ c = "network" /\ l.sub # ""
               /\ CmdDhcp(w, d, s, c, l).w = SetDev(w, d, [w.dev[d] EXCEPT !.pools = q])
            \/ CmdDhcp(w, d, s, c, l).w = SetDev(w, d, [w.dev[d] EXCEPT !.pools = r])
  BY DEF CmdDhcp, Result, Refused, SetDev
<1>2. IsSequence(pools) /\ \A i \in DOMAIN pools : PoolOk(pools[i])
  BY PoolsOf
<1>3. here # {} => at \in DOMAIN pools
  OBVIOUS
<1> HIDE DEF pools, at, here
<1>4. ASSUME here # {}, c = "network", l.sub # ""
      PROVE  Sound(lab, SetDev(w, d, [w.dev[d] EXCEPT !.pools = q]))
  <2>1. PoolOk(z)
    BY <1>2, <1>3, <1>4
  <2>2. PoolOk(a)
    <3> HIDE DEF z
    <3>1. z = [name |-> z.name, net |-> z.net, mask |-> z.mask, gw |-> z.gw, excluded |-> z.excluded]
      BY ONLY <2>1 DEF PoolOk
    <3> DEFINE z1 == [z EXCEPT !.net = l.net]
    <3>2. z1 = [name |-> z.name, net |-> l.net, mask |-> z.mask, gw |-> z.gw, excluded |-> z.excluded]
      BY ONLY <3>1
    <3>3. a = [z1 EXCEPT !.mask = l.mask]
      BY ONLY <3>1
    <3> HIDE DEF z1, a
    <3>4. a = [name |-> z.name, net |-> l.net, mask |-> l.mask, gw |-> z.gw, excluded |-> z.excluded]
      BY ONLY <3>2, <3>3
    <3> QED
      BY <1>4, <3>4 DEF PoolOk
  <2> HIDE DEF a
  <2>3. q = [i \in DOMAIN pools |-> q[i]] /\ DOMAIN q = DOMAIN pools
        /\ \A i \in DOMAIN pools : q[i] = IF i = at THEN a ELSE pools[i]
    <3>1. pools = [i \in DOMAIN pools |-> pools[i]]
      BY <1>2, Lists
    <3> QED
      BY <1>3, <1>4, <3>1
  <2> HIDE DEF q
  <2>4. IsSequence(q) /\ \A i \in DOMAIN q : PoolOk(q[i])
    BY <1>2, <2>2, <2>3, PoolsMapped
  <2> QED
    BY <2>4, PoolsStep
<1>5. ASSUME here # {}
      PROVE  Sound(lab, SetDev(w, d, [w.dev[d] EXCEPT !.pools = r]))
  <2>1. PoolOk(z)
    BY <1>2, <1>3, <1>5
  <2>2. PoolOk(b)
    <3> HIDE DEF z
    <3>1. z = [name |-> z.name, net |-> z.net, mask |-> z.mask, gw |-> z.gw, excluded |-> z.excluded]
          /\ (z.net # None /\ z.mask # None => z.net \in Nat /\ z.mask \in Nat \ {0})
      BY ONLY <2>1 DEF PoolOk
    <3>2. b = [name |-> z.name, net |-> z.net, mask |-> z.mask, gw |-> l.gw, excluded |-> z.excluded]
      BY ONLY <3>1
    <3> HIDE DEF b
    <3> QED
      BY ONLY <3>1, <3>2 DEF PoolOk
  <2> HIDE DEF b
  <2>3. r = [i \in DOMAIN pools |-> r[i]] /\ DOMAIN r = DOMAIN pools
        /\ \A i \in DOMAIN pools : r[i] = IF i = at THEN b ELSE pools[i]
    <3>1. pools = [i \in DOMAIN pools |-> pools[i]]
      BY <1>2, Lists
    <3> QED
      BY <1>3, <1>5, <3>1
  <2> HIDE DEF r
  <2>4. IsSequence(r) /\ \A i \in DOMAIN r : PoolOk(r[i])
    BY <1>2, <2>2, <2>3, PoolsMapped
  <2> QED
    BY <2>4, PoolsStep
<1> QED
  BY <1>1, <1>4, <1>5

-----------------------------------------------------------------------------
(* ping and traceroute: the links stay, and so does every device.          *)

LEMMA TablesChange ==
    ASSUME NEW lab \in Labs, NEW w, WorldOk(lab, w), NEW x,
           NEW v, v = [w EXCEPT !.ospf = x] \/ v = [w EXCEPT !.arp = x]
    PROVE  WorldOk(lab, v) /\ Wires(v) = Wires(w) /\ v.dev = w.dev
<1>1. /\ w = [role |-> lab.role, links |-> lab.links, dev |-> w.dev, ospf |-> w.ospf, arp |-> w.arp]
      /\ w.dev = [d \in DOMAIN lab.role |-> w.dev[d]]
      /\ \A d \in DOMAIN lab.role : DeviceOk(w.dev[d]) /\ PortsOk(lab, d, w.dev[d])
  BY DEF WorldOk
<1>2. v = [role |-> lab.role, links |-> lab.links, dev |-> v.dev, ospf |-> v.ospf, arp |-> v.arp]
      /\ v.dev = w.dev
  BY <1>1
<1>3. WorldOk(lab, v)
  BY ONLY <1>1, <1>2 DEF WorldOk
<1>4. Wires(v) = Wires(w)
  <2>1. v.role = lab.role /\ v.links = lab.links /\ w.role = lab.role /\ w.links = lab.links
    BY ONLY <1>1, <1>2
  <2> QED
    BY <1>2, <2>1 DEF Wires
<1> QED
  BY <1>2, <1>3, <1>4

\* What a world promises of its links and leases is a matter of its devices.
LEMMA SoundByDevices ==
    ASSUME NEW lab \in Labs, NEW w, Sound(lab, w), NEW v, WorldOk(lab, v), v.dev = w.dev
    PROVE  Sound(lab, v)
<1>1. WorldOk(lab, w) /\ LinkProtocolOf(w) /\ LeaseUniqueOf(w)
  BY DEF Sound
<1>2. LinkProtocolOf(v)
  BY <1>1, ProtocolByLab
<1>3. Devs(v) = Devs(w)
  BY DEF Devs
<1>4. LeaseUniqueOf(v)
  BY <1>1, <1>3 DEF LeaseUniqueOf, LeasesOf, Leased
<1> QED
  BY <1>1, <1>2, <1>4 DEF Sound

\* v differs from w in the tables alone.
SameWires(lab, w, v) == Sound(lab, v) /\ Wires(v) = Wires(w) /\ v.dev = w.dev

LEMMA ConvergeSame ==
    ASSUME NEW lab \in Labs, NEW w, Sound(lab, w)
    PROVE  /\ SameWires(lab, w, Converge(w)) /\ Converge(w).arp = w.arp
           /\ Converge(w).ospf = OspfTables(Wires(w), Adjacent(Wires(w)))
<1>1. WorldOk(lab, w) /\ LinkProtocolOf(w)
  BY DEF Sound
<1>2. RefreshLinkState(w) = w
  BY <1>1, RefreshIdle
<1> DEFINE t == OspfTables(Wires(w), Adjacent(Wires(w)))
<1>3. Converge(w) = [w EXCEPT !.ospf = t]
  BY <1>2 DEF Converge, RebuildOspfRoutes, Tabulated
<1>4. w = [role |-> lab.role, links |-> lab.links, dev |-> w.dev, ospf |-> w.ospf, arp |-> w.arp]
  BY <1>1 DEF WorldOk
<1> HIDE DEF t
<1>5. WorldOk(lab, Converge(w)) /\ Wires(Converge(w)) = Wires(w) /\ Converge(w).dev = w.dev
  BY <1>1, <1>3, TablesChange
<1>6. Sound(lab, Converge(w))
  BY <1>5, SoundByDevices
<1>7. Converge(w).arp = w.arp /\ Converge(w).ospf = t
  BY <1>3, <1>4
<1> QED
  BY <1>5, <1>6, <1>7 DEF SameWires, t

LEMMA PingSame ==
    ASSUME NEW lab \in Labs, NEW w, Sound(lab, w), NEW from, NEW dst
    PROVE  SameWires(lab, w, Ping(w, from, dst))
<1> DEFINE v == Converge(w)
           x == [v.arp EXCEPT ![from] = @ \cup {dst}]
<1>1. SameWires(lab, w, v)
  BY ConvergeSame
<1>2. Ping(w, from, dst) = v \/ Ping(w, from, dst) = [v EXCEPT !.arp = x]
  BY DEF Ping, Answered
<1> HIDE DEF v, x
<1>3. WorldOk(lab, v) /\ Sound(lab, v)
  BY <1>1 DEF SameWires, Sound
<1>4. CASE Ping(w, from, dst) = v
  BY <1>1, <1>4
<1>5. CASE Ping(w, from, dst) = [v EXCEPT !.arp = x]
  <2> DEFINE u == Ping(w, from, dst)
  <2>1. WorldOk(lab, u) /\ Wires(u) = Wires(v) /\ u.dev = v.dev
    BY <1>3, <1>5, TablesChange
  <2> HIDE DEF u
  <2>2. Sound(lab, u)
    BY <1>3, <2>1, SoundByDevices
  <2> QED
    BY <1>1, <2>1, <2>2 DEF SameWires, u
<1> QED
  BY <1>2, <1>4, <1>5

-----------------------------------------------------------------------------
(* Every command keeps the world sound.                                    *)

LEMMA SmallSteps ==
    ASSUME NEW lab \in Labs, NEW w, Sound(lab, w), NEW d \in DOMAIN lab.role, NEW s, NEW l
    PROVE  /\ Sound(lab, CmdWrite(w, d, s).w)
           /\ Sound(lab, Result([w EXCEPT !.dev[d].hostname = l.sub], s, 0).w)
           /\ Sound(lab, CmdVlan(w, d, s, l).w)
           /\ Sound(lab, CmdVlanName(w, d, s, l).w)
           /\ Sound(lab, CmdPing(w, d, s, l).w)
           /\ Sound(lab, Converge(w))
<1>1. Sound(lab, CmdWrite(w, d, s).w)
  <2> DEFINE e == RunningConfig(w.dev[d])
             y == [w.dev[d] EXCEPT !.startup = e]
  <2>1. CmdWrite(w, d, s).w = SetDev(w, d, y)
    BY DEF CmdWrite, Result, SetDev
  <2>2. y = [w.dev[d] EXCEPT !.startup = e]
    OBVIOUS
  <2> HIDE DEF y, e
  <2>3. Sound(lab, SetDev(w, d, y))
    BY <2>2, FieldStep
  <2> QED
    BY <2>1, <2>3
<1>2. Sound(lab, Result([w EXCEPT !.dev[d].hostname = l.sub], s, 0).w)
  <2> DEFINE e == l.sub
             y == [w.dev[d] EXCEPT !.hostname = e]
  <2>1. Result([w EXCEPT !.dev[d].hostname = l.sub], s, 0).w = SetDev(w, d, y)
    BY DEF Result, SetDev
  <2>2. y = [w.dev[d] EXCEPT !.hostname = e]
    OBVIOUS
  <2> HIDE DEF y, e
  <2>3. Sound(lab, SetDev(w, d, y))
    BY <2>2, FieldStep
  <2> QED
    BY <2>1, <2>3
<1>3. Sound(lab, CmdVlan(w, d, s, l).w)
  <2>1. CmdVlan(w, d, s, l).w = w \/ CmdVlan(w, d, s, l).w = AddVlan(w, d, l.vlan)
    BY DEF CmdVlan, Result, Refused
  <2>2. Sound(lab, AddVlan(w, d, l.vlan))
    BY AddVlanStep
  <2> QED
    BY <2>1, <2>2
<1>4. Sound(lab, CmdVlanName(w, d, s, l).w)
  <2> DEFINE e == [w.dev[d].vlans EXCEPT ![s.vlan] = l.sub]
             y == [w.dev[d] EXCEPT !.vlans = e]
  <2>1. CmdVlanName(w, d, s, l).w = w \/ CmdVlanName(w, d, s, l).w = SetDev(w, d, y)
    BY DEF CmdVlanName, Result, Refused, SetDev
  <2>2. y = [w.dev[d] EXCEPT !.vlans = e]
    OBVIOUS
  <2> HIDE DEF y, e
  <2>3. Sound(lab, SetDev(w, d, y))
    BY <2>2, FieldStep
  <2> QED
    BY <2>1, <2>3
<1>5. Sound(lab, CmdPing(w, d, s, l).w)
  <2>1. CmdPing(w, d, s, l).w = w \/ CmdPing(w, d, s, l).w = Ping(w, d, l.ip)
    BY DEF CmdPing, Result, Refused
  <2>2. Sound(lab, Ping(w, d, l.ip))
    BY PingSame DEF SameWires
  <2> QED
    BY <2>1, <2>2
<1>6. Sound(lab, Converge(w))
  BY ConvergeSame DEF SameWires
<1> QED
  BY <1>1, <1>2, <1>3, <1>4, <1>5, <1>6

LEMMA GlobalSteps ==
    ASSUME NEW lab \in Labs, NEW w, Sound(lab, w), NEW d \in DOMAIN lab.role, NEW s, NEW l
    PROVE  /\ Sound(lab, CmdIpGlobal(w, d, s, l).w) /\ Sound(lab, CmdIpv6Global(w, d, s, l).w)
           /\ Sound(lab, CmdAccessList(w, d, s, l).w) /\ Sound(lab, CmdRouter(w, d, s, l).w)
           /\ Sound(lab, CmdRouterNetwork(w, d, s, l).w)
<1>0. \A g : Sound(lab, AddGlobal(w, d, g))
  BY AddGlobalStep
<1>1. Sound(lab, CmdIpv6Global(w, d, s, l).w)
  <2>1. CmdIpv6Global(w, d, s, l).w = w \/ \E g : CmdIpv6Global(w, d, s, l).w = AddGlobal(w, d, g)
    BY DEF CmdIpv6Global, Result, Refused
  <2> QED
    BY <1>0, <2>1
<1>2. Sound(lab, CmdAccessList(w, d, s, l).w)
  <2>1. \E g : CmdAccessList(w, d, s, l).w = AddGlobal(w, d, g)
    BY DEF CmdAccessList, Result, Refused
  <2> QED
    BY <1>0, <2>1
<1>3. Sound(lab, CmdRouter(w, d, s, l).w)
  <2>1. CmdRouter(w, d, s, l).w = w \/ \E g : CmdRouter(w, d, s, l).w = AddGlobal(w, d, g)
    BY DEF CmdRouter, Result, Refused
  <2> QED
    BY <1>0, <2>1
<1>4. Sound(lab, CmdRouterNetwork(w, d, s, l).w)
  <2>1. CmdRouterNetwork(w, d, s, l).w = w \/ \E g : CmdRouterNetwork(w, d, s, l).w = AddGlobal(w, d, g)
    BY DEF CmdRouterNetwork, Result, Refused
  <2> QED
    BY <1>0, <2>1
<1>5. Sound(lab, CmdIpGlobal(w, d, s, l).w)
  <2> DEFINE e == Append(w.dev[d].routes, [net |-> l.net, mask |-> l.mask, nh |-> l.nh])
             n == l.acl
             y == [w.dev[d] EXCEPT !.routes = e]
             z == [w.dev[d] EXCEPT !.nat = n]
             v == CmdIpGlobal(w, d, s, l).w
  <2>1. \/ v = w \/ v = SetDev(w, d, y) \/ v = SetDev(w, d, z)
        \/ v = EnterPool(w, d, s, l.name).w \/ v = ExcludeAddress(w, d, l.lo, l.hi)
        \/ \E g : v = AddGlobal(w, d, g)
    <3> USE DEF Result, Refused, SetDev
    <3>1. CASE l.sub = "route"
      BY <3>1 DEF CmdIpGlobal
    <3>2. CASE l.sub = "nat"
      BY <3>2 DEF CmdIpGlobal
    <3>3. CASE l.sub = "dhcp pool"
      BY <3>3 DEF CmdIpGlobal
    <3>4. CASE l.sub = "dhcp excluded-address"
      BY <3>4 DEF CmdIpGlobal
    <3>5. CASE l.sub \in {"access-list", "default-gateway"}
      BY <3>5 DEF CmdIpGlobal
    <3>6. CASE l.sub \notin {"route", "nat", "dhcp pool", "dhcp excluded-address", "access-list",
                             "default-gateway"}
      BY <3>6 DEF CmdIpGlobal
    <3> QED
      BY <3>1, <3>2, <3>3, <3>4, <3>5, <3>6
  <2>2. y = [w.dev[d] EXCEPT !.routes = e] /\ z = [w.dev[d] EXCEPT !.nat = n]
    OBVIOUS
  <2> HIDE DEF y, z, e, n, v
  <2>3. Sound(lab, SetDev(w, d, y)) /\ Sound(lab, SetDev(w, d, z))
    BY <2>2, FieldStep
  <2>4. Sound(lab, EnterPool(w, d, s, l.name).w) /\ Sound(lab, ExcludeAddress(w, d, l.lo, l.hi))
    BY EnterPoolStep, ExcludeStep
  <2>5. Sound(lab, v)
    BY <1>0, <2>1, <2>3, <2>4
  <2> QED
    BY <2>5 DEF v
<1> QED
  BY <1>1, <1>2, <1>3, <1>4, <1>5

\* What a pool is told is a network.
NetworkOk(s, c, l) ==
    c = "network" /\ s.mode = "config-dhcp" /\ l.sub # "" => l.net \in Nat /\ l.mask \in Nat \ {0}

LEMMA ShowKeeps ==
    ASSUME NEW w, NEW d, NEW s, NEW l PROVE CmdShow(w, d, s, l).w = w
<1>1. \A out : Result(w, s, out).w = w /\ Refused(w, s).w = w
  BY DEF Result, Refused
<1> QED
  BY <1>1 DEF CmdShow

LEMMA RunSound ==
    ASSUME NEW lab \in Labs, NEW w, Sound(lab, w), NEW d \in DOMAIN lab.role, lab.role[d] # "pc",
           NEW s, s.mode \in Modes, NEW l, NEW c, NetworkOk(s, c, l), NEW r, r = Run(w, d, s, c, l)
    PROVE  Sound(lab, r.w)
<1>1. CASE c \in {"", "?", "enable", "disable", "configure", "end", "terminal", "show", "help", "line"}
  <2> USE DEF Result, Refused
  <2>1. CASE c \in {"", "?", "enable", "disable", "configure", "help", "line"}
    <3>1. CASE c = "configure"
      <4>1. r.w = w
        BY <3>1 DEF Run, IfCommands, SwitchOnly
      <4> QED
        BY <4>1
    <3>2. CASE c = "line"
      <4>1. r.w = w
        BY <3>2 DEF Run, IfCommands, SwitchOnly
      <4> QED
        BY <4>1
    <3>3. CASE c \in {"", "?", "enable", "disable", "help"}
      <4>1. r.w = w
        BY <3>3 DEF Run, IfCommands, SwitchOnly
      <4> QED
        BY <4>1
    <3> QED
      BY <2>1, <3>1, <3>2, <3>3
  <2>2. CASE c = "end"
    <3>1. r = CmdEnd(w, s)
      BY <2>2 DEF Run, IfCommands, SwitchOnly
    <3>2. r.w = w
      BY <3>1 DEF CmdEnd
    <3> QED
      BY <3>2
  <2>3. CASE c = "terminal"
    <3>1. r = CmdTerminal(w, s, l)
      BY <2>3 DEF Run, IfCommands, SwitchOnly
    <3>2. r.w = w
      BY <3>1 DEF CmdTerminal
    <3> QED
      BY <3>2
  <2>4. CASE c = "show"
    <3>1. r = CmdShow(w, d, s, l)
      BY <2>4 DEF Run, IfCommands, SwitchOnly
    <3>2. r.w = w
      BY ONLY <3>1, ShowKeeps
    <3> QED
      BY <3>2
  <2> QED
    BY <1>1, <2>1, <2>2, <2>3, <2>4
<1>2. CASE c = "exit"
  <2>1. r = CmdExit(w, s)
    BY <1>2 DEF Run, IfCommands, SwitchOnly
  <2>2. r.w = w
    BY <2>1 DEF CmdExit, Result, Refused, Modes
  <2> QED
    BY <2>2
<1>3. CASE c \in {"ping", "write", "copy", "traceroute", "hostname", "vlan", "name"}
  <2>1. r \in {CmdPing(w, d, s, l), CmdWrite(w, d, s), Result(Converge(w), s, 5), Refused(w, s),
               Result([w EXCEPT !.dev[d].hostname = l.sub], s, 0), CmdVlan(w, d, s, l),
               CmdVlanName(w, d, s, l)}
    BY <1>3 DEF Run, IfCommands, SwitchOnly
  <2>2. Result(Converge(w), s, 5).w = Converge(w) /\ Refused(w, s).w = w
    BY DEF Result, Refused
  <2>3. /\ Sound(lab, CmdWrite(w, d, s).w)
        /\ Sound(lab, Result([w EXCEPT !.dev[d].hostname = l.sub], s, 0).w)
        /\ Sound(lab, CmdVlan(w, d, s, l).w)
        /\ Sound(lab, CmdVlanName(w, d, s, l).w)
        /\ Sound(lab, CmdPing(w, d, s, l).w)
        /\ Sound(lab, Converge(w)) /\ Sound(lab, w)
    BY SmallSteps
  <2> QED
    BY ONLY <2>1, <2>2, <2>3
<1>4. CASE c = "interface"
  <2>1. r = CmdInterface(w, d, s, l)
    BY <1>4 DEF Run, IfCommands, SwitchOnly
  <2> QED
    BY <2>1, InterfaceStep
<1>5. CASE \/ c \in {"access-list", "router"}
           \/ c = "network" /\ s.mode = "config-router"
           \/ c \in {"ip", "ipv6"} /\ s.mode = "config"
  <2>1. r \in {CmdAccessList(w, d, s, l), CmdRouter(w, d, s, l), CmdRouterNetwork(w, d, s, l),
               CmdIpGlobal(w, d, s, l), CmdIpv6Global(w, d, s, l)}
    BY <1>5 DEF Run, IfCommands, SwitchOnly
  <2>2. /\ Sound(lab, CmdIpGlobal(w, d, s, l).w) /\ Sound(lab, CmdIpv6Global(w, d, s, l).w)
        /\ Sound(lab, CmdAccessList(w, d, s, l).w) /\ Sound(lab, CmdRouter(w, d, s, l).w)
        /\ Sound(lab, CmdRouterNetwork(w, d, s, l).w)
    BY GlobalSteps
  <2> QED
    BY ONLY <2>1, <2>2
<1>6. CASE c \in {"network", "default-router"} /\ s.mode = "config-dhcp"
  <2>1. r = CmdDhcp(w, d, s, c, l)
    BY <1>6 DEF Run, IfCommands, SwitchOnly
  <2>2. c = "network" /\ l.sub # "" => l.net \in Nat /\ l.mask \in Nat \ {0}
    BY <1>6 DEF NetworkOk
  <2> QED
    BY <2>1, <2>2, DhcpStep
<1>7. CASE c \in IfCommands /\ s.mode = "config-if"
  <2>1. r = CmdIf(w, d, s, c, l)
    BY <1>7 DEF Run, IfCommands, SwitchOnly
  <2> QED
    BY <2>1, IfStep
<1>8. CASE /\ c \notin {"", "?", "enable", "disable", "configure", "end", "terminal", "show", "help", "line",
                        "exit", "ping", "write", "copy", "traceroute", "hostname", "vlan", "name",
                        "interface", "access-list", "router"}
           /\ ~(c \in {"network", "default-router"} /\ s.mode = "config-dhcp")
           /\ ~(c = "network" /\ s.mode = "config-router")
           /\ ~(c \in {"ip", "ipv6"} /\ s.mode = "config")
           /\ ~(c \in IfCommands /\ s.mode = "config-if")
  <2>1. r = Refused(w, s)
    BY <1>8 DEF Run
  <2>2. r.w = w
    BY <2>1 DEF Refused, Result
  <2> QED
    BY <2>2
<1> QED
  BY <1>1, <1>2, <1>3, <1>4, <1>5, <1>6, <1>7, <1>8

LEMMA DispatchSound ==
    ASSUME NEW lab \in Labs, NEW w, Sound(lab, w), NEW d \in DOMAIN lab.role, lab.role[d] # "pc",
           NEW s, ShellOk(s), NEW l, LineOk(l), NEW r, r = Dispatch(w, d, s, l)
    PROVE  Sound(lab, r.w)
<1> DEFINE doing == Resolve(l.tok, s.mode) = "do"
           line == IF doing /\ l.sub # "" THEN l.line ELSE l
           t == IF doing THEN [s EXCEPT !.mode = "enable"] ELSE s
           c == Resolve(line.tok, t.mode)
           q == Run(w, d, t, c, line)
<1>0. s.mode \in Modes /\ ShellShape(s)
  BY DEF ShellOk
<1>1. CASE doing /\ l.sub = ""
  <2>1. r = Refused(w, s)
    BY <1>1 DEF Dispatch
  <2>2. r.w = w
    BY <2>1 DEF Refused, Result
  <2> QED
    BY <2>2
<1>2. CASE doing /\ l.sub # ""
  <2>1. r = [q EXCEPT !.s.mode = s.mode]
    BY <1>2 DEF Dispatch, Restored
  <2>2. t = [s EXCEPT !.mode = "enable"]
    BY <1>2
  <2>3. t.mode = "enable" /\ t.mode \in Modes
    BY <1>0, <2>2 DEF ShellShape, Modes
  <2>4. NetworkOk(t, c, line)
    BY <2>3 DEF NetworkOk
  <2> HIDE DEF t, c, line
  <2>5. IsResult(q)
    BY <2>3, RunResult
  <2>6. Sound(lab, q.w)
    BY <2>3, <2>4, RunSound
  <2> HIDE DEF q
  <2>7. r.w = q.w
    BY <2>1, <2>5 DEF IsResult, Result
  <2> QED
    BY <2>6, <2>7
<1>3. CASE ~doing
  <2>1. r = Run(w, d, s, Resolve(l.tok, s.mode), l)
    BY <1>3 DEF Dispatch, Restored
  <2>2. NetworkOk(s, Resolve(l.tok, s.mode), l)
    BY DEF LineOk, NetworkOk
  <2> QED
    BY <1>0, <2>1, <2>2, RunSound
<1> QED
  BY <1>1, <1>2, <1>3

LEMMA FeedSound ==
    ASSUME NEW lab \in Labs, NEW w, Sound(lab, w), NEW d \in DOMAIN lab.role, lab.role[d] # "pc",
           NEW s, ShellOk(s), NEW l, LineOk(l), NEW r, r = Feed(w, d, s, l)
    PROVE  Sound(lab, r.w)
<1>1. CASE s.more > 0
  <2>1. r.w = w
    BY <1>1 DEF Feed, Result
  <2> QED
    BY <2>1
<1>2. CASE ~(s.more > 0) /\ l = Blank
  <2>1. r.w = w
    BY <1>2 DEF Feed, Result
  <2> QED
    BY <2>1
<1>3. CASE ~(s.more > 0) /\ l # Blank
  <2> DEFINE q == Dispatch(w, d, s, l)
  <2>1. r = HeldBack(q)
    BY <1>3 DEF Feed
  <2>2. IsResult(q) /\ Sound(lab, q.w)
    BY DispatchShellOk, DispatchSound
  <2> HIDE DEF q
  <2>3. r.w = q.w
    BY <2>1, <2>2 DEF HeldBack, IsResult, Result
  <2> QED
    BY <2>2, <2>3
<1> QED
  BY <1>1, <1>2, <1>3

-----------------------------------------------------------------------------
(* Hosts: an address by hand.                                              *)

LEMMA PortsOfLab ==
    ASSUME NEW lab \in Labs, NEW d \in DOMAIN lab.role
    PROVE  lab.ports[d] \subseteq Nat /\ DOMAIN lab.role \subseteq Nat /\ lab.role[d] \in Roles
<1>1. Numbered(lab)
  BY LabAssumption DEF Labs
<1>2. lab.ports[d] \in SUBSET Nat
  BY <1>1 DEF Numbered
<1>3. lab.role \in Seq(Roles)
  BY <1>1 DEF Numbered
<1>4. DOMAIN lab.role = 1..Len(lab.role) /\ Len(lab.role) \in Nat /\ lab.role[d] \in Roles
  BY <1>3
<1> QED
  BY <1>2, <1>4

LEMMA LowestIn ==
    ASSUME NEW S, S \subseteq Nat, S # {} PROVE Lowest(S) \in S
<1>1. \E l \in S : \A m \in S : l <= m
  BY SmallestNumber
<1> QED
  BY <1>1 DEF Lowest

\* The port of a host that is configured.
LEMMA HostPorts ==
    ASSUME NEW lab \in Labs, NEW w, WorldOk(lab, w), NEW d \in DOMAIN lab.role,
           lab.role[d] = "pc", Ifs(w, d) # {}
    PROVE  FirstIf(w, d) \in Ifs(w, d) /\ HostIf(w, d) \in Ifs(w, d)
<1>1. Ifs(w, d) \subseteq Nat
  BY WorldParts, PortsOfLab DEF PortsOk, Ifs
<1>2. FirstIf(w, d) \in Ifs(w, d)
  BY <1>1, LowestIn DEF FirstIf
<1> DEFINE wired == {p \in Ifs(w, d) : \E t \in LinkEnds(w) :
                       <<d, p>> \in {<<t[1], t[2]>>, <<t[3], t[4]>>}}
<1>3. wired \subseteq Nat /\ wired \subseteq Ifs(w, d)
  BY <1>1
<1>4. HostIf(w, d) = IF wired # {} THEN Lowest(wired) ELSE FirstIf(w, d)
  BY DEF HostIf
<1> HIDE DEF wired
<1>5. wired # {} => Lowest(wired) \in wired
  BY <1>3, LowestIn
<1> QED
  BY <1>2, <1>3, <1>4, <1>5

\* A port of a host after an address: enabled, with or without its own mind
\* about the line protocol.
LEMMA AddressedPort ==
    ASSUME NEW f, IfOk(f), NEW ip, NEW mask
    PROVE  /\ IfOk([f EXCEPT !.ip = ip, !.mask = mask, !.admin = TRUE, !.proto = TRUE,
                             !.leased = FALSE])
           /\ IfOk([f EXCEPT !.ip = ip, !.mask = mask, !.admin = TRUE, !.leased = TRUE])
<1>1. ASSUME NEW x, IfOk(x), NEW v
      PROVE  /\ IfOk([x EXCEPT !.ip = v]) /\ IfOk([x EXCEPT !.mask = v]) /\ IfOk([x EXCEPT !.leased = v])
             /\ IfOk([x EXCEPT !.admin = TRUE]) /\ IfOk([x EXCEPT !.proto = TRUE])
  <2>1. IfOk([x EXCEPT !.ip = v])
    BY ONLY <1>1 DEF IfOk
  <2>2. IfOk([x EXCEPT !.mask = v])
    BY ONLY <1>1 DEF IfOk
  <2>3. IfOk([x EXCEPT !.leased = v])
    BY ONLY <1>1 DEF IfOk
  <2>4. \A b \in BOOLEAN : IfOk([x EXCEPT !.admin = b])
    BY ONLY <1>1 DEF IfOk
  <2>5. \A b \in BOOLEAN : IfOk([x EXCEPT !.proto = b])
    BY ONLY <1>1 DEF IfOk
  <2> QED
    BY <2>1, <2>2, <2>3, <2>4, <2>5
<1> DEFINE f1 == [f EXCEPT !.ip = ip]
           f2 == [f1 EXCEPT !.mask = mask]
           f3 == [f2 EXCEPT !.admin = TRUE]
           f4 == [f3 EXCEPT !.proto = TRUE]
           f5 == [f4 EXCEPT !.leased = FALSE]
           f6 == [f3 EXCEPT !.leased = TRUE]
<1>2. f5 = [f EXCEPT !.ip = ip, !.mask = mask, !.admin = TRUE, !.proto = TRUE, !.leased = FALSE]
      /\ f6 = [f EXCEPT !.ip = ip, !.mask = mask, !.admin = TRUE, !.leased = TRUE]
  OBVIOUS
<1>3. IfOk(f3)
  <2>1. IfOk(f1)
    BY <1>1
  <2>2. IfOk(f2)
    <3> HIDE DEF f1
    <3> QED
      BY <1>1, <2>1
  <2> HIDE DEF f2
  <2> QED
    BY <1>1, <2>2
<1>4. IfOk(f5) /\ IfOk(f6)
  <2> HIDE DEF f3
  <2>1. IfOk(f4) /\ IfOk(f6)
    BY <1>1, <1>3
  <2> HIDE DEF f4
  <2> QED
    BY <1>1, <2>1
<1> QED
  BY <1>2, <1>4

\* The port of d is f and its gateway gw.
Addressed(w, d, p, f, gw) ==
    SetDev(w, d, [w.dev[d] EXCEPT !.if = [w.dev[d].if EXCEPT ![p] = f], !.gw = gw])

LEMMA AddressedOk ==
    ASSUME NEW lab \in Labs, NEW w, WorldOk(lab, w), NEW d \in DOMAIN lab.role,
           NEW p \in Ifs(w, d), NEW f, IfOk(f), NEW gw, NEW v, v = Addressed(w, d, p, f, gw)
    PROVE  /\ WorldOk(lab, v) /\ (LeaseUniqueOf(w) => LeaseUniqueOf(v))
           /\ v.dev[d].if[p] = f /\ v.dev[d].gw = gw /\ v.dev[d].leases = w.dev[d].leases
           /\ DOMAIN v.dev[d].if = DOMAIN w.dev[d].if
           /\ \A e \in DOMAIN lab.role : e # d => v.dev[e] = w.dev[e]
<1> DEFINE x == w.dev[d]
           y == [x EXCEPT !.if = [x.if EXCEPT ![p] = f]]
           z == [y EXCEPT !.gw = gw]
<1>1. DeviceOk(x)
  BY WorldParts
<1>2. DeviceOk(y) /\ DOMAIN y.if = DOMAIN x.if /\ y.leases = x.leases /\ y.if[p] = f
  BY <1>1, PortSet DEF Ifs
<1>3. v = SetDev(w, d, z)
  BY DEF Addressed
<1> HIDE DEF y
<1>4. KeepsLinks(y, z) /\ DOMAIN z.if = DOMAIN y.if
  BY <1>2, FieldChange
<1>5. z.if = y.if /\ z.gw = gw
  BY <1>2 DEF DeviceOk
<1> HIDE DEF z
<1>6. DeviceOk(z) /\ z.leases = x.leases /\ DOMAIN z.if = DOMAIN x.if
  BY <1>2, <1>4 DEF KeepsLinks
<1>7. /\ WorldOk(lab, v) /\ v.dev[d] = z
      /\ \A e \in DOMAIN lab.role : e # d => v.dev[e] = w.dev[e]
      /\ z.leases = w.dev[d].leases /\ LeaseUniqueOf(w) => LeaseUniqueOf(v)
  BY <1>3, <1>6, DeviceSet
<1> QED
  BY <1>2, <1>5, <1>6, <1>7

LEMMA HostAddressSound ==
    ASSUME NEW lab \in Labs, NEW w, Sound(lab, w), NEW d \in DOMAIN lab.role,
           lab.role[d] = "pc", Ifs(w, d) # {}, NEW l
    PROVE  Sound(lab, HostAddress(w, d, l))
<1> DEFINE p == FirstIf(w, d)
           g == IfOf(w, d, p)
           f == [g EXCEPT !.ip = l.ip, !.mask = l.mask, !.admin = TRUE,
                          !.proto = TRUE, !.leased = FALSE]
           gw == GuessGateway(w.dev[d].gw, f)
           v == Addressed(w, d, p, f, gw)
           x == w.dev[d]
           y == [x EXCEPT !.if = [x.if EXCEPT ![p] = f]]
<1>1. WorldOk(lab, w) /\ LeaseUniqueOf(w)
  BY DEF Sound
<1>2. p \in Ifs(w, d)
  BY <1>1, HostPorts
<1>3. IfOk(g)
  BY <1>1, <1>2, WorldParts DEF DeviceOk, Ifs, IfOf
<1>4. IfOk(f)
  <2> HIDE DEF g
  <2> QED
    BY <1>3, AddressedPort
<1>5. HostAddress(w, d, l) = RefreshLinkState(v)
  <2>1. HostAddress(w, d, l) = RefreshLinkState([SetIf(w, d, p, f) EXCEPT !.dev[d].gw = GuessGateway(@, f)])
    BY DEF HostAddress
  <2> HIDE DEF f, p
  <2>2. SetIf(w, d, p, f) = SetDev(w, d, y)
    BY DEF SetIf, SetDev
  <2>3. SetDev(w, d, y).dev[d] = y
    <3> HIDE DEF y
    <3>1. /\ w = [role |-> lab.role, links |-> lab.links, dev |-> w.dev, ospf |-> w.ospf, arp |-> w.arp]
          /\ w.dev = [e \in DOMAIN lab.role |-> w.dev[e]]
      BY <1>1 DEF WorldOk
    <3> QED
      BY <3>1 DEF SetDev
  <2>4. DeviceOk(x)
    BY <1>1, WorldParts
  <2>5. y.gw = x.gw
    BY <2>4 DEF DeviceOk
  <2>6. [SetDev(w, d, y) EXCEPT !.dev[d].gw = GuessGateway(@, f)]
          = [SetDev(w, d, y) EXCEPT !.dev[d] = [y EXCEPT !.gw = gw]]
    <3> DEFINE u == SetDev(w, d, y)
    <3>1. u.dev[d] = y /\ GuessGateway(u.dev[d].gw, f) = gw
      <4> HIDE DEF y
      <4> QED
        BY <2>3, <2>5
    <3> HIDE DEF u, y, gw
    <3>2. [u EXCEPT !.dev[d].gw = GuessGateway(@, f)] = [u EXCEPT !.dev[d] = [u.dev[d] EXCEPT !.gw = gw]]
      BY ONLY <3>1
    <3> QED
      BY <3>1, <3>2 DEF u
  <2>7. [SetDev(w, d, y) EXCEPT !.dev[d] = [y EXCEPT !.gw = gw]] = SetDev(w, d, [y EXCEPT !.gw = gw])
    <3> HIDE DEF y, gw
    <3>1. /\ w = [role |-> lab.role, links |-> lab.links, dev |-> w.dev, ospf |-> w.ospf, arp |-> w.arp]
          /\ w.dev = [e \in DOMAIN lab.role |-> w.dev[e]]
      BY <1>1 DEF WorldOk
    <3> QED
      BY <3>1 DEF SetDev
  <2>8. SetDev(w, d, [y EXCEPT !.gw = gw]) = v
    BY DEF Addressed
  <2> QED
    BY <2>1, <2>2, <2>6, <2>7, <2>8
<1> HIDE DEF v, f, p, gw
<1>6. WorldOk(lab, v) /\ LeaseUniqueOf(v)
  BY <1>1, <1>2, <1>4, AddressedOk DEF v
<1>7. Sound(lab, RefreshLinkState(v))
  BY <1>6, RefreshRight DEF Sound
<1> QED
  BY <1>5, <1>7

-----------------------------------------------------------------------------
(* Hosts: a leased address.                                                *)

LEMMA NetNumbers ==
    ASSUME NEW ip \in Nat, NEW size \in Nat \ {0}
    PROVE  Hosts(Net(ip, size)) \subseteq Nat
<1>1. ip \div size \in Nat
  OBVIOUS
<1>2. (ip \div size) * size \in Nat
  BY <1>1
<1> DEFINE base == (ip \div size) * size
<1>3. Net(ip, size) = [base |-> base, size |-> size]
  BY DEF Net
<1>4. base \in Nat
  BY <1>2
<1> HIDE DEF base
<1> QED
  BY <1>3, <1>4 DEF Hosts

\* What a pool offers is free.
LEMMA OfferFree ==
    ASSUME NEW w, NEW r, NEW pool, PoolOk(pool), NEW pc, PoolOffer(w, r, pool, pc) # None
    PROVE  PoolOffer(w, r, pool, pc) \notin UsedIps(w, pc) \cup {pool.gw}
<1> DEFINE net == Net(pool.net, pool.mask)
           used == UsedIps(w, pc) \cup {pool.gw}
           free(ip) == ip \notin used /\ ~Excluded(pool, ip)
           open == {ip \in Hosts(net) : free(ip)}
           held == IF pc \in DOMAIN w.dev[r].leases THEN w.dev[r].leases[pc] ELSE None
           ip0 == PoolOffer(w, r, pool, pc)
<1>0. ip0 = IF pool.net = None \/ pool.mask = None \/ ~ServesNetwork(w, r, net) THEN None
            ELSE IF held # None /\ Within(held, net) /\ free(held) THEN held
            ELSE IF open = {} THEN None ELSE Lowest(open)
  BY DEF PoolOffer
<1>1. /\ pool.net # None /\ pool.mask # None
      /\ (ip0 = held /\ free(held)) \/ (open # {} /\ ip0 = Lowest(open))
  <2>1. ip0 # None
    OBVIOUS
  <2> HIDE DEF ip0, held, open, free
  <2> QED
    BY <1>0, <2>1
<1>2. pool.net \in Nat /\ pool.mask \in Nat \ {0}
  BY <1>1 DEF PoolOk
<1>3. open \subseteq Nat
  BY <1>2, NetNumbers
<1>4. open # {} => Lowest(open) \in open
  <2> HIDE DEF open
  <2> QED
    BY <1>3, LowestIn
<1> HIDE DEF ip0, held
<1>5. ip0 \notin used
  BY <1>1, <1>4
<1> QED
  BY <1>5 DEF ip0

LEMMA FirstOfferIn ==
    ASSUME NEW S, S \subseteq Nat \X Nat, S # {} PROVE FirstOffer(S) \in S
<1> DEFINE R == {x[1] : x \in S}
<1>1. R \subseteq Nat /\ R # {}
  OBVIOUS
<1>2. PICK r \in R : \A q \in R : r <= q
  <2> HIDE DEF R
  <2> QED
    BY <1>1, SmallestNumber
<1> DEFINE T == {x[2] : x \in {y \in S : y[1] = r}}
<1>3. T \subseteq Nat /\ T # {}
  BY <1>2
<1>4. PICK t \in T : \A q \in T : t <= q
  <2> HIDE DEF T
  <2> QED
    BY <1>3, SmallestNumber
<1>5. PICK x \in S : x[1] = r /\ x[2] = t
  BY <1>4
<1>6. \A y \in S : x[1] < y[1] \/ (x[1] = y[1] /\ x[2] <= y[2])
  <2> TAKE y \in S
  <2>1. y[1] \in R /\ y[1] \in Nat /\ y[2] \in Nat /\ r \in Nat /\ r <= y[1]
    BY <1>1, <1>2
  <2>2. y[1] = r => t <= y[2]
    BY <1>4
  <2> QED
    BY <1>5, <2>1, <2>2
<1> QED
  BY <1>5, <1>6 DEF FirstOffer

LEMMA LeasesChange ==
    ASSUME NEW x, DeviceOk(x), NEW leases, leases = [c \in DOMAIN leases |-> leases[c]],
           \A c \in DOMAIN leases : leases[c] # None, NEW y, y = [x EXCEPT !.leases = leases]
    PROVE  DeviceOk(y) /\ y.if = x.if /\ y.leases = leases /\ y.pools = x.pools
<1>1. x = [hostname |-> x.hostname, if |-> x.if, vlans |-> x.vlans, routes |-> x.routes,
            globals |-> x.globals, startup |-> x.startup, nat |-> x.nat, pools |-> x.pools,
            leases |-> x.leases, gw |-> x.gw]
  BY DEF DeviceOk
<1>2. /\ y = [hostname |-> y.hostname, if |-> y.if, vlans |-> y.vlans, routes |-> y.routes,
            globals |-> y.globals, startup |-> y.startup, nat |-> y.nat, pools |-> y.pools,
            leases |-> y.leases, gw |-> y.gw]
      /\ y.if = x.if /\ y.pools = x.pools /\ y.leases = leases
  BY <1>1
<1>3. DeviceOk(y)
  <2>1. DeviceOk(x) /\ leases = [c \in DOMAIN leases |-> leases[c]]
        /\ \A c \in DOMAIN leases : leases[c] # None
    OBVIOUS
  <2> QED
    BY ONLY <1>2, <2>1 DEF DeviceOk
<1> QED
  BY <1>2, <1>3

\* The addresses others use depend on the addresses of the ports and on the
\* leases of the others.
SameUse(lab, w, v, pc) ==
    \A e \in DOMAIN lab.role :
       /\ DOMAIN v.dev[e].if = DOMAIN w.dev[e].if
       /\ e # pc => \A p \in DOMAIN w.dev[e].if : v.dev[e].if[p].ip = w.dev[e].if[p].ip
       /\ DOMAIN v.dev[e].leases \ {pc} = DOMAIN w.dev[e].leases \ {pc}
       /\ \A c \in DOMAIN w.dev[e].leases \ {pc} : v.dev[e].leases[c] = w.dev[e].leases[c]

LEMMA UsedSame ==
    ASSUME NEW lab, NEW w, NEW v, NEW pc, Devs(w) = DOMAIN lab.role, Devs(v) = DOMAIN lab.role,
           SameUse(lab, w, v, pc)
    PROVE  UsedIps(v, pc) = UsedIps(w, pc)
<1> DEFINE D == DOMAIN lab.role
           ends(u) == {y \in (D \ {pc}) \X UNION {Ifs(u, e) : e \in D} : y[2] \in Ifs(u, y[1])}
           ips(u) == {IfOf(u, x[1], x[2]).ip : x \in ends(u)}
           held(u, e) == {u.dev[e].leases[c] : c \in DOMAIN u.dev[e].leases \ {pc}}
<1>1. ends(v) = ends(w)
  <2>1. \A e \in D : Ifs(v, e) = Ifs(w, e)
    BY DEF SameUse, Ifs
  <2>2. UNION {Ifs(v, e) : e \in D} = UNION {Ifs(w, e) : e \in D}
    BY <2>1
  <2> QED
    BY <2>1, <2>2
<1>2. \A x \in ends(w) : IfOf(v, x[1], x[2]).ip = IfOf(w, x[1], x[2]).ip
  BY DEF SameUse, IfOf, Ifs
<1>3. ips(v) = ips(w)
  <2> HIDE DEF ends
  <2> QED
    BY <1>1, <1>2
<1>4. \A e \in D : held(v, e) = held(w, e)
  BY DEF SameUse
<1>5. UNION {held(v, e) : e \in D} = UNION {held(w, e) : e \in D}
  <2> HIDE DEF held
  <2> QED
    BY <1>4
<1>6. UsedIps(w, pc) = (ips(w) \cup UNION {held(w, e) : e \in D}) \ {None}
  BY DEF UsedIps
<1>7. UsedIps(v, pc) = (ips(v) \cup UNION {held(v, e) : e \in D}) \ {None}
  BY DEF UsedIps
<1> HIDE DEF ips, held
<1> QED
  BY <1>3, <1>5, <1>6, <1>7

\* A lease: the address is bound on the port of the host and written down by
\* the router.
BindFacts(lab, w, pc, p, r, pool, ip, v) ==
    /\ Sound(lab, v)
    /\ v.dev[pc].if[p].ip = ip /\ v.dev[pc].gw = pool.gw
    /\ SameUse(lab, w, v, pc)

LEMMA BindLeaseIs ==
    ASSUME NEW lab \in Labs, NEW w, Sound(lab, w), NEW pc \in DOMAIN lab.role, lab.role[pc] = "pc",
           NEW p \in Ifs(w, pc), NEW r \in DOMAIN lab.role, r # pc, NEW pool, NEW ip,
           ip # None, ip \notin UsedIps(w, pc), NEW v, v = BindLease(w, pc, p, r, pool, ip)
    PROVE  BindFacts(lab, w, pc, p, r, pool, ip, v)
<1> DEFINE g == IfOf(w, pc, p)
           f == [g EXCEPT !.ip = ip, !.mask = pool.mask, !.admin = TRUE, !.leased = TRUE]
           a == Addressed(w, pc, p, f, pool.gw)
           old == w.dev[r].leases
           leases == [c \in DOMAIN old \cup {pc} |-> IF c = pc THEN ip ELSE old[c]]
           x == w.dev[r]
           y == [x EXCEPT !.leases = leases]
           u == SetDev(a, r, y)
<1>1. WorldOk(lab, w) /\ LeaseUniqueOf(w) /\ Devs(w) = DOMAIN lab.role
  BY WorldParts DEF Sound
<1>2. IfOk(g)
  BY <1>1, WorldParts DEF DeviceOk, Ifs, IfOf
<1>3. IfOk(f) /\ f.ip = ip
  <2> HIDE DEF g
  <2>1. IfOk(f)
    BY <1>2, AddressedPort
  <2>2. f.ip = ip
    BY <1>2 DEF IfOk
  <2> QED
    BY <2>1, <2>2
<1>4. v = RefreshLinkState(u)
  <2> DEFINE b == [w EXCEPT !.dev[pc].if[p] = f, !.dev[pc].gw = pool.gw]
             z == [w.dev[pc] EXCEPT !.if = [w.dev[pc].if EXCEPT ![p] = f], !.gw = pool.gw]
  <2>1. v = RefreshLinkState([b EXCEPT !.dev[r].leases = leases])
    BY DEF BindLease, Tabulated, IfOf
  <2> HIDE DEF f, leases
  <2>2. /\ w = [role |-> lab.role, links |-> lab.links, dev |-> w.dev, ospf |-> w.ospf, arp |-> w.arp]
        /\ w.dev = [e \in DOMAIN lab.role |-> w.dev[e]]
    BY <1>1 DEF WorldOk
  <2>3. DeviceOk(w.dev[pc])
    BY <1>1, WorldParts
  <2>4. b = a
    <3>1. b = [w EXCEPT !.dev[pc] = z]
      BY <2>2, <2>3 DEF DeviceOk
    <3> HIDE DEF b, z
    <3>2. [w EXCEPT !.dev[pc] = z] = SetDev(w, pc, z)
      BY DEF SetDev
    <3> QED
      BY <3>1, <3>2 DEF Addressed, z
  <2>5. a.dev[r] = x
    <3> HIDE DEF z, b
    <3>1. a = SetDev(w, pc, z)
      BY DEF Addressed, z
    <3> HIDE DEF a
    <3> QED
      BY <2>2, <3>1 DEF SetDev
  <2>6. [b EXCEPT !.dev[r].leases = leases] = u
    <3> HIDE DEF a, b
    <3> QED
      BY <2>4, <2>5 DEF SetDev
  <2> QED
    BY <2>1, <2>6
<1> HIDE DEF f, a
<1>5. /\ WorldOk(lab, a) /\ a.dev[pc].if[p] = f /\ a.dev[pc].gw = pool.gw
      /\ a.dev[pc].leases = w.dev[pc].leases /\ DOMAIN a.dev[pc].if = DOMAIN w.dev[pc].if
      /\ \A e \in DOMAIN lab.role : e # pc => a.dev[e] = w.dev[e]
  BY <1>1, <1>3, AddressedOk DEF a
<1>6. a.dev[r] = x /\ DeviceOk(x) /\ old = [c \in DOMAIN old |-> old[c]]
      /\ \A c \in DOMAIN old : old[c] # None
  BY <1>1, <1>5, WorldParts DEF DeviceOk
<1>7. leases = [c \in DOMAIN leases |-> leases[c]] /\ DOMAIN leases = DOMAIN old \cup {pc}
      /\ leases[pc] = ip /\ \A c \in DOMAIN old : c # pc => leases[c] = old[c]
  OBVIOUS
<1> HIDE DEF leases
<1>8. DeviceOk(y) /\ y.if = x.if /\ y.leases = leases
  <2>1. \A c \in DOMAIN leases : leases[c] # None
    BY <1>6, <1>7
  <2> HIDE DEF x
  <2> QED
    BY <1>6, <1>7, <2>1, LeasesChange
<1> HIDE DEF y
<1>9. /\ WorldOk(lab, u) /\ u.dev[r] = y
      /\ \A e \in DOMAIN lab.role : e # r => u.dev[e] = a.dev[e]
  <2> HIDE DEF x
  <2>1. DOMAIN a.dev[r].if = DOMAIN y.if
    BY <1>6, <1>8
  <2> QED
    BY <1>5, <1>8, <2>1, DeviceSet
<1> HIDE DEF u
<1>10. LeaseUniqueOf(u)
  <2>1. Devs(u) = DOMAIN lab.role
    BY <1>9, WorldParts
  <2>2. ASSUME NEW e \in DOMAIN lab.role, NEW c \in DOMAIN u.dev[e].leases
        PROVE  \/ e = r /\ c = pc /\ u.dev[e].leases[c] = ip
               \/ c \in DOMAIN w.dev[e].leases /\ u.dev[e].leases[c] = w.dev[e].leases[c]
    BY <1>5, <1>7, <1>8, <1>9, <2>2
  <2>3. ASSUME NEW e \in DOMAIN lab.role, NEW c \in DOMAIN w.dev[e].leases, c # pc
        PROVE  w.dev[e].leases[c] # ip
    <3>0. DeviceOk(w.dev[e])
      BY <1>1, WorldParts
    <3>1. w.dev[e].leases[c] # None
      BY <3>0 DEF DeviceOk
    <3>2. w.dev[e].leases[c] # None => w.dev[e].leases[c] \in UsedIps(w, pc)
      BY <1>1, <2>3 DEF UsedIps
    <3> QED
      BY <3>1, <3>2
  <2>4. ASSUME NEW e \in DOMAIN lab.role, NEW c \in DOMAIN lab.role, c \in DOMAIN u.dev[e].leases,
               NEW h \in DOMAIN lab.role, NEW k \in DOMAIN lab.role, k \in DOMAIN u.dev[h].leases,
               c # k
        PROVE  u.dev[e].leases[c] # u.dev[h].leases[k]
    <3>1. \/ e = r /\ c = pc /\ u.dev[e].leases[c] = ip
          \/ c \in DOMAIN w.dev[e].leases /\ u.dev[e].leases[c] = w.dev[e].leases[c]
      BY <2>2, <2>4
    <3>2. \/ h = r /\ k = pc /\ u.dev[h].leases[k] = ip
          \/ k \in DOMAIN w.dev[h].leases /\ u.dev[h].leases[k] = w.dev[h].leases[k]
      BY <2>2, <2>4
    <3>3. c \in DOMAIN w.dev[e].leases /\ k \in DOMAIN w.dev[h].leases
            => w.dev[e].leases[c] # w.dev[h].leases[k]
      <4>1. c \in DOMAIN w.dev[e].leases /\ k \in DOMAIN w.dev[h].leases
              => <<e, c>> \in LeasesOf(w) /\ <<h, k>> \in LeasesOf(w)
        BY <1>1 DEF LeasesOf
      <4> QED
        BY <1>1, <2>4, <4>1 DEF LeaseUniqueOf, Leased
    <3> QED
      BY <2>3, <2>4, <3>1, <3>2, <3>3
  <2> QED
    BY <2>1, <2>4 DEF LeaseUniqueOf, LeasesOf, Leased
<1>11. Sound(lab, v) /\ v.dev = Refreshed(lab, u.dev)
  BY <1>4, <1>9, <1>10, RefreshRight DEF Sound
<1>12. ASSUME NEW e \in DOMAIN lab.role
       PROVE  /\ DOMAIN v.dev[e].if = DOMAIN u.dev[e].if /\ v.dev[e].leases = u.dev[e].leases
              /\ v.dev[e].gw = u.dev[e].gw
              /\ \A q \in DOMAIN u.dev[e].if : v.dev[e].if[q].ip = u.dev[e].if[q].ip
  <2>1. DeviceOk(u.dev[e])
    BY <1>9, WorldParts
  <2>2. RefreshedFrom(lab, u.dev, e, u.dev[e], v.dev[e])
    BY <1>11, <2>1, RefreshedDevices
  <2>3. \A q \in DOMAIN u.dev[e].if : IfOk(u.dev[e].if[q])
    BY <2>1 DEF DeviceOk
  <2> DEFINE m == v.dev[e]
             n == u.dev[e]
  <2>4. m = [n EXCEPT !.if = m.if] /\ DOMAIN m.if = DOMAIN n.if /\ m.leases = n.leases
    BY <2>2 DEF RefreshedFrom
  <2>5. m.gw = n.gw
    <3> HIDE DEF m, n
    <3> QED
      BY <2>1, <2>4 DEF DeviceOk, n
  <2>6. ASSUME NEW q \in DOMAIN n.if PROVE m.if[q].ip = n.if[q].ip
    <3>1. m.if[q] = [n.if[q] EXCEPT !.proto = Proto(lab, u.dev, e, q)] /\ IfOk(n.if[q])
      BY <2>2, <2>3 DEF RefreshedFrom
    <3> HIDE DEF m, n
    <3> QED
      BY <3>1 DEF IfOk
  <2> QED
    BY <2>4, <2>5, <2>6
<1>13. v.dev[pc].if[p].ip = ip /\ v.dev[pc].gw = pool.gw
  <2>1. u.dev[pc] = a.dev[pc] /\ pc \in DOMAIN lab.role
    BY <1>9
  <2>2. p \in DOMAIN a.dev[pc].if
    BY <1>5 DEF Ifs
  <2> QED
    BY <1>3, <1>5, <1>12, <2>1, <2>2
<1>14. SameUse(lab, w, v, pc)
  <2> SUFFICES ASSUME NEW e \in DOMAIN lab.role
               PROVE  /\ DOMAIN v.dev[e].if = DOMAIN w.dev[e].if
                      /\ e # pc => \A q \in DOMAIN w.dev[e].if : v.dev[e].if[q].ip = w.dev[e].if[q].ip
                      /\ DOMAIN v.dev[e].leases \ {pc} = DOMAIN w.dev[e].leases \ {pc}
                      /\ \A c \in DOMAIN w.dev[e].leases \ {pc} :
                            v.dev[e].leases[c] = w.dev[e].leases[c]
    BY DEF SameUse
  <2>1. /\ DOMAIN v.dev[e].if = DOMAIN u.dev[e].if /\ v.dev[e].leases = u.dev[e].leases
        /\ \A q \in DOMAIN u.dev[e].if : v.dev[e].if[q].ip = u.dev[e].if[q].ip
    BY <1>12
  <2>2. CASE e = r
    <3>1. u.dev[e].if = w.dev[e].if /\ u.dev[e].leases = leases
      BY <1>8, <1>9, <2>2
    <3> QED
      BY <1>7, <2>1, <2>2, <3>1
  <2>3. CASE e # r
    <3>1. u.dev[e] = a.dev[e]
      BY <1>9, <2>3
    <3>2. e # pc => a.dev[e] = w.dev[e]
      BY <1>5
    <3>3. a.dev[e].leases = w.dev[e].leases /\ DOMAIN a.dev[e].if = DOMAIN w.dev[e].if
      BY <1>5
    <3> HIDE DEF a
    <3> QED
      BY <2>1, <3>1, <3>2, <3>3
  <2> QED
    BY <2>2, <2>3
<1> QED
  BY <1>11, <1>13, <1>14 DEF BindFacts

\* ipconfig /renew: nothing changes, or the host has an address nobody has.
Renewal(lab, w, pc, v) ==
    /\ Sound(lab, v)
    /\ \/ v = w
       \/ v.dev[pc].if[HostIf(w, pc)].ip \notin UsedIps(v, pc) \cup {v.dev[pc].gw}

LEMMA OffersKnown ==
    ASSUME NEW lab \in Labs, NEW w, Sound(lab, w), NEW pc \in DOMAIN lab.role
    PROVE  /\ Offers(Wires(w), pc) \subseteq Nat \X Nat
           /\ \A x \in Offers(Wires(w), pc) :
                 /\ x[1] \in DOMAIN lab.role /\ lab.role[x[1]] = "router"
                 /\ x[2] \in DOMAIN w.dev[x[1]].pools
                 /\ PoolOffer(Wires(w), x[1], w.dev[x[1]].pools[x[2]], pc) # None
           /\ UsedIps(Wires(w), pc) = UsedIps(w, pc)
<1> DEFINE u == Wires(w)
<1>1. WorldOk(lab, w) /\ Devs(w) = DOMAIN lab.role /\ w.role = lab.role
  BY WorldParts DEF Sound
<1>2. u.dev = w.dev /\ u.role = lab.role /\ Devs(u) = DOMAIN lab.role
  BY <1>1 DEF Wires, Devs
<1> HIDE DEF u
<1>3. ASSUME NEW x \in Offers(u, pc)
      PROVE  /\ x[1] \in DOMAIN lab.role /\ lab.role[x[1]] = "router"
             /\ x[2] \in DOMAIN w.dev[x[1]].pools
             /\ PoolOffer(u, x[1], w.dev[x[1]].pools[x[2]], pc) # None
             /\ x = <<x[1], x[2]>>
  BY <1>2 DEF Offers, Role
<1>4. Offers(u, pc) \subseteq Nat \X Nat
  <2> SUFFICES ASSUME NEW x \in Offers(u, pc) PROVE x[1] \in Nat /\ x[2] \in Nat
    BY <1>3
  <2>1. x[1] \in Nat /\ x[1] \in DOMAIN lab.role /\ x[2] \in DOMAIN w.dev[x[1]].pools
    BY <1>3, PortsOfLab
  <2>2. DOMAIN w.dev[x[1]].pools \subseteq Nat
    <3>1. IsSequence(w.dev[x[1]].pools)
      BY <2>1, PoolsOf
    <3> DEFINE q == w.dev[x[1]].pools
    <3>2. DOMAIN q = 1..Len(q) /\ Len(q) \in Nat
      <4> HIDE DEF q
      <4> QED
        BY <3>1, Lists DEF q
    <3> HIDE DEF q
    <3>3. DOMAIN q \subseteq Nat
      BY <3>2
    <3> QED
      BY <3>3 DEF q
  <2> QED
    BY <2>1, <2>2
<1>5. SameUse(lab, w, u, pc)
  BY <1>2 DEF SameUse
<1>6. UsedIps(u, pc) = UsedIps(w, pc)
  BY <1>1, <1>2, <1>5, UsedSame
<1> QED
  BY <1>3, <1>4, <1>6 DEF u

LEMMA OfferStep ==
    ASSUME NEW lab \in Labs, NEW w, Sound(lab, w), NEW pc \in DOMAIN lab.role,
           NEW v, v = OfferDhcp(w, pc)
    PROVE  Renewal(lab, w, pc, v)
<1>1. WorldOk(lab, w) /\ LinkProtocolOf(w) /\ w.role = lab.role
  BY WorldParts DEF Sound
<1>2. CASE lab.role[pc] # "pc" \/ Ifs(w, pc) = {}
  BY <1>1, <1>2 DEF OfferDhcp, Role, Renewal
<1>3. CASE lab.role[pc] = "pc" /\ Ifs(w, pc) # {}
  <2> DEFINE answers == Offers(Wires(w), pc)
             o == FirstOffer(answers)
             r == o[1]
             pool == w.dev[r].pools[o[2]]
             ip == PoolOffer(Wires(w), r, pool, pc)
             p == HostIf(w, pc)
  <2>1. v = TakeOffer(w, pc, answers)
    <3>1. RefreshLinkState(w) = w
      BY <1>1, RefreshIdle
    <3> QED
      BY <1>1, <1>3, <3>1 DEF OfferDhcp, Role, Renewed
  <2>2. v = IF answers = {} THEN w ELSE BindLease(w, pc, p, r, pool, ip)
    BY <2>1 DEF TakeOffer
  <2>3. CASE answers = {}
    BY <2>2, <2>3 DEF Renewal
  <2>4. CASE answers # {}
    <3>1. o \in answers
      <4>1. answers \subseteq Nat \X Nat
        BY OffersKnown
      <4> HIDE DEF answers
      <4> QED
        BY <2>4, <4>1, FirstOfferIn
    <3> HIDE DEF o
    <3>2. r \in DOMAIN lab.role /\ lab.role[r] = "router" /\ o[2] \in DOMAIN w.dev[r].pools
          /\ ip # None
      BY <3>1, OffersKnown
    <3>3. r # pc /\ UsedIps(Wires(w), pc) = UsedIps(w, pc)
      BY <1>3, <3>2, OffersKnown
    <3>4. PoolOk(pool)
      BY <3>2, PoolsOf
    <3> HIDE DEF r, pool
    <3>5. ip \notin UsedIps(Wires(w), pc) \cup {pool.gw}
      BY <3>2, <3>4, OfferFree
    <3>6. p \in Ifs(w, pc)
      BY <1>1, <1>3, HostPorts
    <3> HIDE DEF ip, p
    <3>7. v = BindLease(w, pc, p, r, pool, ip)
      BY <2>2, <2>4
    <3>8. BindFacts(lab, w, pc, p, r, pool, ip, v)
      BY <1>3, <3>2, <3>3, <3>5, <3>6, <3>7, BindLeaseIs
    <3>9. UsedIps(v, pc) = UsedIps(w, pc)
      <4>1. Devs(v) = DOMAIN lab.role /\ Devs(w) = DOMAIN lab.role
        BY <1>1, <3>8, WorldParts DEF BindFacts, Sound
      <4> QED
        BY <3>8, <4>1, UsedSame DEF BindFacts
    <3> QED
      BY <3>3, <3>5, <3>8, <3>9 DEF BindFacts, Renewal, p
  <2> QED
    BY <2>3, <2>4
<1> QED
  BY <1>2, <1>3

\* Every line on a host keeps the world sound.
LEMMA HostFeedSound ==
    ASSUME NEW lab \in Labs, NEW w, Sound(lab, w), NEW d \in DOMAIN lab.role, lab.role[d] = "pc",
           NEW l
    PROVE  Sound(lab, HostFeed(w, d, l))
<1>1. CASE l.tok = "ipconfig" /\ l.sub = "renew"
  BY <1>1, OfferStep DEF HostFeed, Renewal
<1>2. CASE l.tok = "ip" /\ l.sub = "address" /\ Ifs(w, d) # {}
  BY <1>2, HostAddressSound DEF HostFeed
<1>3. CASE l.tok = "ping" /\ l.sub # ""
  <2>1. HostFeed(w, d, l) = Ping(w, d, l.ip)
    BY <1>3 DEF HostFeed
  <2>2. Sound(lab, Ping(w, d, l.ip))
    BY PingSame DEF SameWires
  <2> QED
    BY <2>1, <2>2
<1>4. CASE l.tok = "tracert" /\ l.sub # ""
  <2>1. HostFeed(w, d, l) = Converge(w)
    BY <1>4 DEF HostFeed
  <2> QED
    BY <2>1, SmallSteps
<1>5. CASE /\ ~(l.tok = "ipconfig" /\ l.sub = "renew")
           /\ ~(l.tok = "ip" /\ l.sub = "address" /\ Ifs(w, d) # {})
           /\ ~(l.tok = "ping" /\ l.sub # "") /\ ~(l.tok = "tracert" /\ l.sub # "")
  <2>1. HostFeed(w, d, l) = w
    BY <1>5 DEF HostFeed
  <2> QED
    BY <2>1
<1> QED
  BY <1>1, <1>2, <1>3, <1>4, <1>5

-----------------------------------------------------------------------------
(* A new world.                                                            *)

LEMMA NewDeviceOk ==
    ASSUME NEW lab \in Labs, NEW d \in DOMAIN lab.role
    PROVE  /\ DeviceOk(NewDevice(lab, d)) /\ PortsOk(lab, d, NewDevice(lab, d))
           /\ DOMAIN NewDevice(lab, d).leases = {}
<1> DEFINE role == lab.role[d]
           ifs == [p \in lab.ports[d] |-> NewIf(role # "router", lab.addr[d][p].ip, lab.addr[d][p].mask)]
           first == IF ifs = <<>> THEN NewIf(FALSE, None, None) ELSE ifs[Lowest(DOMAIN ifs)]
           vlans == IF role = "switch" THEN [v \in {1} |-> "default"] ELSE <<>>
           gw == IF role = "pc" /\ first.ip # None THEN GuessGateway(None, first) ELSE None
           x == [hostname |-> d, if |-> ifs, vlans |-> vlans,
                 routes |-> <<>>, globals |-> <<>>, startup |-> <<>>,
                 nat |-> None, pools |-> <<>>, leases |-> [c \in {} |-> None], gw |-> gw]
<1>1. NewDevice(lab, d) = x
  BY DEF NewDevice
<1>2. ASSUME NEW admin \in BOOLEAN, NEW ip, NEW mask PROVE IfOk(NewIf(admin, ip, mask))
  BY DEF IfOk, NewIf
<1>3. DOMAIN ifs = lab.ports[d] /\ ifs = [p \in DOMAIN ifs |-> ifs[p]]
      /\ \A p \in DOMAIN ifs : IfOk(ifs[p])
  BY <1>2
<1> HIDE DEF ifs, vlans, gw
<1>4. IsSequence(<<>>) /\ DOMAIN <<>> = {}
  BY DEF IsSequence
<1>5. x.if = ifs /\ x.pools = <<>> /\ x.leases = [c \in {} |-> None]
  OBVIOUS
<1>6. x = [hostname |-> x.hostname, if |-> x.if, vlans |-> x.vlans, routes |-> x.routes,
            globals |-> x.globals, startup |-> x.startup, nat |-> x.nat, pools |-> x.pools,
            leases |-> x.leases, gw |-> x.gw]
  OBVIOUS
<1> HIDE DEF x
<1>7. DOMAIN x.leases = {} /\ x.leases = [c \in DOMAIN x.leases |-> x.leases[c]]
  BY <1>5
<1>8. DeviceOk(x) /\ PortsOk(lab, d, x)
  BY <1>3, <1>4, <1>5, <1>6, <1>7 DEF DeviceOk, PortsOk
<1> QED
  BY <1>1, <1>7, <1>8

LEMMA WorldSound ==
    ASSUME NEW lab \in Labs PROVE Sound(lab, World(lab))
<1> DEFINE dev == [d \in DOMAIN lab.role |-> NewDevice(lab, d)]
           ospf == [d \in DOMAIN lab.role |-> <<>>]
           arp == [d \in DOMAIN lab.role |-> {}]
           w == [role |-> lab.role, links |-> lab.links, dev |-> dev, ospf |-> ospf, arp |-> arp]
<1>1. World(lab) = RefreshLinkState(w)
  BY DEF World, Tabulated
<1> HIDE DEF ospf, arp
<1>2. w.dev = dev /\ w.ospf = ospf /\ w.arp = arp
  OBVIOUS
<1>3. \A d \in DOMAIN lab.role : /\ dev[d] = NewDevice(lab, d)
                                 /\ DeviceOk(dev[d]) /\ PortsOk(lab, d, dev[d])
                                 /\ DOMAIN dev[d].leases = {}
  BY NewDeviceOk
<1>4. dev = [d \in DOMAIN lab.role |-> dev[d]]
  OBVIOUS
<1> HIDE DEF dev
<1>5. WorldOk(lab, w)
  BY <1>2, <1>3, <1>4 DEF WorldOk
<1>6. LeaseUniqueOf(w)
  <2>1. Devs(w) = DOMAIN lab.role
    BY <1>5, WorldParts
  <2>2. LeasesOf(w) = {}
    BY <1>3, <2>1 DEF LeasesOf
  <2> QED
    BY <2>2 DEF LeaseUniqueOf
<1> HIDE DEF w
<1> QED
  BY <1>1, <1>5, <1>6, RefreshRight DEF Sound

-----------------------------------------------------------------------------
(* Scripts: sequences of <<device, line>>.                                 *)

LEMMA Joined ==
    ASSUME NEW a, NEW b, IsSequence(a), IsSequence(b)
    PROVE  /\ IsSequence(a \o b) /\ Len(a \o b) = Len(a) + Len(b)
           /\ \A i \in DOMAIN a : i \in DOMAIN (a \o b) /\ (a \o b)[i] = a[i]
           /\ \A i \in DOMAIN (a \o b) : \/ i \in DOMAIN a /\ (a \o b)[i] = a[i]
                                         \/ i - Len(a) \in DOMAIN b /\ (a \o b)[i] = b[i - Len(a)]
<1> DEFINE S == {a[i] : i \in DOMAIN a} \cup {b[i] : i \in DOMAIN b}
<1>1. a \in Seq(S) /\ b \in Seq(S)
  <2>1. a \in Seq({a[i] : i \in DOMAIN a}) /\ b \in Seq({b[i] : i \in DOMAIN b})
    BY DEF IsSequence
  <2>2. {a[i] : i \in DOMAIN a} \subseteq S /\ {b[i] : i \in DOMAIN b} \subseteq S
    OBVIOUS
  <2> HIDE DEF S
  <2> QED
    BY <2>1, <2>2
<1> HIDE DEF S
<1>2. /\ a \o b \in Seq(S) /\ Len(a \o b) = Len(a) + Len(b)
      /\ Len(a) \in Nat /\ Len(b) \in Nat
      /\ DOMAIN a = 1..Len(a) /\ DOMAIN b = 1..Len(b) /\ DOMAIN (a \o b) = 1..Len(a) + Len(b)
      /\ \A i \in 1..Len(a) + Len(b) :
            (a \o b)[i] = IF i <= Len(a) THEN a[i] ELSE b[i - Len(a)]
  BY <1>1, ConcatProperties
<1> DEFINE c == a \o b
<1>3. c \in Seq(S) /\ Len(c) = Len(a) + Len(b)
  BY <1>2
<1> HIDE DEF c
<1>4. IsSequence(c)
  <2>1. c = [i \in 1..Len(c) |-> c[i]] /\ Len(c) \in Nat
    BY <1>3
  <2> QED
    BY <2>1, ListOf
<1>5. ASSUME NEW i \in DOMAIN c
      PROVE  \/ i \in DOMAIN a /\ c[i] = a[i]
             \/ i - Len(a) \in DOMAIN b /\ c[i] = b[i - Len(a)]
  BY <1>2 DEF c
<1>6. \A i \in DOMAIN a : i \in DOMAIN c /\ c[i] = a[i]
  BY <1>2 DEF c
<1> QED
  BY <1>2, <1>4, <1>5, <1>6 DEF c

LineFor(lab, x) == x[1] \in DOMAIN lab.role /\ LineOk(x[2])

ScriptOk(lab, q) == IsSequence(q) /\ \A i \in DOMAIN q : LineFor(lab, q[i])

LEMMA NoScript == ASSUME NEW lab PROVE ScriptOk(lab, <<>>)
  BY DEF ScriptOk, IsSequence

LEMMA ScriptGrows ==
    ASSUME NEW lab, NEW q, ScriptOk(lab, q), NEW d \in DOMAIN lab.role, NEW l, LineOk(l)
    PROVE  ScriptOk(lab, Append(q, <<d, l>>))
<1>1. LineFor(lab, <<d, l>>)
  BY DEF LineFor
<1> DEFINE x == <<d, l>>
<1> HIDE DEF x
<1> QED
  BY <1>1, ListGrows DEF ScriptOk, x

LEMMA ScriptsJoined ==
    ASSUME NEW lab, NEW a, NEW b, ScriptOk(lab, a), ScriptOk(lab, b)
    PROVE  ScriptOk(lab, a \o b)
<1>1. IsSequence(a) /\ IsSequence(b)
  BY DEF ScriptOk
<1>2. /\ IsSequence(a \o b)
      /\ \A i \in DOMAIN (a \o b) : \/ i \in DOMAIN a /\ (a \o b)[i] = a[i]
                                    \/ i - Len(a) \in DOMAIN b /\ (a \o b)[i] = b[i - Len(a)]
  BY <1>1, Joined
<1> QED
  BY <1>2 DEF ScriptOk

\* The lines the program types itself.
LEMMA OwnLines == LineOk(Enable) /\ LineOk(ConfigureTerminal) /\ LineOk(EndLine)
<1>1. Resolve("configure", "config-dhcp") # "network"
  <2>1. \A c \in DOMAIN Abbrevs : "configure" \notin Abbrevs[c]
    BY AbbrevAssumption
  <2>2. {c \in Commands("config-dhcp") : c \in DOMAIN Abbrevs /\ "configure" \in Abbrevs[c]} = {}
    BY <2>1
  <2>3. "configure" \notin Commands("config-dhcp")
    BY DEF Commands
  <2>4. Cardinality({}) # 1
    BY FS_EmptySet
  <2> QED
    BY <2>2, <2>3, <2>4 DEF Resolve
<1> QED
  BY <1>1 DEF LineOk, Enable, ConfigureTerminal, EndLine

-----------------------------------------------------------------------------
(* The base configurations.                                                *)

\* What is typed on a device.
BaseLines(lab, d) ==
    IF lab.base[d] = <<>> \/ lab.role[d] = "pc" THEN lab.base[d]
    ELSE <<Enable, ConfigureTerminal>> \o lab.base[d] \o <<EndLine>>

BaseOn(lab, d) == [i \in DOMAIN BaseLines(lab, d) |-> <<d, BaseLines(lab, d)[i]>>]

LEMMA BaseLinesOk ==
    ASSUME NEW lab \in Labs, NEW d \in DOMAIN lab.role
    PROVE  IsSequence(BaseLines(lab, d)) /\ \A i \in DOMAIN BaseLines(lab, d) : LineOk(BaseLines(lab, d)[i])
<1>1. IsSequence(lab.base[d]) /\ \A i \in DOMAIN lab.base[d] : LineOk(lab.base[d][i])
  BY ScriptAssumption DEF Labs
<1> DEFINE b == lab.base[d]
           a == <<Enable, ConfigureTerminal>>
           c == <<EndLine>>
<1>2. IsSequence(a) /\ \A i \in DOMAIN a : LineOk(a[i])
  <2>1. a = [i \in 1..2 |-> a[i]] /\ a[1] = Enable /\ a[2] = ConfigureTerminal
    OBVIOUS
  <2> HIDE DEF a
  <2>2. IsSequence(a) /\ DOMAIN a = 1..2
    BY <2>1, ListOf
  <2> QED
    BY <2>1, <2>2, OwnLines
<1>3. IsSequence(c) /\ \A i \in DOMAIN c : LineOk(c[i])
  <2>1. c = [i \in 1..1 |-> c[i]] /\ c[1] = EndLine
    OBVIOUS
  <2> HIDE DEF c
  <2>2. IsSequence(c) /\ DOMAIN c = 1..1
    BY <2>1, ListOf
  <2> QED
    BY <2>1, <2>2, OwnLines
<1> HIDE DEF a, b, c
<1>4. IsSequence(a \o b) /\ \A i \in DOMAIN (a \o b) : LineOk((a \o b)[i])
  <2>1. IsSequence(b) /\ \A i \in DOMAIN b : LineOk(b[i])
    BY <1>1 DEF b
  <2>2. /\ IsSequence(a \o b)
        /\ \A i \in DOMAIN (a \o b) : \/ i \in DOMAIN a /\ (a \o b)[i] = a[i]
                                      \/ i - Len(a) \in DOMAIN b /\ (a \o b)[i] = b[i - Len(a)]
    BY <1>2, <2>1, Joined
  <2> QED
    BY <1>2, <2>1, <2>2
<1> DEFINE e == a \o b
<1>5. IsSequence(e \o c) /\ \A i \in DOMAIN (e \o c) : LineOk((e \o c)[i])
  <2> HIDE DEF e
  <2>1. IsSequence(e) /\ \A i \in DOMAIN e : LineOk(e[i])
    BY <1>4 DEF e
  <2>2. /\ IsSequence(e \o c)
        /\ \A i \in DOMAIN (e \o c) : \/ i \in DOMAIN e /\ (e \o c)[i] = e[i]
                                      \/ i - Len(e) \in DOMAIN c /\ (e \o c)[i] = c[i - Len(e)]
    BY <1>3, <2>1, Joined
  <2> QED
    BY <1>3, <2>1, <2>2
<1>6. BaseLines(lab, d) = b \/ BaseLines(lab, d) = e \o c
  BY DEF BaseLines, a, b, c
<1> HIDE DEF e
<1> QED
  BY <1>1, <1>5, <1>6 DEF b

LEMMA BaseOnOk ==
    ASSUME NEW lab \in Labs, NEW d \in DOMAIN lab.role
    PROVE  ScriptOk(lab, BaseOn(lab, d))
<1> DEFINE b == BaseLines(lab, d)
           q == BaseOn(lab, d)
<1>1. IsSequence(b) /\ \A i \in DOMAIN b : LineOk(b[i])
  BY BaseLinesOk
<1>2. q = [i \in DOMAIN b |-> <<d, b[i]>>]
  BY DEF BaseOn
<1> HIDE DEF b, q
<1>3. DOMAIN b = 1..Len(b) /\ Len(b) \in Nat
  BY <1>1, Lists
<1>4. q = [i \in 1..Len(b) |-> q[i]] /\ \A i \in 1..Len(b) : q[i] = <<d, b[i]>>
  BY <1>2, <1>3
<1>5. IsSequence(q) /\ DOMAIN q = 1..Len(b)
  BY <1>3, <1>4, ListOf
<1>6. ASSUME NEW i \in DOMAIN q PROVE LineFor(lab, q[i])
  <2>1. q[i][1] = d /\ q[i][2] = b[i] /\ i \in DOMAIN b
    BY <1>3, <1>4, <1>5
  <2> QED
    BY <1>1, <2>1 DEF LineFor
<1> QED
  BY <1>5, <1>6 DEF ScriptOk, q

\* Block after block.
BaseRun(lab, n, g) ==
    g = [i \in 0..n |-> IF i = 0 THEN <<>>
                        ELSE g[i - 1] \o BaseOn(lab, [d \in DOMAIN lab.role |-> d][i])]

LEMMA BaseRunExists == ASSUME NEW lab, NEW n \in Nat PROVE \E g : BaseRun(lab, n, g)
<1> DEFINE Bad == {k \in Nat : ~\E g : BaseRun(lab, k, g)}
<1> SUFFICES ASSUME Bad # {} PROVE FALSE
  OBVIOUS
<1>1. PICK k \in Bad : \A m \in Bad : k <= m
  BY SmallestNumber
<1>2. k # 0
  <2>1. BaseRun(lab, 0, [i \in 0..0 |-> <<>>])
    BY DEF BaseRun
  <2> QED
    BY <1>1, <2>1
<1>3. k - 1 \in Nat /\ k - 1 \notin Bad
  BY <1>1, <1>2
<1>4. PICK h : BaseRun(lab, k - 1, h)
  BY <1>3
<1> DEFINE last == h[k - 1] \o BaseOn(lab, [d \in DOMAIN lab.role |-> d][k])
           g == [i \in 0..k |-> IF i = k THEN last ELSE h[i]]
<1>5. \A i \in 0..k - 1 : h[i] = IF i = 0 THEN <<>>
                                 ELSE h[i - 1] \o BaseOn(lab, [d \in DOMAIN lab.role |-> d][i])
  BY <1>4 DEF BaseRun
<1> HIDE DEF last
<1>6. \A i \in 0..k : g[i] = IF i = k THEN last ELSE h[i]
  OBVIOUS
<1>7. DOMAIN g = 0..k /\ g = [i \in 0..k |-> g[i]]
  OBVIOUS
<1> HIDE DEF g
<1>8. ASSUME NEW i \in 0..k
      PROVE  g[i] = IF i = 0 THEN <<>>
                    ELSE g[i - 1] \o BaseOn(lab, [d \in DOMAIN lab.role |-> d][i])
  <2>1. CASE i = k
    <3>1. g[i - 1] = h[k - 1] /\ g[i] = last
      BY <1>2, <1>3, <1>6, <2>1
    <3> QED
      BY <1>2, <2>1, <3>1 DEF last
  <2>2. CASE i # k
    <3>1. i \in 0..k - 1 /\ g[i] = h[i]
      BY <1>3, <1>6, <2>2
    <3>2. i # 0 => g[i - 1] = h[i - 1]
      BY <1>3, <1>6, <2>2
    <3> QED
      BY <1>5, <3>1, <3>2
  <2> QED
    BY <2>1, <2>2
<1>9. BaseRun(lab, k, g)
  BY <1>7, <1>8 DEF BaseRun
<1> QED
  BY <1>1, <1>9

LEMMA BaseScriptOk ==
    ASSUME NEW lab \in Labs PROVE ScriptOk(lab, BaseScript(lab))
<1> DEFINE n == Len([d \in DOMAIN lab.role |-> d])
           g == CHOOSE f : BaseRun(lab, n, f)
<1>1. BaseScript(lab) = g[n]
  BY DEF BaseScript, Blocks, BaseRun, BaseOn, BaseLines
<1>2. /\ DOMAIN lab.role = 1..Len(lab.role) /\ Len(lab.role) \in Nat
  BY LabAssumption DEF Labs, Numbered
<1>3. n = Len(lab.role)
  <2> DEFINE q == [d \in DOMAIN lab.role |-> d]
  <2>1. q = [d \in 1..Len(lab.role) |-> q[d]]
    BY <1>2
  <2> HIDE DEF q
  <2>2. Len(q) = Len(lab.role)
    BY <1>2, <2>1, ListOf
  <2> QED
    BY <2>2 DEF q
<1> HIDE DEF n
<1>4. BaseRun(lab, n, g)
  BY <1>2, <1>3, BaseRunExists
<1> HIDE DEF g
<1> DEFINE Bad == {k \in 0..n : ~ScriptOk(lab, g[k])}
<1>5. CASE Bad # {}
  <2>1. PICK k \in Bad : \A m \in Bad : k <= m
    <3>1. Bad \subseteq Nat
      BY <1>2, <1>3
    <3> HIDE DEF Bad
    <3> QED
      BY <1>5, <3>1, SmallestNumber
  <2>2. g[k] = IF k = 0 THEN <<>> ELSE g[k - 1] \o BaseOn(lab, [d \in DOMAIN lab.role |-> d][k])
    BY <1>4, <2>1 DEF BaseRun
  <2>3. k # 0
    BY <2>1, <2>2, NoScript
  <2>4. k \in 1..n /\ k - 1 \in 0..n /\ k - 1 \notin Bad /\ k \in DOMAIN lab.role
    BY <1>2, <1>3, <2>1, <2>3
  <2>5. ScriptOk(lab, g[k - 1])
    BY <2>4
  <2>6. g[k] = g[k - 1] \o BaseOn(lab, k)
    BY <2>2, <2>3, <2>4
  <2> QED
    BY <2>1, <2>4, <2>5, <2>6, BaseOnOk, ScriptsJoined
<1>6. CASE Bad = {}
  <2>1. n \in 0..n
    BY <1>2, <1>3
  <2> QED
    BY <1>1, <1>6, <2>1
<1> QED
  BY <1>5, <1>6

-----------------------------------------------------------------------------
(* Sessions.                                                               *)

SessShape(s) ==
    s = [lab |-> s.lab, w |-> s.w, sh |-> s.sh, task |-> s.task, grades |-> s.grades,
         finished |-> s.finished, log |-> s.log]

ShellsOk(lab, sh) ==
    /\ sh = [d \in DOMAIN lab.role |-> sh[d]]
    /\ \A d \in DOMAIN lab.role : ShellOk(sh[d])

SessOk(s) ==
    /\ SessShape(s)
    /\ s.lab \in DOMAIN LabOf
    /\ Sound(LabOf[s.lab], s.w)
    /\ ShellsOk(LabOf[s.lab], s.sh)
    /\ ScriptOk(LabOf[s.lab], s.log)

\* What a line on a device leaves alone.
SameRun(s, t) ==
    t.lab = s.lab /\ t.task = s.task /\ t.grades = s.grades /\ t.finished = s.finished

Worked(s, w, sh) == [s EXCEPT !.w = w, !.sh = sh]

LEMMA SessChange ==
    ASSUME NEW s, SessOk(s), NEW w, Sound(LabOf[s.lab], w), NEW sh, ShellsOk(LabOf[s.lab], sh),
           NEW t, t = Worked(s, w, sh)
    PROVE  SessOk(t) /\ SameRun(s, t) /\ t.w = w /\ t.sh = sh /\ t.log = s.log
<1>1. /\ t.lab = s.lab /\ t.w = w /\ t.sh = sh /\ t.task = s.task /\ t.grades = s.grades
      /\ t.finished = s.finished /\ t.log = s.log /\ SessShape(t)
  BY DEF SessOk, SessShape, Worked
<1> QED
  BY <1>1 DEF SessOk, SameRun

Relogged(s, log) == [s EXCEPT !.log = log]

LEMMA LogChange ==
    ASSUME NEW s, SessOk(s), NEW log, ScriptOk(LabOf[s.lab], log),
           NEW t, t = Relogged(s, log)
    PROVE  SessOk(t) /\ SameRun(s, t) /\ t.w = s.w /\ t.sh = s.sh /\ t.log = log
<1>1. /\ t.lab = s.lab /\ t.w = s.w /\ t.sh = s.sh /\ t.task = s.task /\ t.grades = s.grades
      /\ t.finished = s.finished /\ t.log = log /\ SessShape(t)
  BY DEF SessOk, SessShape, Relogged
<1> QED
  BY <1>1 DEF SessOk, SameRun

LEMMA LoggedOk ==
    ASSUME NEW s, SessOk(s), NEW d \in DOMAIN LabOf[s.lab].role, NEW l, LineOk(l),
           NEW t, t = Logged(s, d, l)
    PROVE  SessOk(t) /\ SameRun(s, t) /\ t.w = s.w /\ t.sh = s.sh
<1> DEFINE log == Append(s.log, <<d, l>>)
<1>1. ScriptOk(LabOf[s.lab], log)
  BY ScriptGrows DEF SessOk
<1>2. t = s \/ t = Relogged(s, log)
  BY DEF Logged, Relogged
<1> HIDE DEF log
<1>3. CASE t = s
  BY <1>3 DEF SameRun
<1>4. CASE t = Relogged(s, log)
  BY <1>1, <1>4, LogChange
<1> QED
  BY <1>2, <1>3, <1>4

LEMMA FeedDeviceOk ==
    ASSUME NEW s, SessOk(s), NEW d \in DOMAIN LabOf[s.lab].role, NEW l, LineOk(l),
           NEW t, t = FeedDevice(s, d, l)
    PROVE  SessOk(t) /\ SameRun(s, t) /\ t.log = s.log
<1> DEFINE lab == LabOf[s.lab]
           r == Feed(s.w, d, s.sh[d], l)
<1>1. lab \in Labs /\ s.w.role = lab.role /\ Sound(lab, s.w) /\ SessShape(s) /\ ShellsOk(lab, s.sh)
  BY WorldParts DEF SessOk, Labs, Sound
<1> HIDE DEF lab
<1>2. d \in DOMAIN lab.role
  BY DEF lab
<1>3. CASE lab.role[d] = "pc"
  <2> DEFINE v == HostFeed(s.w, d, l)
  <2>1. t = [s EXCEPT !.w = v]
    BY <1>1, <1>3 DEF FeedDevice, IsHost, Role
  <2>2. Sound(lab, v)
    BY <1>1, <1>2, <1>3, HostFeedSound
  <2> HIDE DEF v
  <2>3. t = Worked(s, v, s.sh)
    BY <1>1, <2>1 DEF SessShape, Worked
  <2> QED
    BY <1>1, <2>2, <2>3, SessChange DEF lab
<1>4. CASE lab.role[d] # "pc"
  <2> DEFINE sh == [s.sh EXCEPT ![d] = r.s]
  <2>1. t = [s EXCEPT !.w = r.w, !.sh[d] = r.s]
    BY <1>1, <1>4 DEF FeedDevice, IsHost, Role, Took
  <2>2. ShellOk(s.sh[d])
    BY <1>1, <1>2 DEF ShellsOk
  <2>3. ShellOk(r.s) /\ Sound(lab, r.w)
    BY <1>1, <1>2, <1>4, <2>2, FeedShellOk, FeedSound
  <2> HIDE DEF r
  <2>4. t = Worked(s, r.w, sh)
    BY <1>1, <2>1 DEF SessShape, Worked
  <2>5. ShellsOk(lab, sh)
    BY <1>1, <1>2, <2>3 DEF ShellsOk
  <2> HIDE DEF sh
  <2> QED
    BY <2>3, <2>4, <2>5, SessChange DEF lab
<1> QED
  BY <1>3, <1>4

LEMMA LoggedFeedOk ==
    ASSUME NEW s, SessOk(s), NEW x, LineFor(LabOf[s.lab], x)
    PROVE  LET t == LoggedFeed(s, x[1], x[2]) IN SessOk(t) /\ SameRun(s, t)
<1> DEFINE u == Logged(s, x[1], x[2])
           t == FeedDevice(u, x[1], x[2])
<1>1. SessOk(u) /\ SameRun(s, u)
  BY LoggedOk DEF LineFor
<1>2. t = LoggedFeed(s, x[1], x[2])
  BY DEF LoggedFeed
<1> HIDE DEF u
<1>3. x[1] \in DOMAIN LabOf[u.lab].role /\ LineOk(x[2])
  BY <1>1 DEF SameRun, LineFor
<1>4. SessOk(t) /\ SameRun(u, t)
  BY <1>1, <1>3, FeedDeviceOk
<1> HIDE DEF t
<1> QED
  BY <1>1, <1>2, <1>4 DEF SameRun

-----------------------------------------------------------------------------
(* Line after line.                                                        *)

FeedRun(s, script, n, g) ==
    g = [i \in 0..n |-> IF i = 0 THEN s ELSE LoggedFeed(g[i - 1], script[i][1], script[i][2])]

LEMMA FeedRunExists == ASSUME NEW s, NEW script, NEW n \in Nat PROVE \E g : FeedRun(s, script, n, g)
<1> DEFINE Bad == {k \in Nat : ~\E g : FeedRun(s, script, k, g)}
<1> SUFFICES ASSUME Bad # {} PROVE FALSE
  OBVIOUS
<1>1. PICK k \in Bad : \A m \in Bad : k <= m
  BY SmallestNumber
<1>2. k # 0
  <2>1. FeedRun(s, script, 0, [i \in 0..0 |-> s])
    BY DEF FeedRun
  <2> QED
    BY <1>1, <2>1
<1>3. k - 1 \in Nat /\ k - 1 \notin Bad
  BY <1>1, <1>2
<1>4. PICK h : FeedRun(s, script, k - 1, h)
  BY <1>3
<1> DEFINE last == LoggedFeed(h[k - 1], script[k][1], script[k][2])
           g == [i \in 0..k |-> IF i = k THEN last ELSE h[i]]
<1>5. \A i \in 0..k - 1 :
         h[i] = IF i = 0 THEN s ELSE LoggedFeed(h[i - 1], script[i][1], script[i][2])
  BY <1>4 DEF FeedRun
<1> HIDE DEF last
<1>6. \A i \in 0..k : g[i] = IF i = k THEN last ELSE h[i]
  OBVIOUS
<1>7. DOMAIN g = 0..k /\ g = [i \in 0..k |-> g[i]]
  OBVIOUS
<1> HIDE DEF g
<1>8. ASSUME NEW i \in 0..k
      PROVE  g[i] = IF i = 0 THEN s ELSE LoggedFeed(g[i - 1], script[i][1], script[i][2])
  <2>1. CASE i = k
    <3>1. g[i - 1] = h[k - 1] /\ g[i] = last
      BY <1>2, <1>3, <1>6, <2>1
    <3> QED
      BY <1>2, <2>1, <3>1 DEF last
  <2>2. CASE i # k
    <3>1. i \in 0..k - 1 /\ g[i] = h[i]
      BY <1>3, <1>6, <2>2
    <3>2. i # 0 => g[i - 1] = h[i - 1]
      BY <1>3, <1>6, <2>2
    <3> QED
      BY <1>5, <3>1, <3>2
  <2> QED
    BY <2>1, <2>2
<1>9. FeedRun(s, script, k, g)
  BY <1>7, <1>8 DEF FeedRun
<1> QED
  BY <1>1, <1>9

\* The session after each line of a script.
LEMMA FeedAllRun ==
    ASSUME NEW s, NEW script, Len(script) \in Nat
    PROVE  \E g : /\ FeedAll(s, script) = g[Len(script)] /\ g[0] = s
                  /\ \A i \in 1..Len(script) : g[i] = LoggedFeed(g[i - 1], script[i][1], script[i][2])
<1> DEFINE n == Len(script)
           g == CHOOSE f : FeedRun(s, script, n, f)
<1>1. FeedAll(s, script) = g[n]
  BY DEF FeedAll, FeedRun
<1>2. FeedRun(s, script, n, g)
  BY FeedRunExists
<1> HIDE DEF g, n
<1>3. n \in Nat
  BY DEF n
<1>4. \A i \in 0..n : g[i] = IF i = 0 THEN s ELSE LoggedFeed(g[i - 1], script[i][1], script[i][2])
  BY <1>2 DEF FeedRun
<1>5. g[0] = s
  BY <1>3, <1>4
<1>6. \A i \in 1..n : g[i] = LoggedFeed(g[i - 1], script[i][1], script[i][2])
  BY <1>3, <1>4
<1> QED
  BY <1>1, <1>5, <1>6 DEF n

LEMMA FeedAllOk ==
    ASSUME NEW s, SessOk(s), NEW script, ScriptOk(LabOf[s.lab], script)
    PROVE  SessOk(FeedAll(s, script)) /\ SameRun(s, FeedAll(s, script))
<1>1. Len(script) \in Nat /\ DOMAIN script = 1..Len(script)
  BY Lists DEF ScriptOk
<1> DEFINE n == Len(script)
<1>2. PICK g : /\ FeedAll(s, script) = g[n] /\ g[0] = s
               /\ \A i \in 1..n : g[i] = LoggedFeed(g[i - 1], script[i][1], script[i][2])
  BY <1>1, FeedAllRun
<1> HIDE DEF n
<1> DEFINE Bad == {k \in 0..n : ~(SessOk(g[k]) /\ SameRun(s, g[k]))}
<1>3. n \in Nat /\ DOMAIN script = 1..n
  BY <1>1 DEF n
<1>4. CASE Bad # {}
  <2>1. PICK k \in Bad : \A m \in Bad : k <= m
    <3>1. Bad \subseteq Nat
      BY <1>3
    <3> HIDE DEF Bad
    <3> QED
      BY <1>4, <3>1, SmallestNumber
  <2>2. k # 0
    BY <1>2, <2>1 DEF SameRun
  <2>3. k \in 1..n /\ k - 1 \in 0..n /\ k - 1 \notin Bad
    BY <1>3, <2>1, <2>2
  <2>4. SessOk(g[k - 1]) /\ SameRun(s, g[k - 1])
    BY <2>3
  <2>5. LineFor(LabOf[g[k - 1].lab], script[k])
    BY <1>3, <2>3, <2>4 DEF SameRun, ScriptOk
  <2>6. SessOk(g[k]) /\ SameRun(g[k - 1], g[k])
    BY <1>2, <2>3, <2>4, <2>5, LoggedFeedOk
  <2> QED
    BY <2>1, <2>4, <2>6 DEF SameRun
<1>5. CASE Bad = {}
  <2>1. n \in 0..n
    BY <1>3
  <2> QED
    BY <1>2, <1>5, <2>1
<1> QED
  BY <1>4, <1>5

\* The session before the base configurations.
Fresh(l) ==
    [lab |-> l, w |-> FromLab(l), sh |-> [d \in Devs(FromLab(l)) |-> NewShell],
     task |-> 1, grades |-> <<>>, finished |-> FALSE, log |-> <<>>]

LEMMA FreshOk ==
    ASSUME NEW l \in DOMAIN LabOf
    PROVE  SessOk(Fresh(l)) /\ Fresh(l).lab = l /\ Fresh(l).task = 1 /\ Fresh(l).grades = <<>>
           /\ Fresh(l).finished = FALSE
<1> DEFINE lab == LabOf[l]
           w == FromLab(l)
           sh == [d \in Devs(w) |-> NewShell]
<1>1. lab \in Labs /\ w = World(lab)
  BY DEF Labs, FromLab
<1>2. Sound(lab, w)
  BY <1>1, WorldSound
<1> HIDE DEF w, lab
<1>3. Devs(w) = DOMAIN lab.role
  BY <1>2, WorldParts DEF Sound
<1>4. ShellsOk(lab, sh)
  BY <1>3, NewShellOk DEF ShellsOk
<1> HIDE DEF sh
<1> DEFINE s == [lab |-> l, w |-> w, sh |-> sh, task |-> 1, grades |-> <<>>, finished |-> FALSE,
                 log |-> <<>>]
<1>5. SessShape(s) /\ s.lab = l /\ s.w = w /\ s.sh = sh /\ s.log = <<>> /\ s.task = 1
      /\ s.grades = <<>> /\ s.finished = FALSE
  BY DEF SessShape
<1>6. s = Fresh(l)
  BY DEF Fresh, w, sh
<1> HIDE DEF s
<1>7. ScriptOk(LabOf[s.lab], s.log)
  BY <1>5, NoScript
<1>8. Sound(LabOf[s.lab], s.w) /\ ShellsOk(LabOf[s.lab], s.sh)
  BY <1>2, <1>4, <1>5 DEF lab
<1> QED
  BY <1>5, <1>6, <1>7, <1>8 DEF SessOk

\* A session at its beginning, with the log it has been built from.
NewRun(l, log, t) == SessOk(t) /\ t.lab = l /\ t.task = 1 /\ t.grades = <<>> /\ t.log = log

LEMMA BuildOk ==
    ASSUME NEW l \in DOMAIN LabOf, NEW log, ScriptOk(LabOf[l], log), NEW t, t = Build(l, log)
    PROVE  NewRun(l, log, t)
<1> DEFINE script == BaseScript(LabOf[l]) \o log
           s == Fresh(l)
           u == FeedAll(s, script)
<1>1. t = Relogged(u, log)
  BY DEF Build, Fresh, Relogged
<1>2. SessOk(s) /\ s.lab = l /\ s.task = 1 /\ s.grades = <<>> /\ s.finished = FALSE
  BY FreshOk
<1>3. ScriptOk(LabOf[l], script)
  <2>1. ScriptOk(LabOf[l], BaseScript(LabOf[l]))
    BY BaseScriptOk DEF Labs
  <2> QED
    BY <2>1, ScriptsJoined
<1> HIDE DEF s, script
<1>4. SessOk(u) /\ SameRun(s, u)
  BY <1>2, <1>3, FeedAllOk
<1> HIDE DEF u
<1>5. u.lab = l /\ u.task = 1 /\ u.grades = <<>> /\ u.finished = FALSE
  BY <1>2, <1>4 DEF SameRun
<1>6. SessOk(t) /\ SameRun(u, t) /\ t.log = log
  BY <1>1, <1>4, <1>5, LogChange
<1> QED
  BY <1>5, <1>6 DEF SameRun, NewRun

-----------------------------------------------------------------------------
(* Grading: the pings of a task leave the devices alone.                   *)

VerifyRun(w, verify, n, g) ==
    g = [i \in 0..n |-> IF i = 0 THEN w
                        ELSE Ping(g[i - 1], verify.pings[i].source, verify.pings[i].destination)]

LEMMA VerifyRunExists == ASSUME NEW w, NEW verify, NEW n \in Nat PROVE \E g : VerifyRun(w, verify, n, g)
<1> DEFINE Bad == {k \in Nat : ~\E g : VerifyRun(w, verify, k, g)}
           q == verify.pings
<1> SUFFICES ASSUME Bad # {} PROVE FALSE
  OBVIOUS
<1>1. PICK k \in Bad : \A m \in Bad : k <= m
  BY SmallestNumber
<1>2. k # 0
  <2>1. VerifyRun(w, verify, 0, [i \in 0..0 |-> w])
    BY DEF VerifyRun
  <2> QED
    BY <1>1, <2>1
<1>3. k - 1 \in Nat /\ k - 1 \notin Bad
  BY <1>1, <1>2
<1>4. PICK h : VerifyRun(w, verify, k - 1, h)
  BY <1>3
<1> DEFINE last == Ping(h[k - 1], q[k].source, q[k].destination)
           g == [i \in 0..k |-> IF i = k THEN last ELSE h[i]]
<1>5. \A i \in 0..k - 1 :
         h[i] = IF i = 0 THEN w ELSE Ping(h[i - 1], q[i].source, q[i].destination)
  BY <1>4 DEF VerifyRun
<1> HIDE DEF last
<1>6. \A i \in 0..k : g[i] = IF i = k THEN last ELSE h[i]
  OBVIOUS
<1>7. DOMAIN g = 0..k /\ g = [i \in 0..k |-> g[i]]
  OBVIOUS
<1> HIDE DEF g
<1>8. ASSUME NEW i \in 0..k
      PROVE  g[i] = IF i = 0 THEN w ELSE Ping(g[i - 1], q[i].source, q[i].destination)
  <2>1. CASE i = k
    <3>1. g[i - 1] = h[k - 1] /\ g[i] = last
      BY <1>2, <1>3, <1>6, <2>1
    <3> QED
      BY <1>2, <2>1, <3>1 DEF last
  <2>2. CASE i # k
    <3>1. i \in 0..k - 1 /\ g[i] = h[i]
      BY <1>3, <1>6, <2>2
    <3>2. i # 0 => g[i - 1] = h[i - 1]
      BY <1>3, <1>6, <2>2
    <3> QED
      BY <1>5, <3>1, <3>2
  <2> QED
    BY <2>1, <2>2
<1>9. VerifyRun(w, verify, k, g)
  BY <1>7, <1>8 DEF VerifyRun
<1> QED
  BY <1>1, <1>9

LEMMA SameWiresTwice ==
    ASSUME NEW lab, NEW w, NEW v, NEW u, SameWires(lab, w, v), SameWires(lab, v, u)
    PROVE  SameWires(lab, w, u)
  BY DEF SameWires

\* A check is against the same configuration before and after.
LEMMA ConfigSame ==
    ASSUME NEW lab, NEW w, NEW v, SameWires(lab, w, v), NEW task
    PROVE  ConfigFor(v, task) = ConfigFor(w, task)
<1>1. v.dev = w.dev /\ Devs(v) = Devs(w)
  BY DEF SameWires, Devs
<1> QED
  BY <1>1 DEF ConfigFor

LEMMA VerifySame ==
    ASSUME NEW lab \in Labs, NEW w, Sound(lab, w), NEW verify, IsSequence(verify.pings)
    PROVE  SameWires(lab, w, AfterVerify(w, verify))
<1> DEFINE n == Len(verify.pings)
           g == CHOOSE f : VerifyRun(w, verify, n, f)
           from(i) == verify.pings[i].source
           to(i) == verify.pings[i].destination
<1>1. AfterVerify(w, verify) = g[n]
  BY DEF AfterVerify, VerifyRun
<1>2. n \in Nat
  BY Lists
<1>3. VerifyRun(w, verify, n, g)
  BY <1>2, VerifyRunExists
<1> HIDE DEF g, n
<1>4. \A i \in 0..n : g[i] = IF i = 0 THEN w ELSE Ping(g[i - 1], from(i), to(i))
  BY <1>3 DEF VerifyRun
<1> DEFINE Bad == {k \in 0..n : ~SameWires(lab, w, g[k])}
<1>5. CASE Bad # {}
  <2>1. PICK k \in Bad : \A m \in Bad : k <= m
    <3>1. Bad \subseteq Nat
      BY <1>2
    <3> HIDE DEF Bad
    <3> QED
      BY <1>5, <3>1, SmallestNumber
  <2>2. k # 0
    BY <1>4, <2>1 DEF SameWires
  <2>3. k - 1 \in 0..n /\ k - 1 \notin Bad
    BY <1>2, <2>1, <2>2
  <2>4. SameWires(lab, w, g[k - 1]) /\ Sound(lab, g[k - 1])
    BY <2>3 DEF SameWires
  <2> HIDE DEF from, to
  <2>5. SameWires(lab, g[k - 1], Ping(g[k - 1], from(k), to(k)))
    BY <2>4, PingSame
  <2>6. g[k] = Ping(g[k - 1], from(k), to(k))
    BY <1>4, <2>1, <2>2
  <2> QED
    BY <2>1, <2>4, <2>5, <2>6, SameWiresTwice
<1>6. CASE Bad = {}
  <2>1. n \in 0..n
    BY <1>2
  <2> QED
    BY <1>1, <1>6, <2>1
<1> QED
  BY <1>5, <1>6

\* A verdict depends on the devices and their links alone.
LEMMA FailuresSame ==
    ASSUME NEW lab \in Labs, NEW w, Sound(lab, w), NEW v, SameWires(lab, w, v), NEW verify
    PROVE  VerifyFailures(v, verify) = VerifyFailures(w, verify)
<1>1. Sound(lab, v) /\ Wires(v) = Wires(w) /\ v.dev = w.dev
  BY DEF SameWires
<1>2. CASE verify.pings = <<>>
  <2>1. DOMAIN verify.pings = {}
    BY <1>2
  <2>2. FailuresIn(v, verify) = FailuresIn(w, verify)
    BY <1>1, <2>1 DEF FailuresIn
  <2> QED
    BY <1>2, <2>2 DEF VerifyFailures
<1>3. CASE verify.pings # <<>>
  <2> DEFINE x == Converge(v)
             y == Converge(w)
  <2>1. Wires(x) = Wires(y) /\ x.dev = y.dev /\ x.ospf = y.ospf
    <3>1. Wires(x) = Wires(v) /\ x.dev = v.dev /\ x.ospf = OspfTables(Wires(v), Adjacent(Wires(v)))
      BY <1>1, ConvergeSame DEF SameWires
    <3>2. Wires(y) = Wires(w) /\ y.dev = w.dev /\ y.ospf = OspfTables(Wires(w), Adjacent(Wires(w)))
      BY ConvergeSame DEF SameWires
    <3> QED
      BY <1>1, <3>1, <3>2
  <2> HIDE DEF x, y
  <2>2. ASSUME NEW from, NEW to
        PROVE  CanReach(x, from, to) = CanReach(y, from, to) /\ Explain(x, from, to) = Explain(y, from, to)
    BY <2>1 DEF CanReach, Explain
  <2>3. FailuresIn(x, verify) = FailuresIn(y, verify)
    BY <2>1, <2>2 DEF FailuresIn
  <2> QED
    BY <1>3, <2>3 DEF VerifyFailures, x, y
<1> QED
  BY <1>2, <1>3

LEMMA TasksOf ==
    ASSUME NEW l \in DOMAIN LabOf
    PROVE  /\ Len(Tasks(l)) \in Nat /\ Len(Tasks(l)) # 0 /\ DOMAIN Tasks(l) = 1..Len(Tasks(l))
           /\ \A i \in DOMAIN Tasks(l) : IsSequence(Tasks(l)[i].verify.pings)
<1> DEFINE q == Tasks(l)
<1>1. IsSequence(q) /\ q # <<>> /\ \A i \in DOMAIN q : IsSequence(q[i].verify.pings)
  BY ScriptAssumption
<1> HIDE DEF q
<1>2. Len(q) \in Nat /\ DOMAIN q = 1..Len(q) /\ q = [i \in 1..Len(q) |-> q[i]]
  BY <1>1, Lists
<1>3. Len(q) # 0
  <2>1. q \in Seq({q[i] : i \in DOMAIN q})
    BY <1>1 DEF IsSequence
  <2> QED
    BY <1>1, <2>1
<1> QED
  BY <1>1, <1>2, <1>3 DEF q

\* A session whose current task is one of the lab's.
RunOk(s) == SessOk(s) /\ s.task \in 1..Len(Tasks(s.lab))

LEMMA GradeChange ==
    ASSUME NEW s, SessOk(s), NEW i, NEW g, NEW t, t = SetGrade(s, i, g)
    PROVE  /\ SessOk(t) /\ t.lab = s.lab /\ t.w = s.w /\ t.sh = s.sh /\ t.task = s.task
           /\ t.log = s.log /\ t.finished = s.finished
           /\ DOMAIN t.grades = DOMAIN s.grades \cup {i} /\ t.grades[i] = g
           /\ \A j \in DOMAIN s.grades : j # i => t.grades[j] = s.grades[j]
<1> DEFINE grades == [j \in DOMAIN s.grades \cup {i} |-> IF j = i THEN g ELSE s.grades[j]]
<1>1. t = [s EXCEPT !.grades = grades]
  BY DEF SetGrade
<1>2. DOMAIN grades = DOMAIN s.grades \cup {i} /\ grades[i] = g
      /\ \A j \in DOMAIN s.grades : j # i => grades[j] = s.grades[j]
  OBVIOUS
<1> HIDE DEF grades
<1>3. /\ t.lab = s.lab /\ t.w = s.w /\ t.sh = s.sh /\ t.task = s.task /\ t.grades = grades
      /\ t.finished = s.finished /\ t.log = s.log /\ SessShape(t)
  BY <1>1 DEF SessOk, SessShape
<1> QED
  BY <1>2, <1>3 DEF SessOk

LEMMA WorldChange ==
    ASSUME NEW s, SessOk(s), NEW w, Sound(LabOf[s.lab], w), NEW t, t = [s EXCEPT !.w = w]
    PROVE  SessOk(t) /\ SameRun(s, t) /\ t.w = w /\ t.sh = s.sh /\ t.log = s.log
<1>1. /\ t.lab = s.lab /\ t.w = w /\ t.sh = s.sh /\ t.task = s.task /\ t.grades = s.grades
      /\ t.finished = s.finished /\ t.log = s.log /\ SessShape(t)
  BY DEF SessOk, SessShape
<1> QED
  BY <1>1 DEF SessOk, SameRun

AtTask(s, n) == [s EXCEPT !.task = n]

LEMMA TaskChange ==
    ASSUME NEW s, SessOk(s), NEW n, NEW t, t = AtTask(s, n)
    PROVE  /\ SessOk(t) /\ t.lab = s.lab /\ t.w = s.w /\ t.sh = s.sh /\ t.grades = s.grades
           /\ t.log = s.log /\ t.task = n /\ t.finished = s.finished
<1>1. /\ t.lab = s.lab /\ t.w = s.w /\ t.sh = s.sh /\ t.grades = s.grades
      /\ t.log = s.log /\ SessShape(t) /\ t.task = n /\ t.finished = s.finished
  BY DEF SessOk, SessShape, AtTask
<1> QED
  BY <1>1 DEF SessOk

LEMMA FinishChange ==
    ASSUME NEW s, SessOk(s), NEW t, t = Finish(s)
    PROVE  /\ SessOk(t) /\ t.lab = s.lab /\ t.w = s.w /\ t.sh = s.sh /\ t.grades = s.grades
           /\ t.log = s.log /\ t.task = s.task
<1>1. /\ t.lab = s.lab /\ t.w = s.w /\ t.sh = s.sh /\ t.grades = s.grades
      /\ t.log = s.log /\ SessShape(t) /\ t.task = s.task
  BY DEF SessOk, SessShape, Finish
<1> QED
  BY <1>1 DEF SessOk

\* A submission is graded where it is, a check of the current task also makes
\* it current.
LEMMA SubmitTaskOk ==
    ASSUME NEW s, SessOk(s), NEW i \in DOMAIN Tasks(s.lab), NEW config,
           NEW t, t = SubmitTask(s, i, config)
    PROVE  /\ SessOk(t) /\ t.lab = s.lab /\ t.sh = s.sh /\ t.task = s.task /\ t.log = s.log
           /\ t.finished = s.finished /\ SameWires(LabOf[s.lab], s.w, t.w)
           /\ DOMAIN t.grades = DOMAIN s.grades \cup {i}
           /\ t.grades[i] = GradeTask(s.w, Tasks(s.lab)[i], config)
           /\ \A j \in DOMAIN s.grades : j # i => t.grades[j] = s.grades[j]
<1> DEFINE task == Tasks(s.lab)[i]
           g == GradeTask(s.w, task, config)
           u == SetGrade(s, i, g)
           v == AfterVerify(u.w, task.verify)
<1>1. t = [u EXCEPT !.w = v]
  BY DEF SubmitTask
<1>2. IsSequence(task.verify.pings)
  BY TasksOf DEF SessOk
<1> HIDE DEF task
<1> HIDE DEF g
<1>3. /\ SessOk(u) /\ u.lab = s.lab /\ u.w = s.w /\ u.sh = s.sh /\ u.task = s.task
      /\ u.log = s.log /\ u.finished = s.finished
      /\ DOMAIN u.grades = DOMAIN s.grades \cup {i} /\ u.grades[i] = g
      /\ \A j \in DOMAIN s.grades : j # i => u.grades[j] = s.grades[j]
  BY GradeChange
<1> HIDE DEF u
<1>4. SameWires(LabOf[s.lab], s.w, v)
  BY <1>2, <1>3, VerifySame DEF SessOk, Labs
<1> HIDE DEF v
<1>5. SessOk(t) /\ SameRun(u, t) /\ t.w = v /\ t.sh = u.sh /\ t.log = u.log
  BY <1>1, <1>3, <1>4, WorldChange DEF SameWires
<1> QED
  BY <1>3, <1>4, <1>5 DEF SameRun, g, task

LEMMA CheckTaskOk ==
    ASSUME NEW s, SessOk(s), NEW i \in DOMAIN Tasks(s.lab), NEW t, t = CheckTask(s, i)
    PROVE  /\ SessOk(t) /\ t.lab = s.lab /\ t.sh = s.sh /\ t.task = i /\ t.log = s.log
           /\ t.finished = s.finished /\ SameWires(LabOf[s.lab], s.w, t.w)
           /\ DOMAIN t.grades = DOMAIN s.grades \cup {i}
           /\ t.grades[i] = GradeTask(s.w, Tasks(s.lab)[i], ConfigFor(s.w, Tasks(s.lab)[i]))
           /\ \A j \in DOMAIN s.grades : j # i => t.grades[j] = s.grades[j]
<1> DEFINE config == ConfigFor(s.w, Tasks(s.lab)[i])
           u == SubmitTask(s, i, config)
<1>1. t = AtTask(u, i)
  <2> DEFINE a == SetGrade(s, i, GradeTask(s.w, Tasks(s.lab)[i], config))
             v == AfterVerify(a.w, Tasks(s.lab)[i].verify)
  <2>1. t = [a EXCEPT !.w = v, !.task = i] /\ u = [a EXCEPT !.w = v]
    BY DEF CheckTask, SubmitTask
  <2>2. SessShape(a)
    <3> HIDE DEF config
    <3> QED
      BY GradeChange DEF SessOk
  <2> HIDE DEF a, v
  <2> QED
    BY <2>1, <2>2 DEF SessShape, AtTask
<1> HIDE DEF config
<1>2. /\ SessOk(u) /\ u.lab = s.lab /\ u.sh = s.sh /\ u.task = s.task /\ u.log = s.log
      /\ u.finished = s.finished /\ SameWires(LabOf[s.lab], s.w, u.w)
      /\ DOMAIN u.grades = DOMAIN s.grades \cup {i}
      /\ u.grades[i] = GradeTask(s.w, Tasks(s.lab)[i], config)
      /\ \A j \in DOMAIN s.grades : j # i => u.grades[j] = s.grades[j]
  BY SubmitTaskOk
<1> HIDE DEF u
<1>3. /\ SessOk(t) /\ t.lab = u.lab /\ t.w = u.w /\ t.sh = u.sh /\ t.grades = u.grades
      /\ t.log = u.log /\ t.task = i /\ t.finished = u.finished
  BY <1>1, <1>2, TaskChange
<1> QED
  BY <1>2, <1>3 DEF config

CheckRun(s, n, g) == g = [i \in 0..n |-> IF i = 0 THEN s ELSE CheckTask(g[i - 1], i)]

LEMMA CheckRunExists == ASSUME NEW s, NEW n \in Nat PROVE \E g : CheckRun(s, n, g)
<1> DEFINE Bad == {k \in Nat : ~\E g : CheckRun(s, k, g)}
<1> SUFFICES ASSUME Bad # {} PROVE FALSE
  OBVIOUS
<1>1. PICK k \in Bad : \A m \in Bad : k <= m
  BY SmallestNumber
<1>2. k # 0
  <2>1. CheckRun(s, 0, [i \in 0..0 |-> s])
    BY DEF CheckRun
  <2> QED
    BY <1>1, <2>1
<1>3. k - 1 \in Nat /\ k - 1 \notin Bad
  BY <1>1, <1>2
<1>4. PICK h : CheckRun(s, k - 1, h)
  BY <1>3
<1> DEFINE last == CheckTask(h[k - 1], k)
           g == [i \in 0..k |-> IF i = k THEN last ELSE h[i]]
<1>5. \A i \in 0..k - 1 : h[i] = IF i = 0 THEN s ELSE CheckTask(h[i - 1], i)
  BY <1>4 DEF CheckRun
<1> HIDE DEF last
<1>6. \A i \in 0..k : g[i] = IF i = k THEN last ELSE h[i]
  OBVIOUS
<1>7. DOMAIN g = 0..k /\ g = [i \in 0..k |-> g[i]]
  OBVIOUS
<1> HIDE DEF g
<1>8. ASSUME NEW i \in 0..k PROVE g[i] = IF i = 0 THEN s ELSE CheckTask(g[i - 1], i)
  <2>1. CASE i = k
    <3>1. g[i - 1] = h[k - 1] /\ g[i] = last
      BY <1>2, <1>3, <1>6, <2>1
    <3> QED
      BY <1>2, <2>1, <3>1 DEF last
  <2>2. CASE i # k
    <3>1. i \in 0..k - 1 /\ g[i] = h[i]
      BY <1>3, <1>6, <2>2
    <3>2. i # 0 => g[i - 1] = h[i - 1]
      BY <1>3, <1>6, <2>2
    <3> QED
      BY <1>5, <3>1, <3>2
  <2> QED
    BY <2>1, <2>2
<1>9. CheckRun(s, k, g)
  BY <1>7, <1>8 DEF CheckRun
<1> QED
  BY <1>1, <1>9

\* The first k tasks of t have been graded against the devices of s.
GradedUpTo(s, t, k) ==
    /\ SessOk(t) /\ t.lab = s.lab /\ SameWires(LabOf[s.lab], s.w, t.w)
    /\ \A i \in 1..k : /\ i \in DOMAIN t.grades
                       /\ t.grades[i] = GradeTask(s.w, Tasks(s.lab)[i], ConfigFor(s.w, Tasks(s.lab)[i]))

LEMMA CheckAllOk ==
    ASSUME NEW s, SessOk(s)
    PROVE  GradedUpTo(s, CheckAll(s), Len(Tasks(s.lab)))
<1> DEFINE n == Len(Tasks(s.lab))
           lab == LabOf[s.lab]
           g == CHOOSE f : CheckRun(s, n, f)
<1>1. CheckAll(s) = g[n]
  BY DEF CheckAll, CheckRun
<1>2. n \in Nat /\ DOMAIN Tasks(s.lab) = 1..n
  BY TasksOf DEF SessOk
<1>3. CheckRun(s, n, g)
  BY <1>2, CheckRunExists
<1> HIDE DEF g, n
<1>4. \A i \in 0..n : g[i] = IF i = 0 THEN s ELSE CheckTask(g[i - 1], i)
  BY <1>3 DEF CheckRun
<1>5. SameWires(lab, s.w, s.w) /\ lab \in Labs /\ Sound(lab, s.w)
  BY DEF SessOk, SameWires, Labs
<1> HIDE DEF lab
<1> DEFINE Bad == {k \in 0..n : ~GradedUpTo(s, g[k], k)}
<1>6. CASE Bad # {}
  <2>1. PICK k \in Bad : \A m \in Bad : k <= m
    <3>1. Bad \subseteq Nat
      BY <1>2
    <3> HIDE DEF Bad
    <3> QED
      BY <1>6, <3>1, SmallestNumber
  <2>2. k # 0
    BY <1>4, <1>5, <2>1 DEF GradedUpTo, lab
  <2>3. k \in 1..n /\ k - 1 \in 0..n /\ k - 1 \notin Bad
    BY <1>2, <2>1, <2>2
  <2> DEFINE u == g[k - 1]
             t == g[k]
  <2>4. GradedUpTo(s, u, k - 1)
    BY <2>3
  <2>5. t = CheckTask(u, k)
    BY <1>4, <2>1, <2>2
  <2> HIDE DEF u, t
  <2>6. SessOk(u) /\ u.lab = s.lab /\ SameWires(lab, s.w, u.w)
    BY <2>4 DEF GradedUpTo, lab
  <2>7. /\ SessOk(t) /\ t.lab = u.lab /\ SameWires(lab, u.w, t.w)
        /\ DOMAIN t.grades = DOMAIN u.grades \cup {k}
        /\ t.grades[k] = GradeTask(u.w, Tasks(s.lab)[k], ConfigFor(u.w, Tasks(s.lab)[k]))
        /\ \A j \in DOMAIN u.grades : j # k => t.grades[j] = u.grades[j]
    BY <1>2, <2>3, <2>5, <2>6, CheckTaskOk DEF lab
  <2>8. SameWires(lab, s.w, t.w)
    BY <2>6, <2>7, SameWiresTwice
  <2>9. GradeTask(u.w, Tasks(s.lab)[k], ConfigFor(u.w, Tasks(s.lab)[k]))
           = GradeTask(s.w, Tasks(s.lab)[k], ConfigFor(s.w, Tasks(s.lab)[k]))
    <3>1. VerifyFailures(u.w, Tasks(s.lab)[k].verify) = VerifyFailures(s.w, Tasks(s.lab)[k].verify)
      BY <1>5, <2>6, FailuresSame
    <3>2. ConfigFor(u.w, Tasks(s.lab)[k]) = ConfigFor(s.w, Tasks(s.lab)[k])
      BY <2>6, ConfigSame
    <3> QED
      BY <3>1, <3>2 DEF GradeTask
  <2>10. GradedUpTo(s, t, k)
    <3> SUFFICES ASSUME NEW i \in 1..k
                 PROVE  /\ i \in DOMAIN t.grades
                        /\ t.grades[i] = GradeTask(s.w, Tasks(s.lab)[i], ConfigFor(s.w, Tasks(s.lab)[i]))
      BY <2>6, <2>7, <2>8 DEF GradedUpTo, lab
    <3>1. CASE i = k
      BY <2>7, <2>9, <3>1
    <3>2. CASE i # k
      <4>1. i \in 1..k - 1
        BY <1>2, <2>3, <3>2
      <4>2. i \in DOMAIN u.grades /\ u.grades[i] = GradeTask(s.w, Tasks(s.lab)[i], ConfigFor(s.w, Tasks(s.lab)[i]))
        BY <2>4, <4>1 DEF GradedUpTo
      <4> QED
        BY <2>7, <3>2, <4>2
    <3> QED
      BY <3>1, <3>2
  <2> QED
    BY <2>1, <2>10 DEF t
<1>7. CASE Bad = {}
  <2>1. n \in 0..n
    BY <1>2
  <2> QED
    BY <1>1, <1>7, <2>1 DEF n
<1> QED
  BY <1>6, <1>7

-----------------------------------------------------------------------------
(* The application.                                                        *)

DeskInv ==
    /\ typed \in Nat
    /\ sess # NoSession => RunOk(sess)

\* What a step does to the session.
SessStep ==
    \/ sess' = NoSession \/ sess' = sess
    \/ RunOk(sess') /\ sess'.log = <<>>
    \/ RunOk(sess') /\ sess # NoSession /\ RunOk(sess) /\ sess'.log = sess.log
    \/ /\ RunOk(sess') /\ sess # NoSession /\ RunOk(sess)
       /\ \E x : LineFor(LabOf[sess.lab], x) /\ sess' = LoggedFeed(sess, x[1], x[2])

LEMMA CreateOk ==
    ASSUME NEW l \in DOMAIN LabOf, NEW t, t = Create(l)
    PROVE  RunOk(t) /\ t.log = <<>> /\ t.lab = l /\ t.task = 1 /\ t.grades = <<>>
<1>1. t = Build(l, <<>>) /\ ScriptOk(LabOf[l], <<>>)
  BY NoScript DEF Create
<1>2. NewRun(l, <<>>, t)
  BY <1>1, BuildOk
<1>3. 1 \in 1..Len(Tasks(l))
  BY TasksOf
<1> QED
  BY <1>2, <1>3 DEF RunOk, NewRun

LEMMA ResetOk ==
    ASSUME NEW s, SessOk(s), NEW replay \in BOOLEAN, NEW t, t = Reset(s, replay)
    PROVE  /\ RunOk(t) /\ t.lab = s.lab /\ t.task = 1 /\ t.grades = <<>>
           /\ t.log = IF replay THEN s.log ELSE <<>>
<1> DEFINE log == IF replay THEN s.log ELSE <<>>
<1>1. t = Build(s.lab, log) /\ s.lab \in DOMAIN LabOf
  BY DEF Reset, SessOk
<1>2. ScriptOk(LabOf[s.lab], log)
  BY NoScript DEF SessOk
<1> HIDE DEF log
<1> DEFINE l == s.lab
<1>3. NewRun(l, log, t)
  <2>1. l \in DOMAIN LabOf /\ ScriptOk(LabOf[l], log) /\ t = Build(l, log)
    BY <1>1, <1>2
  <2> HIDE DEF l
  <2> QED
    BY <2>1, BuildOk
<1>4. 1 \in 1..Len(Tasks(s.lab))
  BY <1>1, TasksOf
<1> QED
  BY <1>3, <1>4 DEF RunOk, NewRun, log

LEMMA FeedKeepsRun ==
    ASSUME NEW s, RunOk(s), NEW x, LineFor(LabOf[s.lab], x)
    PROVE  RunOk(LoggedFeed(s, x[1], x[2]))
<1> DEFINE t == LoggedFeed(s, x[1], x[2])
<1>1. SessOk(t) /\ SameRun(s, t)
  BY LoggedFeedOk DEF RunOk
<1> HIDE DEF t
<1> QED
  BY <1>1 DEF RunOk, SameRun, t

\* What is typed, pasted or sent by a key is a line for a device of the lab.
LEMMA KnownLines ==
    ASSUME DeskInv, MayType,
           NEW x \in TypedLines[sess.lab][typed + 1] \cup Devs(sess.w) \X (PagerKeys \cup {EndLine})
    PROVE  LineFor(LabOf[sess.lab], x)
<1>1. sess # NoSession /\ RunOk(sess) /\ sess.lab \in DOMAIN LabOf /\ typed \in Nat
      /\ typed < Len(TypedLines[sess.lab])
  BY DEF MayType, Active, DeskInv, RunOk, SessOk
<1>2. Devs(sess.w) = DOMAIN LabOf[sess.lab].role
  BY <1>1, WorldParts DEF RunOk, SessOk, Sound
<1>3. CASE x \in TypedLines[sess.lab][typed + 1]
  <2> DEFINE q == TypedLines[sess.lab]
  <2>1. IsSequence(q)
    BY <1>1, TypedAssumption
  <2>2. DOMAIN q = 1..Len(q) /\ Len(q) \in Nat
    <3> HIDE DEF q
    <3> QED
      BY <2>1, Lists
  <2>3. typed + 1 \in DOMAIN q
    <3> HIDE DEF q
    <3>1. typed \in Nat /\ typed < Len(q)
      BY <1>1 DEF q
    <3> QED
      BY <2>2, <3>1
  <2> QED
    BY <1>1, <1>3, <2>3, TypedAssumption DEF LineFor
<1>4. CASE x \in Devs(sess.w) \X (PagerKeys \cup {EndLine})
  <2>1. x[1] \in DOMAIN LabOf[sess.lab].role /\ x[2] \in PagerKeys \cup {EndLine}
    BY <1>2, <1>4
  <2> DEFINE l == x[2]
  <2> HIDE DEF l
  <2>2. l.sub = ""
    <3>1. l = Blank \/ l = [tok |-> "q", sub |-> ""] \/ l = EndLine
      BY <2>1 DEF PagerKeys, l
    <3>2. Blank.sub = "" /\ EndLine.sub = "" /\ [tok |-> "q", sub |-> ""].sub = ""
      BY DEF Blank, EndLine
    <3> QED
      BY <3>1, <3>2
  <2>3. LineOk(l)
    BY <2>2 DEF LineOk
  <2> QED
    BY <2>1, <2>3 DEF LineFor, l
<1> QED
  BY <1>3, <1>4

LEMMA DeskStep == ASSUME DeskInv, [Next]_vars PROVE DeskInv' /\ SessStep
<1>1. ASSUME NEW l \in DOMAIN LabOf, StartLab(l) PROVE DeskInv' /\ SessStep
  <2>1. sess' = Create(l) /\ typed' = typed
    BY <1>1 DEF StartLab
  <2> QED
    BY <2>1, CreateOk DEF DeskInv, SessStep
<1>2. ASSUME MayType,
             NEW x \in TypedLines[sess.lab][typed + 1] \cup Devs(sess.w) \X (PagerKeys \cup {EndLine}),
             Submit(x[1], x[2])
      PROVE  DeskInv' /\ SessStep
  <2>1. LineFor(LabOf[sess.lab], x)
    BY <1>2, KnownLines
  <2>2. sess' = LoggedFeed(sess, x[1], x[2]) /\ typed' = typed + 1
    BY <1>2 DEF Submit
  <2>3. sess # NoSession /\ RunOk(sess) /\ typed \in Nat
    BY <1>2 DEF MayType, Active, DeskInv
  <2>4. RunOk(sess')
    BY <2>1, <2>2, <2>3, FeedKeepsRun
  <2> QED
    BY <2>1, <2>2, <2>3, <2>4 DEF DeskInv, SessStep
<1>3. ASSUME NEW d \in more, Interrupt(d) PROVE DeskInv' /\ SessStep
  BY <1>3 DEF Interrupt, DeskInv, SessStep
<1>4. ASSUME Active, NEW i \in DOMAIN Tasks(sess.lab), GotoTask(i) \/ GoNext \/ GoPrev \/ CheckCurrent
      PROVE  DeskInv' /\ SessStep
  <2>1. sess # NoSession /\ RunOk(sess) /\ SessOk(sess) /\ sess.lab \in DOMAIN LabOf
    BY <1>4 DEF Active, DeskInv, RunOk, SessOk
  <2> DEFINE n == Len(Tasks(sess.lab))
  <2>2. n \in Nat /\ DOMAIN Tasks(sess.lab) = 1..n
    BY <2>1, TasksOf
  <2>3. typed' = typed
    BY <1>4 DEF GotoTask, GoNext, GoPrev, CheckCurrent
  <2>4. CASE \E k \in 1..n : sess' = AtTask(sess, k)
    <3>1. PICK k \in 1..n : sess' = AtTask(sess, k)
      BY <2>4
    <3>2. SessOk(sess') /\ sess'.lab = sess.lab /\ sess'.log = sess.log /\ sess'.task = k
      BY <2>1, <3>1, TaskChange
    <3>3. RunOk(sess')
      BY <3>2 DEF RunOk
    <3> QED
      BY <2>1, <2>3, <3>2, <3>3 DEF DeskInv, SessStep
  <2>5. CASE sess' = sess
    BY <2>3, <2>5 DEF DeskInv, SessStep
  <2>6. CASE CheckCurrent
    <3>1. sess' = CheckTask(sess, sess.task) /\ sess.task \in 1..n
      BY <2>1, <2>6 DEF CheckCurrent, RunOk
    <3>2. SessOk(sess') /\ sess'.lab = sess.lab /\ sess'.log = sess.log /\ sess'.task = sess.task
      BY <2>1, <2>2, <3>1, CheckTaskOk
    <3>3. RunOk(sess')
      BY <3>1, <3>2 DEF RunOk
    <3> QED
      BY <2>1, <2>3, <3>2, <3>3 DEF DeskInv, SessStep
  <2>7. ASSUME GotoTask(i) PROVE sess' = AtTask(sess, i) /\ i \in 1..n
    BY <2>2, <2>7 DEF GotoTask, AtTask
  <2>8. ASSUME GoNext PROVE sess' = sess \/ \E k \in 1..n : sess' = AtTask(sess, k)
    <3>1. sess' = sess \/ (sess' = AtTask(sess, sess.task + 1) /\ sess.task < n)
      BY <2>8 DEF GoNext, NextTask, HasNextTask, AtTask
    <3>2. sess.task \in 1..n
      BY <2>1 DEF RunOk
    <3>3. sess.task < n => sess.task + 1 \in 1..n
      BY <2>2, <3>2
    <3> QED
      BY <3>1, <3>3
  <2>9. ASSUME GoPrev PROVE sess' = sess \/ \E k \in 1..n : sess' = AtTask(sess, k)
    <3>1. sess' = sess \/ (sess' = AtTask(sess, sess.task - 1) /\ sess.task > 1)
      BY <2>9 DEF GoPrev, PreviousTask, AtTask
    <3>2. sess.task \in 1..n
      BY <2>1 DEF RunOk
    <3>3. sess.task > 1 => sess.task - 1 \in 1..n
      BY <2>2, <3>2
    <3> QED
      BY <3>1, <3>3
  <2> QED
    BY <1>4, <2>4, <2>5, <2>6, <2>7, <2>8, <2>9
<1>5. ASSUME NEW replay \in BOOLEAN, ResetLab(replay) PROVE DeskInv' /\ SessStep
  <2>1. sess # NoSession /\ RunOk(sess) /\ sess' = Reset(sess, replay) /\ typed' = typed
    BY <1>5 DEF ResetLab, Active, DeskInv
  <2>2. RunOk(sess') /\ sess'.log = IF replay THEN sess.log ELSE <<>>
    BY <2>1, ResetOk DEF RunOk
  <2> QED
    BY <2>1, <2>2 DEF DeskInv, SessStep
<1>6. ASSUME FinishLab \/ LeaveLab PROVE DeskInv' /\ SessStep
  BY <1>6 DEF FinishLab, LeaveLab, DeskInv, SessStep
<1>7. ASSUME UNCHANGED vars PROVE DeskInv' /\ SessStep
  BY <1>7 DEF vars, DeskInv, SessStep
<1>8. ASSUME GoNext \/ GoPrev \/ CheckCurrent
      PROVE  Active /\ \E i \in DOMAIN Tasks(sess.lab) : TRUE
  <2>1. Active /\ sess.lab \in DOMAIN LabOf
    BY <1>8 DEF GoNext, GoPrev, CheckCurrent, Active, DeskInv, RunOk, SessOk
  <2>2. 1 \in DOMAIN Tasks(sess.lab)
    BY <2>1, TasksOf
  <2> QED
    BY <2>1, <2>2
<1> QED
  BY <1>1, <1>2, <1>3, <1>4, <1>5, <1>6, <1>7, <1>8 DEF Next

LEMMA DeskInvariant == Spec => []DeskInv
<1>1. Init => DeskInv
  BY DEF Init, DeskInv
<1>2. DeskInv /\ [Next]_vars => DeskInv'
  BY DeskStep
<1> QED
  BY <1>1, <1>2, PTL DEF Spec

\* Both ends of every link agree on the line protocol, after every command on
\* any device, every reset and every graded task.
THEOREM LinksAgree == Spec => []LinkProtocol
<1>1. DeskInv => LinkProtocol
  BY DEF DeskInv, RunOk, SessOk, Sound, LinkProtocol
<1> QED
  BY <1>1, DeskInvariant, PTL

\* No two hosts hold one leased address, in any lab and after any lines.
THEOREM LeasesDiffer == Spec => []LeaseUnique
<1>1. DeskInv => LeaseUnique
  BY DEF DeskInv, RunOk, SessOk, Sound, LeaseUnique
<1> QED
  BY <1>1, DeskInvariant, PTL

\* A shell holds the context of its mode and no other.
THEOREM ContextsMatchMode == Spec => []CtxOnlyInMode
<1>1. DeskInv => CtxOnlyInMode
  BY DEF DeskInv, RunOk, SessOk, ShellsOk, ShellOk, CtxOnlyInMode
<1> QED
  BY <1>1, DeskInvariant, PTL

\* Layer 2 adjacency is symmetric in every topology with one link per port.
THEOREM AdjacencySymmetric == Spec => []L2Symmetric
<1>1. ASSUME DeskInv, sess # NoSession
      PROVE  \A a, b \in Devs(sess.w) :
                <<a, b>> \in Adjacent(Wires(sess.w)) <=> <<b, a>> \in Adjacent(Wires(sess.w))
  <2> DEFINE lab == LabOf[sess.lab]
             w == Wires(sess.w)
  <2>1. lab \in Labs /\ WorldOk(lab, sess.w)
    BY <1>1 DEF DeskInv, RunOk, SessOk, Sound, Labs
  <2>2. Wired(lab, w) /\ Devs(w) = Devs(sess.w)
    BY <2>1, WorldParts DEF Wired, Wires, Devs
  <2> HIDE DEF lab, w
  <2>3. \A a, b \in Devs(w) : <<a, b>> \in Adjacent(w) => <<b, a>> \in Adjacent(w)
    BY <2>1, <2>2, AdjacentFlip
  <2> QED
    BY <2>2, <2>3 DEF w
<1>2. DeskInv => L2Symmetric
  BY <1>1 DEF L2Symmetric
<1> QED
  BY <1>2, DeskInvariant, PTL

\* The result page tells what the devices were configured to at the finish.
LEMMA ResultRight ==
    ASSUME NEW s, SessOk(s), NEW i \in DOMAIN Tasks(s.lab), NEW r, r = ResultOf(CheckAll(s))
    PROVE  LET task == Tasks(s.lab)[i]
               config == ConfigFor(r.w, task)
           IN  r.lab = s.lab /\ r.of.grades[i] = GradeTask(r.w, task, config)
<1> DEFINE t == CheckAll(s)
           n == Len(Tasks(s.lab))
           lab == LabOf[s.lab]
           task == Tasks(s.lab)[i]
<1>1. GradedUpTo(s, t, n) /\ i \in 1..n /\ s.lab \in DOMAIN LabOf
  BY CheckAllOk, TasksOf DEF SessOk
<1>2. r = ResultOf(t)
  OBVIOUS
<1> HIDE DEF t, n
<1>3. /\ SessOk(t) /\ t.lab = s.lab /\ SameWires(lab, s.w, t.w) /\ i \in DOMAIN t.grades
      /\ t.grades[i] = GradeTask(s.w, task, ConfigFor(s.w, task))
  BY <1>1 DEF GradedUpTo
<1> DEFINE f == Finish(t)
<1>4. f.lab = s.lab /\ f.grades = t.grades
  BY <1>3, FinishChange
<1>5. r.w = t.w /\ r.lab = s.lab /\ r.of = ScoreLab(f)
  BY <1>2, <1>3 DEF ResultOf
<1> HIDE DEF f
<1>6. r.of.grades[i] = t.grades[i]
  <2>1. ScoreLab(f).grades = [j \in DOMAIN Tasks(f.lab) |->
                                IF j \in DOMAIN f.grades THEN f.grades[j] ELSE NotGraded(Tasks(f.lab)[j])]
    BY DEF ScoreLab
  <2> QED
    BY <1>3, <1>4, <1>5, <2>1
<1>7. VerifyFailures(t.w, task.verify) = VerifyFailures(s.w, task.verify)
  BY <1>3, FailuresSame DEF SessOk, Labs
<1>8. ConfigFor(s.w, task) = ConfigFor(t.w, task)
  BY <1>3, ConfigSame
<1> HIDE DEF task
<1>9. GradeTask(s.w, task, ConfigFor(s.w, task)) = GradeTask(t.w, task, ConfigFor(s.w, task))
  BY <1>7 DEF GradeTask
<1> QED
  BY <1>3, <1>5, <1>6, <1>8, <1>9 DEF task

\* Every task is graded again at the finish: the result page tells what the
\* devices are configured to.
THEOREM ResultCurrent == Spec => []ResultIsCurrent
<1>1. Init => ResultIsCurrent
  BY DEF Init, ResultIsCurrent
<1>2. ASSUME DeskInv, ResultIsCurrent, [Next]_vars PROVE ResultIsCurrent'
  <2>1. ASSUME FinishLab PROVE ResultIsCurrent'
    <3>1. SessOk(sess) /\ result' = ResultOf(CheckAll(sess))
      BY <1>2, <2>1 DEF FinishLab, Active, DeskInv, RunOk
    <3>2. result'.lab = sess.lab
      <4>1. 1 \in DOMAIN Tasks(sess.lab)
        BY <3>1, TasksOf DEF SessOk
      <4> QED
        BY <3>1, <4>1, ResultRight
    <3> DEFINE r == result'
    <3>3. \A i \in DOMAIN Tasks(r.lab) :
             LET task == Tasks(r.lab)[i]
                 config == ConfigFor(r.w, task)
             IN  r.of.grades[i] = GradeTask(r.w, task, config)
      <4> HIDE DEF r
      <4>1. SessOk(sess) /\ r = ResultOf(CheckAll(sess)) /\ r.lab = sess.lab
        BY <3>1, <3>2 DEF r
      <4> QED
        BY <4>1, ResultRight
    <3> QED
      BY <3>3 DEF ResultIsCurrent
  <2>2. ASSUME NEW l \in DOMAIN LabOf, StartLab(l) PROVE ResultIsCurrent'
    BY <2>2 DEF StartLab, ResultIsCurrent
  <2>3. ASSUME LeaveLab PROVE ResultIsCurrent'
    BY <2>3 DEF LeaveLab, ResultIsCurrent
  <2>4. ASSUME UNCHANGED <<page, result>> PROVE ResultIsCurrent'
    BY <1>2, <2>4 DEF ResultIsCurrent
  <2>5. ASSUME NEW x, Submit(x[1], x[2]) PROVE UNCHANGED <<page, result>>
    BY <2>5 DEF Submit
  <2>6. ASSUME NEW d, Interrupt(d) \/ GotoTask(d) \/ ResetLab(d) PROVE UNCHANGED <<page, result>>
    BY <2>6 DEF Interrupt, GotoTask, ResetLab
  <2>7. ASSUME GoNext \/ GoPrev \/ CheckCurrent \/ UNCHANGED vars PROVE UNCHANGED <<page, result>>
    BY <2>7 DEF GoNext, GoPrev, CheckCurrent, vars
  <2> QED
    BY <1>2, <2>1, <2>2, <2>3, <2>4, <2>5, <2>6, <2>7 DEF Next
<1> QED
  BY <1>1, <1>2, DeskInvariant, PTL DEF Spec

\* What `ipconfig /renew' logs and does.
RenewLine == [tok |-> "ipconfig", sub |-> "renew"]

LEMMA RenewStep ==
    ASSUME NEW s, SessOk(s), NEW d \in DOMAIN LabOf[s.lab].role, IsHost(s, d), LineOk(RenewLine),
           NEW t, t = LoggedFeed(s, d, RenewLine)
    PROVE  Renewal(LabOf[s.lab], s.w, d, t.w)
<1> DEFINE lab == LabOf[s.lab]
           u == Logged(s, d, RenewLine)
           v == OfferDhcp(s.w, d)
<1>1. RenewLine.tok = "ipconfig" /\ RenewLine.sub = "renew" /\ t = FeedDevice(u, d, RenewLine)
  BY DEF RenewLine, LoggedFeed
<1>2. u.w = s.w /\ SessShape(u)
  <2>2. SessOk(u) /\ u.w = s.w
    BY LoggedOk
  <2> QED
    BY <2>2 DEF SessOk
<1> HIDE DEF u
<1>3. t = [u EXCEPT !.w = HostFeed(u.w, d, RenewLine)]
  BY <1>1, <1>2 DEF FeedDevice, IsHost
<1>4. HostFeed(u.w, d, RenewLine) = v
  BY <1>1, <1>2 DEF HostFeed
<1> HIDE DEF v
<1>5. t.w = v
  BY <1>2, <1>3, <1>4 DEF SessShape
<1>6. Sound(lab, s.w) /\ lab \in Labs
  BY DEF SessOk, Labs
<1> QED
  BY <1>5, <1>6, OfferStep DEF v

LEMMA FedLog ==
    ASSUME NEW s, SessOk(s), NEW x, LineFor(LabOf[s.lab], x), NEW t, t = LoggedFeed(s, x[1], x[2])
    PROVE  t.log = s.log \/ t.log = Append(s.log, <<x[1], x[2]>>)
<1> DEFINE u == Logged(s, x[1], x[2])
<1>1. t = FeedDevice(u, x[1], x[2]) /\ x[1] \in DOMAIN LabOf[s.lab].role /\ LineOk(x[2])
  BY DEF LoggedFeed, LineFor
<1>2. u.log = s.log \/ u.log = Append(s.log, <<x[1], x[2]>>)
  BY DEF Logged, SessOk, SessShape
<1>3. SessOk(u) /\ SameRun(s, u)
  BY <1>1, LoggedOk
<1> HIDE DEF u
<1>4. t.log = u.log
  BY <1>1, <1>3, FeedDeviceOk DEF SameRun
<1> QED
  BY <1>2, <1>4

LEMMA LongerLog ==
    ASSUME NEW q, IsSequence(q), NEW a, NEW b
    PROVE  /\ Append(q, a) # q /\ (Append(q, a) = Append(q, b) => a = b)
           /\ Append(q, a) # <<>>
<1>1. /\ DOMAIN q = 1..Len(q) /\ Len(q) \in Nat
      /\ DOMAIN Append(q, a) = DOMAIN q \cup {Len(q) + 1} /\ Append(q, a)[Len(q) + 1] = a
      /\ Append(q, b)[Len(q) + 1] = b
  BY Lists, ListGrows
<1>2. Len(q) + 1 \notin DOMAIN q
  BY <1>1
<1>3. DOMAIN <<>> = {}
  OBVIOUS
<1> QED
  BY <1>1, <1>2, <1>3

\* An address a renewal binds is nobody else's at that moment.
THEOREM RenewalIsFree == Spec => LeaseIsFree
<1> DEFINE Free ==
      \A d \in IF sess = NoSession \/ sess' = NoSession THEN {} ELSE Devs(sess.w) :
          LET f == IfOf(sess'.w, d, HostIf(sess.w, d))
          IN  sess.lab = sess'.lab /\ IsHost(sess, d) /\ f.leased
              /\ f # IfOf(sess.w, d, HostIf(sess.w, d))
              /\ sess'.log = Append(sess.log, <<d, [tok |-> "ipconfig", sub |-> "renew"]>>)
                => f.ip \notin UsedIps(sess'.w, d) \cup {sess'.w.dev[d].gw}
<1>1. ASSUME DeskInv, [Next]_vars PROVE Free
  <2> SUFFICES ASSUME sess # NoSession, sess' # NoSession, NEW d \in Devs(sess.w),
                      IsHost(sess, d),
                      IfOf(sess'.w, d, HostIf(sess.w, d)) # IfOf(sess.w, d, HostIf(sess.w, d)),
                      sess'.log = Append(sess.log, <<d, RenewLine>>)
               PROVE  IfOf(sess'.w, d, HostIf(sess.w, d)).ip
                        \notin UsedIps(sess'.w, d) \cup {sess'.w.dev[d].gw}
    BY DEF RenewLine
  <2>1. SessStep /\ SessOk(sess) /\ IsSequence(sess.log)
    BY <1>1, DeskStep DEF DeskInv, RunOk, SessOk, ScriptOk
  <2>2. sess'.log # sess.log /\ sess'.log # <<>>
    BY <2>1, LongerLog
  <2>3. PICK x : LineFor(LabOf[sess.lab], x) /\ sess' = LoggedFeed(sess, x[1], x[2])
    BY <2>1, <2>2 DEF SessStep
  <2>4. sess'.log = sess.log \/ sess'.log = Append(sess.log, <<x[1], x[2]>>)
    BY <2>1, <2>3, FedLog
  <2>5. x[1] = d /\ x[2] = RenewLine
    <3>1. <<x[1], x[2]>> = <<d, RenewLine>>
      BY <2>1, <2>2, <2>4, LongerLog
    <3> HIDE DEF RenewLine
    <3> QED
      BY <3>1
  <2>6. d \in DOMAIN LabOf[sess.lab].role /\ LineOk(RenewLine)
    BY <2>3, <2>5 DEF LineFor
  <2>7. Renewal(LabOf[sess.lab], sess.w, d, sess'.w)
    BY <2>1, <2>3, <2>5, <2>6, RenewStep
  <2>8. sess'.w # sess.w
    OBVIOUS
  <2> QED
    BY <2>7, <2>8 DEF Renewal, IfOf
<1>2. DeskInv /\ [Next]_vars => [Free]_vars
  BY <1>1
<1> QED
  BY <1>2, DeskInvariant, PTL DEF Spec, LeaseIsFree

-----------------------------------------------------------------------------
(* Worlds that differ in the tables alone: every line does the same to     *)
(* both.                                                                   *)

WorldShape(w) == w = [role |-> w.role, links |-> w.links, dev |-> w.dev, ospf |-> w.ospf, arp |-> w.arp]

Alike(w, v) == WorldShape(w) /\ WorldShape(v) /\ v.role = w.role /\ v.links = w.links /\ v.dev = w.dev

Agree(q, r) == r.s = q.s /\ r.out = q.out /\ Alike(q.w, r.w)

LEMMA SoundAlike ==
    ASSUME NEW lab, NEW w, Sound(lab, w), NEW v, Sound(lab, v)
    PROVE  Alike(w, v) <=> v.dev = w.dev
<1>1. \A u : Sound(lab, u) => WorldShape(u) /\ u.role = lab.role /\ u.links = lab.links
  <2> SUFFICES ASSUME NEW u, Sound(lab, u)
               PROVE  WorldShape(u) /\ u.role = lab.role /\ u.links = lab.links
    OBVIOUS
  <2>1. u = [role |-> lab.role, links |-> lab.links, dev |-> u.dev, ospf |-> u.ospf, arp |-> u.arp]
    BY DEF Sound, WorldOk
  <2>2. u.role = lab.role /\ u.links = lab.links
    BY ONLY <2>1
  <2> QED
    BY <2>1, <2>2 DEF WorldShape
<1> QED
  BY <1>1 DEF Alike

\* The devices are replaced.
Redone(w, dev) == [w EXCEPT !.dev = dev]

LEMMA AlikeRedone ==
    ASSUME NEW w, NEW v, Alike(w, v), NEW dev
    PROVE  Alike(Redone(w, dev), Redone(v, dev)) /\ Redone(w, dev).dev = dev
<1>1. /\ w = [role |-> w.role, links |-> w.links, dev |-> w.dev, ospf |-> w.ospf, arp |-> w.arp]
      /\ v = [role |-> v.role, links |-> v.links, dev |-> v.dev, ospf |-> v.ospf, arp |-> v.arp]
      /\ v.role = w.role /\ v.links = w.links
  BY DEF Alike, WorldShape
<1> DEFINE x == Redone(w, dev)
           y == Redone(v, dev)
<1>2. x = [role |-> w.role, links |-> w.links, dev |-> dev, ospf |-> w.ospf, arp |-> w.arp]
  BY ONLY <1>1 DEF Redone
<1>3. y = [role |-> v.role, links |-> v.links, dev |-> dev, ospf |-> v.ospf, arp |-> v.arp]
  BY ONLY <1>1 DEF Redone
<1> HIDE DEF x, y
<1>4. /\ x.role = w.role /\ x.links = w.links /\ x.dev = dev /\ x.ospf = w.ospf /\ x.arp = w.arp
      /\ y.role = v.role /\ y.links = v.links /\ y.dev = dev /\ y.ospf = v.ospf /\ y.arp = v.arp
  BY <1>2, <1>3
<1> QED
  BY <1>1, <1>2, <1>3, <1>4 DEF Alike, WorldShape, x, y

LEMMA AlikeResults ==
    ASSUME NEW w, NEW v, Alike(w, v), NEW s, NEW out
    PROVE  Agree(Result(w, s, out), Result(v, s, out)) /\ Agree(Refused(w, s), Refused(v, s))
  BY DEF Agree, Result, Refused

LEMMA AlikeRefreshed ==
    ASSUME NEW w, NEW v, Alike(w, v)
    PROVE  Alike(RefreshLinkState(w), RefreshLinkState(v))
<1> DEFINE proto(u, d, p) ==
             IF PeerPorts(u, d, p) = {} THEN IfOf(u, d, p).proto
             ELSE \E e \in PeerPorts(u, d, p) : LinkUp(u, d, p, e[1], e[2])
           ifs(u, d) == [p \in Ifs(u, d) |-> [IfOf(u, d, p) EXCEPT !.proto = proto(u, d, p)]]
           dev(u) == [d \in Devs(u) |-> [u.dev[d] EXCEPT !.if = ifs(u, d)]]
<1>1. v.links = w.links /\ v.dev = w.dev
  BY DEF Alike
<1>2. \A d, p : PeerPorts(v, d, p) = PeerPorts(w, d, p)
  BY <1>1 DEF PeerPorts, LinkEnds, Links, Present, Devs, Ifs
<1>3. ASSUME NEW d, NEW p PROVE proto(v, d, p) = proto(w, d, p)
  BY <1>1, <1>2 DEF IfOf, LinkUp
<1>4. RefreshLinkState(w) = Redone(w, dev(w)) /\ RefreshLinkState(v) = Redone(v, dev(v))
  BY DEF RefreshLinkState, Tabulated, Redone
<1> HIDE DEF proto
<1>5. ASSUME NEW d PROVE ifs(v, d) = ifs(w, d)
  BY <1>1, <1>3 DEF Ifs, IfOf
<1> HIDE DEF ifs
<1>6. dev(v) = dev(w)
  BY <1>1, <1>5 DEF Devs
<1> HIDE DEF dev
<1> QED
  BY <1>4, <1>6, AlikeRedone

\* A command that changes one device.
LEMMA AlikeSet ==
    ASSUME NEW w, NEW v, Alike(w, v), NEW d, NEW y
    PROVE  Alike([w EXCEPT !.dev[d] = y], [v EXCEPT !.dev[d] = y])
<1> DEFINE dev == [w.dev EXCEPT ![d] = y]
<1>1. v.dev = w.dev
  BY DEF Alike
<1>2. [w EXCEPT !.dev[d] = y] = Redone(w, dev) /\ [v EXCEPT !.dev[d] = y] = Redone(v, dev)
  BY <1>1 DEF Redone
<1> HIDE DEF dev
<1> QED
  BY <1>2, AlikeRedone

-----------------------------------------------------------------------------
(* The commands, on worlds that are alike.                                 *)

LEMMA AlikeSmall ==
    ASSUME NEW w, NEW v, Alike(w, v), NEW d, NEW s, s.mode \in Modes, NEW l
    PROVE  /\ Agree(CmdWrite(w, d, s), CmdWrite(v, d, s))
           /\ Agree(Result([w EXCEPT !.dev[d].hostname = l.sub], s, 0),
                    Result([v EXCEPT !.dev[d].hostname = l.sub], s, 0))
           /\ Agree(CmdVlanName(w, d, s, l), CmdVlanName(v, d, s, l))
           /\ Agree(CmdExit(w, s), CmdExit(v, s)) /\ Agree(CmdEnd(w, s), CmdEnd(v, s))
           /\ Agree(CmdTerminal(w, s, l), CmdTerminal(v, s, l))
<1>0. v.dev = w.dev
  BY DEF Alike
<1>1. ASSUME NEW y, NEW t, NEW out
      PROVE  Agree(Result([w EXCEPT !.dev[d] = y], t, out), Result([v EXCEPT !.dev[d] = y], t, out))
  BY AlikeSet, AlikeResults
<1>2. \A t, out : Agree(Result(w, t, out), Result(v, t, out)) /\ Agree(Refused(w, t), Refused(v, t))
  BY AlikeResults
<1>3. Agree(CmdWrite(w, d, s), CmdWrite(v, d, s))
  <2> DEFINE y == [w.dev[d] EXCEPT !.startup = RunningConfig(w.dev[d])]
  <2>1. /\ CmdWrite(w, d, s) = Result([w EXCEPT !.dev[d] = y], s, 2)
        /\ CmdWrite(v, d, s) = Result([v EXCEPT !.dev[d] = y], s, 2)
    BY <1>0 DEF CmdWrite
  <2> HIDE DEF y
  <2> QED
    BY <1>1, <2>1
<1>4. Agree(Result([w EXCEPT !.dev[d].hostname = l.sub], s, 0),
            Result([v EXCEPT !.dev[d].hostname = l.sub], s, 0))
  <2> DEFINE y == [w.dev[d] EXCEPT !.hostname = l.sub]
  <2>1. /\ [w EXCEPT !.dev[d].hostname = l.sub] = [w EXCEPT !.dev[d] = y]
        /\ [v EXCEPT !.dev[d].hostname = l.sub] = [v EXCEPT !.dev[d] = y]
    BY <1>0
  <2> HIDE DEF y
  <2> QED
    BY <1>1, <2>1
<1>5. Agree(CmdVlanName(w, d, s, l), CmdVlanName(v, d, s, l))
  <2> DEFINE y == [w.dev[d] EXCEPT !.vlans[s.vlan] = l.sub]
  <2>1. /\ CmdVlanName(w, d, s, l) = IF l.sub = "" \/ s.vlan = None THEN Refused(w, s)
                                     ELSE Result([w EXCEPT !.dev[d] = y], s, 0)
        /\ CmdVlanName(v, d, s, l) = IF l.sub = "" \/ s.vlan = None THEN Refused(v, s)
                                     ELSE Result([v EXCEPT !.dev[d] = y], s, 0)
    BY <1>0 DEF CmdVlanName
  <2> HIDE DEF y
  <2> QED
    BY <1>1, <1>2, <2>1
<1>7. Agree(CmdExit(w, s), CmdExit(v, s))
  BY <1>2 DEF CmdExit, Modes
<1>8. Agree(CmdEnd(w, s), CmdEnd(v, s)) /\ Agree(CmdTerminal(w, s, l), CmdTerminal(v, s, l))
  BY <1>2 DEF CmdEnd, CmdTerminal
<1> QED
  BY <1>3, <1>4, <1>5, <1>7, <1>8

\* Every table but those of routes and addresses shows the configuration.
LEMMA AlikeShow ==
    ASSUME NEW w, NEW v, Alike(w, v), NEW d, NEW s, NEW l, l.sub \notin {"ip route", "ip arp"}
    PROVE  Agree(CmdShow(w, d, s, l), CmdShow(v, d, s, l))
<1>1. v.dev = w.dev /\ Role(v, d) = Role(w, d)
  BY DEF Alike, Role
<1>2. Shown(v, d, l.sub) = Shown(w, d, l.sub)
  BY <1>1 DEF Shown
<1>3. \A out : Agree(Result(w, s, out), Result(v, s, out))
  BY AlikeResults
<1> QED
  BY <1>2, <1>3 DEF CmdShow

LEMMA AlikeGlobal ==
    ASSUME NEW w, NEW v, Alike(w, v), NEW d, NEW g
    PROVE  Alike(AddGlobal(w, d, g), AddGlobal(v, d, g))
<1> DEFINE y == [w.dev[d] EXCEPT !.globals = Append(@, g)]
<1>1. v.dev = w.dev
  BY DEF Alike
<1>2. /\ AddGlobal(w, d, g) = [w EXCEPT !.dev[d] = y]
      /\ AddGlobal(v, d, g) = [v EXCEPT !.dev[d] = y]
  BY <1>1 DEF AddGlobal
<1> HIDE DEF y
<1> QED
  BY <1>2, AlikeSet

LEMMA AlikeVlan ==
    ASSUME NEW w, NEW v, Alike(w, v), NEW d, NEW n
    PROVE  Alike(AddVlan(w, d, n), AddVlan(v, d, n))
<1> DEFINE vlans == [x \in DOMAIN w.dev[d].vlans \cup {n} |->
                       IF x = n THEN "VLAN" ELSE w.dev[d].vlans[x]]
           y == [w.dev[d] EXCEPT !.vlans = vlans]
<1>1. v.dev = w.dev
  BY DEF Alike
<1>3. /\ AddVlan(w, d, n) = IF n \in DOMAIN w.dev[d].vlans THEN w
                            ELSE [w EXCEPT !.dev[d].vlans = vlans]
      /\ AddVlan(v, d, n) = IF n \in DOMAIN w.dev[d].vlans THEN v
                            ELSE [v EXCEPT !.dev[d].vlans = vlans]
  BY <1>1 DEF AddVlan
<1> HIDE DEF vlans
<1>2. /\ AddVlan(w, d, n) = IF n \in DOMAIN w.dev[d].vlans THEN w ELSE [w EXCEPT !.dev[d] = y]
      /\ AddVlan(v, d, n) = IF n \in DOMAIN w.dev[d].vlans THEN v ELSE [v EXCEPT !.dev[d] = y]
  BY <1>1, <1>3
<1> HIDE DEF y
<1>4. Alike([w EXCEPT !.dev[d] = y], [v EXCEPT !.dev[d] = y])
  BY AlikeSet
<1> QED
  BY <1>2, <1>4

LEMMA AlikeListed ==
    ASSUME NEW w, NEW v, Alike(w, v), NEW d, NEW s, NEW l
    PROVE  /\ Agree(CmdVlan(w, d, s, l), CmdVlan(v, d, s, l))
           /\ Agree(CmdIpv6Global(w, d, s, l), CmdIpv6Global(v, d, s, l))
           /\ Agree(CmdAccessList(w, d, s, l), CmdAccessList(v, d, s, l))
           /\ Agree(CmdRouter(w, d, s, l), CmdRouter(v, d, s, l))
           /\ Agree(CmdRouterNetwork(w, d, s, l), CmdRouterNetwork(v, d, s, l))
<1>1. v.dev = w.dev /\ v.role = w.role
  BY DEF Alike
<1>2. ASSUME NEW g, NEW t, NEW out
      PROVE  Agree(Result(AddGlobal(w, d, g), t, out), Result(AddGlobal(v, d, g), t, out))
  BY AlikeGlobal, AlikeResults
<1>3. ASSUME NEW n, NEW t, NEW out
      PROVE  Agree(Result(AddVlan(w, d, n), t, out), Result(AddVlan(v, d, n), t, out))
  BY AlikeVlan, AlikeResults
<1>4. \A t : Agree(Refused(w, t), Refused(v, t))
  BY AlikeResults
<1>5. Agree(CmdVlan(w, d, s, l), CmdVlan(v, d, s, l))
  BY <1>1, <1>3, <1>4 DEF CmdVlan, Role
<1>6. Agree(CmdIpv6Global(w, d, s, l), CmdIpv6Global(v, d, s, l))
  BY <1>1, <1>2, <1>4 DEF CmdIpv6Global
<1>7. Agree(CmdAccessList(w, d, s, l), CmdAccessList(v, d, s, l))
  BY <1>2 DEF CmdAccessList
<1>8. Agree(CmdRouter(w, d, s, l), CmdRouter(v, d, s, l))
  BY <1>2, <1>4 DEF CmdRouter
<1>9. Agree(CmdRouterNetwork(w, d, s, l), CmdRouterNetwork(v, d, s, l))
  BY <1>2, <1>4 DEF CmdRouterNetwork
<1> QED
  BY <1>5, <1>6, <1>7, <1>8, <1>9

LEMMA AlikeInterface ==
    ASSUME NEW w, NEW v, Alike(w, v), NEW d, NEW s, NEW l
    PROVE  Agree(CmdInterface(w, d, s, l), CmdInterface(v, d, s, l))
<1> DEFINE ifs == [p \in DOMAIN w.dev[d].if \cup {l.port} |->
                     IF p = l.port THEN NewIf(TRUE, None, None) ELSE w.dev[d].if[p]]
           y == [w.dev[d] EXCEPT !.if = ifs]
           near == {q \in Ifs(w, d) : <<l.port, q>> \in PortPrefixes}
           at(p) == InPort(s, p)
<1>1. v.dev = w.dev /\ Ifs(v, d) = Ifs(w, d)
  BY DEF Alike, Ifs
<1>2. /\ CmdInterface(w, d, s, l) =
           IF l.sub = "" THEN Refused(w, s)
           ELSE IF l.port \in Ifs(w, d) THEN Result(w, at(l.port), 0)
           ELSE IF near # {} THEN Result(w, at(Lowest(near)), 0)
           ELSE IF l.sub = "virtual" THEN Result([w EXCEPT !.dev[d].if = ifs], at(l.port), 0)
           ELSE Refused(w, s)
      /\ CmdInterface(v, d, s, l) =
           IF l.sub = "" THEN Refused(v, s)
           ELSE IF l.port \in Ifs(w, d) THEN Result(v, at(l.port), 0)
           ELSE IF near # {} THEN Result(v, at(Lowest(near)), 0)
           ELSE IF l.sub = "virtual" THEN Result([v EXCEPT !.dev[d].if = ifs], at(l.port), 0)
           ELSE Refused(v, s)
  BY <1>1 DEF CmdInterface, InPort
<1> HIDE DEF ifs, near, at
<1>3. [w EXCEPT !.dev[d].if = ifs] = [w EXCEPT !.dev[d] = y]
      /\ [v EXCEPT !.dev[d].if = ifs] = [v EXCEPT !.dev[d] = y]
  BY <1>1
<1> HIDE DEF y
<1>4. \A t : Agree(Result([w EXCEPT !.dev[d] = y], t, 0), Result([v EXCEPT !.dev[d] = y], t, 0))
  BY AlikeSet, AlikeResults
<1>5. \A t : Agree(Result(w, t, 0), Result(v, t, 0)) /\ Agree(Refused(w, t), Refused(v, t))
  BY AlikeResults
<1> QED
  BY <1>2, <1>3, <1>4, <1>5

LEMMA AlikeIpGlobal ==
    ASSUME NEW w, NEW v, Alike(w, v), NEW d, NEW s, NEW l
    PROVE  Agree(CmdIpGlobal(w, d, s, l), CmdIpGlobal(v, d, s, l))
<1>1. v.dev = w.dev
  BY DEF Alike
<1>2. ASSUME NEW y, NEW t
      PROVE  Agree(Result([w EXCEPT !.dev[d] = y], t, 0), Result([v EXCEPT !.dev[d] = y], t, 0))
  BY AlikeSet, AlikeResults
<1>3. \A t : Agree(Result(w, t, 0), Result(v, t, 0)) /\ Agree(Refused(w, t), Refused(v, t))
  BY AlikeResults
<1>4. CASE l.sub = "route"
  <2> DEFINE y == [w.dev[d] EXCEPT !.routes = Append(@, [net |-> l.net, mask |-> l.mask, nh |-> l.nh])]
  <2>1. /\ CmdIpGlobal(w, d, s, l) = Result([w EXCEPT !.dev[d] = y], s, 0)
        /\ CmdIpGlobal(v, d, s, l) = Result([v EXCEPT !.dev[d] = y], s, 0)
    BY <1>1, <1>4 DEF CmdIpGlobal
  <2> HIDE DEF y
  <2> QED
    BY <1>2, <2>1
<1>5. CASE l.sub = "nat"
  <2> DEFINE y == [w.dev[d] EXCEPT !.nat = l.acl]
  <2>1. /\ CmdIpGlobal(w, d, s, l) = Result([w EXCEPT !.dev[d] = y], s, 0)
        /\ CmdIpGlobal(v, d, s, l) = Result([v EXCEPT !.dev[d] = y], s, 0)
    BY <1>1, <1>5 DEF CmdIpGlobal
  <2> HIDE DEF y
  <2> QED
    BY <1>2, <2>1
<1>6. CASE l.sub = "dhcp pool"
  <2> DEFINE pools == w.dev[d].pools
             new == [name |-> l.name, net |-> None, mask |-> None, gw |-> None, excluded |-> {}]
             y == [w.dev[d] EXCEPT !.pools = Append(@, new)]
             known == \E i \in DOMAIN pools : pools[i].name = l.name
  <2>1. /\ CmdIpGlobal(w, d, s, l) =
             Result(IF known THEN w ELSE [w EXCEPT !.dev[d] = y], InPool(s, l.name), 0)
        /\ CmdIpGlobal(v, d, s, l) =
             Result(IF known THEN v ELSE [v EXCEPT !.dev[d] = y], InPool(s, l.name), 0)
    BY <1>1, <1>6 DEF CmdIpGlobal, EnterPool, InPool
  <2> HIDE DEF y, known
  <2> QED
    BY <1>2, <1>3, <2>1
<1>7. CASE l.sub = "dhcp excluded-address"
  <2> DEFINE pools == w.dev[d].pools
             q == [i \in DOMAIN pools |-> [pools[i] EXCEPT !.excluded = @ \cup {<<l.lo, l.hi>>}]]
             y == [w.dev[d] EXCEPT !.pools = q]
  <2>1. /\ CmdIpGlobal(w, d, s, l) = Result([w EXCEPT !.dev[d].pools = q], s, 0)
        /\ CmdIpGlobal(v, d, s, l) = Result([v EXCEPT !.dev[d].pools = q], s, 0)
    BY <1>1, <1>7 DEF CmdIpGlobal, ExcludeAddress
  <2> HIDE DEF q
  <2>2. [w EXCEPT !.dev[d].pools = q] = [w EXCEPT !.dev[d] = y]
        /\ [v EXCEPT !.dev[d].pools = q] = [v EXCEPT !.dev[d] = y]
    BY <1>1
  <2> HIDE DEF y
  <2> QED
    BY <1>2, <2>1, <2>2
<1>8. CASE l.sub \in {"access-list", "default-gateway"}
  <2> DEFINE g == [kind |-> l.sub, line |-> <<l.sub>>]
  <2>1. /\ CmdIpGlobal(w, d, s, l) = Result(AddGlobal(w, d, g), s, 0)
        /\ CmdIpGlobal(v, d, s, l) = Result(AddGlobal(v, d, g), s, 0)
    BY <1>8 DEF CmdIpGlobal
  <2> HIDE DEF g
  <2> QED
    BY <2>1, AlikeGlobal, AlikeResults
<1>9. CASE l.sub \notin {"route", "nat", "dhcp pool", "dhcp excluded-address", "access-list",
                         "default-gateway"}
  <2>1. CmdIpGlobal(w, d, s, l) = Refused(w, s) /\ CmdIpGlobal(v, d, s, l) = Refused(v, s)
    BY <1>9 DEF CmdIpGlobal
  <2> QED
    BY <1>3, <2>1
<1> QED
  BY <1>4, <1>5, <1>6, <1>7, <1>8, <1>9

LEMMA AlikeDhcp ==
    ASSUME NEW w, NEW v, Alike(w, v), NEW d, NEW s, NEW c, NEW l
    PROVE  Agree(CmdDhcp(w, d, s, c, l), CmdDhcp(v, d, s, c, l))
<1> DEFINE pools == w.dev[d].pools
           here == {i \in DOMAIN pools : pools[i].name = s.dhcp}
           at == CHOOSE i \in here : TRUE
           y == [w.dev[d] EXCEPT !.pools[at] = [@ EXCEPT !.net = l.net, !.mask = l.mask]]
           z == [w.dev[d] EXCEPT !.pools[at].gw = l.gw]
           none == s.dhcp = "" \/ here = {} \/ l.sub = ""
<1>1. v.dev = w.dev
  BY DEF Alike
<1>2. /\ CmdDhcp(w, d, s, c, l) =
           IF none THEN Refused(w, s)
           ELSE IF c = "network" THEN Result([w EXCEPT !.dev[d] = y], s, 0)
           ELSE Result([w EXCEPT !.dev[d] = z], s, 0)
      /\ CmdDhcp(v, d, s, c, l) =
           IF none THEN Refused(v, s)
           ELSE IF c = "network" THEN Result([v EXCEPT !.dev[d] = y], s, 0)
           ELSE Result([v EXCEPT !.dev[d] = z], s, 0)
  BY <1>1 DEF CmdDhcp
<1> HIDE DEF y, z, none
<1>3. \A x : Agree(Result([w EXCEPT !.dev[d] = x], s, 0), Result([v EXCEPT !.dev[d] = x], s, 0))
  BY AlikeSet, AlikeResults
<1>4. Agree(Refused(w, s), Refused(v, s))
  BY AlikeResults
<1> QED
  BY <1>2, <1>3, <1>4


LEMMA AlikePort ==
    ASSUME NEW w, NEW v, Alike(w, v), NEW d, NEW p, NEW f
    PROVE  Alike(SetIf(w, d, p, f), SetIf(v, d, p, f))
<1> DEFINE y == [w.dev[d] EXCEPT !.if[p] = f]
<1>1. v.dev = w.dev
  BY DEF Alike
<1>2. SetIf(w, d, p, f) = [w EXCEPT !.dev[d] = y] /\ SetIf(v, d, p, f) = [v EXCEPT !.dev[d] = y]
  BY <1>1 DEF SetIf
<1> HIDE DEF y
<1> QED
  BY <1>2, AlikeSet

LEMMA AlikeAdmin ==
    ASSUME NEW w, NEW v, Alike(w, v), NEW d, NEW p, NEW up
    PROVE  Alike(SetAdmin(w, d, p, up), SetAdmin(v, d, p, up))
<1> DEFINE f == [IfOf(w, d, p) EXCEPT !.admin = up, !.proto = up /\ @]
<1>1. IfOf(v, d, p) = IfOf(w, d, p)
  BY DEF Alike, IfOf
<1>2. /\ SetAdmin(w, d, p, up) = RefreshLinkState(SetIf(w, d, p, f))
      /\ SetAdmin(v, d, p, up) = RefreshLinkState(SetIf(v, d, p, f))
  BY <1>1 DEF SetAdmin
<1> HIDE DEF f
<1>3. Alike(SetIf(w, d, p, f), SetIf(v, d, p, f))
  BY AlikePort
<1> QED
  BY <1>2, <1>3, AlikeRefreshed

LEMMA AlikeIf ==
    ASSUME NEW w, NEW v, Alike(w, v), NEW d, NEW s, NEW c, NEW l
    PROVE  Agree(CmdIf(w, d, s, c, l), CmdIf(v, d, s, c, l))
<1> DEFINE f == IfAfter(c, l, IfOf(w, d, s.if))
           a == SetIf(w, d, s.if, f)
           b == SetIf(v, d, s.if, f)
           vlan == c = "switchport" /\ l.sub = "access vlan"
           no == s.if = None \/ s.if \notin Ifs(w, d)
           other == c \in SwitchOnly /\ Role(w, d) \notin {"switch", "ap"}
<1>1. IfOf(v, d, s.if) = IfOf(w, d, s.if) /\ Ifs(v, d) = Ifs(w, d) /\ Role(v, d) = Role(w, d)
  BY DEF Alike, IfOf, Ifs, Role
<1>2. /\ CmdIf(w, d, s, c, l) =
           IF no THEN Refused(w, s)
           ELSE IF c = "shutdown" THEN Result(SetAdmin(w, d, s.if, FALSE), s, 2)
           ELSE IF c = "no" /\ l.sub = "shutdown" THEN Result(SetAdmin(w, d, s.if, TRUE), s, 2)
           ELSE IF other THEN Refused(w, s)
           ELSE Result(IF vlan THEN AddVlan(a, d, l.vlan) ELSE a, s, 0)
      /\ CmdIf(v, d, s, c, l) =
           IF no THEN Refused(v, s)
           ELSE IF c = "shutdown" THEN Result(SetAdmin(v, d, s.if, FALSE), s, 2)
           ELSE IF c = "no" /\ l.sub = "shutdown" THEN Result(SetAdmin(v, d, s.if, TRUE), s, 2)
           ELSE IF other THEN Refused(v, s)
           ELSE Result(IF vlan THEN AddVlan(b, d, l.vlan) ELSE b, s, 0)
  BY <1>1 DEF CmdIf
<1>3. Alike(a, b)
  <2> HIDE DEF f
  <2> QED
    BY AlikePort
<1> HIDE DEF a, b, f, vlan, no, other
<1>4. Alike(AddVlan(a, d, l.vlan), AddVlan(b, d, l.vlan))
  BY <1>3, AlikeVlan
<1>5. \A up : Alike(SetAdmin(w, d, s.if, up), SetAdmin(v, d, s.if, up))
  BY AlikeAdmin
<1>6. /\ Agree(Result(a, s, 0), Result(b, s, 0))
      /\ Agree(Result(AddVlan(a, d, l.vlan), s, 0), Result(AddVlan(b, d, l.vlan), s, 0))
  BY <1>3, <1>4, AlikeResults
<1>7. \A up : Agree(Result(SetAdmin(w, d, s.if, up), s, 2), Result(SetAdmin(v, d, s.if, up), s, 2))
  BY <1>5, AlikeResults
<1>8. Agree(Refused(w, s), Refused(v, s))
  BY AlikeResults
<1> QED
  BY <1>2, <1>6, <1>7, <1>8

\* A ping changes the tables alone.
LEMMA AlikePing ==
    ASSUME NEW lab \in Labs, NEW w, Sound(lab, w), NEW v, Sound(lab, v), Alike(w, v),
           NEW d, NEW ip
    PROVE  Alike(Ping(w, d, ip), Ping(v, d, ip)) /\ Alike(Converge(w), Converge(v))
<1>1. \A u : Sound(lab, u) => /\ Sound(lab, Ping(u, d, ip)) /\ Ping(u, d, ip).dev = u.dev
                              /\ Sound(lab, Converge(u)) /\ Converge(u).dev = u.dev
  BY PingSame, ConvergeSame DEF SameWires
<1>2. v.dev = w.dev
  BY DEF Alike
<1>3. /\ Sound(lab, Ping(w, d, ip)) /\ Sound(lab, Ping(v, d, ip))
      /\ Ping(v, d, ip).dev = Ping(w, d, ip).dev
      /\ Sound(lab, Converge(w)) /\ Sound(lab, Converge(v)) /\ Converge(v).dev = Converge(w).dev
  BY <1>1, <1>2
<1> QED
  BY <1>3, SoundAlike

LEMMA AlikePinged ==
    ASSUME NEW lab \in Labs, NEW w, Sound(lab, w), NEW v, Sound(lab, v), Alike(w, v),
           NEW d, NEW s, NEW l
    PROVE  /\ Agree(CmdPing(w, d, s, l), CmdPing(v, d, s, l))
           /\ Agree(Result(Converge(w), s, 5), Result(Converge(v), s, 5))
<1>1. Alike(Ping(w, d, l.ip), Ping(v, d, l.ip)) /\ Alike(Converge(w), Converge(v))
  BY AlikePing
<1> QED
  BY <1>1, AlikeResults DEF CmdPing

-----------------------------------------------------------------------------
(* A line to a shell, in worlds that are alike.                            *)

LEMMA AlikeRun ==
    ASSUME NEW lab \in Labs, NEW w, Sound(lab, w), NEW v, Sound(lab, v), Alike(w, v),
           NEW d, NEW s, s.mode \in Modes, NEW c, NEW l,
           c = "show" => l.sub \notin {"ip route", "ip arp"}
    PROVE  Agree(Run(w, d, s, c, l), Run(v, d, s, c, l))
<1>1. \A t, out : Agree(Result(w, t, out), Result(v, t, out)) /\ Agree(Refused(w, t), Refused(v, t))
  BY AlikeResults
<1>2. CASE c \in {"", "?", "enable", "disable", "configure", "help", "line"}
  BY <1>1, <1>2 DEF Run, IfCommands, SwitchOnly
<1>3. CASE c = "exit"
  <2>1. \A u : Run(u, d, s, c, l) = CmdExit(u, s)
    BY <1>3 DEF Run, IfCommands, SwitchOnly
  <2>2. Agree(CmdExit(w, s),
              CmdExit(v, s))
    BY AlikeSmall
  <2> QED
    BY ONLY <2>1, <2>2
<1>4. CASE c = "end"
  <2>1. \A u : Run(u, d, s, c, l) = CmdEnd(u, s)
    BY <1>4 DEF Run, IfCommands, SwitchOnly
  <2>2. Agree(CmdEnd(w, s),
              CmdEnd(v, s))
    BY AlikeSmall
  <2> QED
    BY ONLY <2>1, <2>2
<1>5. CASE c = "terminal"
  <2>1. \A u : Run(u, d, s, c, l) = CmdTerminal(u, s, l)
    BY <1>5 DEF Run, IfCommands, SwitchOnly
  <2>2. Agree(CmdTerminal(w, s, l),
              CmdTerminal(v, s, l))
    BY AlikeSmall
  <2> QED
    BY ONLY <2>1, <2>2
<1>6. CASE c = "show"
  <2>1. \A u : Run(u, d, s, c, l) = CmdShow(u, d, s, l)
    BY <1>6 DEF Run, IfCommands, SwitchOnly
  <2>2. Agree(CmdShow(w, d, s, l),
              CmdShow(v, d, s, l))
    BY <1>6, AlikeShow
  <2> QED
    BY ONLY <2>1, <2>2
<1>7. CASE c = "ping"
  <2>1. \A u : Run(u, d, s, c, l) = CmdPing(u, d, s, l)
    BY <1>7 DEF Run, IfCommands, SwitchOnly
  <2>2. Agree(CmdPing(w, d, s, l),
              CmdPing(v, d, s, l))
    BY AlikePinged
  <2> QED
    BY ONLY <2>1, <2>2
<1>8. CASE c = "traceroute"
  <2>1. \A u : Run(u, d, s, c, l) = Result(Converge(u), s, 5)
    BY <1>8 DEF Run, IfCommands, SwitchOnly
  <2>2. Agree(Result(Converge(w), s, 5),
              Result(Converge(v), s, 5))
    BY AlikePinged
  <2> QED
    BY ONLY <2>1, <2>2
<1>9. CASE c = "write" \/ (c = "copy" /\ l.sub = "run start")
  <2>1. \A u : Run(u, d, s, c, l) = CmdWrite(u, d, s)
    BY <1>9 DEF Run, IfCommands, SwitchOnly
  <2>2. Agree(CmdWrite(w, d, s),
              CmdWrite(v, d, s))
    BY AlikeSmall
  <2> QED
    BY ONLY <2>1, <2>2
<1>10. CASE c = "copy" /\ l.sub # "run start"
  <2>1. \A u : Run(u, d, s, c, l) = Refused(u, s)
    BY <1>10 DEF Run, IfCommands, SwitchOnly
  <2>2. Agree(Refused(w, s),
              Refused(v, s))
    BY <1>1
  <2> QED
    BY ONLY <2>1, <2>2
<1>11. CASE c = "hostname" /\ l.sub # ""
  <2>1. \A u : Run(u, d, s, c, l) = Result([u EXCEPT !.dev[d].hostname = l.sub], s, 0)
    BY <1>11 DEF Run, IfCommands, SwitchOnly
  <2>2. Agree(Result([w EXCEPT !.dev[d].hostname = l.sub], s, 0),
              Result([v EXCEPT !.dev[d].hostname = l.sub], s, 0))
    BY AlikeSmall
  <2> QED
    BY ONLY <2>1, <2>2
<1>12. CASE c = "hostname" /\ l.sub = ""
  <2>1. \A u : Run(u, d, s, c, l) = Refused(u, s)
    BY <1>12 DEF Run, IfCommands, SwitchOnly
  <2>2. Agree(Refused(w, s),
              Refused(v, s))
    BY <1>1
  <2> QED
    BY ONLY <2>1, <2>2
<1>13. CASE c = "interface"
  <2>1. \A u : Run(u, d, s, c, l) = CmdInterface(u, d, s, l)
    BY <1>13 DEF Run, IfCommands, SwitchOnly
  <2>2. Agree(CmdInterface(w, d, s, l),
              CmdInterface(v, d, s, l))
    BY AlikeInterface
  <2> QED
    BY ONLY <2>1, <2>2
<1>14. CASE c = "vlan"
  <2>1. \A u : Run(u, d, s, c, l) = CmdVlan(u, d, s, l)
    BY <1>14 DEF Run, IfCommands, SwitchOnly
  <2>2. Agree(CmdVlan(w, d, s, l),
              CmdVlan(v, d, s, l))
    BY AlikeListed
  <2> QED
    BY ONLY <2>1, <2>2
<1>15. CASE c = "name"
  <2>1. \A u : Run(u, d, s, c, l) = CmdVlanName(u, d, s, l)
    BY <1>15 DEF Run, IfCommands, SwitchOnly
  <2>2. Agree(CmdVlanName(w, d, s, l),
              CmdVlanName(v, d, s, l))
    BY AlikeSmall
  <2> QED
    BY ONLY <2>1, <2>2
<1>16. CASE c = "access-list"
  <2>1. \A u : Run(u, d, s, c, l) = CmdAccessList(u, d, s, l)
    BY <1>16 DEF Run, IfCommands, SwitchOnly
  <2>2. Agree(CmdAccessList(w, d, s, l),
              CmdAccessList(v, d, s, l))
    BY AlikeListed
  <2> QED
    BY ONLY <2>1, <2>2
<1>17. CASE c = "router"
  <2>1. \A u : Run(u, d, s, c, l) = CmdRouter(u, d, s, l)
    BY <1>17 DEF Run, IfCommands, SwitchOnly
  <2>2. Agree(CmdRouter(w, d, s, l),
              CmdRouter(v, d, s, l))
    BY AlikeListed
  <2> QED
    BY ONLY <2>1, <2>2
<1>18. CASE c = "network" /\ s.mode = "config-router"
  <2>1. \A u : Run(u, d, s, c, l) = CmdRouterNetwork(u, d, s, l)
    BY <1>18 DEF Run, IfCommands, SwitchOnly
  <2>2. Agree(CmdRouterNetwork(w, d, s, l),
              CmdRouterNetwork(v, d, s, l))
    BY AlikeListed
  <2> QED
    BY ONLY <2>1, <2>2
<1>19. CASE c \in {"network", "default-router"} /\ s.mode = "config-dhcp"
  <2>1. \A u : Run(u, d, s, c, l) = CmdDhcp(u, d, s, c, l)
    BY <1>19 DEF Run, IfCommands, SwitchOnly
  <2>2. Agree(CmdDhcp(w, d, s, c, l),
              CmdDhcp(v, d, s, c, l))
    BY AlikeDhcp
  <2> QED
    BY ONLY <2>1, <2>2
<1>20. CASE c = "ip" /\ s.mode = "config"
  <2>1. \A u : Run(u, d, s, c, l) = CmdIpGlobal(u, d, s, l)
    BY <1>20 DEF Run, IfCommands, SwitchOnly
  <2>2. Agree(CmdIpGlobal(w, d, s, l),
              CmdIpGlobal(v, d, s, l))
    BY AlikeIpGlobal
  <2> QED
    BY ONLY <2>1, <2>2
<1>21. CASE c = "ipv6" /\ s.mode = "config"
  <2>1. \A u : Run(u, d, s, c, l) = CmdIpv6Global(u, d, s, l)
    BY <1>21 DEF Run, IfCommands, SwitchOnly
  <2>2. Agree(CmdIpv6Global(w, d, s, l),
              CmdIpv6Global(v, d, s, l))
    BY AlikeListed
  <2> QED
    BY ONLY <2>1, <2>2
<1>22. CASE c \in IfCommands /\ s.mode = "config-if"
  <2>1. \A u : Run(u, d, s, c, l) = CmdIf(u, d, s, c, l)
    BY <1>22 DEF Run, IfCommands, SwitchOnly
  <2>2. Agree(CmdIf(w, d, s, c, l),
              CmdIf(v, d, s, c, l))
    BY AlikeIf
  <2> QED
    BY ONLY <2>1, <2>2
<1>23. CASE /\ c \notin {"", "?", "enable", "disable", "configure", "end", "terminal", "show", "help", "line",
                        "exit", "ping", "write", "copy", "traceroute", "hostname", "vlan", "name",
                        "interface", "access-list", "router"}
           /\ ~(c \in {"network", "default-router"} /\ s.mode = "config-dhcp")
           /\ ~(c = "network" /\ s.mode = "config-router")
           /\ ~(c \in {"ip", "ipv6"} /\ s.mode = "config")
           /\ ~(c \in IfCommands /\ s.mode = "config-if")
  <2>1. \A u : Run(u, d, s, c, l) = Refused(u, s)
    BY <1>23 DEF Run
  <2> QED
    BY ONLY <1>1, <2>1
<1> QED
  BY <1>2, <1>3, <1>4, <1>5, <1>6, <1>7, <1>8, <1>9, <1>10, <1>11, <1>12,
      <1>13, <1>14, <1>15, <1>16, <1>17, <1>18, <1>19, <1>20, <1>21, <1>22, <1>23

LEMMA AlikeDispatch ==
    ASSUME NEW lab \in Labs, NEW w, Sound(lab, w), NEW v, Sound(lab, v), Alike(w, v),
           NEW d, NEW s, ShellOk(s), NEW l, LineOk(l), ~AsksTable(s.mode, l)
    PROVE  Agree(Dispatch(w, d, s, l), Dispatch(v, d, s, l))
<1> DEFINE doing == Resolve(l.tok, s.mode) = "do"
           line == IF doing /\ l.sub # "" THEN l.line ELSE l
           t == IF doing THEN [s EXCEPT !.mode = "enable"] ELSE s
           c == Resolve(line.tok, t.mode)
           q == Run(w, d, t, c, line)
           r == Run(v, d, t, c, line)
<1>1. CASE doing /\ l.sub = ""
  BY <1>1, AlikeResults DEF Dispatch
<1>2. CASE ~(doing /\ l.sub = "")
  <2>1. /\ Dispatch(w, d, s, l) = Restored(q, doing, s.mode)
        /\ Dispatch(v, d, s, l) = Restored(r, doing, s.mode)
    BY <1>2 DEF Dispatch
  <2>2. t.mode \in Modes /\ t.mode = (IF doing THEN "enable" ELSE s.mode)
    BY DEF ShellOk, ShellShape, Modes
  <2>5. c = "show" => line.sub \notin {"ip route", "ip arp"}
    BY <1>2, <2>2 DEF AsksTable
  <2> HIDE DEF t, c, line, doing
  <2>3. Agree(q, r) /\ IsResult(q) /\ IsResult(r)
    BY <2>2, <2>5, AlikeRun, RunResult
  <2> HIDE DEF q, r
  <2>4. Agree(Restored(q, doing, s.mode), Restored(r, doing, s.mode))
    <3>1. CASE ~doing
      BY <2>3, <3>1 DEF Restored
    <3>2. CASE doing
      <4> DEFINE x == [q.s EXCEPT !.mode = s.mode]
      <4>1. /\ q = [w |-> q.w, s |-> q.s, out |-> q.out] /\ r = [w |-> r.w, s |-> r.s, out |-> r.out]
            /\ r.s = q.s /\ r.out = q.out /\ Alike(q.w, r.w)
        BY <2>3 DEF IsResult, Result, Agree
      <4>2. Restored(q, doing, s.mode) = Result(q.w, x, q.out)
        BY <3>2, <4>1 DEF Restored, Result
      <4>3. Restored(r, doing, s.mode) = Result(r.w, x, q.out)
        BY <3>2, <4>1 DEF Restored, Result
      <4> HIDE DEF x
      <4> QED
        BY <4>1, <4>2, <4>3, AlikeResults
    <3> QED
      BY <3>1, <3>2
  <2> QED
    BY <2>1, <2>4
<1> QED
  BY <1>1, <1>2

LEMMA AlikeFeed ==
    ASSUME NEW lab \in Labs, NEW w, Sound(lab, w), NEW v, Sound(lab, v), Alike(w, v),
           NEW d, NEW s, ShellOk(s), NEW l, LineOk(l), ~AsksTable(s.mode, l)
    PROVE  Feed(v, d, s, l).s = Feed(w, d, s, l).s /\ Alike(Feed(w, d, s, l).w, Feed(v, d, s, l).w)
<1>1. CASE s.more > 0
  <2> DEFINE x == [s EXCEPT !.more = IF l.tok \in {"q", "quit"} \/ @ <= s.term THEN 0 ELSE @ - s.term]
  <2>1. Feed(w, d, s, l) = Result(w, x, 1) /\ Feed(v, d, s, l) = Result(v, x, 1)
    BY <1>1 DEF Feed
  <2> HIDE DEF x
  <2> QED
    BY <2>1 DEF Result
<1>2. CASE ~(s.more > 0) /\ l = Blank
  <2>1. Feed(w, d, s, l) = Result(w, s, 0) /\ Feed(v, d, s, l) = Result(v, s, 0)
    BY <1>2 DEF Feed
  <2> QED
    BY <2>1 DEF Result
<1>3. CASE ~(s.more > 0) /\ l # Blank
  <2> DEFINE q == Dispatch(w, d, s, l)
             r == Dispatch(v, d, s, l)
  <2>1. Feed(w, d, s, l) = HeldBack(q) /\ Feed(v, d, s, l) = HeldBack(r)
    BY <1>3 DEF Feed
  <2>2. Agree(q, r) /\ IsResult(q) /\ IsResult(r)
    BY AlikeDispatch, DispatchShellOk
  <2> HIDE DEF q, r
  <2>3. HeldBack(r).s = HeldBack(q).s /\ HeldBack(q).w = q.w /\ HeldBack(r).w = r.w
    BY <2>2 DEF HeldBack, IsResult, Result, Agree
  <2> QED
    BY <2>1, <2>2, <2>3 DEF Agree
<1> QED
  BY <1>1, <1>2, <1>3

-----------------------------------------------------------------------------
(* A line to a host.                                                       *)

LEMMA AlikeHostAddress ==
    ASSUME NEW w, NEW v, Alike(w, v), NEW d, NEW l
    PROVE  Alike(HostAddress(w, d, l), HostAddress(v, d, l))
<1> DEFINE p == FirstIf(w, d)
           f == [IfOf(w, d, p) EXCEPT !.ip = l.ip, !.mask = l.mask, !.admin = TRUE,
                                      !.proto = TRUE, !.leased = FALSE]
           a == SetIf(w, d, p, f)
           b == SetIf(v, d, p, f)
           y == [a.dev[d] EXCEPT !.gw = GuessGateway(@, f)]
<1>1. FirstIf(v, d) = FirstIf(w, d) /\ \A x : IfOf(v, d, x) = IfOf(w, d, x)
  BY DEF Alike, FirstIf, Ifs, IfOf
<1>2. /\ HostAddress(w, d, l) = RefreshLinkState([a EXCEPT !.dev[d].gw = GuessGateway(@, f)])
      /\ HostAddress(v, d, l) = RefreshLinkState([b EXCEPT !.dev[d].gw = GuessGateway(@, f)])
  BY <1>1 DEF HostAddress
<1> HIDE DEF p, f
<1>3. Alike(a, b)
  BY AlikePort
<1> HIDE DEF a, b
<1>4. b.dev = a.dev
  BY <1>3 DEF Alike
<1>5. /\ [a EXCEPT !.dev[d].gw = GuessGateway(@, f)] = [a EXCEPT !.dev[d] = y]
      /\ [b EXCEPT !.dev[d].gw = GuessGateway(@, f)] = [b EXCEPT !.dev[d] = y]
  BY <1>4
<1> HIDE DEF y
<1>6. Alike([a EXCEPT !.dev[d] = y], [b EXCEPT !.dev[d] = y])
  BY <1>3, AlikeSet
<1> QED
  BY <1>2, <1>5, <1>6, AlikeRefreshed

LEMMA AlikeBind ==
    ASSUME NEW w, NEW v, Alike(w, v), NEW pc, NEW p, NEW r, NEW pool, NEW ip
    PROVE  Alike(BindLease(w, pc, p, r, pool, ip), BindLease(v, pc, p, r, pool, ip))
<1> DEFINE leases == [c \in DOMAIN w.dev[r].leases \cup {pc} |->
                        IF c = pc THEN ip ELSE w.dev[r].leases[c]]
           f == [w.dev[pc].if[p] EXCEPT !.ip = ip, !.mask = pool.mask, !.admin = TRUE, !.leased = TRUE]
           dev(u) == [u.dev EXCEPT ![pc].if[p] = f, ![pc].gw = pool.gw, ![r].leases = leases]
           bound(u) == [u EXCEPT !.dev[pc].if[p] = f, !.dev[pc].gw = pool.gw, !.dev[r].leases = leases]
<1>1. v.dev = w.dev
  BY DEF Alike
<1>2. /\ BindLease(w, pc, p, r, pool, ip) = RefreshLinkState(bound(w))
      /\ BindLease(v, pc, p, r, pool, ip) = RefreshLinkState(bound(v))
  BY <1>1 DEF BindLease, Tabulated
<1> HIDE DEF leases, f
<1>3. /\ w = [role |-> w.role, links |-> w.links, dev |-> w.dev, ospf |-> w.ospf, arp |-> w.arp]
      /\ v = [role |-> v.role, links |-> v.links, dev |-> v.dev, ospf |-> v.ospf, arp |-> v.arp]
  BY DEF Alike, WorldShape
<1>4. bound(w) = Redone(w, dev(w)) /\ bound(v) = Redone(v, dev(v))
  <2>1. bound(w) = Redone(w, dev(w))
    BY ONLY <1>3 DEF Redone
  <2>2. bound(v) = Redone(v, dev(v))
    BY ONLY <1>3 DEF Redone
  <2> QED
    BY <2>1, <2>2
<1>5. dev(v) = dev(w)
  BY <1>1
<1> HIDE DEF bound, dev
<1>6. Alike(Redone(w, dev(w)), Redone(v, dev(v)))
  BY <1>5, AlikeRedone
<1> QED
  BY <1>2, <1>4, <1>6, AlikeRefreshed

LEMMA AlikeOffer ==
    ASSUME NEW w, NEW v, Alike(w, v), NEW pc
    PROVE  Alike(OfferDhcp(w, pc), OfferDhcp(v, pc))
<1> DEFINE a == RefreshLinkState(w)
           b == RefreshLinkState(v)
           answers == Offers(Wires(a), pc)
           r == FirstOffer(answers)[1]
           pool == a.dev[r].pools[FirstOffer(answers)[2]]
           ip == PoolOffer(Wires(a), r, pool, pc)
           p == HostIf(a, pc)
<1>1. Role(v, pc) = Role(w, pc) /\ Ifs(v, pc) = Ifs(w, pc)
  BY DEF Alike, Role, Ifs
<1>2. CASE Role(w, pc) # "pc" \/ Ifs(w, pc) = {}
  <2>1. OfferDhcp(w, pc) = w /\ OfferDhcp(v, pc) = v
    BY <1>1, <1>2 DEF OfferDhcp
  <2> QED
    BY <2>1
<1>3. CASE ~(Role(w, pc) # "pc" \/ Ifs(w, pc) = {})
  <2>1. Alike(a, b)
    BY AlikeRefreshed
  <2>2. OfferDhcp(w, pc) = Renewed(a, pc) /\ OfferDhcp(v, pc) = Renewed(b, pc)
    BY <1>1, <1>3 DEF OfferDhcp
  <2> HIDE DEF a, b
  <2>3. Wires(b) = Wires(a) /\ b.dev = a.dev
    BY <2>1 DEF Alike, Wires
  <2>4. HostIf(b, pc) = HostIf(a, pc)
    BY <2>1 DEF Alike, HostIf, FirstIf, Ifs, LinkEnds, Links
  <2>5. /\ Renewed(a, pc) = IF answers = {} THEN a ELSE BindLease(a, pc, p, r, pool, ip)
        /\ Renewed(b, pc) = IF answers = {} THEN b ELSE BindLease(b, pc, p, r, pool, ip)
    BY <2>3, <2>4 DEF Renewed, TakeOffer
  <2> HIDE DEF answers, r, pool, ip, p
  <2>6. Alike(BindLease(a, pc, p, r, pool, ip), BindLease(b, pc, p, r, pool, ip))
    BY <2>1, AlikeBind
  <2> QED
    BY <2>1, <2>2, <2>5, <2>6
<1> QED
  BY <1>2, <1>3

LEMMA AlikeHost ==
    ASSUME NEW lab \in Labs, NEW w, Sound(lab, w), NEW v, Sound(lab, v), Alike(w, v),
           NEW d, NEW l
    PROVE  Alike(HostFeed(w, d, l), HostFeed(v, d, l))
<1>0. Ifs(v, d) = Ifs(w, d)
  BY DEF Alike, Ifs
<1>1. CASE l.tok = "ipconfig" /\ l.sub = "renew"
  BY <1>1, AlikeOffer DEF HostFeed
<1>2. CASE l.tok = "ip" /\ l.sub = "address" /\ Ifs(w, d) # {}
  BY <1>0, <1>2, AlikeHostAddress DEF HostFeed
<1>3. CASE l.tok = "ping" /\ l.sub # ""
  <2>1. HostFeed(w, d, l) = Ping(w, d, l.ip) /\ HostFeed(v, d, l) = Ping(v, d, l.ip)
    BY <1>3 DEF HostFeed
  <2> QED
    BY <2>1, AlikePing
<1>4. CASE l.tok = "tracert" /\ l.sub # ""
  <2>1. HostFeed(w, d, l) = Converge(w) /\ HostFeed(v, d, l) = Converge(v)
    BY <1>4 DEF HostFeed
  <2> QED
    BY <2>1, AlikePing
<1>5. CASE /\ ~(l.tok = "ipconfig" /\ l.sub = "renew")
           /\ ~(l.tok = "ip" /\ l.sub = "address" /\ Ifs(w, d) # {})
           /\ ~(l.tok = "ping" /\ l.sub # "") /\ ~(l.tok = "tracert" /\ l.sub # "")
  <2>1. HostFeed(w, d, l) = w /\ HostFeed(v, d, l) = v
    BY <1>0, <1>5 DEF HostFeed
  <2> QED
    BY <2>1
<1> QED
  BY <1>1, <1>2, <1>3, <1>4, <1>5

-----------------------------------------------------------------------------
(* Sessions that differ in the tables, the log and the grades, and those   *)
(* that differ in the log and the grades alone.                            *)

Twins(s, t) == t.lab = s.lab /\ t.w.dev = s.w.dev /\ t.sh = s.sh
Same(s, t) == t.lab = s.lab /\ t.w = s.w /\ t.sh = s.sh

NoTable(s, d, l) == IsHost(s, d) \/ ~AsksTable(s.sh[d].mode, l)

LEMMA TwinsFeed ==
    ASSUME NEW s, SessOk(s), NEW t, SessOk(t), Twins(s, t),
           NEW d \in DOMAIN LabOf[s.lab].role, NEW l, LineOk(l), NoTable(s, d, l)
    PROVE  Twins(FeedDevice(s, d, l), FeedDevice(t, d, l))
<1> DEFINE lab == LabOf[s.lab]
           w == s.w
           v == t.w
           a == FeedDevice(s, d, l)
           b == FeedDevice(t, d, l)
<1>1. /\ lab \in Labs /\ Sound(lab, w) /\ Sound(lab, v) /\ ShellsOk(lab, s.sh)
      /\ SessShape(s) /\ SessShape(t) /\ t.lab = s.lab /\ t.sh = s.sh
  BY DEF SessOk, Labs, Twins
<1>2. Alike(w, v)
  BY <1>1, SoundAlike DEF Twins
<1>3. Role(v, d) = Role(w, d)
  BY <1>2 DEF Alike, Role
<1>4. CASE IsHost(s, d)
  <2> DEFINE x == HostFeed(w, d, l)
             y == HostFeed(v, d, l)
  <2>1. a = [s EXCEPT !.w = x] /\ b = [t EXCEPT !.w = y]
    BY <1>3, <1>4 DEF FeedDevice, IsHost
  <2>2. Alike(x, y)
    BY <1>1, <1>2, AlikeHost
  <2> HIDE DEF x, y, a, b
  <2>3. a.lab = s.lab /\ a.w = x /\ a.sh = s.sh /\ b.lab = t.lab /\ b.w = y /\ b.sh = t.sh
    BY <1>1, <2>1 DEF SessShape
  <2> QED
    BY <1>1, <2>2, <2>3 DEF Alike, Twins, a, b
<1>5. CASE ~IsHost(s, d)
  <2> DEFINE x == Feed(w, d, s.sh[d], l)
             y == Feed(v, d, s.sh[d], l)
  <2>1. a = [s EXCEPT !.w = x.w, !.sh[d] = x.s] /\ b = [t EXCEPT !.w = y.w, !.sh[d] = y.s]
    BY <1>1, <1>3, <1>5 DEF FeedDevice, IsHost, Took
  <2>2. ShellOk(s.sh[d]) /\ ~AsksTable(s.sh[d].mode, l)
    BY <1>1, <1>5 DEF ShellsOk, NoTable
  <2>3. y.s = x.s /\ Alike(x.w, y.w)
    BY <1>1, <1>2, <2>2, AlikeFeed
  <2> HIDE DEF x, y, a, b
  <2>4. /\ a.lab = s.lab /\ a.w = x.w /\ a.sh = [s.sh EXCEPT ![d] = x.s]
        /\ b.lab = t.lab /\ b.w = y.w /\ b.sh = [t.sh EXCEPT ![d] = y.s]
    BY <1>1, <2>1 DEF SessShape
  <2> QED
    BY <1>1, <2>3, <2>4 DEF Alike, Twins, a, b
<1> QED
  BY <1>4, <1>5

LEMMA TwinsLogged ==
    ASSUME NEW s, SessOk(s), NEW t, SessOk(t), Twins(s, t),
           NEW d \in DOMAIN LabOf[s.lab].role, NEW l, LineOk(l), NoTable(s, d, l)
    PROVE  Twins(LoggedFeed(s, d, l), LoggedFeed(t, d, l))
<1> DEFINE a == Logged(s, d, l)
           b == Logged(t, d, l)
<1>1. t.lab = s.lab
  BY DEF Twins
<1>2. SessOk(a) /\ SameRun(s, a) /\ a.w = s.w /\ a.sh = s.sh
  BY LoggedOk
<1>3. SessOk(b) /\ SameRun(t, b) /\ b.w = t.w /\ b.sh = t.sh
  BY <1>1, LoggedOk
<1>4. LoggedFeed(s, d, l) = FeedDevice(a, d, l) /\ LoggedFeed(t, d, l) = FeedDevice(b, d, l)
  BY DEF LoggedFeed
<1> HIDE DEF a, b
<1>5. Twins(a, b) /\ a.lab = s.lab /\ NoTable(a, d, l)
  BY <1>2, <1>3 DEF Twins, SameRun, NoTable, IsHost
<1> QED
  BY <1>2, <1>3, <1>4, <1>5, TwinsFeed

LEMMA SameFeed ==
    ASSUME NEW s, SessOk(s), NEW t, SessOk(t), Same(s, t), NEW d, NEW l
    PROVE  Same(FeedDevice(s, d, l), FeedDevice(t, d, l))
<1>1. SessShape(s) /\ SessShape(t) /\ t.w = s.w /\ t.sh = s.sh /\ t.lab = s.lab
  BY DEF SessOk, Same
<1> DEFINE x == HostFeed(s.w, d, l)
           y == Feed(s.w, d, s.sh[d], l)
           sh == [s.sh EXCEPT ![d] = y.s]
<1>2. FeedDevice(s, d, l) = IF IsHost(s, d) THEN [s EXCEPT !.w = x] ELSE [s EXCEPT !.w = y.w, !.sh = sh]
  BY DEF FeedDevice, Took
<1>3. FeedDevice(t, d, l) = IF IsHost(s, d) THEN [t EXCEPT !.w = x] ELSE [t EXCEPT !.w = y.w, !.sh = sh]
  BY <1>1 DEF FeedDevice, Took, IsHost
<1> HIDE DEF x, y, sh
<1>4. Same([s EXCEPT !.w = x], [t EXCEPT !.w = x])
  BY <1>1 DEF Same, SessShape
<1>5. Same([s EXCEPT !.w = y.w, !.sh = sh], [t EXCEPT !.w = y.w, !.sh = sh])
  BY <1>1 DEF Same, SessShape
<1> QED
  BY <1>2, <1>3, <1>4, <1>5

LEMMA SameLogged ==
    ASSUME NEW s, SessOk(s), NEW t, SessOk(t), Same(s, t),
           NEW d \in DOMAIN LabOf[s.lab].role, NEW l, LineOk(l)
    PROVE  Same(LoggedFeed(s, d, l), LoggedFeed(t, d, l))
<1> DEFINE a == Logged(s, d, l)
           b == Logged(t, d, l)
<1>1. t.lab = s.lab
  BY DEF Same
<1>2. SessOk(a) /\ SameRun(s, a) /\ a.w = s.w /\ a.sh = s.sh
  BY LoggedOk
<1>3. SessOk(b) /\ SameRun(t, b) /\ b.w = t.w /\ b.sh = t.sh
  BY <1>1, LoggedOk
<1>4. LoggedFeed(s, d, l) = FeedDevice(a, d, l) /\ LoggedFeed(t, d, l) = FeedDevice(b, d, l)
  BY DEF LoggedFeed
<1> HIDE DEF a, b
<1>5. Same(a, b)
  BY <1>2, <1>3 DEF Same, SameRun
<1> QED
  BY <1>2, <1>3, <1>4, <1>5, SameFeed

\* A script that is one line longer.
LEMMA FeedAllGrows ==
    ASSUME NEW s, NEW q, IsSequence(q), NEW x
    PROVE  FeedAll(s, Append(q, x)) = LoggedFeed(FeedAll(s, q), x[1], x[2])
<1> DEFINE n == Len(q)
           r == Append(q, x)
<1>1. n \in Nat /\ DOMAIN q = 1..n /\ Len(r) = n + 1 /\ r[n + 1] = x /\ \A i \in 1..n : r[i] = q[i]
  <2>1. n \in Nat /\ DOMAIN q = 1..n
    BY Lists
  <2>2. IsSequence(r) /\ DOMAIN r = DOMAIN q \cup {n + 1} /\ r[n + 1] = x
        /\ \A i \in DOMAIN q : r[i] = q[i]
    BY ListGrows
  <2>3. Len(r) = n + 1
    BY DEF IsSequence
  <2> QED
    BY <2>1, <2>2, <2>3
<1> HIDE DEF n, r
<1>2. PICK g : /\ FeedAll(s, r) = g[n + 1] /\ g[0] = s
               /\ \A i \in 1..(n + 1) : g[i] = LoggedFeed(g[i - 1], r[i][1], r[i][2])
  <2>1. Len(r) \in Nat
    BY <1>1
  <2> QED
    BY <1>1, <2>1, FeedAllRun
<1>3. PICK h : /\ FeedAll(s, q) = h[n] /\ h[0] = s
               /\ \A i \in 1..n : h[i] = LoggedFeed(h[i - 1], q[i][1], q[i][2])
  <2>1. Len(q) \in Nat /\ n = Len(q)
    BY <1>1 DEF n
  <2> QED
    BY <2>1, FeedAllRun
<1> DEFINE Bad == {k \in 0..n : g[k] # h[k]}
<1>4. Bad = {}
  <2> SUFFICES ASSUME Bad # {} PROVE FALSE
    OBVIOUS
  <2>1. PICK k \in Bad : \A m \in Bad : k <= m
    <3>1. Bad \subseteq Nat
      BY <1>1
    <3> HIDE DEF Bad
    <3> QED
      BY <3>1, SmallestNumber
  <2>2. k \in 1..n /\ k - 1 \in 0..n /\ k - 1 \notin Bad /\ k \in 1..(n + 1)
    BY <1>1, <1>2, <1>3, <2>1
  <2>3. g[k - 1] = h[k - 1]
    BY <2>2
  <2>4. g[k] = LoggedFeed(g[k - 1], q[k][1], q[k][2])
    BY <1>1, <1>2, <2>2
  <2>5. h[k] = LoggedFeed(h[k - 1], q[k][1], q[k][2])
    BY <1>3, <2>2
  <2> QED
    BY <2>1, <2>3, <2>4, <2>5
<1>5. g[n] = h[n]
  <2>1. n \in 0..n
    BY <1>1
  <2> QED
    BY <1>4, <2>1
<1>6. g[n + 1] = LoggedFeed(g[n], x[1], x[2])
  <2>1. n + 1 \in 1..(n + 1) /\ (n + 1) - 1 = n
    BY <1>1
  <2> HIDE DEF Bad
  <2>2. g[n + 1] = LoggedFeed(g[(n + 1) - 1], r[n + 1][1], r[n + 1][2])
    BY <1>2, <2>1
  <2> QED
    BY <1>1, <2>1, <2>2
<1> QED
  BY <1>2, <1>3, <1>5, <1>6 DEF r

LEMMA JoinedGrows ==
    ASSUME NEW a, IsSequence(a), NEW b, IsSequence(b), NEW x
    PROVE  a \o Append(b, x) = Append(a \o b, x)
<1> DEFINE S == {a[i] : i \in DOMAIN a} \cup {b[i] : i \in DOMAIN b} \cup {x}
<1>1. a \in Seq(S) /\ b \in Seq(S) /\ x \in S
  BY DEF IsSequence
<1> HIDE DEF S
<1> QED
  BY <1>1

-----------------------------------------------------------------------------
(* What a log builds.                                                      *)

LEMMA BuiltFrom ==
    ASSUME NEW l \in DOMAIN LabOf, NEW log, ScriptOk(LabOf[l], log)
    PROVE  LET u == FeedAll(Fresh(l), BaseScript(LabOf[l]) \o log)
           IN  SessOk(u) /\ u.lab = l /\ SessOk(Build(l, log)) /\ Same(u, Build(l, log))
<1> DEFINE script == BaseScript(LabOf[l]) \o log
           s == Fresh(l)
           u == FeedAll(s, script)
           t == Build(l, log)
<1>1. t = Relogged(u, log)
  BY DEF Build, Fresh, Relogged
<1>2. SessOk(s) /\ s.lab = l
  BY FreshOk
<1>3. ScriptOk(LabOf[l], script)
  <2>1. ScriptOk(LabOf[l], BaseScript(LabOf[l]))
    BY BaseScriptOk DEF Labs
  <2> QED
    BY <2>1, ScriptsJoined
<1> HIDE DEF s, script
<1>4. SessOk(u) /\ SameRun(s, u)
  BY <1>2, <1>3, FeedAllOk
<1> HIDE DEF u, t
<1>5. u.lab = l
  BY <1>2, <1>4 DEF SameRun
<1>6. SessOk(t) /\ SameRun(u, t) /\ t.w = u.w /\ t.sh = u.sh
  BY <1>1, <1>4, <1>5, LogChange
<1> QED
  BY <1>4, <1>5, <1>6 DEF SameRun, Same, u, t, s, script

LEMMA BuildGrows ==
    ASSUME NEW l \in DOMAIN LabOf, NEW log, ScriptOk(LabOf[l], log),
           NEW d \in DOMAIN LabOf[l].role, NEW x, LineOk(x)
    PROVE  Same(Build(l, Append(log, <<d, x>>)), LoggedFeed(Build(l, log), d, x))
<1> DEFINE base == BaseScript(LabOf[l])
           longer == Append(log, <<d, x>>)
           u == FeedAll(Fresh(l), base \o log)
           y == FeedAll(Fresh(l), base \o longer)
<1>1. ScriptOk(LabOf[l], longer)
  BY ScriptGrows
<1>2. ScriptOk(LabOf[l], base) /\ IsSequence(log)
  BY BaseScriptOk DEF Labs, ScriptOk
<1>3. IsSequence(base \o log)
  BY <1>2, ScriptsJoined DEF ScriptOk
<1>4. y = LoggedFeed(u, d, x)
  <2>1. base \o longer = Append(base \o log, <<d, x>>)
    <3> HIDE DEF base
    <3> QED
      BY <1>2, JoinedGrows DEF ScriptOk
  <2> HIDE DEF longer
  <2>2. y = LoggedFeed(u, <<d, x>>[1], <<d, x>>[2])
    <3> HIDE DEF base
    <3> QED
      BY <1>3, <2>1, FeedAllGrows
  <2> QED
    BY <2>2
<1>5. SessOk(u) /\ u.lab = l /\ SessOk(Build(l, log)) /\ Same(u, Build(l, log))
  BY BuiltFrom
<1> HIDE DEF longer
<1>6. Same(y, Build(l, longer))
  BY <1>1, BuiltFrom
<1> HIDE DEF u, y
<1>7. Same(LoggedFeed(u, d, x), LoggedFeed(Build(l, log), d, x))
  BY <1>5, SameLogged
<1> QED
  BY <1>4, <1>6, <1>7 DEF Same, longer

\* A line that is not logged changes a shell or nothing.
LEMMA CommentIsUnknown ==
    ASSUME NEW mode \in Modes PROVE Resolve("!", mode) = ""
<1>1. "!" \notin Commands(mode)
  BY DEF Commands, Modes
<1>2. {c \in Commands(mode) : c \in DOMAIN Abbrevs /\ "!" \in Abbrevs[c]} = {}
  BY AbbrevAssumption
<1> DEFINE hits == {c \in Commands(mode) : c \in DOMAIN Abbrevs /\ "!" \in Abbrevs[c]}
           pick == CHOOSE c \in hits : TRUE
<1>3. Cardinality(hits) = 0
  BY <1>2, FS_EmptySet
<1>4. Resolve("!", mode) = IF "!" \in Commands(mode) THEN "!"
                          ELSE IF Cardinality(hits) = 1 THEN pick
                          ELSE IF hits = {} THEN "" ELSE "?"
  BY DEF Resolve
<1>6. hits = {}
  BY <1>2
<1> HIDE DEF hits, pick
<1>5. Cardinality(hits) # 1
  BY <1>3
<1> QED
  BY <1>1, <1>4, <1>5, <1>6

LEMMA IdleLine ==
    ASSUME NEW s, SessOk(s), NEW d \in DOMAIN LabOf[s.lab].role, NEW l \in {Blank, Comment},
           LoggedFeed(s, d, l).sh = s.sh
    PROVE  LoggedFeed(s, d, l) = s
<1>1. SessShape(s) /\ ShellsOk(LabOf[s.lab], s.sh)
  BY DEF SessOk
<1>2. LoggedFeed(s, d, l) = FeedDevice(s, d, l)
  BY DEF LoggedFeed, Logged
<1>3. CASE IsHost(s, d)
  <2>0. l.tok \in {"", "!"}
    <3>1. Blank.tok = "" /\ Comment.tok = "!"
      BY DEF Blank, Comment
    <3> QED
      BY <3>1
  <2>1. /\ ~(l.tok = "ipconfig" /\ l.sub = "renew")
        /\ ~(l.tok = "ip" /\ l.sub = "address" /\ Ifs(s.w, d) # {})
        /\ ~(l.tok = "ping" /\ l.sub # "") /\ ~(l.tok = "tracert" /\ l.sub # "")
    BY <2>0
  <2>4. HostFeed(s.w, d, l) = s.w
    BY <2>1 DEF HostFeed
  <2>2. FeedDevice(s, d, l) = [s EXCEPT !.w = s.w]
    BY <1>3, <2>4 DEF FeedDevice
  <2>3. [s EXCEPT !.w = s.w] = s
    BY <1>1 DEF SessShape
  <2> QED
    BY <1>2, <2>2, <2>3
<1>4. CASE ~IsHost(s, d)
  <2> DEFINE sh == s.sh[d]
             r == Feed(s.w, d, sh, l)
  <2>1. ShellOk(sh)
    BY <1>1 DEF ShellsOk
  <2>2. r.w = s.w
    <3> HIDE DEF sh
    <3>1. CASE sh.more > 0 \/ l = Blank
      BY <3>1 DEF Feed, Result
    <3>2. CASE ~(sh.more > 0) /\ l # Blank
      <4>0. Comment.tok = "!" /\ l = Comment
        BY <3>2 DEF Comment
      <4>1. l.tok = "!" /\ sh.mode \in Modes
        BY <2>1, <4>0 DEF ShellOk
      <4>2. Resolve(l.tok, sh.mode) = ""
        BY <4>1, CommentIsUnknown
      <4>3. Run(s.w, d, sh, "", l) = Result(s.w, sh, 3)
        BY ONLY DEF Run, IfCommands, SwitchOnly
      <4>4. Dispatch(s.w, d, sh, l) = Result(s.w, sh, 3)
        BY ONLY <4>2, <4>3 DEF Dispatch, Restored
      <4>5. r = HeldBack(Result(s.w, sh, 3))
        BY <3>2, <4>4 DEF Feed
      <4> QED
        BY <4>5 DEF HeldBack, Result
    <3> QED
      BY <3>1, <3>2
  <2>3. FeedDevice(s, d, l) = Took(s, d, r)
    BY <1>4 DEF FeedDevice
  <2> HIDE DEF r
  <2>4. Took(s, d, r) = [s EXCEPT !.w = s.w, !.sh = [s.sh EXCEPT ![d] = r.s]]
    BY <2>2 DEF Took
  <2>5. [s.sh EXCEPT ![d] = r.s] = s.sh
    BY <1>1, <1>2, <2>3, <2>4 DEF SessShape
  <2>6. Took(s, d, r) = s
    BY <1>1, <2>4, <2>5 DEF SessShape
  <2> QED
    BY <1>2, <2>3, <2>6
<1> QED
  BY <1>3, <1>4

-----------------------------------------------------------------------------
(* Reset & Replay.                                                         *)

\* The log builds the devices and the shells of the session, as long as no
\* shell has read what is not in it, and the tables too while no check has
\* changed them.
Rebuilt(s, whole) ==
    /\ Twins(Build(s.lab, s.log), s)
    /\ whole => Same(Build(s.lab, s.log), s)

ReplayInv ==
    /\ resets \in Nat /\ unlogged \in BOOLEAN /\ checked \in BOOLEAN
    /\ sess # NoSession /\ ~unlogged => Rebuilt(sess, ~checked)

LEMMA ReplayFed ==
    ASSUME NEW s, SessOk(s), NEW whole \in BOOLEAN, Rebuilt(s, whole),
           NEW d \in DOMAIN LabOf[s.lab].role, NEW l, LineOk(l),
           whole \/ NoTable(s, d, l),
           NEW t, t = LoggedFeed(s, d, l),
           l \in {Blank, Comment} => t.sh = s.sh
    PROVE  Rebuilt(t, whole)
<1>1. CASE l \in {Blank, Comment}
  BY <1>1, IdleLine
<1>2. CASE l \notin {Blank, Comment}
  <2> DEFINE u == Logged(s, d, l)
             b == Build(s.lab, s.log)
             c == Build(s.lab, Append(s.log, <<d, l>>))
             f == LoggedFeed(b, d, l)
  <2>1. s.lab \in DOMAIN LabOf /\ ScriptOk(LabOf[s.lab], s.log)
    BY DEF SessOk
  <2>2. u.log = Append(s.log, <<d, l>>)
    BY <1>2 DEF Logged, SessOk, SessShape
  <2>3. SessOk(u) /\ SameRun(s, u) /\ t = FeedDevice(u, d, l)
    BY LoggedOk DEF LoggedFeed
  <2> HIDE DEF u
  <2>4. t.log = Append(s.log, <<d, l>>) /\ t.lab = s.lab
    <3>1. u.lab = s.lab
      BY <2>3 DEF SameRun
    <3>2. SameRun(u, t) /\ t.log = u.log
      BY <2>3, <3>1, FeedDeviceOk
    <3> QED
      BY <2>2, <3>1, <3>2 DEF SameRun
  <2>5. SessOk(b) /\ b.lab = s.lab /\ Twins(b, s) /\ (whole => Same(b, s))
    BY <2>1, BuiltFrom DEF Rebuilt, Twins
  <2>6. Same(c, f)
    BY <2>1, BuildGrows
  <2>7. whole => Same(f, t)
    <3> HIDE DEF b
    <3> QED
      BY <2>5, SameLogged
  <2>8. ~whole => Twins(f, t)
    <3>1. NoTable(b, d, l) <=> NoTable(s, d, l)
      <4>1. b.sh = s.sh /\ Role(b.w, d) = Role(s.w, d)
        BY <2>1, <2>5 DEF Twins, SessOk, Sound, WorldOk, Role
      <4> QED
        BY <4>1 DEF NoTable, IsHost
    <3> HIDE DEF b
    <3> QED
      BY <2>5, <3>1, TwinsLogged
  <2> HIDE DEF b, c, f
  <2>9. Build(t.lab, t.log) = c
    BY <2>4 DEF c
  <2> QED
    BY <2>6, <2>7, <2>8, <2>9 DEF Rebuilt, Twins, Same
<1> QED
  BY <1>1, <1>2

LEMMA ReplayStep == ASSUME DeskInv, ReplayInv, [Next]_vars PROVE ReplayInv'
<1>1. ASSUME NEW l \in DOMAIN LabOf, StartLab(l) PROVE ReplayInv'
  <2>1. sess' = Build(l, <<>>) /\ unlogged' = FALSE /\ checked' = FALSE /\ resets' = resets
    BY <1>1 DEF StartLab, Create
  <2>2. sess'.lab = l /\ sess'.log = <<>>
    BY <2>1, NoScript, BuildOk DEF NewRun
  <2> QED
    BY <2>1, <2>2 DEF ReplayInv, Rebuilt, Twins, Same
<1>2. ASSUME MayType,
             NEW x \in TypedLines[sess.lab][typed + 1] \cup Devs(sess.w) \X (PagerKeys \cup {EndLine}),
             Submit(x[1], x[2])
      PROVE  ReplayInv'
  <2> DEFINE d == x[1]
             l == x[2]
             key == l \in {Blank, Comment} /\ sess'.sh # sess.sh
             table == checked /\ ~IsHost(sess, d) /\ AsksTable(sess.sh[d].mode, l)
  <2>1. d \in DOMAIN LabOf[sess.lab].role /\ LineOk(l)
    BY <1>2, KnownLines DEF LineFor
  <2>2. /\ sess' = LoggedFeed(sess, d, l) /\ resets' = resets /\ checked' = checked
        /\ unlogged' = (unlogged \/ key \/ table)
    BY <1>2 DEF Submit
  <2>3. sess # NoSession /\ SessOk(sess)
    BY <1>2 DEF MayType, Active, DeskInv, RunOk
  <2> HIDE DEF d, l
  <2>4. unlogged' \in BOOLEAN /\ checked \in BOOLEAN
    BY <2>2 DEF ReplayInv
  <2>5. ASSUME ~unlogged' PROVE Rebuilt(sess', ~checked)
    <3>1. ~unlogged /\ ~key /\ ~table
      BY <2>2, <2>5
    <3>2. Rebuilt(sess, ~checked)
      BY <2>3, <3>1 DEF ReplayInv
    <3>3. /\ ~checked \/ NoTable(sess, d, l)
          /\ l \in {Blank, Comment} => sess'.sh = sess.sh
      BY <3>1 DEF NoTable
    <3>4. (~checked) \in BOOLEAN
      OBVIOUS
    <3> HIDE DEF key, table
    <3> QED
      BY <2>1, <2>2, <2>3, <3>2, <3>3, <3>4, ReplayFed
  <2> HIDE DEF key, table
  <2> QED
    BY <2>2, <2>4, <2>5 DEF ReplayInv
<1>3. ASSUME sess # NoSession, resets' = resets, unlogged' = unlogged,
             sess'.lab = sess.lab, sess'.log = sess.log, sess'.sh = sess.sh,
             sess'.w.dev = sess.w.dev, checked' = (checked \/ sess'.w # sess.w)
      PROVE  ReplayInv'
  <2>1. checked' \in BOOLEAN /\ (~checked' => ~checked /\ sess'.w = sess.w)
    BY <1>3
  <2> QED
    BY <1>3, <2>1 DEF ReplayInv, Rebuilt, Twins, Same
<1>11. ASSUME UNCHANGED <<sess, resets, checked, unlogged>> PROVE ReplayInv'
  BY <1>11 DEF ReplayInv, Rebuilt, Twins, Same
<1>4. ASSUME NEW d \in more, Interrupt(d) PROVE ReplayInv'
  BY <1>4, <1>11 DEF Interrupt
<1>5. ASSUME Active, NEW i \in DOMAIN Tasks(sess.lab), GotoTask(i) PROVE ReplayInv'
  <2>1. SessOk(sess) /\ sess' = AtTask(sess, i) /\ resets' = resets /\ unlogged' = unlogged /\ checked' = checked
    BY <1>5 DEF Active, DeskInv, RunOk, GotoTask, AtTask
  <2>2. sess'.lab = sess.lab /\ sess'.log = sess.log /\ sess'.sh = sess.sh /\ sess'.w = sess.w
    BY <2>1, TaskChange
  <2>4. checked' = (checked \/ sess'.w # sess.w)
    BY <2>1, <2>2 DEF ReplayInv
  <2> QED
    BY <1>3, <1>5, <2>1, <2>2, <2>4 DEF Active
<1>6. ASSUME GoNext \/ GoPrev PROVE ReplayInv'
  <2>1. sess # NoSession /\ SessOk(sess) /\ resets' = resets /\ unlogged' = unlogged /\ checked' = checked
    BY <1>6 DEF GoNext, GoPrev, Active, DeskInv, RunOk
  <2>2. sess' = sess \/ sess' = AtTask(sess, sess.task + 1) \/ sess' = AtTask(sess, sess.task - 1)
    BY <1>6 DEF GoNext, GoPrev, NextTask, PreviousTask, AtTask
  <2>3. sess'.lab = sess.lab /\ sess'.log = sess.log /\ sess'.sh = sess.sh /\ sess'.w = sess.w
    BY <2>1, <2>2, TaskChange
  <2>4. checked' = (checked \/ sess'.w # sess.w)
    BY <2>1, <2>3 DEF ReplayInv
  <2> QED
    BY <1>3, <2>1, <2>3, <2>4
<1>7. ASSUME CheckCurrent PROVE ReplayInv'
  <2>1. /\ sess # NoSession /\ SessOk(sess) /\ resets' = resets /\ unlogged' = unlogged
        /\ checked' = (checked \/ sess'.w # sess.w)
        /\ sess' = CheckTask(sess, sess.task) /\ sess.task \in DOMAIN Tasks(sess.lab)
    BY <1>7, TasksOf DEF CheckCurrent, Active, DeskInv, RunOk, SessOk
  <2>2. /\ sess'.lab = sess.lab /\ sess'.log = sess.log /\ sess'.sh = sess.sh
        /\ SameWires(LabOf[sess.lab], sess.w, sess'.w)
    BY <2>1, CheckTaskOk
  <2> QED
    BY <1>3, <2>1, <2>2 DEF SameWires
<1>8. ASSUME NEW replay \in BOOLEAN, ResetLab(replay) PROVE ReplayInv'
  <2> DEFINE log == IF replay THEN sess.log ELSE <<>>
  <2>1. /\ sess # NoSession /\ SessOk(sess) /\ sess' = Build(sess.lab, log)
        /\ resets' = resets + 1 /\ unlogged' = FALSE /\ checked' = FALSE
    BY <1>8 DEF ResetLab, Active, DeskInv, RunOk, Reset
  <2>2. sess.lab \in DOMAIN LabOf /\ ScriptOk(LabOf[sess.lab], log)
    BY <2>1, NoScript DEF SessOk
  <2> HIDE DEF log
  <2>3. sess'.lab = sess.lab /\ sess'.log = log
    BY <2>1, <2>2, BuildOk DEF NewRun
  <2>4. unlogged' \in BOOLEAN /\ checked' \in BOOLEAN
    BY <2>1
  <2>5. Rebuilt(sess', ~checked')
    BY <2>1, <2>3 DEF Rebuilt, Twins, Same
  <2> QED
    BY <2>1, <2>4, <2>5 DEF ReplayInv
<1>9. ASSUME FinishLab \/ LeaveLab PROVE ReplayInv'
  BY <1>9, <1>11 DEF FinishLab, LeaveLab, ReplayInv
<1>10. ASSUME UNCHANGED vars PROVE ReplayInv'
  BY <1>10, <1>11 DEF vars
<1> QED
  BY <1>1, <1>2, <1>4, <1>5, <1>6, <1>7, <1>8, <1>9, <1>10 DEF Next

LEMMA ReplayInvariant == Spec => []ReplayInv
<1>1. ASSUME Init PROVE ReplayInv
  <2>1. resets = 0 /\ unlogged = FALSE /\ checked = FALSE /\ sess = NoSession
    BY <1>1 DEF Init
  <2>2. unlogged \in BOOLEAN /\ checked \in BOOLEAN
    BY <2>1
  <2> QED
    BY <2>1, <2>2 DEF ReplayInv
<1>2. DeskInv /\ ReplayInv /\ [Next]_vars => ReplayInv'
  BY ReplayStep
<1> QED
  BY <1>1, <1>2, DeskInvariant, PTL DEF Spec

\* Reset & Replay gives every device its configuration and every shell its
\* mode back, unless a shell took a key or a comment that the log does not
\* have, or showed a table after a check had pinged.
THEOREM ReplayIsFaithful == Spec => ReplayRebuilds
<1> DEFINE Faithful ==
      resets' > resets /\ sess'.log # <<>> /\ ~unlogged =>
          \A d \in Devs(sess.w) :
             /\ RunningConfig(sess'.w.dev[d]) = RunningConfig(sess.w.dev[d])
             /\ sess'.sh[d] = sess.sh[d]
<1>1. ASSUME DeskInv, ReplayInv, [Next]_vars PROVE Faithful
  <2> SUFFICES ASSUME resets' > resets, sess'.log # <<>>, ~unlogged
               PROVE  sess'.w.dev = sess.w.dev /\ sess'.sh = sess.sh
    OBVIOUS
  <2>1. resets' # resets
    BY <1>1 DEF ReplayInv
  <2>2. PICK replay \in BOOLEAN : ResetLab(replay)
    BY <1>1, <2>1 DEF Next, vars, StartLab, Submit, Interrupt, GotoTask, GoNext, GoPrev,
                      CheckCurrent, FinishLab, LeaveLab
  <2>3. sess # NoSession /\ SessOk(sess) /\ sess' = Reset(sess, replay)
    BY <1>1, <2>2 DEF ResetLab, Active, DeskInv, RunOk
  <2>4. replay
    BY <2>3, ResetOk
  <2>5. sess' = Build(sess.lab, sess.log)
    BY <2>3, <2>4 DEF Reset
  <2>6. Twins(Build(sess.lab, sess.log), sess)
    BY <1>1, <2>3 DEF ReplayInv, Rebuilt
  <2> QED
    BY <2>5, <2>6 DEF Twins
<1>2. DeskInv /\ ReplayInv /\ [Next]_vars => [Faithful]_vars
  BY <1>1
<1> QED
  BY <1>2, DeskInvariant, ReplayInvariant, PTL DEF Spec, ReplayRebuilds

-----------------------------------------------------------------------------
(* The server, with one worker.                                            *)

\* Where a session is while a submission goes through it: the task is graded,
\* then the last one it can be, or advanced.
InOrder(s) ==
    \/ DOMAIN s.grades = 1..s.task - 1
    \/ DOMAIN s.grades = DOMAIN Tasks(s.lab) /\ s.task = Len(Tasks(s.lab))

Between(c, s) ==
    \/ c.step = "grade" /\ InOrder(s) /\ c.task = s.task
    \/ c.step = "next" /\ DOMAIN s.grades = 1..s.task
    \/ c.step = "advance" /\ DOMAIN s.grades = 1..s.task /\ s.task < Len(Tasks(s.lab))

CallShape(c) == c = [step |-> c.step, id |-> c.id, task |-> c.task, config |-> c.config]

ServerInv ==
    /\ calls = [t \in Threads |-> calls[t]] /\ \A t \in Threads : CallShape(calls[t])
    /\ \A id \in DOMAIN served : RunOk(served[id])
    /\ \A t \in Threads : calls[t] # IdleCall =>
          calls[t].id \in DOMAIN served /\ Between(calls[t], served[calls[t].id])
    /\ \A id \in DOMAIN served : Calling(id) = {} => InOrder(served[id])

LEMMA NewInOrder ==
    ASSUME NEW s, RunOk(s), s.task = 1, s.grades = <<>> PROVE InOrder(s)
<1>1. DOMAIN s.grades = {}
  <2>1. DOMAIN <<>> = {}
    OBVIOUS
  <2> QED
    BY <2>1
<1>2. 1..s.task - 1 = {}
  OBVIOUS
<1> QED
  BY <1>1, <1>2 DEF InOrder

\* A submission grades the current task.
LEMMA SubmittedOk ==
    ASSUME NEW s, RunOk(s), InOrder(s), NEW config, NEW t, t = SubmitTask(s, s.task, config)
    PROVE  RunOk(t) /\ t.lab = s.lab /\ t.task = s.task /\ DOMAIN t.grades = 1..t.task
<1>1. /\ Len(Tasks(s.lab)) \in Nat /\ DOMAIN Tasks(s.lab) = 1..Len(Tasks(s.lab))
      /\ s.task \in 1..Len(Tasks(s.lab))
  BY TasksOf DEF RunOk, SessOk
<1> DEFINE i == s.task
<1>0. SessOk(s) /\ i \in DOMAIN Tasks(s.lab) /\ t = SubmitTask(s, i, config)
  BY <1>1 DEF RunOk
<1> HIDE DEF i
<1>2. /\ SessOk(t) /\ t.lab = s.lab /\ t.task = s.task
      /\ DOMAIN t.grades = DOMAIN s.grades \cup {s.task}
  <2>1. SessOk(t) /\ t.lab = s.lab /\ t.task = s.task
    BY ONLY <1>0, SubmitTaskOk
  <2>2. DOMAIN t.grades = DOMAIN s.grades \cup {i}
    BY ONLY <1>0, SubmitTaskOk
  <2> QED
    BY <2>1, <2>2 DEF i
<1>3. DOMAIN t.grades = 1..s.task
  <2>1. DOMAIN s.grades = 1..s.task - 1 \/ (DOMAIN s.grades = 1..s.task)
    BY <1>1 DEF InOrder
  <2> QED
    BY <1>1, <1>2, <2>1
<1> QED
  BY <1>1, <1>2, <1>3 DEF RunOk

LEMMA AdvanceOk ==
    ASSUME NEW s, RunOk(s), DOMAIN s.grades = 1..s.task, s.task < Len(Tasks(s.lab)),
           NEW t, t = [s EXCEPT !.task = @ + 1]
    PROVE  RunOk(t) /\ InOrder(t)
<1>1. /\ Len(Tasks(s.lab)) \in Nat /\ s.task \in 1..Len(Tasks(s.lab))
  BY TasksOf DEF RunOk, SessOk
<1>2. t = AtTask(s, s.task + 1)
  BY DEF AtTask
<1>3. SessOk(t) /\ t.lab = s.lab /\ t.grades = s.grades /\ t.task = s.task + 1
  BY <1>2, TaskChange DEF RunOk
<1>4. s.task + 1 \in 1..Len(Tasks(s.lab)) /\ (s.task + 1) - 1 = s.task
  BY <1>1
<1> QED
  BY <1>3, <1>4 DEF RunOk, InOrder

LEMMA ServerInit == ApiInit => ServerInv
<1> SUFFICES ASSUME ApiInit PROVE ServerInv
  OBVIOUS
<1>1. DOMAIN served = {} /\ calls = [t \in Threads |-> IdleCall]
  BY DEF ApiInit
<1>2. \A t \in Threads : calls[t] = IdleCall
  BY <1>1
<1>3. CallShape(IdleCall)
  BY DEF CallShape, IdleCall
<1> QED
  BY <1>1, <1>2, <1>3 DEF ServerInv

\* A request that one worker serves alone changes one session.
LEMMA WholeRequest ==
    ASSUME \A t, u \in Threads : t = u, ServerInv, FreeWorker, NEW id, NEW s, RunOk(s), InOrder(s),
           DOMAIN served' = DOMAIN served \cup {id}, served'[id] = s,
           \A x \in DOMAIN served : x # id => served'[x] = served[x],
           calls' = calls
    PROVE  ServerInv'
<1>1. \A t \in Threads : calls[t] = IdleCall
  BY DEF FreeWorker
<1>2. \A x \in DOMAIN served : InOrder(served[x])
  BY <1>1 DEF ServerInv, Calling
<1>3. \A x \in DOMAIN served' : RunOk(served'[x]) /\ InOrder(served'[x])
  BY <1>2 DEF ServerInv
<1> QED
  BY <1>1, <1>3 DEF ServerInv

\* A step of a submission changes its session.
LEMMA PartOfRequest ==
    ASSUME \A t, u \in Threads : t = u, ServerInv, NEW t \in Threads, NEW c, CallShape(c),
           calls' = [calls EXCEPT ![t] = c],
           NEW id \in DOMAIN served, calls[t] # IdleCall => calls[t].id = id,
           c # IdleCall => c.id = id, NEW s, RunOk(s),
           DOMAIN served' = DOMAIN served, served'[id] = s,
           \A x \in DOMAIN served : x # id => served'[x] = served[x],
           IF c = IdleCall THEN InOrder(s) ELSE Between(c, s)
    PROVE  ServerInv'
<1>1. /\ calls = [u \in Threads |-> calls[u]] /\ \A u \in Threads : CallShape(calls[u])
      /\ \A x \in DOMAIN served : RunOk(served[x])
  BY DEF ServerInv
<1>2. Threads = {t} /\ calls'[t] = c /\ calls' = [u \in Threads |-> calls'[u]]
  BY <1>1
<1>3. \A x \in DOMAIN served : x # id => InOrder(served[x])
  <2> SUFFICES ASSUME NEW x \in DOMAIN served, x # id PROVE InOrder(served[x])
    OBVIOUS
  <2>1. Calling(x) = {}
    BY <1>2 DEF Calling
  <2> QED
    BY <2>1 DEF ServerInv
<1>4. \A x \in DOMAIN served' : RunOk(served'[x])
  BY <1>1
<1>5. \A u \in Threads : calls'[u] # IdleCall =>
          calls'[u].id \in DOMAIN served' /\ Between(calls'[u], served'[calls'[u].id])
  BY <1>2
<1>6. ASSUME NEW x \in DOMAIN served', Calling(x)' = {} PROVE InOrder(served'[x])
  <2>1. CASE x = id
    <3>1. c = IdleCall
      BY <1>2, <1>6, <2>1 DEF Calling
    <3> QED
      BY <2>1, <3>1
  <2>2. CASE x # id
    BY <1>3, <2>2
  <2> QED
    BY <2>1, <2>2
<1> QED
  BY <1>1, <1>2, <1>4, <1>5, <1>6 DEF ServerInv

LEMMA IdleShape == CallShape(IdleCall) /\ IdleCall.step = "idle"
  BY DEF CallShape, IdleCall

LEMMA ServerStep ==
    ASSUME \A t, u \in Threads : t = u, ServerInv, [ApiNext]_apiVars PROVE ServerInv'
<1>1. ASSUME NEW l \in DOMAIN LabOf, NEW id \in SessionIds, CreateLabSession(l, id) PROVE ServerInv'
  <2> DEFINE s == Create(l)
  <2>1. RunOk(s) /\ InOrder(s)
    BY CreateOk, NewInOrder
  <2>2. served' = [x \in DOMAIN served \cup {id} |-> IF x = id THEN s ELSE served[x]]
        /\ FreeWorker /\ calls' = calls /\ id \notin DOMAIN served
    BY <1>1 DEF CreateLabSession
  <2> HIDE DEF s
  <2>3. DOMAIN served' = DOMAIN served \cup {id} /\ served'[id] = s
        /\ \A x \in DOMAIN served : x # id => served'[x] = served[x]
    BY <2>2
  <2> QED
    BY <2>1, <2>2, <2>3, WholeRequest
<1>2. ASSUME NEW t \in Threads, NEW id \in SessionIds, NEW config \in Configs, SubmitConfig(t, id, config)
      PROVE  ServerInv'
  <2> DEFINE s == served[id]
             c == [step |-> "grade", id |-> id, config |-> config, task |-> s.task]
  <2>1. calls[t] = IdleCall /\ id \in DOMAIN served /\ calls' = [calls EXCEPT ![t] = c]
        /\ served' = served
    BY <1>2 DEF SubmitConfig
  <2>2. RunOk(s)
    BY <2>1 DEF ServerInv
  <2>3. InOrder(s)
    <3>1. Calling(id) = {}
      BY <2>1 DEF Calling
    <3> QED
      BY <2>1, <3>1 DEF ServerInv
  <2> HIDE DEF s
  <2>4. CallShape(c) /\ c.id = id /\ c.step = "grade" /\ c.task = s.task
    BY DEF CallShape
  <2> HIDE DEF c
  <2>5. Between(c, s) /\ c # IdleCall
    BY <2>3, <2>4, IdleShape DEF Between
  <2> QED
    BY <2>1, <2>2, <2>4, <2>5, PartOfRequest DEF s
<1>3. ASSUME NEW t \in Threads, StoreGrade(t) PROVE ServerInv'
  <2> DEFINE k == calls[t]
             id == k.id
             s == served[id]
             r == SubmitTask(s, s.task, k.config)
             c == [k EXCEPT !.step = "next"]
  <2>1. k.step = "grade" /\ served' = [served EXCEPT ![id] = SubmitTask(@, k.task, k.config)]
        /\ calls' = [calls EXCEPT ![t].step = "next"]
    BY <1>3 DEF StoreGrade
  <2>2. k # IdleCall /\ CallShape(k)
    BY <2>1, IdleShape DEF ServerInv
  <2>3. id \in DOMAIN served /\ Between(k, s) /\ RunOk(s)
    BY <2>2 DEF ServerInv
  <2>4. InOrder(s) /\ k.task = s.task
    BY <2>1, <2>3 DEF Between
  <2>5. calls' = [calls EXCEPT ![t] = c]
    BY <2>1
  <2>6. served' = [served EXCEPT ![id] = r]
    BY <2>1, <2>4
  <2> HIDE DEF k, s
  <2>7. CallShape(c) /\ c.step = "next" /\ c.id = id
    BY <2>2 DEF CallShape
  <2>8. RunOk(r) /\ DOMAIN r.grades = 1..r.task
    BY <2>3, <2>4, SubmittedOk
  <2> HIDE DEF c, id, r
  <2>9. Between(c, r) /\ c # IdleCall
    BY <2>7, <2>8, IdleShape DEF Between
  <2>10. DOMAIN served' = DOMAIN served /\ served'[id] = r
         /\ \A x \in DOMAIN served : x # id => served'[x] = served[x]
    BY <2>3, <2>6
  <2>11. calls[t].id = id
    BY DEF id, k
  <2> QED
    BY <2>3, <2>5, <2>7, <2>8, <2>9, <2>10, <2>11, PartOfRequest
<1>4. ASSUME NEW t \in Threads, ReadIndex(t) PROVE ServerInv'
  <2> DEFINE k == calls[t]
             id == k.id
             s == served[id]
             c == IF HasNextTask(s) THEN [k EXCEPT !.step = "advance"] ELSE IdleCall
  <2>1. k.step = "next" /\ served' = served /\ calls' = [calls EXCEPT ![t] = c]
    BY <1>4 DEF ReadIndex
  <2>2. k # IdleCall /\ CallShape(k)
    BY <2>1, IdleShape DEF ServerInv
  <2>3. id \in DOMAIN served /\ Between(k, s) /\ RunOk(s)
    BY <2>2 DEF ServerInv
  <2>4. DOMAIN s.grades = 1..s.task
    BY <2>1, <2>3 DEF Between
  <2> HIDE DEF k, s
  <2>5. CASE HasNextTask(s)
    <3>1. c = [k EXCEPT !.step = "advance"]
      BY <2>5
    <3> HIDE DEF c
    <3>2. CallShape(c) /\ c.step = "advance" /\ c.id = id
      BY <2>2, <3>1 DEF CallShape
    <3>3. Between(c, s) /\ c # IdleCall
      BY <2>4, <2>5, <3>2, IdleShape DEF Between, HasNextTask
    <3> HIDE DEF id
    <3>4. DOMAIN served' = DOMAIN served /\ served'[id] = s
          /\ (\A x \in DOMAIN served : x # id => served'[x] = served[x]) /\ calls[t].id = id
      BY <2>1 DEF s, id, k
    <3> QED
      BY <2>1, <2>3, <3>2, <3>3, <3>4, PartOfRequest
  <2>6. CASE ~HasNextTask(s)
    <3>1. c = IdleCall
      BY <2>6
    <3> HIDE DEF c
    <3>2. CallShape(c)
      BY <3>1, IdleShape
    <3>3. InOrder(s)
      <4>1. Len(Tasks(s.lab)) \in Nat /\ DOMAIN Tasks(s.lab) = 1..Len(Tasks(s.lab))
            /\ s.task \in 1..Len(Tasks(s.lab))
        BY <2>3, TasksOf DEF RunOk, SessOk
      <4> QED
        BY <2>4, <2>6, <4>1 DEF InOrder, HasNextTask
    <3> HIDE DEF id
    <3>4. DOMAIN served' = DOMAIN served /\ served'[id] = s
          /\ (\A x \in DOMAIN served : x # id => served'[x] = served[x]) /\ calls[t].id = id
      BY <2>1 DEF s, id, k
    <3> QED
      BY <2>1, <2>3, <3>1, <3>2, <3>3, <3>4, PartOfRequest
  <2> QED
    BY <2>5, <2>6
<1>5. ASSUME NEW t \in Threads, Advance(t) PROVE ServerInv'
  <2> DEFINE k == calls[t]
             id == k.id
             s == served[id]
             r == [s EXCEPT !.task = @ + 1]
             c == IdleCall
  <2>1. k.step = "advance" /\ served' = [served EXCEPT ![id].task = @ + 1]
        /\ calls' = [calls EXCEPT ![t] = IdleCall]
    BY <1>5 DEF Advance
  <2>2. k # IdleCall
    BY <2>1, IdleShape
  <2>3. id \in DOMAIN served /\ Between(k, s) /\ RunOk(s)
    BY <2>2 DEF ServerInv
  <2>4. DOMAIN s.grades = 1..s.task /\ s.task < Len(Tasks(s.lab))
    BY <2>1, <2>3 DEF Between
  <2>5. served' = [served EXCEPT ![id] = r]
    BY <2>1
  <2> HIDE DEF k, s
  <2>6. RunOk(r) /\ InOrder(r)
    BY <2>3, <2>4, AdvanceOk
  <2> HIDE DEF id, r
  <2>7. DOMAIN served' = DOMAIN served /\ served'[id] = r
        /\ (\A x \in DOMAIN served : x # id => served'[x] = served[x]) /\ calls[t].id = id
    BY <2>3, <2>5 DEF id, k
  <2>8. CallShape(c) /\ c = IdleCall /\ calls' = [calls EXCEPT ![t] = c]
    BY <2>1, IdleShape
  <2> HIDE DEF c
  <2> QED
    BY <2>3, <2>6, <2>7, <2>8, PartOfRequest
<1>6. ASSUME NEW id \in SessionIds, NEW replay \in BOOLEAN, ResetLabSession(id, replay)
      PROVE  ServerInv'
  <2> DEFINE s == Reset(served[id], replay)
  <2>1. FreeWorker /\ id \in DOMAIN served /\ served' = [served EXCEPT ![id] = s] /\ calls' = calls
    BY <1>6 DEF ResetLabSession
  <2>2. RunOk(s) /\ InOrder(s)
    <3>1. SessOk(served[id])
      BY <2>1 DEF ServerInv, RunOk
    <3>2. RunOk(s) /\ s.task = 1 /\ s.grades = <<>>
      BY <3>1, ResetOk
    <3> HIDE DEF s
    <3> QED
      BY <3>2, NewInOrder
  <2> HIDE DEF s
  <2>3. DOMAIN served' = DOMAIN served \cup {id} /\ served'[id] = s
        /\ \A x \in DOMAIN served : x # id => served'[x] = served[x]
    BY <2>1
  <2> QED
    BY <2>1, <2>2, <2>3, WholeRequest
<1>7. ASSUME NEW id \in SessionIds, FinishLabSession(id) PROVE ServerInv'
  <2> DEFINE s == Finish(served[id])
  <2>1. FreeWorker /\ id \in DOMAIN served /\ served' = [served EXCEPT ![id] = s] /\ calls' = calls
    BY <1>7 DEF FinishLabSession
  <2>2. RunOk(served[id]) /\ InOrder(served[id])
    <3>1. Calling(id) = {}
      BY <2>1 DEF FreeWorker, Calling
    <3> QED
      BY <2>1, <3>1 DEF ServerInv
  <2>3. RunOk(s) /\ InOrder(s)
    <3>1. SessOk(s) /\ s.lab = served[id].lab /\ s.grades = served[id].grades /\ s.task = served[id].task
      BY <2>2, FinishChange DEF RunOk
    <3> HIDE DEF s
    <3> QED
      BY <2>2, <3>1 DEF RunOk, InOrder
  <2> HIDE DEF s
  <2>4. DOMAIN served' = DOMAIN served \cup {id} /\ served'[id] = s
        /\ \A x \in DOMAIN served : x # id => served'[x] = served[x]
    BY <2>1
  <2> QED
    BY <2>1, <2>3, <2>4, WholeRequest
<1>8. ASSUME UNCHANGED apiVars PROVE ServerInv'
  BY <1>8 DEF apiVars, ServerInv, Calling
<1> QED
  BY <1>1, <1>2, <1>3, <1>4, <1>5, <1>6, <1>7, <1>8 DEF ApiNext

\* With one worker the tasks are graded one by one, in order, whatever the
\* clients send, and resets and finishes between them.
THEOREM OneWorkerInOrder ==
    ASSUME \A t, u \in Threads : t = u
    PROVE  ApiSpec => []GradedInOrder
<1>1. ApiInit => ServerInv
  BY ServerInit
<1>2. ServerInv /\ [ApiNext]_apiVars => ServerInv'
  BY ServerStep
<1>3. ServerInv => GradedInOrder
  BY DEF ServerInv, GradedInOrder, InOrder
<1> QED
  BY <1>1, <1>2, <1>3, PTL DEF ApiSpec

=============================================================================
