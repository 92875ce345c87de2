----------------------- MODULE ContentRegistryProofs -----------------------
(***************************************************************************)
(* TypeOK, NoSilentOverride and Fresh, for any files, packs, contents and  *)
(* threads, and any number of changes and requests.                        *)
(*                                                                         *)
(* The argument: while the files that a unit was judged from still have    *)
(* the fingerprints collected before the scan, they still hold what was    *)
(* read from them, since a write gives a file a fingerprint of its own.    *)
(* Nothing is said of a pack that lists a file without a fingerprint.      *)
(***************************************************************************)
EXTENDS ContentRegistry, TLAPS

\* A file listed in prints has not changed on disk d since.
Kept(p, prints, d) == prints[p] # 0 => Fingerprints(d)[p] = prints[p]

\* The fingerprinted files a unit is judged from.
Files(u) == IF u \in Packs THEN {u} \cup (Members[u] \cap Printed) ELSE {u}

\* What the listed files hold; others that could be listed count as absent.
Known(prints, d) ==
    [p \in Paths |-> IF p \in Printed /\ prints[p] = 0 THEN None ELSE d[p].data]

\* Unit u is judged from fingerprinted files alone, and all of them are kept.
AllKept(u, prints, d) ==
    /\ Traced(Known(prints, d), u)
    /\ \A p \in Files(u) : Kept(p, prints, d)

\* The verdicts on the units in done are those of the files as they are known.
Faithful(r, done, d) ==
    ~r.late => \A u \in done :
        AllKept(u, r.prints, d) =>
            r.found[u] = Judged(Known(r.prints, d), u, SeenBefore(r.found, u))

\* The units in done come before all others, only they own ids, and no id of
\* one that is not bundled has another owner.
Owned(c, done) ==
    /\ \A u \in done, v \in Units : Rank[v] < Rank[u] => v \in done
    /\ \A u \in Units \ done : c[u].ids = {}
    /\ \A u \in Units \ Bundled, v \in Units : u # v => c[u].ids \cap c[v].ids = {}

\* Inside a pack: the manifest is known, and so are the files done with.
PackKnown(r, k) ==
    /\ k[r.pack] # None /\ k[r.pack].valid /\ ~k[r.pack].raises
    /\ r.files = DOMAIN k[r.pack].files
    /\ r.digest = k[r.pack].files
    /\ \A f \in r.files \ r.todo :
          k[f] = r.digest[f] /\ k[f].loads /\ r.held[f] = k[f]
    /\ r.checked # None => k[r.checked] = r.digest[r.checked]

InPackFaithful(r, d) ==
    r.pc = "pack" =>
        /\ r.files \subseteq Members[r.pack]
        /\ \A v \in Units : Rank[v] < Rank[r.pack] => v \in r.done
        /\ ~r.late /\ AllKept(r.pack, r.prints, d) => PackKnown(r, Known(r.prints, d))

OldPrints(prints, c) == \A p \in Printed : prints[p] <= c

GoodRequest(r, d, c) ==
    /\ r \in Request
    /\ PackWork(r)
    /\ OldPrints(r.prints, c)
    /\ Owned(r.found, r.done)
    /\ Faithful(r, r.done, d)
    /\ InPackFaithful(r, d)

GoodState(s, d, c) ==
    s # None => /\ OldPrints(s.prints, c)
                /\ Owned(s.found, Units)
                /\ Faithful(s, Units, d)

IInv ==
    /\ TypeOK
    /\ \A t \in Threads : GoodRequest(req[t], disk, clock)
    /\ GoodState(state, disk, clock)

-----------------------------------------------------------------------------
(* Verdicts.                                                               *)

LEMMA FileVerdictType ==
    ASSUME NEW u, NEW held \in Contents \cup {None}, NEW seen
    PROVE  FileVerdict(u, held, seen) \in Verdict
BY RegistryAssumption
   DEF FileVerdict, Verdict, Accepted, Rejected, Absent, RegistryAssumption, Content

LEMMA PackVerdictType ==
    ASSUME NEW files, NEW held, NEW seen, \A f \in files : held[f] \in Contents
    PROVE  PackVerdict(files, held, seen) \in Verdict
<1>1. \A f \in files : held[f].ids \subseteq Ids
  BY RegistryAssumption DEF RegistryAssumption, Content
<1>2. UNION {held[f].ids : f \in files} \subseteq Ids
  BY <1>1
<1> QED
  BY <1>2 DEF PackVerdict, Verdict, Accepted, Rejected

(* A verdict depends only on the unit's own files. *)
LEMMA JudgedLocal ==
    ASSUME NEW u \in Units, NEW k, NEW m, NEW seen, k[u] \in Holds(u), Traced(k, u),
           \A p \in Files(u) : k[p] = m[p]
    PROVE  Judged(k, u, seen) = Judged(m, u, seen)
<1>1. CASE u \notin Packs
  BY <1>1 DEF Judged, Files
<1>2. CASE u \in Packs /\ k[u] = None
  BY <1>2 DEF Judged, Files
<1>3. CASE u \in Packs /\ k[u] # None
  <2>1. k[u] = m[u] /\ DOMAIN k[u].files \subseteq Members[u] \cap Printed
    BY <1>3 DEF Holds, Files, Traced
  <2>2. \A f \in DOMAIN k[u].files : k[f] = m[f]
    BY <1>3, <2>1 DEF Files
  <2>3. PackVerdict(DOMAIN k[u].files, k, seen) = PackVerdict(DOMAIN k[u].files, m, seen)
    BY <2>2 DEF PackVerdict
  <2> QED
    BY <1>3, <2>1, <2>2, <2>3 DEF Judged
<1> QED
  BY <1>1, <1>2, <1>3

(* When the units before u are done and u is not, all ids seen are theirs. *)
LEMMA SeenIsBefore ==
    ASSUME NEW c, NEW done, Owned(c, done), NEW u \in Units \ done,
           \A v \in Units : Rank[v] < Rank[u] => v \in done
    PROVE  Seen(c) = SeenBefore(c, u)
<1>1. \A v \in Units : c[v].ids # {} => Rank[v] < Rank[u]
  <2>1. SUFFICES ASSUME NEW v \in Units, c[v].ids # {}
                 PROVE  Rank[v] < Rank[u]
    OBVIOUS
  <2>2. v \in done /\ v # u
    BY <2>1 DEF Owned
  <2>3. ~(Rank[u] < Rank[v])
    BY <2>2 DEF Owned
  <2>4. Rank[u] # Rank[v] /\ Rank[u] \in Nat /\ Rank[v] \in Nat
    BY <2>2, RegistryAssumption DEF RegistryAssumption
  <2> QED
    BY <2>3, <2>4
<1> QED
  BY <1>1 DEF Seen, SeenBefore

(* A verdict on the next unit that, unless it is bundled, takes no id that is *)
(* taken leaves every id with its owner.                                      *)
LEMMA OwnedNext ==
    ASSUME NEW c \in Catalogue, NEW done \in SUBSET Units, Owned(c, done),
           NEW u \in Units \ done,
           \A w \in Units : Rank[w] < Rank[u] => w \in done,
           NEW v \in Verdict, u \notin Bundled => v.ids \cap Seen(c) = {}
    PROVE  Owned([c EXCEPT ![u] = v], done \cup {u})
<1> DEFINE n == [c EXCEPT ![u] = v]
<1>1. n[u] = v /\ \A w \in Units \ {u} : n[w] = c[w]
  BY DEF Catalogue
<1>2. \A x \in done \cup {u}, w \in Units : Rank[w] < Rank[x] => w \in done \cup {u}
  BY DEF Owned
<1>3. \A w \in Units \ (done \cup {u}) : n[w].ids = {}
  BY <1>1 DEF Owned
<1>4. ASSUME NEW x \in Units \ Bundled, NEW y \in Units, x # y
      PROVE  n[x].ids \cap n[y].ids = {}
  <2>1. CASE x = u
    BY <1>1, <1>4, <2>1 DEF Seen
  <2>2. CASE y = u /\ u \notin Bundled
    BY <1>1, <1>4, <2>2 DEF Seen
  <2>3. CASE y = u /\ u \in Bundled
    <3>1. Rank[u] < Rank[x]
      BY <2>3, <1>4, RegistryAssumption DEF RegistryAssumption
    <3>2. x \notin done
      BY <3>1 DEF Owned
    <3> QED
      BY <1>1, <1>4, <3>2, <2>3 DEF Owned
  <2>4. CASE x # u /\ y # u
    BY <1>1, <1>4, <2>4 DEF Owned
  <2> QED
    BY <2>1, <2>2, <2>3, <2>4
<1> QED
  BY <1>2, <1>3, <1>4 DEF Owned

(* A right verdict on the next unit leaves the others right. *)
LEMMA FaithfulNext ==
    ASSUME NEW r, NEW n, NEW d, NEW done \in SUBSET Units,
           r.found \in Catalogue, Owned(r.found, done), Faithful(r, done, d),
           NEW u \in Units \ done, NEW v,
           n.found = [r.found EXCEPT ![u] = v], n.prints = r.prints,
           ~n.late => ~r.late,
           ~n.late /\ AllKept(u, r.prints, d) =>
               v = Judged(Known(r.prints, d), u, SeenBefore(r.found, u))
    PROVE  Faithful(n, done \cup {u}, d)
<1>1. \A w \in Units \ {u} : n.found[w] = r.found[w]
  BY DEF Catalogue
<1>2. n.found[u] = v
  BY DEF Catalogue
<1>3. \A w \in done \cup {u} : SeenBefore(n.found, w) = SeenBefore(r.found, w)
  <2>1. SUFFICES ASSUME NEW w \in done \cup {u}
                 PROVE  SeenBefore(n.found, w) = SeenBefore(r.found, w)
    OBVIOUS
  <2>2. \A x \in Units : Rank[x] < Rank[w] => x # u
    BY RegistryAssumption DEF Owned, RegistryAssumption
  <2> QED
    BY <2>2, <1>1 DEF SeenBefore
<1>4. ASSUME ~n.late, NEW w \in done \cup {u}, AllKept(w, n.prints, d)
      PROVE  n.found[w] = Judged(Known(n.prints, d), w, SeenBefore(n.found, w))
  <2>1. CASE w = u
    BY <1>2, <1>3, <1>4, <2>1
  <2>2. CASE w # u
    BY <1>1, <1>3, <1>4, <2>2 DEF Faithful
  <2> QED
    BY <2>1, <2>2
<1> QED
  BY <1>4 DEF Faithful

-----------------------------------------------------------------------------
(* Reading and writing files.                                              *)

OnDisk(d, c) ==
    /\ d \in [Paths -> [stamp : 1..c, data : Contents \cup Manifests \cup {None}]]
    /\ \A p \in Paths : d[p].data \in Holds(p)

\* Disk d, at time c, after a write of data to w.
After(d, c, w, data) == [d EXCEPT ![w] = [stamp |-> c + 1, data |-> data]]

LEMMA FilesArePaths ==
    ASSUME NEW u \in Units
    PROVE  u \in Paths /\ u \in Files(u) /\ Files(u) \subseteq Printed /\ Printed \subseteq Paths
BY RegistryAssumption DEF Files, Paths, Inside, RegistryAssumption

LEMMA KnownHolds ==
    ASSUME NEW c, NEW d, OnDisk(d, c), NEW prints, NEW p \in Paths
    PROVE  Known(prints, d)[p] \in Holds(p)
BY DEF Known, OnDisk, Holds

(* What a request reads from a kept file, without having come late, is what *)
(* it knows.                                                                *)
LEMMA ReadIsKnown ==
    ASSUME NEW t, NEW p \in Paths, ~Late(t, p)
    PROVE  disk[p].data = Known(req[t].prints, disk)[p] /\ ~req[t].late
BY DEF Late, Known

(* A write to a file that was listed shows in its fingerprint; any other is *)
(* to a file that counts as absent.                                         *)
LEMMA PutKeepsKnown ==
    ASSUME NEW c \in Nat, NEW d, OnDisk(d, c), NEW w \in Paths, NEW data, NEW e,
           e = After(d, c, w, data),
           NEW prints \in [Printed -> Nat], OldPrints(prints, c),
           NEW u \in Units, AllKept(u, prints, e)
    PROVE  /\ AllKept(u, prints, d)
           /\ \A p \in Files(u) : Known(prints, e)[p] = Known(prints, d)[p]
<1>1. u \in Files(u) /\ Files(u) \subseteq Printed /\ Files(u) \subseteq Paths
  BY FilesArePaths
<1>2. w \in Files(u) => prints[w] = 0
  <2>1. SUFFICES ASSUME w \in Files(u), prints[w] # 0 PROVE FALSE
    OBVIOUS
  <2>2. Fingerprints(e)[w] = prints[w]
    BY <2>1 DEF AllKept, Kept
  <2>3. Fingerprints(e)[w] \in {0, c + 1}
    BY <1>1, <2>1 DEF Fingerprints, OnDisk, After
  <2>4. prints[w] <= c /\ prints[w] \in Nat
    BY <1>1, <2>1 DEF OldPrints
  <2> QED
    BY <2>1, <2>2, <2>3, <2>4
<1>3. \A p \in Paths \ {w} : e[p] = d[p]
  BY DEF OnDisk, After
<1>4. ASSUME NEW p \in Files(u)
      PROVE  Kept(p, prints, d) /\ Known(prints, e)[p] = Known(prints, d)[p]
  <2>1. CASE p = w
    BY <1>1, <1>2, <1>4, <2>1 DEF Kept, Known
  <2>2. CASE p # w
    <3>1. Kept(p, prints, e) /\ p \in Paths \ {w}
      BY <1>1, <1>4, <2>2 DEF AllKept
    <3> QED
      BY <1>1, <1>4, <3>1, <1>3 DEF Kept, Known, Fingerprints
  <2> QED
    BY <2>1, <2>2
<1>5. Known(prints, e)[u] = Known(prints, d)[u]
  BY <1>1, <1>4
<1>6. Traced(Known(prints, d), u)
  BY <1>5 DEF AllKept, Traced
<1> QED
  BY <1>4, <1>6 DEF AllKept

LEMMA PutKeepsFaithful ==
    ASSUME NEW c \in Nat, NEW d, OnDisk(d, c), NEW w \in Paths, NEW data, NEW e,
           e = After(d, c, w, data),
           NEW r, r.prints \in [Printed -> Nat], OldPrints(r.prints, c),
           NEW done \in SUBSET Units, Faithful(r, done, d)
    PROVE  Faithful(r, done, e)
<1>1. SUFFICES ASSUME ~r.late, NEW u \in done, AllKept(u, r.prints, e)
               PROVE  r.found[u] = Judged(Known(r.prints, e), u, SeenBefore(r.found, u))
  BY DEF Faithful
<1>2. /\ AllKept(u, r.prints, d)
      /\ \A p \in Files(u) : Known(r.prints, d)[p] = Known(r.prints, e)[p]
  BY <1>1, PutKeepsKnown
<1>3. r.found[u] = Judged(Known(r.prints, d), u, SeenBefore(r.found, u))
  BY <1>1, <1>2 DEF Faithful
<1>4. Known(r.prints, d)[u] \in Holds(u)
  BY <1>1, FilesArePaths, KnownHolds
<1> DEFINE k == Known(r.prints, d)
           m == Known(r.prints, e)
           seen == SeenBefore(r.found, u)
<1>5. Judged(k, u, seen) = Judged(m, u, seen)
  <2>1. /\ u \in Units /\ k[u] \in Holds(u) /\ Traced(k, u)
        /\ \A p \in Files(u) : k[p] = m[p]
    BY <1>2, <1>4 DEF AllKept
  <2> HIDE DEF k, m, seen
  <2> QED
    BY <2>1, JudgedLocal
<1> QED
  BY <1>3, <1>5

LEMMA PutKeepsPack ==
    ASSUME NEW c \in Nat, NEW d, OnDisk(d, c), NEW w \in Paths, NEW data, NEW e,
           e = After(d, c, w, data),
           NEW r \in Request, OldPrints(r.prints, c), PackWork(r), InPackFaithful(r, d)
    PROVE  InPackFaithful(r, e)
<1>1. SUFFICES ASSUME r.pc = "pack", ~r.late, AllKept(r.pack, r.prints, e)
               PROVE  PackKnown(r, Known(r.prints, e))
  BY DEF InPackFaithful
<1>2. r.pack \in Packs /\ r.pack \in Units /\ r.prints \in [Printed -> Nat]
  BY <1>1 DEF PackWork, Units, Request
<1>3. /\ AllKept(r.pack, r.prints, d)
      /\ \A p \in Files(r.pack) : Known(r.prints, e)[p] = Known(r.prints, d)[p]
  BY <1>1, <1>2, PutKeepsKnown
<1>4. PackKnown(r, Known(r.prints, d)) /\ r.files \subseteq Members[r.pack]
  BY <1>1, <1>3 DEF InPackFaithful
<1>5. r.pack \in Files(r.pack) /\ r.files \subseteq Files(r.pack)
  BY <1>2, <1>3, <1>4 DEF Files, AllKept, Traced, PackKnown
<1>6. r.todo \subseteq r.files /\ r.checked \in r.todo \cup {None}
  BY <1>1 DEF PackWork
<1> QED
  BY <1>3, <1>4, <1>5, <1>6 DEF PackKnown

-----------------------------------------------------------------------------
(* Steps.                                                                  *)

(* A request that goes on in a good state leaves the rest good. *)
LEMMA ContinueGood ==
    ASSUME IInv, NEW t \in Threads, NEW r, GoodRequest(r, disk, clock), Continue(t, r)
    PROVE  IInv'
<1>1. req' \in [Threads -> Request] /\ \A x \in Threads : req'[x] = IF x = t THEN r ELSE req[x]
  BY DEF IInv, TypeOK, Continue, GoodRequest
<1>2. \A x \in Threads : GoodRequest(req'[x], disk, clock) /\ PackWork(req'[x])
  BY <1>1 DEF IInv, GoodRequest
<1>3. UNCHANGED <<disk, state, failed, clock, requests>>
  BY DEF Continue
<1>4. TypeOK'
  BY <1>1, <1>2, <1>3 DEF IInv, TypeOK
<1>5. \A x \in Threads : GoodRequest(req'[x], disk', clock')
  BY <1>2, <1>3
<1>6. GoodState(state', disk', clock')
  BY <1>3 DEF IInv
<1> QED
  BY <1>4, <1>5, <1>6 DEF IInv

LEMMA NothingOwned ==
    /\ Nothing \in Catalogue
    /\ Owned(Nothing, {})
BY DEF Nothing, Catalogue, Absent, Verdict, Owned

(* A request that has not begun to scan is good whatever its fingerprints. *)
LEMMA BeginGood ==
    ASSUME NEW d, NEW c \in Nat, NEW r \in Request, r.pc # "pack", r.pack = None, r.checked = None,
           r.found = Nothing, r.done = {}, OldPrints(r.prints, c)
    PROVE  GoodRequest(r, d, c)
BY NothingOwned DEF GoodRequest, PackWork, Faithful, InPackFaithful

LEMMA IdleGood ==
    ASSUME NEW d, NEW c \in Nat
    PROVE  Idle \in Request /\ GoodRequest(Idle, d, c)
<1>1. Idle \in Request
  <2>1. NoPrints \in [Printed -> Nat] /\ NothingHeld \in [Inside -> Contents \cup {None}]
    BY DEF NoPrints, NothingHeld
  <2> QED
    BY <2>1, NothingOwned DEF Idle, Request
<1>2. OldPrints(Idle.prints, c)
  BY DEF Idle, NoPrints, OldPrints
<1> QED
  BY <1>1, <1>2, BeginGood DEF Idle

(* A request that comes to unit u, and judges it. *)
LEMMA JudgeGood ==
    ASSUME IInv, NEW t \in Threads, NEW u \in Units \ req[t].done,
           \A w \in Units : Rank[w] < Rank[u] => w \in req[t].done,
           NEW v \in Verdict, u \notin Bundled => v.ids \cap Seen(req[t].found) = {},
           NEW p, ~Late(t, p) => ~req[t].late,
           ~Late(t, p) /\ AllKept(u, req[t].prints, disk) =>
               v = Judged(Known(req[t].prints, disk), u, SeenBefore(req[t].found, u)),
           Late(t, p) \in BOOLEAN,
           Judge(t, u, v, p)
    PROVE  IInv'
<1> DEFINE r == [Idle EXCEPT !.pc = "scan",
                             !.prints = req[t].prints,
                             !.late = Late(t, p),
                             !.found = [req[t].found EXCEPT ![u] = v],
                             !.done = req[t].done \cup {u}]
<1>1. GoodRequest(req[t], disk, clock) /\ req[t] \in Request /\ clock \in Nat
  BY DEF IInv, TypeOK, GoodRequest
<1>2. req[t].found \in Catalogue /\ req[t].done \in SUBSET Units /\ req[t].prints \in [Printed -> Nat]
  BY <1>1 DEF Request
<1>3. [req[t].found EXCEPT ![u] = v] \in Catalogue
  BY <1>2 DEF Catalogue
<1>4. /\ r.pc = "scan" /\ r.pack = None /\ r.checked = None
      /\ r.prints = req[t].prints /\ r.late = Late(t, p)
      /\ r.found = [req[t].found EXCEPT ![u] = v] /\ r.done = req[t].done \cup {u}
  BY DEF Idle
<1>5. r \in Request
  <2>1. Idle \in Request
    BY IdleGood, <1>1
  <2> QED
    BY <2>1, <1>2, <1>3 DEF Request
<1>6. Owned(r.found, r.done)
  <2>1. Owned(req[t].found, req[t].done)
    BY <1>1 DEF GoodRequest
  <2>2. Owned([req[t].found EXCEPT ![u] = v], req[t].done \cup {u})
    BY <1>2, <2>1, OwnedNext
  <2> HIDE DEF r
  <2> QED
    BY <1>4, <2>2
<1>7. Faithful(r, r.done, disk)
  <2>1. Owned(req[t].found, req[t].done) /\ Faithful(req[t], req[t].done, disk)
    BY <1>1 DEF GoodRequest
  <2>2. ~r.late => ~req[t].late
    BY <1>4
  <2>3. ~r.late /\ AllKept(u, req[t].prints, disk) =>
           v = Judged(Known(req[t].prints, disk), u, SeenBefore(req[t].found, u))
    BY <1>4
  <2> HIDE DEF r
  <2> QED
    BY <1>2, <1>4, <2>1, <2>2, <2>3, FaithfulNext
<1>8. GoodRequest(r, disk, clock)
  BY <1>1, <1>4, <1>5, <1>6, <1>7 DEF GoodRequest, PackWork, InPackFaithful
<1>9. Continue(t, r)
  BY DEF Judge
<1> HIDE DEF r
<1> QED
  BY <1>8, <1>9, ContinueGood

LEMMA LateType ==
    ASSUME IInv, NEW t \in Threads, NEW p
    PROVE  Late(t, p) \in BOOLEAN /\ (~Late(t, p) => ~req[t].late)
BY DEF IInv, TypeOK, Late, Request

LEMMA ScanFileGood ==
    ASSUME IInv, NEW t \in Threads, NEW u \in Units, ScanFile(t, u)
    PROVE  IInv'
<1> DEFINE seen == Seen(req[t].found)
           v == FileVerdict(u, disk[u].data, seen)
<1>1. /\ u \in Bundled \cup Loose /\ u \notin Packs
      /\ u \notin req[t].done /\ \A w \in Units : Rank[w] < Rank[u] => w \in req[t].done
      /\ Judge(t, u, v, u)
  BY RegistryAssumption DEF ScanFile, Reaches, RegistryAssumption
<1>2. u \in Paths /\ disk[u].data \in Contents \cup {None}
  BY <1>1, FilesArePaths DEF IInv, TypeOK, Holds
<1>3. v \in Verdict
  BY <1>2, FileVerdictType
<1>4. u \notin Bundled => v.ids \cap seen = {}
  BY DEF FileVerdict, Accepted, Rejected, Absent
<1>5. seen = SeenBefore(req[t].found, u)
  BY <1>1, SeenIsBefore DEF IInv, GoodRequest
<1>6. ~Late(t, u) => v = Judged(Known(req[t].prints, disk), u, SeenBefore(req[t].found, u))
  BY <1>1, <1>2, <1>5, ReadIsKnown DEF Judged
<1> HIDE DEF v
<1> QED
  BY <1>1, <1>3, <1>4, <1>6, LateType, JudgeGood

LEMMA PackRejectedGood ==
    ASSUME IInv, NEW t \in Threads, NEW p \in Units, PackRejected(t, p)
    PROVE  IInv'
<1>1. /\ p \in Packs /\ p \in Paths
      /\ p \notin req[t].done /\ \A w \in Units : Rank[w] < Rank[p] => w \in req[t].done
      /\ disk[p].data # None => ~disk[p].data.raises /\ ~disk[p].data.valid
      /\ Judge(t, p, Rejected, p)
  BY FilesArePaths DEF PackRejected, Reaches
<1>2. ~Late(t, p) => Rejected = Judged(Known(req[t].prints, disk), p, SeenBefore(req[t].found, p))
  <2>1. SUFFICES ASSUME ~Late(t, p)
                 PROVE  Rejected = Judged(Known(req[t].prints, disk), p, SeenBefore(req[t].found, p))
    OBVIOUS
  <2>2. Known(req[t].prints, disk)[p] = disk[p].data
    BY <1>1, <2>1, ReadIsKnown
  <2> QED
    BY <1>1, <2>2 DEF Judged
<1>3. Rejected \in Verdict /\ Rejected.ids = {}
  BY DEF Rejected, Verdict
<1> QED
  BY <1>1, <1>2, <1>3, LateType, JudgeGood

LEMMA OpenPackGood ==
    ASSUME IInv, NEW t \in Threads, NEW p \in Units, OpenPack(t, p)
    PROVE  IInv'
<1> DEFINE files == DOMAIN disk[p].data.files
           r == [req[t] EXCEPT !.pc = "pack", !.late = Late(t, p), !.pack = p,
                               !.files = files, !.todo = files,
                               !.digest = disk[p].data.files]
<1>1. /\ p \in Packs /\ p \in Paths
      /\ p \notin req[t].done /\ \A w \in Units : Rank[w] < Rank[p] => w \in req[t].done
      /\ disk[p].data # None /\ ~disk[p].data.raises /\ disk[p].data.valid
      /\ req[t].pc = "scan"
      /\ Continue(t, r)
  BY FilesArePaths DEF OpenPack, Reaches
<1>2. disk[p].data \in Manifests /\ files \subseteq Members[p]
  BY <1>1 DEF IInv, TypeOK, Holds
<1>3. /\ disk[p].data.files \in Listings /\ files \subseteq Inside
      /\ disk[p].data.files \in [files -> Contents]
  <2>1. disk[p].data \in Manifest
    BY <1>2, RegistryAssumption DEF RegistryAssumption
  <2>2. disk[p].data.files \in Listings
    BY <2>1 DEF Manifest
  <2> QED
    BY <2>2 DEF Listings
<1>4. GoodRequest(req[t], disk, clock) /\ req[t] \in Request /\ PackWork(req[t])
  BY DEF IInv, GoodRequest
<1>5. req[t].checked = None
  BY <1>1, <1>4 DEF PackWork
<1>6. /\ r.pc = "pack" /\ r.late = Late(t, p) /\ r.pack = p /\ r.files = files
      /\ r.todo = files /\ r.digest = disk[p].data.files /\ r.prints = req[t].prints
      /\ r.found = req[t].found /\ r.done = req[t].done /\ r.checked = None
  BY <1>4, <1>5 DEF Request
<1>7. r \in Request
  BY <1>1, <1>3, <1>4, LateType DEF Request
<1>8. PackWork(r)
  BY <1>1, <1>3, <1>6 DEF PackWork
<1>9. Faithful(r, r.done, disk)
  BY <1>4, <1>6, LateType DEF GoodRequest, Faithful
<1>10. InPackFaithful(r, disk)
  <2>1. SUFFICES ASSUME ~Late(t, p) PROVE PackKnown(r, Known(req[t].prints, disk))
    BY <1>1, <1>2, <1>6 DEF InPackFaithful
  <2>2. Known(req[t].prints, disk)[p] = disk[p].data
    BY <1>1, <2>1, ReadIsKnown
  <2> QED
    BY <1>1, <1>6, <2>2 DEF PackKnown
<1>11. GoodRequest(r, disk, clock)
  BY <1>4, <1>6, <1>7, <1>8, <1>9, <1>10 DEF GoodRequest
<1> HIDE DEF r
<1> QED
  BY <1>1, <1>11, ContinueGood

(* What holds of a request inside a pack. *)
LEMMA InPackFacts ==
    ASSUME IInv, NEW t \in Threads, InPack(t)
    PROVE  LET r == req[t] IN
           /\ r \in Request /\ r.pc = "pack" /\ GoodRequest(r, disk, clock)
           /\ r.pack \in Units \ r.done /\ r.pack \in Packs /\ r.pack \notin Bundled
           /\ \A w \in Units : Rank[w] < Rank[r.pack] => w \in r.done
           /\ r.todo \subseteq r.files /\ r.files \subseteq Inside /\ Inside \subseteq Paths
           /\ r.digest \in [r.files -> Contents]
           /\ r.checked \in r.todo \cup {None}
           /\ \A f \in r.files \ r.todo : r.held[f] \in Contents
           /\ ~r.late /\ AllKept(r.pack, r.prints, disk) => PackKnown(r, Known(r.prints, disk))
BY RegistryAssumption
   DEF IInv, GoodRequest, InPack, PackWork, InPackFaithful, Request, Units, Paths,
       RegistryAssumption

(* A request that goes on inside its pack. *)
LEMMA OnwardGood ==
    ASSUME IInv, NEW t \in Threads, InPack(t), NEW r \in Request, PackWork(r),
           r.pc = "pack", r.pack = req[t].pack, r.files = req[t].files, r.done = req[t].done,
           r.found = req[t].found, r.prints = req[t].prints, ~r.late => ~req[t].late,
           ~r.late /\ AllKept(r.pack, r.prints, disk) => PackKnown(r, Known(r.prints, disk)),
           Continue(t, r)
    PROVE  IInv'
<1>1. GoodRequest(req[t], disk, clock) /\ req[t].pc = "pack"
  BY InPackFacts
<1>2. Faithful(r, r.done, disk)
  BY <1>1 DEF GoodRequest, Faithful
<1>3. InPackFaithful(r, disk)
  BY <1>1 DEF GoodRequest, InPackFaithful
<1>4. GoodRequest(r, disk, clock)
  BY <1>1, <1>2, <1>3 DEF GoodRequest
<1> QED
  BY <1>4, ContinueGood

LEMMA CheckDigestGood ==
    ASSUME IInv, NEW t \in Threads, NEW f \in Inside, CheckDigest(t, f)
    PROVE  IInv'
<1> DEFINE p == req[t].pack
           k == Known(req[t].prints, disk)
           r == [req[t] EXCEPT !.checked = f, !.late = Late(t, f)]
<1>1. InPack(t) /\ req[t].checked = None /\ f \in req[t].todo
  BY DEF CheckDigest
<1>2. /\ req[t] \in Request /\ PackWork(req[t]) /\ req[t].pc = "pack"
      /\ p \in Units \ req[t].done /\ p \in Packs /\ p \notin Bundled
      /\ \A w \in Units : Rank[w] < Rank[p] => w \in req[t].done
      /\ f \in Paths /\ f \in req[t].files
  BY <1>1, InPackFacts DEF GoodRequest
<1>3. ~Late(t, f) => ~req[t].late /\ k[f] = disk[f].data
  BY <1>2, ReadIsKnown
<1>4. ~req[t].late /\ AllKept(p, req[t].prints, disk) => PackKnown(req[t], k)
  BY <1>1, InPackFacts
<1>5. CASE disk[f].data = req[t].digest[f]
  <2>1. Continue(t, r)
    BY <1>5 DEF CheckDigest
  <2>2. /\ r.pc = "pack" /\ r.pack = p /\ r.files = req[t].files /\ r.done = req[t].done
        /\ r.found = req[t].found /\ r.prints = req[t].prints /\ r.late = Late(t, f)
        /\ r.todo = req[t].todo /\ r.digest = req[t].digest /\ r.held = req[t].held
        /\ r.checked = f
    BY <1>2 DEF Request
  <2>3. r \in Request
    BY <1>2, LateType DEF Request
  <2>4. PackWork(r)
    BY <1>1, <1>2, <2>2 DEF PackWork
  <2>5. ~r.late /\ AllKept(r.pack, r.prints, disk) => PackKnown(r, k)
    BY <1>3, <1>4, <1>5, <2>2 DEF PackKnown
  <2> HIDE DEF r
  <2> QED
    BY <1>1, <1>2, <1>3, <2>1, <2>2, <2>3, <2>4, <2>5, OnwardGood
<1>6. CASE disk[f].data # req[t].digest[f]
  <2>1. Judge(t, p, Rejected, f)
    BY <1>6 DEF CheckDigest
  <2>2. ~Late(t, f) /\ AllKept(p, req[t].prints, disk) =>
           Rejected = Judged(k, p, SeenBefore(req[t].found, p))
    BY <1>2, <1>3, <1>4, <1>6 DEF PackKnown, Judged
  <2>3. Rejected \in Verdict /\ Rejected.ids = {}
    BY DEF Rejected, Verdict
  <2> QED
    BY <1>2, <2>1, <2>2, <2>3, LateType, JudgeGood
<1> QED
  BY <1>5, <1>6

LEMMA LoadMemberGood ==
    ASSUME IInv, NEW t \in Threads, LoadMember(t)
    PROVE  IInv'
<1> DEFINE p == req[t].pack
           f == req[t].checked
           held == disk[f].data
           k == Known(req[t].prints, disk)
           r == [req[t] EXCEPT !.held = [@ EXCEPT ![f] = held], !.todo = @ \ {f},
                               !.checked = None, !.late = Late(t, f)]
<1>1. InPack(t) /\ f # None
  BY DEF LoadMember
<1>2. /\ req[t] \in Request /\ PackWork(req[t]) /\ req[t].pc = "pack"
      /\ p \in Units \ req[t].done /\ p \in Packs /\ p \notin Bundled
      /\ \A w \in Units : Rank[w] < Rank[p] => w \in req[t].done
      /\ f \in Paths /\ f \in Inside /\ f \in req[t].todo /\ f \in req[t].files
      /\ req[t].digest \in [req[t].files -> Contents]
      /\ req[t].todo \subseteq req[t].files
  BY <1>1, InPackFacts DEF GoodRequest
<1>3. ~Late(t, f) => ~req[t].late /\ k[f] = held
  BY <1>2, ReadIsKnown
<1>4. ~req[t].late /\ AllKept(p, req[t].prints, disk) =>
         PackKnown(req[t], k) /\ k[f] = req[t].digest[f]
  BY <1>1, InPackFacts DEF PackKnown
<1>5. held \in Contents \cup {None}
  BY <1>2, RegistryAssumption DEF IInv, TypeOK, Holds, RegistryAssumption, Units
<1>6. CASE held # None /\ held.loads
  <2>1. Continue(t, r)
    BY <1>6 DEF LoadMember
  <2>2. req[t].held \in [Inside -> Contents \cup {None}]
    BY <1>2 DEF Request
  <2>3. /\ r.pc = "pack" /\ r.pack = p /\ r.files = req[t].files /\ r.done = req[t].done
        /\ r.found = req[t].found /\ r.prints = req[t].prints /\ r.late = Late(t, f)
        /\ r.todo = req[t].todo \ {f} /\ r.digest = req[t].digest
        /\ r.held = [req[t].held EXCEPT ![f] = held]
        /\ r.checked = None
    BY <1>2 DEF Request
  <2>4. r \in Request
    BY <1>2, <1>5, <2>2, LateType DEF Request
  <2>5. \A g \in r.files \ r.todo : r.held[g] = IF g = f THEN held ELSE req[t].held[g]
    BY <1>2, <2>2, <2>3 DEF Request
  <2>6. PackWork(r)
    BY <1>2, <1>5, <1>6, <2>3, <2>5 DEF PackWork
  <2>7. ~r.late /\ AllKept(r.pack, r.prints, disk) => PackKnown(r, k)
    <3>1. SUFFICES ASSUME ~Late(t, f), AllKept(p, req[t].prints, disk)
                   PROVE  PackKnown(r, k)
      BY <2>3
    <3>2. PackKnown(req[t], k) /\ k[f] = req[t].digest[f] /\ k[f] = held
      BY <1>3, <1>4, <3>1
    <3> HIDE DEF r, k, held, f
    <3>3. \A g \in r.files \ r.todo :
             k[g] = r.digest[g] /\ k[g].loads /\ r.held[g] = k[g]
      <4>1. SUFFICES ASSUME NEW g \in r.files \ r.todo
                     PROVE  k[g] = r.digest[g] /\ k[g].loads /\ r.held[g] = k[g]
        OBVIOUS
      <4>2. CASE g = f
        BY <1>6, <2>3, <2>5, <3>2, <4>2
      <4>3. CASE g # f
        BY <2>3, <2>5, <3>2, <4>3 DEF PackKnown
      <4> QED
        BY <4>2, <4>3
    <3> QED
      BY <2>3, <3>2, <3>3 DEF PackKnown
  <2> HIDE DEF r
  <2> QED
    BY <1>1, <1>3, <2>1, <2>3, <2>4, <2>6, <2>7, OnwardGood
<1>7. CASE ~(held # None /\ held.loads)
  <2>1. Judge(t, p, Rejected, f)
    BY <1>7 DEF LoadMember
  <2>2. ~Late(t, f) /\ AllKept(p, req[t].prints, disk) =>
           Rejected = Judged(k, p, SeenBefore(req[t].found, p))
    <3>1. SUFFICES ASSUME ~Late(t, f), AllKept(p, req[t].prints, disk)
                   PROVE  Rejected = Judged(k, p, SeenBefore(req[t].found, p))
      OBVIOUS
    <3>2. PackKnown(req[t], k) /\ k[f] = req[t].digest[f] /\ k[f] = held
      BY <1>3, <1>4, <3>1
    <3>3. ~k[f].loads
      <4>1. req[t].digest[f] \in Contents
        BY <1>2
      <4> HIDE DEF k, held, f
      <4> QED
        BY <4>1, <1>7, <3>2, RegistryAssumption DEF RegistryAssumption
    <3> QED
      BY <1>2, <3>2, <3>3 DEF PackKnown, Judged
  <2>3. Rejected \in Verdict /\ Rejected.ids = {}
    BY DEF Rejected, Verdict
  <2> QED
    BY <1>2, <2>1, <2>2, <2>3, LateType, JudgeGood
<1> QED
  BY <1>6, <1>7

LEMMA ClosePackGood ==
    ASSUME IInv, NEW t \in Threads, ClosePack(t)
    PROVE  IInv'
<1> DEFINE p == req[t].pack
           files == req[t].files
           k == Known(req[t].prints, disk)
           seen == Seen(req[t].found)
           v == PackVerdict(files, req[t].held, seen)
<1>1. InPack(t) /\ req[t].todo = {} /\ Judge(t, p, v, p)
  BY DEF ClosePack
<1>2. /\ p \in Units \ req[t].done /\ p \in Packs /\ p \notin Bundled
      /\ \A w \in Units : Rank[w] < Rank[p] => w \in req[t].done
      /\ \A f \in files : req[t].held[f] \in Contents
      /\ Owned(req[t].found, req[t].done)
  BY <1>1, InPackFacts DEF GoodRequest
<1>3. v \in Verdict
  BY <1>2, PackVerdictType
<1>4. v.ids \cap seen = {}
  BY DEF PackVerdict, Accepted, Rejected
<1>5. seen = SeenBefore(req[t].found, p)
  BY <1>2, SeenIsBefore
<1>6. ~Late(t, p) /\ AllKept(p, req[t].prints, disk) =>
         v = Judged(k, p, SeenBefore(req[t].found, p))
  <2>1. SUFFICES ASSUME ~Late(t, p), AllKept(p, req[t].prints, disk)
                 PROVE  v = Judged(k, p, seen)
    BY <1>5
  <2>2. PackKnown(req[t], k)
    BY <1>1, <2>1, LateType, InPackFacts
  <2>3. \A f \in files : k[f] = req[t].digest[f] /\ k[f].loads /\ req[t].held[f] = k[f]
    BY <1>1, <2>2 DEF PackKnown
  <2>4. v = PackVerdict(files, k, seen)
    BY <2>3 DEF PackVerdict
  <2> QED
    BY <1>2, <2>2, <2>3, <2>4 DEF PackKnown, Judged
<1> HIDE DEF v
<1> QED
  BY <1>1, <1>2, <1>3, <1>4, <1>6, LateType, JudgeGood

(* Store and the ends of requests. *)
LEMMA RespondGood ==
    ASSUME IInv, NEW t \in Threads, Respond(t), UNCHANGED <<disk, clock, requests>>,
           failed' \in BOOLEAN, state' \in Registry \cup {None},
           GoodState(state', disk, clock)
    PROVE  IInv'
<1>1. clock \in Nat /\ Idle \in Request /\ GoodRequest(Idle, disk, clock)
  BY IdleGood DEF IInv, TypeOK
<1>2. req' \in [Threads -> Request] /\ \A x \in Threads : req'[x] = IF x = t THEN Idle ELSE req[x]
  BY <1>1 DEF IInv, TypeOK, Respond
<1>3. \A x \in Threads : GoodRequest(req'[x], disk, clock) /\ PackWork(req'[x])
  BY <1>1, <1>2 DEF IInv, GoodRequest
<1>4. TypeOK'
  BY <1>2, <1>3 DEF IInv, TypeOK
<1> QED
  BY <1>3, <1>4 DEF IInv

LEMMA StoreGood ==
    ASSUME IInv, NEW t \in Threads, Store(t)
    PROVE  IInv'
<1> DEFINE s == [prints |-> req[t].prints, late |-> req[t].late, found |-> req[t].found]
<1>1. state' = s /\ req[t].done = Units /\ Respond(t) /\ UNCHANGED <<disk, failed, clock, requests>>
  BY DEF Store
<1>2. GoodRequest(req[t], disk, clock) /\ req[t] \in Request
  BY DEF IInv, GoodRequest
<1>3. s \in Registry
  BY <1>2 DEF Request, Registry
<1>4. GoodState(s, disk, clock)
  BY <1>1, <1>2 DEF GoodRequest, GoodState, Faithful
<1>5. failed' \in BOOLEAN
  BY <1>1 DEF IInv, TypeOK
<1> HIDE DEF s
<1> QED
  BY <1>1, <1>3, <1>4, <1>5, RespondGood

LEMMA FailGood ==
    ASSUME IInv, NEW t \in Threads, Fail(t)
    PROVE  IInv'
BY RespondGood DEF Fail, IInv, TypeOK

(* read and refresh *)
LEMMA ReceiveGood ==
    ASSUME IInv, NEW t \in Threads, Receive(t), state' \in {state, None}
    PROVE  IInv'
<1> DEFINE r == [Idle EXCEPT !.pc = "collect"]
<1>1. clock \in Nat /\ Idle \in Request
  BY IdleGood DEF IInv, TypeOK
<1>2. r \in Request /\ GoodRequest(r, disk, clock)
  <2>1. /\ r.pc = "collect" /\ r.pack = None /\ r.checked = None /\ r.found = Nothing
        /\ r.done = {} /\ r.prints = NoPrints
    BY DEF Idle
  <2>2. r \in Request
    BY <1>1 DEF Request
  <2>3. OldPrints(NoPrints, clock)
    BY <1>1 DEF OldPrints, NoPrints
  <2> HIDE DEF r
  <2> QED
    BY <1>1, <2>1, <2>2, <2>3, BeginGood
<1>3. /\ req' = [req EXCEPT ![t] = r] /\ UNCHANGED <<disk, failed, clock>>
      /\ requests' \in 0..MaxRequests
  BY RegistryAssumption DEF Receive, IInv, TypeOK, RegistryAssumption
<1> HIDE DEF r
<1>4. req' \in [Threads -> Request] /\ \A x \in Threads : req'[x] = IF x = t THEN r ELSE req[x]
  BY <1>2, <1>3 DEF IInv, TypeOK
<1>5. \A x \in Threads : GoodRequest(req'[x], disk, clock) /\ PackWork(req'[x])
  BY <1>2, <1>4 DEF IInv, GoodRequest
<1>6. state' \in Registry \cup {None} /\ GoodState(state', disk, clock)
  BY DEF IInv, TypeOK, GoodState
<1>7. TypeOK'
  BY <1>3, <1>4, <1>5, <1>6 DEF IInv, TypeOK
<1> QED
  BY <1>3, <1>5, <1>6, <1>7 DEF IInv

LEMMA CollectGood ==
    ASSUME IInv, NEW t \in Threads, Collect(t)
    PROVE  IInv'
<1> DEFINE r == [Idle EXCEPT !.pc = "compare", !.prints = Fingerprints(disk)]
<1>1. clock \in Nat /\ Idle \in Request
  BY IdleGood DEF IInv, TypeOK
<1>2. Fingerprints(disk) \in [Printed -> Nat] /\ OldPrints(Fingerprints(disk), clock)
  BY RegistryAssumption DEF Fingerprints, OldPrints, IInv, TypeOK, RegistryAssumption
<1>3. /\ r.pc = "compare" /\ r.pack = None /\ r.checked = None /\ r.found = Nothing
      /\ r.done = {} /\ r.prints = Fingerprints(disk)
  BY DEF Idle
<1>4. r \in Request
  BY <1>1, <1>2 DEF Request
<1>5. Continue(t, r)
  BY DEF Collect
<1> HIDE DEF r
<1> QED
  BY <1>1, <1>2, <1>3, <1>4, <1>5, BeginGood, ContinueGood

(* compare: hit or miss *)
LEMMA CompareGood ==
    ASSUME IInv, NEW t \in Threads, req[t].pc = "compare", NEW pc \in {"take", "scan"},
           Continue(t, [req[t] EXCEPT !.pc = pc])
    PROVE  IInv'
<1> DEFINE r == [req[t] EXCEPT !.pc = pc]
<1>1. GoodRequest(req[t], disk, clock) /\ req[t] \in Request
  BY DEF IInv, GoodRequest
<1>2. /\ r \in Request /\ r.pc = pc /\ r.pack = req[t].pack /\ r.checked = req[t].checked
      /\ r.found = req[t].found /\ r.done = req[t].done /\ r.prints = req[t].prints
      /\ r.late = req[t].late
  BY <1>1 DEF Request
<1>3. GoodRequest(r, disk, clock)
  BY <1>1, <1>2 DEF GoodRequest, PackWork, Faithful, InPackFaithful
<1>4. Continue(t, r)
  OBVIOUS
<1> HIDE DEF r
<1> QED
  BY <1>3, <1>4, ContinueGood

LEMMA TakeCachedGood ==
    ASSUME IInv, NEW t \in Threads, TakeCached(t)
    PROVE  IInv'
<1>1. clock \in Nat
  BY DEF IInv, TypeOK
<1> QED
  BY <1>1, IdleGood, ContinueGood DEF TakeCached

(* Writes and removals. *)
LEMMA PutGood ==
    ASSUME IInv, NEW p \in Paths, NEW data \in Holds(p), Put(p, data)
    PROVE  IInv'
<1>1. /\ clock \in Nat /\ clock >= 1 /\ clock <= MaxWrites /\ clock' = clock + 1
      /\ disk' = After(disk, clock, p, data)
      /\ UNCHANGED <<state, req, failed, requests>>
  BY DEF IInv, TypeOK, Put, After
<1>2. OnDisk(disk, clock)
  BY DEF IInv, TypeOK, OnDisk
<1>3. OnDisk(disk', clock')
  <2>1. data \in Contents \cup Manifests \cup {None}
    BY DEF Holds
  <2>2. /\ disk' \in [Paths -> [stamp : 1..(clock + 1), data : Contents \cup Manifests \cup {None}]]
        /\ \A x \in Paths : disk'[x].data = IF x = p THEN data ELSE disk[x].data
    BY <1>1, <1>2, <2>1 DEF OnDisk, After
  <2> QED
    BY <1>1, <1>2, <2>2 DEF OnDisk
<1>4. TypeOK'
  <2>1. clock' \in 1..(MaxWrites + 1)
    BY <1>1, RegistryAssumption DEF RegistryAssumption
  <2> QED
    BY <1>1, <1>3, <2>1 DEF IInv, TypeOK, OnDisk
<1>5. ASSUME NEW t \in Threads
      PROVE  GoodRequest(req'[t], disk', clock')
  <2>1. GoodRequest(req[t], disk, clock) /\ req[t] \in Request
    BY DEF IInv, GoodRequest
  <2>2. req[t].prints \in [Printed -> Nat] /\ req[t].done \in SUBSET Units
    BY <2>1 DEF Request
  <2>3. OldPrints(req[t].prints, clock')
    BY <1>1, <2>1, <2>2 DEF GoodRequest, OldPrints
  <2>4. Faithful(req[t], req[t].done, disk')
    BY <1>1, <1>2, <2>1, <2>2, PutKeepsFaithful DEF GoodRequest
  <2>5. InPackFaithful(req[t], disk')
    BY <1>1, <1>2, <2>1, PutKeepsPack DEF GoodRequest
  <2> QED
    BY <1>1, <2>1, <2>3, <2>4, <2>5 DEF GoodRequest
<1>6. GoodState(state', disk', clock')
  <2>1. SUFFICES ASSUME state # None PROVE GoodState(state, disk', clock')
    BY <1>1 DEF GoodState
  <2>2. GoodState(state, disk, clock) /\ state.prints \in [Printed -> Nat]
    BY <2>1 DEF IInv, TypeOK, Registry
  <2>3. OldPrints(state.prints, clock')
    BY <1>1, <2>1, <2>2 DEF GoodState, OldPrints
  <2>4. Faithful(state, Units, disk')
    BY <1>1, <1>2, <2>1, <2>2, PutKeepsFaithful DEF GoodState
  <2> QED
    BY <2>1, <2>2, <2>3, <2>4 DEF GoodState
<1> QED
  BY <1>4, <1>5, <1>6 DEF IInv

-----------------------------------------------------------------------------
(* The invariant and what follows from it.                                 *)

LEMMA InitGood == Init => IInv
<1> SUFFICES ASSUME Init PROVE IInv
  OBVIOUS
<1>1. clock = 1 /\ state = None /\ failed = FALSE /\ requests = 0
  BY DEF Init
<1>2. OnDisk(disk, 1)
  <2>1. PICK d \in Disks : disk = [p \in Paths |-> [stamp |-> 1, data |-> d[p]]]
    BY DEF Init
  <2>2. /\ d \in [Paths -> Contents \cup Manifests \cup {None}]
        /\ \A p \in Paths : d[p] \in Holds(p)
    BY RegistryAssumption DEF RegistryAssumption
  <2> QED
    BY <2>1, <2>2 DEF OnDisk
<1>3. Idle \in Request /\ GoodRequest(Idle, disk, clock)
  BY <1>1, IdleGood
<1>4. \A t \in Threads : req[t] = Idle
  BY DEF Init
<1>5. TypeOK
  <2>1. req \in [Threads -> Request] /\ \A t \in Threads : PackWork(req[t])
    BY <1>3, <1>4 DEF Init, GoodRequest
  <2>2. OnDisk(disk, clock)
    BY <1>1, <1>2
  <2>3. clock \in 1..(MaxWrites + 1) /\ requests \in 0..MaxRequests
    BY <1>1, RegistryAssumption DEF RegistryAssumption
  <2> QED
    BY <1>1, <2>1, <2>2, <2>3 DEF TypeOK, OnDisk
<1> QED
  BY <1>1, <1>3, <1>4, <1>5 DEF IInv, GoodState

LEMMA NextGood == IInv /\ [Next]_vars => IInv'
<1> SUFFICES ASSUME IInv, [Next]_vars PROVE IInv'
  OBVIOUS
<1>1. CASE UNCHANGED vars
  BY <1>1 DEF vars, IInv, TypeOK, Holds
<1>2. ASSUME NEW t \in Threads, Client(t)
      PROVE  IInv'
  BY <1>2, ReceiveGood DEF Client, Read, Refresh, Receive
<1>3. ASSUME NEW t \in Threads, Serve(t)
      PROVE  IInv'
  <2>1. CASE Collect(t)
    BY <2>1, CollectGood
  <2>2. CASE CompareHit(t)
    BY <2>2, CompareGood DEF CompareHit
  <2>3. CASE CompareMiss(t)
    BY <2>3, CompareGood DEF CompareMiss
  <2>4. CASE TakeCached(t)
    BY <2>4, TakeCachedGood
  <2>5. CASE TakeDropped(t)
    BY <2>5, FailGood DEF TakeDropped
  <2>6. CASE \E u \in Units : ScanFile(t, u) \/ PackRejected(t, u) \/ ManifestRaises(t, u)
                              \/ OpenPack(t, u)
    BY <2>6, ScanFileGood, PackRejectedGood, OpenPackGood, FailGood DEF ManifestRaises
  <2>7. CASE \E f \in Inside : CheckDigest(t, f)
    BY <2>7, CheckDigestGood
  <2>8. CASE LoadMember(t) \/ ClosePack(t) \/ Store(t)
    BY <2>8, LoadMemberGood, ClosePackGood, StoreGood
  <2> QED
    BY <1>3, <2>1, <2>2, <2>3, <2>4, <2>5, <2>6, <2>7, <2>8 DEF Serve
<1>4. ASSUME NEW p \in Paths \ Bundled, Write(p) \/ Remove(p)
      PROVE  IInv'
  BY <1>4, PutGood DEF Write, Remove, Holds
<1> QED
  BY <1>1, <1>2, <1>3, <1>4 DEF Next, User

(* The inductive invariant: what every request has found so far, and what the *)
(* registry keeps, is right for as long as the files it comes from are kept.  *)
THEOREM RegistryInvariantHolds == Spec => []IInv
<1>1. Init => IInv
  BY InitGood
<1>2. IInv /\ [Next]_vars => IInv'
  BY NextGood
<1> QED
  BY <1>1, <1>2, PTL DEF Spec

(* Every variable of the registry and of its requests keeps its type. *)
THEOREM RegistryTypeOK == Spec => []TypeOK
<1>1. IInv => TypeOK
  BY DEF IInv
<1> QED
  BY <1>1, RegistryInvariantHolds, PTL

(* No silent override, at any point of any scan: the collision policy that the *)
(* module docstring of registry.py states.                                     *)
THEOREM RegistryNoSilentOverride == Spec => []NoSilentOverride
<1>1. IInv => NoSilentOverride
  BY DEF IInv, GoodRequest, GoodState, Owned, NoSilentOverride, Catalogues
<1> QED
  BY <1>1, RegistryInvariantHolds, PTL

(* A cached catalogue whose fingerprints are those of the disk says of every   *)
(* unit what the files hold now, but for a pack that lists a file without a    *)
(* fingerprint: what _ensure_loaded relies on to skip the scan.                *)
THEOREM RegistryFresh == Spec => []Fresh
<1>1. IInv => Fresh
  <2>1. SUFFICES ASSUME IInv, state # None, ~state.late, state.prints = Fingerprints(disk),
                        NEW u \in Units, Traced(DataOn(disk), u)
                 PROVE  state.found[u] = Judged(DataOn(disk), u, SeenBefore(state.found, u))
    BY DEF Fresh
  <2>2. Known(state.prints, disk) = DataOn(disk)
    <3>1. \A p \in Printed : state.prints[p] = 0 => disk[p].data = None
      BY <2>1, RegistryAssumption DEF IInv, TypeOK, Fingerprints, RegistryAssumption
    <3> QED
      BY <3>1 DEF Known, DataOn
  <2>3. AllKept(u, state.prints, disk)
    BY <2>1, <2>2 DEF AllKept, Kept
  <2> QED
    BY <2>1, <2>2, <2>3 DEF IInv, GoodState, Faithful
<1> QED
  BY <1>1, RegistryInvariantHolds, PTL
=============================================================================
