--------------------------- MODULE ContentRegistry ---------------------------
(***************************************************************************)
(* registry.py: the question banks and labs of the application, of the     *)
(* user's folders and of installed packs, merged into one catalogue that   *)
(* is rebuilt when a fingerprint has changed.  Fingerprints are taken of   *)
(* the files named *.yaml or *.yml; a pack's manifest may list any other.  *)
(*                                                                         *)
(* A scan reads the disk file by file, and a pack's files twice (digest,   *)
(* then content), while the user may add, replace or remove files; and     *)
(* request threads scan at the same time.  Nothing is locked: the cached   *)
(* catalogue carries the fingerprints that were collected before its scan, *)
(* and the next request compares them with the disk.  The files' stats     *)
(* are one step, and so is each look at a file.                            *)
(*                                                                         *)
(* A unit is what is accepted or rejected as a whole: a bank or lab file,  *)
(* or a pack.  Question ids and lab_ids never meet, so Ids holds both; a   *)
(* digest stands for the content it is the digest of.                      *)
(***************************************************************************)
EXTENDS Integers, FiniteSets

CONSTANTS
    Ids,                    \* question ids and lab_ids
    Bundled, Loose, Packs,  \* units: files of the application and of the user, packs
    Members,                \* pack -> the content files in its directory
    Printed,                \* paths that end in .yaml or .yml
    Rank,                   \* unit -> its place in the order of a scan
    Contents,               \* what a bank or lab file may hold
    Manifests,              \* what a pack.yaml may hold
    Disks,                  \* what may be on the disk at first: path -> data
    Threads,
    None,
    MaxWrites,              \* bound: changes of the disk
    MaxRequests             \* bound: requests

Units == Bundled \cup Loose \cup Packs

\* A pack's own path is its pack.yaml.
Inside == UNION {Members[p] : p \in Packs}
Paths  == Units \cup Inside

\* loads: within the limits and valid.
Content == [ids : SUBSET Ids, loads : BOOLEAN]

\* valid: what _load_pack_manifest accepts, from a version that is satisfied;
\* raises: it fails with something else than a PackError.
\* files: the files listed, with the content their digests are of.
Listings == UNION {[S -> Contents] : S \in SUBSET Inside}
Manifest == [files : Listings, valid : BOOLEAN, raises : BOOLEAN]

\* What can be at a path.  A manifest lists files of its own pack's directory.
Holds(p) == {None} \cup (IF p \in Packs
                         THEN {m \in Manifests : DOMAIN m.files \subseteq Members[p]}
                         ELSE Contents)

ASSUME RegistryAssumption ==
    /\ Bundled \cap Loose = {} /\ (Bundled \cup Loose) \cap Packs = {}
    /\ Members \in [Packs -> SUBSET Inside] /\ Units \cap Inside = {}
    /\ Units \subseteq Printed /\ Printed \subseteq Paths
    /\ Rank \in [Units -> Nat]
    /\ \A u, v \in Units : Rank[u] = Rank[v] => u = v
    /\ \A b \in Bundled, u \in Units \ Bundled : Rank[b] < Rank[u]
    /\ Contents \subseteq Content /\ Manifests \subseteq Manifest
    /\ None \notin Contents /\ None \notin Manifests /\ None \notin Paths
    /\ Disks \subseteq {d \in [Paths -> Contents \cup Manifests \cup {None}] :
                          \A p \in Paths : d[p] \in Holds(p)}
    /\ MaxWrites \in Nat /\ MaxRequests \in Nat

VARIABLES
    disk,       \* path -> what is there, None for no file, and its time stamp
    state,      \* ContentRegistry._state
    req,        \* thread -> the request it is serving
    failed,     \* has a request ended with an exception?
    clock,      \* the latest time stamp
    requests    \* counted against MaxRequests

vars == <<disk, state, req, failed, clock, requests>>

-----------------------------------------------------------------------------
(* The verdict on a unit.                                                  *)

Accepted(ids) == [verdict |-> "accepted", ids |-> ids]
Rejected == [verdict |-> "rejected", ids |-> {}]
Absent   == [verdict |-> "absent", ids |-> {}]

Verdict == [verdict : {"accepted", "rejected", "absent"}, ids : SUBSET Ids]
Catalogue == [Units -> Verdict]
Nothing == [u \in Units |-> Absent]

\* seen_q and seen_labs.
Seen(c) == UNION {c[u].ids : u \in Units}

\* MUTANT: a user's file may redefine ids.
FileVerdictOverriding(u, held, seen) ==
    IF held = None THEN Absent
    ELSE IF held.loads THEN Accepted(held.ids) ELSE Rejected

\* A bundled file is not checked for collisions.
FileVerdict(u, held, seen) ==
    IF held = None THEN Absent
    ELSE IF held.loads /\ (u \in Bundled \/ held.ids \cap seen = {})
         THEN Accepted(held.ids)
         ELSE Rejected

\* The end of _load_one_pack, for the contents loaded from its files.
PackVerdict(files, held, seen) ==
    IF /\ \A f, g \in files : f # g => held[f].ids \cap held[g].ids = {}
       /\ \A f \in files : held[f].ids \cap seen = {}
    THEN Accepted(UNION {held[f].ids : f \in files})
    ELSE Rejected

-----------------------------------------------------------------------------
(* Fingerprints.                                                           *)

\* Path, modification time and size, of the files with a YAML name only; 0 for
\* no file.
Fingerprints(d) == [p \in Printed |-> IF d[p].data = None THEN 0 ELSE d[p].stamp]

NoPrints == [p \in Printed |-> 0]

-----------------------------------------------------------------------------
(* The state of a request.                                                 *)

NothingHeld == [f \in Inside |-> None]

Idle == [pc |-> "idle", prints |-> NoPrints, late |-> FALSE, done |-> {},
         found |-> Nothing, pack |-> None, files |-> {}, digest |-> None,
         checked |-> None, todo |-> {}, held |-> NothingHeld]

Busy(t) == req[t].pc # "idle"

\* Thread t goes on as r.
Continue(t, r) ==
    /\ req' = [req EXCEPT ![t] = r]
    /\ UNCHANGED <<disk, state, failed, clock, requests>>

Respond(t) == req' = [req EXCEPT ![t] = Idle]

\* An exception ends the request and leaves the registry alone.
Fail(t) ==
    /\ Respond(t)
    /\ failed' = TRUE
    /\ UNCHANGED <<disk, state, clock, requests>>

\* A request that comes to read p: has it read a file that had come after it
\* collected its fingerprints?  (No variable of the code.)
Late(t, p) ==
    req[t].late \/ (p \in Printed /\ disk[p].data # None /\ req[t].prints[p] = 0)

Init ==
    /\ \E d \in Disks : disk = [p \in Paths |-> [stamp |-> 1, data |-> d[p]]]
    /\ state = None
    /\ req = [t \in Threads |-> Idle]
    /\ failed = FALSE
    /\ clock = 1
    /\ requests = 0

-----------------------------------------------------------------------------
(* _ensure_loaded.                                                         *)

Receive(t) ==
    /\ ~Busy(t)
    /\ requests < MaxRequests
    /\ requests' = requests + 1
    /\ req' = [req EXCEPT ![t] = [Idle EXCEPT !.pc = "collect"]]
    /\ UNCHANGED <<disk, failed, clock>>

\* banks(), labs(), question_pool() and diagnostics().
Read(t) == Receive(t) /\ UNCHANGED state

\* refresh() drops the cached catalogue first.
Refresh(t) == Receive(t) /\ state' = None

Collect(t) ==
    /\ req[t].pc = "collect"
    /\ Continue(t, [Idle EXCEPT !.pc = "compare", !.prints = Fingerprints(disk)])

IsCurrent(t) == state # None /\ state.prints = req[t].prints

CompareHit(t) ==
    /\ req[t].pc = "compare"
    /\ IsCurrent(t)
    /\ Continue(t, [req[t] EXCEPT !.pc = "take"])

CompareMiss(t) ==
    /\ req[t].pc = "compare"
    /\ ~IsCurrent(t)
    /\ Continue(t, [req[t] EXCEPT !.pc = "scan"])

\* self._state is read again to be returned.
TakeCached(t) ==
    /\ req[t].pc = "take"
    /\ state # None
    /\ Continue(t, Idle)

\* Another thread's refresh has dropped it: the caller gets None.
TakeDropped(t) ==
    /\ req[t].pc = "take"
    /\ state = None
    /\ Fail(t)

-----------------------------------------------------------------------------
(* _scan.                                                                  *)

\* Thread t comes to unit u, all units before it done.
Reaches(t, u) ==
    /\ req[t].pc = "scan"
    /\ u \notin req[t].done
    /\ \A v \in Units : Rank[v] < Rank[u] => v \in req[t].done

\* The verdict on unit u is v, after reading p; thread t goes on with the next.
Judge(t, u, v, p) ==
    Continue(t, [Idle EXCEPT !.pc = "scan",
                             !.prints = req[t].prints,
                             !.late = Late(t, p),
                             !.found = [req[t].found EXCEPT ![u] = v],
                             !.done = req[t].done \cup {u}])

ScanFile(t, u) ==
    /\ u \in Bundled \cup Loose
    /\ Reaches(t, u)
    /\ Judge(t, u, FileVerdict(u, disk[u].data, Seen(req[t].found)), u)

PackRejected(t, p) ==
    /\ p \in Packs
    /\ Reaches(t, p)
    /\ disk[p].data # None => ~disk[p].data.raises /\ ~disk[p].data.valid
    /\ Judge(t, p, Rejected, p)

ManifestRaises(t, p) ==
    /\ p \in Packs
    /\ Reaches(t, p)
    /\ disk[p].data # None /\ disk[p].data.raises
    /\ Fail(t)

OpenPack(t, p) ==
    /\ p \in Packs
    /\ Reaches(t, p)
    /\ disk[p].data # None /\ ~disk[p].data.raises /\ disk[p].data.valid
    /\ LET files == DOMAIN disk[p].data.files
       IN  Continue(t, [req[t] EXCEPT !.pc = "pack", !.late = Late(t, p), !.pack = p,
                                      !.files = files, !.todo = files,
                                      !.digest = disk[p].data.files])

InPack(t) == req[t].pc = "pack"

\* _sha256_file of the next file listed, in whatever order the manifest has.
CheckDigest(t, f) ==
    /\ InPack(t)
    /\ req[t].checked = None
    /\ f \in req[t].todo
    /\ IF disk[f].data = req[t].digest[f]
       THEN Continue(t, [req[t] EXCEPT !.checked = f, !.late = Late(t, f)])
       ELSE Judge(t, req[t].pack, Rejected, f)

\* MUTANT: the content of a file that loads is not kept.
LoadMemberUnkept(t) ==
    /\ InPack(t)
    /\ req[t].checked # None
    /\ LET f == req[t].checked
           held == disk[f].data
       IN  IF held # None /\ held.loads
           THEN Continue(t, [req[t] EXCEPT !.todo = @ \ {f}, !.checked = None,
                                           !.late = Late(t, f)])
           ELSE Judge(t, req[t].pack, Rejected, f)

\* _load_pack_content_file reads the file again.
LoadMember(t) ==
    /\ InPack(t)
    /\ req[t].checked # None
    /\ LET f == req[t].checked
           held == disk[f].data
       IN  IF held # None /\ held.loads
           THEN Continue(t, [req[t] EXCEPT !.held = [@ EXCEPT ![f] = held],
                                           !.todo = @ \ {f}, !.checked = None,
                                           !.late = Late(t, f)])
           ELSE Judge(t, req[t].pack, Rejected, f)

ClosePack(t) ==
    /\ InPack(t)
    /\ req[t].todo = {}
    /\ Judge(t, req[t].pack,
             PackVerdict(req[t].files, req[t].held, Seen(req[t].found)), req[t].pack)

\* MUTANT: the fingerprints stored are those of the disk after the scan.
StoreNewPrints(t) ==
    /\ req[t].pc = "scan"
    /\ req[t].done = Units
    /\ state' = [prints |-> Fingerprints(disk), late |-> req[t].late, found |-> req[t].found]
    /\ Respond(t)
    /\ UNCHANGED <<disk, failed, clock, requests>>

Store(t) ==
    /\ req[t].pc = "scan"
    /\ req[t].done = Units
    /\ state' = [prints |-> req[t].prints, late |-> req[t].late, found |-> req[t].found]
    /\ Respond(t)
    /\ UNCHANGED <<disk, failed, clock, requests>>

-----------------------------------------------------------------------------
(* The user's files.  The application's own never change.                  *)

\* Every write gives a file a fingerprint it has not had before.
Put(p, data) ==
    /\ clock <= MaxWrites
    /\ clock' = clock + 1
    /\ disk' = [disk EXCEPT ![p] = [stamp |-> clock + 1, data |-> data]]
    /\ UNCHANGED <<state, req, failed, requests>>

Write(p) == \E data \in Holds(p) \ {None} : Put(p, data)

Remove(p) == disk[p].data # None /\ Put(p, None)

-----------------------------------------------------------------------------
Client(t) == Read(t) \/ Refresh(t)

Serve(t) ==
    \/ Collect(t) \/ CompareHit(t) \/ CompareMiss(t) \/ TakeCached(t) \/ TakeDropped(t)
    \/ \E u \in Units : ScanFile(t, u) \/ PackRejected(t, u) \/ ManifestRaises(t, u)
                        \/ OpenPack(t, u)
    \/ \E f \in Inside : CheckDigest(t, f)
    \/ LoadMember(t) \/ ClosePack(t) \/ Store(t)

User == \E p \in Paths \ Bundled : Write(p) \/ Remove(p)

Next == (\E t \in Threads : Client(t) \/ Serve(t)) \/ User

Spec == Init /\ [][Next]_vars

-----------------------------------------------------------------------------
(* Properties.                                                             *)

DataOn(d) == [p \in Paths |-> d[p].data]

Registry == [prints : [Printed -> Nat], late : BOOLEAN, found : Catalogue]

Request == [pc : {"idle", "collect", "compare", "take", "scan", "pack"},
            prints : [Printed -> Nat], late : BOOLEAN, found : Catalogue,
            done : SUBSET Units, pack : Packs \cup {None},
            files : SUBSET Inside, todo : SUBSET Inside,
            digest : Listings \cup {None},
            checked : Inside \cup {None}, held : [Inside -> Contents \cup {None}]]

\* _load_one_pack's locals, while request r is in a pack and otherwise.
PackWork(r) ==
    IF r.pc = "pack"
    THEN /\ r.pack \in Packs \ r.done
         /\ r.digest \in [r.files -> Contents]
         /\ r.todo \subseteq r.files
         /\ r.checked \in r.todo \cup {None}
         /\ \A f \in r.files \ r.todo : r.held[f] \in Contents
    ELSE r.pack = None /\ r.checked = None

\* Every variable of the registry and every local of its requests keeps its
\* type; a pack's locals are there exactly while the request is in that pack.
TypeOK ==
    /\ disk \in [Paths -> [stamp : 1..clock, data : Contents \cup Manifests \cup {None}]]
    /\ \A p \in Paths : disk[p].data \in Holds(p)
    /\ state \in Registry \cup {None}
    /\ req \in [Threads -> Request]
    /\ \A t \in Threads : PackWork(req[t])
    /\ failed \in BOOLEAN
    /\ clock \in 1..(MaxWrites + 1)
    /\ requests \in 0..MaxRequests

\* What a scan ought to say of unit u when the files hold d and the units
\* before it have taken the ids in seen: a pack counts only as a whole.
Judged(d, u, seen) ==
    IF u \notin Packs THEN FileVerdict(u, d[u], seen)
    ELSE IF /\ d[u] # None /\ d[u].valid /\ ~d[u].raises
            /\ \A f \in DOMAIN d[u].files : d[f] = d[u].files[f] /\ d[f].loads
         THEN PackVerdict(DOMAIN d[u].files, d, seen)
         ELSE Rejected

SeenBefore(c, u) == UNION {c[v].ids : v \in {w \in Units : Rank[w] < Rank[u]}}

\* Is every file that unit u is read from fingerprinted?
Traced(d, u) == u \in Packs /\ d[u] # None => DOMAIN d[u].files \subseteq Printed

\* _ensure_loaded answers from the cached catalogue when its fingerprints are
\* those of the disk.  However the scan that made it overlapped with changes of
\* the files and with other threads' scans, it then says of each unit what the
\* files hold now, and what follows from the units before it.  Two exceptions:
\* a file that came after the fingerprints were collected, was read by that
\* scan, and is gone again; and a pack that lists a file whose name is not a
\* YAML one, for a change of such a file is not noticed.
Fresh ==
    state # None /\ ~state.late /\ state.prints = Fingerprints(disk) =>
        \A u \in Units : Traced(DataOn(disk), u) =>
            state.found[u] = Judged(DataOn(disk), u, SeenBefore(state.found, u))

Catalogues == {req[t].found : t \in Threads} \cup (IF state = None THEN {} ELSE {state.found})

\* "No silent overrides" (registry.py, module docstring): at no point of any
\* scan does an id of a user's file or pack have a second owner.
NoSilentOverride ==
    \A c \in Catalogues : \A u \in Units \ Bundled, v \in Units :
        u # v => c[u].ids \cap c[v].ids = {}

\* What the class PackError promises: an invalid manifest rejects its pack, and
\* no request for content fails.  It does not hold: see the README.
EveryRequestAnswered == ~failed
=============================================================================
