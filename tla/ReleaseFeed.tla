---------------------------- MODULE ReleaseFeed ----------------------------
(***************************************************************************)
(* Which release the updater offers: the pure part of updater.py.          *)
(*                                                                         *)
(* The order of X.Y.Z is that of the numbers `core' stands for; a release  *)
(* proper has no beta number.  A listing is the sequence GitHub answers.   *)
(***************************************************************************)
EXTENDS Absent, Integers, Sequences, FiniteSets

CONSTANTS
    Current,        \* __version__
    Updater         \* UPDATER_VERSION

Version(core, beta) == [core |-> core, beta |-> beta]
ReleaseVersions == [core : Nat, beta : Nat \cup {None}]
IsPrerelease(v) == v.beta # None

\* SemVer.__lt__: a release ranks above every beta of the same X.Y.Z.
\* A mutant compares the numbers only.
LtMutant(v, w) == v.core < w.core

Lt(v, w) ==
    \/ v.core < w.core
    \/ v.core = w.core /\ IsPrerelease(v) /\ (IsPrerelease(w) => v.beta < w.beta)

\* channel_allows_release
AllowedOnMutant(channel, r) ==
    /\ r.tag # None
    /\ channel = "stable" => ~r.prerelease
    /\ r.prerelease => IsPrerelease(r.tag)

AllowedOn(channel, r) ==
    /\ r.tag # None
    /\ channel = "stable" => ~r.prerelease /\ ~IsPrerelease(r.tag)
    /\ r.prerelease => IsPrerelease(r.tag)

\* The loop of _pick_release over the listing.
Candidates(feed, channel) ==
    {i \in DOMAIN feed : /\ ~feed[i].draft
                         /\ AllowedOn(channel, feed[i])
                         /\ Lt(Current, feed[i].tag)}

\* Its stable sort, newest first.
Newest(feed, indices) ==
    CHOOSE i \in indices : \A j \in indices \ {i} :
        Lt(feed[j].tag, feed[i].tag) \/ (feed[j].tag = feed[i].tag /\ i < j)

Picked(feed, channel) == feed[Newest(feed, Candidates(feed, channel))]

\* parse_manifest and _build_update_info: what makes the picked release usable.
\* The assets it must have are the installer, its checksum and the manifest.
Assets == {"installer", "checksum", "manifest"}

Fetchable(r) == "manifest" \in DOMAIN r.assets /\ r.assets["manifest"].trusted

Usable(r) ==
    LET m == r.manifest
    IN  /\ m.wellFormed
        /\ m.version = r.tag /\ m.tag = r.tag /\ m.named
        /\ Assets \subseteq DOMAIN r.assets
        /\ m.trusted /\ \A a \in Assets : r.assets[a].trusted
        /\ r.assets["installer"].size \in {None, m.size}
        /\ m.minimum # None /\ ~Lt(Updater, m.minimum)

UpdateInfo(r) == [version |-> r.tag, size |-> r.manifest.size, digest |-> r.manifest.digest]
=============================================================================
