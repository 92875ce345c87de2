------------------------- MODULE MCContentRegistry -------------------------
(* A small instance of ContentRegistry: a bundled file, one of the user's,  *)
(* and a pack of up to two files, one of them without a YAML name.          *)
EXTENDS ContentRegistry, TLC

CONSTANTS b, l, p, f1, f2, i1, i2

MCRank == (b :> 1) @@ (l :> 2) @@ (p :> 3)
MCMembers == p :> {f1, f2}
MCPrinted == {b, l, p, f1}

One == [ids |-> {i1}, loads |-> TRUE]
Two == [ids |-> {i2}, loads |-> TRUE]
Bad == [ids |-> {}, loads |-> FALSE]
MCContents == {One, Two, Bad}

Listing(files) == [files |-> files, valid |-> TRUE, raises |-> FALSE]
Both    == Listing((f1 :> One) @@ (f2 :> Two))
Single  == Listing(f1 :> One)
Invalid == [files |-> <<>>, valid |-> FALSE, raises |-> FALSE]
Raising == [files |-> <<>>, valid |-> FALSE, raises |-> TRUE]
MCManifests == {Both, Single, Invalid, Raising}

\* A whole pack beside a bad bundled file, or a corrupt pack that collides.
MCDisks ==
    {(b :> c[1]) @@ (l :> None) @@ (p :> Both) @@ (f1 :> c[2]) @@ (f2 :> Two) :
        c \in {<<Bad, One>>, <<One, Two>>}}

ThreadSymmetry == Permutations(Threads)
=============================================================================
