---------------------------- MODULE MCImagePull ----------------------------
(* An image of three layers: the second removes a file of the first and    *)
(* replaces another, and the third puts the removed file there again.      *)
EXTENDS ImagePull, TLC

CONSTANTS base, middle, top, a, b, c

File(p) == [kind |-> "file", path |-> p]
Whiteout(p) == [kind |-> "whiteout", path |-> p]

Layers == (base   :> <<File(a), File(b), File(c)>>)
       @@ (middle :> <<Whiteout(a), File(b)>>)
       @@ (top    :> <<File(a), Whiteout(c)>>)

Stacked == <<base, middle, top>>

Symmetry == Permutations(Pullers)
=============================================================================
