------------------------------- MODULE MCHub -------------------------------
(* Instances of Hub for TLC. *)
EXTENDS Hub, TLC

CONSTANT Stranger  \* an ID nobody has, as a client may type it

Anyone == Conns \cup {None, Stranger}

Everyone == {None}

ConnSymmetry == Permutations(Conns)

\* Two messages between two connections, or one among three.
FewOrQuiet == routed <= 1 \/ \E c \in Conns : stage[c] = "new"

BoundedSpec == Init /\ [][Next /\ FewOrQuiet']_vars
=============================================================================
