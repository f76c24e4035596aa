------------------------------ MODULE MCServer ------------------------------
(* Instances of Server for TLC. *)
EXTENDS Server, TLC

CONSTANT Stranger  \* an ID nobody has, as a client may type it

Anyone == Conns \cup {None, Stranger}

Everyone == {None}

Nobody == {Stranger}

ConnSymmetry == Permutations(Conns)
=============================================================================
