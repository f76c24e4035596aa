------------------------------ MODULE MCAgent ------------------------------
(* Instances of Agent for TLC. *)
EXTENDS Agent, TLC

\* One interface, or a second one comes up or goes away.
OneIp == {<<"ip1">>}
TwoIps == {<<"ip1">>, <<"ip2", "ip1">>}

OnePort == {1}
TwoPorts == {1, 2}

\* The goroutines that gather are alike.
ThreadSymmetry == Permutations(Threads)
=============================================================================
