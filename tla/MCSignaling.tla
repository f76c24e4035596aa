----------------------------- MODULE MCSignaling -----------------------------
(* Instances of Signaling for TLC. *)
EXTENDS Signaling

Nothing == {}

\* Pings share nothing with the rest of the client but the write lock.
NoPings == pinger # "lock"

BoundedSpec == Init /\ [][Next /\ NoPings']_vars /\ Fairness
=============================================================================
