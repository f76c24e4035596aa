------------------------------ MODULE MCClient ------------------------------
(* Instances of Client for TLC. *)
EXTENDS Client

\* One method of each kind: it writes, reads or changes what is under the lock,
\* or closes.
OneOfEachKind == {"send", "peers", "onSignal", "close"}

OnlyPeers == {"peers"}

\* How a signal was numbered does not matter to one client.
FromAnyone == {SignalMsg(x, Me, 0) : x \in Conns}
=============================================================================
