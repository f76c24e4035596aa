------------------------------- MODULE Roster -------------------------------
(***************************************************************************)
(* What the hub promises about membership, without channels, handlers or   *)
(* message formats: peers join and leave in single steps, a peer that      *)
(* joins is given exactly the members of that moment, and every member     *)
(* either hears of a change when it happens or never does.                 *)
(***************************************************************************)
CONSTANT Conns

VARIABLES
  members,  \* the peers that have joined and not left
  gone,     \* the peers that have left
  view      \* view[c]: the peers c has been led to believe in

vars == <<members, gone, view>>

Init ==
  /\ members = {}
  /\ gone = {}
  /\ view = [c \in Conns |-> {}]

Join(c) ==
  /\ c \notin members \cup gone
  /\ members' = members \cup {c}
  /\ \E heard \in SUBSET members :
       view' = [d \in Conns |-> IF d = c THEN members
                                ELSE IF d \in heard THEN view[d] \cup {c}
                                ELSE view[d]]
  /\ UNCHANGED gone

Leave(c) ==
  /\ c \in members
  /\ members' = members \ {c}
  /\ gone' = gone \cup {c}
  /\ \E heard \in SUBSET members' :
       view' = [d \in Conns |-> IF d = c THEN {}
                                ELSE IF d \in heard THEN view[d] \ {c}
                                ELSE view[d]]

Next == \E c \in Conns : Join(c) \/ Leave(c)

Spec == Init /\ [][Next]_vars
=============================================================================
