--------------------------- MODULE MessageProofs ---------------------------
(***************************************************************************)
(* Lemmas about sequences of messages, for the channels of the hub and for *)
(* what a client has read.                                                 *)
(***************************************************************************)
EXTENDS Messages, TLAPS

\* What the server says is a message.
LEMMA FromServerType ==
  ASSUME NEW c \in Conns
  PROVE  FromServer(c) \subseteq Message
<1> SUFFICES ASSUME NEW m \in FromServer(c) PROVE m \in Message
  OBVIOUS
<1>1. ASSUME NEW type \in MessageType, NEW S \in SUBSET Conns
      PROVE  ServerMsg(type, S) \in Message
  BY DEF ServerMsg, Message
<1>2. CASE m = ServerMsg("peer_registered", {c})
  BY <1>1, <1>2 DEF MessageType
<1>3. CASE m = ErrorMsg(c)
  BY <1>3 DEF ErrorMsg, Message, MessageType
<1>4. CASE \E S \in SUBSET Conns : m = ServerMsg("peer_list", S)
  BY <1>1, <1>4 DEF MessageType
<1>5. CASE \E x \in Conns : m = ServerMsg("peer_joined", {x}) \/ m = ServerMsg("peer_left", {x})
  BY <1>1, <1>5 DEF MessageType
<1> QED  BY <1>2, <1>3, <1>4, <1>5 DEF FromServer

\* A sequence of messages after one was added.
LEMMA AppendElements ==
  ASSUME NEW s \in Seq(Message), NEW m \in Message
  PROVE  /\ Append(s, m) \in Seq(Message) /\ Append(s, m) # <<>>
         /\ Len(Append(s, m)) = Len(s) + 1 /\ Len(s) \in Nat
         /\ \A i \in 1..Len(s) : Append(s, m)[i] = s[i]
         /\ Append(s, m)[Len(s) + 1] = m
BY DEF Message

\* What one more message changes of what a client believes.
LEMMA BelievesAppend ==
  ASSUME NEW s \in Seq(Message), NEW m \in Message, NEW x
  PROVE  Believes(Append(s, m), x) <=>
           Announces(m, x) \/ (Believes(s, x) /\ ~Retracts(m, x))
<1> DEFINE t == Append(s, m)
<1>1. /\ Len(s) \in Nat /\ Len(t) = Len(s) + 1 /\ t[Len(s) + 1] = m
      /\ \A i \in 1..Len(s) : t[i] = s[i]
  BY AppendElements
<1> HIDE DEF t
<1>2. ASSUME Announces(m, x) PROVE Believes(t, x)
  <2>1. Len(t) \in 1..Len(t) /\ t[Len(t)] = m /\ (Len(t) + 1)..Len(t) = {}
    BY <1>1
  <2> QED  BY <1>2, <2>1 DEF Believes
<1>3. ASSUME Believes(s, x), ~Retracts(m, x) PROVE Believes(t, x)
  <2>1. PICK i \in 1..Len(s) : /\ Announces(s[i], x)
                               /\ \A j \in (i + 1)..Len(s) : ~Retracts(s[j], x)
    BY <1>3 DEF Believes
  <2>2. i \in 1..Len(t) /\ t[i] = s[i]
    BY <1>1
  <2>3. ASSUME NEW j \in (i + 1)..Len(t) PROVE ~Retracts(t[j], x)
    <3>1. CASE j \in (i + 1)..Len(s)
      BY <1>1, <2>1, <3>1
    <3>2. CASE j = Len(s) + 1
      BY <1>1, <1>3, <3>2
    <3> QED  BY <1>1, <3>1, <3>2
  <2> QED  BY <2>1, <2>2, <2>3 DEF Believes
<1>4. ASSUME Believes(t, x), ~Announces(m, x) PROVE Believes(s, x) /\ ~Retracts(m, x)
  <2>1. PICK i \in 1..Len(t) : /\ Announces(t[i], x)
                               /\ \A j \in (i + 1)..Len(t) : ~Retracts(t[j], x)
    BY <1>4 DEF Believes
  <2>2. i \in 1..Len(s) /\ Announces(s[i], x)
    BY <1>1, <1>4, <2>1
  <2>3. \A j \in (i + 1)..Len(s) : j \in (i + 1)..Len(t) /\ t[j] = s[j]
    BY <1>1, <2>2
  <2>4. Len(t) \in (i + 1)..Len(t) /\ t[Len(t)] = m
    BY <1>1, <2>2
  <2> QED  BY <2>1, <2>2, <2>3, <2>4 DEF Believes
<1> QED  BY <1>2, <1>3, <1>4 DEF t

\* The first messages of a sequence.
IsPrefix(s, t) == Len(s) <= Len(t) /\ \A i \in 1..Len(s) : s[i] = t[i]

\* They are what SubSeq gives.
LEMMA PrefixIsSubSeq ==
  ASSUME NEW s \in Seq(Message), NEW t \in Seq(Message), IsPrefix(s, t)
  PROVE  SubSeq(t, 1, Len(s)) = s
<1>1. Len(s) \in Nat /\ Len(t) \in Nat /\ s = [i \in 1..Len(s) |-> s[i]]
  OBVIOUS
<1>2. SubSeq(t, 1, Len(s)) = [i \in 1..Len(s) |-> t[i]]
  BY <1>1 DEF IsPrefix
<1> QED  BY <1>1, <1>2 DEF IsPrefix

\* A client that has read all that says anything about x believes of x what the
\* whole channel amounts to.
LEMMA BelievesPrefix ==
  ASSUME NEW s \in Seq(Message), NEW t \in Seq(Message), IsPrefix(s, t), NEW x,
         \A i \in (Len(s) + 1)..Len(t) : ~Announces(t[i], x) /\ ~Retracts(t[i], x)
  PROVE  Believes(s, x) <=> Believes(t, x)
<1>0. Len(s) \in Nat /\ Len(t) \in Nat
  OBVIOUS
<1>1. \A i \in 1..Len(s) : i \in 1..Len(t) /\ s[i] = t[i]
  BY <1>0 DEF IsPrefix
<1>2. ASSUME Believes(s, x) PROVE Believes(t, x)
  <2>1. PICK i \in 1..Len(s) : /\ Announces(s[i], x)
                               /\ \A j \in (i + 1)..Len(s) : ~Retracts(s[j], x)
    BY <1>2 DEF Believes
  <2>2. ASSUME NEW j \in (i + 1)..Len(t) PROVE ~Retracts(t[j], x)
    <3>1. CASE j \in (i + 1)..Len(s)
      BY <1>0, <1>1, <2>1, <3>1
    <3>2. CASE j \in (Len(s) + 1)..Len(t)
      BY <3>2
    <3> QED  BY <1>0, <3>1, <3>2
  <2> QED  BY <1>1, <2>1, <2>2 DEF Believes
<1>3. ASSUME Believes(t, x) PROVE Believes(s, x)
  <2>1. PICK i \in 1..Len(t) : /\ Announces(t[i], x)
                               /\ \A j \in (i + 1)..Len(t) : ~Retracts(t[j], x)
    BY <1>3 DEF Believes
  <2>2. i \in 1..Len(s)
    BY <1>0, <2>1
  <2>3. \A j \in (i + 1)..Len(s) : j \in 1..Len(s) /\ j \in (i + 1)..Len(t)
    BY <1>0, <2>2 DEF IsPrefix
  <2> QED  BY <1>1, <2>1, <2>2, <2>3 DEF Believes
<1> QED  BY <1>2, <1>3
=============================================================================
