-------------------------- MODULE SequentialProofs --------------------------
(***************************************************************************)
(* Proofs about the programs of SequentialPrograms: about DoubleList for   *)
(* any set of addresses and of values, about Sorts for any array of        *)
(* integers, about LockDial for any wheels and digits, and about Windows   *)
(* for any strings.                                                        *)
(***************************************************************************)
EXTENDS DoubleList, Sorts, LockDial, Windows, SequenceTheorems, FunctionTheorems, FiniteSetTheorems, TLAPS

ListInv == TypeOK /\ Linked /\ NoLeakNoDangling

(* The three ways order changes, element by element. *)
LEMMA ConsElements ==
    ASSUME NEW S, NEW s \in Seq(S), NEW n \in S
    PROVE  /\ <<n>> \o s \in Seq(S)
           /\ Len(<<n>> \o s) = Len(s) + 1
           /\ (<<n>> \o s)[1] = n
           /\ \A i \in 1..Len(s) : (<<n>> \o s)[i + 1] = s[i]
OBVIOUS

(* A sequence without its first element. *)
LEMMA TailElements ==
    ASSUME NEW S, NEW s \in Seq(S), s # <<>>
    PROVE  /\ Tail(s) \in Seq(S)
           /\ Len(Tail(s)) = Len(s) - 1
           /\ \A i \in 1..Len(s) - 1 : Tail(s)[i] = s[i + 1]
OBVIOUS

(* A sequence without its last element. *)
LEMMA FrontElements ==
    ASSUME NEW S, NEW s \in Seq(S), s # <<>>
    PROVE  /\ SubSeq(s, 1, Len(s) - 1) \in Seq(S)
           /\ Len(SubSeq(s, 1, Len(s) - 1)) = Len(s) - 1
           /\ \A i \in 1..Len(s) - 1 : SubSeq(s, 1, Len(s) - 1)[i] = s[i]
<1> DEFINE k == Len(s) - 1
<1>1. k \in Nat /\ \A i \in 1..k : s[i] \in S
  OBVIOUS
<1> HIDE DEF k
<1>2. /\ SubSeq(s, 1, k) \in Seq(S)
      /\ Len(SubSeq(s, 1, k)) = IF 1 <= k THEN k - 1 + 1 ELSE 0
      /\ \A i \in 1..k - 1 + 1 : SubSeq(s, 1, k)[i] = s[1 + i - 1]
  BY <1>1, SubSeqProperties
<1>3. Len(SubSeq(s, 1, k)) = k
  BY <1>1, <1>2
<1>4. ASSUME NEW i \in 1..k PROVE SubSeq(s, 1, k)[i] = s[i]
  <2>1. i \in 1..k - 1 + 1 /\ 1 + i - 1 = i
    BY <1>1
  <2> QED
    BY <1>2, <2>1
<1> QED
  BY <1>2, <1>3, <1>4 DEF k

(* A sequence with one element more at its end. *)
LEMMA AppendElements ==
    ASSUME NEW S, NEW s \in Seq(S), NEW n \in S
    PROVE  /\ Append(s, n) \in Seq(S)
           /\ Len(Append(s, n)) = Len(s) + 1
           /\ Append(s, n)[Len(s) + 1] = n
           /\ \A i \in 1..Len(s) : Append(s, n)[i] = s[i]
OBVIOUS

(* A new list has no node. *)
LEMMA ListInvInit == Init => ListInv
BY DEF Init, ListInv, TypeOK, Linked, NoLeakNoDangling

(* With order[1..k] the list, the two branches of an operation are those of  *)
(* an empty or one-node list and of a longer one.                            *)
LEMMA AddToHeadKeeps ==
    ASSUME ListInv, NEW n \in Node, NEW v \in Value, add_to_head(n, v)
    PROVE  ListInv'
<1> DEFINE k == Len(order)
<1> USE NullAssumption
<1>1. /\ order \in Seq(Node) /\ k \in Nat /\ n \notin live
      /\ \A i \in 1..k : order[i] \in live /\ order[i] \in Node /\ order[i] # n
  <2>1. order \in Seq(Node) /\ live \in SUBSET Node
    BY DEF ListInv, TypeOK
  <2>2. live = {order[i] : i \in 1..k}
    BY DEF ListInv, NoLeakNoDangling
  <2>3. n \notin live
    BY DEF add_to_head, New
  <2> QED
    BY <2>1, <2>2, <2>3
<1>2. /\ order' \in Seq(Node) /\ Len(order') = k + 1 /\ order'[1] = n
      /\ \A i \in 1..k : order'[i + 1] = order[i]
  BY <1>1, ConsElements DEF add_to_head
<1>3. \A i \in 2..k + 1 : order'[i] = order[i - 1] /\ i - 1 \in 1..k
  <2> SUFFICES ASSUME NEW i \in 2..k + 1 PROVE order'[i] = order[i - 1] /\ i - 1 \in 1..k
    OBVIOUS
  <2>1. i - 1 \in 1..k /\ (i - 1) + 1 = i
    BY <1>1
  <2> QED
    BY <1>2, <2>1
<1>4. TypeOK'
  <2>1. live' \in SUBSET Node /\ value' \in [Node -> Value]
    BY DEF ListInv, TypeOK, add_to_head, New
  <2>2. head' \in Node \cup {Null} /\ tail' \in Node \cup {Null}
    BY DEF ListInv, TypeOK, add_to_head, AddFirst
  <2>3. pre' \in [Node -> Node \cup {Null}]
    <3>1. CASE head = Null
      BY <3>1 DEF ListInv, TypeOK, add_to_head, AddFirst
    <3>2. CASE head # Null
      BY <3>2 DEF ListInv, TypeOK, add_to_head
    <3> QED
      BY <3>1, <3>2
  <2>4. next' \in [Node -> Node \cup {Null}]
    <3>1. CASE head = Null
      BY <3>1 DEF ListInv, TypeOK, add_to_head, AddFirst
    <3>2. CASE head # Null
      BY <3>2 DEF ListInv, TypeOK, add_to_head
    <3> QED
      BY <3>1, <3>2
  <2> QED
    BY <1>2, <2>1, <2>2, <2>3, <2>4 DEF TypeOK
<1>5. NoLeakNoDangling'
  <2>1. live' = live \cup {n}
    BY DEF add_to_head, New
  <2>2. live = {order[i] : i \in 1..k}
    BY DEF ListInv, NoLeakNoDangling
  <2>3. {order'[i] : i \in 1..k + 1} = {n} \cup {order[i] : i \in 1..k}
    <3>1. 1 \in 1..k + 1 /\ (\A i \in 1..k : i + 1 \in 1..k + 1) /\ \A i \in 1..k + 1 : i = 1 \/ i \in 2..k + 1
      BY <1>1
    <3>2. \A i \in 1..k + 1 : order'[i] \in {n} \cup {order[j] : j \in 1..k}
      BY <1>2, <1>3, <3>1
    <3>3. \A i \in 1..k : order[i] = order'[i + 1]
      BY <1>2
    <3> QED
      BY <1>2, <3>1, <3>2, <3>3
  <2>4. ASSUME NEW i \in 1..k + 1, NEW j \in 1..k + 1, order'[i] = order'[j]
        PROVE  i = j
    <3>1. \A a, b \in 1..k : order[a] = order[b] => a = b
      BY DEF ListInv, NoLeakNoDangling
    <3>2. CASE i = 1 /\ j = 1
      BY <3>2
    <3>3. CASE i = 1 /\ j # 1
      <4>1. j \in 2..k + 1
        BY <3>3, <1>1
      <4> QED
        BY <3>3, <4>1, <1>1, <1>2, <1>3, <2>4
    <3>4. CASE i # 1 /\ j = 1
      <4>1. i \in 2..k + 1
        BY <3>4, <1>1
      <4> QED
        BY <3>4, <4>1, <1>1, <1>2, <1>3, <2>4
    <3>5. CASE i # 1 /\ j # 1
      <4>1. i \in 2..k + 1 /\ j \in 2..k + 1
        BY <3>5, <1>1
      <4>2. order[i - 1] = order[j - 1] /\ i - 1 \in 1..k /\ j - 1 \in 1..k
        BY <4>1, <1>3, <2>4
      <4> QED
        BY <4>1, <4>2, <3>1
    <3> QED
      BY <3>2, <3>3, <3>4, <3>5
  <2> QED
    BY <1>2, <2>1, <2>2, <2>3, <2>4 DEF NoLeakNoDangling
<1>6. Linked'
  <2>1. CASE k = 0
    BY <2>1, <1>1, <1>2 DEF ListInv, TypeOK, Linked, add_to_head, AddFirst
  <2>2. CASE k # 0
    <3>1. /\ head = order[1] /\ tail = order[k] /\ head \in Node /\ head # n
          /\ next' = [next EXCEPT ![n] = head]
          /\ pre' = [pre EXCEPT ![n] = Null, ![head] = n]
          /\ head' = n /\ tail' = tail
      BY <2>2, <1>1 DEF ListInv, TypeOK, Linked, add_to_head
    <3>2. head' = order'[1] /\ tail' = order'[k + 1]
      BY <3>1, <2>2, <1>1, <1>2
    <3>3. next'[order'[1]] = order'[2] /\ pre'[order'[1]] = Null
      BY <3>1, <2>2, <1>1, <1>2 DEF ListInv, TypeOK
    <3>4. ASSUME NEW i \in 2..k + 1
          PROVE  /\ next'[order'[i]] = IF i = k + 1 THEN Null ELSE order'[i + 1]
                 /\ pre'[order'[i]] = order'[i - 1]
      <4> DEFINE j == i - 1
      <4>1. /\ j \in 1..k /\ order'[i] = order[j] /\ order[j] \in Node /\ order[j] # n
            /\ i = j + 1
        BY <1>1, <1>3
      <4>2. /\ next[order[j]] = IF j = k THEN Null ELSE order[j + 1]
            /\ pre[order[j]] = IF j = 1 THEN Null ELSE order[j - 1]
        BY <4>1 DEF ListInv, Linked
      <4>3. next'[order[j]] = next[order[j]]
        BY <3>1, <4>1 DEF ListInv, TypeOK
      <4>4. j # k => order'[i + 1] = order[j + 1]
        BY <4>1, <1>1, <1>2
      <4>5. CASE j = 1
        BY <4>1, <4>2, <4>3, <4>4, <4>5, <3>1, <1>2 DEF ListInv, TypeOK
      <4>6. CASE j # 1
        <5>1. order[j] # head
          BY <4>1, <4>6, <3>1, <2>2, <1>1 DEF ListInv, NoLeakNoDangling
        <5>2. pre'[order[j]] = pre[order[j]]
          BY <5>1, <3>1, <4>1 DEF ListInv, TypeOK
        <5>3. order'[i - 1] = order[j - 1]
          BY <4>1, <4>6, <1>1, <1>3
        <5> QED
          BY <4>1, <4>2, <4>3, <4>4, <4>6, <5>2, <5>3
      <4> QED
        BY <4>5, <4>6
    <3> QED
      <4> DEFINE len == Len(order')
      <4>1. len = k + 1 /\ len # 0
        BY <2>2, <1>1, <1>2
      <4>2. head' = order'[1] /\ tail' = order'[len]
        BY <3>2, <4>1
      <4>3. \A i \in 1..len :
              /\ next'[order'[i]] = IF i = len THEN Null ELSE order'[i + 1]
              /\ pre'[order'[i]] = IF i = 1 THEN Null ELSE order'[i - 1]
        <5>1. ASSUME NEW i \in 1..k + 1
              PROVE  /\ next'[order'[i]] = IF i = k + 1 THEN Null ELSE order'[i + 1]
                     /\ pre'[order'[i]] = IF i = 1 THEN Null ELSE order'[i - 1]
          <6>1. CASE i = 1
            BY <6>1, <3>3, <2>2, <1>1
          <6>2. CASE i # 1
            <7>1. i \in 2..k + 1
              BY <6>2, <1>1
            <7> QED
              BY <6>2, <7>1, <3>4, <1>1
          <6> QED
            BY <6>1, <6>2
        <5> QED
          BY <5>1, <4>1
      <4> QED
        BY <4>1, <4>2, <4>3 DEF Linked
  <2> QED
    BY <2>1, <2>2
<1> QED
  BY <1>4, <1>5, <1>6 DEF ListInv

(* add_to_tail links the new node behind the old tail, in both directions. *)
LEMMA AddToTailKeeps ==
    ASSUME ListInv, NEW n \in Node, NEW v \in Value, add_to_tail(n, v)
    PROVE  ListInv'
<1> DEFINE k == Len(order)
<1> USE NullAssumption
<1>1. /\ order \in Seq(Node) /\ k \in Nat /\ n \notin live
      /\ \A i \in 1..k : order[i] \in live /\ order[i] \in Node /\ order[i] # n
  <2>1. order \in Seq(Node) /\ live \in SUBSET Node
    BY DEF ListInv, TypeOK
  <2>2. live = {order[i] : i \in 1..k}
    BY DEF ListInv, NoLeakNoDangling
  <2>3. n \notin live
    BY DEF add_to_tail, New
  <2> QED
    BY <2>1, <2>2, <2>3
<1>2. /\ order' \in Seq(Node) /\ Len(order') = k + 1 /\ order'[k + 1] = n
      /\ \A i \in 1..k : order'[i] = order[i]
  BY <1>1, AppendElements DEF add_to_tail
<1>3. TypeOK'
  <2>1. live' \in SUBSET Node /\ value' \in [Node -> Value]
    BY DEF ListInv, TypeOK, add_to_tail, New
  <2>2. head' \in Node \cup {Null} /\ tail' \in Node \cup {Null}
    BY DEF ListInv, TypeOK, add_to_tail, AddFirst
  <2>3. pre' \in [Node -> Node \cup {Null}]
    <3>1. CASE tail = Null
      BY <3>1 DEF ListInv, TypeOK, add_to_tail, AddFirst
    <3>2. CASE tail # Null
      BY <3>2 DEF ListInv, TypeOK, add_to_tail
    <3> QED
      BY <3>1, <3>2
  <2>4. next' \in [Node -> Node \cup {Null}]
    <3>1. CASE tail = Null
      BY <3>1 DEF ListInv, TypeOK, add_to_tail, AddFirst
    <3>2. CASE tail # Null
      BY <3>2 DEF ListInv, TypeOK, add_to_tail
    <3> QED
      BY <3>1, <3>2
  <2> QED
    BY <1>2, <2>1, <2>2, <2>3, <2>4 DEF TypeOK
<1>4. NoLeakNoDangling'
  <2>1. live' = live \cup {n} /\ live = {order[i] : i \in 1..k}
    BY DEF add_to_tail, New, ListInv, NoLeakNoDangling
  <2>2. {order'[i] : i \in 1..k + 1} = {n} \cup {order[i] : i \in 1..k}
    BY <1>1, <1>2
  <2>3. ASSUME NEW i \in 1..k + 1, NEW j \in 1..k + 1, order'[i] = order'[j]
        PROVE  i = j
    <3>1. \A a, b \in 1..k : order[a] = order[b] => a = b
      BY DEF ListInv, NoLeakNoDangling
    <3> QED
      BY <3>1, <1>1, <1>2, <2>3
  <2> QED
    BY <1>2, <2>1, <2>2, <2>3 DEF NoLeakNoDangling
<1>5. Linked'
  <2>1. CASE k = 0
    BY <2>1, <1>1, <1>2 DEF ListInv, TypeOK, Linked, add_to_tail, AddFirst
  <2>2. CASE k # 0
    <3>1. /\ head = order[1] /\ tail = order[k] /\ tail \in Node /\ tail # n
          /\ next' = [next EXCEPT ![n] = Null, ![tail] = n]
          /\ pre' = [pre EXCEPT ![n] = tail]
          /\ tail' = n /\ head' = head
      BY <2>2, <1>1 DEF ListInv, TypeOK, Linked, add_to_tail
    <3>2. head' = order'[1] /\ tail' = order'[k + 1]
      BY <3>1, <2>2, <1>1, <1>2
    <3>3. next'[order'[k + 1]] = Null /\ pre'[order'[k + 1]] = order'[k]
      BY <3>1, <2>2, <1>1, <1>2 DEF ListInv, TypeOK
    <3>4. ASSUME NEW i \in 1..k
          PROVE  /\ next'[order'[i]] = order'[i + 1]
                 /\ pre'[order'[i]] = IF i = 1 THEN Null ELSE order'[i - 1]
      <4>1. /\ next[order[i]] = IF i = k THEN Null ELSE order[i + 1]
            /\ pre[order[i]] = IF i = 1 THEN Null ELSE order[i - 1]
        BY DEF ListInv, Linked
      <4>2. pre'[order[i]] = pre[order[i]]
        BY <3>1, <1>1 DEF ListInv, TypeOK
      <4>3. pre'[order'[i]] = IF i = 1 THEN Null ELSE order'[i - 1]
        BY <4>1, <4>2, <1>1, <1>2
      <4>4. CASE i = k
        <5>1. order'[i] = tail /\ order'[i + 1] = n
          BY <4>4, <3>1, <1>1, <1>2
        <5>2. next'[tail] = n
          BY <3>1 DEF ListInv, TypeOK
        <5> QED
          BY <4>3, <5>1, <5>2
      <4>5. CASE i # k
        <5>1. order[i] # tail
          BY <4>5, <3>1, <2>2, <1>1 DEF ListInv, NoLeakNoDangling
        <5>2. next'[order[i]] = next[order[i]]
          BY <5>1, <3>1, <1>1 DEF ListInv, TypeOK
        <5>3. i + 1 \in 1..k /\ order'[i] = order[i] /\ order'[i + 1] = order[i + 1]
          BY <4>5, <1>1, <1>2
        <5> QED
          BY <4>1, <4>3, <4>5, <5>2, <5>3
      <4> QED
        BY <4>3, <4>4, <4>5, <1>1, <1>2
    <3> QED
      <4> DEFINE len == Len(order')
      <4>1. len = k + 1 /\ len # 0
        BY <2>2, <1>1, <1>2
      <4>2. head' = order'[1] /\ tail' = order'[len]
        BY <3>2, <4>1
      <4>3. \A i \in 1..len :
              /\ next'[order'[i]] = IF i = len THEN Null ELSE order'[i + 1]
              /\ pre'[order'[i]] = IF i = 1 THEN Null ELSE order'[i - 1]
        <5>1. ASSUME NEW i \in 1..k + 1
              PROVE  /\ next'[order'[i]] = IF i = k + 1 THEN Null ELSE order'[i + 1]
                     /\ pre'[order'[i]] = IF i = 1 THEN Null ELSE order'[i - 1]
          <6>1. CASE i = k + 1
            BY <6>1, <3>3, <2>2, <1>1
          <6>2. CASE i # k + 1
            <7>1. i \in 1..k
              BY <6>2, <1>1
            <7> QED
              BY <6>2, <7>1, <3>4, <1>1
          <6> QED
            BY <6>1, <6>2
        <5> QED
          BY <5>1, <4>1
      <4> QED
        BY <4>1, <4>2, <4>3 DEF Linked
  <2> QED
    BY <2>1, <2>2
<1> QED
  BY <1>3, <1>4, <1>5 DEF ListInv

(* Only a one-node list has equal ends. *)
LEMMA OneNode ==
    ASSUME ListInv, Len(order) # 0
    PROVE  /\ head = order[1] /\ tail = order[Len(order)] /\ head \in Node /\ tail \in Node
           /\ head = tail <=> Len(order) = 1
<1> DEFINE k == Len(order)
<1>1. k \in Nat \ {0} /\ \A i \in 1..k : order[i] \in Node
  BY DEF ListInv, TypeOK
<1>2. head = order[1] /\ tail = order[k]
  BY DEF ListInv, Linked
<1>3. order[1] = order[k] => 1 = k
  <2>1. \A i, j \in 1..k : order[i] = order[j] => i = j
    BY DEF ListInv, NoLeakNoDangling
  <2>2. 1 \in 1..k /\ k \in 1..k
    BY <1>1
  <2> HIDE DEF k
  <2> QED
    BY <2>1, <2>2
<1> QED
  BY <1>1, <1>2, <1>3

(* del_from_head moves the head on, or empties both pointers at the last node. *)
LEMMA DelFromHeadKeeps == ListInv /\ del_from_head => ListInv'
<1> SUFFICES ASSUME ListInv, del_from_head PROVE ListInv'
  OBVIOUS
<1> DEFINE k == Len(order)
<1> USE NullAssumption
<1>1. /\ order \in Seq(Node) /\ k \in Nat \ {0} /\ order # <<>>
      /\ \A i \in 1..k : order[i] \in Node
      /\ \A i, j \in 1..k : order[i] = order[j] => i = j
  BY DEF ListInv, TypeOK, Linked, NoLeakNoDangling, del_from_head
<1>2. /\ order' \in Seq(Node) /\ Len(order') = k - 1
      /\ \A i \in 1..k - 1 : order'[i] = order[i + 1]
  BY <1>1, TailElements DEF del_from_head
<1>3. /\ head = order[1] /\ tail = order[k] /\ head \in Node /\ tail \in Node
      /\ head = tail <=> k = 1
  BY <1>1, OneNode
<1>4. k # 1 => next[head] = order[2] /\ next[head] \in Node
  BY <1>1, <1>3 DEF ListInv, Linked
<1>5. TypeOK'
  <2>1. live' \in SUBSET Node /\ value' \in [Node -> Value]
    BY DEF ListInv, TypeOK, del_from_head
  <2>2. head' \in Node \cup {Null} /\ tail' \in Node \cup {Null}
    BY <1>3, <1>4 DEF ListInv, TypeOK, del_from_head, DelOnly
  <2>3. pre' \in [Node -> Node \cup {Null}] /\ next' \in [Node -> Node \cup {Null}]
    BY DEF ListInv, TypeOK, del_from_head, DelOnly
  <2> QED
    BY <1>2, <2>1, <2>2, <2>3 DEF TypeOK
<1>6. NoLeakNoDangling'
  <2>1. live' = live \ {order[1]} /\ live = {order[i] : i \in 1..k}
    BY <1>3 DEF del_from_head, ListInv, NoLeakNoDangling
  <2>2. \A i \in 1..k : i # 1 => i - 1 \in 1..k - 1 /\ (i - 1) + 1 = i
    BY <1>1
  <2>3. {order'[i] : i \in 1..k - 1} = {order[i] : i \in 1..k} \ {order[1]}
    <3>1. ASSUME NEW i \in 1..k - 1
          PROVE  order'[i] \in {order[a] : a \in 1..k} \ {order[1]}
      <4>1. i + 1 \in 1..k /\ i + 1 # 1 /\ 1 \in 1..k
        BY <1>1
      <4> QED
        BY <4>1, <1>1, <1>2
    <3>2. ASSUME NEW i \in 1..k, order[i] # order[1]
          PROVE  order[i] \in {order'[a] : a \in 1..k - 1}
      <4>1. i # 1
        BY <3>2
      <4>2. order'[i - 1] = order[i] /\ i - 1 \in 1..k - 1
        BY <4>1, <2>2, <1>2
      <4> QED
        BY <4>2
    <3> QED
      BY <3>1, <3>2
  <2>4. ASSUME NEW i \in 1..k - 1, NEW j \in 1..k - 1, order'[i] = order'[j]
        PROVE  i = j
    <3>1. i + 1 \in 1..k /\ j + 1 \in 1..k /\ order[i + 1] = order[j + 1]
      BY <2>4, <1>1, <1>2
    <3>2. i + 1 = j + 1
      BY <3>1, <1>1
    <3> QED
      BY <3>2, <1>1
  <2> QED
    BY <1>2, <2>1, <2>3, <2>4 DEF NoLeakNoDangling
<1>7. Linked'
  <2>1. CASE k = 1
    BY <2>1, <1>1, <1>2, <1>3 DEF Linked, del_from_head, DelOnly
  <2>2. CASE k # 1
    <3>1. /\ head' = order[2] /\ tail' = tail /\ next' = next
          /\ pre' = [pre EXCEPT ![order[2]] = Null] /\ 2 \in 1..k
      BY <2>2, <1>1, <1>3, <1>4 DEF del_from_head, DelOnly
    <3>2. head' = order'[1] /\ tail' = order'[k - 1]
      BY <3>1, <1>1, <1>2, <1>3
    <3>3. ASSUME NEW i \in 1..k - 1
          PROVE  /\ next'[order'[i]] = IF i = k - 1 THEN Null ELSE order'[i + 1]
                 /\ pre'[order'[i]] = IF i = 1 THEN Null ELSE order'[i - 1]
      <4> DEFINE j == i + 1
      <4>1. /\ j \in 1..k /\ order'[i] = order[j] /\ order[j] \in Node
            /\ next[order[j]] = IF j = k THEN Null ELSE order[j + 1]
            /\ pre[order[j]] = IF j = 1 THEN Null ELSE order[j - 1]
        BY <1>1, <1>2 DEF ListInv, Linked
      <4>2. i # k - 1 => order'[i + 1] = order[j + 1] /\ j # k
        BY <1>1, <1>2
      <4>3. i # 1 => order'[i - 1] = order[j - 1] /\ order[j] # order[2]
        BY <4>1, <3>1, <1>1, <1>2
      <4>4. pre'[order[j]] = IF order[j] = order[2] THEN Null ELSE pre[order[j]]
        BY <4>1, <3>1 DEF ListInv, TypeOK
      <4>5. next'[order'[i]] = IF i = k - 1 THEN Null ELSE order'[i + 1]
        BY <4>1, <4>2, <3>1, <1>1
      <4>6. pre'[order'[i]] = IF i = 1 THEN Null ELSE order'[i - 1]
        BY <4>1, <4>3, <4>4, <1>1
      <4> QED
        BY <4>5, <4>6
    <3> QED
      <4> DEFINE len == Len(order')
      <4>1. len = k - 1 /\ len # 0
        BY <2>2, <1>1, <1>2
      <4>2. head' = order'[1] /\ tail' = order'[len]
        BY <3>2, <4>1
      <4>3. \A i \in 1..len :
              /\ next'[order'[i]] = IF i = len THEN Null ELSE order'[i + 1]
              /\ pre'[order'[i]] = IF i = 1 THEN Null ELSE order'[i - 1]
        BY <3>3, <4>1
      <4> QED
        BY <4>1, <4>2, <4>3 DEF Linked
  <2> QED
    BY <2>1, <2>2
<1> QED
  BY <1>5, <1>6, <1>7 DEF ListInv

(* del_from_tail moves the tail back, or empties both pointers at the last node. *)
LEMMA DelFromTailKeeps == ListInv /\ del_from_tail => ListInv'
<1> SUFFICES ASSUME ListInv, del_from_tail PROVE ListInv'
  OBVIOUS
<1> DEFINE k == Len(order)
<1> USE NullAssumption
<1>1. /\ order \in Seq(Node) /\ k \in Nat \ {0} /\ order # <<>>
      /\ \A i \in 1..k : order[i] \in Node
      /\ \A i, j \in 1..k : order[i] = order[j] => i = j
  BY DEF ListInv, TypeOK, Linked, NoLeakNoDangling, del_from_tail
<1>2. /\ order' \in Seq(Node) /\ Len(order') = k - 1
      /\ \A i \in 1..k - 1 : order'[i] = order[i]
  BY <1>1, FrontElements DEF del_from_tail
<1>3. /\ head = order[1] /\ tail = order[k] /\ head \in Node /\ tail \in Node
      /\ head = tail <=> k = 1
  BY <1>1, OneNode
<1>4. k # 1 => pre[tail] = order[k - 1] /\ pre[tail] \in Node
  BY <1>1, <1>3 DEF ListInv, Linked
<1>5. TypeOK'
  <2>1. live' \in SUBSET Node /\ value' \in [Node -> Value]
    BY DEF ListInv, TypeOK, del_from_tail
  <2>2. head' \in Node \cup {Null} /\ tail' \in Node \cup {Null}
    BY <1>3, <1>4 DEF ListInv, TypeOK, del_from_tail, DelOnly
  <2>3. pre' \in [Node -> Node \cup {Null}] /\ next' \in [Node -> Node \cup {Null}]
    BY DEF ListInv, TypeOK, del_from_tail, DelOnly
  <2> QED
    BY <1>2, <2>1, <2>2, <2>3 DEF TypeOK
<1>6. NoLeakNoDangling'
  <2>1. live' = live \ {order[k]} /\ live = {order[i] : i \in 1..k}
    BY <1>3 DEF del_from_tail, ListInv, NoLeakNoDangling
  <2>2. {order'[i] : i \in 1..k - 1} = {order[i] : i \in 1..k} \ {order[k]}
    <3>1. ASSUME NEW i \in 1..k - 1
          PROVE  order'[i] \in {order[a] : a \in 1..k} \ {order[k]}
      BY <1>1, <1>2
    <3>2. ASSUME NEW i \in 1..k, order[i] # order[k]
          PROVE  order[i] \in {order'[a] : a \in 1..k - 1}
      <4>1. i \in 1..k - 1
        BY <3>2, <1>1
      <4> QED
        BY <4>1, <1>2
    <3> QED
      BY <3>1, <3>2
  <2>3. ASSUME NEW i \in 1..k - 1, NEW j \in 1..k - 1, order'[i] = order'[j]
        PROVE  i = j
    BY <2>3, <1>1, <1>2
  <2> QED
    BY <1>2, <2>1, <2>2, <2>3 DEF NoLeakNoDangling
<1>7. Linked'
  <2>1. CASE k = 1
    BY <2>1, <1>1, <1>2, <1>3 DEF Linked, del_from_tail, DelOnly
  <2>2. CASE k # 1
    <3>1. /\ tail' = order[k - 1] /\ head' = head /\ pre' = pre
          /\ next' = [next EXCEPT ![order[k - 1]] = Null] /\ k - 1 \in 1..k
      BY <2>2, <1>1, <1>3, <1>4 DEF del_from_tail, DelOnly
    <3>2. head' = order'[1] /\ tail' = order'[k - 1]
      BY <3>1, <2>2, <1>1, <1>2, <1>3
    <3>3. ASSUME NEW i \in 1..k - 1
          PROVE  /\ next'[order'[i]] = IF i = k - 1 THEN Null ELSE order'[i + 1]
                 /\ pre'[order'[i]] = IF i = 1 THEN Null ELSE order'[i - 1]
      <4>1. /\ i \in 1..k /\ i # k /\ order'[i] = order[i] /\ order[i] \in Node
            /\ next[order[i]] = order[i + 1]
            /\ pre[order[i]] = IF i = 1 THEN Null ELSE order[i - 1]
        BY <1>1, <1>2 DEF ListInv, Linked
      <4>2. i # k - 1 => order'[i + 1] = order[i + 1] /\ order[i] # order[k - 1]
        BY <4>1, <3>1, <1>1, <1>2
      <4>3. i # 1 => order'[i - 1] = order[i - 1]
        BY <1>1, <1>2
      <4>4. next'[order[i]] = IF order[i] = order[k - 1] THEN Null ELSE next[order[i]]
        BY <4>1, <3>1 DEF ListInv, TypeOK
      <4>5. next'[order'[i]] = IF i = k - 1 THEN Null ELSE order'[i + 1]
        BY <4>1, <4>2, <4>4
      <4>6. pre'[order'[i]] = IF i = 1 THEN Null ELSE order'[i - 1]
        BY <4>1, <4>3, <3>1
      <4> QED
        BY <4>5, <4>6
    <3> QED
      <4> DEFINE len == Len(order')
      <4>1. len = k - 1 /\ len # 0
        BY <2>2, <1>1, <1>2
      <4>2. head' = order'[1] /\ tail' = order'[len]
        BY <3>2, <4>1
      <4>3. \A i \in 1..len :
              /\ next'[order'[i]] = IF i = len THEN Null ELSE order'[i + 1]
              /\ pre'[order'[i]] = IF i = 1 THEN Null ELSE order'[i - 1]
        BY <3>3, <4>1
      <4> QED
        BY <4>1, <4>2, <4>3 DEF Linked
  <2> QED
    BY <2>1, <2>2
<1> QED
  BY <1>5, <1>6, <1>7 DEF ListInv

(* Every operation of the list, and a step without one, keeps the invariant. *)
LEMMA ListInvNext == ListInv /\ [Next]_vars => ListInv'
<1> SUFFICES ASSUME ListInv, [Next]_vars PROVE ListInv'
  OBVIOUS
<1>1. ASSUME NEW n \in Node, NEW v \in Value, add_to_head(n, v) PROVE ListInv'
  BY <1>1, AddToHeadKeeps
<1>2. ASSUME NEW n \in Node, NEW v \in Value, add_to_tail(n, v) PROVE ListInv'
  BY <1>2, AddToTailKeeps
<1>3. CASE del_from_head
  BY <1>3, DelFromHeadKeeps
<1>4. CASE del_from_tail
  BY <1>4, DelFromTailKeeps
<1>5. CASE UNCHANGED vars
  BY <1>5 DEF vars, ListInv, TypeOK, Linked, NoLeakNoDangling
<1> QED
  BY <1>1, <1>2, <1>3, <1>4, <1>5 DEF Next

(* Every variable keeps its type. *)
THEOREM TypeCorrect == Spec => []TypeOK
<1>1. ListInv => TypeOK
  BY DEF ListInv
<1> QED
  BY <1>1, ListInvInit, ListInvNext, PTL DEF Spec

(* After any sequence of operations the next and the pre pointers describe   *)
(* the same list, and it is the one the callers expect: dump_vor and         *)
(* dump_bak visit all nodes, in opposite orders, and stop.                   *)
THEOREM AlwaysLinked == Spec => []Linked
<1>1. ListInv => Linked
  BY DEF ListInv
<1> QED
  BY <1>1, ListInvInit, ListInvNext, PTL DEF Spec

(* DoubleList never leaks a node and never follows a pointer to a deleted    *)
(* one, whatever operations are called on it.                                *)
THEOREM MemorySafe == Spec => []NoLeakNoDangling
<1>1. ListInv => NoLeakNoDangling
  BY DEF ListInv
<1> QED
  BY <1>1, ListInvInit, ListInvNext, PTL DEF Spec

(* The values of a list, as a sequence. *)
LEMMA ContentSeq ==
    ASSUME ListInv
    PROVE  /\ Content \in Seq(Value)
           /\ Len(Content) = Len(order)
           /\ \A i \in 1..Len(order) : Content[i] = value[order[i]]
<1>1. Len(order) \in Nat /\ \A i \in 1..Len(order) : value[order[i]] \in Value
  BY DEF ListInv, TypeOK
<1> DEFINE k == Len(order)
           e(i) == value[order[i]]
<1>2. [i \in 1..k |-> e(i)] \in Seq(Value)
  <2> HIDE DEF e, k
  <2>1. k \in Nat /\ \A i \in 1..k : e(i) \in Value
    BY <1>1 DEF e, k
  <2> QED
    BY <2>1
<1> QED
  BY <1>1, <1>2 DEF Content

(* No operation changes the value of a node that is and stays in the list. *)
LEMMA ContentSeqNext ==
    ASSUME ListInv'
    PROVE  /\ Content' \in Seq(Value)
           /\ Len(Content') = Len(order')
           /\ \A i \in 1..Len(order') : Content'[i] = value'[order'[i]]
<1>1. Len(order') \in Nat /\ \A i \in 1..Len(order') : value'[order'[i]] \in Value
  BY DEF ListInv, TypeOK
<1> DEFINE k == Len(order')
           e(i) == value'[order'[i]]
<1>2. [i \in 1..k |-> e(i)] \in Seq(Value)
  <2> HIDE DEF e, k
  <2>1. k \in Nat /\ \A i \in 1..k : e(i) \in Value
    BY <1>1 DEF e, k
  <2> QED
    BY <2>1
<1> QED
  BY <1>1, <1>2 DEF Content

(* add_to_head puts the value in front of the abstract sequence. *)
LEMMA HeadStepImplements ==
    ASSUME ListInv, ListInv', NEW n \in Node, NEW v \in Value, add_to_head(n, v)
    PROVE  Content' = <<v>> \o Content
<1> DEFINE k == Len(order)
<1>1. /\ order \in Seq(Node) /\ k \in Nat
      /\ \A i \in 1..k : order[i] \in Node /\ order[i] # n
      /\ value' = [value EXCEPT ![n] = v] /\ value \in [Node -> Value]
  <2>1. order \in Seq(Node) /\ live \in SUBSET Node /\ value \in [Node -> Value]
    BY DEF ListInv, TypeOK
  <2>2. live = {order[i] : i \in 1..k}
    BY DEF ListInv, NoLeakNoDangling
  <2>3. n \notin live /\ value' = [value EXCEPT ![n] = v]
    BY DEF add_to_head, New
  <2> QED
    BY <2>1, <2>2, <2>3
<1>2. /\ order' = <<n>> \o order /\ Len(order') = k + 1 /\ order'[1] = n
      /\ \A i \in 1..k : order'[i + 1] = order[i]
  BY <1>1, ConsElements DEF add_to_head
<1>3. /\ <<v>> \o Content \in Seq(Value) /\ Len(<<v>> \o Content) = k + 1
      /\ (<<v>> \o Content)[1] = v
      /\ \A i \in 1..k : (<<v>> \o Content)[i + 1] = Content[i]
  BY ContentSeq, ConsElements
<1>4. \A i \in 1..k + 1 : i # 1 => i - 1 \in 1..k /\ (i - 1) + 1 = i
  BY <1>1
<1>5. ASSUME NEW i \in 1..k + 1 PROVE Content'[i] = (<<v>> \o Content)[i]
  <2>1. CASE i = 1
    BY <2>1, <1>1, <1>2, <1>3, ContentSeqNext
  <2>2. CASE i # 1
    BY <2>2, <1>1, <1>2, <1>3, <1>4, ContentSeq, ContentSeqNext
  <2> QED
    BY <2>1, <2>2
<1> QED
  BY <1>2, <1>3, <1>5, ContentSeqNext, SeqEqual

(* add_to_tail appends the value to the abstract sequence. *)
LEMMA TailStepImplements ==
    ASSUME ListInv, ListInv', NEW n \in Node, NEW v \in Value, add_to_tail(n, v)
    PROVE  Content' = Append(Content, v)
<1> DEFINE k == Len(order)
<1>1. /\ order \in Seq(Node) /\ k \in Nat
      /\ \A i \in 1..k : order[i] \in Node /\ order[i] # n
      /\ value' = [value EXCEPT ![n] = v] /\ value \in [Node -> Value]
  <2>1. order \in Seq(Node) /\ live \in SUBSET Node /\ value \in [Node -> Value]
    BY DEF ListInv, TypeOK
  <2>2. live = {order[i] : i \in 1..k}
    BY DEF ListInv, NoLeakNoDangling
  <2>3. n \notin live /\ value' = [value EXCEPT ![n] = v]
    BY DEF add_to_tail, New
  <2> QED
    BY <2>1, <2>2, <2>3
<1>2. /\ Len(order') = k + 1 /\ order'[k + 1] = n
      /\ \A i \in 1..k : order'[i] = order[i]
  BY <1>1, AppendElements DEF add_to_tail
<1>3. /\ Append(Content, v) \in Seq(Value) /\ Len(Append(Content, v)) = k + 1
      /\ Append(Content, v)[k + 1] = v
      /\ \A i \in 1..k : Append(Content, v)[i] = Content[i]
  BY ContentSeq, AppendElements
<1>4. ASSUME NEW i \in 1..k + 1 PROVE Content'[i] = Append(Content, v)[i]
  <2>1. CASE i = k + 1
    BY <2>1, <1>1, <1>2, <1>3, ContentSeqNext
  <2>2. CASE i # k + 1
    <3>1. i \in 1..k
      BY <2>2, <1>1
    <3> QED
      BY <3>1, <1>1, <1>2, <1>3, ContentSeq, ContentSeqNext
  <2> QED
    BY <2>1, <2>2
<1> QED
  BY <1>2, <1>3, <1>4, ContentSeqNext, SeqEqual

(* del_from_head takes the first value off the abstract sequence. *)
LEMMA DelHeadImplements ==
    ASSUME ListInv, ListInv', del_from_head
    PROVE  Content # <<>> /\ Content' = Tail(Content)
<1> DEFINE k == Len(order)
<1>1. /\ order \in Seq(Node) /\ k \in Nat \ {0} /\ order # <<>>
      /\ value' = value /\ order' = Tail(order)
  BY NullAssumption DEF ListInv, TypeOK, Linked, del_from_head
<1>2. /\ Len(order') = k - 1 /\ \A i \in 1..k - 1 : order'[i] = order[i + 1]
  BY <1>1, TailElements
<1>3. Content # <<>>
  BY <1>1, ContentSeq
<1>4. /\ Tail(Content) \in Seq(Value) /\ Len(Tail(Content)) = k - 1
      /\ \A i \in 1..k - 1 : Tail(Content)[i] = Content[i + 1]
  BY <1>3, ContentSeq, TailElements
<1>5. ASSUME NEW i \in 1..k - 1 PROVE Content'[i] = Tail(Content)[i]
  <2>1. i + 1 \in 1..k
    BY <1>1
  <2>2. Content'[i] = value[order[i + 1]]
    BY <1>1, <1>2, ContentSeqNext
  <2>3. Content[i + 1] = value[order[i + 1]]
    BY <2>1, ContentSeq
  <2> QED
    BY <2>2, <2>3, <1>4
<1> QED
  BY <1>2, <1>3, <1>4, <1>5, ContentSeqNext, SeqEqual

(* del_from_tail takes the last value off the abstract sequence. *)
LEMMA DelTailImplements ==
    ASSUME ListInv, ListInv', del_from_tail
    PROVE  Content # <<>> /\ Content' = SubSeq(Content, 1, Len(Content) - 1)
<1> DEFINE k == Len(order)
           s == SubSeq(Content, 1, Len(Content) - 1)
<1>1. /\ order \in Seq(Node) /\ k \in Nat \ {0} /\ order # <<>>
      /\ value' = value /\ order' = SubSeq(order, 1, k - 1)
  BY NullAssumption DEF ListInv, TypeOK, Linked, del_from_tail
<1>2. /\ Len(order') = k - 1 /\ \A i \in 1..k - 1 : order'[i] = order[i]
  BY <1>1, FrontElements
<1>3. Content # <<>>
  BY <1>1, ContentSeq
<1>4. /\ s \in Seq(Value) /\ Len(s) = k - 1
      /\ \A i \in 1..k - 1 : s[i] = Content[i]
  <2>1. Len(Content) = k
    BY ContentSeq
  <2> QED
    BY <2>1, <1>3, ContentSeq, FrontElements
<1>5. ASSUME NEW i \in 1..k - 1 PROVE Content'[i] = s[i]
  <2>1. i \in 1..k
    BY <1>1
  <2> QED
    BY <2>1, <1>1, <1>2, <1>4, ContentSeq, ContentSeqNext
<1> HIDE DEF s
<1>6. Content' = s
  BY <1>2, <1>4, <1>5, ContentSeqNext, SeqEqual
<1> QED
  BY <1>3, <1>6 DEF s

(* DoubleList implements a double-ended queue: what its callers see is a     *)
(* sequence of values that changes only at its ends, by the value they add.  *)
THEOREM ImplementsDeque == Spec => IsDeque
<1>1. Init => Abstract!Init
  BY DEF Init, Abstract!Init, Content
<1>2. ListInv /\ ListInv' /\ [Next]_vars => [Abstract!Next]_Content
  <2> SUFFICES ASSUME ListInv, ListInv', [Next]_vars PROVE [Abstract!Next]_Content
    OBVIOUS
  <2>1. ASSUME NEW n \in Node, NEW v \in Value, add_to_head(n, v) PROVE Abstract!Next
    BY <2>1, HeadStepImplements DEF Abstract!Next, Abstract!AddToHead
  <2>2. ASSUME NEW n \in Node, NEW v \in Value, add_to_tail(n, v) PROVE Abstract!Next
    BY <2>2, TailStepImplements DEF Abstract!Next, Abstract!AddToTail
  <2>3. CASE del_from_head
    BY <2>3, DelHeadImplements DEF Abstract!Next, Abstract!DelFromHead
  <2>4. CASE del_from_tail
    BY <2>4, DelTailImplements DEF Abstract!Next, Abstract!DelFromTail
  <2>5. CASE UNCHANGED vars
    BY <2>5 DEF vars, Content
  <2> QED
    BY <2>1, <2>2, <2>3, <2>4, <2>5 DEF Next
<1> QED
  BY <1>1, <1>2, ListInvInit, ListInvNext, PTL DEF Spec, IsDeque, Abstract!Spec

-----------------------------------------------------------------------------
(* The sorting functions: the invariant of each, and that its steps keep it. *)

Idx == 0..count - 1

\* The positions in b and in a of the same elements correspond one to one.
Moved(a, b) ==
    /\ DOMAIN b = DOMAIN a
    /\ \E p \in Bijection(DOMAIN a, DOMAIN a) : \A i \in DOMAIN a : b[i] = a[p[i]]

SortTypes ==
    /\ fn \in Sorting
    /\ count \in Nat
    /\ given \in [Idx -> Int] /\ arr \in [Idx -> Int]
    /\ index \in Int /\ jdex \in Int /\ inc \in Int /\ tmp \in Int /\ left \in Int /\ right \in Int
    /\ jobs \in Seq([first : Int, last : Int])

\* The elements up to position i are settled: each is at most any behind it.
SettledBelow(i) == \A p, q \in Idx : p < i /\ p < q => arr[p] <= arr[q]

\* Those from position i on are: each is at least any before it.
SettledFrom(i) == \A p, q \in Idx : q >= i /\ p < q => arr[p] <= arr[q]

SelectInv ==
    /\ pc \in {"outer", "inner", "done"} /\ index >= 0
    /\ Moved(given, arr)
    /\ pc # "done" => SettledBelow(index)
    /\ pc = "inner" =>
          /\ index < count - 1 /\ jdex > index
          /\ \A q \in Idx : index < q /\ q < jdex => arr[index] <= arr[q]
    /\ pc = "done" => Ascends(arr)

BubbleInv ==
    /\ pc \in {"outer", "inner", "done"} /\ index >= 0
    /\ Moved(given, arr)
    /\ pc # "done" => SettledFrom(count - index)
    /\ pc = "inner" =>
          /\ index < count - 1 /\ 0 <= jdex /\ jdex <= count - 1 - index
          /\ \A p \in Idx : p < jdex => arr[p] <= arr[jdex]
    /\ pc = "done" => Ascends(arr)

\* The first index elements descend, and the last of them is a smallest of all.
VectorInv ==
    /\ pc \in {"outer", "inner", "done"} /\ index >= 0
    /\ Moved(given, arr)
    /\ pc # "done" => \A p, q \in Idx : p < q /\ q < index => arr[p] >= arr[q]
    /\ pc = "outer" => \A p, q \in Idx : p = index - 1 => arr[p] <= arr[q]
    /\ pc = "inner" =>
          /\ index < count /\ 0 <= jdex
          /\ \A p \in Idx : p < index /\ p < jdex => arr[p] >= arr[index]
          /\ \A p \in Idx : p < jdex /\ index = 0 => arr[index] <= arr[p]
          /\ \A p \in Idx : index > 0 /\ jdex >= index => arr[index] <= arr[p]
          /\ \A p, q \in Idx : p = index - 1 /\ jdex < index => arr[p] <= arr[q]
    /\ pc = "done" => Descends(arr)

\* An array with element e, which was taken out, put at position h.
Filled(a, h, e) == [a EXCEPT ![h] = e]

Multiple(i) == \E k \in Nat : i = k * inc

ChainInv ==
    /\ pc \in {"outer", "inner", "done"} \cup (IF fn = "shell_sort" THEN {"gap"} ELSE {})
    /\ inc >= 0 /\ (fn = "insert_sort" => inc = 1)
    /\ pc # "inner" => Moved(given, arr)
    /\ pc = "gap" /\ inc = 0 => Ascends(arr)
    /\ pc \in {"outer", "inner"} => 1 <= inc /\ inc <= index /\ Multiple(index)
    /\ pc = "outer" /\ inc = 1 => \A p, q \in Idx : p < q /\ q < index => arr[p] <= arr[q]
    /\ pc = "inner" =>
          /\ index < count /\ 0 <= jdex /\ jdex <= index /\ Multiple(jdex)
          /\ Moved(given, Filled(arr, jdex, tmp))
          /\ inc = 1 =>
                /\ \A p, q \in Idx : p < q /\ q <= index /\ p # jdex /\ q # jdex => arr[p] <= arr[q]
                /\ \A q \in Idx : jdex < q /\ q <= index => tmp <= arr[q]
    /\ pc = "done" => Ascends(arr)

\* Two elements are in order unless one call that has not returned has both.
OrderedButJobs(a) ==
    \A p, q \in Idx :
        p < q => a[p] <= a[q] \/ \E k \in DOMAIN jobs : jobs[k].first <= p /\ q <= jobs[k].last

JobsApart ==
    /\ \A k \in DOMAIN jobs : 0 <= jobs[k].first /\ jobs[k].last < count
    /\ \A k, m \in DOMAIN jobs : k < m => jobs[k].last < jobs[m].first

\* The part of the array with both ends where the partition has got to.
Partitioned(hole) ==
    /\ jobs # <<>>
    /\ jobs[1].first <= left /\ left <= right /\ right <= jobs[1].last
    /\ Moved(given, Filled(arr, hole, tmp))
    /\ OrderedButJobs(Filled(arr, hole, tmp))
    /\ \A p \in Idx : jobs[1].first <= p /\ p < left => arr[p] <= tmp
    /\ \A q \in Idx : right < q /\ q <= jobs[1].last => tmp <= arr[q]

QuickInv ==
    /\ pc \in {"call", "from_right", "from_left", "done"}
    /\ JobsApart
    /\ pc = "call" => Moved(given, arr) /\ OrderedButJobs(arr)
    /\ pc = "from_right" => Partitioned(left)
    /\ pc = "from_left" => Partitioned(right)
    /\ pc = "done" => Moved(given, arr) /\ Ascends(arr)

Sons(p) == {2 * p + 1, 2 * p + 2}

\* The nodes from position from on are at least as large as their sons, except
\* that nothing is known of node hole: it is only below its father's father.
HeapBut(from, size, hole) ==
    \A p, s \in Idx :
        from <= p /\ s \in Sons(p) /\ s < size =>
            /\ p # hole => arr[p] >= arr[s]
            /\ s = hole => \A t \in Idx : t \in Sons(s) /\ t < size => arr[p] >= arr[t]

HeapInv ==
    /\ pc \in {"build", "sift_build", "extract", "sift_extract", "done"}
    /\ Moved(given, arr)
    /\ pc = "build" => -1 <= jdex /\ 2 * (jdex + 1) <= count /\ HeapBut(jdex + 1, count, -1)
    /\ pc = "sift_build" =>
          /\ 0 <= jdex /\ jdex <= index /\ index < count /\ 2 * (jdex + 1) <= count
          /\ HeapBut(jdex, count, index)
    /\ pc = "extract" =>
          -1 <= jdex /\ jdex < count /\ HeapBut(0, jdex + 1, -1) /\ SettledFrom(jdex + 1)
    /\ pc = "sift_extract" =>
          /\ 0 < jdex /\ jdex < count /\ 0 <= index /\ index < jdex
          /\ HeapBut(0, jdex, index) /\ SettledFrom(jdex)
    /\ pc = "done" => Ascends(arr)

SortInv ==
    /\ SortTypes
    /\ fn = "select_sort" => SelectInv
    /\ fn = "bubble_sort" => BubbleInv
    /\ fn = "select_sort_vector" => VectorInv
    /\ fn \in {"insert_sort", "shell_sort"} => ChainInv
    /\ fn = "quick_sort" => QuickInv
    /\ fn = "heap_sort" => HeapInv

-----------------------------------------------------------------------------
(* An array is a rearrangement of itself. *)
LEMMA MovedSame == ASSUME NEW a PROVE Moved(a, a)
<1> DEFINE p == [i \in DOMAIN a |-> i]
<1>1. p \in Bijection(DOMAIN a, DOMAIN a)
  <2>1. p \in [DOMAIN a -> DOMAIN a] /\ \A i \in DOMAIN a : p[i] = i
    OBVIOUS
  <2> QED
    BY <2>1, Fun_IsBij DEF Surjection
<1>2. \A i \in DOMAIN a : a[i] = a[p[i]]
  OBVIOUS
<1> QED
  BY <1>1, <1>2 DEF Moved

(* An exchange of two elements leaves a rearrangement. *)
LEMMA ExchangeMoves ==
    ASSUME NEW a, NEW b, NEW c, NEW D, D = DOMAIN a, b = [x \in D |-> b[x]], Moved(a, b),
           NEW i \in D, NEW j \in D, c = [b EXCEPT ![i] = b[j], ![j] = b[i]]
    PROVE  Moved(a, c)
<1>1. PICK p \in Bijection(D, D) : \A x \in D : b[x] = a[p[x]]
  BY DEF Moved
<1> DEFINE s == [x \in D |-> IF x = i THEN j ELSE IF x = j THEN i ELSE x]
           q == [x \in D |-> p[s[x]]]
<1>2. s \in Bijection(D, D)
  <2>1. s \in [D -> D] /\ \A x \in D : s[s[x]] = x
    OBVIOUS
  <2>2. \A x, y \in D : s[x] = s[y] => x = y
    BY <2>1
  <2>3. s \in Surjection(D, D)
    BY <2>1 DEF Surjection
  <2> QED
    BY <2>1, <2>2, <2>3, Fun_IsBij
<1>3. q \in Bijection(D, D)
  BY <1>2, Fun_BijTransitive
<1>4. DOMAIN c = D /\ \A x \in D : c[x] = IF x = j THEN b[i] ELSE IF x = i THEN b[j] ELSE b[x]
  OBVIOUS
<1>5. \A x \in D : c[x] = a[q[x]]
  <2> TAKE x \in D
  <2>1. b[i] = a[p[i]] /\ b[j] = a[p[j]] /\ b[x] = a[p[x]]
    BY <1>1
  <2> QED
    BY <1>4, <2>1
<1> QED
  BY <1>3, <1>4, <1>5 DEF Moved

(* A rearrangement has every element as often. *)
LEMMA MovedRearranged ==
    ASSUME NEW a, NEW b, IsFiniteSet(DOMAIN a), Moved(a, b)
    PROVE  Rearranged(a, b)
<1> DEFINE D == DOMAIN a
<1>1. PICK p \in Bijection(D, D) : \A x \in D : b[x] = a[p[x]]
  BY DEF Moved
<1>2. p \in [D -> D] /\ (\A x, y \in D : p[x] = p[y] => x = y) /\ \A y \in D : \E x \in D : p[x] = y
  BY Fun_BijectionProperties DEF Surjection
<1>3. ASSUME NEW e PROVE Times(b, e) = Times(a, e)
  <2> DEFINE B == {x \in D : b[x] = e}
             A == {x \in D : a[x] = e}
             q == [x \in B |-> p[x]]
  <2>1. q \in [B -> A]
    BY <1>1, <1>2
  <2>2. \A x, y \in B : q[x] = q[y] => x = y
    BY <1>2
  <2>3. \A y \in A : \E x \in B : q[x] = y
    BY <1>1, <1>2
  <2>4. q \in Bijection(B, A)
    <3> HIDE DEF A, B, q
    <3>1. q \in Surjection(B, A)
      BY <2>1, <2>3 DEF Surjection
    <3> QED
      BY <2>1, <2>2, <3>1, Fun_IsBij
  <2>5. IsFiniteSet(B)
    BY FS_Subset
  <2>6. Cardinality(A) = Cardinality(B)
    BY <2>4, <2>5, FS_Bijection DEF ExistsBijection
  <2> QED
    BY <2>6 DEF Times, Moved
<1> QED
  BY <1>3 DEF Rearranged, Moved

(* What an exchange in the array does. *)
LEMMA Exchange ==
    ASSUME SortTypes, NEW i \in Idx, NEW j \in Idx
    PROVE  /\ Exchanged(i, j) \in [Idx -> Int]
           /\ Exchanged(i, j)[i] = arr[j] /\ Exchanged(i, j)[j] = arr[i]
           /\ \A x \in Idx : x # i /\ x # j => Exchanged(i, j)[x] = arr[x]
           /\ Moved(given, arr) => Moved(given, Exchanged(i, j))
<1>1. arr = [x \in Idx |-> arr[x]] /\ Idx = DOMAIN given /\ Idx = DOMAIN arr
  BY DEF SortTypes
<1>2. Moved(given, arr) => Moved(given, Exchanged(i, j))
  <2> SUFFICES ASSUME Moved(given, arr) PROVE Moved(given, Exchanged(i, j))
    OBVIOUS
  <2> DEFINE c == [arr EXCEPT ![i] = arr[j], ![j] = arr[i]]
  <2> HIDE DEF Idx
  <2>1. Moved(given, c)
    BY <1>1, ExchangeMoves
  <2> QED
    BY <2>1 DEF Exchanged
<1>3. /\ Exchanged(i, j) \in [Idx -> Int]
      /\ Exchanged(i, j)[i] = arr[j] /\ Exchanged(i, j)[j] = arr[i]
      /\ \A x \in Idx : x # i /\ x # j => Exchanged(i, j)[x] = arr[x]
  BY DEF Exchanged, SortTypes
<1> QED
  BY <1>2, <1>3

(* A step of any function but quick_sort leaves the rest typed. *)
LEMMA SelectKeeps ==
    ASSUME SortTypes, SelectInv, select_sort, UNCHANGED <<fn, given, count, ranges>>
    PROVE  SortTypes' /\ SelectInv'
<1>1. /\ fn' = fn /\ given' = given /\ count' = count /\ Idx' = Idx
      /\ left' = left /\ right' = right /\ jobs' = jobs
  BY DEF ranges, Idx
<1>2. CASE Pass(count - 1, index + 1)
  <2>1. CASE ~(index < count - 1) /\ Return
    <3>1. Ascends(arr)
      <4> SUFFICES ASSUME NEW p \in Idx, NEW q \in Idx, p <= q PROVE arr[p] <= arr[q]
        BY DEF Ascends, SortTypes
      <4>1. SettledBelow(index) /\ ~(index < count - 1)
        BY <1>2, <2>1 DEF SelectInv, Pass
      <4>2. p = q \/ (p < index /\ p < q)
        BY <4>1 DEF SortTypes, Idx
      <4>3. arr[p] \in Int
        BY DEF SortTypes
      <4> QED
        BY <4>1, <4>2, <4>3 DEF SettledBelow
    <3> QED
      BY <1>1, <2>1, <3>1 DEF SelectInv, SortTypes, Return, loops, Ascends
  <2>2. CASE index < count - 1 /\ pc' = "inner" /\ jdex' = index + 1 /\ UNCHANGED <<arr, index, inc, tmp>>
    <3>1. SettledBelow(index)' /\ Moved(given, arr)'
      BY <1>1, <1>2, <2>2 DEF SelectInv, SettledBelow, Pass
    <3>2. \A q \in Idx : ~(index < q /\ q < index + 1)
      BY DEF SortTypes, Idx
    <3> QED
      BY <1>1, <2>2, <3>1, <3>2 DEF SelectInv, SortTypes
  <2> QED
    BY <1>2, <2>1, <2>2 DEF Pass
<1>3. CASE Compare(count, index, jdex)
  <2>1. pc = "inner" /\ index < count - 1 /\ jdex > index /\ index >= 0 /\ index \in Idx
        /\ inc' = inc /\ tmp' = tmp /\ SettledBelow(index) /\ Moved(given, arr)
        /\ index \in Int /\ jdex \in Int /\ inc \in Int /\ tmp \in Int /\ count \in Nat
    BY <1>3 DEF SelectInv, Compare, SortTypes, Idx
  <2>2. CASE jdex < count /\ UNCHANGED <<pc, index>> /\ jdex' = jdex + 1
             /\ arr' = IF arr[index] > arr[jdex] THEN Exchanged(index, jdex) ELSE arr
    <3>1. jdex \in Idx
      BY <2>1, <2>2 DEF Idx
    <3>2. CASE arr[index] > arr[jdex]
      <4>1. /\ arr' \in [Idx -> Int] /\ arr'[index] = arr[jdex] /\ arr'[jdex] = arr[index]
            /\ \A x \in Idx : x # index /\ x # jdex => arr'[x] = arr[x]
            /\ Moved(given, arr')
        BY <2>1, <2>2, <3>1, <3>2, Exchange
      <4>2. SettledBelow(index)'
        <5> SUFFICES ASSUME NEW p \in Idx, NEW q \in Idx, p < index, p < q PROVE arr'[p] <= arr'[q]
          BY <1>1, <2>2 DEF SettledBelow
        <5>1. arr'[p] = arr[p]
          BY <2>1, <4>1 DEF Idx
        <5>2. arr[p] <= arr[q] /\ arr[p] <= arr[index] /\ arr[p] <= arr[jdex]
          BY <2>1, <3>1 DEF SettledBelow, Idx
        <5> QED
          BY <4>1, <5>1, <5>2
      <4>3. \A q \in Idx : index < q /\ q < jdex + 1 => arr'[index] <= arr'[q]
        <5> SUFFICES ASSUME NEW q \in Idx, index < q, q < jdex + 1 PROVE arr'[index] <= arr'[q]
          OBVIOUS
        <5>1. CASE q = jdex
          BY <2>1, <3>1, <3>2, <4>1, <5>1 DEF SortTypes
        <5>2. CASE q # jdex
          <6>1. arr'[q] = arr[q] /\ q < jdex
            BY <2>1, <4>1, <5>2 DEF Idx
          <6>2. arr[index] <= arr[q]
            BY <2>1, <6>1 DEF SelectInv
          <6> QED
            BY <2>1, <3>1, <3>2, <4>1, <6>1, <6>2 DEF SortTypes
        <5> QED
          BY <5>1, <5>2
      <4> QED
        BY <1>1, <2>1, <2>2, <4>1, <4>2, <4>3 DEF SelectInv, SortTypes
    <3>3. CASE ~(arr[index] > arr[jdex])
      <4>1. arr' = arr /\ arr[index] <= arr[jdex]
        BY <2>1, <2>2, <3>1, <3>3 DEF SortTypes
      <4>2. \A q \in Idx : index < q /\ q < jdex + 1 => arr[index] <= arr[q]
        BY <2>1, <4>1 DEF SelectInv, Idx
      <4> QED
        BY <1>1, <2>1, <2>2, <4>1, <4>2 DEF SelectInv, SortTypes, SettledBelow
    <3> QED
      BY <3>2, <3>3
  <2>3. CASE ~(jdex < count) /\ pc' = "outer" /\ index' = index + 1 /\ UNCHANGED <<arr, jdex>>
    <3>1. SettledBelow(index + 1)
      <4> SUFFICES ASSUME NEW p \in Idx, NEW q \in Idx, p < index + 1, p < q PROVE arr[p] <= arr[q]
        BY DEF SettledBelow
      <4>1. p < index \/ (p = index /\ q < jdex)
        BY <2>1, <2>3 DEF Idx
      <4> QED
        BY <2>1, <4>1 DEF SelectInv, SettledBelow
    <3>2. SettledBelow(index)'
      BY <1>1, <2>3, <3>1 DEF SettledBelow
    <3> QED
      BY <1>1, <2>1, <2>3, <3>2 DEF SelectInv, SortTypes
  <2> QED
    BY <1>3, <2>2, <2>3 DEF Compare
<1> QED
  BY <1>2, <1>3 DEF select_sort

(* After pass index, the largest elements are settled at the end.            *)
LEMMA BubbleKeeps ==
    ASSUME SortTypes, BubbleInv, bubble_sort, UNCHANGED <<fn, given, count, ranges>>
    PROVE  SortTypes' /\ BubbleInv'
<1>1. /\ fn' = fn /\ given' = given /\ count' = count /\ Idx' = Idx
      /\ left' = left /\ right' = right /\ jobs' = jobs
  BY DEF ranges, Idx
<1>2. CASE Pass(count - 1, 0)
  <2>1. CASE ~(index < count - 1) /\ Return
    <3>1. Ascends(arr)
      <4> SUFFICES ASSUME NEW p \in Idx, NEW q \in Idx, p <= q PROVE arr[p] <= arr[q]
        BY DEF Ascends, SortTypes
      <4>1. p = q \/ (p < q /\ q >= count - index)
        BY <2>1 DEF SortTypes, Idx
      <4> QED
        BY <1>2, <4>1 DEF BubbleInv, Pass, SettledFrom, SortTypes
    <3> QED
      BY <1>1, <2>1, <3>1 DEF BubbleInv, SortTypes, Return, loops, Ascends
  <2>2. CASE index < count - 1 /\ pc' = "inner" /\ jdex' = 0 /\ UNCHANGED <<arr, index, inc, tmp>>
    <3>1. SettledFrom(count - index)' /\ Moved(given, arr)'
      BY <1>1, <1>2, <2>2 DEF BubbleInv, SettledFrom, Pass
    <3>2. \A q \in Idx : ~(q < 0)
      BY DEF SortTypes, Idx
    <3> QED
      BY <1>1, <2>2, <3>1, <3>2 DEF BubbleInv, SortTypes
  <2> QED
    BY <1>2, <2>1, <2>2 DEF Pass
<1>3. CASE Compare(count - 1 - index, jdex, jdex + 1)
  <2>1. /\ pc = "inner" /\ index < count - 1 /\ jdex >= 0 /\ jdex <= count - 1 - index /\ index >= 0
        /\ inc' = inc /\ tmp' = tmp /\ SettledFrom(count - index) /\ Moved(given, arr)
        /\ index \in Int /\ jdex \in Int /\ inc \in Int /\ tmp \in Int /\ count \in Nat
        /\ \A p \in Idx : p < jdex => arr[p] <= arr[jdex]
        /\ \A p \in Idx : arr[p] \in Int
    BY <1>3 DEF BubbleInv, Compare, SortTypes, Idx
  <2>2. CASE /\ jdex < count - 1 - index /\ UNCHANGED <<pc, index>> /\ jdex' = jdex + 1
             /\ arr' = IF arr[jdex] > arr[jdex + 1] THEN Exchanged(jdex, jdex + 1) ELSE arr
    <3>1. jdex \in Idx /\ jdex + 1 \in Idx
      BY <2>1, <2>2 DEF Idx
    <3>2. CASE arr[jdex] > arr[jdex + 1]
      <4>1. /\ arr' \in [Idx -> Int] /\ arr'[jdex] = arr[jdex + 1] /\ arr'[jdex + 1] = arr[jdex]
            /\ \A x \in Idx : x # jdex /\ x # jdex + 1 => arr'[x] = arr[x]
            /\ Moved(given, arr')
        BY <2>1, <2>2, <3>1, <3>2, Exchange
      <4>2. SettledFrom(count - index)'
        <5> SUFFICES ASSUME NEW p \in Idx, NEW q \in Idx, q >= count - index, p < q PROVE arr'[p] <= arr'[q]
          BY <1>1, <2>2 DEF SettledFrom
        <5>1. jdex < q /\ jdex + 1 < q /\ jdex # q /\ jdex + 1 # q
          BY <2>1, <2>2 DEF Idx
        <5>2. arr[p] <= arr[q] /\ arr[jdex] <= arr[q] /\ arr[jdex + 1] <= arr[q]
          BY <2>1, <3>1, <5>1 DEF SettledFrom
        <5> QED
          BY <4>1, <5>1, <5>2
      <4>3. \A p \in Idx : p < jdex + 1 => arr'[p] <= arr'[jdex + 1]
        <5> SUFFICES ASSUME NEW p \in Idx, p < jdex + 1 PROVE arr'[p] <= arr'[jdex + 1]
          OBVIOUS
        <5>1. CASE p = jdex
          BY <2>1, <3>1, <3>2, <4>1, <5>1
        <5>2. CASE p # jdex
          <6>1. p # jdex + 1 /\ p < jdex
            BY <2>1, <5>2 DEF Idx
          <6> QED
            BY <2>1, <4>1, <5>2, <6>1
        <5> QED
          BY <5>1, <5>2
      <4> QED
        BY <1>1, <2>1, <2>2, <4>1, <4>2, <4>3 DEF BubbleInv, SortTypes
    <3>3. CASE ~(arr[jdex] > arr[jdex + 1])
      <4>1. arr' = arr /\ arr[jdex] <= arr[jdex + 1]
        BY <2>1, <2>2, <3>1, <3>3
      <4>2. \A p \in Idx : p < jdex + 1 => arr[p] <= arr[jdex + 1]
        <5> SUFFICES ASSUME NEW p \in Idx, p < jdex + 1 PROVE arr[p] <= arr[jdex + 1]
          OBVIOUS
        <5>1. p = jdex \/ arr[p] <= arr[jdex]
          BY <2>1 DEF Idx
        <5> QED
          BY <2>1, <3>1, <4>1, <5>1
      <4> QED
        BY <1>1, <2>1, <2>2, <4>1, <4>2 DEF BubbleInv, SortTypes, SettledFrom
    <3> QED
      BY <3>2, <3>3
  <2>3. CASE ~(jdex < count - 1 - index) /\ pc' = "outer" /\ index' = index + 1 /\ UNCHANGED <<arr, jdex>>
    <3>1. SettledFrom(count - (index + 1))
      <4> SUFFICES ASSUME NEW p \in Idx, NEW q \in Idx, q >= count - (index + 1), p < q PROVE arr[p] <= arr[q]
        BY DEF SettledFrom
      <4>1. q >= count - index \/ (q = jdex /\ p < jdex)
        BY <2>1, <2>3 DEF Idx
      <4> QED
        BY <2>1, <4>1 DEF SettledFrom
    <3>2. SettledFrom(count - index)'
      BY <1>1, <2>3, <3>1 DEF SettledFrom
    <3> QED
      BY <1>1, <2>1, <2>3, <3>2 DEF BubbleInv, SortTypes
  <2> QED
    BY <1>3, <2>2, <2>3 DEF Compare
<1> QED
  BY <1>2, <1>3 DEF bubble_sort

(* The first pass finds the smallest; each later one inserts an element into *)
(* the elements before it, and takes the smallest along.                     *)
LEMMA VectorKeeps ==
    ASSUME SortTypes, VectorInv, select_sort_vector, UNCHANGED <<fn, given, count, ranges>>
    PROVE  SortTypes' /\ VectorInv'
<1>1. /\ fn' = fn /\ given' = given /\ count' = count /\ Idx' = Idx
      /\ left' = left /\ right' = right /\ jobs' = jobs
  BY DEF ranges, Idx
<1>2. CASE Pass(count, 0)
  <2>1. CASE ~(index < count) /\ Return
    <3>1. Descends(arr)
      <4> SUFFICES ASSUME NEW p \in Idx, NEW q \in Idx, p <= q PROVE arr[p] >= arr[q]
        BY DEF Descends, SortTypes
      <4>1. p = q \/ (p < q /\ q < index)
        BY <2>1 DEF SortTypes, Idx
      <4> QED
        BY <1>2, <4>1 DEF VectorInv, Pass, SortTypes
    <3> QED
      BY <1>1, <2>1, <3>1 DEF VectorInv, SortTypes, Return, loops, Descends
  <2>2. CASE index < count /\ pc' = "inner" /\ jdex' = 0 /\ UNCHANGED <<arr, index, inc, tmp>>
    <3>1. \A q \in Idx : ~(q < 0)
      BY DEF SortTypes, Idx
    <3>2. pc = "outer" /\ index >= 0 /\ index \in Int
      BY <1>2 DEF VectorInv, Pass, SortTypes
    <3>3. Moved(given, arr)' /\ \A p, q \in Idx' : p < q /\ q < index' => arr'[p] >= arr'[q]
      BY <1>1, <2>2, <3>2 DEF VectorInv
    <3>4. \A p, q \in Idx' : p = index' - 1 => arr'[p] <= arr'[q]
      BY <1>1, <2>2, <3>2 DEF VectorInv
    <3>5. ~(index' > 0 /\ jdex' >= index')
      BY <2>2, <3>2
    <3> QED
      BY <1>1, <2>2, <3>1, <3>2, <3>3, <3>4, <3>5 DEF VectorInv, SortTypes
  <2> QED
    BY <1>2, <2>1, <2>2 DEF Pass
<1>3. CASE Compare(count, index, jdex)
  <2>1. /\ pc = "inner" /\ index < count /\ 0 <= jdex /\ index \in Idx
        /\ inc' = inc /\ tmp' = tmp /\ Moved(given, arr)
        /\ index \in Int /\ jdex \in Int /\ inc \in Int /\ tmp \in Int /\ count \in Nat /\ index >= 0
        /\ \A p, q \in Idx : p < q /\ q < index => arr[p] >= arr[q]
        /\ \A p \in Idx : p < index /\ p < jdex => arr[p] >= arr[index]
        /\ \A p \in Idx : p < jdex /\ index = 0 => arr[index] <= arr[p]
        /\ \A p \in Idx : index > 0 /\ jdex >= index => arr[index] <= arr[p]
        /\ \A p, q \in Idx : p = index - 1 /\ jdex < index => arr[p] <= arr[q]
        /\ \A p \in Idx : arr[p] \in Int
    BY <1>3 DEF VectorInv, Compare, SortTypes, Idx
  <2>2. CASE /\ jdex < count /\ UNCHANGED <<pc, index>> /\ jdex' = jdex + 1
             /\ arr' = IF arr[index] > arr[jdex] THEN Exchanged(index, jdex) ELSE arr
    <3>1. jdex \in Idx /\ \A p \in Idx : p \in Int /\ 0 <= p
      BY <2>1, <2>2 DEF Idx
    <3>2. CASE arr[index] > arr[jdex]
      <4>1. /\ arr' \in [Idx -> Int] /\ arr'[index] = arr[jdex] /\ arr'[jdex] = arr[index]
            /\ \A x \in Idx : x # index /\ x # jdex => arr'[x] = arr[x]
            /\ Moved(given, arr')
        BY <2>1, <2>2, <3>1, <3>2, Exchange
      <4>2. jdex # index /\ ~(index > 0 /\ jdex >= index) /\ (jdex < index \/ index = 0)
        BY <2>1, <3>1, <3>2
      <4>3. ASSUME NEW p \in Idx, NEW q \in Idx, p < q, q < index PROVE arr'[p] >= arr'[q]
        <5>1. arr[p] >= arr[q] /\ (p < jdex => arr[p] >= arr[index]) /\ (jdex < q => arr[jdex] >= arr[q])
          BY <2>1, <3>1, <4>2, <4>3
        <5> QED
          BY <2>1, <3>1, <3>2, <4>1, <4>3, <5>1
      <4>4. ASSUME NEW p \in Idx, p < index, p < jdex + 1 PROVE arr'[p] >= arr'[index]
        <5>1. p = jdex \/ (p < jdex /\ jdex < index)
          BY <2>1, <3>1, <4>2, <4>4
        <5>2. p < jdex => arr[p] >= arr[jdex]
          BY <2>1, <3>1, <4>4, <5>1
        <5> QED
          BY <2>1, <3>1, <3>2, <4>1, <4>4, <5>1, <5>2
      <4>5. ASSUME NEW p \in Idx, p < jdex + 1, index = 0 PROVE arr'[index] <= arr'[p]
        <5>1. p = jdex \/ p = index \/ (p < jdex /\ arr[index] <= arr[p] /\ arr'[p] = arr[p])
          BY <2>1, <3>1, <4>1, <4>5
        <5> QED
          BY <2>1, <3>1, <3>2, <4>1, <4>2, <5>1
      <4>6. ASSUME NEW p \in Idx, index > 0, jdex + 1 >= index PROVE arr'[index] <= arr'[p]
        <5>1. jdex = index - 1
          BY <2>1, <4>2, <4>6
        <5>2. arr[jdex] <= arr[p] /\ arr[jdex] <= arr[index] /\ arr[jdex] <= arr[jdex]
          BY <2>1, <3>1, <4>2, <5>1
        <5> QED
          BY <2>1, <3>1, <4>1, <5>2
      <4>7. ASSUME NEW p \in Idx, NEW q \in Idx, p = index - 1, jdex + 1 < index PROVE arr'[p] <= arr'[q]
        <5>1. arr'[p] = arr[p] /\ arr[p] <= arr[q] /\ arr[p] <= arr[index] /\ arr[p] <= arr[jdex]
          BY <2>1, <3>1, <4>1, <4>7
        <5> QED
          BY <2>1, <3>1, <4>1, <5>1
      <4>8. /\ pc' = "inner" /\ index' = index /\ jdex' = jdex + 1 /\ Idx' = Idx /\ Moved(given', arr')
            /\ index >= 0 /\ index < count' /\ 0 <= jdex'
        BY <1>1, <2>1, <2>2, <4>1
      <4>9. VectorInv'
        BY <4>3, <4>4, <4>5, <4>6, <4>7, <4>8 DEF VectorInv
      <4> QED
        BY <1>1, <2>1, <2>2, <4>1, <4>9 DEF SortTypes
    <3>3. CASE ~(arr[index] > arr[jdex])
      <4>1. arr' = arr /\ arr[index] <= arr[jdex]
        BY <2>1, <2>2, <3>1, <3>3
      <4>2. ASSUME NEW p \in Idx, p < jdex + 1 PROVE /\ p < index => arr[p] >= arr[index]
                                                     /\ index = 0 => arr[index] <= arr[p]
        BY <2>1, <3>1, <4>1, <4>2
      <4>3. ASSUME NEW p \in Idx, index > 0, jdex + 1 >= index PROVE arr[index] <= arr[p]
        <5>1. CASE jdex >= index
          BY <2>1, <4>3, <5>1
        <5>2. CASE jdex = index - 1
          <6>1. arr[jdex] <= arr[p]
            BY <2>1, <3>1, <5>2
          <6> QED
            BY <2>1, <3>1, <4>1, <6>1
        <5> QED
          BY <2>1, <4>3, <5>1, <5>2
      <4>4. \A p, q \in Idx : p = index - 1 /\ jdex + 1 < index => arr[p] <= arr[q]
        BY <2>1
      <4>5. /\ pc' = "inner" /\ index' = index /\ jdex' = jdex + 1 /\ Idx' = Idx /\ arr' = arr /\ Moved(given', arr')
            /\ index >= 0 /\ index < count' /\ 0 <= jdex'
        BY <1>1, <2>1, <2>2, <4>1
      <4>6. /\ \A p, q \in Idx : p < q /\ q < index => arr[p] >= arr[q]
            /\ \A p \in Idx : p < index /\ p < jdex + 1 => arr[p] >= arr[index]
            /\ \A p \in Idx : p < jdex + 1 /\ index = 0 => arr[index] <= arr[p]
            /\ \A p \in Idx : index > 0 /\ jdex + 1 >= index => arr[index] <= arr[p]
        BY <2>1, <4>2, <4>3
      <4>7. VectorInv'
        BY <4>4, <4>5, <4>6 DEF VectorInv
      <4> QED
        BY <1>1, <2>1, <2>2, <4>1, <4>7 DEF SortTypes
    <3> QED
      BY <3>2, <3>3
  <2>3. CASE ~(jdex < count) /\ pc' = "outer" /\ index' = index + 1 /\ UNCHANGED <<arr, jdex>>
    <3>1. \A p \in Idx : p < jdex /\ p \in Int /\ 0 <= p
      BY <2>1, <2>3 DEF Idx
    <3>2. \A p, q \in Idx : p < q /\ q < index + 1 => arr[p] >= arr[q]
      <4> SUFFICES ASSUME NEW p \in Idx, NEW q \in Idx, p < q, q < index + 1 PROVE arr[p] >= arr[q]
        OBVIOUS
      <4>1. q < index \/ (q = index /\ p < index)
        BY <2>1, <3>1
      <4> QED
        BY <2>1, <3>1, <4>1
    <3>3. \A p, q \in Idx : p = (index + 1) - 1 => arr[p] <= arr[q]
      <4>1. ASSUME NEW q \in Idx PROVE arr[index] <= arr[q]
        BY <2>1, <3>1, <2>3
      <4> QED
        BY <2>1, <4>1
    <3>4. /\ pc' = "outer" /\ index' = index + 1 /\ Idx' = Idx /\ arr' = arr /\ Moved(given', arr')
          /\ index + 1 >= 0
      BY <1>1, <2>1, <2>3
    <3>5. VectorInv'
      BY <3>2, <3>3, <3>4 DEF VectorInv
    <3> QED
      BY <1>1, <2>1, <2>3, <3>5 DEF SortTypes
  <2> QED
    BY <1>3, <2>2, <2>3 DEF Compare
<1> QED
  BY <1>2, <1>3 DEF select_sort_vector

(* Along the positions that are multiples of inc, loops meet position 0.     *)
LEMMA Multiples ==
    ASSUME NEW k \in Nat, NEW m \in Nat
    PROVE  /\ k * m + m = (k + 1) * m /\ k + 1 \in Nat
           /\ k * m > 0 => k * m >= m /\ k * m - m = (k - 1) * m /\ k - 1 \in Nat
<1>1. k * m + m = (k + 1) * m
  OBVIOUS
<1>2. ASSUME k * m > 0 PROVE k * m >= m /\ k * m - m = (k - 1) * m /\ k - 1 \in Nat
  <2>1. k # 0
    BY <1>2
  <2>2. k - 1 \in Nat /\ k * m = (k - 1) * m + m
    BY <2>1
  <2>3. (k - 1) * m \in Nat
    BY <2>2
  <2> QED
    BY <2>2, <2>3
<1> QED
  BY <1>1, <1>2

(* The element that was taken out is exchanged with the one that moves up.   *)
LEMMA HoleMoves ==
    ASSUME SortTypes, NEW i \in Idx, NEW j \in Idx
    PROVE  /\ [arr EXCEPT ![i] = arr[j]] \in [Idx -> Int]
           /\ Filled(arr, i, tmp) \in [Idx -> Int]
           /\ Filled([arr EXCEPT ![i] = arr[j]], j, tmp) =
                 [Filled(arr, i, tmp) EXCEPT ![i] = Filled(arr, i, tmp)[j], ![j] = Filled(arr, i, tmp)[i]]
           /\ Moved(given, Filled(arr, i, tmp)) => Moved(given, Filled([arr EXCEPT ![i] = arr[j]], j, tmp))
<1> DEFINE b == Filled(arr, i, tmp)
           c == [b EXCEPT ![i] = b[j], ![j] = b[i]]
           d == Filled([arr EXCEPT ![i] = arr[j]], j, tmp)
<1>1. b \in [Idx -> Int] /\ Idx = DOMAIN given /\ [arr EXCEPT ![i] = arr[j]] \in [Idx -> Int]
  BY DEF SortTypes, Filled
<1>2. d = c
  <2>1. \A x \in Idx : c[x] = d[x]
    BY DEF SortTypes, Filled
  <2>2. c = [x \in Idx |-> c[x]] /\ d = [x \in Idx |-> d[x]]
    BY DEF SortTypes, Filled
  <2> HIDE DEF c, d
  <2> QED
    BY <2>1, <2>2
<1>3. ASSUME Moved(given, b) PROVE Moved(given, c)
  <2>1. b = [x \in Idx |-> b[x]]
    BY <1>1
  <2> HIDE DEF Idx, b
  <2> QED
    BY <1>1, <1>3, <2>1, ExchangeMoves
<1> QED
  BY <1>1, <1>2, <1>3

(* Every pass leaves a rearrangement, the one with inc = 1 the sorted array. *)
LEMMA ChainTakesOut ==
    ASSUME SortTypes, ChainInv, fn \in {"insert_sort", "shell_sort"}, TakeOut,
           UNCHANGED <<fn, given, count, ranges>>
    PROVE  SortTypes' /\ ChainInv'
<1>1. /\ fn' = fn /\ given' = given /\ count' = count /\ Idx' = Idx
      /\ left' = left /\ right' = right /\ jobs' = jobs
      /\ pc = "outer" /\ index < count /\ pc' = "inner" /\ tmp' = arr[index] /\ jdex' = index
      /\ arr' = arr /\ index' = index /\ inc' = inc
  BY DEF ranges, Idx, TakeOut
<1>2. /\ inc >= 1 /\ inc <= index /\ Multiple(index) /\ Moved(given, arr) /\ (fn = "insert_sort" => inc = 1)
      /\ index \in Int /\ inc \in Int /\ count \in Nat /\ arr \in [Idx -> Int]
      /\ inc = 1 => \A p, q \in Idx : p < q /\ q < index => arr[p] <= arr[q]
  BY <1>1 DEF ChainInv, SortTypes
<1>3. index \in Idx /\ arr[index] \in Int
  BY <1>1, <1>2 DEF Idx
<1>4. Filled(arr', jdex', tmp') = arr
  BY <1>1, <1>2, <1>3 DEF Filled
<1>5. \A p, q \in Idx : p < q /\ q <= index /\ p # index /\ q # index => q < index
  BY <1>2 DEF Idx
<1>6. \A q \in Idx : ~(index < q /\ q <= index)
  BY <1>2 DEF Idx
<1>7. Multiple(index)' /\ Multiple(jdex)'
  BY <1>1, <1>2 DEF Multiple
<1>8. ChainInv'
  BY <1>1, <1>2, <1>3, <1>4, <1>5, <1>6, <1>7 DEF ChainInv
<1> QED
  BY <1>1, <1>3, <1>8 DEF SortTypes

(* The element below the hole is larger: it fills it, and the hole moves down. *)
LEMMA ChainMovesUp ==
    ASSUME SortTypes, ChainInv, fn \in {"insert_sort", "shell_sort"}, MoveUp,
           UNCHANGED <<fn, given, count, ranges>>
    PROVE  SortTypes' /\ ChainInv'
<1>1. /\ fn' = fn /\ given' = given /\ count' = count /\ Idx' = Idx
      /\ left' = left /\ right' = right /\ jobs' = jobs
      /\ pc = "inner" /\ jdex > 0 /\ tmp < arr[jdex - inc] /\ pc' = "inner"
      /\ arr' = [arr EXCEPT ![jdex] = arr[jdex - inc]] /\ jdex' = jdex - inc
      /\ index' = index /\ inc' = inc /\ tmp' = tmp
  BY DEF ranges, Idx, MoveUp, Above
<1>2. /\ inc >= 1 /\ inc <= index /\ Multiple(index) /\ (fn = "insert_sort" => inc = 1)
      /\ index \in Int /\ jdex \in Int /\ inc \in Int /\ tmp \in Int /\ count \in Nat /\ arr \in [Idx -> Int]
      /\ index < count /\ 0 <= jdex /\ jdex <= index /\ Multiple(jdex) /\ Moved(given, Filled(arr, jdex, tmp))
      /\ inc = 1 =>
            /\ \A p, q \in Idx : p < q /\ q <= index /\ p # jdex /\ q # jdex => arr[p] <= arr[q]
            /\ \A q \in Idx : jdex < q /\ q <= index => tmp <= arr[q]
  BY <1>1 DEF ChainInv, SortTypes
<1>3. jdex >= inc /\ Multiple(jdex - inc)
  <2>1. PICK k \in Nat : jdex = k * inc
    BY <1>2 DEF Multiple
  <2>2. inc \in Nat
    BY <1>2
  <2>3. k * inc >= inc /\ k * inc - inc = (k - 1) * inc /\ k - 1 \in Nat
    BY <1>1, <2>1, <2>2, Multiples
  <2> QED
    BY <2>1, <2>3 DEF Multiple
<1>4. jdex \in Idx /\ jdex - inc \in Idx /\ jdex - inc < jdex /\ jdex - inc <= index
  BY <1>2, <1>3 DEF Idx
<1>5. arr' \in [Idx -> Int] /\ Moved(given', Filled(arr', jdex', tmp'))
  <2>1. Filled(arr', jdex', tmp') = Filled([arr EXCEPT ![jdex] = arr[jdex - inc]], jdex - inc, tmp)
    BY <1>1
  <2>2. /\ [arr EXCEPT ![jdex] = arr[jdex - inc]] \in [Idx -> Int]
        /\ Moved(given, Filled([arr EXCEPT ![jdex] = arr[jdex - inc]], jdex - inc, tmp))
    BY <1>2, <1>4, HoleMoves
  <2> QED
    BY <1>1, <2>1, <2>2, Zenon
<1>6. arr'[jdex] = arr[jdex - inc] /\ \A x \in Idx : x # jdex => arr'[x] = arr[x]
  BY <1>1, <1>2, <1>4
<1>7. ASSUME inc = 1
      PROVE  /\ \A p, q \in Idx : p < q /\ q <= index /\ p # jdex - inc /\ q # jdex - inc => arr'[p] <= arr'[q]
             /\ \A q \in Idx : jdex - inc < q /\ q <= index => tmp <= arr'[q]
  <2>1. ASSUME NEW p \in Idx, NEW q \in Idx, p < q, q <= index, p # jdex - inc, q # jdex - inc
        PROVE  arr'[p] <= arr'[q]
    <3>1. p \in Int /\ q \in Int
      BY DEF Idx
    <3>2. CASE q = jdex
      <4>1. p < jdex - inc /\ p # jdex
        BY <1>2, <1>7, <2>1, <3>1, <3>2
      <4> QED
        BY <1>2, <1>4, <1>6, <1>7, <3>2, <4>1
    <3>3. CASE p = jdex
      <4>1. q # jdex /\ jdex - inc < q /\ jdex - inc # jdex
        BY <1>2, <1>7, <2>1, <3>1, <3>3
      <4> QED
        BY <1>2, <1>4, <1>6, <1>7, <2>1, <3>3, <4>1
    <3>4. CASE p # jdex /\ q # jdex
      BY <1>2, <1>6, <1>7, <2>1, <3>4
    <3> QED
      BY <3>2, <3>3, <3>4
  <2>2. ASSUME NEW q \in Idx, jdex - inc < q, q <= index PROVE tmp <= arr'[q]
    <3>1. q = jdex \/ jdex < q
      BY <1>2, <1>7, <2>2 DEF Idx
    <3>2. arr[jdex - inc] \in Int
      BY <1>2, <1>4
    <3>3. jdex < q => q # jdex
      BY <1>2 DEF Idx
    <3> QED
      BY <1>1, <1>2, <1>6, <1>7, <2>2, <3>1, <3>2, <3>3
  <2> QED
    BY <2>1, <2>2
<1>8. Multiple(index)' /\ Multiple(jdex)'
  BY <1>1, <1>2, <1>3 DEF Multiple
<1>9. jdex' >= 0 /\ jdex' <= index
  BY <1>1, <1>2, <1>3
<1>10. ChainInv'
  BY <1>1, <1>2, <1>5, <1>7, <1>8, <1>9 DEF ChainInv
<1> QED
  BY <1>1, <1>2, <1>5, <1>10 DEF SortTypes

(* The element that was taken out is put where the larger ones end. *)
LEMMA ChainPutsBack ==
    ASSUME SortTypes, ChainInv, fn \in {"insert_sort", "shell_sort"}, PutBack,
           UNCHANGED <<fn, given, count, ranges>>
    PROVE  SortTypes' /\ ChainInv'
<1>1. /\ fn' = fn /\ given' = given /\ count' = count /\ Idx' = Idx
      /\ left' = left /\ right' = right /\ jobs' = jobs
      /\ pc = "inner" /\ ~(jdex > 0 /\ tmp < arr[jdex - inc]) /\ pc' = "outer"
      /\ arr' = [arr EXCEPT ![jdex] = tmp] /\ jdex' = jdex
      /\ index' = index + inc /\ inc' = inc /\ tmp' = tmp
  BY DEF ranges, Idx, PutBack, Above
<1>2. /\ inc >= 1 /\ inc <= index /\ Multiple(index) /\ (fn = "insert_sort" => inc = 1)
      /\ index \in Int /\ jdex \in Int /\ inc \in Int /\ tmp \in Int /\ count \in Nat /\ arr \in [Idx -> Int]
      /\ index < count /\ 0 <= jdex /\ jdex <= index /\ Moved(given, Filled(arr, jdex, tmp))
      /\ inc = 1 =>
            /\ \A p, q \in Idx : p < q /\ q <= index /\ p # jdex /\ q # jdex => arr[p] <= arr[q]
            /\ \A q \in Idx : jdex < q /\ q <= index => tmp <= arr[q]
  BY <1>1 DEF ChainInv, SortTypes
<1>3. jdex \in Idx
  BY <1>2 DEF Idx
<1>4. arr' \in [Idx -> Int] /\ Moved(given, arr)' /\ arr'[jdex] = tmp /\ \A x \in Idx : x # jdex => arr'[x] = arr[x]
  BY <1>1, <1>2, <1>3 DEF Filled
<1>5. ASSUME inc = 1, NEW p \in Idx, NEW q \in Idx, p < q, q < index + inc PROVE arr'[p] <= arr'[q]
  <2>1. p \in Int /\ q \in Int /\ 0 <= p /\ q <= index /\ p # q
    BY <1>2, <1>5 DEF Idx
  <2>2. CASE p = jdex
    BY <1>2, <1>4, <1>5, <2>1, <2>2
  <2>3. CASE q = jdex
    <3>1. jdex > 0 /\ jdex - 1 \in Idx /\ jdex - 1 <= index /\ (p = jdex - 1 \/ p < jdex - 1) /\ jdex - 1 # jdex
      BY <1>2, <1>5, <2>1, <2>3 DEF Idx
    <3>2. arr[p] <= arr[jdex - 1] /\ arr[p] \in Int /\ arr[jdex - 1] \in Int
      BY <1>2, <1>5, <2>1, <2>3, <3>1
    <3>3. arr[jdex - 1] <= tmp
      BY <1>1, <1>2, <1>5, <3>1, <3>2
    <3>4. arr'[p] = arr[p]
      BY <1>4, <2>1, <2>3
    <3> QED
      BY <1>2, <1>4, <2>3, <3>2, <3>3, <3>4
  <2>4. CASE p # jdex /\ q # jdex
    BY <1>2, <1>4, <1>5, <2>1, <2>4
  <2> QED
    BY <2>2, <2>3, <2>4
<1>6. Multiple(index)'
  <2>1. PICK k \in Nat : index = k * inc
    BY <1>2 DEF Multiple
  <2>2. k * inc + inc = (k + 1) * inc /\ k + 1 \in Nat
    BY <1>2, Multiples
  <2> QED
    BY <1>1, <2>1, <2>2 DEF Multiple
<1>7. ChainInv'
  BY <1>1, <1>2, <1>4, <1>5, <1>6 DEF ChainInv
<1> QED
  BY <1>1, <1>2, <1>4, <1>7 DEF SortTypes

(* What is sorted up to the end of the array is sorted. *)
LEMMA ChainSorted ==
    ASSUME SortTypes, ChainInv, pc = "outer", ~(index < count), inc = 1
    PROVE  Ascends(arr)
<1> SUFFICES ASSUME NEW p \in Idx, NEW q \in Idx, p <= q PROVE arr[p] <= arr[q]
  BY DEF Ascends, SortTypes
<1>1. p = q \/ (p < q /\ q < index)
  BY DEF SortTypes, Idx
<1> QED
  BY <1>1 DEF ChainInv, SortTypes

(* insert_sort makes one pass with inc = 1. *)
LEMMA InsertKeeps ==
    ASSUME SortTypes, ChainInv, fn = "insert_sort", insert_sort, UNCHANGED <<fn, given, count, ranges>>
    PROVE  SortTypes' /\ ChainInv'
<1>1. CASE pc = "outer" /\ ~(index < count) /\ Return
  <2>1. /\ fn' = fn /\ given' = given /\ count' = count /\ Idx' = Idx
        /\ left' = left /\ right' = right /\ jobs' = jobs
        /\ pc' = "done" /\ arr' = arr /\ index' = index /\ jdex' = jdex /\ inc' = inc /\ tmp' = tmp
    BY <1>1 DEF ranges, Idx, Return, loops
  <2>2. inc = 1 /\ Moved(given, arr) /\ Ascends(arr)
    BY <1>1, ChainSorted DEF ChainInv
  <2>3. ChainInv'
    BY <2>1, <2>2 DEF ChainInv, Ascends
  <2> QED
    BY <2>1, <2>3 DEF SortTypes
<1> QED
  BY <1>1, ChainTakesOut, ChainMovesUp, ChainPutsBack DEF insert_sort

(* shell_sort: passes with smaller and smaller inc, the last of them 1. *)
LEMMA ShellKeeps ==
    ASSUME SortTypes, ChainInv, fn = "shell_sort", shell_sort, UNCHANGED <<fn, given, count, ranges>>
    PROVE  SortTypes' /\ ChainInv'
<1>1. /\ fn' = fn /\ given' = given /\ count' = count /\ Idx' = Idx
      /\ left' = left /\ right' = right /\ jobs' = jobs
  BY DEF ranges, Idx
<1>2. CASE pc = "gap" /\ ~(inc > 0) /\ Return
  <2>1. pc' = "done" /\ arr' = arr /\ index' = index /\ jdex' = jdex /\ inc' = inc /\ tmp' = tmp
    BY <1>2 DEF Return, loops
  <2>2. inc = 0 /\ Moved(given, arr) /\ Ascends(arr)
    BY <1>2 DEF ChainInv, SortTypes
  <2>3. ChainInv'
    BY <1>1, <2>1, <2>2 DEF ChainInv, Ascends
  <2> QED
    BY <1>1, <2>1, <2>3 DEF SortTypes
<1>3. CASE BeginPass
  <2>1. /\ pc = "gap" /\ inc > 0 /\ pc' = "outer" /\ index' = inc
        /\ arr' = arr /\ jdex' = jdex /\ inc' = inc /\ tmp' = tmp
    BY <1>3 DEF BeginPass
  <2>2. inc \in Int /\ inc >= 1 /\ Moved(given, arr)
    BY <2>1 DEF ChainInv, SortTypes
  <2>3. Multiple(index)'
    <3>1. inc = 1 * inc /\ 1 \in Nat
      BY <2>2
    <3> QED
      BY <2>1, <3>1 DEF Multiple
  <2>4. inc = 1 => \A p, q \in Idx : ~(p < q /\ q < inc)
    BY DEF Idx
  <2>5. ChainInv'
    BY <1>1, <2>1, <2>2, <2>3, <2>4 DEF ChainInv
  <2> QED
    BY <1>1, <2>1, <2>5 DEF SortTypes
<1>4. CASE EndPass
  <2>1. /\ pc = "outer" /\ ~(index < count) /\ pc' = "gap" /\ inc' = inc \div 2
        /\ arr' = arr /\ index' = index /\ jdex' = jdex /\ tmp' = tmp
    BY <1>4 DEF EndPass
  <2>2. inc \in Int /\ inc >= 1 /\ Moved(given, arr)
    BY <2>1 DEF ChainInv, SortTypes
  <2>3. inc \div 2 \in Int /\ inc \div 2 >= 0 /\ (inc \div 2 = 0 => inc = 1)
    BY <2>2
  <2>4. inc' = 0 => Ascends(arr)
    BY <2>1, <2>3, ChainSorted
  <2>5. ChainInv'
    BY <1>1, <2>1, <2>2, <2>3, <2>4 DEF ChainInv, Ascends
  <2> QED
    BY <1>1, <2>1, <2>3, <2>5 DEF SortTypes
<1> QED
  BY <1>2, <1>3, <1>4, ChainTakesOut, ChainMovesUp, ChainPutsBack DEF shell_sort

(* What is known of the jobs, and that the partitioned range is in the array. *)
LEMMA JobFacts ==
    ASSUME SortTypes, JobsApart, jobs # <<>>
    PROVE  /\ DOMAIN jobs = 1..Len(jobs) /\ Len(jobs) \in Nat /\ 1 \in DOMAIN jobs
           /\ Head(jobs) = jobs[1]
           /\ \A k \in DOMAIN jobs : jobs[k].first \in Int /\ jobs[k].last \in Int
           /\ \A k \in DOMAIN jobs : 0 <= jobs[k].first /\ jobs[k].last < count
           /\ Tail(jobs) \in Seq([first : Int, last : Int]) /\ Len(Tail(jobs)) = Len(jobs) - 1
           /\ \A k \in 1..Len(jobs) - 1 : Tail(jobs)[k] = jobs[k + 1] /\ k + 1 \in DOMAIN jobs
<1> DEFINE R == [first : Int, last : Int]
<1>1. jobs \in Seq(R)
  BY DEF SortTypes
<1>2. \A r \in R : r.first \in Int /\ r.last \in Int
  OBVIOUS
<1> HIDE DEF R
<1>3. DOMAIN jobs = 1..Len(jobs) /\ Len(jobs) \in Nat /\ Len(jobs) > 0 /\ Head(jobs) = jobs[1]
  BY <1>1
<1>4. \A k \in 1..Len(jobs) : jobs[k] \in R
  BY <1>1
<1>5. /\ Tail(jobs) \in Seq(R) /\ Len(Tail(jobs)) = Len(jobs) - 1
      /\ \A k \in 1..Len(jobs) - 1 : Tail(jobs)[k] = jobs[k + 1]
  BY <1>1, HeadTailProperties
<1>6. \A k \in 1..Len(jobs) - 1 : k + 1 \in 1..Len(jobs)
  BY <1>3
<1>7. \A k \in DOMAIN jobs : jobs[k].first \in Int /\ jobs[k].last \in Int
  BY <1>2, <1>3, <1>4
<1>8. \A k \in DOMAIN jobs : 0 <= jobs[k].first /\ jobs[k].last < count
  BY DEF JobsApart
<1>9. 1 \in DOMAIN jobs
  BY <1>3
<1> QED
  BY <1>3, <1>5, <1>6, <1>7, <1>8, <1>9 DEF R

(* Two elements of the innermost job may be exchanged. *)
LEMMA ExchangeInJob ==
    ASSUME SortTypes, JobsApart, jobs # <<>>, NEW b \in [Idx -> Int], OrderedButJobs(b),
           NEW i \in Idx, NEW j \in Idx,
           jobs[1].first <= i, i <= jobs[1].last, jobs[1].first <= j, j <= jobs[1].last
    PROVE  OrderedButJobs([b EXCEPT ![i] = b[j], ![j] = b[i]])
<1> DEFINE c == [b EXCEPT ![i] = b[j], ![j] = b[i]]
           Within(p, q) == \E k \in DOMAIN jobs : jobs[k].first <= p /\ q <= jobs[k].last
<1>1. /\ DOMAIN jobs = 1..Len(jobs) /\ Len(jobs) \in Nat /\ 1 \in DOMAIN jobs
      /\ \A k \in DOMAIN jobs : jobs[k].first \in Int /\ jobs[k].last \in Int
      /\ \A k \in DOMAIN jobs : k = 1 \/ jobs[1].last < jobs[k].first
      /\ \A p \in Idx : p \in Int /\ b[p] \in Int
  <2>1. /\ DOMAIN jobs = 1..Len(jobs) /\ Len(jobs) \in Nat /\ 1 \in DOMAIN jobs
        /\ \A k \in DOMAIN jobs : jobs[k].first \in Int /\ jobs[k].last \in Int
    BY JobFacts
  <2>2. \A k \in DOMAIN jobs : k = 1 \/ 1 < k
    BY <2>1
  <2> QED
    BY <2>1, <2>2 DEF JobsApart, Idx
<1>2. c[i] = b[j] /\ c[j] = b[i] /\ \A x \in Idx : x # i /\ x # j => c[x] = b[x]
  OBVIOUS
<1> HIDE DEF c
<1>3. ASSUME NEW p \in Idx, NEW q \in Idx, p < q, ~Within(p, q) PROVE c[p] <= c[q]
  <2>1. b[p] <= b[q]
    BY <1>3 DEF OrderedButJobs
  <2>2. ~(jobs[1].first <= p /\ q <= jobs[1].last)
    BY <1>1, <1>3
  <2>3. CASE p \in {i, j}
    <3>1. jobs[1].last < q /\ q # i /\ q # j /\ i < q /\ j < q
      BY <1>1, <2>2, <2>3
    <3>2. ~Within(i, q) /\ ~Within(j, q)
      <4>1. ASSUME NEW x \in {i, j}, NEW k \in DOMAIN jobs, jobs[k].first <= x, q <= jobs[k].last PROVE FALSE
        <5>1. x <= jobs[1].last /\ x \in Int /\ q \in Int
          BY <1>1, <4>1
        <5>2. jobs[1].last \in Int /\ jobs[k].first \in Int /\ (k = 1 \/ jobs[1].last < jobs[k].first)
          BY <1>1
        <5> QED
          BY <3>1, <4>1, <5>1, <5>2
      <4> QED
        BY <4>1
    <3>3. b[i] <= b[q] /\ b[j] <= b[q]
      BY <3>1, <3>2 DEF OrderedButJobs
    <3> QED
      BY <1>2, <2>3, <3>1, <3>3
  <2>4. CASE q \in {i, j}
    <3>1. p < jobs[1].first /\ p # i /\ p # j /\ p < i /\ p < j
      BY <1>1, <2>2, <2>4
    <3>2. ~Within(p, i) /\ ~Within(p, j)
      <4>1. ASSUME NEW x \in {i, j}, NEW k \in DOMAIN jobs, jobs[k].first <= p, x <= jobs[k].last PROVE FALSE
        <5>1. x <= jobs[1].last /\ x \in Int /\ p \in Int /\ p < x
          BY <1>1, <3>1, <4>1
        <5>2. /\ jobs[1].first \in Int /\ jobs[1].last \in Int /\ jobs[k].first \in Int
              /\ k = 1 \/ jobs[1].last < jobs[k].first
          BY <1>1
        <5> QED
          BY <3>1, <4>1, <5>1, <5>2
      <4> QED
        BY <4>1
    <3>3. b[p] <= b[i] /\ b[p] <= b[j]
      BY <3>1, <3>2 DEF OrderedButJobs
    <3> QED
      BY <1>2, <2>4, <3>1, <3>3
  <2> QED
    BY <1>2, <2>1, <2>3, <2>4
<1>4. OrderedButJobs(c)
  BY <1>3 DEF OrderedButJobs
<1> QED
  BY <1>4 DEF c

(* An element goes from one end of the partition to the other, and the hole  *)
(* back.                                                                     *)
LEMMA HoleCrosses ==
    ASSUME SortTypes, JobsApart, NEW i \in Idx, NEW j \in Idx, Partitioned(i), tmp' = tmp, given' = given,
           jobs' = jobs, left' = left, right' = right, count' = count,
           {i, j} = {left, right}, arr' = [arr EXCEPT ![i] = arr[j]],
           IF i = left THEN arr[j] <= tmp ELSE arr[j] >= tmp
    PROVE  /\ arr' \in [Idx -> Int]
           /\ left # right => /\ jobs' # <<>> /\ jobs[1].first <= left /\ left <= right /\ right <= jobs[1].last
                              /\ Moved(given', Filled(arr', j, tmp'))
                              /\ OrderedButJobs(Filled(arr, j, tmp))'
                              /\ \A p \in Idx : jobs[1].first <= p /\ p < left => arr'[p] <= tmp
                              /\ \A q \in Idx : right < q /\ q <= jobs[1].last => tmp <= arr'[q]
<1> DEFINE b == Filled(arr, i, tmp)
           d == Filled([arr EXCEPT ![i] = arr[j]], j, tmp)
<1>1. /\ jobs # <<>> /\ jobs[1].first <= left /\ left <= right /\ right <= jobs[1].last
      /\ Moved(given, b) /\ OrderedButJobs(b)
      /\ \A p \in Idx : jobs[1].first <= p /\ p < left => arr[p] <= tmp
      /\ \A q \in Idx : right < q /\ q <= jobs[1].last => tmp <= arr[q]
  BY DEF Partitioned
<1>2. /\ b \in [Idx -> Int] /\ d = [b EXCEPT ![i] = b[j], ![j] = b[i]] /\ Moved(given, d)
      /\ [arr EXCEPT ![i] = arr[j]] \in [Idx -> Int]
  BY <1>1, HoleMoves
<1>3. OrderedButJobs(d)
  <2>1. jobs[1].first \in Int /\ jobs[1].last \in Int /\ left \in Int /\ right \in Int
    BY <1>1, JobFacts DEF SortTypes
  <2>2. (i = left \/ i = right) /\ (j = left \/ j = right)
    OBVIOUS
  <2>3. jobs[1].first <= i /\ i <= jobs[1].last
    BY <1>1, <2>1, <2>2
  <2>4. jobs[1].first <= j /\ j <= jobs[1].last
    BY <1>1, <2>1, <2>2
  <2> HIDE DEF b, d
  <2> QED
    BY <1>1, <1>2, <2>3, <2>4, ExchangeInJob
<1>4. Filled(arr', j, tmp') = d /\ Idx' = Idx
  BY DEF Filled, Idx
<1>5. Moved(given', Filled(arr', j, tmp')) /\ OrderedButJobs(Filled(arr, j, tmp))'
  BY <1>2, <1>3, <1>4 DEF OrderedButJobs
<1>6. /\ \A p \in Idx : jobs[1].first <= p /\ p < left => arr'[p] <= tmp
      /\ \A q \in Idx : right < q /\ q <= jobs[1].last => tmp <= arr'[q]
  <2>1. left \in Int /\ right \in Int /\ \A x \in Idx : x \in Int
    BY DEF SortTypes, Idx
  <2>2. \A x \in Idx : x # i => arr'[x] = arr[x]
    BY DEF SortTypes
  <2>3. \A x \in Idx : x < left \/ right < x => x # i
    <3>1. i = left \/ i = right
      OBVIOUS
    <3>2. left <= right
      BY <1>1
    <3> QED
      BY <2>1, <3>1, <3>2
  <2>4. \A p \in Idx : jobs[1].first <= p /\ p < left => arr'[p] <= tmp
    BY <1>1, <2>2, <2>3
  <2>5. \A q \in Idx : right < q /\ q <= jobs[1].last => tmp <= arr'[q]
    BY <1>1, <2>2, <2>3
  <2> QED
    BY <2>4, <2>5
<1> QED
  BY <1>1, <1>2, <1>5, <1>6

(* A call returns, or takes its first element out and leaves a hole there. *)
LEMMA QuickEnters ==
    ASSUME SortTypes, QuickInv, fn = "quick_sort", Enter, UNCHANGED <<fn, given, count>>
    PROVE  SortTypes' /\ QuickInv'
<1>1. /\ fn' = fn /\ given' = given /\ count' = count /\ Idx' = Idx
      /\ arr' = arr /\ index' = index /\ jdex' = jdex /\ inc' = inc
      /\ pc = "call" /\ jobs # <<>>
  BY DEF Idx, Enter
<1>2. JobsApart /\ Moved(given, arr) /\ OrderedButJobs(arr)
  BY <1>1 DEF QuickInv
<1>3. CASE Head(jobs).first >= Head(jobs).last /\ jobs' = Tail(jobs) /\ UNCHANGED <<pc, tmp, left, right>>
  <2>1. /\ jobs' \in Seq([first : Int, last : Int]) /\ DOMAIN jobs' = 1..Len(jobs) - 1 /\ Len(jobs) \in Nat
        /\ \A k \in 1..Len(jobs) - 1 : jobs'[k] = jobs[k + 1] /\ k + 1 \in DOMAIN jobs
    BY <1>1, <1>2, <1>3, JobFacts
  <2>2. JobsApart'
    <3>1. \A k, m \in 1..Len(jobs) - 1 : k < m => k + 1 < m + 1
      BY <2>1
    <3> QED
      BY <1>1, <1>2, <2>1, <3>1 DEF JobsApart
  <2>3. OrderedButJobs(arr)'
    <3> SUFFICES ASSUME NEW p \in Idx, NEW q \in Idx, p < q,
                        ~(\E k \in DOMAIN jobs' : jobs'[k].first <= p /\ q <= jobs'[k].last)
                 PROVE  arr[p] <= arr[q]
      BY <1>1 DEF OrderedButJobs
    <3>1. ASSUME NEW k \in DOMAIN jobs, jobs[k].first <= p, q <= jobs[k].last PROVE FALSE
      <4>1. CASE k = 1
        <5>1. Head(jobs) = jobs[1] /\ 1 \in DOMAIN jobs
              /\ \A m \in DOMAIN jobs : jobs[m].first \in Int /\ jobs[m].last \in Int
          BY <1>1, <1>2, JobFacts
        <5>2. jobs[1].first >= jobs[1].last /\ jobs[1].first \in Int /\ jobs[1].last \in Int
          BY <1>3, <5>1
        <5>3. p \in Int /\ q \in Int
          BY DEF Idx
        <5> QED
          BY <3>1, <4>1, <5>2, <5>3
      <4>2. CASE k # 1
        <5>1. k - 1 \in 1..Len(jobs) - 1 /\ (k - 1) + 1 = k
          BY <1>1, <1>2, <4>2, JobFacts
        <5>2. jobs'[k - 1] = jobs[k] /\ k - 1 \in DOMAIN jobs'
          BY <2>1, <5>1
        <5> QED
          BY <3>1, <5>2
      <4> QED
        BY <4>1, <4>2
    <3> QED
      BY <1>2, <3>1 DEF OrderedButJobs
  <2>4. QuickInv'
    BY <1>1, <1>2, <1>3, <2>2, <2>3 DEF QuickInv
  <2> QED
    BY <1>1, <1>3, <2>1, <2>4 DEF SortTypes
<1>4. CASE /\ Head(jobs).first < Head(jobs).last
           /\ left' = Head(jobs).first /\ right' = Head(jobs).last /\ tmp' = arr[Head(jobs).first]
           /\ pc' = "from_right" /\ UNCHANGED jobs
  <2> DEFINE l == jobs[1].first
             r == jobs[1].last
  <2>1. l \in Int /\ r \in Int /\ 0 <= l /\ r < count /\ l < r /\ left' = l /\ right' = r /\ tmp' = arr[l]
        /\ jobs' = jobs /\ count \in Nat
    BY <1>1, <1>2, <1>4, JobFacts DEF SortTypes
  <2> HIDE DEF l, r
  <2>2. l \in Idx /\ arr[l] \in Int
    BY <2>1 DEF Idx, SortTypes
  <2>3. Filled(arr', left', tmp') = arr
    BY <1>1, <2>1, <2>2 DEF Filled, SortTypes
  <2>4. OrderedButJobs(arr)' /\ JobsApart'
    BY <1>1, <1>2, <2>1 DEF OrderedButJobs, JobsApart
  <2>5. \A p \in Idx : ~(l <= p /\ p < l) /\ ~(r < p /\ p <= r)
    BY <2>1 DEF Idx
  <2>6. l <= l /\ l <= r /\ r <= r
    BY <2>1
  <2>7. Partitioned(left)'
    BY <1>1, <1>2, <2>1, <2>3, <2>4, <2>5, <2>6 DEF Partitioned, OrderedButJobs, l, r
  <2>8. QuickInv'
    BY <1>4, <2>4, <2>7 DEF QuickInv
  <2> QED
    BY <1>1, <2>1, <2>2, <2>8 DEF SortTypes
<1> QED
  BY <1>3, <1>4 DEF Enter

(* The scan from the right passes an element, or moves the hole to it. *)
LEMMA QuickScansRight ==
    ASSUME SortTypes, QuickInv, fn = "quick_sort", FromRight, UNCHANGED <<fn, given, count>>
    PROVE  SortTypes' /\ QuickInv'
<1>1. /\ fn' = fn /\ given' = given /\ count' = count /\ Idx' = Idx
      /\ index' = index /\ jdex' = jdex /\ inc' = inc /\ tmp' = tmp /\ left' = left /\ jobs' = jobs
      /\ pc = "from_right" /\ left < right
  BY DEF Idx, FromRight, loops
<1>2. JobsApart /\ Partitioned(left)
  BY <1>1 DEF QuickInv
<1>3. /\ jobs # <<>> /\ jobs[1].first <= left /\ right <= jobs[1].last
      /\ jobs[1].first \in Int /\ jobs[1].last \in Int /\ 0 <= jobs[1].first /\ jobs[1].last < count
      /\ index \in Int /\ jdex \in Int /\ inc \in Int /\ tmp \in Int /\ left \in Int /\ right \in Int /\ count \in Nat /\ arr \in [Idx -> Int]
  BY <1>2, JobFacts DEF SortTypes, Partitioned
<1>4. left \in Idx /\ right \in Idx /\ JobsApart'
  BY <1>1, <1>2, <1>3 DEF Idx, JobsApart
<1>5. CASE arr[right] >= tmp /\ right' = right - 1 /\ UNCHANGED <<pc, arr>>
  <2>1. \A q \in Idx : right - 1 < q /\ q <= jobs[1].last => tmp <= arr[q]
    <3> SUFFICES ASSUME NEW q \in Idx, right - 1 < q, q <= jobs[1].last PROVE tmp <= arr[q]
      OBVIOUS
    <3>1. q = right \/ right < q
      BY <1>3 DEF Idx
    <3>2. arr[right] \in Int
      BY <1>3, <1>4
    <3> QED
      BY <1>2, <1>3, <1>5, <3>1, <3>2 DEF Partitioned
  <2>2. left <= right - 1 /\ right - 1 <= jobs[1].last
    BY <1>1, <1>3
  <2>3. Filled(arr', left', tmp') = Filled(arr, left, tmp)
    BY <1>1, <1>5 DEF Filled
  <2>4. Partitioned(left)'
    BY <1>1, <1>2, <1>5, <2>1, <2>2, <2>3 DEF Partitioned, OrderedButJobs
  <2>5. QuickInv'
    BY <1>1, <1>4, <1>5, <2>4 DEF QuickInv
  <2> QED
    BY <1>1, <1>3, <1>5, <2>5 DEF SortTypes
<1>6. CASE arr[right] < tmp /\ arr' = [arr EXCEPT ![left] = arr[right]] /\ pc' = "from_left" /\ UNCHANGED right
  <2>1. arr[right] <= tmp /\ left # right
    BY <1>1, <1>3, <1>4, <1>6
  <2>2. /\ arr' \in [Idx -> Int]
        /\ jobs' # <<>> /\ jobs[1].first <= left /\ left <= right /\ right <= jobs[1].last
        /\ Moved(given', Filled(arr', right', tmp'))
        /\ OrderedButJobs(Filled(arr, right, tmp))'
        /\ \A p \in Idx : jobs[1].first <= p /\ p < left => arr'[p] <= tmp
        /\ \A q \in Idx : right < q /\ q <= jobs[1].last => tmp <= arr'[q]
    BY <1>1, <1>2, <1>4, <1>6, <2>1, HoleCrosses
  <2>3. Partitioned(right)'
    BY <1>1, <1>6, <2>2 DEF Partitioned
  <2>4. QuickInv'
    BY <1>4, <1>6, <2>3 DEF QuickInv
  <2> QED
    BY <1>1, <1>3, <1>6, <2>2, <2>4 DEF SortTypes
<1> QED
  BY <1>5, <1>6 DEF FromRight

(* The scan from the left passes an element, or moves the hole to it. *)
LEMMA QuickScansLeft ==
    ASSUME SortTypes, QuickInv, fn = "quick_sort", FromLeft, UNCHANGED <<fn, given, count>>
    PROVE  SortTypes' /\ QuickInv'
<1>1. /\ fn' = fn /\ given' = given /\ count' = count /\ Idx' = Idx
      /\ index' = index /\ jdex' = jdex /\ inc' = inc /\ tmp' = tmp /\ right' = right /\ jobs' = jobs
      /\ pc = "from_left" /\ left < right
  BY DEF Idx, FromLeft, loops
<1>2. JobsApart /\ Partitioned(right)
  BY <1>1 DEF QuickInv
<1>3. /\ jobs # <<>> /\ jobs[1].first <= left /\ right <= jobs[1].last
      /\ jobs[1].first \in Int /\ jobs[1].last \in Int /\ 0 <= jobs[1].first /\ jobs[1].last < count
      /\ index \in Int /\ jdex \in Int /\ inc \in Int /\ tmp \in Int /\ left \in Int /\ right \in Int /\ count \in Nat /\ arr \in [Idx -> Int]
  BY <1>2, JobFacts DEF SortTypes, Partitioned
<1>4. left \in Idx /\ right \in Idx /\ JobsApart'
  BY <1>1, <1>2, <1>3 DEF Idx, JobsApart
<1>5. CASE arr[left] <= tmp /\ left' = left + 1 /\ UNCHANGED <<pc, arr>>
  <2>1. \A p \in Idx : jobs[1].first <= p /\ p < left + 1 => arr[p] <= tmp
    <3> SUFFICES ASSUME NEW p \in Idx, jobs[1].first <= p, p < left + 1 PROVE arr[p] <= tmp
      OBVIOUS
    <3>1. p = left \/ p < left
      BY <1>3 DEF Idx
    <3> QED
      BY <1>2, <1>5, <3>1 DEF Partitioned
  <2>2. left + 1 <= right /\ jobs[1].first <= left + 1
    BY <1>1, <1>3
  <2>3. Filled(arr', right', tmp') = Filled(arr, right, tmp)
    BY <1>1, <1>5 DEF Filled
  <2>4. Partitioned(right)'
    BY <1>1, <1>2, <1>5, <2>1, <2>2, <2>3 DEF Partitioned, OrderedButJobs
  <2>5. QuickInv'
    BY <1>1, <1>4, <1>5, <2>4 DEF QuickInv
  <2> QED
    BY <1>1, <1>3, <1>5, <2>5 DEF SortTypes
<1>6. CASE arr[left] > tmp /\ arr' = [arr EXCEPT ![right] = arr[left]] /\ pc' = "from_right" /\ UNCHANGED left
  <2>1. arr[left] >= tmp /\ left # right
    BY <1>1, <1>3, <1>4, <1>6
  <2>2. /\ arr' \in [Idx -> Int]
        /\ jobs' # <<>> /\ jobs[1].first <= left /\ left <= right /\ right <= jobs[1].last
        /\ Moved(given', Filled(arr', left', tmp'))
        /\ OrderedButJobs(Filled(arr, left, tmp))'
        /\ \A p \in Idx : jobs[1].first <= p /\ p < left => arr'[p] <= tmp
        /\ \A q \in Idx : right < q /\ q <= jobs[1].last => tmp <= arr'[q]
    BY <1>1, <1>2, <1>4, <1>6, <2>1, HoleCrosses
  <2>3. Partitioned(left)'
    BY <1>1, <1>6, <2>2 DEF Partitioned
  <2>4. QuickInv'
    BY <1>4, <1>6, <2>3 DEF QuickInv
  <2> QED
    BY <1>1, <1>3, <1>6, <2>2, <2>4 DEF SortTypes
<1> QED
  BY <1>5, <1>6 DEF FromLeft

(* The two parts take the place of the range that was partitioned. *)
LEMMA PartsFollow ==
    ASSUME SortTypes, JobsApart, jobs # <<>>, NEW m \in Int,
           jobs' = <<Job(jobs[1].first, m - 1), Job(m + 1, jobs[1].last)>> \o Tail(jobs)
    PROVE  /\ jobs' \in Seq([first : Int, last : Int]) /\ 1 \in DOMAIN jobs' /\ 2 \in DOMAIN jobs'
           /\ jobs'[1].first = jobs[1].first /\ jobs'[1].last = m - 1
           /\ jobs'[2].first = m + 1 /\ jobs'[2].last = jobs[1].last
           /\ \A k \in DOMAIN jobs : k # 1 => k + 1 \in DOMAIN jobs' /\ jobs'[k + 1] = jobs[k]
           /\ \A k \in DOMAIN jobs' :
                 k \in Int /\ (k = 1 \/ k = 2 \/ (k > 2 /\ k - 1 \in DOMAIN jobs /\ jobs'[k] = jobs[k - 1]))
<1> DEFINE R == [first : Int, last : Int]
           A == Job(jobs[1].first, m - 1)
           B == Job(m + 1, jobs[1].last)
           two == <<A, B>>
           t == Tail(jobs)
           n == Len(jobs)
<1>1. /\ DOMAIN jobs = 1..n /\ n \in Nat /\ 1 \in DOMAIN jobs /\ jobs[1].first \in Int /\ jobs[1].last \in Int
      /\ t \in Seq(R) /\ Len(t) = n - 1 /\ \A k \in 1..n - 1 : t[k] = jobs[k + 1]
  BY JobFacts
<1>2. A \in R /\ B \in R /\ A.first = jobs[1].first /\ A.last = m - 1 /\ B.first = m + 1 /\ B.last = jobs[1].last
  BY <1>1 DEF Job
<1> HIDE DEF R, A, B, t, n
<1>3. two \in Seq(R) /\ Len(two) = 2 /\ two[1] = A /\ two[2] = B
  BY <1>2
<1> HIDE DEF two
<1>4. n >= 1
  BY <1>1
<1>5. /\ two \o t \in Seq(R) /\ Len(two \o t) = Len(two) + Len(t)
      /\ \A i \in 1..Len(two) + Len(t) : (two \o t)[i] = IF i <= Len(two) THEN two[i] ELSE t[i - Len(two)]
  BY <1>1, <1>3, ConcatProperties
<1>6. jobs' = two \o t
  BY DEF two, t, A, B
<1>7. Len(two) + Len(t) = n + 1 /\ n + 1 \in Nat
  BY <1>1, <1>3
<1>8. /\ jobs' \in Seq(R) /\ Len(jobs') = n + 1
      /\ \A i \in 1..n + 1 : jobs'[i] = IF i <= 2 THEN two[i] ELSE t[i - 2]
  BY <1>3, <1>5, <1>6, <1>7
<1>9. DOMAIN jobs' = 1..n + 1
  BY <1>8, LenProperties
<1>10. 1 \in DOMAIN jobs' /\ 2 \in DOMAIN jobs'
  BY <1>1, <1>4, <1>9
<1>11. jobs'[1] = A /\ jobs'[2] = B
  BY <1>3, <1>8, <1>9, <1>10
<1>12. ASSUME NEW k \in DOMAIN jobs, k # 1 PROVE k + 1 \in DOMAIN jobs' /\ jobs'[k + 1] = jobs[k]
  <2>1. k \in Int /\ n \in Int /\ 2 <= k /\ k <= n
    BY <1>1, <1>12
  <2>2. k + 1 \in 1..n + 1 /\ ~(k + 1 <= 2)
    BY <2>1
  <2>3. k - 1 \in 1..n - 1
    BY <2>1
  <2>4. k + 1 - 2 = k - 1 /\ (k - 1) + 1 = k
    BY <2>1
  <2>5. jobs'[k + 1] = t[k - 1]
    <3>1. jobs'[k + 1] = IF k + 1 <= 2 THEN two[k + 1] ELSE t[k + 1 - 2]
      BY <1>8, <2>2
    <3> QED
      BY <2>2, <2>4, <3>1
  <2> QED
    BY <1>1, <1>9, <2>2, <2>3, <2>4, <2>5
<1>13. ASSUME NEW k \in DOMAIN jobs'
       PROVE  k \in Int /\ (k = 1 \/ k = 2 \/ (k > 2 /\ k - 1 \in DOMAIN jobs /\ jobs'[k] = jobs[k - 1]))
  <2>1. k \in Int /\ (k = 1 \/ k = 2 \/ (k > 2 /\ k - 1 \in 1..n /\ k - 1 # 1 /\ (k - 1) + 1 = k))
    BY <1>1, <1>9
  <2>2. CASE k > 2 /\ k - 1 \in 1..n /\ k - 1 # 1 /\ (k - 1) + 1 = k
    <3>1. jobs'[(k - 1) + 1] = jobs[k - 1]
      BY <1>1, <1>12, <2>2
    <3> QED
      BY <1>1, <2>1, <2>2, <3>1
  <2> QED
    BY <2>1, <2>2
<1> QED
  BY <1>2, <1>8, <1>10, <1>11, <1>12, <1>13 DEF R

(* The pivot fills the hole: smaller elements are on its left, larger ones on its right. *)
LEMMA QuickPlaces ==
    ASSUME SortTypes, QuickInv, fn = "quick_sort", Place, UNCHANGED <<fn, given, count>>
    PROVE  SortTypes' /\ QuickInv'
<1>1. /\ fn' = fn /\ given' = given /\ count' = count /\ Idx' = Idx
      /\ index' = index /\ jdex' = jdex /\ inc' = inc /\ tmp' = tmp /\ left' = left /\ right' = right
      /\ pc \in {"from_right", "from_left"} /\ ~(left < right) /\ pc' = "call" /\ arr' = [arr EXCEPT ![left] = tmp]
      /\ jobs' = <<Job(Head(jobs).first, right - 1), Job(right + 1, Head(jobs).last)>> \o Tail(jobs)
  BY DEF Idx, Place, loops
<1> DEFINE l == jobs[1].first
           r == jobs[1].last
<1>2. /\ jobs # <<>> /\ l <= left /\ left <= right /\ right <= r
      /\ \A p \in Idx : l <= p /\ p < left => arr[p] <= tmp
      /\ \A q \in Idx : right < q /\ q <= r => tmp <= arr[q]
      /\ JobsApart
  BY <1>1 DEF QuickInv, Partitioned
<1>3. /\ l \in Int /\ r \in Int /\ 0 <= l /\ r < count /\ Head(jobs) = jobs[1]
      /\ DOMAIN jobs \subseteq Int /\ 1 \in DOMAIN jobs
      /\ \A k \in DOMAIN jobs : 1 <= k
      /\ \A k \in DOMAIN jobs : jobs[k].first \in Int /\ jobs[k].last \in Int
      /\ \A k \in DOMAIN jobs : 0 <= jobs[k].first /\ jobs[k].last < count
  BY <1>2, JobFacts
<1>4. left \in Int /\ right \in Int /\ tmp \in Int /\ index \in Int /\ jdex \in Int /\ inc \in Int /\ count \in Nat
      /\ arr \in [Idx -> Int]
  BY DEF SortTypes
<1>5. left = right /\ left \in Idx
  BY <1>1, <1>2, <1>3, <1>4 DEF Idx
<1>6. Moved(given, Filled(arr, left, tmp)) /\ OrderedButJobs(Filled(arr, left, tmp))
  BY <1>1, <1>5 DEF QuickInv, Partitioned
<1>7. /\ arr' = Filled(arr, left, tmp) /\ arr' \in [Idx -> Int] /\ arr'[left] = tmp
      /\ \A x \in Idx : x # left => arr'[x] = arr[x]
  BY <1>1, <1>4, <1>5 DEF Filled
<1>8. /\ jobs' \in Seq([first : Int, last : Int]) /\ 1 \in DOMAIN jobs' /\ 2 \in DOMAIN jobs'
      /\ jobs'[1].first = l /\ jobs'[1].last = right - 1
      /\ jobs'[2].first = right + 1 /\ jobs'[2].last = r
      /\ \A k \in DOMAIN jobs : k # 1 => k + 1 \in DOMAIN jobs' /\ jobs'[k + 1] = jobs[k]
      /\ \A k \in DOMAIN jobs' :
            k \in Int /\ (k = 1 \/ k = 2 \/ (k > 2 /\ k - 1 \in DOMAIN jobs /\ jobs'[k] = jobs[k - 1]))
  BY <1>1, <1>2, <1>3, <1>4, PartsFollow
<1>9. \A x \in DOMAIN jobs : x # 1 => r < jobs[x].first
  BY <1>2, <1>3 DEF JobsApart
<1> HIDE DEF l, r
<1>10. JobsApart'
  <2>1. ASSUME NEW k \in DOMAIN jobs' PROVE 0 <= jobs'[k].first /\ jobs'[k].last < count
    <3>1. CASE k = 1
      <4>1. jobs'[k].first = l /\ jobs'[k].last = right - 1
        BY <1>8, <3>1
      <4> QED
        BY <1>2, <1>3, <1>4, <4>1
    <3>2. CASE k = 2
      <4>1. jobs'[k].first = right + 1 /\ jobs'[k].last = r
        BY <1>8, <3>2
      <4> QED
        BY <1>2, <1>3, <1>4, <4>1
    <3>3. CASE k - 1 \in DOMAIN jobs /\ jobs'[k] = jobs[k - 1]
      BY <1>3, <3>3
    <3> QED
      BY <1>8, <3>1, <3>2, <3>3
  <2>2. ASSUME NEW k \in DOMAIN jobs', NEW m \in DOMAIN jobs', k < m PROVE jobs'[k].last < jobs'[m].first
    <3>1. k \in Int /\ m \in Int
      BY <1>8
    <3>2. CASE k = 1 /\ m = 2
      <4>1. jobs'[k].last = right - 1 /\ jobs'[m].first = right + 1
        BY <1>8, <3>2
      <4> QED
        BY <1>4, <4>1
    <3>3. CASE (k = 1 \/ k = 2) /\ m > 2 /\ m - 1 \in DOMAIN jobs /\ jobs'[m] = jobs[m - 1]
      <4>1. r < jobs'[m].first /\ jobs'[m].first \in Int
        <5>1. m - 1 # 1
          BY <3>1, <3>3
        <5> QED
          BY <1>3, <1>9, <3>3, <5>1
      <4>2. jobs'[k].last = right - 1 \/ jobs'[k].last = r
        BY <1>8, <3>3
      <4> QED
        BY <1>2, <1>3, <1>4, <4>1, <4>2
    <3>4. CASE /\ k > 2 /\ k - 1 \in DOMAIN jobs /\ jobs'[k] = jobs[k - 1]
               /\ m > 2 /\ m - 1 \in DOMAIN jobs /\ jobs'[m] = jobs[m - 1]
      <4>1. k - 1 < m - 1
        BY <2>2, <3>1
      <4>2. jobs[k - 1].last < jobs[m - 1].first
        BY <1>2, <3>4, <4>1 DEF JobsApart
      <4> QED
        BY <3>4, <4>2
    <3>5. /\ k = 1 \/ k = 2 \/ (k > 2 /\ k - 1 \in DOMAIN jobs /\ jobs'[k] = jobs[k - 1])
          /\ m = 1 \/ m = 2 \/ (m > 2 /\ m - 1 \in DOMAIN jobs /\ jobs'[m] = jobs[m - 1])
      BY <1>8
    <3>6. m # 1 /\ (m = 2 => k = 1)
      <4>1. k >= 1
        BY <3>1, <3>5
      <4> QED
        BY <2>2, <3>1, <3>5, <4>1
    <3>7. k > 2 => m # 2
      BY <3>1, <3>6
    <3> QED
      BY <3>2, <3>3, <3>4, <3>5, <3>6, <3>7
  <2> QED
    BY <1>1, <2>1, <2>2 DEF JobsApart
<1>11. OrderedButJobs(arr)'
  <2> SUFFICES ASSUME NEW p \in Idx, NEW q \in Idx, p < q,
                      ~(\E k \in DOMAIN jobs' : jobs'[k].first <= p /\ q <= jobs'[k].last)
               PROVE  arr'[p] <= arr'[q]
    BY <1>1 DEF OrderedButJobs
  <2>1. p \in Int /\ q \in Int /\ arr'[p] \in Int /\ arr'[q] \in Int
    BY <1>7 DEF Idx
  <2>2. ASSUME NEW k \in DOMAIN jobs, jobs[k].first <= p, q <= jobs[k].last PROVE arr'[p] <= arr'[q]
    <3>1. CASE k = 1
      <4>1. l <= p /\ q <= r
        BY <2>2, <3>1 DEF l, r
      <4>2. ~(q <= right - 1) /\ ~(right + 1 <= p)
        <5>1. ~(jobs'[1].first <= p /\ q <= jobs'[1].last) /\ ~(jobs'[2].first <= p /\ q <= jobs'[2].last)
          BY <1>8
        <5> QED
          BY <1>8, <4>1, <5>1
      <4>3. arr'[p] <= tmp
        <5>1. p = left \/ p < left
          BY <1>4, <1>5, <2>1, <4>2
        <5> QED
          BY <1>2, <1>4, <1>7, <2>1, <4>1, <5>1
      <4>4. tmp <= arr'[q]
        <5>1. q = left \/ (right < q /\ q # left)
          BY <1>4, <1>5, <2>1, <4>2
        <5> QED
          BY <1>2, <1>4, <1>7, <2>1, <4>1, <5>1
      <4> QED
        BY <1>4, <2>1, <4>3, <4>4
    <3>2. CASE k # 1
      <4>1. k + 1 \in DOMAIN jobs' /\ jobs'[k + 1] = jobs[k]
        BY <1>8, <3>2
      <4>2. jobs'[k + 1].first <= p /\ q <= jobs'[k + 1].last
        BY <2>2, <4>1
      <4> QED
        BY <4>1, <4>2
    <3> QED
      BY <3>1, <3>2
  <2> QED
    BY <1>6, <1>7, <2>2 DEF OrderedButJobs
<1>12. QuickInv'
  BY <1>1, <1>6, <1>7, <1>10, <1>11 DEF QuickInv
<1> QED
  BY <1>1, <1>4, <1>7, <1>8, <1>12 DEF SortTypes

(* The jobs become ever smaller parts of the array, between which it is in   *)
(* order; when none is left, it is in order.                                 *)
LEMMA QuickKeeps ==
    ASSUME SortTypes, QuickInv, fn = "quick_sort", quick_sort, UNCHANGED <<fn, given, count>>
    PROVE  SortTypes' /\ QuickInv'
<1>1. CASE pc = "call" /\ jobs = <<>> /\ Return /\ UNCHANGED ranges
  <2>1. /\ fn' = fn /\ given' = given /\ count' = count /\ Idx' = Idx
        /\ left' = left /\ right' = right /\ jobs' = jobs /\ pc' = "done"
        /\ arr' = arr /\ index' = index /\ jdex' = jdex /\ inc' = inc /\ tmp' = tmp
    BY <1>1 DEF Idx, Return, loops, ranges
  <2>2. Moved(given, arr) /\ OrderedButJobs(arr) /\ JobsApart /\ DOMAIN jobs = {}
    BY <1>1 DEF QuickInv
  <2>3. Ascends(arr)
    <3> SUFFICES ASSUME NEW p \in Idx, NEW q \in Idx, p <= q PROVE arr[p] <= arr[q]
      BY DEF Ascends, SortTypes
    <3>1. p = q \/ p < q
      BY DEF Idx
    <3> QED
      BY <2>2, <3>1 DEF OrderedButJobs, SortTypes
  <2>4. JobsApart'
    BY <2>1, <2>2 DEF JobsApart
  <2>5. QuickInv'
    BY <2>1, <2>2, <2>3, <2>4 DEF QuickInv
  <2> QED
    BY <2>1, <2>5 DEF SortTypes
<1> QED
  BY <1>1, QuickEnters, QuickScansRight, QuickScansLeft, QuickPlaces DEF quick_sort

-----------------------------------------------------------------------------
(* A set of natural numbers has a least element. *)
LEMMA Least == ASSUME NEW T \in SUBSET Nat, T # {} PROVE \E x \in T : \A y \in T : x <= y
<1> DEFINE R == OpToRel(<, Nat)
<1>1. IsWellFoundedOn(R, Nat)
  BY NatLessThanWellFounded
<1>2. \A x, y \in Nat : y < x => <<y, x>> \in R
  BY DEF OpToRel
<1> HIDE DEF R
<1>3. \E x \in T : \A y \in T : ~ (<<y, x>> \in R)
  BY <1>1, WFMin
<1>4. PICK x \in T : \A y \in T : ~ (<<y, x>> \in R)
  BY <1>3
<1>5. \A y \in T : ~(y < x)
  BY <1>2, <1>4
<1> QED
  BY <1>5

(* The root of a heap is a largest element: the first larger one would be    *)
(* larger than its father.                                                   *)
LEMMA RootLargest ==
    ASSUME SortTypes, NEW size \in Int, size <= count, HeapBut(0, size, -1), NEW q \in Idx, q < size
    PROVE  arr[q] <= arr[0]
<1> DEFINE T == {x \in Idx : x < size /\ ~(arr[x] <= arr[0])}
<1>1. \A x \in Idx : x \in Nat /\ x < count /\ arr[x] \in Int
  BY DEF Idx, SortTypes
<1>2. ASSUME T # {} PROVE FALSE
  <2>1. PICK x \in T : \A y \in T : x <= y
    <3>1. T \in SUBSET Nat
      BY <1>1
    <3> HIDE DEF T
    <3> QED
      BY <1>2, <3>1, Least
  <2>2. x \in Idx /\ x < size /\ ~(arr[x] <= arr[0]) /\ x \in Nat /\ x < count
    BY <1>1
  <2>3. 0 \in Idx /\ x # 0
    BY <1>1, <2>2 DEF Idx, SortTypes
  <2>4. PICK f \in Nat : x \in Sons(f) /\ f < x
    <3>1. (x - 1) \div 2 \in Nat /\ x \in {2 * ((x - 1) \div 2) + 1, 2 * ((x - 1) \div 2) + 2} /\ (x - 1) \div 2 < x
      BY <2>2, <2>3
    <3> QED
      BY <3>1 DEF Sons
  <2>5. f \in Idx /\ f < size /\ f # -1 /\ 0 <= f
    BY <2>2, <2>4 DEF Idx, SortTypes
  <2>6. arr[f] >= arr[x]
    BY <2>2, <2>4, <2>5 DEF HeapBut
  <2>7. ~(f \in T)
    <3> HIDE DEF T
    <3> QED
      BY <2>1, <2>2, <2>4
  <2>8. arr[f] <= arr[0]
    BY <2>5, <2>7
  <2> QED
    BY <1>1, <2>2, <2>3, <2>5, <2>6, <2>8
<1> QED
  BY <1>2

(* What heapify picks. *)
LEMMA LargestOf ==
    ASSUME SortTypes, NEW size \in Int, size <= count, NEW i \in Idx, i < size
    PROVE  LET m == Largest(size, i) IN
           /\ m \in Idx /\ m < size /\ (m = i \/ m \in Sons(i))
           /\ arr[i] <= arr[m] /\ \A s \in Sons(i) : s < size => s \in Idx /\ arr[s] <= arr[m]
<1>1. i \in Int /\ 0 <= i /\ count \in Nat /\ \A x \in Idx : arr[x] \in Int
  BY DEF Idx, SortTypes
<1>2. \A s \in Sons(i) : s \in Int /\ (s < size => s \in Idx)
  BY <1>1 DEF Sons, Idx
<1> DEFINE a == 2 * i + 1
           b == 2 * i + 2
           first == IF a < size /\ arr[i] < arr[a] THEN a ELSE i
<1>3. a \in Sons(i) /\ b \in Sons(i) /\ (\A s \in Sons(i) : s = a \/ s = b)
  BY DEF Sons
<1>4. Largest(size, i) = IF b < size /\ arr[first] < arr[b] THEN b ELSE first
  BY DEF Largest
<1> HIDE DEF a, b
<1>5. /\ first \in Idx /\ first < size /\ (first = i \/ first = a)
      /\ arr[i] <= arr[first] /\ (a < size => arr[a] <= arr[first])
  BY <1>1, <1>2, <1>3
<1> HIDE DEF first
<1>6. /\ Largest(size, i) \in Idx /\ Largest(size, i) < size
      /\ arr[first] <= arr[Largest(size, i)] /\ (b < size => arr[b] <= arr[Largest(size, i)])
      /\ (Largest(size, i) = first \/ Largest(size, i) = b)
  BY <1>1, <1>2, <1>3, <1>4, <1>5
<1>7. arr[i] <= arr[Largest(size, i)] /\ (a < size => arr[a] <= arr[Largest(size, i)])
  BY <1>1, <1>2, <1>3, <1>5, <1>6
<1> QED
  BY <1>2, <1>3, <1>5, <1>6, <1>7

(* A step of heapify moves the hole of the heap down, or closes it. *)
LEMMA Sifts ==
    ASSUME SortTypes, NEW size \in Int, size <= count, NEW from \in Int, 0 <= from,
           index \in Idx, from <= index, index < size, HeapBut(from, size, index),
           count' = count
    PROVE  LET m == Largest(size, index) IN
           /\ m # index /\ arr' = Exchanged(index, m) =>
                 m > index /\ \A p, s \in Idx :
                    from <= p /\ s \in Sons(p) /\ s < size =>
                        /\ p # m => arr'[p] >= arr'[s]
                        /\ s = m => \A t \in Idx : t \in Sons(s) /\ t < size => arr'[p] >= arr'[t]
           /\ m = index => HeapBut(from, size, -1)
<1> DEFINE m == Largest(size, index)
<1>1. /\ m \in Idx /\ m < size /\ (m = index \/ m \in Sons(index))
      /\ arr[index] <= arr[m] /\ \A s \in Sons(index) : s < size => s \in Idx /\ arr[s] <= arr[m]
  BY LargestOf
<1> HIDE DEF m
<1>2. \A p \in Idx : p \in Int /\ 0 <= p /\ p < count /\ arr[p] \in Int
  BY DEF Idx, SortTypes
<1>3. \A p, s \in Idx : s \in Sons(p) => p < s
  BY <1>2 DEF Sons
<1>4. \A p, q, s \in Idx : s \in Sons(p) /\ s \in Sons(q) => p = q
  BY <1>2 DEF Sons
<1>5. ASSUME m # index, arr' = Exchanged(index, m)
      PROVE  m > index /\ \A p, s \in Idx :
                from <= p /\ s \in Sons(p) /\ s < size =>
                    /\ p # m => arr'[p] >= arr'[s]
                    /\ s = m => \A t \in Idx : t \in Sons(s) /\ t < size => arr'[p] >= arr'[t]
  <2>1. /\ arr'[index] = arr[m] /\ arr'[m] = arr[index]
        /\ \A x \in Idx : x # index /\ x # m => arr'[x] = arr[x]
    BY <1>1, <1>5, Exchange
  <2>2. m \in Sons(index) /\ m > index
    BY <1>1, <1>3, <1>5
  <2>3. ASSUME NEW p \in Idx, NEW s \in Idx, from <= p, s \in Sons(p), s < size, p # m PROVE arr'[p] >= arr'[s]
    <3>1. CASE p = index
      <4>1. s # index /\ arr[s] <= arr[m] /\ arr'[p] = arr[m]
        BY <1>1, <1>2, <1>3, <2>1, <2>3, <3>1
      <4>2. arr'[s] = arr[index] \/ arr'[s] = arr[s]
        BY <2>1, <4>1
      <4> QED
        BY <1>1, <1>2, <4>1, <4>2
    <3>2. CASE p # index /\ s = index
      <4>1. arr[p] >= arr[m]
        BY <1>1, <2>2, <2>3, <3>2 DEF HeapBut
      <4> QED
        BY <2>1, <2>3, <3>2, <4>1
    <3>3. CASE p # index /\ s # index
      <4>1. s # m
        BY <1>1, <1>4, <2>2, <2>3, <3>3
      <4>2. arr[p] >= arr[s]
        BY <2>3, <3>3 DEF HeapBut
      <4> QED
        BY <2>1, <2>3, <3>3, <4>1, <4>2
    <3> QED
      BY <3>1, <3>2, <3>3
  <2>4. ASSUME NEW p \in Idx, NEW s \in Idx, from <= p, s \in Sons(p), s < size, s = m,
               NEW t \in Idx, t \in Sons(s), t < size
        PROVE  arr'[p] >= arr'[t]
    <3>1. p = index
      BY <1>1, <1>4, <2>2, <2>4
    <3>2. m < t /\ index < t
      BY <1>1, <1>2, <1>3, <2>2, <2>4
    <3>3. arr[m] >= arr[t]
      <4>1. from <= m /\ m # index
        BY <1>1, <1>2, <1>5, <2>2
      <4> QED
        BY <1>1, <2>4, <4>1 DEF HeapBut
    <3>4. arr'[t] = arr[t]
      BY <1>1, <1>2, <2>1, <3>2
    <3> QED
      BY <2>1, <3>1, <3>3, <3>4
  <2> QED
    BY <2>2, <2>3, <2>4
<1>6. ASSUME m = index PROVE HeapBut(from, size, -1)
  <2>1. ASSUME NEW p \in Idx, NEW s \in Idx, from <= p, s \in Sons(p), s < size PROVE arr[p] >= arr[s] /\ s # -1
    <3>1. s # -1
      BY <1>2
    <3>2. p = index => arr[s] <= arr[index]
      BY <1>1, <1>6, <2>1
    <3>3. p # index => arr[p] >= arr[s]
      BY <2>1 DEF HeapBut
    <3> QED
      BY <1>2, <3>1, <3>2, <3>3
  <2> QED
    BY <2>1 DEF HeapBut
<1> QED
  BY <1>5, <1>6 DEF m

(* An exchange of two elements before position i keeps what is settled. *)
LEMMA SettledStays ==
    ASSUME SortTypes, NEW i \in Int, SettledFrom(i), NEW x \in Idx, NEW y \in Idx, x < i, y < i,
           arr' = Exchanged(x, y)
    PROVE  \A p, q \in Idx : q >= i /\ p < q => arr'[p] <= arr'[q]
<1>1. arr'[x] = arr[y] /\ arr'[y] = arr[x] /\ \A z \in Idx : z # x /\ z # y => arr'[z] = arr[z]
  BY Exchange
<1> SUFFICES ASSUME NEW p \in Idx, NEW q \in Idx, q >= i, p < q PROVE arr'[p] <= arr'[q]
  OBVIOUS
<1>2. q # x /\ q # y /\ x < q /\ y < q
  BY DEF Idx, SortTypes
<1>3. arr'[q] = arr[q] /\ arr[x] <= arr[q] /\ arr[y] <= arr[q] /\ arr[p] <= arr[q]
  BY <1>1, <1>2 DEF SettledFrom
<1> QED
  BY <1>1, <1>3

(* The loop that builds the heap takes one more node into it. *)
LEMMA HeapBuilds ==
    ASSUME SortTypes, HeapInv, Build, UNCHANGED <<fn, given, count, ranges>>
    PROVE  SortTypes' /\ HeapInv'
<1>1. /\ fn' = fn /\ given' = given /\ count' = count /\ Idx' = Idx
      /\ left' = left /\ right' = right /\ jobs' = jobs
  BY DEF ranges, Idx
<1>2. count \in Nat /\ jdex \in Int /\ pc = "build"
  BY DEF SortTypes, Build
<1>3. Moved(given, arr) /\ -1 <= jdex /\ 2 * (jdex + 1) <= count /\ HeapBut(jdex + 1, count, -1)
  BY <1>2 DEF HeapInv
<1>4. \A p \in Idx : p \in Int /\ 0 <= p /\ p < count
  BY <1>2 DEF Idx
<1>5. CASE jdex >= 0 /\ pc' = "sift_build" /\ index' = jdex /\ UNCHANGED <<arr, jdex, inc, tmp>>
  <2>1. HeapBut(jdex, count, jdex)
    <3>1. ASSUME NEW p \in Idx, NEW q \in Idx, jdex <= p, q \in Sons(p), q < count
          PROVE  (p # jdex => arr[p] >= arr[q]) /\ q # jdex
      <4>1. p # jdex => jdex + 1 <= p /\ p # -1
        BY <1>2, <1>4, <3>1
      <4>2. p # jdex => arr[p] >= arr[q]
        BY <1>3, <3>1, <4>1 DEF HeapBut
      <4>3. q > p
        BY <1>4, <3>1 DEF Sons
      <4> QED
        BY <1>2, <1>4, <3>1, <4>2, <4>3
    <3> QED
      BY <3>1 DEF HeapBut
  <2>2. HeapBut(jdex, count, index)'
    BY <1>1, <1>5, <2>1 DEF HeapBut
  <2>3. jdex < count
    BY <1>2, <1>3, <1>5
  <2>4. HeapInv'
    BY <1>1, <1>2, <1>3, <1>5, <2>2, <2>3 DEF HeapInv
  <2> QED
    BY <1>1, <1>5, <2>4 DEF SortTypes
<1>6. CASE ~(jdex >= 0) /\ pc' = "extract" /\ jdex' = count - 1 /\ UNCHANGED <<arr, index, inc, tmp>>
  <2>1. jdex + 1 = 0 /\ jdex' + 1 = count /\ -1 <= count - 1 /\ count - 1 < count
    BY <1>2, <1>3, <1>6
  <2>2. HeapBut(0, jdex + 1, -1)'
    BY <1>1, <1>3, <1>6, <2>1 DEF HeapBut
  <2>3. SettledFrom(jdex + 1)'
    BY <1>1, <1>2, <1>4, <2>1 DEF SettledFrom
  <2>4. HeapInv'
    BY <1>1, <1>3, <1>6, <2>1, <2>2, <2>3 DEF HeapInv
  <2> QED
    BY <1>1, <1>2, <1>6, <2>4 DEF SortTypes
<1> QED
  BY <1>5, <1>6 DEF Build

(* The loop that takes the root out of the heap puts it before those it took *)
(* out earlier, which are not smaller.                                       *)
LEMMA HeapExtracts ==
    ASSUME SortTypes, HeapInv, Extract, UNCHANGED <<fn, given, count, ranges>>
    PROVE  SortTypes' /\ HeapInv'
<1>1. /\ fn' = fn /\ given' = given /\ count' = count /\ Idx' = Idx
      /\ left' = left /\ right' = right /\ jobs' = jobs
  BY DEF ranges, Idx
<1>2. count \in Nat /\ jdex \in Int /\ pc = "extract"
  BY DEF SortTypes, Extract
<1>3. /\ Moved(given, arr) /\ -1 <= jdex /\ jdex < count
      /\ HeapBut(0, jdex + 1, -1) /\ SettledFrom(jdex + 1)
  BY <1>2 DEF HeapInv
<1>4. \A p \in Idx : p \in Int /\ 0 <= p /\ p < count /\ arr[p] \in Int
  BY <1>2 DEF Idx, SortTypes
<1>5. CASE jdex > 0 /\ arr' = Exchanged(jdex, 0) /\ pc' = "sift_extract" /\ index' = 0 /\ UNCHANGED <<jdex, inc, tmp>>
  <2>1. jdex \in Idx /\ 0 \in Idx
    BY <1>2, <1>3, <1>5 DEF Idx
  <2>2. /\ arr' \in [Idx -> Int] /\ arr'[jdex] = arr[0] /\ arr'[0] = arr[jdex]
        /\ \A x \in Idx : x # jdex /\ x # 0 => arr'[x] = arr[x]
        /\ Moved(given, arr')
    BY <1>3, <1>5, <2>1, Exchange
  <2>3. HeapBut(0, jdex, 0)'
    <3>1. ASSUME NEW p \in Idx, NEW q \in Idx, 0 <= p, q \in Sons(p), q < jdex
          PROVE  (p # 0 => arr'[p] >= arr'[q]) /\ q # 0
      <4>1. q > p /\ q < jdex + 1 /\ p # -1
        BY <1>2, <1>4, <3>1 DEF Sons
      <4>2. q # 0 /\ q # jdex /\ p # jdex
        BY <1>2, <1>4, <3>1, <4>1
      <4>3. arr[p] >= arr[q]
        BY <1>3, <3>1, <4>1 DEF HeapBut
      <4> QED
        BY <2>2, <4>2, <4>3
    <3> QED
      BY <1>1, <1>5, <3>1 DEF HeapBut
  <2>4. \A q \in Idx : q <= jdex => arr[q] <= arr[0]
    <3> TAKE q \in Idx
    <3>1. jdex + 1 \in Int /\ jdex + 1 <= count /\ (q <= jdex => q < jdex + 1)
      BY <1>2, <1>3, <1>4
    <3> QED
      BY <1>3, <3>1, RootLargest
  <2>5. SettledFrom(jdex)'
    <3> SUFFICES ASSUME NEW p \in Idx, NEW q \in Idx, q >= jdex, p < q PROVE arr'[p] <= arr'[q]
      BY <1>1, <1>5 DEF SettledFrom
    <3>1. arr'[p] = arr[0] \/ arr'[p] = arr[jdex] \/ (arr'[p] = arr[p] /\ p # 0 /\ p # jdex)
      BY <2>2
    <3>2. CASE q = jdex
      <4>1. arr'[q] = arr[0] /\ p <= jdex /\ p # jdex
        BY <1>2, <1>4, <2>2, <3>2
      <4>2. arr'[p] = arr[jdex] \/ arr'[p] = arr[p]
        BY <2>2, <4>1
      <4> QED
        BY <1>2, <2>1, <2>4, <4>1, <4>2
    <3>3. CASE q # jdex
      <4>1. q >= jdex + 1 /\ q # 0 /\ 0 < q /\ jdex < q
        BY <1>2, <1>4, <1>5, <3>3
      <4>2. arr'[q] = arr[q]
        BY <2>2, <3>3, <4>1
      <4>3. arr[p] <= arr[q] /\ arr[0] <= arr[q] /\ arr[jdex] <= arr[q]
        BY <1>3, <2>1, <4>1 DEF SettledFrom
      <4> QED
        BY <3>1, <4>2, <4>3
    <3> QED
      BY <3>2, <3>3
  <2>6. HeapBut(0, jdex, index)'
    BY <1>5, <2>3 DEF HeapBut
  <2>7. HeapInv'
    BY <1>1, <1>2, <1>3, <1>5, <2>2, <2>5, <2>6 DEF HeapInv
  <2> QED
    BY <1>1, <1>2, <1>5, <2>2, <2>7 DEF SortTypes
<1>6. CASE ~(jdex > 0) /\ Return
  <2>1. pc' = "done" /\ arr' = arr /\ index' = index /\ jdex' = jdex /\ inc' = inc /\ tmp' = tmp
    BY <1>6 DEF Return, loops
  <2>2. Ascends(arr)
    <3> SUFFICES ASSUME NEW p \in Idx, NEW q \in Idx, p <= q PROVE arr[p] <= arr[q]
      BY DEF Ascends, SortTypes
    <3>1. p = q \/ (p < q /\ q >= jdex + 1)
      BY <1>2, <1>4, <1>6
    <3> QED
      BY <1>3, <1>4, <3>1 DEF SettledFrom
  <2>3. HeapInv'
    BY <1>1, <1>3, <2>1, <2>2 DEF HeapInv, Ascends
  <2> QED
    BY <1>1, <2>1, <2>3 DEF SortTypes
<1> QED
  BY <1>5, <1>6 DEF Extract

(* heapify, called while the heap is built. *)
LEMMA HeapSiftsBuild ==
    ASSUME SortTypes, HeapInv, pc = "sift_build", heapify(count, "build"), UNCHANGED <<fn, given, count, ranges>>
    PROVE  SortTypes' /\ HeapInv'
<1>1. /\ fn' = fn /\ given' = given /\ count' = count /\ Idx' = Idx
      /\ left' = left /\ right' = right /\ jobs' = jobs /\ inc' = inc /\ tmp' = tmp
  BY DEF ranges, Idx, heapify
<1>2. count \in Nat /\ jdex \in Int /\ index \in Int
  BY DEF SortTypes
<1>3. /\ Moved(given, arr) /\ 0 <= jdex /\ jdex <= index /\ index < count /\ 2 * (jdex + 1) <= count
      /\ HeapBut(jdex, count, index)
  BY DEF HeapInv
<1>4. index \in Idx
  BY <1>2, <1>3 DEF Idx
<1> DEFINE m == Largest(count, index)
<1>5. m \in Idx /\ m < count
  BY <1>2, <1>3, <1>4, LargestOf
<1>6. /\ m # index /\ arr' = Exchanged(index, m) =>
            m > index /\ \A p, s \in Idx :
               jdex <= p /\ s \in Sons(p) /\ s < count =>
                   /\ p # m => arr'[p] >= arr'[s]
                   /\ s = m => \A t \in Idx : t \in Sons(s) /\ t < count => arr'[p] >= arr'[t]
      /\ m = index => HeapBut(jdex, count, -1)
  BY <1>1, <1>2, <1>3, <1>4, Sifts
<1>7. \/ m # index /\ arr' = Exchanged(index, m) /\ index' = m /\ pc' = pc /\ jdex' = jdex
      \/ m = index /\ pc' = "build" /\ jdex' = jdex - 1 /\ arr' = arr /\ index' = index
  BY DEF heapify
<1> HIDE DEF m
<1>8. CASE m # index /\ arr' = Exchanged(index, m) /\ index' = m /\ pc' = pc /\ jdex' = jdex
  <2>1. HeapBut(jdex, count, index)'
    BY <1>1, <1>6, <1>8 DEF HeapBut
  <2>2. arr' \in [Idx -> Int] /\ Moved(given, arr')
    BY <1>3, <1>4, <1>5, <1>8, Exchange
  <2>3. m \in Int /\ jdex <= m
    BY <1>2, <1>3, <1>5, <1>6, <1>8 DEF Idx
  <2>4. HeapInv'
    BY <1>1, <1>3, <1>5, <1>8, <2>1, <2>2, <2>3 DEF HeapInv
  <2> QED
    BY <1>1, <1>8, <2>2, <2>3, <2>4 DEF SortTypes
<1>9. CASE m = index /\ pc' = "build" /\ jdex' = jdex - 1 /\ arr' = arr /\ index' = index
  <2>1. jdex - 1 + 1 = jdex /\ -1 <= jdex - 1 /\ 2 * jdex <= count /\ jdex - 1 \in Int
    BY <1>2, <1>3
  <2>2. HeapBut(jdex + 1, count, -1)'
    BY <1>1, <1>6, <1>9, <2>1 DEF HeapBut
  <2>3. HeapInv'
    BY <1>1, <1>3, <1>9, <2>1, <2>2 DEF HeapInv
  <2> QED
    BY <1>1, <1>9, <2>1, <2>3 DEF SortTypes
<1> QED
  BY <1>7, <1>8, <1>9

(* heapify, called after the root was taken out. *)
LEMMA HeapSiftsExtract ==
    ASSUME SortTypes, HeapInv, pc = "sift_extract", heapify(jdex, "extract"), UNCHANGED <<fn, given, count, ranges>>
    PROVE  SortTypes' /\ HeapInv'
<1>1. /\ fn' = fn /\ given' = given /\ count' = count /\ Idx' = Idx
      /\ left' = left /\ right' = right /\ jobs' = jobs /\ inc' = inc /\ tmp' = tmp
  BY DEF ranges, Idx, heapify
<1>2. count \in Nat /\ jdex \in Int /\ index \in Int
  BY DEF SortTypes
<1>3. /\ Moved(given, arr) /\ 0 < jdex /\ jdex < count /\ 0 <= index /\ index < jdex
      /\ HeapBut(0, jdex, index) /\ SettledFrom(jdex)
  BY DEF HeapInv
<1>4. index \in Idx /\ jdex <= count /\ 0 \in Int
  BY <1>2, <1>3 DEF Idx
<1> DEFINE m == Largest(jdex, index)
<1>5. m \in Idx /\ m < jdex
  BY <1>2, <1>3, <1>4, LargestOf
<1>6. /\ m # index /\ arr' = Exchanged(index, m) =>
            m > index /\ \A p, s \in Idx :
               0 <= p /\ s \in Sons(p) /\ s < jdex =>
                   /\ p # m => arr'[p] >= arr'[s]
                   /\ s = m => \A t \in Idx : t \in Sons(s) /\ t < jdex => arr'[p] >= arr'[t]
      /\ m = index => HeapBut(0, jdex, -1)
  BY <1>1, <1>2, <1>3, <1>4, Sifts
<1>7. \/ m # index /\ arr' = Exchanged(index, m) /\ index' = m /\ pc' = pc /\ jdex' = jdex
      \/ m = index /\ pc' = "extract" /\ jdex' = jdex - 1 /\ arr' = arr /\ index' = index
  BY DEF heapify
<1> HIDE DEF m
<1>8. CASE m # index /\ arr' = Exchanged(index, m) /\ index' = m /\ pc' = pc /\ jdex' = jdex
  <2>1. HeapBut(0, jdex, index)'
    BY <1>1, <1>6, <1>8 DEF HeapBut
  <2>2. arr' \in [Idx -> Int] /\ Moved(given, arr')
    BY <1>3, <1>4, <1>5, <1>8, Exchange
  <2>3. m \in Int /\ 0 <= m
    BY <1>2, <1>5 DEF Idx
  <2>4. SettledFrom(jdex)'
    <3>1. \A p, q \in Idx : q >= jdex /\ p < q => arr'[p] <= arr'[q]
      BY <1>1, <1>2, <1>3, <1>4, <1>5, <1>8, SettledStays
    <3> QED
      BY <1>1, <1>8, <3>1 DEF SettledFrom
  <2>5. HeapInv'
    BY <1>1, <1>3, <1>5, <1>8, <2>1, <2>2, <2>3, <2>4 DEF HeapInv
  <2> QED
    BY <1>1, <1>8, <2>2, <2>3, <2>5 DEF SortTypes
<1>9. CASE m = index /\ pc' = "extract" /\ jdex' = jdex - 1 /\ arr' = arr /\ index' = index
  <2>1. jdex - 1 + 1 = jdex /\ -1 <= jdex - 1 /\ jdex - 1 < count /\ jdex - 1 \in Int
    BY <1>2, <1>3
  <2>2. HeapBut(0, jdex + 1, -1)'
    BY <1>1, <1>6, <1>9, <2>1 DEF HeapBut
  <2>3. SettledFrom(jdex + 1)'
    BY <1>1, <1>3, <1>9, <2>1 DEF SettledFrom
  <2>4. HeapInv'
    BY <1>1, <1>3, <1>9, <2>1, <2>2, <2>3 DEF HeapInv
  <2> QED
    BY <1>1, <1>9, <2>1, <2>4 DEF SortTypes
<1> QED
  BY <1>7, <1>8, <1>9

(* heap_sort builds a heap, then takes the root out of it again and again. *)
LEMMA HeapKeeps ==
    ASSUME SortTypes, HeapInv, heap_sort, UNCHANGED <<fn, given, count, ranges>>
    PROVE  SortTypes' /\ HeapInv'
<1> QED
  BY HeapBuilds, HeapExtracts, HeapSiftsBuild, HeapSiftsExtract DEF heap_sort

-----------------------------------------------------------------------------
(* A call starts in the invariant: nothing is settled yet. *)
LEMMA SortInvInit == SortInit => SortInv
<1> SUFFICES ASSUME SortInit PROVE SortInv
  OBVIOUS
<1>1. /\ count \in Nat /\ given \in [Idx -> Int] /\ arr = given /\ fn \in Sorting
      /\ index = IF fn = "insert_sort" THEN 1 ELSE 0
      /\ jdex = IF fn = "heap_sort" THEN count \div 2 - 1 ELSE 0
      /\ inc = IF fn = "shell_sort" THEN count \div 2 ELSE 1
      /\ jobs = IF fn = "quick_sort" THEN <<Job(0, count - 1)>> ELSE <<>>
      /\ tmp = 0 /\ left = 0 /\ right = 0
  BY SortAssumption DEF SortInit, Called, Idx
<1>2. pc = IF fn = "shell_sort" THEN "gap" ELSE IF fn = "quick_sort" THEN "call"
           ELSE IF fn = "heap_sort" THEN "build" ELSE "outer"
  BY DEF SortInit, Called
<1>3. Moved(given, arr)
  BY <1>1, MovedSame
<1>4. /\ count \div 2 \in Int /\ count \div 2 >= 0 /\ 2 * (count \div 2) <= count
      /\ count \div 2 = 0 => count <= 1
  BY <1>1
<1>5. Job(0, count - 1) \in [first : Int, last : Int] /\ Job(0, count - 1).first = 0 /\ Job(0, count - 1).last = count - 1
  BY <1>1 DEF Job
<1>6. jobs \in Seq([first : Int, last : Int])
  <2> DEFINE R == [first : Int, last : Int]
             job == Job(0, count - 1)
  <2>1. job \in R
    BY <1>5
  <2>2. jobs = <<job>> \/ jobs = <<>>
    BY <1>1
  <2> HIDE DEF R, job
  <2>3. <<job>> \in Seq(R) /\ <<>> \in Seq(R)
    BY <2>1
  <2>4. jobs \in Seq(R)
    BY <2>2, <2>3
  <2> QED
    BY <2>4 DEF R
<1>7. SortTypes
  BY <1>1, <1>4, <1>6 DEF SortTypes
<1>8. \A p, q \in Idx : p \in Int /\ q \in Int /\ 0 <= p /\ 0 <= q /\ p < count /\ q < count
  BY <1>1 DEF Idx
<1>9. fn = "select_sort" => SelectInv
  BY <1>1, <1>2, <1>3, <1>8 DEF SelectInv, SettledBelow
<1>10. fn = "bubble_sort" => BubbleInv
  BY <1>1, <1>2, <1>3, <1>8 DEF BubbleInv, SettledFrom
<1>11. fn = "select_sort_vector" => VectorInv
  BY <1>1, <1>2, <1>3, <1>8 DEF VectorInv
<1>12. fn = "insert_sort" => ChainInv
  <2> SUFFICES ASSUME fn = "insert_sort" PROVE ChainInv
    OBVIOUS
  <2>1. index = 1 /\ inc = 1 /\ pc = "outer"
    BY <1>1, <1>2
  <2>2. Multiple(index)
    BY <2>1 DEF Multiple
  <2>3. \A p, q \in Idx : ~(p < q /\ q < index)
    BY <1>8, <2>1
  <2> QED
    BY <1>3, <2>1, <2>2, <2>3 DEF ChainInv
<1>13. fn = "shell_sort" => ChainInv
  <2> SUFFICES ASSUME fn = "shell_sort" PROVE ChainInv
    OBVIOUS
  <2>1. inc = count \div 2 /\ pc = "gap"
    BY <1>1, <1>2
  <2>2. inc = 0 => Ascends(arr)
    <3> SUFFICES ASSUME inc = 0, NEW p \in Idx, NEW q \in Idx PROVE arr[p] <= arr[q]
      BY <1>1 DEF Ascends
    <3>1. p = q
      BY <1>1, <1>4, <1>8, <2>1
    <3> QED
      BY <1>1, <3>1
  <2> QED
    BY <1>3, <1>4, <2>1, <2>2 DEF ChainInv
<1>14. fn = "quick_sort" => QuickInv
  <2> SUFFICES ASSUME fn = "quick_sort" PROVE QuickInv
    OBVIOUS
  <2>1. pc = "call" /\ DOMAIN jobs = {1} /\ jobs[1] = Job(0, count - 1)
    BY <1>1, <1>2
  <2>2. JobsApart
    BY <1>1, <1>5, <2>1 DEF JobsApart
  <2>3. \A q \in Idx : q <= count - 1
    BY <1>1, <1>8
  <2>4. OrderedButJobs(arr)
    BY <1>5, <1>8, <2>1, <2>3 DEF OrderedButJobs
  <2> QED
    BY <1>3, <2>1, <2>2, <2>4 DEF QuickInv
<1>15. fn = "heap_sort" => HeapInv
  <2> SUFFICES ASSUME fn = "heap_sort" PROVE HeapInv
    OBVIOUS
  <2>1. jdex = count \div 2 - 1 /\ pc = "build"
    BY <1>1, <1>2
  <2>2. jdex + 1 = count \div 2 /\ -1 <= jdex /\ 2 * (jdex + 1) <= count
    BY <1>4, <2>1
  <2>3. ASSUME NEW p \in Idx, NEW q \in Idx, jdex + 1 <= p, q \in Sons(p), q < count PROVE FALSE
    <3>1. q >= 2 * p + 1
      BY <1>8, <2>3 DEF Sons
    <3>2. 2 * p + 2 > count
      <4>1. p >= count \div 2
        BY <2>2, <2>3
      <4> QED
        BY <1>1, <1>4, <1>8, <4>1
    <3> QED
      BY <1>1, <1>8, <2>3, <3>1, <3>2
  <2>4. HeapBut(jdex + 1, count, -1)
    BY <2>3 DEF HeapBut
  <2> QED
    BY <1>3, <2>1, <2>2, <2>4 DEF HeapInv
<1> QED
  BY <1>7, <1>9, <1>10, <1>11, <1>12, <1>13, <1>14, <1>15 DEF SortInv

(* Every step of every function keeps the invariant of that function. *)
LEMMA SortInvNext == SortInv /\ [SortNext]_sortVars => SortInv'
<1> SUFFICES ASSUME SortInv, [SortNext]_sortVars PROVE SortInv'
  OBVIOUS
<1>1. SortTypes
  BY DEF SortInv
<1>2. CASE SortNext
  <2>1. fn' = fn /\ UNCHANGED <<fn, given, count>>
    BY <1>2 DEF SortNext
  <2>2. CASE fn = "select_sort" /\ select_sort /\ UNCHANGED ranges
    <3>1. SortTypes' /\ SelectInv'
      BY <1>1, <2>1, <2>2, SelectKeeps DEF SortInv
    <3> QED
      BY <2>1, <2>2, <3>1 DEF SortInv
  <2>3. CASE fn = "bubble_sort" /\ bubble_sort /\ UNCHANGED ranges
    <3>1. SortTypes' /\ BubbleInv'
      BY <1>1, <2>1, <2>3, BubbleKeeps DEF SortInv
    <3> QED
      BY <2>1, <2>3, <3>1 DEF SortInv
  <2>4. CASE fn = "select_sort_vector" /\ select_sort_vector /\ UNCHANGED ranges
    <3>1. SortTypes' /\ VectorInv'
      BY <1>1, <2>1, <2>4, VectorKeeps DEF SortInv
    <3> QED
      BY <2>1, <2>4, <3>1 DEF SortInv
  <2>5. CASE fn = "insert_sort" /\ insert_sort /\ UNCHANGED ranges
    <3>1. SortTypes' /\ ChainInv'
      BY <1>1, <2>1, <2>5, InsertKeeps DEF SortInv
    <3> QED
      BY <2>1, <2>5, <3>1 DEF SortInv
  <2>6. CASE fn = "shell_sort" /\ shell_sort /\ UNCHANGED ranges
    <3>1. SortTypes' /\ ChainInv'
      BY <1>1, <2>1, <2>6, ShellKeeps DEF SortInv
    <3> QED
      BY <2>1, <2>6, <3>1 DEF SortInv
  <2>7. CASE fn = "heap_sort" /\ heap_sort /\ UNCHANGED ranges
    <3>1. SortTypes' /\ HeapInv'
      BY <1>1, <2>1, <2>7, HeapKeeps DEF SortInv
    <3> QED
      BY <2>1, <2>7, <3>1 DEF SortInv
  <2>8. CASE fn = "quick_sort" /\ quick_sort
    <3>1. SortTypes' /\ QuickInv'
      BY <1>1, <2>1, <2>8, QuickKeeps DEF SortInv
    <3> QED
      BY <2>1, <2>8, <3>1 DEF SortInv
  <2> QED
    BY <1>2, <2>2, <2>3, <2>4, <2>5, <2>6, <2>7, <2>8 DEF SortNext
<1>3. CASE UNCHANGED sortVars
  <2>1. /\ fn' = fn /\ pc' = pc /\ given' = given /\ arr' = arr /\ count' = count /\ Idx' = Idx
        /\ index' = index /\ jdex' = jdex /\ inc' = inc /\ tmp' = tmp
        /\ left' = left /\ right' = right /\ jobs' = jobs
    BY <1>3 DEF sortVars, loops, ranges, Idx
  <2>2. SortTypes'
    BY <1>1, <2>1 DEF SortTypes
  <2>3. SelectInv => SelectInv'
    BY <2>1 DEF SelectInv, SettledBelow, Ascends
  <2>4. BubbleInv => BubbleInv'
    BY <2>1 DEF BubbleInv, SettledFrom, Ascends
  <2>5. VectorInv => VectorInv'
    BY <2>1 DEF VectorInv, Descends
  <2>6. ChainInv => ChainInv'
    BY <2>1 DEF ChainInv, Multiple, Filled, Ascends
  <2>7. QuickInv => QuickInv'
    BY <2>1 DEF QuickInv, JobsApart, OrderedButJobs, Partitioned, Filled, Ascends
  <2>8. HeapInv => HeapInv'
    BY <2>1 DEF HeapInv, HeapBut, SettledFrom, Ascends
  <2> QED
    BY <2>1, <2>2, <2>3, <2>4, <2>5, <2>6, <2>7, <2>8 DEF SortInv
<1> QED
  BY <1>2, <1>3

(* Each of the seven functions sorts: when it returns, the array it was given *)
(* has the same elements as often, in order, for any array of any length.     *)
THEOREM SortingSorts == SortSpec => []SortsSort
<1>1. SortInv => SortsSort
  <2> SUFFICES ASSUME SortInv, pc = "done"
               PROVE  Rearranged(given, arr) /\ IF fn = "select_sort_vector" THEN Descends(arr) ELSE Ascends(arr)
    BY DEF SortsSort
  <2>1. SortTypes
    BY DEF SortInv
  <2>2. Moved(given, arr) /\ IF fn = "select_sort_vector" THEN Descends(arr) ELSE Ascends(arr)
    BY <2>1 DEF SortInv, SortTypes, Sorting, SelectInv, BubbleInv, VectorInv, ChainInv, QuickInv, HeapInv
  <2>3. IsFiniteSet(DOMAIN given)
    <3>1. DOMAIN given = 0..count - 1 /\ 0 \in Int /\ count - 1 \in Int
      BY <2>1 DEF SortTypes, Idx
    <3> QED
      BY <3>1, FS_Interval
  <2> QED
    BY <2>2, <2>3, MovedRearranged
<1> QED
  BY <1>1, SortInvInit, SortInvNext, PTL DEF SortSpec
-----------------------------------------------------------------------------
(* The lock dials: the invariant of the search, and that its steps keep it.   *)

DialTypes ==
    /\ search \in {"openlock", "openLock"}
    /\ step \in {"round", "take", "plus", "minus", "returned"}
    /\ dead \in SUBSET Combinations /\ target \in Combinations
    /\ offer \in Seq(Combinations) /\ seen \in SUBSET Combinations
    /\ rest \in Nat /\ front \in Combinations /\ wheel \in 1..Wheels
    /\ dial_count \in Nat /\ answer \in Int

Turning == step \in {"plus", "minus"}

\* The combinations that were reached; openLock does not count the start.
Known == seen \cup {Zeros}

\* openLock before it takes the start out of the queue.
Untouched ==
    /\ search = "openLock" /\ seen = {} /\ dial_count = 0
    /\ offer = <<Zeros>> /\ (step = "round" \/ (step = "take" /\ rest = 1))

\* A combination that was turned every way.
Expanded(c) == c # target /\ \A w \in 1..Wheels : plus_one(c, w) \in seen /\ minus_one(c, w) \in seen

\* The elements of the queue that belong to this round.
Near == IF step = "round" THEN Len(offer) ELSE rest

\* This round's elements are as many turns away as the count says; those behind
\* them are one turn further, and no fewer turns lead to them.
QueueInv ==
    /\ search = "openlock" => Zeros \in seen
    /\ Near <= Len(offer)
    /\ \A i \in DOMAIN offer : offer[i] \in Known
    /\ \A i \in DOMAIN offer : i <= Near => offer[i] \in Arrived[dial_count]
    /\ \A i \in DOMAIN offer : i > Near => offer[i] \in Arrived[dial_count + 1]
    /\ \A i \in DOMAIN offer : i > Near =>
          \/ search = "openLock" /\ offer[i] = Zeros
          \/ \A n \in 0..dial_count : offer[i] \notin Arrived[n]

FrontInv ==
    Turning =>
        /\ front \in Arrived[dial_count] \ Barred /\ front # target
        /\ \A w \in 1..Wheels : w < wheel => plus_one(front, w) \in seen /\ minus_one(front, w) \in seen
        /\ step = "minus" => plus_one(front, wheel) \in seen

\* What is known and may be passed is in the queue, in hand or expanded.
DoneInv ==
    /\ \A c \in Known :
          c \in Barred \/ (\E i \in DOMAIN offer : offer[i] = c) \/ (Turning /\ c = front) \/ Expanded(c)
    /\ search = "openLock" => Untouched \/ (Turning /\ front = Zeros) \/ Expanded(Zeros)
    /\ target # Zeros \/ Untouched

\* Whatever this many turns or fewer lead to is known, and no fewer lead to the
\* target.
CountInv ==
    /\ \A n \in 0..dial_count : Arrived[n] \subseteq Known
    /\ \A n \in 0..dial_count - 1 : ~LeadsTo(n, target)

\* FewestTurns, without a bound on the number of turns.
Answered ==
    /\ target = Zeros => answer = 0
    /\ target # Zeros /\ answer = -1 => \A n \in Nat : ~LeadsTo(n, target)
    /\ target # Zeros /\ answer # -1 =>
          answer \in Nat /\ LeadsTo(answer, target) /\ \A n \in 0..answer - 1 : ~LeadsTo(n, target)

DialInv ==
    /\ DialTypes
    /\ step = "returned" => Answered
    /\ step # "returned" => QueueInv /\ FrontInv /\ DoneInv /\ CountInv

-----------------------------------------------------------------------------
(* A wheel that is turned shows a digit again. *)
LEMMA TurnedTyped ==
    ASSUME NEW c \in Combinations, NEW w \in 1..Wheels
    PROVE  plus_one(c, w) \in Combinations /\ minus_one(c, w) \in Combinations
<1>1. c[w] \in 0..Digits - 1 /\ Digits \in Nat /\ Digits >= 1
  BY DialAssumption DEF Combinations
<1>2. 0 \in 0..Digits - 1 /\ Digits - 1 \in 0..Digits - 1
  BY <1>1
<1>3. c[w] # Digits - 1 => c[w] + 1 \in 0..Digits - 1
  BY <1>1
<1>4. c[w] # 0 => c[w] - 1 \in 0..Digits - 1
  BY <1>1
<1>5. (IF c[w] = Digits - 1 THEN 0 ELSE c[w] + 1) \in 0..Digits - 1
  BY <1>2, <1>3
<1>6. (IF c[w] = 0 THEN Digits - 1 ELSE c[w] - 1) \in 0..Digits - 1
  BY <1>2, <1>4
<1>7. \A d \in 0..Digits - 1 : [c EXCEPT ![w] = d] \in [1..Wheels -> 0..Digits - 1]
  BY DEF Combinations
<1>8. /\ [c EXCEPT ![w] = IF c[w] = Digits - 1 THEN 0 ELSE c[w] + 1] \in [1..Wheels -> 0..Digits - 1]
      /\ [c EXCEPT ![w] = IF c[w] = 0 THEN Digits - 1 ELSE c[w] - 1] \in [1..Wheels -> 0..Digits - 1]
  BY <1>5, <1>6, <1>7, Zenon
<1> QED
  BY <1>8, Zenon DEF plus_one, minus_one, Combinations

(* The start is a combination, and there is a wheel. *)
LEMMA ZerosTyped == Zeros \in Combinations /\ 1 \in 1..Wheels /\ Wheels \in Nat
<1>1. 0 \in 0..Digits - 1 /\ 1 \in 1..Wheels /\ Wheels \in Nat
  BY DialAssumption
<1> QED
  BY <1>1 DEF Zeros, Combinations

(* What is a turn away from a set. *)
LEMMA TurnedMember ==
    ASSUME NEW S, NEW c
    PROVE  c \in Turned(S) <=> \E b \in S, w \in 1..Wheels : c = plus_one(b, w) \/ c = minus_one(b, w)
BY DEF Turned

(* There is a function such as ArrivedPast: what every set has that has the   *)
(* start and is closed under turns.                                           *)
LEMMA ArrivedExists ==
    ASSUME NEW B
    PROVE  \E f : f = [n \in Nat |-> IF n = 0 THEN {Zeros} ELSE Turned(f[n - 1] \ B)]
<1> DEFINE Turns(b, c) == \E w \in 1..Wheels : c = plus_one(b, w) \/ c = minus_one(b, w)
           All == Nat \X Combinations
           Closed(P) == /\ <<0, Zeros>> \in P
                        /\ \A n \in Nat, b, c \in Combinations :
                              <<n, b>> \in P /\ b \notin B /\ Turns(b, c) => <<n + 1, c>> \in P
           R == [n \in Nat |-> {c \in Combinations : \A P \in SUBSET All : Closed(P) => <<n, c>> \in P}]
<1>1. ASSUME NEW b \in Combinations, NEW c, Turns(b, c) PROVE c \in Combinations
  BY <1>1, TurnedTyped
<1>2. R[0] = {Zeros}
  <2>1. Zeros \in R[0]
    BY ZerosTyped
  <2>2. ASSUME NEW c \in Combinations, c # Zeros PROVE c \notin R[0]
    <3> DEFINE P == All \ {<<0, c>>}
    <3>1. Closed(P)
      <4>1. <<0, Zeros>> \in P
        BY <2>2, ZerosTyped
      <4>2. \A n \in Nat, d \in Combinations : <<n + 1, d>> \in P
        OBVIOUS
      <4> QED
        BY <4>1, <4>2
    <3>2. P \in SUBSET All /\ <<0, c>> \notin P
      OBVIOUS
    <3> QED
      BY <3>1, <3>2
  <2> QED
    BY <2>1, <2>2
<1>3. ASSUME NEW n \in Nat, NEW b \in R[n], b \notin B, NEW c, Turns(b, c) PROVE c \in R[n + 1]
  <2>1. b \in Combinations /\ c \in Combinations /\ n + 1 \in Nat
    BY <1>1, <1>3
  <2>2. ASSUME NEW P \in SUBSET All, Closed(P) PROVE <<n + 1, c>> \in P
    BY <1>3, <2>1, <2>2
  <2> QED
    BY <2>1, <2>2
<1>4. ASSUME NEW n \in Nat, NEW c \in R[n + 1] PROVE \E b \in R[n] : b \notin B /\ Turns(b, c)
  <2> SUFFICES ASSUME ~ \E b \in R[n] : b \notin B /\ Turns(b, c) PROVE FALSE
    OBVIOUS
  <2> DEFINE P == {t \in All : t[2] \in R[t[1]]} \ {<<n + 1, c>>}
  <2>1. <<0, Zeros>> \in P
    BY <1>2, ZerosTyped
  <2>2. ASSUME NEW m \in Nat, NEW b \in Combinations, NEW d \in Combinations,
               <<m, b>> \in P, b \notin B, Turns(b, d)
        PROVE  <<m + 1, d>> \in P
    <3>1. b \in R[m]
      BY <2>2
    <3>2. d \in R[m + 1] /\ m + 1 \in Nat
      <4>1. d \in R[m + 1]
        BY <1>3, <2>2, <3>1
      <4> HIDE DEF R
      <4> QED
        BY <4>1
    <3>3. ~(m = n /\ d = c)
      <4>1. b \notin B /\ Turns(b, d)
        BY <2>2
      <4> HIDE DEF P, R, Turns
      <4> QED
        BY <3>1, <4>1
    <3>4. <<m + 1, d>> # <<n + 1, c>>
      <4> HIDE DEF P, R
      <4>1. <<m + 1, d>> = <<n + 1, c>> => m + 1 = n + 1 /\ d = c
        OBVIOUS
      <4> QED
        BY <3>3, <4>1
    <3>5. <<m + 1, d>> \in {t \in All : t[2] \in R[t[1]]}
      <4> HIDE DEF R
      <4> QED
        BY <3>2
    <3> QED
      BY <3>4, <3>5
  <2>3. Closed(P)
    BY <2>1, <2>2
  <2>4. P \in SUBSET All /\ <<n + 1, c>> \notin P
    <3> HIDE DEF R, All
    <3> QED
      OBVIOUS
  <2>5. \A Q \in SUBSET All : Closed(Q) => <<n + 1, c>> \in Q
    <3>1. n + 1 \in Nat
      OBVIOUS
    <3> HIDE DEF Closed, All
    <3> QED
      BY <3>1
  <2> HIDE DEF P, Closed, All, R
  <2> QED
    BY <2>3, <2>4, <2>5
<1> HIDE DEF R
<1>5. ASSUME NEW n \in Nat PROVE R[n + 1] = Turned(R[n] \ B)
  <2>1. ASSUME NEW c \in R[n + 1] PROVE c \in Turned(R[n] \ B)
    BY <1>4, TurnedMember
  <2>2. ASSUME NEW c \in Turned(R[n] \ B) PROVE c \in R[n + 1]
    BY <1>3, TurnedMember
  <2> QED
    BY <2>1, <2>2
<1>6. ASSUME NEW n \in Nat PROVE R[n] = IF n = 0 THEN {Zeros} ELSE Turned(R[n - 1] \ B)
  <2>1. CASE n = 0
    BY <1>2, <2>1
  <2>2. CASE n # 0
    <3>1. n - 1 \in Nat /\ (n - 1) + 1 = n
      BY <2>2
    <3> QED
      BY <1>5, <2>2, <3>1
  <2> QED
    BY <2>1, <2>2
<1>7. R = [n \in Nat |-> R[n]]
  BY DEF R
<1>8. R = [n \in Nat |-> IF n = 0 THEN {Zeros} ELSE Turned(R[n - 1] \ B)]
  BY <1>6, <1>7
<1> QED
  BY <1>8

(* The arrivals, round by round. *)
LEMMA ArrivedRounds ==
    ASSUME NEW B
    PROVE  /\ ArrivedPast(B)[0] = {Zeros}
           /\ \A n \in Nat : ArrivedPast(B)[n + 1] = Turned(ArrivedPast(B)[n] \ B)
<1> DEFINE f == ArrivedPast(B)
<1>1. f = [n \in Nat |-> IF n = 0 THEN {Zeros} ELSE Turned(f[n - 1] \ B)]
  BY ArrivedExists DEF ArrivedPast
<1> HIDE DEF f
<1>2. f[0] = {Zeros}
  BY <1>1
<1>3. ASSUME NEW n \in Nat PROVE f[n + 1] = Turned(f[n] \ B)
  <2>1. n + 1 \in Nat /\ n + 1 # 0 /\ (n + 1) - 1 = n
    OBVIOUS
  <2>2. f[n + 1] = IF n + 1 = 0 THEN {Zeros} ELSE Turned(f[(n + 1) - 1] \ B)
    BY <1>1, <2>1
  <2> QED
    BY <2>1, <2>2
<1> QED
  BY <1>2, <1>3 DEF f

(* The arrivals of one round are turns of those of the last.                  *)
LEMMA NextArrived ==
    ASSUME NEW n \in Nat
    PROVE  /\ Arrived[0] = {Zeros}
           /\ \A c \in Arrived[n + 1] : \E b \in Arrived[n] \ Barred, w \in 1..Wheels :
                 c = plus_one(b, w) \/ c = minus_one(b, w)
           /\ \A b \in Arrived[n] \ Barred, w \in 1..Wheels :
                 plus_one(b, w) \in Arrived[n + 1] /\ minus_one(b, w) \in Arrived[n + 1]
<1>1. Arrived[0] = {Zeros} /\ Arrived[n + 1] = Turned(Arrived[n] \ Barred)
  BY ArrivedRounds DEF Arrived
<1> QED
  BY <1>1, TurnedMember

(* A step leaves alone which combinations may be passed, so what turns lead to. *)
LEMMA SameSearch ==
    ASSUME UNCHANGED <<search, dead, target>>
    PROVE  Barred' = Barred /\ Arrived' = Arrived
BY DEF Barred, Arrived, ArrivedPast

(* What combinations a queue without its head holds. *)
LEMMA TakenHead ==
    ASSUME NEW q \in Seq(Combinations), q # <<>>
    PROVE  /\ Tail(q) \in Seq(Combinations) /\ Len(Tail(q)) = Len(q) - 1
           /\ Head(q) = q[1] /\ Head(q) \in Combinations
           /\ \A i \in 1..Len(q) - 1 : Tail(q)[i] = q[i + 1]
OBVIOUS

-----------------------------------------------------------------------------
(* If the queue runs empty, everything any number of turns leads to is known,  *)
(* so that none leads to the target.                                           *)
LEMMA NoWay ==
    ASSUME DialInv, step = "round", offer = <<>>, NEW n \in Nat
    PROVE  Arrived[n] \subseteq Known /\ ~LeadsTo(n, target)
<1>1. \A c \in Known : c \in Barred \/ Expanded(c)
  BY DEF DialInv, DoneInv, Turning
<1>2. Zeros \in Known
  BY DEF Known
<1> DEFINE T == {m \in Nat : ~ (Arrived[m] \subseteq Known)}
<1>3. T = {}
  <2> SUFFICES ASSUME T # {} PROVE FALSE
    OBVIOUS
  <2>1. PICK m \in T : \A k \in T : m <= k
    BY Least
  <2>2. m # 0
    BY <1>2, <2>1, NextArrived
  <2>3. m - 1 \in Nat /\ (m - 1) + 1 = m
    BY <2>1, <2>2
  <2>4. Arrived[m - 1] \subseteq Known
    BY <2>1, <2>3
  <2>5. ASSUME NEW c \in Arrived[m] PROVE c \in Known
    <3>1. PICK b \in Arrived[m - 1] \ Barred, w \in 1..Wheels : c = plus_one(b, w) \/ c = minus_one(b, w)
      BY <2>3, NextArrived
    <3> QED
      BY <1>1, <2>4, <3>1 DEF Expanded, Known
  <2> QED
    BY <2>1, <2>5
<1>4. Arrived[n] \subseteq Known
  BY <1>3
<1>5. ~LeadsTo(n, target)
  BY <1>1, <1>4 DEF LeadsTo, Expanded
<1> QED
  BY <1>4, <1>5

(* A round starts, or the search returns as nothing is left in the queue. *)
LEMMA RoundKeeps ==
    ASSUME DialInv, Round, UNCHANGED <<search, dead, target>>
    PROVE  DialInv'
<1>1. Barred' = Barred /\ Arrived' = Arrived /\ Known' = Known
  BY SameSearch DEF Round, Known
<1>2. DialTypes'
  BY DEF DialInv, DialTypes, Round, chosen
<1>3. CASE offer = <<>>
  <2>1. step' = "returned" /\ answer' = -1
    BY <1>3 DEF Round
  <2>2. target # Zeros
    BY <1>3 DEF DialInv, DoneInv, Untouched, Round
  <2>3. \A n \in Nat : ~LeadsTo(n, target)
    BY <1>3, NoWay DEF Round
  <2>4. Answered'
    BY <1>1, <2>1, <2>2, <2>3 DEF Answered, LeadsTo
  <2> QED
    BY <1>2, <2>1, <2>4 DEF DialInv
<1>4. CASE offer # <<>>
  <2>1. step = "round" /\ step' = "take" /\ rest' = Len(offer)
    BY <1>4 DEF Round
  <2>2. Near' = Near
    BY <2>1 DEF Near, Round
  <2>3. QueueInv'
    BY <1>1, <2>1, <2>2 DEF DialInv, QueueInv, Round
  <2>4. FrontInv'
    BY <2>1 DEF FrontInv, Turning
  <2>5. DoneInv'
    <3>1. \A c : Expanded(c)' <=> Expanded(c)
      BY DEF Expanded, Round
    <3>2. ~Turning /\ ~Turning'
      BY <2>1 DEF Turning
    <3>3. Untouched => Untouched'
      BY <2>1 DEF Untouched, Round
    <3> QED
      BY <1>1, <2>1, <3>1, <3>2, <3>3 DEF DialInv, DoneInv, Round
  <2>6. CountInv'
    BY <1>1, <2>1 DEF DialInv, CountInv, Round, LeadsTo
  <2> QED
    BY <1>2, <2>1, <2>3, <2>4, <2>5, <2>6 DEF DialInv
<1> QED
  BY <1>3, <1>4

(* At the end of a round, all that its number of turns leads to is expanded.   *)
LEMMA RoundEndsKeeps ==
    ASSUME DialInv, RoundEnds, UNCHANGED <<search, dead, target>>
    PROVE  DialInv'
<1> DEFINE n == dial_count
<1>1. Barred' = Barred /\ Arrived' = Arrived /\ Known' = Known
  BY SameSearch DEF RoundEnds, Known
<1>2. step = "take" /\ rest = 0 /\ step' = "round" /\ dial_count' = n + 1 /\ n \in Nat
  BY DEF RoundEnds, DialInv, DialTypes
<1>3. DialTypes'
  BY <1>2 DEF DialInv, DialTypes, RoundEnds, chosen
<1>4. ~Turning /\ ~Turning' /\ ~Untouched
  BY <1>2 DEF Turning, Untouched
<1>5. Near = 0 /\ Near' = Len(offer) /\ Len(offer) \in Nat /\ DOMAIN offer = 1..Len(offer)
  BY <1>2 DEF Near, RoundEnds, DialInv, DialTypes
<1>6. ASSUME NEW b \in Arrived[n] \ Barred PROVE Expanded(b)
  <2>1. b \in Known
    BY <1>2 DEF DialInv, CountInv
  <2>2. ASSUME NEW i \in DOMAIN offer, offer[i] = b PROVE Expanded(b)
    <3>1. search = "openLock" /\ b = Zeros
      BY <1>2, <1>5, <2>2 DEF DialInv, QueueInv
    <3> QED
      BY <1>2, <1>4, <3>1 DEF DialInv, DoneInv
  <2> QED
    BY <1>2, <1>4, <2>1, <2>2 DEF DialInv, DoneInv
<1>7. Arrived[n + 1] \subseteq Known
  <2> SUFFICES ASSUME NEW c \in Arrived[n + 1] PROVE c \in Known
    OBVIOUS
  <2>1. PICK b \in Arrived[n] \ Barred, w \in 1..Wheels : c = plus_one(b, w) \/ c = minus_one(b, w)
    BY <1>2, NextArrived
  <2> QED
    BY <1>6, <2>1 DEF Expanded, Known
<1>8. ~LeadsTo(n, target)
  BY <1>6 DEF LeadsTo, Expanded
<1>9. QueueInv'
  BY <1>1, <1>2, <1>5 DEF DialInv, QueueInv, RoundEnds
<1>10. DoneInv'
  <2>1. \A c : Expanded(c)' <=> Expanded(c)
    BY DEF Expanded, RoundEnds
  <2> QED
    BY <1>1, <1>2, <1>4, <2>1 DEF DialInv, DoneInv, RoundEnds
<1>11. CountInv'
  <2>1. \A k \in 0..n : Arrived[k] \subseteq Known
    BY <1>2 DEF DialInv, CountInv
  <2>2. \A k \in 0..n + 1 : k \in 0..n \/ k = n + 1
    BY <1>2
  <2>3. \A k \in 0..n + 1 : Arrived[k] \subseteq Known
    BY <1>7, <2>1, <2>2
  <2>4. \A k \in 0..n - 1 : ~LeadsTo(k, target)
    BY <1>2 DEF DialInv, CountInv
  <2>5. \A k \in 0..(n + 1) - 1 : k \in 0..n - 1 \/ k = n
    BY <1>2
  <2>6. \A k \in 0..(n + 1) - 1 : ~LeadsTo(k, target)
    BY <1>8, <2>4, <2>5
  <2> QED
    BY <1>1, <1>2, <2>3, <2>6 DEF CountInv, LeadsTo
<1>12. FrontInv'
  BY <1>4 DEF FrontInv
<1> QED
  BY <1>2, <1>3, <1>9, <1>10, <1>11, <1>12 DEF DialInv

(* What was taken out of the queue may be passed unless it is skipped, and if  *)
(* it is skipped it is barred or was expanded before.                          *)
LEMMA HeadOf ==
    ASSUME DialInv, step = "take", rest > 0
    PROVE  /\ offer \in Seq(Combinations) /\ offer # <<>>
           /\ Head(offer) \in Arrived[dial_count]
           /\ ~Skips(Head(offer)) => Head(offer) \notin Barred
           /\ Skips(Head(offer)) => Head(offer) \in Barred \/ Expanded(Head(offer))
           /\ Untouched => Head(offer) = Zeros /\ ~Skips(Head(offer)) /\ dial_count = 0
<1> DEFINE h == Head(offer)
<1>1. /\ offer \in Seq(Combinations) /\ rest \in Nat /\ dial_count \in Nat
      /\ search \in {"openlock", "openLock"} /\ rest <= Len(offer)
  BY DEF DialInv, DialTypes, QueueInv, Near
<1>2. Len(offer) >= 1 /\ DOMAIN offer = 1..Len(offer) /\ offer # <<>>
  BY <1>1
<1>3. h = offer[1] /\ 1 \in DOMAIN offer /\ 1 <= Near
  BY <1>1, <1>2 DEF Near
<1>4. h \in Arrived[dial_count]
  BY <1>3 DEF DialInv, QueueInv
<1>5. ~Turning
  BY DEF Turning
<1>6. ASSUME Untouched PROVE h = Zeros /\ ~Skips(h) /\ dial_count = 0
  <2>1. offer = <<Zeros>> /\ search = "openLock" /\ dial_count = 0
    BY <1>6 DEF Untouched
  <2> QED
    BY <1>3, <2>1 DEF Skips
<1>7. ASSUME ~Skips(h) PROVE h \notin Barred
  <2>1. CASE dial_count = 0 /\ search = "openLock"
    BY <1>4, <2>1, NextArrived DEF Barred
  <2>2. CASE ~(dial_count = 0 /\ search = "openLock")
    BY <1>1, <1>7, <2>2 DEF Skips, Barred
  <2> QED
    BY <2>1, <2>2
<1>8. ASSUME Skips(h) PROVE h \in Barred \/ Expanded(h)
  <2>1. CASE search = "openLock" /\ h = Zeros
    BY <1>5, <1>6, <1>8, <2>1 DEF DialInv, DoneInv
  <2>2. CASE ~(search = "openLock" /\ h = Zeros)
    BY <1>1, <1>8, <2>2 DEF Skips, Barred
  <2> QED
    BY <2>1, <2>2
<1> QED
  BY <1>1, <1>2, <1>4, <1>6, <1>7, <1>8

(* An element that is taken out is the front, or was done with.                *)
LEMMA TakeKeeps ==
    ASSUME DialInv, Take, UNCHANGED <<search, dead, target>>
    PROVE  DialInv'
<1> DEFINE h == Head(offer)
<1>1. Barred' = Barred /\ Arrived' = Arrived /\ Known' = Known
  BY SameSearch DEF Take, Known
<1>2. /\ step = "take" /\ rest > 0 /\ rest' = rest - 1 /\ offer' = Tail(offer)
      /\ front' = h /\ wheel' = 1 /\ dial_count' = dial_count /\ seen' = seen
  BY DEF Take
<1>3. /\ offer \in Seq(Combinations) /\ offer # <<>> /\ h \in Arrived[dial_count]
      /\ ~Skips(h) => h \notin Barred
      /\ Skips(h) => h \in Barred \/ Expanded(h)
      /\ Untouched => h = Zeros /\ ~Skips(h) /\ dial_count = 0
  BY <1>2, HeadOf
<1>4. /\ offer' \in Seq(Combinations) /\ Len(offer') = Len(offer) - 1
      /\ h = offer[1] /\ h \in Combinations
      /\ \A i \in 1..Len(offer) - 1 : offer'[i] = offer[i + 1]
  BY <1>2, <1>3, TakenHead
<1>5. /\ Len(offer) \in Nat /\ DOMAIN offer = 1..Len(offer) /\ DOMAIN offer' = 1..Len(offer) - 1
      /\ rest \in Nat /\ dial_count \in Nat /\ ~Turning /\ 1 \in DOMAIN offer
  BY <1>2, <1>3, <1>4 DEF DialInv, DialTypes, Turning
<1>6. DialTypes' /\ step' \in {"take", "plus", "returned"}
  <2>1. step' \in {"take", "plus", "returned"} /\ answer' \in Int
    BY <1>2, <1>5 DEF Take, DialInv, DialTypes
  <2>2. rest - 1 \in Nat /\ 1 \in 1..Wheels
    BY <1>2, <1>5, ZerosTyped
  <2>3. /\ search' \in {"openlock", "openLock"} /\ step' \in {"round", "take", "plus", "minus", "returned"}
        /\ dead' \in SUBSET Combinations /\ target' \in Combinations /\ seen' \in SUBSET Combinations
    BY <1>2, <2>1 DEF DialInv, DialTypes
  <2> QED
    BY <1>2, <1>4, <1>5, <2>1, <2>2, <2>3 DEF DialTypes
<1>7. CASE step' = "returned"
  <2>1. ~Skips(h) /\ h = target /\ answer' = dial_count
    BY <1>2, <1>7 DEF Take
  <2>2. target = Zeros => dial_count = 0
    BY <1>2, <1>3 DEF DialInv, DoneInv
  <2>3. LeadsTo(dial_count, target)
    BY <1>3, <2>1 DEF LeadsTo
  <2>4. \A n \in 0..dial_count - 1 : ~LeadsTo(n, target)
    BY <1>2 DEF DialInv, CountInv
  <2>5. Answered'
    BY <1>1, <1>5, <2>1, <2>2, <2>3, <2>4 DEF Answered, LeadsTo
  <2> QED
    BY <1>6, <1>7, <2>5 DEF DialInv
<1>8. CASE step' \in {"take", "plus"}
  <2>1. Near = rest /\ Near' = rest - 1
    BY <1>2, <1>8 DEF Near
  <2>2. \A i \in DOMAIN offer' : i + 1 \in DOMAIN offer /\ offer'[i] = offer[i + 1]
    BY <1>4, <1>5
  <2>3. QueueInv'
    <3>1. QueueInv
      BY <1>2 DEF DialInv
    <3>2. Near' <= Len(offer') /\ (search' = "openlock" => Zeros \in seen')
      BY <1>2, <1>4, <1>5, <2>1, <3>1 DEF QueueInv
    <3>3. \A i \in DOMAIN offer' : (i <= Near' => i + 1 <= Near) /\ (i > Near' => i + 1 > Near)
      BY <1>5, <2>1
    <3> QED
      BY <1>1, <1>2, <2>2, <3>1, <3>2, <3>3 DEF QueueInv
  <2>4. step' = "plus" => ~Skips(h) /\ h # target
    BY <1>2 DEF Take
  <2>5. step' = "take" => Skips(h)
    BY <1>2 DEF Take
  <2>6. FrontInv'
    BY <1>1, <1>2, <1>3, <1>8, <2>4 DEF FrontInv, Turning
  <2>7. DoneInv'
    <3>1. DoneInv
      BY <1>2 DEF DialInv
    <3>2. \A c : Expanded(c)' <=> Expanded(c)
      BY <1>2 DEF Expanded
    <3>3. ASSUME NEW c \in Known, NEW i \in DOMAIN offer, offer[i] = c
          PROVE  \/ c \in Barred \/ Expanded(c) \/ (Turning' /\ c = front')
                 \/ \E k \in DOMAIN offer' : offer'[k] = c
      <4>1. CASE i = 1
        BY <1>2, <1>3, <1>4, <1>8, <2>5, <3>3, <4>1 DEF Turning
      <4>2. CASE i # 1
        <5>1. i - 1 \in DOMAIN offer' /\ (i - 1) + 1 = i
          BY <1>5, <4>2
        <5>2. offer'[i - 1] = offer[(i - 1) + 1]
          BY <2>2, <5>1
        <5>3. offer'[i - 1] = c
          BY <3>3, <5>1, <5>2
        <5> QED
          BY <5>1, <5>3
      <4> QED
        BY <4>1, <4>2
    <3>4. \A c \in Known : \/ c \in Barred \/ Expanded(c) \/ (Turning' /\ c = front')
                           \/ \E k \in DOMAIN offer' : offer'[k] = c
      BY <1>5, <3>1, <3>3 DEF DoneInv
    <3>5. search = "openLock" => (Turning' /\ front' = Zeros) \/ Expanded(Zeros)
      BY <1>2, <1>3, <1>5, <1>8, <2>5, <3>1 DEF DoneInv, Turning
    <3>6. target # Zeros
      BY <1>3, <1>8, <2>4, <2>5, <3>1 DEF DoneInv
    <3> QED
      BY <1>1, <3>2, <3>4, <3>5, <3>6 DEF DoneInv
  <2>8. CountInv'
    BY <1>1, <1>2 DEF DialInv, CountInv, LeadsTo
  <2> QED
    BY <1>6, <1>8, <2>3, <2>6, <2>7, <2>8 DEF DialInv
<1> QED
  BY <1>6, <1>7, <1>8

(* A turn of the front: what is new goes to the end of the queue, a turn       *)
(* further from the start, where no fewer turns lead to.                       *)
LEMMA Pushes ==
    ASSUME DialInv, Turning, NEW c \in Arrived[dial_count + 1], c \in Combinations, Push(c),
           UNCHANGED <<search, dead, target, rest, front, dial_count, answer>>, step' \in {"take", "plus", "minus"}
    PROVE  /\ QueueInv' /\ CountInv'
           /\ offer' \in Seq(Combinations) /\ seen' \in SUBSET Combinations
           /\ seen \subseteq seen' /\ c \in seen'
           /\ \A d \in Known' : d \in Known \/ \E i \in DOMAIN offer' : offer'[i] = d
           /\ \A i \in DOMAIN offer : i \in DOMAIN offer' /\ offer'[i] = offer[i]
<1>1. Barred' = Barred /\ Arrived' = Arrived /\ Known' = Known \cup {c} /\ seen' = seen \cup {c}
  BY SameSearch DEF Push, Known
<1>2. /\ offer \in Seq(Combinations) /\ seen \in SUBSET Combinations /\ rest \in Nat /\ dial_count \in Nat
      /\ search \in {"openlock", "openLock"} /\ Near = rest /\ Near' = rest
      /\ QueueInv /\ CountInv
  BY DEF DialInv, DialTypes, Turning, Near
<1>3. Len(offer) \in Nat /\ DOMAIN offer = 1..Len(offer) /\ rest <= Len(offer)
  BY <1>2 DEF QueueInv
<1>4. CountInv'
  BY <1>1, <1>2 DEF CountInv, LeadsTo
<1>5. search = "openlock" => Zeros \in seen
  BY <1>2 DEF QueueInv
<1>6. CASE c \in seen
  <2>1. offer' = offer /\ Known' = Known
    BY <1>1, <1>6 DEF Push, Known
  <2>2. QueueInv'
    BY <1>1, <1>2, <2>1 DEF QueueInv
  <2> QED
    BY <1>1, <1>2, <1>4, <2>1, <2>2
<1>7. CASE c \notin seen
  <2>1. /\ offer' \in Seq(Combinations) /\ Len(offer') = Len(offer) + 1 /\ DOMAIN offer' = 1..Len(offer) + 1
        /\ offer'[Len(offer) + 1] = c
        /\ \A i \in 1..Len(offer) : offer'[i] = offer[i]
    BY <1>2, <1>7 DEF Push
  <2>2. (search = "openLock" /\ c = Zeros) \/ \A n \in 0..dial_count : c \notin Arrived[n]
    BY <1>2, <1>5, <1>7 DEF CountInv, Known
  <2>3. \A i \in DOMAIN offer' : (i \in DOMAIN offer /\ offer'[i] = offer[i]) \/ i = Len(offer) + 1
    BY <1>3, <2>1
  <2>4. ~ (Len(offer) + 1 <= rest) /\ Len(offer) + 1 > rest
    BY <1>2, <1>3
  <2>5. c \in Known' /\ Known \subseteq Known'
    BY <1>1
  <2>6. QueueInv'
    <3>1. (search' = "openlock" => Zeros \in seen') /\ Near' <= Len(offer')
      BY <1>1, <1>2, <1>3, <1>5, <2>1
    <3>2. ASSUME NEW i \in DOMAIN offer'
          PROVE  /\ offer'[i] \in Known'
                 /\ i <= rest => offer'[i] \in Arrived[dial_count]
                 /\ i > rest => offer'[i] \in Arrived[dial_count + 1]
                 /\ i > rest => \/ search = "openLock" /\ offer'[i] = Zeros
                                \/ \A n \in 0..dial_count : offer'[i] \notin Arrived[n]
      <4>1. CASE i \in DOMAIN offer /\ offer'[i] = offer[i]
        BY <1>2, <2>5, <4>1 DEF QueueInv
      <4>2. CASE i = Len(offer) + 1
        BY <2>1, <2>2, <2>4, <2>5, <4>2
      <4> QED
        BY <2>3, <4>1, <4>2
    <3> QED
      BY <1>1, <1>2, <3>1, <3>2 DEF QueueInv
  <2>7. \A d \in Known' : d \in Known \/ \E i \in DOMAIN offer' : offer'[i] = d
    <3>1. Len(offer) + 1 \in DOMAIN offer'
      BY <1>3, <2>1
    <3> QED
      BY <1>1, <2>1, <3>1
  <2>8. \A i \in DOMAIN offer : i \in DOMAIN offer' /\ offer'[i] = offer[i]
    BY <1>3, <2>1
  <2> QED
    BY <1>1, <1>2, <1>4, <2>1, <2>6, <2>7, <2>8
<1> QED
  BY <1>6, <1>7

(* What the turns of a front that is not the target leave to be done.          *)
LEMMA DoneAfterPush ==
    ASSUME DialInv, Turning, UNCHANGED <<search, dead, target, front>>, step' # "round",
           seen \subseteq seen',
           \A d \in Known' : d \in Known \/ \E i \in DOMAIN offer' : offer'[i] = d,
           \A i \in DOMAIN offer : i \in DOMAIN offer' /\ offer'[i] = offer[i],
           Turning' \/ Expanded(front)'
    PROVE  DoneInv'
<1>1. Barred' = Barred
  BY SameSearch
<1>2. DoneInv /\ ~Untouched
  BY DEF DialInv, Turning, Untouched
<1>3. \A d : Expanded(d) => Expanded(d)'
  BY DEF Expanded
<1>4. \A d \in Known' : \/ d \in Barred \/ Expanded(d)' \/ (Turning' /\ d = front')
                        \/ \E i \in DOMAIN offer' : offer'[i] = d
  BY <1>2, <1>3 DEF DoneInv
<1>5. search = "openLock" => (Turning' /\ front' = Zeros) \/ Expanded(Zeros)'
  BY <1>2, <1>3 DEF DoneInv
<1> QED
  BY <1>1, <1>2, <1>4, <1>5 DEF DoneInv

(* A wheel is turned one way, and the other. *)
LEMMA PlusKeeps ==
    ASSUME DialInv, PlusOne, UNCHANGED <<search, dead, target>>
    PROVE  DialInv'
<1> DEFINE c == plus_one(front, wheel)
<1>1. /\ step = "plus" /\ step' = "minus" /\ Turning /\ Turning' /\ Push(c)
      /\ UNCHANGED <<rest, front, wheel, dial_count, answer>>
  BY DEF PlusOne, Turning, chosen
<1>2. /\ front \in Combinations /\ wheel \in 1..Wheels /\ dial_count \in Nat
      /\ front \in Arrived[dial_count] \ Barred
  BY <1>1 DEF DialInv, DialTypes, FrontInv
<1>3. c \in Combinations /\ c \in Arrived[dial_count + 1]
  BY <1>2, TurnedTyped, NextArrived
<1>4. /\ QueueInv' /\ CountInv'
      /\ offer' \in Seq(Combinations) /\ seen' \in SUBSET Combinations
      /\ seen \subseteq seen' /\ c \in seen'
      /\ \A d \in Known' : d \in Known \/ \E i \in DOMAIN offer' : offer'[i] = d
      /\ \A i \in DOMAIN offer : i \in DOMAIN offer' /\ offer'[i] = offer[i]
  BY <1>1, <1>3, Pushes
<1>5. DoneInv'
  BY <1>1, <1>4, DoneAfterPush
<1>6. FrontInv'
  BY <1>1, <1>4, SameSearch DEF DialInv, FrontInv
<1>7. DialTypes'
  BY <1>1, <1>4 DEF DialInv, DialTypes
<1> QED
  BY <1>1, <1>4, <1>5, <1>6, <1>7 DEF DialInv

(* When the last wheel was turned, the front is expanded. *)
LEMMA MinusKeeps ==
    ASSUME DialInv, MinusOne, UNCHANGED <<search, dead, target>>
    PROVE  DialInv'
<1> DEFINE c == minus_one(front, wheel)
<1>1. /\ step = "minus" /\ Turning /\ Push(c)
      /\ \/ wheel < Wheels /\ step' = "plus" /\ wheel' = wheel + 1 /\ Turning'
         \/ wheel = Wheels /\ step' = "take" /\ wheel' = wheel
      /\ UNCHANGED <<rest, front, dial_count, answer>>
  BY DEF MinusOne, Turning
<1>2. /\ front \in Combinations /\ wheel \in 1..Wheels /\ dial_count \in Nat /\ Wheels \in Nat
      /\ front \in Arrived[dial_count] \ Barred /\ front # target /\ plus_one(front, wheel) \in seen
      /\ \A w \in 1..Wheels : w < wheel => plus_one(front, w) \in seen /\ minus_one(front, w) \in seen
  BY <1>1, ZerosTyped DEF DialInv, DialTypes, FrontInv
<1>3. c \in Combinations /\ c \in Arrived[dial_count + 1]
  BY <1>2, TurnedTyped, NextArrived
<1>4. /\ QueueInv' /\ CountInv'
      /\ offer' \in Seq(Combinations) /\ seen' \in SUBSET Combinations
      /\ seen \subseteq seen' /\ c \in seen'
      /\ \A d \in Known' : d \in Known \/ \E i \in DOMAIN offer' : offer'[i] = d
      /\ \A i \in DOMAIN offer : i \in DOMAIN offer' /\ offer'[i] = offer[i]
  <2>1. step' \in {"take", "plus", "minus"}
    BY <1>1
  <2> QED
    BY <1>1, <1>3, <2>1, Pushes
<1>5. \A w \in 1..Wheels : w <= wheel => plus_one(front, w) \in seen' /\ minus_one(front, w) \in seen'
  <2>1. \A w \in 1..Wheels : w <= wheel => w < wheel \/ w = wheel
    BY <1>2
  <2> QED
    BY <1>2, <1>4, <2>1
<1>6. Turning' \/ Expanded(front)'
  <2>1. CASE wheel = Wheels
    <3>1. \A w \in 1..Wheels : w <= wheel
      BY <1>2, <2>1
    <3> QED
      BY <1>1, <1>2, <1>5, <3>1 DEF Expanded
  <2> QED
    BY <1>1, <2>1
<1>7. DoneInv'
  BY <1>1, <1>4, <1>6, DoneAfterPush
<1>8. FrontInv'
  <2>1. CASE step' = "plus"
    <3>1. \A w \in 1..Wheels : w < wheel' => w <= wheel
      BY <1>1, <1>2, <2>1
    <3> QED
      BY <1>1, <1>2, <1>5, <2>1, <3>1, SameSearch DEF FrontInv
  <2>2. CASE step' = "take"
    BY <2>2 DEF FrontInv, Turning
  <2> QED
    BY <1>1, <2>1, <2>2
<1>9. DialTypes'
  <2>1. wheel' \in 1..Wheels
    BY <1>1, <1>2
  <2> QED
    BY <1>1, <1>4, <2>1 DEF DialInv, DialTypes
<1> QED
  BY <1>1, <1>4, <1>7, <1>8, <1>9 DEF DialInv

-----------------------------------------------------------------------------
(* The invariant holds when a search is called. *)
LEMMA DialInvInit == DialInit => DialInv
<1> SUFFICES ASSUME DialInit PROVE DialInv
  OBVIOUS
<1>1. /\ offer = <<Zeros>> /\ offer \in Seq(Combinations) /\ Len(offer) = 1 /\ offer[1] = Zeros
      /\ DOMAIN offer = 1..1
  BY ZerosTyped DEF DialInit
<1>2. DialTypes
  BY <1>1, ZerosTyped DEF DialInit, DialTypes
<1>3. CASE step = "returned"
  BY <1>2, <1>3 DEF DialInit, DialInv, Answered
<1>4. CASE step # "returned"
  <2>1. step = "round" /\ dial_count = 0 /\ Near = 1 /\ Known = {Zeros}
    BY <1>1, <1>4 DEF DialInit, Near, Known
  <2>2. QueueInv
    BY <1>1, <2>1, NextArrived DEF QueueInv, DialInit
  <2>3. FrontInv
    BY <2>1 DEF FrontInv, Turning
  <2>4. DoneInv
    BY <1>1, <1>4, <2>1 DEF DoneInv, DialInit, Untouched
  <2>5. CountInv
    BY <2>1, NextArrived DEF CountInv
  <2> QED
    BY <1>2, <1>4, <2>2, <2>3, <2>4, <2>5 DEF DialInv
<1> QED
  BY <1>3, <1>4

(* Every step keeps it. *)
LEMMA DialInvNext == DialInv /\ [DialNext]_dialVars => DialInv'
<1> SUFFICES ASSUME DialInv, [DialNext]_dialVars PROVE DialInv'
  OBVIOUS
<1>1. CASE DialNext
  BY <1>1, RoundKeeps, RoundEndsKeeps, TakeKeeps, PlusKeeps, MinusKeeps DEF DialNext
<1>2. CASE UNCHANGED dialVars
  <2>1. UNCHANGED <<search, step, dead, target, offer, seen, rest, front, wheel, dial_count, answer>>
    BY <1>2 DEF dialVars, chosen
  <2>2. Barred' = Barred /\ Arrived' = Arrived /\ Known' = Known /\ Near' = Near
    BY <2>1, SameSearch DEF Known, Near
  <2>3. DialTypes' /\ (QueueInv => QueueInv') /\ (FrontInv => FrontInv') /\ (CountInv => CountInv')
        /\ (Answered => Answered')
    BY <2>1, <2>2 DEF DialInv, DialTypes, QueueInv, FrontInv, CountInv, Answered, LeadsTo, Turning
  <2>4. DoneInv => DoneInv'
    BY <2>1, <2>2 DEF DoneInv, Untouched, Turning, Expanded
  <2> QED
    BY <2>1, <2>3, <2>4 DEF DialInv
<1> QED
  BY <1>1, <1>2

(* The answer of the searches is the fewest turns that lead to the target past *)
(* no dead combination, and -1 only when no number of turns does: openlock.cc, *)
(* lines 25-62, and Dial.cc, lines 11-45, with any wheels and digits.          *)
THEOREM DialsFewestTurns == DialSpec => []FewestTurns
<1>1. DialInv => FewestTurns
  <2> SUFFICES ASSUME DialInv, step = "returned"
               PROVE  /\ target = Zeros => answer = 0
                      /\ target # Zeros /\ answer = -1 => \A n \in 0..Digits^Wheels : ~LeadsTo(n, target)
                      /\ target # Zeros /\ answer # -1 =>
                            LeadsTo(answer, target) /\ \A n \in 0..answer - 1 : ~LeadsTo(n, target)
    BY DEF FewestTurns
  <2>1. Answered
    BY DEF DialInv
  <2>2. \A n \in 0..Digits^Wheels : n \in Nat
    OBVIOUS
  <2> QED
    BY <2>1, <2>2 DEF Answered
<1> QED
  BY <1>1, DialInvInit, DialInvNext, PTL DEF DialSpec

(* When a search returns -1, no number of turns whatever leads to the target:  *)
(* the queue ran empty, openlock.cc, line 61, and Dial.cc, line 44.            *)
THEOREM NoWayAtAll ==
    DialSpec => [](step = "returned" /\ target # Zeros /\ answer = -1 => \A n \in Nat : ~LeadsTo(n, target))
<1>1. DialInv => (step = "returned" /\ target # Zeros /\ answer = -1 => \A n \in Nat : ~LeadsTo(n, target))
  BY DEF DialInv, Answered
<1> QED
  BY <1>1, DialInvInit, DialInvNext, PTL DEF DialSpec

-----------------------------------------------------------------------------
(* The sliding windows: the invariant of each of them, and that its steps     *)
(* keep it.                                                                   *)

Counts(from, to) == [c \in DOMAIN NeedMap |-> Cardinality(Occurs(c, from, to))]

\* The characters that a part of the source has as often as the target.
Full(from, to) == {c \in DOMAIN NeedMap : Cardinality(Occurs(c, from, to)) >= NeedMap[c]}

WindowTypes ==
    /\ slider \in {"slide_window", "has_permutation", "index_permutation", "max_not_repeat"}
    /\ turn \in {"grow", "shrink", "returned"}
    /\ length \in Nat /\ length < IntMax
    /\ width \in Nat /\ (slider # "max_not_repeat" => width >= 1)
    /\ lower \in Nat /\ upper \in Nat /\ upper <= length
    /\ turn = "shrink" => upper < length

\* The last position in the window.
RightEnd == IF turn = "grow" THEN upper - 1 ELSE upper

Counted ==
    /\ lower <= RightEnd + 1
    /\ window.count = Counts(lower, RightEnd)
    /\ window.valid \in Int

\* The result is the first of the shortest windows among those that start
\* before lower and were measured.
Measured ==
    \/ result = Part(0, -1) /\ min_count = IntMax
    \/ \E p, q \in Positions :
          /\ Covers(p, q) /\ result = Part(p, q) /\ min_count = q - p + 1 /\ p < lower
          /\ \A a, b \in Positions : Covers(a, b) /\ a < p => min_count < b - a + 1

\* Parts with all characters that end before upper start before lower, and
\* those that start there are no shorter than the result; while the window
\* has all characters, those that end behind it are still to be measured.
SlideInv ==
    /\ Counted /\ window.valid = Cardinality(Full(lower, RightEnd))
    /\ \A a, b \in Positions : Covers(a, b) /\ b < upper => a < lower
    /\ \A a, b \in Positions :
          Covers(a, b) /\ a < lower =>
              min_count <= b - a + 1 \/ (turn = "shrink" /\ Covers(lower, upper) /\ b >= upper)
    /\ Measured

\* valid_ch is too small once a character that was missing already has gone.
AtMostFull ==
    /\ window.valid <= Cardinality(Full(lower, RightEnd))
    /\ AllDifferent => window.valid = Cardinality(Full(lower, RightEnd))

\* A window of the target's size that has moved up to upper, and no
\* permutation that ends before upper.
HasInv ==
    /\ Counted /\ AtMostFull
    /\ upper - lower <= width /\ (lower = 0 \/ RightEnd - lower + 1 >= width)
    /\ result = FALSE
    /\ AllDifferent => \A i \in Positions : Permuted(i) => i + width > upper

\* What is reported are the permutations that start before lower.
IndexInv ==
    /\ Counted /\ AtMostFull
    /\ upper - lower + 1 <= width /\ (lower = 0 \/ upper - lower + 1 = width)
    /\ result \in Seq(Nat)
    /\ \A i \in DOMAIN result : Permuted(result[i]) /\ result[i] < lower
    /\ \A i, j \in DOMAIN result : i < j => result[i] < result[j]
    /\ AllDifferent => \A i \in Positions : Permuted(i) /\ i < lower => \E k \in DOMAIN result : result[k] = i

\* The set holds the characters of the window, which are different; a run that
\* starts before lower has a repeat already, or is not closed at upper.
RepeatInv ==
    /\ lower <= upper
    /\ repeat_set = {source[i] : i \in lower..upper - 1}
    /\ \A i, j \in lower..upper - 1 : source[i] = source[j] => i = j
    /\ result \in Nat /\ result >= 1
    /\ \A a, b \in Positions : ClosedRun(a, b) /\ b < upper => b - a <= result
    /\ result = 1 \/ \E a, b \in Positions : ClosedRun(a, b) /\ b - a = result
    /\ turn = "grow" => \A a \in Positions : a < lower => \E i, j \in a..upper - 1 : source[i] = source[j] /\ i # j
    /\ turn = "shrink" =>
          source[upper] \in repeat_set /\ \A a \in Positions : a < lower => ~ClosedRun(a, upper)

WindowInv ==
    /\ WindowTypes
    /\ slider = "slide_window" => IF turn = "returned" THEN MinimumWindow ELSE SlideInv
    /\ slider = "has_permutation" => IF turn = "returned" THEN PermutationWindows ELSE HasInv
    /\ slider = "index_permutation" => IF turn = "returned" THEN PermutationWindows ELSE IndexInv
    /\ slider = "max_not_repeat" => IF turn = "returned" THEN NotRepeatedClosed ELSE RepeatInv

-----------------------------------------------------------------------------
(* The target's characters are there at least once. *)
LEMMA TargetCounts ==
    ASSUME width \in Nat
    PROVE  /\ IsFiniteSet(DOMAIN NeedMap)
           /\ \A c \in DOMAIN NeedMap : NeedMap[c] \in Nat /\ NeedMap[c] >= 1
           /\ \A i \in 0..width - 1 : sought[i] \in DOMAIN NeedMap
           /\ AllDifferent => \A c \in DOMAIN NeedMap : NeedMap[c] = 1
<1> DEFINE Places(c) == {i \in 0..width - 1 : sought[i] = c}
<1>1. IsFiniteSet(0..width - 1)
  BY FS_Interval
<1>2. DOMAIN NeedMap = {sought[i] : i \in 0..width - 1}
  BY DEF NeedMap
<1>3. IsFiniteSet({sought[i] : i \in 0..width - 1})
  <2> DEFINE f == [i \in 0..width - 1 |-> sought[i]]
  <2>1. f \in Surjection(0..width - 1, {sought[i] : i \in 0..width - 1})
    BY Fun_IsSurj
  <2> QED
    BY <1>1, <2>1, FS_Surjection
<1>4. ASSUME NEW c \in DOMAIN NeedMap
      PROVE  NeedMap[c] \in Nat /\ NeedMap[c] >= 1 /\ (AllDifferent => NeedMap[c] = 1)
  <2>1. NeedMap[c] = Cardinality(Places(c))
    BY DEF NeedMap
  <2>2. PICK i \in 0..width - 1 : sought[i] = c
    BY <1>2
  <2>3. IsFiniteSet(Places(c)) /\ Cardinality(Places(c)) \in Nat
    BY <1>1, FS_Subset, FS_CardinalityType
  <2>4. Places(c) # {}
    BY <2>2
  <2>5. Cardinality(Places(c)) # 0
    BY <2>3, <2>4, FS_EmptySet
  <2>6. AllDifferent => Places(c) = {i}
    BY <2>2 DEF AllDifferent
  <2>7. AllDifferent => Cardinality(Places(c)) = 1
    BY <2>6, FS_Singleton
  <2> HIDE DEF Places
  <2> QED
    BY <2>1, <2>3, <2>5, <2>7
<1> QED
  BY <1>2, <1>3, <1>4

LEMMA OccursFinite ==
    ASSUME NEW from \in Int, NEW to \in Int, NEW c
    PROVE  IsFiniteSet(Occurs(c, from, to)) /\ Cardinality(Occurs(c, from, to)) \in Nat
BY FS_Interval, FS_Subset, FS_CardinalityType DEF Occurs

(* One character more on the right. *)
LEMMA OccursRight ==
    ASSUME NEW from \in Int, NEW to \in Int, from <= to + 1, NEW c
    PROVE  Cardinality(Occurs(c, from, to + 1)) =
              IF c = source[to + 1] THEN Cardinality(Occurs(c, from, to)) + 1
              ELSE Cardinality(Occurs(c, from, to))
<1>1. to + 1 \notin Occurs(c, from, to)
  BY DEF Occurs
<1>2. c = source[to + 1] => Occurs(c, from, to + 1) = Occurs(c, from, to) \cup {to + 1}
  BY DEF Occurs
<1>3. c # source[to + 1] => Occurs(c, from, to + 1) = Occurs(c, from, to)
  BY DEF Occurs
<1>4. Cardinality(Occurs(c, from, to) \cup {to + 1}) = Cardinality(Occurs(c, from, to)) + 1
  BY <1>1, OccursFinite, FS_AddElement
<1> QED
  BY <1>2, <1>3, <1>4

(* One character less on the left. *)
LEMMA OccursLeft ==
    ASSUME NEW from \in Int, NEW to \in Int, from <= to, NEW c
    PROVE  Cardinality(Occurs(c, from, to)) =
              IF c = source[from] THEN Cardinality(Occurs(c, from + 1, to)) + 1
              ELSE Cardinality(Occurs(c, from + 1, to))
<1>1. from \notin Occurs(c, from + 1, to)
  BY DEF Occurs
<1>2. c = source[from] => Occurs(c, from, to) = Occurs(c, from + 1, to) \cup {from}
  BY DEF Occurs
<1>3. c # source[from] => Occurs(c, from, to) = Occurs(c, from + 1, to)
  BY DEF Occurs
<1>4. Cardinality(Occurs(c, from + 1, to) \cup {from}) = Cardinality(Occurs(c, from + 1, to)) + 1
  BY <1>1, OccursFinite, FS_AddElement
<1> QED
  BY <1>2, <1>3, <1>4

LEMMA FullFinite ==
    ASSUME width \in Nat, NEW from, NEW to
    PROVE  /\ IsFiniteSet(Full(from, to)) /\ Cardinality(Full(from, to)) \in Nat
           /\ Cardinality(Full(from, to)) <= Cardinality(DOMAIN NeedMap)
           /\ Cardinality(DOMAIN NeedMap) \in Nat
           /\ Cardinality(Full(from, to)) = Cardinality(DOMAIN NeedMap) => Full(from, to) = DOMAIN NeedMap
<1>1. Full(from, to) \in SUBSET DOMAIN NeedMap
  BY DEF Full
<1> QED
  BY <1>1, TargetCounts, FS_Subset, FS_CardinalityType

(* AddChar keeps the counts of the window, and moves valid with Full. *)
LEMMA AddFacts ==
    ASSUME width \in Nat, NEW from \in Int, NEW to \in Int, from <= to + 1,
           NEW w, w.count = Counts(from, to), w.valid \in Int
    PROVE  LET a == AddChar(w, source[to + 1]) IN
           /\ a.count = Counts(from, to + 1) /\ a.valid \in Int
           /\ a.valid - w.valid = Cardinality(Full(from, to + 1)) - Cardinality(Full(from, to))
<1> DEFINE ch == source[to + 1]
           n == Cardinality(Occurs(ch, from, to))
           a == AddChar(w, ch)
<1>0. /\ \A c : Cardinality(Occurs(c, from, to)) \in Nat
      /\ \A c : Cardinality(Occurs(c, from, to + 1)) \in Nat
  BY OccursFinite
<1>1. \A c : Cardinality(Occurs(c, from, to + 1)) =
                IF c = ch THEN Cardinality(Occurs(c, from, to)) + 1 ELSE Cardinality(Occurs(c, from, to))
  BY OccursRight
<1>2. CASE ch \notin DOMAIN NeedMap
  <2>1. a = w
    BY <1>2 DEF AddChar
  <2>2. Counts(from, to + 1) = Counts(from, to)
    BY <1>1, <1>2 DEF Counts
  <2>3. Full(from, to + 1) = Full(from, to)
    BY <1>1, <1>2 DEF Full
  <2> QED
    BY <2>1, <2>2, <2>3, FullFinite
<1>3. CASE ch \in DOMAIN NeedMap
  <2>1. w.count[ch] = n /\ DOMAIN w.count = DOMAIN NeedMap
    BY <1>3 DEF Counts
  <2>2. a = [count |-> [w.count EXCEPT ![ch] = n + 1],
             valid |-> IF n + 1 = NeedMap[ch] THEN w.valid + 1 ELSE w.valid]
    BY <1>3, <2>1 DEF AddChar
  <2>3. Counts(from, to + 1) = [Counts(from, to) EXCEPT ![ch] = n + 1]
    BY <1>1, <1>3 DEF Counts
  <2>4. NeedMap[ch] \in Nat
    BY <1>3, TargetCounts
  <2>5. CASE n + 1 = NeedMap[ch]
    <3>1. ch \notin Full(from, to) /\ Full(from, to + 1) = Full(from, to) \cup {ch}
      BY <1>0, <1>1, <1>3, <2>5 DEF Full
    <3>2. Cardinality(Full(from, to + 1)) = Cardinality(Full(from, to)) + 1
      BY <3>1, FullFinite, FS_AddElement
    <3> QED
      BY <2>2, <2>3, <2>5, <3>2, FullFinite
  <2>6. CASE n + 1 # NeedMap[ch]
    <3>1. n >= NeedMap[ch] <=> n + 1 >= NeedMap[ch]
      BY <1>0, <2>4, <2>6
    <3>2. Full(from, to + 1) = Full(from, to)
      BY <1>1, <1>3, <3>1 DEF Full
    <3> QED
      BY <2>2, <2>3, <2>6, <3>2, FullFinite
  <2> QED
    BY <2>5, <2>6
<1> QED
  BY <1>2, <1>3

(* DropChar keeps the counts too.  valid moves with Full if the character was *)
(* there as often as in the target; if not, valid can become too small.       *)
LEMMA DropFacts ==
    ASSUME width \in Nat, NEW from \in Int, NEW to \in Int, from <= to,
           NEW w, w.count = Counts(from, to), w.valid \in Int
    PROVE  LET a == DropChar(w, source[from]) IN
           /\ a.count = Counts(from + 1, to) /\ a.valid \in Int
           /\ a.valid - w.valid <= Cardinality(Full(from + 1, to)) - Cardinality(Full(from, to))
           /\ source[from] \in Full(from, to) \/ source[from] \notin DOMAIN NeedMap
              => a.valid - w.valid = Cardinality(Full(from + 1, to)) - Cardinality(Full(from, to))
           /\ Full(from + 1, to) \subseteq Full(from, to)
<1> DEFINE ch == source[from]
           n == Cardinality(Occurs(ch, from + 1, to))
           a == DropChar(w, ch)
<1>0. /\ \A c : Cardinality(Occurs(c, from, to)) \in Nat
      /\ \A c : Cardinality(Occurs(c, from + 1, to)) \in Nat
  BY OccursFinite
<1>1. \A c : Cardinality(Occurs(c, from, to)) =
                IF c = ch THEN Cardinality(Occurs(c, from + 1, to)) + 1
                ELSE Cardinality(Occurs(c, from + 1, to))
  BY OccursLeft
<1>2. CASE ch \notin DOMAIN NeedMap
  <2>1. a = w
    BY <1>2 DEF DropChar
  <2>2. Counts(from, to) = Counts(from + 1, to)
    BY <1>1, <1>2 DEF Counts
  <2>3. Full(from, to) = Full(from + 1, to)
    BY <1>1, <1>2 DEF Full
  <2> QED
    BY <1>2, <2>1, <2>2, <2>3, FullFinite
<1>3. CASE ch \in DOMAIN NeedMap
  <2>0. n \in Nat /\ Cardinality(Occurs(ch, from, to)) = n + 1
    BY <1>0, <1>1
  <2>1. w.count[ch] = n + 1 /\ DOMAIN w.count = DOMAIN NeedMap
    BY <2>0, <1>3 DEF Counts
  <2>2. a = [count |-> [w.count EXCEPT ![ch] = n],
             valid |-> IF n < NeedMap[ch] THEN w.valid - 1 ELSE w.valid]
    <3>1. w.count[ch] - 1 = n
      BY <2>0, <2>1
    <3> QED
      BY <1>3, <3>1 DEF DropChar
  <2>3. Counts(from + 1, to) = [Counts(from, to) EXCEPT ![ch] = n]
    BY <1>1, <1>3 DEF Counts
  <2>4. NeedMap[ch] \in Nat
    BY <1>3, TargetCounts
  <2>5. CASE n + 1 = NeedMap[ch]
    <3>1. ch \in Full(from, to) /\ Full(from + 1, to) = Full(from, to) \ {ch}
      BY <1>0, <1>1, <1>3, <2>5 DEF Full
    <3>2. Cardinality(Full(from + 1, to)) = Cardinality(Full(from, to)) - 1
      BY <3>1, FullFinite, FS_RemoveElement
    <3>3. n < NeedMap[ch]
      BY <1>0, <2>4, <2>5
    <3> QED
      BY <1>3, <2>2, <2>3, <3>1, <3>2, <3>3, FullFinite
  <2>6. CASE n + 1 # NeedMap[ch]
    <3>1. n >= NeedMap[ch] <=> n + 1 >= NeedMap[ch]
      BY <1>0, <2>4, <2>6
    <3>2. Full(from + 1, to) = Full(from, to)
      BY <1>1, <1>3, <3>1 DEF Full
    <3>3. ch \in Full(from, to) => ~(n < NeedMap[ch])
      BY <1>0, <1>1, <2>4, <2>6 DEF Full
    <3>4. a.count = [w.count EXCEPT ![ch] = n]
          /\ a.valid = IF n < NeedMap[ch] THEN w.valid - 1 ELSE w.valid
      BY <2>2
    <3>5. a.valid \in Int /\ a.valid <= w.valid
      BY <3>4
    <3> QED
      BY <1>3, <2>3, <3>2, <3>3, <3>4, <3>5, FullFinite
  <2> QED
    BY <2>5, <2>6
<1> QED
  BY <1>2, <1>3

(* A window is valid when every character of the target is there. *)
LEMMA FullCovers ==
    ASSUME width \in Nat, width >= 1, length \in Nat, NEW from \in Nat, NEW to \in Int, to < length
    PROVE  Full(from, to) = DOMAIN NeedMap <=> Covers(from, to)
<1>1. Full(from, to) = DOMAIN NeedMap <=> \A c \in DOMAIN NeedMap : Cardinality(Occurs(c, from, to)) >= NeedMap[c]
  BY DEF Full
<1>2. ASSUME Full(from, to) = DOMAIN NeedMap, from > to
      PROVE  FALSE
  <2>1. sought[0] \in DOMAIN NeedMap
    BY TargetCounts
  <2>2. Occurs(sought[0], from, to) = {}
    BY <1>2 DEF Occurs
  <2>3. Cardinality(Occurs(sought[0], from, to)) = 0
    BY <2>2, FS_EmptySet
  <2>4. NeedMap[sought[0]] \in Nat /\ NeedMap[sought[0]] >= 1
    BY <2>1, TargetCounts
  <2> QED
    BY <1>1, <1>2, <2>1, <2>3, <2>4
<1>3. Full(from, to) = DOMAIN NeedMap => from \in Positions /\ to \in Positions /\ from <= to
  BY <1>2 DEF Positions
<1> QED
  BY <1>1, <1>3 DEF Covers

LEMMA CoversWider ==
    ASSUME width \in Nat, length \in Nat, NEW a \in Positions, NEW b \in Positions, Covers(a, b),
           NEW p \in Positions, NEW q \in Positions, p <= a, b <= q
    PROVE  Covers(p, q)
<1>1. a \in Nat /\ b \in Nat /\ p \in Nat /\ q \in Nat /\ a <= b
  BY DEF Positions, Covers
<1>2. ASSUME NEW c \in DOMAIN NeedMap
      PROVE  Cardinality(Occurs(c, p, q)) >= NeedMap[c]
  <2>1. Occurs(c, a, b) \subseteq Occurs(c, p, q)
    BY <1>1 DEF Occurs
  <2>2. Cardinality(Occurs(c, a, b)) <= Cardinality(Occurs(c, p, q))
    BY <1>1, <2>1, OccursFinite, FS_Subset
  <2>3. Cardinality(Occurs(c, a, b)) >= NeedMap[c] /\ NeedMap[c] \in Nat
    BY TargetCounts DEF Covers
  <2> QED
    BY <1>1, <2>2, <2>3, OccursFinite
<1> QED
  BY <1>1, <1>2 DEF Covers

LEMMA BijectionIs ==
    ASSUME NEW S, NEW T, NEW p \in Bijection(S, T)
    PROVE  p \in [S -> T] /\ \A x, y \in S : p[x] = p[y] => x = y
BY DEF Bijection, Injection, IsInjective

(* A permutation of the target has all its characters. *)
LEMMA PermutedCovers ==
    ASSUME width \in Nat, width >= 1, length \in Nat, NEW a, Permuted(a)
    PROVE  Covers(a, a + width - 1)
<1>1. a \in Nat /\ a + width <= length
  BY DEF Permuted, Positions
<1>2. PICK p \in Bijection(0..width - 1, 0..width - 1) : \A k \in 0..width - 1 : source[a + p[k]] = sought[k]
  BY DEF Permuted
<1>3. /\ p \in [0..width - 1 -> 0..width - 1]
      /\ \A j, k \in 0..width - 1 : p[j] = p[k] => j = k
  <2> DEFINE N == 0..width - 1
  <2>1. p \in Bijection(N, N)
    BY <1>2
  <2> HIDE DEF N
  <2>2. p \in [N -> N] /\ \A x, y \in N : p[x] = p[y] => x = y
    BY <2>1, BijectionIs
  <2> QED
    BY <2>2 DEF N
<1>4. ASSUME NEW c \in DOMAIN NeedMap
      PROVE  Cardinality(Occurs(c, a, a + width - 1)) >= NeedMap[c]
  <2> DEFINE Places == {k \in 0..width - 1 : sought[k] = c}
             f == [k \in Places |-> a + p[k]]
  <2>1. NeedMap[c] = Cardinality(Places)
    BY DEF NeedMap
  <2>2. ASSUME NEW k \in Places
        PROVE  a + p[k] \in Occurs(c, a, a + width - 1)
    <3>1. p[k] \in 0..width - 1 /\ source[a + p[k]] = c
      BY <1>2, <1>3
    <3> QED
      BY <1>1, <3>1 DEF Occurs
  <2>3. ASSUME NEW j \in Places, NEW k \in Places, a + p[j] = a + p[k]
        PROVE  j = k
    <3>1. p[j] \in 0..width - 1 /\ p[k] \in 0..width - 1
      BY <1>3
    <3>2. p[j] = p[k]
      BY <1>1, <2>3, <3>1
    <3> QED
      BY <1>3, <3>2
  <2> HIDE DEF Places
  <2>4. f \in Injection(Places, Occurs(c, a, a + width - 1))
    BY <2>2, <2>3, Fun_IsInj
  <2>5. IsFiniteSet(Occurs(c, a, a + width - 1)) /\ Cardinality(Occurs(c, a, a + width - 1)) \in Nat
    BY <1>1, OccursFinite
  <2>6. Cardinality(Places) <= Cardinality(Occurs(c, a, a + width - 1))
    BY <2>4, <2>5, FS_Injection
  <2>7. NeedMap[c] \in Nat
    BY TargetCounts
  <2> QED
    BY <2>1, <2>5, <2>6, <2>7
<1>5. a \in Positions /\ a + width - 1 \in Positions /\ a <= a + width - 1
  BY <1>1 DEF Positions
<1> QED
  BY <1>4, <1>5 DEF Covers

(* A set that is not larger than another one goes into it. *)
LEMMA SmallerGoesInto ==
    ASSUME NEW S, NEW T, IsFiniteSet(S), IsFiniteSet(T), Cardinality(S) <= Cardinality(T)
    PROVE  \E f : f \in [S -> T] /\ \A x, y \in S : f[x] = f[y] => x = y
<1> DEFINE m == Cardinality(S)
           n == Cardinality(T)
<1>1. m \in Nat /\ n \in Nat
  BY FS_CardinalityType
<1>2. PICK g : g \in Bijection(1..m, S)
  BY FS_CardinalityType DEF ExistsBijection
<1>3. PICK h : h \in Bijection(1..n, T)
  BY FS_CardinalityType DEF ExistsBijection
<1>4. Inverse(g, 1..m, S) \in Bijection(S, 1..m)
  BY <1>2, Fun_BijInverse
<1> DEFINE k == Inverse(g, 1..m, S)
<1>5. k \in [S -> 1..m] /\ \A x, y \in S : k[x] = k[y] => x = y
  <2> DEFINE M == 1..m
  <2>1. k \in Bijection(S, M)
    BY <1>4
  <2> HIDE DEF M, k
  <2>2. k \in [S -> M] /\ \A x, y \in S : k[x] = k[y] => x = y
    BY <2>1, BijectionIs
  <2> QED
    BY <2>2 DEF M
<1>6. h \in [1..n -> T] /\ \A x, y \in 1..n : h[x] = h[y] => x = y
  BY <1>3, BijectionIs
<1> HIDE DEF k, m, n
<1>7. \A x \in 1..m : x \in 1..n
  BY <1>1 DEF m, n
<1> DEFINE f == [x \in S |-> h[k[x]]]
<1>8. f \in [S -> T]
  BY <1>5, <1>6, <1>7
<1>9. ASSUME NEW x \in S, NEW y \in S, f[x] = f[y]
      PROVE  x = y
  <2>1. h[k[x]] = h[k[y]] /\ k[x] \in 1..n /\ k[y] \in 1..n
    BY <1>5, <1>7, <1>9
  <2>2. k[x] = k[y]
    BY <1>6, <2>1
  <2> QED
    BY <1>5, <2>2
<1> QED
  BY <1>8, <1>9

(* A part that is no longer than the target and has all its characters is a *)
(* permutation of it: there is no place for another character.              *)
LEMMA CoversPermuted ==
    ASSUME width \in Nat, width >= 1, length \in Nat, NEW a, NEW b, Covers(a, b), b - a + 1 <= width
    PROVE  b - a + 1 = width /\ Permuted(a)
<1> DEFINE Places(c) == {k \in 0..width - 1 : sought[k] = c}
           Into(c) == {g \in [Places(c) -> Occurs(c, a, b)] : \A j, k \in Places(c) : g[j] = g[k] => j = k}
           f == [k \in 0..width - 1 |-> (CHOOSE g : g \in Into(sought[k]))[k]]
<1>1. a \in Nat /\ b \in Nat /\ a <= b /\ b < length
  BY DEF Covers, Positions
<1>2. ASSUME NEW c \in DOMAIN NeedMap
      PROVE  (CHOOSE g : g \in Into(c)) \in Into(c)
  <2>1. NeedMap[c] = Cardinality(Places(c))
    BY DEF NeedMap
  <2>2. IsFiniteSet(Places(c)) /\ Cardinality(Places(c)) \in Nat
    <3>1. IsFiniteSet(0..width - 1) /\ Places(c) \in SUBSET (0..width - 1)
      BY FS_Interval
    <3> HIDE DEF Places
    <3> QED
      BY <3>1, FS_Subset, FS_CardinalityType
  <2>3. IsFiniteSet(Occurs(c, a, b)) /\ Cardinality(Occurs(c, a, b)) \in Nat
    BY <1>1, OccursFinite
  <2>4. Cardinality(Occurs(c, a, b)) >= NeedMap[c]
    BY DEF Covers
  <2>5. Cardinality(Places(c)) <= Cardinality(Occurs(c, a, b))
    BY <2>1, <2>2, <2>3, <2>4
  <2>6. \E g : g \in [Places(c) -> Occurs(c, a, b)] /\ \A j, k \in Places(c) : g[j] = g[k] => j = k
    <3> HIDE DEF Places
    <3> QED
      BY <2>2, <2>3, <2>5, SmallerGoesInto
  <2> QED
    BY <2>6
<1>3. ASSUME NEW k \in 0..width - 1
      PROVE  f[k] \in Occurs(sought[k], a, b)
  <2>1. sought[k] \in DOMAIN NeedMap /\ k \in Places(sought[k])
    BY TargetCounts
  <2>2. (CHOOSE g : g \in Into(sought[k])) \in [Places(sought[k]) -> Occurs(sought[k], a, b)]
    BY <1>2, <2>1
  <2>3. f[k] = (CHOOSE g : g \in Into(sought[k]))[k]
    OBVIOUS
  <2> HIDE DEF Into, Places, f
  <2> QED
    BY <2>1, <2>2, <2>3
<1>4. ASSUME NEW k \in 0..width - 1
      PROVE  f[k] \in a..b /\ source[f[k]] = sought[k]
  <2> HIDE DEF f
  <2> QED
    BY <1>3 DEF Occurs
<1>5. ASSUME NEW j \in 0..width - 1, NEW k \in 0..width - 1, f[j] = f[k]
      PROVE  j = k
  <2>1. sought[j] = sought[k]
    <3> HIDE DEF f
    <3> QED
      BY <1>4, <1>5
  <2> DEFINE c == sought[k]
             g == CHOOSE h : h \in Into(c)
  <2>2. j \in Places(c) /\ k \in Places(c) /\ c \in DOMAIN NeedMap
    BY <2>1, TargetCounts
  <2>3. g \in Into(c)
    BY <1>2, <2>2
  <2>4. f[j] = g[j] /\ f[k] = g[k]
    <3>1. f[j] = (CHOOSE h : h \in Into(sought[j]))[j] /\ f[k] = (CHOOSE h : h \in Into(sought[k]))[k]
      OBVIOUS
    <3> HIDE DEF f, Into
    <3> QED
      BY <2>1, <3>1
  <2>5. \A x, y \in Places(c) : g[x] = g[y] => x = y
    BY <2>3
  <2> HIDE DEF Places, g, f, c
  <2> QED
    BY <1>5, <2>2, <2>4, <2>5
<1> HIDE DEF f, Into, Places
<1>6. f \in [0..width - 1 -> a..b]
  <2>1. f = [k \in 0..width - 1 |-> f[k]]
    BY DEF f
  <2> QED
    BY <1>4, <2>1
<1>7. f \in Injection(0..width - 1, a..b)
  BY <1>5, <1>6, Fun_IsInj
<1>8. /\ IsFiniteSet(a..b) /\ Cardinality(a..b) = b - a + 1
      /\ Cardinality(0..width - 1) = width
  BY <1>1, FS_Interval
<1>9. Cardinality(0..width - 1) <= Cardinality(a..b)
      /\ (Cardinality(0..width - 1) = Cardinality(a..b) <=> f \in Surjection(0..width - 1, a..b))
  BY <1>7, <1>8, FS_Injection
<1>10. b - a + 1 = width
  BY <1>1, <1>8, <1>9
<1>11. f \in Surjection(0..width - 1, a..b)
  BY <1>8, <1>9, <1>10
<1>12. \A x \in a..b : \E k \in 0..width - 1 : f[k] = x
  BY <1>11 DEF Surjection
<1> DEFINE p == [k \in 0..width - 1 |-> f[k] - a]
<1>13. p \in [0..width - 1 -> 0..width - 1]
  <2>1. ASSUME NEW k \in 0..width - 1 PROVE f[k] - a \in 0..width - 1
    <3>1. f[k] \in a..b
      BY <1>4
    <3> QED
      BY <1>1, <1>10, <3>1
  <2> QED
    BY <2>1
<1>14. ASSUME NEW j \in 0..width - 1, NEW k \in 0..width - 1, p[j] = p[k]
       PROVE  j = k
  <2>1. f[j] \in a..b /\ f[k] \in a..b /\ f[j] - a = f[k] - a
    BY <1>4, <1>14
  <2>2. f[j] = f[k]
    BY <1>1, <2>1
  <2> QED
    BY <1>5, <2>2
<1>15. ASSUME NEW x \in 0..width - 1
       PROVE  \E k \in 0..width - 1 : p[k] = x
  <2>1. a + x \in a..b
    BY <1>1, <1>10
  <2>2. PICK k \in 0..width - 1 : f[k] = a + x
    BY <1>12, <2>1
  <2>3. p[k] = x
    BY <1>1, <2>2
  <2> QED
    BY <2>3
<1>16. p \in Bijection(0..width - 1, 0..width - 1)
  BY <1>13, <1>14, <1>15, Fun_IsBij
<1>17. ASSUME NEW k \in 0..width - 1
       PROVE  source[a + p[k]] = sought[k]
  <2>1. a + p[k] = f[k]
    BY <1>1, <1>4
  <2> QED
    BY <1>4, <2>1
<1>18. a \in Positions /\ a + width <= length
  BY <1>1, <1>10 DEF Positions
<1> QED
  BY <1>10, <1>16, <1>17, <1>18 DEF Permuted

(* No step changes the strings, and what is said of them stays true. *)
LEMMA SameText ==
    ASSUME UNCHANGED <<source, length, sought, width>>
    PROVE  /\ NeedMap' = NeedMap /\ Positions' = Positions
           /\ \A c, a, b : Occurs(c, a, b)' = Occurs(c, a, b)
           /\ \A a, b : Counts(a, b)' = Counts(a, b) /\ Full(a, b)' = Full(a, b)
           /\ \A a, b : (Covers(a, b)' <=> Covers(a, b)) /\ Part(a, b)' = Part(a, b)
           /\ \A a : Permuted(a)' <=> Permuted(a)
           /\ AllDifferent' <=> AllDifferent
           /\ \A a, b : ClosedRun(a, b)' <=> ClosedRun(a, b)
<1>1. NeedMap' = NeedMap
  BY DEF NeedMap
<1>2. Positions' = Positions
  BY DEF Positions
<1>3. \A c, a, b : Occurs(c, a, b)' = Occurs(c, a, b)
  BY DEF Occurs
<1>4. \A a, b : Counts(a, b)' = Counts(a, b)
  BY <1>1, <1>3 DEF Counts
<1>5. \A a, b : Full(a, b)' = Full(a, b)
  BY <1>1, <1>3 DEF Full
<1>6. \A a, b : Covers(a, b)' <=> Covers(a, b)
  BY <1>1, <1>2, <1>3 DEF Covers
<1>7. \A a, b : Part(a, b)' = Part(a, b)
  BY DEF Part
<1>8. \A a : Permuted(a)' <=> Permuted(a)
  BY <1>2 DEF Permuted
<1>9. (AllDifferent' <=> AllDifferent) /\ \A a, b : ClosedRun(a, b)' <=> ClosedRun(a, b)
  BY DEF AllDifferent, ClosedRun
<1> QED
  BY <1>1, <1>2, <1>3, <1>4, <1>5, <1>6, <1>7, <1>8, <1>9

LEMMA MaxNat == IntMax \in Nat
BY DEF IntMax

(* The window is valid when it covers the target: valid counts the characters *)
(* that are there, or fewer.                                                  *)
LEMMA ValidCovers ==
    ASSUME WindowTypes, width >= 1, NEW from \in Nat, NEW to \in Int, to < length, NEW n \in Int,
           n <= Cardinality(Full(from, to)), n = Cardinality(DOMAIN NeedMap)
    PROVE  Covers(from, to)
<1>1. Full(from, to) = DOMAIN NeedMap
  BY FullFinite DEF WindowTypes
<1> QED
  BY <1>1, FullCovers DEF WindowTypes

LEMMA CoversValid ==
    ASSUME WindowTypes, width >= 1, NEW from \in Nat, NEW to \in Int, to < length, Covers(from, to)
    PROVE  Cardinality(Full(from, to)) = Cardinality(DOMAIN NeedMap)
BY FullCovers DEF WindowTypes

(* What Grow does to the counts. *)
LEMMA Grows ==
    ASSUME WindowTypes, Counted, turn = "grow", Grow, UNCHANGED <<source, length, sought, width>>
    PROVE  /\ Counted' /\ RightEnd' = upper /\ lower' = lower /\ upper' = upper /\ upper < length
           /\ window'.valid - window.valid = Cardinality(Full(lower, upper)) - Cardinality(Full(lower, upper - 1))
<1>1. /\ lower \in Nat /\ upper \in Nat /\ width \in Nat
      /\ RightEnd = upper - 1 /\ RightEnd' = upper /\ lower' = lower /\ upper' = upper /\ upper < length
      /\ window' = AddChar(window, source[upper])
  BY DEF WindowTypes, Grow, ends, RightEnd
<1>2. /\ lower <= upper - 1 + 1 /\ upper - 1 \in Int /\ upper - 1 + 1 = upper
      /\ window.count = Counts(lower, upper - 1) /\ window.valid \in Int
  BY <1>1 DEF Counted
<1>3. LET a == AddChar(window, source[upper - 1 + 1]) IN
      /\ a.count = Counts(lower, upper - 1 + 1) /\ a.valid \in Int
      /\ a.valid - window.valid =
            Cardinality(Full(lower, upper - 1 + 1)) - Cardinality(Full(lower, upper - 1))
  BY <1>1, <1>2, AddFacts
<1>4. /\ window'.count = Counts(lower, upper) /\ window'.valid \in Int
      /\ window'.valid - window.valid = Cardinality(Full(lower, upper)) - Cardinality(Full(lower, upper - 1))
  BY <1>1, <1>2, <1>3
<1>5. Counted'
  <2>1. Counts(lower, upper)' = Counts(lower, upper)
    BY <1>1, SameText
  <2>2. lower' <= RightEnd' + 1
    BY <1>1, <1>2
  <2> QED
    BY <1>1, <1>4, <2>1, <2>2 DEF Counted
<1> QED
  BY <1>1, <1>4, <1>5

(* What Drop does to them; the character that goes is lost from the count of *)
(* the valid ones once too often if it was not there often enough.           *)
LEMMA Drops ==
    ASSUME WindowTypes, Counted, turn = "shrink", Drop, lower <= upper
    PROVE  /\ window'.count = Counts(lower + 1, upper) /\ window'.valid \in Int
           /\ window'.valid - window.valid <=
                 Cardinality(Full(lower + 1, upper)) - Cardinality(Full(lower, upper))
           /\ source[lower] \in Full(lower, upper) \/ source[lower] \notin DOMAIN NeedMap
              => window'.valid - window.valid =
                    Cardinality(Full(lower + 1, upper)) - Cardinality(Full(lower, upper))
<1>1. /\ lower \in Nat /\ upper \in Nat /\ width \in Nat /\ RightEnd = upper
      /\ window' = DropChar(window, source[lower])
  BY DEF WindowTypes, Drop, RightEnd
<1>2. window.count = Counts(lower, upper) /\ window.valid \in Int
  BY <1>1 DEF Counted
<1> QED
  BY <1>1, <1>2, DropFacts

LEMMA SlideGrows ==
    ASSUME WindowTypes, width >= 1, SlideInv, Grow, UNCHANGED <<source, length, sought, width>>
    PROVE  SlideInv'
<1>1. turn = "grow" /\ turn' = "shrink" /\ UNCHANGED found
  BY DEF Grow
<1>2. /\ Counted' /\ RightEnd' = upper /\ lower' = lower /\ upper' = upper
      /\ window'.valid - window.valid = Cardinality(Full(lower, upper)) - Cardinality(Full(lower, upper - 1))
  BY <1>1, Grows DEF SlideInv
<1>3. window.valid = Cardinality(Full(lower, upper - 1)) /\ window'.valid \in Int
  BY <1>1, <1>2 DEF SlideInv, RightEnd, Counted
<1>4. window'.valid = Cardinality(Full(lower, upper))
  BY <1>2, <1>3, FullFinite DEF WindowTypes
<1>5. (window.valid = Cardinality(Full(lower, RightEnd)))'
  BY <1>2, <1>4, SameText
<1>6. (\A a, b \in Positions : Covers(a, b) /\ b < upper => a < lower)'
  BY <1>2, SameText DEF SlideInv
<1>7. (\A a, b \in Positions :
          Covers(a, b) /\ a < lower =>
              min_count <= b - a + 1 \/ (turn = "shrink" /\ Covers(lower, upper) /\ b >= upper))'
  BY <1>1, <1>2, SameText DEF SlideInv, found
<1>8. Measured'
  BY <1>1, <1>2, SameText DEF SlideInv, Measured, found
<1> QED
  BY <1>2, <1>5, <1>6, <1>7, <1>8 DEF SlideInv

LEMMA SlideStops ==
    ASSUME WindowTypes, SlideInv, StopAtEnd, UNCHANGED <<source, length, sought, width>>
    PROVE  MinimumWindow'
<1>1. turn = "grow" /\ upper = length /\ length \in Nat /\ lower \in Nat /\ UNCHANGED found
  BY DEF WindowTypes, StopAtEnd
<1>2. ASSUME NEW a \in Positions, NEW b \in Positions, Covers(a, b)
      PROVE  min_count <= b - a + 1
  BY <1>1, <1>2 DEF SlideInv, Positions
<1>3. \/ result = Part(0, -1) /\ \A a, b \in Positions : ~Covers(a, b)
      \/ \E p, q \in Positions :
            /\ Covers(p, q) /\ result = Part(p, q)
            /\ \A a, b \in Positions :
                  Covers(a, b) => q - p < b - a \/ (q - p = b - a /\ p <= a)
  <2>1. CASE result = Part(0, -1) /\ min_count = IntMax
    <3>1. ASSUME NEW a \in Positions, NEW b \in Positions, Covers(a, b)
          PROVE  FALSE
      <4>1. a \in Nat /\ b \in Nat /\ b < length /\ length < IntMax
        BY <1>1 DEF Positions, WindowTypes
      <4> QED
        BY <1>1, <1>2, <2>1, <3>1, <4>1, MaxNat
    <3> QED
      BY <2>1, <3>1
  <2>2. ASSUME NEW p \in Positions, NEW q \in Positions,
               Covers(p, q), result = Part(p, q), min_count = q - p + 1,
               \A a, b \in Positions : Covers(a, b) /\ a < p => min_count < b - a + 1
        PROVE  \A a, b \in Positions :
                  Covers(a, b) => q - p < b - a \/ (q - p = b - a /\ p <= a)
    BY <1>1, <1>2, <2>2 DEF Positions
  <2> QED
    BY <2>1, <2>2 DEF SlideInv, Measured
<1>4. result' = result
  BY <1>1 DEF found
<1> QED
  BY <1>3, <1>4, SameText DEF MinimumWindow

LEMMA SlideDrops ==
    ASSUME WindowTypes, width >= 1, SlideInv, turn = "shrink", Valid(window), Drop,
           LET len == upper - lower + 1 IN
           IF window'.valid < window.valid /\ min_count > len
             THEN min_count' = len /\ result' = Part(lower, upper)
             ELSE UNCHANGED found,
           UNCHANGED <<turn, upper, source, length, sought, width>>
    PROVE  SlideInv'
<1>0. /\ lower \in Nat /\ upper \in Nat /\ length \in Nat /\ width \in Nat
      /\ upper < length /\ RightEnd = upper /\ RightEnd' = upper /\ lower' = lower + 1
  BY DEF WindowTypes, RightEnd, Drop
<1>1. window.valid = Cardinality(Full(lower, upper)) /\ Counted
  BY <1>0 DEF SlideInv
<1>2. Full(lower, upper) = DOMAIN NeedMap
  BY <1>0, <1>1, FullFinite DEF Valid
<1>3. Covers(lower, upper) /\ lower <= upper /\ lower \in Positions /\ upper \in Positions
  <2>1. Covers(lower, upper)
    BY <1>0, <1>2, FullCovers
  <2> QED
    BY <2>1 DEF Covers
<1>4. /\ window'.count = Counts(lower + 1, upper) /\ window'.valid \in Int
      /\ window'.valid = Cardinality(Full(lower + 1, upper))
  <2>1. /\ window'.count = Counts(lower + 1, upper) /\ window'.valid \in Int
        /\ window'.valid - window.valid = Cardinality(Full(lower + 1, upper)) - Cardinality(Full(lower, upper))
    BY <1>1, <1>2, <1>3, Drops
  <2>2. /\ Cardinality(Full(lower, upper)) \in Nat /\ Cardinality(Full(lower + 1, upper)) \in Nat
    BY <1>0, FullFinite
  <2> QED
    BY <1>1, <2>1, <2>2
<1>5. ~(window'.valid < window.valid) => Covers(lower + 1, upper)
  <2>1. /\ Cardinality(Full(lower + 1, upper)) \in Nat
        /\ Cardinality(Full(lower + 1, upper)) <= Cardinality(DOMAIN NeedMap)
        /\ Cardinality(DOMAIN NeedMap) \in Nat
        /\ Cardinality(Full(lower + 1, upper)) = Cardinality(DOMAIN NeedMap)
           => Full(lower + 1, upper) = DOMAIN NeedMap
    BY <1>0, FullFinite
  <2>2. lower + 1 \in Nat /\ upper \in Int
    BY <1>0
  <2>3. Full(lower + 1, upper) = DOMAIN NeedMap => Covers(lower + 1, upper)
    BY <1>0, <2>2, FullCovers
  <2> QED
    BY <1>1, <1>2, <1>4, <2>1, <2>3
<1>6. min_count \in Nat
  BY MaxNat DEF SlideInv, Measured, Positions, Covers
<1>7. /\ min_count' \in Nat /\ min_count' <= min_count
      /\ window'.valid < window.valid => min_count' <= upper - lower + 1
  BY <1>0, <1>3, <1>6 DEF found
<1>8. Counted'
  BY <1>0, <1>3, <1>4, SameText DEF Counted
<1>9. (window.valid = Cardinality(Full(lower, RightEnd)))'
  BY <1>0, <1>4, SameText
<1>10. (\A a, b \in Positions : Covers(a, b) /\ b < upper => a < lower)'
  <2>1. ASSUME NEW a \in Positions, NEW b \in Positions, Covers(a, b), b < upper
        PROVE  a < lower + 1
    BY <1>0, <2>1 DEF SlideInv, Positions
  <2> QED
    BY <1>0, <2>1, SameText
<1>11. ASSUME NEW a \in Positions, NEW b \in Positions, Covers(a, b), a < lower + 1
       PROVE  min_count' <= b - a + 1 \/ (Covers(lower + 1, upper) /\ b >= upper)
  <2>1. a \in Nat /\ b \in Nat
    BY DEF Positions
  <2>2. min_count <= b - a + 1 \/ b >= upper
    BY <1>0, <1>11, <2>1 DEF SlideInv
  <2>3. CASE min_count <= b - a + 1
    BY <1>6, <1>7, <2>1, <2>3
  <2>4. CASE b >= upper
    BY <1>0, <1>5, <1>7, <1>11, <2>1, <2>4
  <2> QED
    BY <2>2, <2>3, <2>4
<1>12. (\A a, b \in Positions :
          Covers(a, b) /\ a < lower =>
              min_count <= b - a + 1 \/ (turn = "shrink" /\ Covers(lower, upper) /\ b >= upper))'
  BY <1>0, <1>11, SameText
<1>13. Measured'
  <2>1. CASE window'.valid < window.valid /\ min_count > upper - lower + 1
    <3>1. min_count' = upper - lower + 1 /\ result' = Part(lower, upper)
      BY <2>1
    <3>2. ASSUME NEW a \in Positions, NEW b \in Positions, Covers(a, b), a < lower
          PROVE  min_count' < b - a + 1
      <4>1. a \in Nat /\ b \in Nat
        BY DEF Positions
      <4>2. min_count <= b - a + 1 \/ b >= upper
        BY <3>2 DEF SlideInv
      <4> QED
        BY <1>0, <1>6, <2>1, <3>1, <3>2, <4>1, <4>2
    <3>3. lower < lower'
      BY <1>0
    <3> QED
      BY <1>3, <3>1, <3>2, <3>3, SameText DEF Measured
  <2>2. CASE ~(window'.valid < window.valid /\ min_count > upper - lower + 1)
    <3>1. min_count' = min_count /\ result' = result
      BY <2>2 DEF found
    <3>2. CASE result = Part(0, -1) /\ min_count = IntMax
      BY <3>1, <3>2, SameText DEF Measured
    <3>3. ASSUME NEW p \in Positions, NEW q \in Positions,
                 Covers(p, q), result = Part(p, q), min_count = q - p + 1, p < lower,
                 \A a, b \in Positions : Covers(a, b) /\ a < p => min_count < b - a + 1
          PROVE  Measured'
      <4>1. p < lower'
        BY <1>0, <3>3 DEF Positions
      <4> QED
        BY <3>1, <3>3, <4>1, SameText DEF Measured
    <3> QED
      BY <3>2, <3>3 DEF SlideInv, Measured
  <2> QED
    BY <2>1, <2>2
<1> QED
  BY <1>8, <1>9, <1>10, <1>12, <1>13 DEF SlideInv

LEMMA SlideTurns ==
    ASSUME WindowTypes, width >= 1, SlideInv, turn = "shrink", ~Valid(window), NextTurn,
           UNCHANGED <<lower, window, found, source, length, sought, width>>
    PROVE  SlideInv'
<1>0. /\ lower \in Nat /\ upper \in Nat /\ length \in Nat /\ width \in Nat
      /\ upper < length /\ RightEnd = upper /\ RightEnd' = upper /\ upper' = upper + 1 /\ turn' = "grow"
  BY DEF WindowTypes, RightEnd, NextTurn
<1>1. window.valid = Cardinality(Full(lower, upper)) /\ Counted
  BY <1>0 DEF SlideInv
<1>2. ~Covers(lower, upper)
  BY <1>0, <1>1, CoversValid DEF Valid
<1>3. ASSUME NEW a \in Positions, NEW b \in Positions, Covers(a, b), b < upper + 1
      PROVE  a < lower
  <2>1. a \in Nat /\ b \in Nat /\ a <= b
    BY <1>3 DEF Positions, Covers
  <2>2. CASE b < upper
    BY <1>3, <2>2 DEF SlideInv
  <2>3. CASE b = upper
    <3>1. ASSUME lower <= a PROVE FALSE
      <4>1. lower \in Positions /\ upper \in Positions
        BY <1>0, <2>1, <2>3, <3>1 DEF Positions
      <4>2. Covers(lower, upper)
        BY <1>0, <1>3, <2>1, <2>3, <3>1, <4>1, CoversWider
      <4> QED
        BY <1>2, <4>2
    <3> QED
      BY <1>0, <2>1, <3>1
  <2> QED
    BY <1>0, <1>3, <2>1, <2>2, <2>3
<1>4. ASSUME NEW a \in Positions, NEW b \in Positions, Covers(a, b), a < lower
      PROVE  min_count <= b - a + 1
  BY <1>2, <1>4 DEF SlideInv
<1>5. Counted'
  BY <1>0, <1>1, SameText DEF Counted
<1>6. (window.valid = Cardinality(Full(lower, RightEnd)))'
  BY <1>0, <1>1, SameText
<1>7. (\A a, b \in Positions : Covers(a, b) /\ b < upper => a < lower)'
  BY <1>0, <1>3, SameText
<1>8. (\A a, b \in Positions :
          Covers(a, b) /\ a < lower =>
              min_count <= b - a + 1 \/ (turn = "shrink" /\ Covers(lower, upper) /\ b >= upper))'
  BY <1>4, SameText DEF found
<1>9. Measured'
  BY SameText DEF SlideInv, Measured, found
<1> QED
  BY <1>5, <1>6, <1>7, <1>8, <1>9 DEF SlideInv

LEMMA SlideKeeps ==
    ASSUME WindowTypes, width >= 1, SlideInv, slide_window, UNCHANGED <<source, length, sought, width>>
    PROVE  IF turn' = "returned" THEN MinimumWindow' ELSE SlideInv'
<1>1. CASE Grow
  BY <1>1, SlideGrows DEF Grow
<1>2. CASE StopAtEnd
  BY <1>2, SlideStops DEF StopAtEnd, Stop
<1>3. CASE /\ turn = "shrink" /\ Valid(window) /\ Drop
           /\ LET len == upper - lower + 1 IN
              IF window'.valid < window.valid /\ min_count > len
                THEN min_count' = len /\ result' = Part(lower, upper)
                ELSE UNCHANGED found
           /\ UNCHANGED <<turn, upper>>
  BY <1>3, SlideDrops
<1>4. CASE turn = "shrink" /\ ~Valid(window) /\ NextTurn /\ UNCHANGED <<lower, window, found>>
  BY <1>4, SlideTurns DEF NextTurn
<1> QED
  BY <1>1, <1>2, <1>3, <1>4 DEF slide_window

(* valid never counts too many, and counts right if every character of the  *)
(* target is there once.                                                    *)
LEMMA CountsGrow ==
    ASSUME WindowTypes, Counted, AtMostFull, Grow, UNCHANGED <<source, length, sought, width>>
    PROVE  Counted' /\ AtMostFull'
<1>1. turn = "grow" /\ lower \in Nat /\ upper \in Nat /\ width \in Nat
  BY DEF Grow, WindowTypes
<1>2. /\ Counted' /\ RightEnd' = upper /\ lower' = lower
      /\ window'.valid - window.valid = Cardinality(Full(lower, upper)) - Cardinality(Full(lower, upper - 1))
  BY <1>1, Grows
<1>3. /\ window.valid <= Cardinality(Full(lower, upper - 1))
      /\ AllDifferent => window.valid = Cardinality(Full(lower, upper - 1))
      /\ window.valid \in Int /\ window'.valid \in Int
  BY <1>1, <1>2 DEF AtMostFull, RightEnd, Counted
<1>4. Cardinality(Full(lower, upper)) \in Nat /\ Cardinality(Full(lower, upper - 1)) \in Nat
  BY <1>1, FullFinite
<1>5. /\ window'.valid <= Cardinality(Full(lower, upper))
      /\ AllDifferent => window'.valid = Cardinality(Full(lower, upper))
  BY <1>2, <1>3, <1>4
<1> QED
  BY <1>2, <1>5, SameText DEF AtMostFull

LEMMA CountsDrop ==
    ASSUME WindowTypes, Counted, AtMostFull, turn = "shrink", Drop, lower <= upper
    PROVE  /\ window'.count = Counts(lower + 1, upper) /\ window'.valid \in Int
           /\ window'.valid <= Cardinality(Full(lower + 1, upper))
           /\ AllDifferent => window'.valid = Cardinality(Full(lower + 1, upper))
<1>1. /\ lower \in Nat /\ upper \in Nat /\ width \in Nat /\ RightEnd = upper
  BY DEF WindowTypes, RightEnd
<1>2. /\ window'.count = Counts(lower + 1, upper) /\ window'.valid \in Int
      /\ window'.valid - window.valid <= Cardinality(Full(lower + 1, upper)) - Cardinality(Full(lower, upper))
      /\ source[lower] \in Full(lower, upper) \/ source[lower] \notin DOMAIN NeedMap
         => window'.valid - window.valid =
               Cardinality(Full(lower + 1, upper)) - Cardinality(Full(lower, upper))
  BY Drops
<1>3. /\ window.valid <= Cardinality(Full(lower, upper)) /\ window.valid \in Int
      /\ AllDifferent => window.valid = Cardinality(Full(lower, upper))
  BY <1>1 DEF AtMostFull, Counted
<1>4. Cardinality(Full(lower + 1, upper)) \in Nat /\ Cardinality(Full(lower, upper)) \in Nat
  BY <1>1, FullFinite
<1>5. ASSUME AllDifferent, source[lower] \in DOMAIN NeedMap
      PROVE  source[lower] \in Full(lower, upper)
  <2> DEFINE here == Occurs(source[lower], lower, upper)
  <2>1. NeedMap[source[lower]] = 1
    BY <1>1, <1>5, TargetCounts
  <2>2. IsFiniteSet(here) /\ Cardinality(here) \in Nat
    BY <1>1, OccursFinite
  <2>3. here # {}
    BY <1>1 DEF Occurs
  <2>4. Cardinality(here) # 0
    BY <2>2, <2>3, FS_EmptySet
  <2>5. Cardinality(here) >= 1
    BY <2>2, <2>4
  <2> QED
    BY <1>5, <2>1, <2>5 DEF Full
<1>6. window'.valid <= Cardinality(Full(lower + 1, upper))
  BY <1>2, <1>3, <1>4
<1>7. AllDifferent => window'.valid = Cardinality(Full(lower + 1, upper))
  BY <1>2, <1>3, <1>4, <1>5
<1> QED
  BY <1>2, <1>6, <1>7

(* A permutation of the target that the window holds makes it valid. *)
LEMMA PermutedValid ==
    ASSUME WindowTypes, width >= 1, Counted, AtMostFull, AllDifferent, RightEnd = upper, upper < length,
           NEW i \in Positions, Permuted(i), lower <= i, i + width - 1 <= upper
    PROVE  Valid(window)
<1>1. lower \in Nat /\ upper \in Nat /\ width \in Nat /\ length \in Nat /\ i \in Nat
  BY DEF WindowTypes, Positions
<1>2. Covers(i, i + width - 1)
  BY <1>1, PermutedCovers
<1>3. lower \in Positions /\ upper \in Positions /\ i + width - 1 \in Positions
  BY <1>1 DEF Positions
<1>4. Covers(lower, upper)
  BY <1>1, <1>2, <1>3, CoversWider
<1>5. Cardinality(Full(lower, upper)) = Cardinality(DOMAIN NeedMap)
  BY <1>1, <1>4, CoversValid
<1> QED
  BY <1>5 DEF AtMostFull, Valid

LEMMA HasKeeps ==
    ASSUME WindowTypes, width >= 1, slider = "has_permutation", HasInv, has_permutation,
           UNCHANGED <<slider, source, length, sought, width>>
    PROVE  IF turn' = "returned" THEN PermutationWindows' ELSE HasInv'
<1>0. lower \in Nat /\ upper \in Nat /\ width \in Nat /\ length \in Nat /\ upper <= length
  BY DEF WindowTypes
<1>1. CASE Grow
  <2>1. turn = "grow" /\ turn' = "shrink" /\ UNCHANGED found /\ lower' = lower /\ upper' = upper
    BY <1>1 DEF Grow, ends
  <2>2. Counted' /\ AtMostFull'
    BY <1>1, CountsGrow DEF HasInv
  <2>3. (upper - lower <= width /\ (lower = 0 \/ RightEnd - lower + 1 >= width))'
    BY <1>0, <2>1 DEF HasInv, RightEnd
  <2>4. (AllDifferent => \A i \in Positions : Permuted(i) => i + width > upper)'
    BY <2>1, SameText DEF HasInv
  <2> QED
    BY <2>1, <2>2, <2>3, <2>4 DEF HasInv, found
<1>2. CASE StopAtEnd
  <2>1. upper = length /\ turn' = "returned" /\ result' = FALSE
    BY <1>0, <1>2 DEF StopAtEnd, Stop, HasInv, found
  <2>2. ASSUME AllDifferent, NEW i \in Positions, Permuted(i)
        PROVE  FALSE
    BY <1>0, <2>1, <2>2 DEF HasInv, Permuted, Positions
  <2> QED
    BY <2>1, <2>2, SameText DEF PermutationWindows, Returned
<1>3. CASE /\ turn = "shrink" /\ upper - lower >= width /\ Drop
           /\ UNCHANGED <<turn, upper, repeat_set, found>>
  <2>1. lower <= upper /\ lower' = lower + 1 /\ RightEnd' = upper
    BY <1>0, <1>3 DEF Drop, RightEnd
  <2>2. /\ window'.count = Counts(lower + 1, upper) /\ window'.valid \in Int
        /\ window'.valid <= Cardinality(Full(lower + 1, upper))
        /\ AllDifferent => window'.valid = Cardinality(Full(lower + 1, upper))
    BY <1>3, <2>1, CountsDrop DEF HasInv
  <2>3. Counted'
    BY <1>0, <2>1, <2>2, SameText DEF Counted
  <2>4. AtMostFull'
    BY <2>1, <2>2, SameText DEF AtMostFull
  <2>5. (upper - lower <= width /\ (lower = 0 \/ RightEnd - lower + 1 >= width))'
    BY <1>0, <1>3, <2>1 DEF HasInv
  <2>6. (AllDifferent => \A i \in Positions : Permuted(i) => i + width > upper)'
    BY <1>3, SameText DEF HasInv
  <2> QED
    BY <1>3, <2>3, <2>4, <2>5, <2>6 DEF HasInv, found
<1>4. CASE /\ turn = "shrink" /\ ~(upper - lower >= width)
           /\ Valid(window) /\ Stop /\ result' = TRUE
  <2>1. RightEnd = upper /\ upper < length /\ turn' = "returned"
    BY <1>4 DEF RightEnd, WindowTypes, Stop
  <2>2. window.valid \in Int /\ window.valid <= Cardinality(Full(lower, upper))
    BY <2>1 DEF HasInv, Counted, AtMostFull
  <2>3. Covers(lower, upper)
    BY <1>0, <1>4, <2>1, <2>2, ValidCovers DEF Valid
  <2>4. Permuted(lower)
    BY <1>0, <1>4, <2>3, CoversPermuted
  <2>5. lower \in Positions
    BY <2>3 DEF Covers
  <2> QED
    BY <1>4, <2>1, <2>4, <2>5, SameText DEF PermutationWindows, Returned
<1>5. CASE /\ turn = "shrink" /\ ~(upper - lower >= width)
           /\ ~Valid(window) /\ NextTurn /\ UNCHANGED <<lower, window, repeat_set, found>>
  <2>1. RightEnd = upper /\ RightEnd' = upper /\ upper < length /\ turn' = "grow" /\ upper' = upper + 1
    BY <1>0, <1>5 DEF RightEnd, WindowTypes, NextTurn
  <2>2. Counted' /\ AtMostFull'
    BY <1>5, <2>1, SameText DEF HasInv, Counted, AtMostFull
  <2>3. (upper - lower <= width /\ (lower = 0 \/ RightEnd - lower + 1 >= width))'
    BY <1>0, <1>5, <2>1 DEF HasInv
  <2>4. ASSUME AllDifferent, NEW i \in Positions, Permuted(i)
        PROVE  i + width > upper + 1
    <3>1. i \in Nat /\ i + width > upper
      BY <2>4 DEF Positions, HasInv
    <3>2. ASSUME i + width = upper + 1 PROVE FALSE
      <4>1. lower <= i
        BY <1>0, <2>1, <3>1, <3>2 DEF HasInv
      <4>2. i + width - 1 <= upper
        BY <1>0, <3>1, <3>2
      <4> QED
        BY <1>5, <2>1, <2>4, <4>1, <4>2, PermutedValid DEF HasInv
    <3> QED
      BY <1>0, <3>1, <3>2
  <2>5. (AllDifferent => \A i \in Positions : Permuted(i) => i + width > upper)'
    BY <2>1, <2>4, SameText
  <2> QED
    BY <1>5, <2>1, <2>2, <2>3, <2>5 DEF HasInv, found
<1> QED
  BY <1>1, <1>2, <1>3, <1>4, <1>5 DEF has_permutation

LEMMA IndexKeeps ==
    ASSUME WindowTypes, width >= 1, slider = "index_permutation", IndexInv, index_permutation,
           UNCHANGED <<slider, source, length, sought, width>>
    PROVE  IF turn' = "returned" THEN PermutationWindows' ELSE IndexInv'
<1>0. lower \in Nat /\ upper \in Nat /\ width \in Nat /\ length \in Nat /\ upper <= length
  BY DEF WindowTypes
<1> DEFINE Reported(r, below) ==
             /\ r \in Seq(Nat)
             /\ \A i \in DOMAIN r : Permuted(r[i]) /\ r[i] < below
             /\ \A i, j \in DOMAIN r : i < j => r[i] < r[j]
             /\ AllDifferent => \A i \in Positions : Permuted(i) /\ i < below => \E k \in DOMAIN r : r[k] = i
<1>a. Reported(result, lower)
  BY DEF IndexInv
<1>b. ASSUME Reported(result', lower'), Counted', AtMostFull',
             (upper - lower + 1 <= width /\ (lower = 0 \/ upper - lower + 1 = width))'
      PROVE  IndexInv'
  BY <1>b, SameText DEF IndexInv
<1>1. CASE Grow
  <2>1. turn' = "shrink" /\ UNCHANGED found /\ lower' = lower /\ upper' = upper
    BY <1>1 DEF Grow, ends
  <2>2. Counted' /\ AtMostFull'
    BY <1>1, CountsGrow DEF IndexInv
  <2>3. Reported(result', lower')
    BY <1>a, <2>1 DEF found
  <2>4. (upper - lower + 1 <= width /\ (lower = 0 \/ upper - lower + 1 = width))'
    BY <2>1 DEF IndexInv
  <2> QED
    BY <1>b, <2>1, <2>2, <2>3, <2>4
<1>2. CASE StopAtEnd
  <2>1. upper = length /\ turn' = "returned" /\ result' = result
    BY <1>0, <1>2 DEF StopAtEnd, Stop, found
  <2>2. ASSUME NEW i \in Positions, Permuted(i)
        PROVE  i < lower
    BY <1>0, <2>1, <2>2 DEF IndexInv, Permuted, Positions
  <2>3. AllDifferent => \A i \in Positions : Permuted(i) => \E k \in DOMAIN result : result[k] = i
    BY <1>a, <2>2
  <2> QED
    BY <1>a, <2>1, <2>3, SameText DEF PermutationWindows, Returned
<1>3. CASE /\ turn = "shrink" /\ upper - lower + 1 = width
           /\ result' = IF Valid(window) THEN Append(result, lower) ELSE result
           /\ Drop /\ NextTurn
  <2>1. /\ lower <= upper /\ lower' = lower + 1 /\ upper' = upper + 1 /\ turn' = "grow"
        /\ RightEnd = upper /\ RightEnd' = upper /\ upper < length
    BY <1>0, <1>3 DEF Drop, NextTurn, RightEnd, WindowTypes
  <2>2. /\ window'.count = Counts(lower + 1, upper) /\ window'.valid \in Int
        /\ window'.valid <= Cardinality(Full(lower + 1, upper))
        /\ AllDifferent => window'.valid = Cardinality(Full(lower + 1, upper))
    BY <1>3, <2>1, CountsDrop DEF IndexInv
  <2>3. Counted'
    BY <1>0, <2>1, <2>2, SameText DEF Counted
  <2>4. AtMostFull'
    BY <2>1, <2>2, SameText DEF AtMostFull
  <2>5. (upper - lower + 1 <= width /\ (lower = 0 \/ upper - lower + 1 = width))'
    BY <1>0, <1>3, <2>1
  <2>6. CASE Valid(window)
    <3>1. window.valid \in Int /\ window.valid <= Cardinality(Full(lower, upper))
      BY <2>1 DEF IndexInv, Counted, AtMostFull
    <3>2. Covers(lower, upper)
      BY <1>0, <2>1, <2>6, <3>1, ValidCovers DEF Valid
    <3>3. Permuted(lower)
      BY <1>0, <1>3, <3>2, CoversPermuted
    <3>4. /\ result' \in Seq(Nat) /\ Len(result') = Len(result) + 1
          /\ result'[Len(result) + 1] = lower
          /\ \A i \in 1..Len(result) : result'[i] = result[i]
      BY <1>0, <1>3, <1>a, <2>6, AppendElements
    <3>5. DOMAIN result = 1..Len(result) /\ DOMAIN result' = 1..Len(result) + 1 /\ Len(result) \in Nat
      BY <1>a, <3>4
    <3>6. ASSUME NEW i \in DOMAIN result'
          PROVE  Permuted(result'[i]) /\ result'[i] < lower + 1
      <4>1. CASE i = Len(result) + 1
        BY <1>0, <3>3, <3>4, <4>1
      <4>2. CASE i \in 1..Len(result)
        BY <1>0, <1>a, <3>4, <3>5, <4>2
      <4> QED
        BY <3>5, <4>1, <4>2
    <3>7. ASSUME NEW i \in DOMAIN result', NEW j \in DOMAIN result', i < j
          PROVE  result'[i] < result'[j]
      <4>1. i \in 1..Len(result) /\ result'[i] = result[i]
        BY <3>4, <3>5, <3>7
      <4>2. CASE j = Len(result) + 1
        BY <1>0, <1>a, <3>4, <3>5, <4>1, <4>2
      <4>3. CASE j \in 1..Len(result)
        BY <1>a, <3>4, <3>5, <3>7, <4>1, <4>3
      <4> QED
        BY <3>5, <4>2, <4>3
    <3>8. ASSUME AllDifferent, NEW i \in Positions, Permuted(i), i < lower + 1
          PROVE  \E k \in DOMAIN result' : result'[k] = i
      <4>1. CASE i = lower
        BY <3>4, <3>5, <4>1
      <4>2. CASE i < lower
        <5>1. PICK k \in DOMAIN result : result[k] = i
          BY <1>a, <3>8, <4>2
        <5>2. k \in DOMAIN result' /\ result'[k] = i
          BY <3>4, <3>5, <5>1
        <5> QED
          BY <5>2
      <4> QED
        BY <1>0, <3>8, <4>1, <4>2 DEF Positions
    <3>9. Reported(result', lower')
      BY <2>1, <3>4, <3>6, <3>7, <3>8
    <3> QED
      BY <1>b, <2>1, <2>3, <2>4, <2>5, <3>9
  <2>7. CASE ~Valid(window)
    <3>1. ASSUME AllDifferent, Permuted(lower), lower \in Positions PROVE FALSE
      <4>1. lower + width - 1 <= upper
        BY <1>0, <1>3
      <4> QED
        BY <1>0, <2>1, <2>7, <3>1, <4>1, PermutedValid DEF IndexInv
    <3>2. result' = result
      BY <1>3, <2>7
    <3>3. \A i \in DOMAIN result : result[i] \in Nat /\ result[i] < lower + 1
      BY <1>0, <1>a
    <3>4. \A i \in Positions : i < lower + 1 => i < lower \/ i = lower
      BY <1>0 DEF Positions
    <3>5. Reported(result', lower')
      BY <1>a, <2>1, <3>1, <3>2, <3>3, <3>4
    <3> QED
      BY <1>b, <2>1, <2>3, <2>4, <2>5, <3>5
  <2> QED
    BY <2>6, <2>7
<1>4. CASE /\ turn = "shrink" /\ upper - lower + 1 # width
           /\ UNCHANGED <<lower, window, result>> /\ NextTurn
  <2>1. /\ upper' = upper + 1 /\ turn' = "grow" /\ RightEnd = upper /\ RightEnd' = upper
    BY <1>0, <1>4 DEF NextTurn, RightEnd
  <2>2. Counted' /\ AtMostFull'
    BY <1>4, <2>1, SameText DEF IndexInv, Counted, AtMostFull
  <2>3. Reported(result', lower')
    BY <1>4, <1>a
  <2>4. (upper - lower + 1 <= width /\ (lower = 0 \/ upper - lower + 1 = width))'
    BY <1>0, <1>4, <2>1 DEF IndexInv
  <2> QED
    BY <1>b, <2>1, <2>2, <2>3, <2>4
<1> QED
  BY <1>1, <1>2, <1>3, <1>4 DEF index_permutation

LEMMA RepeatKeeps ==
    ASSUME WindowTypes, slider = "max_not_repeat", RepeatInv, max_not_repeat,
           UNCHANGED <<slider, source, length, sought, width>>
    PROVE  IF turn' = "returned" THEN NotRepeatedClosed' ELSE RepeatInv'
<1>0. lower \in Nat /\ upper \in Nat /\ length \in Nat /\ upper <= length /\ lower <= upper
  BY DEF WindowTypes, RepeatInv
<1> DEFINE Longest(r, below) ==
             /\ r \in Nat /\ r >= 1
             /\ \A a, b \in Positions : ClosedRun(a, b) /\ b < below => b - a <= r
             /\ r = 1 \/ \E a, b \in Positions : ClosedRun(a, b) /\ b - a = r
           Window(set, from, to) ==
             /\ set = {source[i] : i \in from..to}
             /\ \A i, j \in from..to : source[i] = source[j] => i = j
<1>a. Longest(result, upper) /\ Window(repeat_set, lower, upper - 1)
  BY DEF RepeatInv
<1>b. ASSUME Longest(result', upper'), Window(repeat_set', lower', upper' - 1), lower' <= upper',
             (turn = "grow" => \A a \in Positions : a < lower => \E i, j \in a..upper - 1 : source[i] = source[j] /\ i # j)',
             (turn = "shrink" => source[upper] \in repeat_set /\ \A a \in Positions : a < lower => ~ClosedRun(a, upper))'
      PROVE  RepeatInv'
  BY <1>b, SameText DEF RepeatInv
<1>1. CASE StopAtEnd
  <2>1. upper = length /\ turn' = "returned" /\ result' = result
    BY <1>0, <1>1 DEF StopAtEnd, Stop, found
  <2>2. \A a, b \in Positions : ClosedRun(a, b) => b - a <= result
    BY <1>0, <1>a, <2>1 DEF Positions
  <2> QED
    BY <1>a, <2>1, <2>2, SameText DEF NotRepeatedClosed
<1>2. CASE /\ turn = "grow" /\ upper < length /\ source[upper] \notin repeat_set
           /\ repeat_set' = repeat_set \cup {source[upper]} /\ NextTurn
           /\ UNCHANGED <<lower, window, found>>
  <2>1. turn' = "grow" /\ upper' = upper + 1 /\ lower' = lower /\ result' = result
    BY <1>2 DEF NextTurn, found
  <2>2. lower..upper = (lower..upper - 1) \cup {upper} /\ upper \notin lower..upper - 1
    BY <1>0
  <2>3. \A i \in lower..upper - 1 : source[i] # source[upper]
    BY <1>2, <1>a
  <2>4. Window(repeat_set', lower', upper' - 1)
    <3>1. repeat_set' = {source[i] : i \in lower..upper}
      BY <1>2, <1>a, <2>2
    <3>2. \A i, j \in lower..upper : source[i] = source[j] => i = j
      BY <1>a, <2>2, <2>3
    <3>3. Window(repeat_set', lower, upper)
      BY <3>1, <3>2
    <3>4. upper' - 1 = upper
      BY <1>0, <2>1
    <3> HIDE DEF Window
    <3> QED
      BY <2>1, <3>3, <3>4
  <2>5. ASSUME NEW a \in Positions, NEW b \in Positions, ClosedRun(a, b), b < upper + 1
        PROVE  b - a <= result
    <3>1. CASE b < upper
      BY <1>a, <2>5, <3>1
    <3>2. CASE b = upper
      <4>1. a \in Nat /\ a < upper /\ source[a] = source[upper]
            /\ \A i, j \in a..upper - 1 : source[i] = source[j] => i = j
        BY <2>5, <3>2 DEF ClosedRun, Positions
      <4>2. ~(lower <= a)
        BY <1>0, <2>3, <4>1
      <4>3. a < lower
        BY <1>0, <4>1, <4>2
      <4>4. PICK i, j \in a..upper - 1 : source[i] = source[j] /\ i # j
        BY <1>2, <4>3 DEF RepeatInv
      <4> QED
        BY <4>1, <4>4
    <3> QED
      BY <1>0, <2>5, <3>1, <3>2 DEF Positions
  <2>6. ASSUME NEW a \in Positions, a < lower
        PROVE  \E i, j \in a..upper : source[i] = source[j] /\ i # j
    <3>1. PICK i, j \in a..upper - 1 : source[i] = source[j] /\ i # j
      BY <1>2, <2>6 DEF RepeatInv
    <3>2. i \in a..upper /\ j \in a..upper
      BY <1>0, <3>1 DEF Positions
    <3> QED
      BY <3>1, <3>2
  <2>7. Longest(result', upper')
    BY <1>a, <2>1, <2>5
  <2>8. (turn = "grow" => \A a \in Positions : a < lower => \E i, j \in a..upper - 1 : source[i] = source[j] /\ i # j)'
    <3>1. \A a \in Positions : a < lower' => \E i, j \in a..upper' - 1 : source[i] = source[j] /\ i # j
      <4>1. upper' - 1 = upper
        BY <1>0, <2>1
      <4> QED
        BY <2>1, <2>6, <4>1
    <3> QED
      BY <3>1, SameText
  <2> QED
    BY <1>0, <1>b, <2>1, <2>4, <2>7, <2>8
<1>3. CASE /\ turn = "grow" /\ upper < length /\ source[upper] \in repeat_set
           /\ turn' = "shrink" /\ UNCHANGED <<upper, repeat_set, lower, window, found>>
  <2>1. ASSUME NEW a \in Positions, a < lower
        PROVE  ~ClosedRun(a, upper)
    BY <1>3, <2>1 DEF RepeatInv, ClosedRun
  <2>2. (turn = "shrink" => source[upper] \in repeat_set /\ \A a \in Positions : a < lower => ~ClosedRun(a, upper))'
    BY <1>3, <2>1, SameText
  <2> QED
    BY <1>0, <1>3, <1>a, <1>b, <2>2 DEF found
<1>4. CASE /\ turn = "shrink" /\ source[lower] # source[upper]
           /\ repeat_set' = repeat_set \ {source[lower]}
           /\ lower' = lower + 1 /\ UNCHANGED <<turn, upper, result>>
  <2>1. source[upper] \in repeat_set /\ \A a \in Positions : a < lower => ~ClosedRun(a, upper)
    BY <1>4 DEF RepeatInv
  <2>2. PICK k \in lower..upper - 1 : source[k] = source[upper]
    BY <1>a, <2>1
  <2>3. lower < upper /\ k # lower
    BY <1>0, <1>4, <2>2
  <2>4. lower..upper - 1 = {lower} \cup (lower + 1..upper - 1) /\ lower \notin lower + 1..upper - 1
    BY <1>0, <2>3
  <2>5. Window(repeat_set', lower', upper' - 1)
    <3>1. \A i \in lower + 1..upper - 1 : source[i] # source[lower]
      BY <1>a, <2>4
    <3>2. repeat_set' = {source[i] : i \in lower + 1..upper - 1}
      BY <1>4, <1>a, <2>4, <3>1
    <3>3. \A i, j \in lower + 1..upper - 1 : source[i] = source[j] => i = j
      BY <1>a, <2>4
    <3> QED
      BY <1>4, <3>2, <3>3
  <2>6. source[upper] \in repeat_set'
    BY <1>4, <2>1
  <2>7. ASSUME NEW a \in Positions, a < lower + 1
        PROVE  ~ClosedRun(a, upper)
    <3>1. a < lower \/ a = lower
      BY <1>0, <2>7 DEF Positions
    <3> QED
      BY <1>4, <2>1, <3>1 DEF ClosedRun
  <2>8. (turn = "shrink" => source[upper] \in repeat_set /\ \A a \in Positions : a < lower => ~ClosedRun(a, upper))'
    BY <1>4, <2>6, <2>7, SameText
  <2> QED
    BY <1>0, <1>4, <1>a, <1>b, <2>3, <2>5, <2>8
<1>5. CASE /\ turn = "shrink" /\ source[lower] = source[upper]
           /\ result' = IF result > upper - lower THEN result ELSE upper - lower
           /\ lower' = lower + 1 /\ NextTurn /\ UNCHANGED repeat_set
  <2>1. /\ turn' = "grow" /\ upper' = upper + 1 /\ upper < length
        /\ source[upper] \in repeat_set /\ \A a \in Positions : a < lower => ~ClosedRun(a, upper)
    BY <1>5 DEF RepeatInv, NextTurn, WindowTypes
  <2>2. lower < upper
    <3>1. PICK k \in lower..upper - 1 : source[k] = source[upper]
      BY <1>a, <2>1
    <3> QED
      BY <1>0, <3>1
  <2>3. /\ lower..upper - 1 = {lower} \cup (lower + 1..upper - 1) /\ lower \notin lower + 1..upper - 1
        /\ lower + 1..upper = (lower + 1..upper - 1) \cup {upper}
    BY <1>0, <2>2
  <2>4. \A i \in lower + 1..upper - 1 : source[i] # source[upper]
    BY <1>5, <1>a, <2>3
  <2>5. Window(repeat_set', lower', upper' - 1)
    <3>1. repeat_set = {source[i] : i \in lower + 1..upper}
      BY <1>5, <1>a, <2>3
    <3>2. \A i, j \in lower + 1..upper : source[i] = source[j] => i = j
      BY <1>a, <2>3, <2>4
    <3>3. Window(repeat_set', lower + 1, upper)
      BY <1>5, <3>1, <3>2
    <3>4. upper' - 1 = upper
      BY <1>0, <2>1
    <3> HIDE DEF Window
    <3> QED
      BY <1>5, <3>3, <3>4
  <2>6. lower \in Positions /\ upper \in Positions /\ ClosedRun(lower, upper)
    BY <1>0, <1>5, <1>a, <2>1, <2>2 DEF ClosedRun, Positions
  <2>7. result' \in Nat /\ result' >= 1 /\ result' >= result /\ result' >= upper - lower
    BY <1>0, <1>5, <1>a, <2>2
  <2>8. ASSUME NEW a \in Positions, NEW b \in Positions, ClosedRun(a, b), b < upper + 1
        PROVE  b - a <= result'
    <3>0. a \in Nat /\ b \in Nat
      BY DEF Positions
    <3>1. CASE b < upper
      BY <1>a, <2>7, <2>8, <3>0, <3>1
    <3>2. CASE b = upper
      <4>1. a < upper /\ source[a] = source[upper] /\ ~(a < lower)
        BY <2>1, <2>8, <3>2 DEF ClosedRun
      <4>2. a \notin lower + 1..upper - 1
        BY <2>4, <4>1
      <4>3. a = lower
        BY <1>0, <3>0, <4>1, <4>2
      <4> QED
        BY <2>7, <3>2, <4>3
    <3> QED
      BY <1>0, <2>8, <3>0, <3>1, <3>2
  <2>9. result' = 1 \/ \E a, b \in Positions : ClosedRun(a, b) /\ b - a = result'
    BY <1>5, <1>a, <2>6
  <2>10. ASSUME NEW a \in Positions, a < lower + 1
         PROVE  \E i, j \in a..upper : source[i] = source[j] /\ i # j
    <3>1. lower \in a..upper /\ upper \in a..upper
      BY <1>0, <2>2, <2>10 DEF Positions
    <3> QED
      BY <1>0, <1>5, <2>2, <3>1
  <2>11. (turn = "grow" => \A a \in Positions : a < lower => \E i, j \in a..upper - 1 : source[i] = source[j] /\ i # j)'
    <3>1. \A a \in Positions : a < lower' => \E i, j \in a..upper' - 1 : source[i] = source[j] /\ i # j
      <4>1. upper' - 1 = upper
        BY <1>0, <2>1
      <4> QED
        BY <1>5, <2>10, <4>1
    <3> QED
      BY <3>1, SameText
  <2>12. Longest(result', upper')
    BY <2>1, <2>7, <2>8, <2>9
  <2>13. lower' <= upper'
    BY <1>0, <1>5, <2>1
  <2>14. (turn = "shrink" => source[upper] \in repeat_set /\ \A a \in Positions : a < lower => ~ClosedRun(a, upper))'
    BY <2>1
  <2> QED
    BY <1>b, <2>1, <2>5, <2>11, <2>12, <2>13, <2>14
<1> QED
  BY <1>1, <1>2, <1>3, <1>4, <1>5 DEF max_not_repeat

LEMMA TypesNext ==
    ASSUME WindowTypes, WindowNext
    PROVE  WindowTypes'
<1> USE DEF WindowTypes, Grow, StopAtEnd, Stop, NextTurn, Drop, ends, found
<1>1. CASE slide_window
  BY <1>1 DEF slide_window, WindowNext
<1>2. CASE has_permutation
  BY <1>2 DEF has_permutation, WindowNext
<1>3. CASE index_permutation
  BY <1>3 DEF index_permutation, WindowNext
<1>4. CASE max_not_repeat
  BY <1>4 DEF max_not_repeat, WindowNext
<1> QED
  BY <1>1, <1>2, <1>3, <1>4 DEF WindowNext

LEMMA WindowInvInit == WindowInit => WindowInv
<1> SUFFICES ASSUME WindowInit PROVE WindowInv
  OBVIOUS
<1>1. WindowTypes
  <2>1. length \in Nat /\ length < IntMax /\ width \in Nat /\ (slider # "max_not_repeat" => width >= 1)
    BY WindowAssumption, MaxNat DEF WindowInit
  <2> QED
    BY <2>1 DEF WindowInit, WindowTypes
<1>2. lower = 0 /\ upper = 0 /\ turn = "grow" /\ RightEnd = -1
  BY DEF WindowInit, RightEnd
<1>3. /\ \A c : Occurs(c, 0, -1) = {}
      /\ \A c : Cardinality(Occurs(c, 0, -1)) = 0
  <2>1. \A c : Occurs(c, 0, -1) = {}
    BY DEF Occurs
  <2> QED
    BY <2>1, FS_EmptySet
<1>4. Counted
  <2>1. Counts(0, -1) = [c \in DOMAIN NeedMap |-> 0]
    BY <1>3 DEF Counts
  <2>2. window.count = [c \in DOMAIN NeedMap |-> 0] /\ window.valid = 0
    BY DEF WindowInit
  <2> QED
    BY <1>2, <2>1, <2>2 DEF Counted
<1>5. window.valid = 0 /\ Cardinality(Full(lower, RightEnd)) = 0
  <2>1. Full(0, -1) = {}
    <3>1. \A c \in DOMAIN NeedMap : ~(0 >= NeedMap[c])
      BY <1>1, TargetCounts DEF WindowTypes
    <3> QED
      BY <1>3, <3>1 DEF Full
  <2> QED
    BY <1>2, <2>1, FS_EmptySet DEF WindowInit
<1>6. AtMostFull
  BY <1>5 DEF AtMostFull
<1>7. slider = "slide_window" => SlideInv
  BY <1>2, <1>4, <1>5 DEF WindowInit, SlideInv, Measured, Positions
<1>8. slider = "has_permutation" => HasInv
  BY <1>1, <1>2, <1>4, <1>6 DEF WindowInit, HasInv, Positions, WindowTypes
<1>9. slider = "index_permutation" => IndexInv
  BY <1>1, <1>2, <1>4, <1>6 DEF WindowInit, IndexInv, Positions, WindowTypes
<1>10. slider = "max_not_repeat" => RepeatInv
  BY <1>2 DEF WindowInit, RepeatInv, Positions
<1> QED
  BY <1>1, <1>2, <1>7, <1>8, <1>9, <1>10 DEF WindowInv

LEMMA WindowInvNext == WindowInv /\ [WindowNext]_windowVars => WindowInv'
<1> SUFFICES ASSUME WindowInv, [WindowNext]_windowVars PROVE WindowInv'
  OBVIOUS
<1>1. CASE UNCHANGED windowVars
  <2>1. UNCHANGED <<slider, turn, source, length, sought, width, lower, upper, window, repeat_set, min_count, result>>
    BY <1>1 DEF windowVars, ends, found
  <2>2. WindowTypes' /\ RightEnd' = RightEnd
    BY <2>1 DEF WindowInv, WindowTypes, RightEnd
  <2>3. (Counted <=> Counted') /\ (AtMostFull <=> AtMostFull') /\ (Measured <=> Measured')
    BY <2>1, <2>2, SameText DEF Counted, AtMostFull, Measured
  <2>4. (SlideInv <=> SlideInv') /\ (HasInv <=> HasInv')
    BY <2>1, <2>2, <2>3, SameText DEF SlideInv, HasInv
  <2>5. (IndexInv <=> IndexInv') /\ (RepeatInv <=> RepeatInv')
    BY <2>1, <2>2, <2>3, SameText DEF IndexInv, RepeatInv
  <2>6. (MinimumWindow <=> MinimumWindow') /\ (PermutationWindows <=> PermutationWindows')
    BY <2>1, SameText DEF MinimumWindow, PermutationWindows, Returned
  <2>7. NotRepeatedClosed <=> NotRepeatedClosed'
    BY <2>1, SameText DEF NotRepeatedClosed, Returned
  <2> QED
    BY <2>1, <2>2, <2>4, <2>5, <2>6, <2>7 DEF WindowInv
<1>2. CASE WindowNext
  <2>1. WindowTypes' /\ WindowTypes /\ UNCHANGED <<slider, source, length, sought, width>>
    BY <1>2, TypesNext DEF WindowInv, WindowNext
  <2>2. CASE slider = "slide_window" /\ slide_window
    <3>1. turn # "returned" /\ width >= 1
      BY <2>1, <2>2 DEF slide_window, Grow, StopAtEnd, WindowTypes
    <3>2. IF turn' = "returned" THEN MinimumWindow' ELSE SlideInv'
      BY <2>1, <2>2, <3>1, SlideKeeps DEF WindowInv
    <3> QED
      BY <2>1, <2>2, <3>2 DEF WindowInv
  <2>3. CASE slider = "has_permutation" /\ has_permutation
    <3>1. turn # "returned" /\ width >= 1
      BY <2>1, <2>3 DEF has_permutation, Grow, StopAtEnd, WindowTypes
    <3>2. IF turn' = "returned" THEN PermutationWindows' ELSE HasInv'
      BY <2>1, <2>3, <3>1, HasKeeps DEF WindowInv
    <3> QED
      BY <2>1, <2>3, <3>2 DEF WindowInv
  <2>4. CASE slider = "index_permutation" /\ index_permutation
    <3>1. turn # "returned" /\ width >= 1
      BY <2>1, <2>4 DEF index_permutation, Grow, StopAtEnd, WindowTypes
    <3>2. IF turn' = "returned" THEN PermutationWindows' ELSE IndexInv'
      BY <2>1, <2>4, <3>1, IndexKeeps DEF WindowInv
    <3> QED
      BY <2>1, <2>4, <3>2 DEF WindowInv
  <2>5. CASE slider = "max_not_repeat" /\ max_not_repeat
    <3>1. turn # "returned"
      BY <2>5 DEF max_not_repeat, StopAtEnd
    <3>2. IF turn' = "returned" THEN NotRepeatedClosed' ELSE RepeatInv'
      BY <2>1, <2>5, <3>1, RepeatKeeps DEF WindowInv
    <3> QED
      BY <2>1, <2>5, <3>2 DEF WindowInv
  <2> QED
    BY <1>2, <2>2, <2>3, <2>4, <2>5 DEF WindowNext
<1> QED
  BY <1>1, <1>2

(* Whatever the source and the target, slide_window returns the first of the *)
(* shortest windows, the permutations that are reported are there, all of    *)
(* them for a target without repeats, and max_not_repeat measures the        *)
(* longest run that a repeat of its first character closes.                  *)
THEOREM WindowsAreExact == WindowSpec => []WindowsExact
<1>1. WindowInv => WindowsExact
  BY DEF WindowInv, WindowsExact, WindowTypes, MinimumWindow, PermutationWindows, NotRepeatedClosed, Returned
<1> QED
  BY <1>1, WindowInvInit, WindowInvNext, PTL DEF WindowSpec
=============================================================================
