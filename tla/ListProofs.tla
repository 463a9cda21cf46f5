----------------------------- MODULE ListProofs -----------------------------
(***************************************************************************)
(* Proofs about the lists of 数据结构, for any finite set of addresses: the   *)
(* ring list, the sorted list and the skip list, and last about the three  *)
(* as Lists puts them side by side.  What is said of the nodes of a walk   *)
(* one after the other is proved by a least counterexample.                *)
(***************************************************************************)
EXTENDS Lists, FiniteSetTheorems, SequenceTheorems, TLAPS

(* A set of natural numbers has a least element. *)
LEMMA Least == ASSUME NEW T \in SUBSET Nat, T # {} PROVE \E x \in T : \A y \in T : x <= y
<1> DEFINE R == OpToRel(<, Nat)
<1>1. IsWellFoundedOn(R, Nat)
  BY NatLessThanWellFounded
<1>2. \A x, y \in Nat : y < x => <<y, x>> \in R
  BY DEF OpToRel
<1> HIDE DEF R
<1>3. \E x \in T : \A y \in T : ~ (<<y, x>> \in R)
  BY <1>1, WFMin
<1>4. PICK x \in T : \A y \in T : ~ (<<y, x>> \in R)
  BY <1>3
<1>5. \A y \in T : ~(y < x)
  BY <1>2, <1>4
<1>6. \A y \in T : x <= y
  BY <1>5
<1> QED
  BY <1>6

(* What NodesOf and the shape of a list come to. *)
List(s) == s \in Seq(Address) /\ s # <<>>

(* The positions of a list. *)
LEMMA Positions ==
    ASSUME NEW s, List(s)
    PROVE  /\ Len(s) \in Nat \ {0} /\ 1 \in 1..Len(s) /\ Len(s) \in 1..Len(s)
           /\ \A i \in 1..Len(s) : s[i] \in Address /\ s[i] \in NodesOf(s)
BY DEF List, NodesOf

(* A walk never leaves a set that the pointers do not lead out of. *)
LEMMA Stays ==
    ASSUME NEW w, List(w), NEW nx, NEW S, \A x \in S : nx[x] \in S,
           NEW f \in S, Follows(w, f, nx)
    PROVE  NodesOf(w) \subseteq S
<1>1. Len(w) \in Nat \ {0}
  BY Positions
<1>2. w[1] \in S /\ \A i \in 1..Len(w) - 1 : w[i + 1] = nx[w[i]]
  BY DEF Follows
<1> DEFINE Out == {i \in 1..Len(w) : w[i] \notin S}
<1>3. Out = {}
  <2> SUFFICES ASSUME Out # {} PROVE FALSE
    OBVIOUS
  <2>1. Out \in SUBSET Nat
    OBVIOUS
  <2>2. PICK x \in Out : \A y \in Out : x <= y
    <3> HIDE DEF Out
    <3> QED
      BY <2>1, Least
  <2>3. x \in 1..Len(w) /\ x # 1
    BY <1>2, <2>2
  <2>4. x - 1 \in 1..Len(w) - 1 /\ x - 1 \in 1..Len(w) /\ ~(x <= x - 1) /\ (x - 1) + 1 = x
    BY <1>1, <2>3
  <2>5. x - 1 \notin Out
    BY <2>2, <2>4
  <2>6. w[x - 1] \in S
    BY <2>4, <2>5
  <2>7. w[x] = nx[w[x - 1]]
    BY <1>2, <2>4
  <2>8. w[x] \in S
    BY <2>6, <2>7
  <2> QED
    BY <2>2, <2>8
<1> QED
  BY <1>3 DEF NodesOf

(* Once round, no node is met twice. *)
LEMMA Distinct ==
    ASSUME NEW s, List(s), NEW t, NEW nx, NEW lv, Round(s, t, nx, lv)
    PROVE  \A i, j \in 1..Len(s) : s[i] = s[j] => i = j
<1>1. Len(s) \in Nat \ {0}
  BY Positions
<1>2. /\ \A i \in 1..Len(s) - 1 : s[i + 1] = nx[s[i]]
      /\ nx[s[Len(s)]] = s[1]
      /\ \A i \in 1..Len(s) : s[i] = s[1] => i = 1
  BY DEF Round, Follows
<1> DEFINE Twice == {d \in 0..Len(s) - 1 : \E i \in 1..Len(s) : i < Len(s) - d /\ s[i] = s[Len(s) - d]}
<1>3. Twice = {}
  <2> SUFFICES ASSUME Twice # {} PROVE FALSE
    OBVIOUS
  <2>1. Twice \in SUBSET Nat
    OBVIOUS
  <2>2. PICK d \in Twice : \A y \in Twice : d <= y
    <3> HIDE DEF Twice
    <3> QED
      BY <2>1, Least
  <2>3. d \in 0..Len(s) - 1
    BY <2>2
  <2>4. PICK i \in 1..Len(s) : i < Len(s) - d /\ s[i] = s[Len(s) - d]
    BY <2>2
  <2>5. i \in 1..Len(s) - 1 /\ i + 1 \in 1..Len(s) /\ i + 1 # 1
    BY <1>1, <2>3, <2>4
  <2>6. s[i + 1] = nx[s[Len(s) - d]]
    BY <1>2, <2>4, <2>5
  <2>7. CASE d = 0
    <3>1. s[i + 1] = s[1]
      BY <1>1, <1>2, <2>6, <2>7
    <3> QED
      BY <1>2, <2>5, <3>1
  <2>8. CASE d # 0
    <3>1. /\ d - 1 \in 0..Len(s) - 1 /\ ~(d <= d - 1)
          /\ Len(s) - d \in 1..Len(s) - 1 /\ (Len(s) - d) + 1 = Len(s) - (d - 1)
          /\ i + 1 < Len(s) - (d - 1)
      BY <1>1, <2>3, <2>4, <2>8
    <3>2. s[Len(s) - (d - 1)] = nx[s[Len(s) - d]]
      BY <1>2, <3>1
    <3>3. s[i + 1] = s[Len(s) - (d - 1)]
      BY <2>6, <3>2
    <3>4. d - 1 \in Twice
      BY <2>5, <3>1, <3>3
    <3> QED
      BY <2>2, <3>1, <3>4
  <2> QED
    BY <2>7, <2>8
<1>4. ASSUME NEW i \in 1..Len(s), NEW j \in 1..Len(s), i < j, s[i] = s[j] PROVE FALSE
  <2>1. Len(s) - j \in 0..Len(s) - 1 /\ Len(s) - (Len(s) - j) = j
    BY <1>1
  <2>2. Len(s) - j \in Twice
    BY <1>4, <2>1
  <2> QED
    BY <1>3, <2>2
<1>5. \A i, j \in 1..Len(s) : i < j \/ j < i \/ i = j
  OBVIOUS
<1> HIDE DEF Twice
<1> QED
  BY <1>4, <1>5

(* The nodes of a ring lead to each other, each from one of them. *)
LEMMA Closed ==
    ASSUME NEW s, List(s), NEW t, NEW nx, NEW lv, Round(s, t, nx, lv)
    PROVE  /\ \A x \in NodesOf(s) : nx[x] \in NodesOf(s)
           /\ \A x, y \in NodesOf(s) : nx[x] = nx[y] => x = y
           /\ nx[t] = s[1] /\ nx[t] \in NodesOf(s) /\ NodesOf(s) \subseteq lv
<1>1. Len(s) \in Nat \ {0} /\ 1 \in 1..Len(s)
  BY Positions
<1>2. /\ s[1] = nx[t]
      /\ \A i \in 1..Len(s) - 1 : s[i + 1] = nx[s[i]]
      /\ nx[s[Len(s)]] = s[1]
      /\ \A i \in 1..Len(s) : s[i] \in lv
  BY DEF Round, Follows
<1>3. \A i \in 1..Len(s) - 1 : i + 1 \in 1..Len(s) /\ i + 1 # 1
  BY <1>1
<1>4. \A i \in 1..Len(s) : i = Len(s) \/ i \in 1..Len(s) - 1
  BY <1>1
<1>5. ASSUME NEW x \in NodesOf(s) PROVE nx[x] \in NodesOf(s)
  <2>1. PICK i \in 1..Len(s) : x = s[i]
    BY DEF NodesOf
  <2> QED
    BY <1>1, <1>2, <1>3, <1>4, <2>1 DEF NodesOf
<1>6. ASSUME NEW x \in NodesOf(s), NEW y \in NodesOf(s), nx[x] = nx[y] PROVE x = y
  <2>1. PICK i \in 1..Len(s) : x = s[i]
    BY DEF NodesOf
  <2>2. PICK j \in 1..Len(s) : y = s[j]
    BY DEF NodesOf
  <2>3. CASE i = Len(s) /\ j = Len(s)
    BY <2>1, <2>2, <2>3
  <2>4. CASE i = Len(s) /\ j \in 1..Len(s) - 1
    <3>1. s[j + 1] = s[1]
      BY <1>2, <1>6, <2>1, <2>2, <2>4
    <3> QED
      BY <1>1, <1>3, <2>4, <3>1, Distinct
  <2>5. CASE i \in 1..Len(s) - 1 /\ j = Len(s)
    <3>1. s[i + 1] = s[1]
      BY <1>2, <1>6, <2>1, <2>2, <2>5
    <3> QED
      BY <1>1, <1>3, <2>5, <3>1, Distinct
  <2>6. CASE i \in 1..Len(s) - 1 /\ j \in 1..Len(s) - 1
    <3>1. s[i + 1] = s[j + 1]
      BY <1>2, <1>6, <2>1, <2>2, <2>6
    <3>2. i + 1 = j + 1
      BY <1>3, <2>6, <3>1, Distinct
    <3>3. i = j
      BY <2>6, <3>2
    <3> QED
      BY <2>1, <2>2, <3>3
  <2> QED
    BY <1>4, <2>3, <2>4, <2>5, <2>6
<1>7. NodesOf(s) \subseteq lv
  BY <1>2 DEF NodesOf
<1> QED
  BY <1>1, <1>2, <1>5, <1>6, <1>7 DEF NodesOf

(* There is one way round from a node. *)
LEMMA OneRound ==
    ASSUME NEW s, List(s), NEW w, List(w), NEW t, NEW nx, NEW lv, NEW lw,
           Round(s, t, nx, lv), Round(w, t, nx, lw), Len(s) <= Len(w)
    PROVE  s = w
<1>1. Len(s) \in Nat \ {0} /\ Len(w) \in Nat \ {0}
  BY Positions
<1>2. /\ s[1] = w[1]
      /\ \A i \in 1..Len(s) - 1 : s[i + 1] = nx[s[i]]
      /\ \A i \in 1..Len(w) - 1 : w[i + 1] = nx[w[i]]
      /\ nx[s[Len(s)]] = s[1]
      /\ \A i \in 1..Len(w) : w[i] = w[1] => i = 1
  BY DEF Round, Follows
<1> DEFINE Differ == {i \in 1..Len(s) : s[i] # w[i]}
<1>3. Differ = {}
  <2> SUFFICES ASSUME Differ # {} PROVE FALSE
    OBVIOUS
  <2>1. Differ \in SUBSET Nat
    OBVIOUS
  <2>2. PICK x \in Differ : \A y \in Differ : x <= y
    <3> HIDE DEF Differ
    <3> QED
      BY <2>1, Least
  <2>3. x \in 1..Len(s) /\ x # 1 /\ s[x] # w[x]
    BY <1>2, <2>2
  <2>4. /\ x - 1 \in 1..Len(s) - 1 /\ x - 1 \in 1..Len(w) - 1 /\ x - 1 \in 1..Len(s)
        /\ ~(x <= x - 1) /\ (x - 1) + 1 = x
    BY <1>1, <2>3
  <2>5. x - 1 \notin Differ
    BY <2>2, <2>4
  <2>6. s[x - 1] = w[x - 1]
    BY <2>4, <2>5
  <2>7. s[x] = nx[s[x - 1]] /\ w[x] = nx[w[x - 1]]
    BY <1>2, <2>4
  <2> QED
    BY <2>3, <2>6, <2>7
<1>4. \A i \in 1..Len(s) : s[i] = w[i]
  BY <1>3
<1> HIDE DEF Differ
<1>5. Len(s) = Len(w)
  <2> SUFFICES ASSUME Len(s) # Len(w) PROVE FALSE
    OBVIOUS
  <2>1. Len(s) \in 1..Len(s) /\ Len(s) \in 1..Len(w) - 1 /\ Len(s) + 1 \in 1..Len(w) /\ Len(s) + 1 # 1
    BY <1>1
  <2>2. w[Len(s) + 1] = nx[w[Len(s)]]
    BY <1>2, <2>1
  <2>3. w[Len(s)] = s[Len(s)]
    BY <1>4, <2>1
  <2>4. w[Len(s) + 1] = w[1]
    BY <1>2, <2>2, <2>3
  <2> QED
    BY <1>2, <2>1, <2>4
<1> QED
  BY <1>4, <1>5 DEF List

(* dump prints the ring there is. *)
LEMMA RoundUnique ==
    ASSUME NEW s, List(s), NEW w, List(w), NEW t, NEW nx, NEW lv, NEW lw,
           Round(s, t, nx, lv), Round(w, t, nx, lw)
    PROVE  s = w
<1>1. Len(s) \in Nat /\ Len(w) \in Nat
  BY Positions
<1>2. Len(s) <= Len(w) \/ Len(w) <= Len(s)
  BY <1>1
<1> QED
  BY <1>2, OneRound

(* A ring stays one where neither its nodes nor their pointers change. *)
LEMMA RoundKept ==
    ASSUME NEW s, List(s), NEW t, NEW nx, NEW lv, Round(s, t, nx, lv),
           NEW u, NEW ny, NEW lw, NodesOf(s) \subseteq lw, ny[u] = s[1],
           \A x \in NodesOf(s) : ny[x] = nx[x]
    PROVE  Round(s, u, ny, lw)
<1>1. Len(s) \in Nat \ {0} /\ \A i \in 1..Len(s) : s[i] \in NodesOf(s)
  BY Positions
<1>2. Len(s) \in 1..Len(s) /\ \A i \in 1..Len(s) - 1 : i \in 1..Len(s)
  BY <1>1
<1> QED
  BY <1>1, <1>2 DEF Round, Follows

-----------------------------------------------------------------------------
(* The ring after add_to_head, where the last node is on it. *)
LEMMA HeadAdded ==
    ASSUME List(printed), next \in [Address -> Address \cup {Nil}],
           Round(printed, tail, next, live), tail = printed[Len(printed)], NEW n \in Address, n \notin live
    PROVE  /\ List(<<n>> \o printed)
           /\ Round(<<n>> \o printed, tail, [next EXCEPT ![n] = next[tail], ![tail] = n], live \cup {n})
           /\ NodesOf(<<n>> \o printed) = NodesOf(printed) \cup {n}
           /\ (<<n>> \o printed)[Len(<<n>> \o printed)] = tail
<1> DEFINE r == <<n>> \o printed
           ny == [next EXCEPT ![n] = next[tail], ![tail] = n]
<1>1. /\ Len(printed) \in Nat \ {0} /\ printed \in Seq(Address) /\ Len(printed) \in 1..Len(printed)
      /\ \A i \in 1..Len(printed) : printed[i] \in Address
  BY Positions DEF List
<1>2. /\ printed[1] = next[tail]
      /\ \A i \in 1..Len(printed) - 1 : printed[i + 1] = next[printed[i]]
      /\ \A i \in 1..Len(printed) : printed[i] \in live
  BY DEF Round, Follows
<1>3. r \in Seq(Address) /\ Len(r) = Len(printed) + 1 /\ r[1] = n
  BY <1>1
<1>4. \A i \in 1..Len(printed) : r[i + 1] = printed[i]
  BY <1>1
<1>5. tail \in Address /\ tail \in live /\ n # tail
  BY <1>1, <1>2
<1>6. ny[tail] = n /\ ny[n] = next[tail] /\ \A x \in Address : x # n /\ x # tail => ny[x] = next[x]
  BY <1>5
<1>7. \A i \in 1..Len(r) : i = 1 \/ (i - 1 \in 1..Len(printed) /\ (i - 1) + 1 = i)
  BY <1>1, <1>3
<1>8. \A i \in 1..Len(r) : i = 1 \/ r[i] = printed[i - 1]
  BY <1>4, <1>7
<1> HIDE DEF r, ny
<1>9. r[Len(r)] = tail
  BY <1>1, <1>3, <1>4
<1>10. ASSUME NEW i \in 1..Len(r) - 1 PROVE r[i + 1] = ny[r[i]]
  <2>1. i \in 1..Len(printed) /\ r[i + 1] = printed[i] /\ i \in 1..Len(r)
    BY <1>1, <1>3, <1>4
  <2>2. CASE i = 1
    BY <1>2, <1>3, <1>6, <2>1, <2>2
  <2>3. CASE i # 1
    <3>1. i - 1 \in 1..Len(printed) - 1 /\ i - 1 \in 1..Len(printed) /\ (i - 1) + 1 = i /\ i - 1 # Len(printed)
      BY <1>1, <2>1, <2>3
    <3>2. r[i] = printed[i - 1] /\ printed[i] = next[printed[i - 1]]
      BY <1>2, <1>8, <2>1, <2>3, <3>1
    <3>3. printed[i - 1] # tail
      BY <1>1, <3>1, Distinct
    <3>4. printed[i - 1] # n /\ printed[i - 1] \in Address
      BY <1>1, <1>2, <3>1
    <3> QED
      BY <1>6, <2>1, <3>2, <3>3, <3>4
  <2> QED
    BY <2>2, <2>3
<1>11. \A i \in 1..Len(r) : r[i] \in live \cup {n} /\ (r[i] = r[1] => i = 1)
  BY <1>2, <1>3, <1>7, <1>8
<1>12. Round(r, tail, ny, live \cup {n})
  BY <1>3, <1>6, <1>9, <1>10, <1>11 DEF Round, Follows
<1>13. NodesOf(r) = NodesOf(printed) \cup {n}
  <2>1. \A i \in 1..Len(printed) : i + 1 \in 1..Len(r)
    BY <1>1, <1>3
  <2>2. 1 \in 1..Len(r)
    BY <1>1, <1>3
  <2>3. ASSUME NEW x \in NodesOf(r) PROVE x = n \/ x \in NodesOf(printed)
    <3>1. PICK i \in 1..Len(r) : x = r[i]
      BY DEF NodesOf
    <3> QED
      BY <1>3, <1>7, <1>8, <3>1 DEF NodesOf
  <2>4. n \in NodesOf(r)
    BY <1>3, <2>2 DEF NodesOf
  <2>5. ASSUME NEW x \in NodesOf(printed) PROVE x \in NodesOf(r)
    <3>1. PICK i \in 1..Len(printed) : x = printed[i]
      BY DEF NodesOf
    <3> QED
      BY <1>4, <2>1, <3>1 DEF NodesOf
  <2> QED
    BY <2>3, <2>4, <2>5
<1>14. List(r)
  BY <1>1, <1>3 DEF List
<1> QED
  BY <1>9, <1>12, <1>13, <1>14 DEF r, ny

(* The ring after del_from_head, where it has another node. *)
LEMMA HeadDeleted ==
    ASSUME List(printed), next \in [Address -> Address \cup {Nil}],
           Round(printed, tail, next, live), tail = printed[Len(printed)], next[tail] # tail
    PROVE  /\ List(Tail(printed))
           /\ Round(Tail(printed), tail, [next EXCEPT ![tail] = next[next[tail]]], live \ {next[tail]})
           /\ NodesOf(Tail(printed)) = NodesOf(printed) \ {next[tail]}
           /\ Tail(printed)[Len(Tail(printed))] = tail
<1> DEFINE r == Tail(printed)
           ny == [next EXCEPT ![tail] = next[next[tail]]]
<1>1. /\ Len(printed) \in Nat \ {0} /\ printed \in Seq(Address) /\ Len(printed) \in 1..Len(printed)
      /\ \A i \in 1..Len(printed) : printed[i] \in Address
  BY Positions DEF List
<1>2. /\ printed[1] = next[tail]
      /\ \A i \in 1..Len(printed) - 1 : printed[i + 1] = next[printed[i]]
      /\ \A i \in 1..Len(printed) : printed[i] \in live
  BY DEF Round, Follows
<1>3. Len(printed) # 1
  BY <1>2
<1>4. r \in Seq(Address) /\ Len(r) = Len(printed) - 1 /\ Len(r) \in Nat \ {0}
  BY <1>1, <1>3
<1>5. \A i \in 1..Len(r) : r[i] = printed[i + 1] /\ i + 1 \in 1..Len(printed) /\ i + 1 # 1
  BY <1>1, <1>4
<1>6. /\ 1 \in 1..Len(printed) - 1 /\ 1 \in 1..Len(printed) /\ 1 \in 1..Len(r) /\ Len(r) \in 1..Len(r)
      /\ Len(r) + 1 = Len(printed) /\ 1 + 1 = 2
  BY <1>1, <1>3, <1>4
<1>7. printed[2] = next[printed[1]] /\ tail \in Address
  BY <1>1, <1>2, <1>6
<1>8. ny[tail] = printed[2] /\ \A x \in Address : x # tail => ny[x] = next[x]
  BY <1>2, <1>7
<1> HIDE DEF r, ny
<1>9. r[1] = printed[2] /\ r[Len(r)] = tail
  BY <1>5, <1>6
<1>10. ASSUME NEW i \in 1..Len(r) - 1 PROVE r[i + 1] = ny[r[i]]
  <2>1. /\ i \in 1..Len(r) /\ i + 1 \in 1..Len(r) /\ i + 1 \in 1..Len(printed) - 1
        /\ i + 1 \in 1..Len(printed) /\ i + 1 # Len(printed)
    BY <1>4, <1>6
  <2>2. r[i] = printed[i + 1] /\ r[i + 1] = printed[(i + 1) + 1]
    BY <1>5, <2>1
  <2>3. printed[(i + 1) + 1] = next[printed[i + 1]]
    BY <1>2, <2>1
  <2>4. printed[i + 1] # tail /\ printed[i + 1] \in Address
    BY <1>1, <2>1, Distinct
  <2> QED
    BY <1>8, <2>2, <2>3, <2>4
<1>11. ASSUME NEW i \in 1..Len(r)
       PROVE  r[i] \in live \ {next[tail]} /\ (r[i] = r[1] => i = 1)
  <2>1. r[i] = printed[i + 1] /\ i + 1 \in 1..Len(printed) /\ i + 1 # 1
    BY <1>5
  <2>2. printed[i + 1] # printed[1]
    BY <1>6, <2>1, Distinct
  <2>3. r[i] = r[1] => i + 1 = 2
    BY <1>6, <1>9, <1>5, <2>1, Distinct
  <2>4. i + 1 = 2 => i = 1
    OBVIOUS
  <2> QED
    BY <1>2, <2>1, <2>2, <2>3, <2>4
<1>12. Round(r, tail, ny, live \ {next[tail]})
  BY <1>8, <1>9, <1>10, <1>11 DEF Round, Follows
<1>13. NodesOf(r) = NodesOf(printed) \ {next[tail]}
  <2>1. ASSUME NEW x \in NodesOf(r) PROVE x \in NodesOf(printed) /\ x # next[tail]
    <3>1. PICK i \in 1..Len(r) : x = r[i]
      BY DEF NodesOf
    <3>2. x \in NodesOf(printed)
      BY <1>5, <3>1 DEF NodesOf
    <3> QED
      BY <1>11, <3>1, <3>2
  <2>2. ASSUME NEW x \in NodesOf(printed), x # next[tail] PROVE x \in NodesOf(r)
    <3>1. PICK i \in 1..Len(printed) : x = printed[i]
      BY DEF NodesOf
    <3>2. i # 1
      BY <1>2, <2>2, <3>1
    <3>3. i - 1 \in 1..Len(r) /\ (i - 1) + 1 = i
      BY <1>1, <1>4, <3>2
    <3>4. r[i - 1] = x
      BY <1>5, <3>1, <3>3
    <3> QED
      BY <3>3, <3>4 DEF NodesOf
  <2> QED
    BY <2>1, <2>2
<1>14. List(r)
  BY <1>4 DEF List
<1> QED
  BY <1>9, <1>12, <1>13, <1>14 DEF r, ny

(* The ring after del_from_tail, where it has another node. *)
LEMMA TailDeleted ==
    ASSUME List(printed), next \in [Address -> Address \cup {Nil}],
           Round(printed, tail, next, live), tail = printed[Len(printed)], next[tail] # tail,
           NEW end \in NodesOf(printed), next[end] = tail
    PROVE  LET r == SubSeq(printed, 1, Len(printed) - 1) IN
           /\ List(r) /\ Round(r, end, [next EXCEPT ![end] = next[tail]], live)
           /\ NodesOf(r) = NodesOf(printed) \ {tail} /\ r[Len(r)] = end
<1> DEFINE r == SubSeq(printed, 1, Len(printed) - 1)
           ny == [next EXCEPT ![end] = next[tail]]
<1>1. /\ Len(printed) \in Nat \ {0} /\ printed \in Seq(Address) /\ Len(printed) \in 1..Len(printed)
      /\ \A i \in 1..Len(printed) : printed[i] \in Address /\ printed[i] \in NodesOf(printed)
  BY Positions DEF List
<1>2. /\ printed[1] = next[tail]
      /\ \A i \in 1..Len(printed) - 1 : printed[i + 1] = next[printed[i]]
      /\ \A i \in 1..Len(printed) : printed[i] \in live /\ (printed[i] = printed[1] => i = 1)
  BY DEF Round, Follows
<1>3. Len(printed) # 1
  BY <1>2
<1>4. /\ Len(printed) - 1 \in 1..Len(printed) - 1 /\ Len(printed) - 1 \in 1..Len(printed) /\ (Len(printed) - 1) + 1 = Len(printed)
      /\ Len(printed) - 1 \in Nat \ {0} /\ 1 \in 1..Len(printed) - 1
  <2>1. Len(printed) - 1 \in Nat \ {0} /\ Len(printed) \in Nat
    BY <1>1, <1>3
  <2>2. \A k \in Nat : k - 1 \in Nat \ {0} =>
          k - 1 \in 1..k - 1 /\ k - 1 \in 1..k /\ (k - 1) + 1 = k /\ 1 \in 1..k - 1
    OBVIOUS
  <2> QED
    BY <2>1, <2>2
<1>0. \A i \in 1..Len(printed) - 1 : i \in 1..Len(printed) /\ i # Len(printed)
  BY <1>1
<1>5. end = printed[Len(printed) - 1]
  <2>1. next[printed[Len(printed) - 1]] = tail
    BY <1>2, <1>4
  <2>2. printed[Len(printed) - 1] \in NodesOf(printed)
    BY <1>1, <1>4
  <2>3. \A x, y \in NodesOf(printed) : next[x] = next[y] => x = y
    BY Closed
  <2> QED
    BY <2>1, <2>2, <2>3
<1>6. r \in Seq(Address) /\ Len(r) = Len(printed) - 1
  <2>1. \A i \in 1..Len(printed) - 1 : printed[i] \in Address
    BY <1>0, <1>1
  <2> QED
    BY <1>4, <2>1, SubSeqProperties
<1>7. \A i \in 1..Len(printed) - 1 : r[i] = printed[i]
  <2>1. \A i \in 1..Len(printed) - 1 : printed[i] \in Address
    BY <1>0, <1>1
  <2>2. \A i \in 1..(Len(printed) - 1) - 1 + 1 : r[i] = printed[1 + i - 1]
    BY <1>4, <2>1, SubSeqProperties
  <2>3. \A i \in 1..Len(printed) - 1 : i \in 1..(Len(printed) - 1) - 1 + 1 /\ 1 + i - 1 = i
    BY <1>4
  <2> QED
    BY <2>2, <2>3
<1>8. end \in Address
  BY <1>1, <1>4, <1>5
<1>9. ny[end] = next[tail] /\ \A x \in Address : x # end => ny[x] = next[x]
  BY <1>8
<1> HIDE DEF r, ny
<1>10. ASSUME NEW i \in 1..Len(r) - 1 PROVE r[i + 1] = ny[r[i]]
  <2>1. i \in 1..Len(printed) - 1 /\ i + 1 \in 1..Len(printed) - 1 /\ i # Len(printed) - 1
    BY <1>1, <1>6
  <2>2. i \in 1..Len(printed) /\ printed[i] \in Address
    BY <1>0, <1>1, <2>1
  <2>3. printed[i] # end
    BY <1>4, <1>5, <2>1, <2>2, Distinct
  <2> QED
    <3>1. r[i + 1] = printed[i + 1] /\ r[i] = printed[i]
      BY <1>7, <2>1
    <3>2. printed[i + 1] = next[printed[i]]
      BY <1>0, <1>2, <2>1
    <3> QED
      BY <1>9, <2>2, <2>3, <3>1, <3>2
<1>11. \A i \in 1..Len(r) : r[i] \in live /\ (r[i] = r[1] => i = 1)
  BY <1>0, <1>2, <1>6, <1>7
<1>12. Round(r, end, ny, live)
  <2>1. r[1] = ny[end] /\ ny[r[Len(r)]] = r[1]
    BY <1>2, <1>4, <1>5, <1>6, <1>7, <1>9
  <2> QED
    BY <1>10, <1>11, <2>1 DEF Round, Follows
<1>13. NodesOf(r) = NodesOf(printed) \ {tail}
  <2>1. ASSUME NEW x \in NodesOf(r) PROVE x \in NodesOf(printed) /\ x # tail
    <3>1. PICK i \in 1..Len(printed) - 1 : x = printed[i]
      BY <1>6, <1>7 DEF NodesOf
    <3> QED
      BY <1>0, <1>1, <3>1, Distinct
  <2>2. ASSUME NEW x \in NodesOf(printed), x # tail PROVE x \in NodesOf(r)
    <3>1. PICK i \in 1..Len(printed) : x = printed[i]
      BY DEF NodesOf
    <3>2. i \in 1..Len(printed) - 1
      BY <1>1, <2>2, <3>1
    <3> QED
      BY <1>6, <1>7, <3>1, <3>2 DEF NodesOf
  <2> QED
    BY <2>1, <2>2
<1>14. List(r)
  BY <1>4, <1>6 DEF List
<1> QED
  BY <1>4, <1>5, <1>6, <1>7, <1>12, <1>13, <1>14 DEF r, ny

-----------------------------------------------------------------------------
(* A walk through the allocated nodes is a list. *)
LEMMA WalksAreLists == \A w \in Walks : List(w)
<1>1. Cardinality(Address) \in Nat
  BY AddressAssumption, FS_CardinalityType
<1>2. ASSUME NEW k \in 1..Cardinality(Address), NEW w \in [1..k -> Address] PROVE List(w)
  <2>1. k \in Nat \ {0}
    BY <1>1
  <2>2. w \in Seq(Address) /\ Len(w) = k
    BY <2>1
  <2> QED
    BY <2>1, <2>2 DEF List
<1> QED
  BY <1>2 DEF Walks

(* What dump leaves behind. *)
Dumped ==
    \/ tail' = Nil /\ status' = "crashed" /\ printed' = printed
    \/ tail' # Nil /\ status' = "ok" /\ List(printed') /\ Round(printed', tail', next', live')
    \/ tail' # Nil /\ status' \in {"undefined", "loops"} /\ printed' = printed

(* dump comes to one of its ends. *)
LEMMA DumpEnds == dump(tail', next', live') => Dumped
BY WalksAreLists DEF dump, Dumped

(* The inductive invariant: while the program goes on with a list, printed   *)
(* is the ring that tail_->next leads to, and where the last node is on it,  *)
(* the list the callers expect.                                              *)
Complete ==
    /\ printed = order
    /\ tail = order[Len(order)]
    /\ live = NodesOf(order) \cup kept

RingInv ==
    /\ TypeOK
    /\ status = "ok" /\ tail = Nil => order = <<>> /\ live = {} /\ kept = {}
    /\ status = "ok" /\ tail # Nil =>
         /\ List(printed) /\ Round(printed, tail, next, live) /\ tail \in live
         /\ order # <<>> /\ kept \cap NodesOf(printed) = {}
         /\ ~Detached => Complete

(* An operation that ends the program leaves nothing to show but types. *)
LEMMA Ended == TypeOK' /\ status' # "ok" => RingInv'
BY DEF RingInv

(* dump changes no more than printed and status. *)
LEMMA DumpTypes ==
    ASSUME TypeOK, Dumped PROVE printed' \in Seq(Address) /\ status' \in {"ok", "crashed", "undefined", "loops"}
<1>1. printed \in Seq(Address)
  BY DEF TypeOK
<1> QED
  BY <1>1 DEF Dumped, List

(* The first node is a list of its own. *)
LEMMA FirstAdded ==
    ASSUME RingInv, NEW n \in Address, New(n), AddFirst(n), tail = Nil, status = "ok",
           order' = <<n>>, kept' = kept, Dumped
    PROVE  RingInv'
<1>1. TypeOK /\ live = {} /\ kept = {} /\ next \in [Address -> Address \cup {Nil}]
  BY DEF RingInv, TypeOK
<1>2. /\ live' = {n} /\ tail' = n /\ next' = [next EXCEPT ![n] = n] /\ tail' # Nil
  BY <1>1, AddressAssumption DEF New, AddFirst
<1>3. next' \in [Address -> Address \cup {Nil}] /\ next'[n] = n
  BY <1>1, <1>2
<1>4. order' \in Seq(Address) /\ order' # <<>> /\ Len(order') = 1 /\ order'[1] = n
  OBVIOUS
<1>5. TypeOK'
  <2>1. kept' \subseteq live' /\ live' \subseteq Address /\ tail' \in Address \cup {Nil}
    BY <1>1, <1>2
  <2>2. printed' \in Seq(Address) /\ status' \in {"ok", "crashed", "undefined", "loops"}
    BY <1>1, DumpTypes
  <2> QED
    BY <1>3, <1>4, <2>1, <2>2 DEF TypeOK
<1>6. CASE status' # "ok"
  BY <1>5, <1>6, Ended
<1>7. CASE status' = "ok"
  <2>1. List(printed') /\ Round(printed', n, next', live')
    BY <1>2, <1>7 DEF Dumped
  <2>2. List(<<n>>) /\ Round(<<n>>, n, next', live') /\ NodesOf(<<n>>) = {n}
    BY <1>2, <1>3 DEF List, Round, Follows, NodesOf
  <2>3. printed' = <<n>>
    BY <2>1, <2>2, RoundUnique
  <2>4. /\ printed' = order' /\ tail' = order'[Len(order')]
        /\ NodesOf(order') = {n} /\ live' = NodesOf(order') \cup kept'
        /\ kept' \cap NodesOf(printed') = {}
    BY <1>1, <1>2, <1>4, <2>2, <2>3
  <2> QED
    BY <1>2, <1>4, <1>5, <2>1, <2>4 DEF RingInv, Complete
<1> QED
  BY <1>6, <1>7

(* What the invariant says of a list with a node in it. *)
LEMMA InUse ==
    ASSUME RingInv, status = "ok", tail # Nil
    PROVE  /\ TypeOK /\ next \in [Address -> Address \cup {Nil}] /\ tail \in Address
           /\ List(printed) /\ Round(printed, tail, next, live) /\ tail \in live
           /\ NodesOf(printed) \subseteq Address \cap live
           /\ order \in Seq(Address) /\ order # <<>> /\ kept \cap NodesOf(printed) = {}
           /\ Len(printed) \in Nat \ {0}
<1>1. List(printed) /\ Round(printed, tail, next, live)
  BY DEF RingInv
<1>2. NodesOf(printed) \subseteq Address
  BY <1>1, Positions DEF NodesOf
<1> QED
  BY <1>1, <1>2, Closed, Positions DEF RingInv, TypeOK

(* Where the last node is on the ring, the ring is the list. *)
LEMMA Attached ==
    ASSUME RingInv, status = "ok", tail # Nil, ~Detached
    PROVE  Complete /\ tail = printed[Len(printed)]
BY DEF RingInv, Complete

-----------------------------------------------------------------------------
(* Where the last node is off the ring, add_to_head starts a walk that comes *)
(* to the ring and never back.                                               *)
LEMMA HeadOffRing ==
    ASSUME RingInv, NEW n \in Address, add_to_head(n), tail # Nil, Detached
    PROVE  status' \in {"loops", "undefined"}
<1>1. status = "ok" /\ New(n) /\ Dumped
  BY DumpEnds DEF add_to_head
<1>2. next' = [next EXCEPT ![n] = next[tail], ![tail] = n] /\ tail' = tail
  BY DEF add_to_head
<1>3. /\ next \in [Address -> Address \cup {Nil}] /\ tail \in Address /\ tail \in live
      /\ List(printed) /\ Round(printed, tail, next, live) /\ NodesOf(printed) \subseteq Address \cap live
  BY <1>1, InUse
<1>4. n \notin live /\ n # tail /\ n \notin NodesOf(printed) /\ tail \notin NodesOf(printed)
  BY <1>1, <1>3 DEF New, Detached
<1>5. next'[tail] = n /\ next'[n] = next[tail] /\ \A x \in NodesOf(printed) : next'[x] = next[x]
  BY <1>2, <1>3, <1>4
<1>6. next[tail] \in NodesOf(printed) /\ \A x \in NodesOf(printed) : next[x] \in NodesOf(printed)
  BY <1>3, Closed
<1>7. \A x \in NodesOf(printed) \cup {n} : next'[x] \in NodesOf(printed)
  BY <1>5, <1>6
<1>8. ASSUME List(printed'), Round(printed', tail', next', live') PROVE FALSE
  <2>1. Follows(printed', n, next') /\ next'[printed'[Len(printed')]] = n
    BY <1>2, <1>5, <1>8 DEF Round, Follows
  <2>2. NodesOf(printed') \subseteq NodesOf(printed) \cup {n}
    BY <1>7, <1>8, <2>1, Stays
  <2>3. printed'[Len(printed')] \in NodesOf(printed')
    BY <1>8, Positions
  <2> QED
    BY <1>4, <1>7, <2>1, <2>2, <2>3
<1> QED
  BY <1>1, <1>2, <1>8 DEF Dumped

(* add_to_head leaves the list with one node more. *)
LEMMA AddToHeadKeeps ==
    ASSUME RingInv, NEW n \in Address, add_to_head(n)
    PROVE  RingInv'
<1>1. status = "ok" /\ New(n) /\ order' = <<n>> \o order /\ kept' = kept /\ Dumped
  BY DumpEnds DEF add_to_head
<1>2. CASE tail = Nil
  <2>1. order' = <<n>>
    BY <1>1, <1>2 DEF RingInv
  <2> QED
    BY <1>1, <1>2, <2>1, FirstAdded DEF add_to_head
<1>3. CASE tail # Nil
  <2>1. next' = [next EXCEPT ![n] = next[tail], ![tail] = n] /\ tail' = tail
    BY <1>3 DEF add_to_head
  <2>2. n \notin live /\ live' = live \cup {n}
    BY <1>1 DEF New
  <2>3. /\ TypeOK /\ next \in [Address -> Address \cup {Nil}] /\ tail \in Address /\ tail \in live
        /\ List(printed) /\ Round(printed, tail, next, live) /\ kept \subseteq live
        /\ order \in Seq(Address) /\ kept \cap NodesOf(printed) = {}
    BY <1>1, <1>3, InUse DEF TypeOK
  <2>4. order' \in Seq(Address) /\ order' # <<>>
    BY <1>1, <2>3
  <2>5. TypeOK'
    <3>1. next' \in [Address -> Address \cup {Nil}]
      BY <2>1, <2>3
    <3>2. kept' \subseteq live' /\ live' \subseteq Address /\ tail' \in Address \cup {Nil}
      BY <1>1, <2>1, <2>2, <2>3 DEF TypeOK
    <3> QED
      BY <1>1, <2>3, <2>4, <3>1, <3>2, DumpTypes DEF TypeOK
  <2>6. CASE status' # "ok"
    BY <2>5, <2>6, Ended
  <2>7. CASE status' = "ok"
    <3>1. List(printed') /\ Round(printed', tail', next', live')
      BY <2>7 , <1>1 DEF Dumped
    <3>2. ~Detached
      BY <1>3, <2>7, HeadOffRing
    <3>3. printed = order /\ tail = printed[Len(printed)] /\ live = NodesOf(printed) \cup kept
      BY <1>1, <1>3, <3>2, Attached DEF Complete
    <3>4. /\ List(<<n>> \o printed)
          /\ Round(<<n>> \o printed, tail', next', live')
          /\ NodesOf(<<n>> \o printed) = NodesOf(printed) \cup {n}
          /\ (<<n>> \o printed)[Len(<<n>> \o printed)] = tail
      <4>1. /\ List(<<n>> \o printed)
            /\ Round(<<n>> \o printed, tail, [next EXCEPT ![n] = next[tail], ![tail] = n], live \cup {n})
            /\ NodesOf(<<n>> \o printed) = NodesOf(printed) \cup {n}
            /\ (<<n>> \o printed)[Len(<<n>> \o printed)] = tail
        BY <2>2, <2>3, <3>3, HeadAdded
      <4> QED
        BY <2>1, <2>2, <4>1
    <3>5. printed' = <<n>> \o printed
      BY <3>1, <3>4, RoundUnique
    <3>6. printed' = order' /\ NodesOf(order') = NodesOf(printed) \cup {n}
      BY <1>1, <3>3, <3>4, <3>5
    <3>7. tail' = order'[Len(order')] /\ live' = NodesOf(order') \cup kept' /\ kept' \cap NodesOf(printed') = {}
      BY <1>1, <2>1, <2>2, <2>3, <3>3, <3>4, <3>5, <3>6
    <3>8. tail' \in live'
      BY <2>1, <2>2, <2>3
    <3> QED
      BY <1>3, <2>1, <2>4, <2>5, <3>1, <3>6, <3>7, <3>8 DEF RingInv, Complete
  <2> QED
    BY <2>6, <2>7
<1> QED
  BY <1>2, <1>3

(* add_to_tail puts the new node beside the ring. *)
LEMMA TailAddedBeside ==
    ASSUME RingInv, NEW n \in Address, add_to_tail(n), tail # Nil
    PROVE  /\ RingInv'
           /\ \/ status' = "ok" /\ Detached' /\ printed' = printed
              \/ status' \in {"loops", "undefined"}
<1>1. status = "ok" /\ New(n) /\ order' = Append(order, n) /\ kept' = kept /\ Dumped
  BY DumpEnds DEF add_to_tail
<1>2. next' = [next EXCEPT ![n] = next[tail]] /\ tail' = n /\ tail' # Nil
  BY AddressAssumption DEF add_to_tail
<1>3. n \notin live /\ live' = live \cup {n}
  BY <1>1 DEF New
<1>4. /\ TypeOK /\ next \in [Address -> Address \cup {Nil}] /\ tail \in Address
      /\ List(printed) /\ Round(printed, tail, next, live)
      /\ NodesOf(printed) \subseteq Address \cap live
      /\ order \in Seq(Address) /\ kept \cap NodesOf(printed) = {}
  BY <1>1, InUse
<1>5. order' \in Seq(Address) /\ order' # <<>>
  BY <1>1, <1>4
<1>6. TypeOK'
  <2>1. next' \in [Address -> Address \cup {Nil}]
    BY <1>2, <1>4
  <2>2. kept' \subseteq live' /\ live' \subseteq Address /\ tail' \in Address \cup {Nil}
    BY <1>1, <1>2, <1>3, <1>4 DEF TypeOK
  <2> QED
    BY <1>1, <1>4, <1>5, <2>1, <2>2, DumpTypes DEF TypeOK
<1>7. CASE status' = "ok"
  <2>1. List(printed') /\ Round(printed', tail', next', live')
    BY <1>1, <1>7 DEF Dumped
  <2>2. next[tail] = printed[1] /\ next'[tail'] = printed[1]
    BY <1>2, <1>4, Closed
  <2>3. \A x \in NodesOf(printed) : next'[x] = next[x]
    BY <1>2, <1>3, <1>4
  <2>4. NodesOf(printed) \subseteq live'
    BY <1>3, <1>4
  <2>5. Round(printed, tail', next', live')
    BY <1>4, <2>2, <2>3, <2>4, RoundKept
  <2>6. printed' = printed
    BY <1>4, <2>1, <2>5, RoundUnique
  <2>7. n \notin NodesOf(printed)
    BY <1>3, <1>4
  <2>8. Detached'
    BY <1>2, <2>6, <2>7 DEF Detached
  <2>9. kept' \cap NodesOf(printed') = {} /\ tail' \in live'
    BY <1>1, <1>2, <1>3, <1>4, <2>6
  <2>10. RingInv'
    BY <1>2, <1>5, <1>6, <2>1, <2>8, <2>9 DEF RingInv
  <2> QED
    BY <1>7, <2>6, <2>8, <2>10
<1>8. CASE status' # "ok"
  BY <1>1, <1>2, <1>6, <1>8, Ended DEF Dumped
<1> QED
  BY <1>7, <1>8

(* add_to_tail to an empty list, or beside the ring. *)
LEMMA AddToTailKeeps ==
    ASSUME RingInv, NEW n \in Address, add_to_tail(n)
    PROVE  RingInv'
<1>1. status = "ok" /\ New(n) /\ order' = Append(order, n) /\ kept' = kept /\ Dumped
  BY DumpEnds DEF add_to_tail
<1>2. CASE tail = Nil
  <2>1. order' = <<n>>
    BY <1>1, <1>2 DEF RingInv
  <2> QED
    BY <1>1, <1>2, <2>1, FirstAdded DEF add_to_tail
<1> QED
  BY <1>2, TailAddedBeside

(* Deleting the only node ends the program. *)
LEMMA DelOnlyEnds ==
    ASSUME RingInv, status = "ok", tail # Nil, DelOnly, order' \in Seq(Address)
    PROVE  RingInv' /\ ~Detached
<1>1. /\ next[tail] = tail /\ live' = live \ {tail} /\ tail' = Nil /\ next' = next /\ kept' = kept
      /\ Dumped
  BY DumpEnds DEF DelOnly
<1>2. /\ TypeOK /\ List(printed) /\ Round(printed, tail, next, live)
      /\ kept \cap NodesOf(printed) = {}
  BY InUse
<1>3. tail \in NodesOf(printed)
  BY <1>1, <1>2, Closed
<1>4. TypeOK'
  <2>1. kept' \subseteq live' /\ live' \subseteq Address /\ tail' \in Address \cup {Nil}
    BY <1>1, <1>2, <1>3 DEF TypeOK
  <2> QED
    BY <1>1, <1>2, <2>1, DumpTypes DEF TypeOK
<1> QED
  BY <1>1, <1>3, <1>4, Ended DEF Dumped, Detached

(* del_from_head where the list has another node. *)
LEMMA HeadDeletedKeeps ==
    ASSUME RingInv, status = "ok", tail # Nil, next[tail] # tail,
           live' = live \ {next[tail]}, next' = [next EXCEPT ![tail] = next[next[tail]]],
           tail' = tail, kept' = kept, order' = Tail(order), Dumped
    PROVE  RingInv' /\ (Detached => status' \in {"loops", "undefined"})
<1>1. /\ TypeOK /\ next \in [Address -> Address \cup {Nil}] /\ tail \in Address /\ tail \in live
      /\ List(printed) /\ Round(printed, tail, next, live)
      /\ NodesOf(printed) \subseteq Address \cap live /\ kept \subseteq live
      /\ order \in Seq(Address) /\ order # <<>> /\ kept \cap NodesOf(printed) = {}
  BY InUse DEF TypeOK
<1>2. /\ next[tail] \in NodesOf(printed) /\ \A x \in NodesOf(printed) : next[x] \in NodesOf(printed)
      /\ \A x, y \in NodesOf(printed) : next[x] = next[y] => x = y
  BY <1>1, Closed
<1>3. TypeOK'
  <2>1. next' \in [Address -> Address \cup {Nil}]
    BY <1>1, <1>2
  <2>2. kept' \subseteq live' /\ live' \subseteq Address /\ tail' \in Address \cup {Nil}
    BY <1>1, <1>2 DEF TypeOK
  <2>3. order' \in Seq(Address)
    BY <1>1
  <2> QED
    BY <1>1, <2>1, <2>2, <2>3, DumpTypes DEF TypeOK
<1>4. CASE status' # "ok"
  <2>1. RingInv'
    BY <1>3, <1>4, Ended
  <2> QED
    BY <1>4, <2>1 DEF Dumped
<1>5. CASE status' = "ok"
  <2>1. List(printed') /\ Round(printed', tail, next', live')
    BY <1>5 DEF Dumped
  <2>2. ~Detached
    <3> SUFFICES ASSUME Detached PROVE FALSE
      OBVIOUS
    <3>1. tail \notin NodesOf(printed)
      BY DEF Detached
    <3>2. next'[tail] = next[next[tail]] /\ \A x \in NodesOf(printed) : next'[x] = next[x]
      BY <1>1, <3>1
    <3>3. next'[tail] \in NodesOf(printed) /\ \A x \in NodesOf(printed) : next'[x] \in NodesOf(printed)
      BY <1>2, <3>2
    <3>4. Follows(printed', next'[tail], next') /\ next'[printed'[Len(printed')]] = next'[tail]
      BY <2>1 DEF Round, Follows
    <3>5. NodesOf(printed') \subseteq NodesOf(printed)
      BY <2>1, <3>3, <3>4, Stays
    <3>6. printed'[Len(printed')] \in NodesOf(printed') /\ NodesOf(printed') \subseteq live'
      BY <2>1, Positions, Closed
    <3>7. printed'[Len(printed')] = next[tail]
      BY <1>2, <3>2, <3>4, <3>5, <3>6
    <3> QED
      BY <3>6, <3>7
  <2>3. printed = order /\ tail = printed[Len(printed)] /\ live = NodesOf(printed) \cup kept
    BY <2>2, Attached DEF Complete
  <2>4. /\ List(Tail(printed)) /\ Round(Tail(printed), tail, next', live')
        /\ NodesOf(Tail(printed)) = NodesOf(printed) \ {next[tail]}
        /\ Tail(printed)[Len(Tail(printed))] = tail
    <3>1. /\ List(Tail(printed))
          /\ Round(Tail(printed), tail, [next EXCEPT ![tail] = next[next[tail]]], live \ {next[tail]})
          /\ NodesOf(Tail(printed)) = NodesOf(printed) \ {next[tail]}
          /\ Tail(printed)[Len(Tail(printed))] = tail
      BY <1>1, <2>3, HeadDeleted
    <3> QED
      BY <3>1
  <2>5. printed' = Tail(printed)
    BY <2>1, <2>4, RoundUnique
  <2>6. printed' = order' /\ NodesOf(order') = NodesOf(printed) \ {next[tail]} /\ tail = order'[Len(order')]
    BY <2>3, <2>4, <2>5
  <2>7. live' = NodesOf(order') \cup kept'
    <3>1. next[tail] \notin kept
      BY <1>1, <1>2
    <3>2. live' = (NodesOf(printed) \cup kept) \ {next[tail]}
      BY <2>3
    <3> QED
      BY <2>6, <3>1, <3>2
  <2>8. kept' \cap NodesOf(printed') = {}
    BY <1>1, <2>6
  <2>9. order' # <<>>
    BY <2>1, <2>6 DEF List
  <2>10. tail \in live'
    BY <1>1
  <2> QED
    BY <1>3, <2>1, <2>2, <2>6, <2>7, <2>8, <2>9, <2>10 DEF RingInv, Complete
<1> QED
  BY <1>4, <1>5

(* The node before the last one is on the ring, and so is the last one. *)
LEMMA BeforeTailOnRing ==
    ASSUME RingInv, status = "ok", tail # Nil, NEW end \in BeforeTail
    PROVE  end \in NodesOf(printed) /\ next[end] = tail /\ ~Detached
<1>1. PICK w \in Walks : Follows(w, next[tail], next) /\ next[w[Len(w)]] = tail /\ end = w[Len(w)]
  BY DEF BeforeTail
<1>2. List(w)
  BY WalksAreLists
<1>3. /\ next[tail] \in NodesOf(printed) /\ \A x \in NodesOf(printed) : next[x] \in NodesOf(printed)
  BY InUse, Closed
<1>4. NodesOf(w) \subseteq NodesOf(printed)
  BY <1>1, <1>2, <1>3, Stays
<1>5. end \in NodesOf(printed)
  BY <1>1, <1>2, <1>4, Positions
<1> QED
  BY <1>1, <1>3, <1>5 DEF Detached

(* del_from_tail where the list has another node. *)
LEMMA TailDeletedKeeps ==
    ASSUME RingInv, status = "ok", tail # Nil, next[tail] # tail, NEW end \in BeforeTail,
           tail' = end, next' = [next EXCEPT ![end] = next[tail]], kept' = kept \cup {tail},
           live' = live, order' = SubSeq(order, 1, Len(order) - 1), order' \in Seq(Address), Dumped
    PROVE  RingInv'
<1>1. /\ TypeOK /\ next \in [Address -> Address \cup {Nil}] /\ tail \in Address /\ tail \in live
      /\ List(printed) /\ Round(printed, tail, next, live)
      /\ NodesOf(printed) \subseteq Address \cap live /\ kept \subseteq live /\ live \subseteq Address
      /\ kept \cap NodesOf(printed) = {}
  BY InUse DEF TypeOK
<1>2. end \in NodesOf(printed) /\ next[end] = tail /\ ~Detached
  BY BeforeTailOnRing
<1>3. printed = order /\ tail = printed[Len(printed)] /\ live = NodesOf(printed) \cup kept
  BY <1>2, Attached DEF Complete
<1>4. next[tail] \in NodesOf(printed) /\ next[end] \in NodesOf(printed)
  BY <1>1, <1>2, Closed
<1>5. TypeOK'
  <2>1. next' \in [Address -> Address \cup {Nil}]
    BY <1>1, <1>4
  <2>2. kept' \subseteq live' /\ live' \subseteq Address /\ tail' \in Address \cup {Nil}
    BY <1>1, <1>2
  <2> QED
    BY <1>1, <2>1, <2>2, DumpTypes DEF TypeOK
<1>6. CASE status' # "ok"
  BY <1>5, <1>6, Ended
<1>7. CASE status' = "ok"
  <2> DEFINE r == SubSeq(printed, 1, Len(printed) - 1)
  <2>1. List(printed') /\ Round(printed', end, next', live)
    BY <1>7, <1>1, <1>2, AddressAssumption DEF Dumped
  <2>2. /\ List(r) /\ Round(r, end, next', live)
        /\ NodesOf(r) = NodesOf(printed) \ {tail} /\ r[Len(r)] = end
    <3>1. /\ List(r) /\ Round(r, end, [next EXCEPT ![end] = next[tail]], live)
          /\ NodesOf(r) = NodesOf(printed) \ {tail} /\ r[Len(r)] = end
      BY <1>1, <1>2, <1>3, TailDeleted
    <3> QED
      BY <3>1
  <2>3. r = order'
    BY <1>3
  <2> HIDE DEF r
  <2>4. printed' = r
    BY <2>1, <2>2, RoundUnique
  <2>5. live' = NodesOf(order') \cup kept'
    BY <1>1, <1>2, <1>3, <1>4, <2>2, <2>3
  <2>6. kept' \cap NodesOf(printed') = {}
    BY <1>1, <2>2, <2>4
  <2>7. order' # <<>>
    BY <2>2, <2>3 DEF List
  <2>8. tail' \in live' /\ tail' # Nil
    BY <1>1, <1>2, AddressAssumption
  <2>9. printed' = order' /\ tail' = order'[Len(order')]
    BY <2>2, <2>3, <2>4
  <2>10. List(printed') /\ Round(printed', tail', next', live')
    BY <2>1
  <2> QED
    BY <1>5, <2>5, <2>6, <2>7, <2>8, <2>9, <2>10 DEF RingInv, Complete
<1> QED
  BY <1>6, <1>7

(* Every operation keeps the invariant. *)
LEMMA RingInvNext == RingInv /\ [Next]_vars => RingInv'
<1> SUFFICES ASSUME RingInv, [Next]_vars PROVE RingInv'
  OBVIOUS
<1>1. CASE \E n \in Address : add_to_head(n) \/ add_to_tail(n)
  BY <1>1, AddToHeadKeeps, AddToTailKeeps
<1>2. CASE del_from_head
  <2>1. status = "ok" /\ tail # Nil /\ order' = Tail(order)
    BY <1>2 DEF del_from_head
  <2>2. order' \in Seq(Address)
    BY <2>1, InUse
  <2>3. CASE DelOnly
    BY <2>1, <2>2, <2>3, DelOnlyEnds
  <2>4. CASE ~DelOnly
    <3>1. /\ next[tail] # tail /\ live' = live \ {next[tail]}
          /\ next' = [next EXCEPT ![tail] = next[next[tail]]] /\ tail' = tail /\ kept' = kept
          /\ Dumped
      BY <1>2, <2>4, DumpEnds DEF del_from_head
    <3> QED
      BY <2>1, <3>1, HeadDeletedKeeps
  <2> QED
    BY <2>3, <2>4
<1>3. CASE del_from_tail
  <2>1. status = "ok" /\ tail # Nil /\ order' = SubSeq(order, 1, Len(order) - 1)
    BY <1>3 DEF del_from_tail
  <2>2. order' \in Seq(Address)
    <3>1. order \in Seq(Address) /\ Len(order) \in Nat /\ \A i \in 1..Len(order) : order[i] \in Address
      BY <2>1, InUse
    <3>2. Len(order) - 1 \in Int /\ \A i \in 1..Len(order) - 1 : i \in 1..Len(order)
      BY <3>1
    <3> QED
      BY <2>1, <3>1, <3>2, SubSeqProperties
  <2>3. CASE DelOnly
    BY <2>1, <2>2, <2>3, DelOnlyEnds
  <2>4. CASE next[tail] # tail /\ BeforeTail = {} /\ status' = "loops" /\ UNCHANGED <<live, next, tail, printed, kept>>
    <3>1. TypeOK'
      BY <2>2, <2>4 DEF RingInv, TypeOK
    <3> QED
      BY <2>4, <3>1, Ended
  <2>5. CASE ~DelOnly /\ BeforeTail # {}
    <3>1. PICK end \in BeforeTail :
            /\ next[tail] # tail /\ tail' = end /\ next' = [next EXCEPT ![end] = next[tail]]
            /\ kept' = kept \cup {tail} /\ live' = live /\ Dumped
      BY <1>3, <2>5, DumpEnds DEF del_from_tail
    <3> QED
      BY <2>1, <2>2, <3>1, TailDeletedKeeps
  <2> QED
    BY <1>3, <2>3, <2>4, <2>5 DEF del_from_tail
<1>4. CASE UNCHANGED vars
  <2>1. /\ live' = live /\ next' = next /\ tail' = tail /\ printed' = printed /\ status' = status
        /\ order' = order /\ kept' = kept
    BY <1>4 DEF vars
  <2> QED
    BY <2>1 DEF RingInv, TypeOK, Complete, Detached, Round, Follows
<1> QED
  BY <1>1, <1>2, <1>3, <1>4 DEF Next

(* The program starts with an empty list. *)
LEMMA RingInvInit == Init => RingInv
<1> SUFFICES ASSUME Init PROVE RingInv
  OBVIOUS
<1>1. /\ live = {} /\ kept = {} /\ tail = Nil /\ printed = <<>> /\ order = <<>> /\ status = "ok"
      /\ next = [n \in Address |-> Nil]
  BY DEF Init
<1>2. next \in [Address -> Address \cup {Nil}]
  BY <1>1
<1>3. TypeOK
  BY <1>1, <1>2 DEF TypeOK
<1> QED
  BY <1>1, <1>3 DEF RingInv

(* No operation brings a last node back that add_to_tail has put beside the  *)
(* ring: the ring is printed as it is, or the program ends.                  *)
LEMMA DetachedStays ==
    ASSUME RingInv, Next, status = "ok", Detached
    PROVE  \/ status' = "ok" /\ Detached' /\ printed' = printed
           \/ status' \in {"loops", "undefined"}
<1>0. tail # Nil /\ tail \notin NodesOf(printed)
  BY DEF Detached
<1>1. CASE \E n \in Address : add_to_head(n) \/ add_to_tail(n)
  BY <1>0, <1>1, HeadOffRing, TailAddedBeside
<1>2. ~DelOnly
  <2>1. next[tail] \in NodesOf(printed)
    BY <1>0, InUse, Closed
  <2> QED
    BY <1>0, <2>1 DEF DelOnly
<1>3. CASE del_from_head
  <2>1. /\ next[tail] # tail /\ live' = live \ {next[tail]} /\ order' = Tail(order)
        /\ next' = [next EXCEPT ![tail] = next[next[tail]]] /\ tail' = tail /\ kept' = kept
        /\ Dumped
    BY <1>2, <1>3, DumpEnds DEF del_from_head
  <2> QED
    BY <1>0, <2>1, HeadDeletedKeeps
<1>4. CASE del_from_tail
  <2>1. BeforeTail = {}
    BY <1>0, BeforeTailOnRing
  <2> QED
    BY <1>2, <1>4, <2>1 DEF del_from_tail
<1> QED
  BY <1>1, <1>3, <1>4 DEF Next
-----------------------------------------------------------------------------
(***************************************************************************)
(* Lists that end in null.  After(s, h, nx, k) is where a loop stands that *)
(* started at h and went past the first k nodes of s.                      *)
(***************************************************************************)
After(s, h, nx, k) == IF k = 0 THEN h ELSE nx[s[k]]

(* A walk along nx from h, and a list: a walk that ends at null. *)
Part(s, h, nx) ==
    /\ s \in Seq(Address)
    /\ \A k \in 0..Len(s) - 1 : After(s, h, nx, k) = s[k + 1]
Chain(s, h, nx) == Part(s, h, nx) /\ After(s, h, nx, Len(s)) = Nil

(* Node by node. *)
LEMMA PartNodes ==
    ASSUME NEW s, NEW h, NEW nx, Part(s, h, nx)
    PROVE  /\ Len(s) \in Nat /\ \A i \in 1..Len(s) : s[i] \in Address
           /\ Len(s) # 0 => h = s[1] /\ 1 \in 1..Len(s)
           /\ \A i \in 1..Len(s) - 1 : nx[s[i]] = s[i + 1] /\ i + 1 \in 1..Len(s)
           /\ \A k \in 0..Len(s) : k = 0 \/ k \in 1..Len(s)
<1>1. Len(s) \in Nat /\ \A i \in 1..Len(s) : s[i] \in Address
  BY DEF Part
<1>2. ASSUME Len(s) # 0 PROVE h = s[1]
  <2>1. 0 \in 0..Len(s) - 1 /\ 0 + 1 = 1
    BY <1>1, <1>2
  <2> QED
    BY <2>1 DEF Part, After
<1>3. ASSUME NEW i \in 1..Len(s) - 1 PROVE nx[s[i]] = s[i + 1] /\ i + 1 \in 1..Len(s)
  <2>1. i \in 0..Len(s) - 1 /\ i # 0 /\ i + 1 \in 1..Len(s)
    BY <1>1
  <2> QED
    BY <2>1 DEF Part, After
<1> QED
  BY <1>1, <1>2, <1>3

(* A walk from the first node of a list is a part of the list. *)
LEMMA PartOfChain ==
    ASSUME NEW s, NEW w, NEW h, NEW nx, Chain(s, h, nx), Part(w, h, nx)
    PROVE  /\ Len(w) <= Len(s) /\ \A i \in 1..Len(w) : w[i] = s[i]
           /\ After(w, h, nx, Len(w)) = After(s, h, nx, Len(w))
<1>1. /\ Len(s) \in Nat /\ Len(w) \in Nat
      /\ \A i \in 1..Len(s) : s[i] \in Address
      /\ \A i \in 1..Len(w) : w[i] \in Address
  BY PartNodes DEF Chain
<1>2. /\ \A k \in 0..Len(s) - 1 : After(s, h, nx, k) = s[k + 1]
      /\ \A k \in 0..Len(w) - 1 : After(w, h, nx, k) = w[k + 1]
      /\ After(s, h, nx, Len(s)) = Nil
  BY DEF Chain, Part
<1> DEFINE Differ == {i \in 1..Len(w) : i <= Len(s) /\ s[i] # w[i]}
<1>3. Differ = {}
  <2> SUFFICES ASSUME Differ # {} PROVE FALSE
    OBVIOUS
  <2>1. Differ \in SUBSET Nat
    OBVIOUS
  <2>2. PICK x \in Differ : \A y \in Differ : x <= y
    <3> HIDE DEF Differ
    <3> QED
      BY <2>1, Least
  <2>3. x \in 1..Len(w) /\ x \in 1..Len(s) /\ s[x] # w[x]
    BY <1>1, <2>2
  <2>4. x - 1 \in 0..Len(s) - 1 /\ x - 1 \in 0..Len(w) - 1 /\ (x - 1) + 1 = x
    BY <1>1, <2>3
  <2>5. s[x] = After(s, h, nx, x - 1) /\ w[x] = After(w, h, nx, x - 1)
    BY <1>2, <2>4
  <2>6. After(s, h, nx, x - 1) = After(w, h, nx, x - 1)
    <3>1. CASE x - 1 = 0
      BY <3>1 DEF After
    <3>2. CASE x - 1 # 0
      <4>1. x - 1 \in 1..Len(w) /\ x - 1 <= Len(s) /\ ~(x <= x - 1)
        BY <1>1, <2>3, <2>4, <3>2
      <4>2. x - 1 \notin Differ
        BY <2>2, <4>1
      <4>3. s[x - 1] = w[x - 1]
        BY <4>1, <4>2
      <4> QED
        BY <3>2, <4>3 DEF After
    <3> QED
      BY <3>1, <3>2
  <2> QED
    BY <2>3, <2>5, <2>6
<1>4. \A i \in 1..Len(w) : i <= Len(s) => w[i] = s[i]
  BY <1>3
<1> HIDE DEF Differ
<1>5. \A k \in 0..Len(w) : k <= Len(s) => After(w, h, nx, k) = After(s, h, nx, k)
  <2> TAKE k \in 0..Len(w)
  <2> HAVE k <= Len(s)
  <2>1. k = 0 \/ k \in 1..Len(w)
    BY <1>1
  <2> QED
    BY <1>4, <2>1 DEF After
<1>6. Len(w) <= Len(s)
  <2> SUFFICES ASSUME Len(s) < Len(w) PROVE FALSE
    BY <1>1
  <2>1. Len(s) \in 0..Len(w) - 1 /\ Len(s) \in 0..Len(w) /\ Len(s) + 1 \in 1..Len(w) /\ Len(s) <= Len(s)
    BY <1>1
  <2>2. w[Len(s) + 1] = Nil
    BY <1>2, <1>5, <2>1
  <2>3. w[Len(s) + 1] \in Address
    BY <1>1, <2>1
  <2> QED
    BY <2>2, <2>3, AddressAssumption
<1>7. Len(w) \in 0..Len(w) /\ \A i \in 1..Len(w) : i <= Len(s)
  BY <1>1, <1>6
<1> QED
  BY <1>4, <1>5, <1>6, <1>7

(* There is one list from a node. *)
LEMMA ChainUnique ==
    ASSUME NEW s, NEW t, NEW h, NEW nx, Chain(s, h, nx), Chain(t, h, nx)
    PROVE  s = t
<1>1. Len(s) \in Nat /\ Len(t) \in Nat /\ s \in Seq(Address) /\ t \in Seq(Address)
  BY PartNodes DEF Chain, Part
<1>2. Len(s) <= Len(t) /\ Len(t) <= Len(s) /\ \A i \in 1..Len(s) : s[i] = t[i]
  BY PartOfChain DEF Chain
<1>3. Len(s) = Len(t)
  BY <1>1, <1>2
<1> QED
  BY <1>1, <1>2, <1>3

(* A list is at no node twice, or it would have no end. *)
LEMMA ChainDistinct ==
    ASSUME NEW s, NEW h, NEW nx, Chain(s, h, nx)
    PROVE  \A i, j \in 1..Len(s) : s[i] = s[j] => i = j
<1>1. /\ Len(s) \in Nat /\ \A i \in 1..Len(s) : s[i] \in Address
      /\ \A i \in 1..Len(s) - 1 : nx[s[i]] = s[i + 1] /\ i + 1 \in 1..Len(s)
  BY PartNodes DEF Chain
<1> DEFINE Twice == {d \in 0..Len(s) - 1 : \E i \in 1..Len(s) : i < Len(s) - d /\ s[i] = s[Len(s) - d]}
<1>2. Twice = {}
  <2> SUFFICES ASSUME Twice # {} PROVE FALSE
    OBVIOUS
  <2>1. Twice \in SUBSET Nat
    OBVIOUS
  <2>2. PICK d \in Twice : \A y \in Twice : d <= y
    <3> HIDE DEF Twice
    <3> QED
      BY <2>1, Least
  <2>3. d \in 0..Len(s) - 1
    BY <2>2
  <2>4. PICK i \in 1..Len(s) : i < Len(s) - d /\ s[i] = s[Len(s) - d]
    BY <2>2
  <2>5. i \in 1..Len(s) - 1 /\ i + 1 \in 1..Len(s)
    BY <1>1, <2>3, <2>4
  <2>6. s[i + 1] = nx[s[Len(s) - d]]
    BY <1>1, <2>4, <2>5
  <2>7. CASE d = 0
    <3>1. nx[s[Len(s)]] = Nil
      BY <1>1, <2>5 DEF Chain, After
    <3>2. s[i + 1] = Nil
      BY <1>1, <2>6, <2>7, <3>1
    <3> QED
      BY <1>1, <2>5, <3>2, AddressAssumption
  <2>8. CASE d # 0
    <3>1. /\ d - 1 \in 0..Len(s) - 1 /\ ~(d <= d - 1)
          /\ Len(s) - d \in 1..Len(s) - 1 /\ (Len(s) - d) + 1 = Len(s) - (d - 1)
          /\ i + 1 < Len(s) - (d - 1)
      BY <1>1, <2>3, <2>4, <2>8
    <3>2. s[i + 1] = s[Len(s) - (d - 1)]
      BY <1>1, <2>6, <3>1
    <3>3. d - 1 \in Twice
      BY <2>5, <3>1, <3>2
    <3> QED
      BY <2>2, <3>1, <3>3
  <2> QED
    BY <2>7, <2>8
<1>3. ASSUME NEW i \in 1..Len(s), NEW j \in 1..Len(s), i < j, s[i] = s[j] PROVE FALSE
  <2>1. Len(s) - j \in 0..Len(s) - 1 /\ Len(s) - (Len(s) - j) = j
    BY <1>1
  <2>2. Len(s) - j \in Twice
    BY <1>3, <2>1
  <2> QED
    BY <1>2, <2>2
<1>4. \A i, j \in 1..Len(s) : i < j \/ j < i \/ i = j
  OBVIOUS
<1> HIDE DEF Twice
<1> QED
  BY <1>3, <1>4

(* So it is one of the walks that TLC tries, whatever the heap. *)
LEMMA DistinctFits ==
    ASSUME NEW s \in Seq(Address), \A i, j \in 1..Len(s) : s[i] = s[j] => i = j
    PROVE  s \in Walks \cup {<<>>} /\ Len(s) <= Cardinality(Address)
<1>1. Len(s) \in Nat /\ s \in [1..Len(s) -> Address]
  OBVIOUS
<1>2. s \in Injection(1..Len(s), Address)
  BY <1>1 DEF Injection, IsInjective
<1>3. Cardinality(1..Len(s)) <= Cardinality(Address)
  BY <1>2, AddressAssumption, FS_Injection
<1>4. Cardinality(1..Len(s)) = Len(s)
  <2>1. Cardinality(1..Len(s)) = IF 1 > Len(s) THEN 0 ELSE Len(s) - 1 + 1
    BY <1>1, FS_Interval
  <2> QED
    BY <1>1, <2>1
<1>5. Cardinality(Address) \in Nat
  BY AddressAssumption, FS_CardinalityType
<1>6. CASE Len(s) = 0
  BY <1>1, <1>3, <1>4, <1>6
<1>7. CASE Len(s) # 0
  <2>1. Len(s) \in 1..Cardinality(Address)
    BY <1>1, <1>3, <1>4, <1>5, <1>7
  <2>2. s \in Walks
    BY <1>1, <2>1 DEF Walks
  <2> QED
    BY <1>3, <1>4, <2>2
<1> QED
  BY <1>6, <1>7

(* Every walk TLC tries is a sequence of nodes. *)
LEMMA WalksAreSequences == ASSUME NEW s \in Walks \cup {<<>>} PROVE s \in Seq(Address)
<1>1. CASE s \in Walks
  <2>1. PICK k \in 1..Cardinality(Address) : s \in [1..k -> Address]
    BY <1>1 DEF Walks
  <2>2. k \in Nat
    BY AddressAssumption, FS_CardinalityType
  <2> QED
    BY <2>1, <2>2
<1>2. CASE s = <<>>
  BY <1>2
<1> QED
  BY <1>1, <1>2
-----------------------------------------------------------------------------
(***************************************************************************)
(* The sorted list.                                                        *)
(***************************************************************************)
Ascending(s, val) == \A i, j \in 1..Len(s) : i <= j => val[s[i]] <= val[s[j]]

(* s is what dump prints: allocated nodes up to null, in order. *)
SortedAs(s) == Chain(s, head, next) /\ NodesOf(s) \subseteq live /\ Ascending(s, value)

(* The inductive invariant: head_ leads along such a list to null. *)
SortedInv == Sorted!TypeOK /\ \E s : SortedAs(s)

LEMMA SameWalks == Sorted!Walks = Walks
<1>1. Sorted!Cardinality(Address) = Cardinality(Address)
  BY Zenon DEF Cardinality, Sorted!Cardinality
<1> QED
  BY <1>1, Zenon DEF Walks, Sorted!Walks

(* Where the loops of add_node and del_node stand. *)
LEMMA PassedIsPart ==
    ASSUME NEW w, w \in Sorted!Walks \cup {<<>>}, NEW W
    PROVE  /\ w \in Seq(Address)
           /\ Sorted!Stop(w) = After(w, head, next, Len(w))
           /\ Sorted!Passed(w, W) <=>
                /\ Part(w, head, next)
                /\ \A i \in 1..Len(w) : value[w[i]] \notin W
                /\ After(w, head, next, Len(w)) # Nil => value[After(w, head, next, Len(w))] \in W
<1>1. w \in Walks \cup {<<>>}
  BY SameWalks
<1>2. w \in Seq(Address) /\ Len(w) \in Nat /\ (w = <<>> <=> Len(w) = 0)
  BY <1>1, WalksAreSequences
<1>3. Sorted!Stop(w) = After(w, head, next, Len(w))
  BY <1>2 DEF After, Sorted!Stop
<1>4. (w # <<>> => Sorted!Follows(w, head, next)) <=> Part(w, head, next)
  <2>1. CASE w = <<>>
    <3>1. 0..Len(w) - 1 = {}
      BY <1>2, <2>1
    <3> QED
      BY <1>2, <2>1, <3>1 DEF Part
  <2>2. CASE w # <<>>
    <3>1. \A k \in 0..Len(w) - 1 : k = 0 \/ k \in 1..Len(w) - 1
      BY <1>2
    <3>2. 0 \in 0..Len(w) - 1 /\ 0 + 1 = 1 /\ \A i \in 1..Len(w) - 1 : i \in 0..Len(w) - 1 /\ i # 0
      BY <1>2, <2>2
    <3>3. ASSUME Sorted!Follows(w, head, next) PROVE Part(w, head, next)
      BY <1>2, <3>1, <3>2, <3>3 DEF Part, After, Sorted!Follows
    <3>4. ASSUME Part(w, head, next) PROVE Sorted!Follows(w, head, next)
      BY <1>2, <3>2, <3>4 DEF Part, After, Sorted!Follows
    <3> QED
      BY <2>2, <3>3, <3>4
  <2> QED
    BY <2>1, <2>2
<1> QED
  BY <1>2, <1>3, <1>4 DEF Sorted!Passed

(* A list is the list dump prints. *)
LEMMA ListIsChain == \A s : Chain(s, head, next) => Sorted!IsList(s) /\ Sorted!List = s /\ s \in Sorted!Walks \cup {<<>>}
<1> SUFFICES ASSUME NEW s, Chain(s, head, next)
             PROVE  Sorted!IsList(s) /\ Sorted!List = s /\ s \in Sorted!Walks \cup {<<>>}
  OBVIOUS
<1>1. s \in Sorted!Walks \cup {<<>>}
  <2>1. s \in Walks \cup {<<>>}
    BY ChainDistinct, DistinctFits DEF Chain, Part
  <2> QED
    BY <2>1, SameWalks
<1>2. \A w \in Sorted!Walks \cup {<<>>} : Sorted!IsList(w) <=> Chain(w, head, next)
  <2> TAKE w \in Sorted!Walks \cup {<<>>}
  <2>1. Sorted!Passed(w, {}) <=> Part(w, head, next) /\ (After(w, head, next, Len(w)) # Nil => FALSE)
    BY PassedIsPart
  <2>2. Sorted!Stop(w) = After(w, head, next, Len(w))
    BY PassedIsPart
  <2> QED
    BY <2>1, <2>2 DEF Chain, Sorted!IsList
<1>3. \A w \in Sorted!Walks \cup {<<>>} : Sorted!IsList(w) <=> w = s
  BY <1>1, <1>2, ChainUnique
<1>4. Sorted!List = s
  BY <1>1, <1>3 DEF Sorted!List
<1> QED
  BY <1>1, <1>3, <1>4

(* The same after a step. *)
LEMMA ListIsChainThen == (\A s : Chain(s, head, next) => Sorted!IsList(s) /\ Sorted!List = s /\ s \in Sorted!Walks \cup {<<>>})'
BY ListIsChain, PTL

(* Where a loop leaves the list. *)
LEMMA PassedOfList ==
    ASSUME Sorted!TypeOK, NEW s, SortedAs(s), NEW w \in Sorted!Walks \cup {<<>>}, NEW W, Sorted!Passed(w, W)
    PROVE  /\ Len(w) \in 0..Len(s) /\ (w = <<>> <=> Len(w) = 0)
           /\ \A i \in 1..Len(w) : w[i] = s[i] /\ value[s[i]] \notin W
           /\ Sorted!Stop(w) = IF Len(w) = Len(s) THEN Nil ELSE s[Len(w) + 1]
           /\ Len(w) # Len(s) => Len(w) + 1 \in 1..Len(s) /\ value[s[Len(w) + 1]] \in W
<1>1. /\ w \in Seq(Address) /\ Part(w, head, next) /\ Sorted!Stop(w) = After(w, head, next, Len(w))
      /\ \A i \in 1..Len(w) : value[w[i]] \notin W
      /\ Sorted!Stop(w) # Nil => value[Sorted!Stop(w)] \in W
  BY PassedIsPart
<1>2. Len(s) \in Nat /\ Len(w) \in Nat /\ \A i \in 1..Len(s) : s[i] \in Address
  BY <1>1, PartNodes DEF SortedAs, Chain
<1>3. Len(w) <= Len(s) /\ (\A i \in 1..Len(w) : w[i] = s[i]) /\ Sorted!Stop(w) = After(s, head, next, Len(w))
  BY <1>1, PartOfChain DEF SortedAs
<1>4. CASE Len(w) = Len(s)
  BY <1>1, <1>2, <1>3, <1>4 DEF SortedAs, Chain
<1>5. CASE Len(w) # Len(s)
  <2>1. Len(w) \in 0..Len(s) - 1 /\ Len(w) + 1 \in 1..Len(s)
    BY <1>2, <1>3, <1>5
  <2>2. Sorted!Stop(w) = s[Len(w) + 1]
    BY <1>3, <2>1 DEF SortedAs, Chain, Part
  <2>3. s[Len(w) + 1] # Nil
    BY <1>2, <2>1, AddressAssumption
  <2> QED
    BY <1>1, <1>2, <1>3, <1>5, <2>1, <2>2, <2>3
<1> QED
  BY <1>4, <1>5

(* add_node makes an ascending list of an ascending list, and cuts off what *)
(* is behind the new node unless that is the first.                         *)
LEMMA AddNodeKeeps ==
    ASSUME Sorted!TypeOK, NEW s, SortedAs(s), NEW n \in Address, NEW v \in Number, Sorted!add_node(n, v),
           Number \subseteq Int
    PROVE  Sorted!TypeOK' /\ \E t : SortedAs(t)' /\ Sorted!Inserted(n, s, t)
<1> DEFINE W == {x \in Number : x >= v}
<1>1. /\ n \notin live /\ live' = live \cup {n} /\ value' = [value EXCEPT ![n] = v]
      /\ \E w \in Sorted!Walks \cup {<<>>} :
           /\ Sorted!Passed(w, W)
           /\ IF Sorted!Stop(w) = head
                THEN head' = n /\ next' = [next EXCEPT ![n] = head]
                ELSE head' = head /\ next' = [next EXCEPT ![n] = Nil, ![w[Len(w)]] = n]
  BY DEF Sorted!add_node
<1>2. PICK w \in Sorted!Walks \cup {<<>>} :
           /\ Sorted!Passed(w, W)
           /\ IF Sorted!Stop(w) = head
                THEN head' = n /\ next' = [next EXCEPT ![n] = head]
                ELSE head' = head /\ next' = [next EXCEPT ![n] = Nil, ![w[Len(w)]] = n]
  BY <1>1
<1> DEFINE k == Len(w)
<1>3. /\ k \in 0..Len(s) /\ \A i \in 1..k : w[i] = s[i] /\ value[s[i]] \notin W
      /\ Sorted!Stop(w) = IF k = Len(s) THEN Nil ELSE s[k + 1]
      /\ k # Len(s) => k + 1 \in 1..Len(s) /\ value[s[k + 1]] \in W
  BY <1>2, PassedOfList
<1>4. /\ Len(s) \in Nat /\ s \in Seq(Address) /\ \A i \in 1..Len(s) : s[i] \in Address
      /\ Len(s) # 0 => head = s[1] /\ 1 \in 1..Len(s)
      /\ Len(s) = 0 => head = Nil
      /\ \A i \in 1..Len(s) - 1 : next[s[i]] = s[i + 1] /\ i + 1 \in 1..Len(s)
      /\ Len(s) # 0 => next[s[Len(s)]] = Nil
      /\ \A i, j \in 1..Len(s) : s[i] = s[j] => i = j
  <2>1. Part(s, head, next) /\ s \in Seq(Address) /\ After(s, head, next, Len(s)) = Nil
    BY DEF SortedAs, Chain, Part
  <2>2. \A i, j \in 1..Len(s) : s[i] = s[j] => i = j
    BY ChainDistinct DEF SortedAs
  <2> QED
    BY <2>1, <2>2, PartNodes DEF After
<1>5. \A i \in 1..Len(s) : s[i] \in live /\ s[i] # n /\ value'[s[i]] = value[s[i]] /\ value[s[i]] \in Int
  <2> TAKE i \in 1..Len(s)
  <2>1. s[i] \in live
    BY DEF SortedAs, NodesOf
  <2>2. s[i] # n /\ s[i] \in Address
    BY <1>1, <1>4, <2>1
  <2> QED
    BY <1>1, <2>1, <2>2 DEF Sorted!TypeOK
<1>6. value'[n] = v /\ v \in Int
  BY <1>1 DEF Sorted!TypeOK
<1>7. \A i, j \in 1..Len(s) : i <= j => value[s[i]] <= value[s[j]]
  BY DEF SortedAs, Ascending
<1>8. \A i \in 1..Len(s) : value[s[i]] < v <=> i <= k
  <2>1. ASSUME NEW i \in 1..Len(s), i <= k PROVE value[s[i]] < v
    <3>1. i \in 1..k
      BY <1>3, <2>1
    <3>2. value[s[i]] \notin W /\ value[s[i]] \in Number
      BY <1>3, <1>4, <3>1 DEF Sorted!TypeOK
    <3> QED
      BY <1>5, <1>6, <3>2
  <2>2. ASSUME NEW i \in 1..Len(s), ~(i <= k) PROVE ~(value[s[i]] < v)
    <3>1. k # Len(s) /\ k + 1 \in 1..Len(s) /\ k + 1 <= i
      BY <1>3, <1>4, <2>2
    <3>2. value[s[k + 1]] >= v
      BY <1>3, <3>1
    <3>3. value[s[k + 1]] <= value[s[i]]
      BY <1>7, <3>1
    <3> QED
      BY <1>5, <1>6, <3>1, <3>2, <3>3
  <2> QED
    BY <2>1, <2>2
<1>9. Sorted!Stop(w) = head <=> k = 0
  BY <1>3, <1>4, AddressAssumption
<1>10. Sorted!TypeOK'
  BY <1>1, <1>2, <1>4 DEF Sorted!TypeOK
<1> HIDE DEF W
<1>11. CASE k = 0
  <2> DEFINE t == <<n>> \o s
  <2>1. t \in Seq(Address) /\ Len(t) = Len(s) + 1 /\ t[1] = n /\ \A i \in 1..Len(s) : t[i + 1] = s[i]
    BY <1>4
  <2>2. \A i \in 1..Len(t) : i = 1 \/ (i - 1 \in 1..Len(s) /\ t[i] = s[i - 1])
    <3>1. \A i \in 1..Len(t) : i = 1 \/ (i - 1 \in 1..Len(s) /\ (i - 1) + 1 = i)
      BY <1>4, <2>1
    <3> QED
      BY <2>1, <3>1
  <2> HIDE DEF t
  <2>3. head' = n /\ next'[n] = head /\ \A i \in 1..Len(s) : next'[s[i]] = next[s[i]]
    BY <1>2, <1>4, <1>5, <1>9, <1>11 DEF Sorted!TypeOK
  <2>4. Part(t, head', next')
    <3> SUFFICES ASSUME NEW j \in 0..Len(t) - 1 PROVE After(t, head', next', j) = t[j + 1]
      BY <2>1 DEF Part
    <3>1. CASE j = 0
      BY <2>1, <2>3, <3>1 DEF After
    <3>2. CASE j # 0
      <4>1. j \in 1..Len(t) /\ j \in 1..Len(s) /\ t[j + 1] = s[j]
        BY <1>4, <2>1, <3>2
      <4>2. CASE j = 1
        <5>1. t[j] = n
          BY <2>1, <4>2
        <5>2. next'[n] = s[1]
          BY <1>4, <2>3, <4>1
        <5> QED
          BY <4>1, <4>2, <5>1, <5>2 DEF After
      <4>3. CASE j # 1
        <5>1. j - 1 \in 1..Len(s) - 1 /\ j - 1 \in 1..Len(s) /\ (j - 1) + 1 = j /\ t[j] = s[j - 1]
          BY <1>4, <2>2, <4>1, <4>3
        <5>2. next'[t[j]] = s[j]
          BY <1>4, <2>3, <5>1
        <5> QED
          BY <3>2, <4>1, <5>2 DEF After
      <4> QED
        BY <4>2, <4>3
    <3> QED
      BY <3>1, <3>2
  <2>5. After(t, head', next', Len(t)) = Nil
    <3>1. Len(t) # 0 /\ Len(t) \in 1..Len(t)
      BY <1>4, <2>1
    <3>2. CASE Len(s) = 0
      <4>1. t[Len(t)] = n
        BY <2>1, <3>2
      <4> QED
        BY <1>4, <2>3, <3>1, <3>2, <4>1 DEF After
    <3>3. CASE Len(s) # 0
      <4>1. Len(s) \in 1..Len(s) /\ t[Len(t)] = s[Len(s)]
        BY <1>4, <2>1, <3>3
      <4> QED
        BY <1>4, <2>3, <3>1, <3>3, <4>1 DEF After
    <3> QED
      BY <3>2, <3>3
  <2>6. NodesOf(t) \subseteq live'
    BY <1>1, <1>5, <2>1, <2>2 DEF NodesOf
  <2>7. Ascending(t, value')
    <3> SUFFICES ASSUME NEW i \in 1..Len(t), NEW j \in 1..Len(t), i <= j
                 PROVE  value'[t[i]] <= value'[t[j]]
      BY DEF Ascending
    <3>1. CASE j = 1
      <4>1. i = 1
        BY <3>1
      <4> QED
        BY <1>6, <2>1, <3>1, <4>1
    <3>2. CASE j # 1 /\ i = 1
      <4>1. j - 1 \in 1..Len(s) /\ t[j] = s[j - 1] /\ ~(j - 1 <= k)
        BY <1>11, <2>2, <3>2
      <4> QED
        BY <1>5, <1>6, <1>8, <2>1, <3>2, <4>1
    <3>3. CASE j # 1 /\ i # 1
      <4>1. j - 1 \in 1..Len(s) /\ t[j] = s[j - 1] /\ i - 1 \in 1..Len(s) /\ t[i] = s[i - 1] /\ i - 1 <= j - 1
        BY <2>2, <3>3
      <4> QED
        BY <1>5, <1>7, <4>1
    <3> QED
      BY <3>1, <3>2, <3>3
  <2>8. Sorted!Inserted(n, s, t)
    BY <1>3, <1>5, <1>6, <1>8, <1>11 DEF Sorted!Inserted, t
  <2> QED
    BY <1>10, <2>4, <2>5, <2>6, <2>7, <2>8 DEF SortedAs, Chain
<1>12. CASE k # 0
  <2> DEFINE t == SubSeq(s, 1, k) \o <<n>>
  <2>0. k \in Nat /\ k \in 1..Len(s) /\ k \in 1..k /\ w[k] = s[k]
    BY <1>3, <1>4, <1>12
  <2>1. t \in Seq(Address) /\ Len(t) = k + 1 /\ t[k + 1] = n /\ \A i \in 1..k : t[i] = s[i]
    <3>1. SubSeq(s, 1, k) \in Seq(Address) /\ Len(SubSeq(s, 1, k)) = k /\ \A i \in 1..k : SubSeq(s, 1, k)[i] = s[i]
      BY <1>4, <2>0
    <3> QED
      BY <3>1, <2>0
  <2>2. \A i \in 1..Len(t) : (i = k + 1 /\ t[i] = n) \/ (i \in 1..k /\ i \in 1..Len(s) /\ t[i] = s[i])
    BY <1>4, <2>0, <2>1
  <2> HIDE DEF t
  <2>3. /\ head' = head /\ next'[n] = Nil /\ next'[s[k]] = n
        /\ \A i \in 1..Len(s) : i # k => next'[s[i]] = next[s[i]]
    <3>1. head' = head /\ next' = [next EXCEPT ![n] = Nil, ![s[k]] = n] /\ s[k] # n
      BY <1>2, <1>5, <1>9, <1>12, <2>0
    <3>2. \A i \in 1..Len(s) : i # k => s[i] # s[k]
      BY <1>4, <2>0
    <3> QED
      BY <1>4, <1>5, <2>0, <3>1, <3>2 DEF Sorted!TypeOK
  <2>4. Part(t, head', next')
    <3> SUFFICES ASSUME NEW j \in 0..Len(t) - 1 PROVE After(t, head', next', j) = t[j + 1]
      BY <2>1 DEF Part
    <3>1. CASE j = 0
      <4>1. 1 \in 1..k
        BY <2>0
      <4> QED
        BY <1>4, <2>0, <2>1, <2>3, <3>1, <4>1 DEF After
    <3>2. CASE j # 0
      <4>1. j \in 1..k /\ j \in 1..Len(s) /\ t[j] = s[j]
        BY <1>4, <2>0, <2>1, <3>2
      <4>2. CASE j = k
        BY <2>1, <2>3, <3>2, <4>1, <4>2 DEF After
      <4>3. CASE j # k
        <5>1. j \in 1..Len(s) - 1 /\ j + 1 \in 1..k
          BY <1>4, <2>0, <4>1, <4>3
        <5>2. next'[s[j]] = s[j + 1] /\ t[j + 1] = s[j + 1]
          BY <1>4, <2>1, <2>3, <4>1, <4>3, <5>1
        <5> QED
          BY <3>2, <4>1, <5>2 DEF After
      <4> QED
        BY <4>2, <4>3
    <3> QED
      BY <3>1, <3>2
  <2>5. After(t, head', next', Len(t)) = Nil
    BY <2>0, <2>1, <2>3 DEF After
  <2>6. NodesOf(t) \subseteq live'
    BY <1>1, <1>5, <2>2 DEF NodesOf
  <2>7. Ascending(t, value')
    <3> SUFFICES ASSUME NEW i \in 1..Len(t), NEW j \in 1..Len(t), i <= j
                 PROVE  value'[t[i]] <= value'[t[j]]
      BY DEF Ascending
    <3>1. CASE i = k + 1
      <4>1. j = k + 1
        BY <2>1, <2>0, <3>1
      <4> QED
        BY <1>6, <2>1, <3>1, <4>1
    <3>2. CASE i # k + 1 /\ j = k + 1
      <4>1. i \in 1..Len(s) /\ t[i] = s[i] /\ i <= k
        BY <2>2, <3>2
      <4> QED
        BY <1>5, <1>6, <1>8, <2>1, <3>2, <4>1
    <3>3. CASE i # k + 1 /\ j # k + 1
      <4>1. j \in 1..Len(s) /\ t[j] = s[j] /\ i \in 1..Len(s) /\ t[i] = s[i]
        BY <2>2, <3>3
      <4> QED
        BY <1>5, <1>7, <4>1
    <3> QED
      BY <3>1, <3>2, <3>3
  <2>8. Sorted!Inserted(n, s, t)
    BY <1>3, <1>5, <1>6, <1>8, <1>12 DEF Sorted!Inserted, t
  <2> QED
    BY <1>10, <2>4, <2>5, <2>6, <2>7, <2>8 DEF SortedAs, Chain
<1> QED
  BY <1>11, <1>12

(* del_node takes one node out of an ascending list. *)
LEMMA DelNodeKeeps ==
    ASSUME Sorted!TypeOK, NEW s, SortedAs(s), NEW v \in Number, Sorted!del_node(v)
    PROVE  /\ Sorted!TypeOK' /\ live' \subseteq live
           /\ \E t : SortedAs(t)' /\ \A n \in live \ live' : Sorted!Deleted(n, s, t)
<1>1. PICK w \in Sorted!Walks \cup {<<>>} :
         /\ Sorted!Passed(w, {v})
         /\ Sorted!Stop(w) # Nil
         /\ IF w = <<>>
              THEN head' = next[head] /\ next' = next
              ELSE next' = [next EXCEPT ![w[Len(w)]] = next[Sorted!Stop(w)]] /\ head' = head
         /\ live' = live \ {Sorted!Stop(w)}
  BY DEF Sorted!del_node
<1> DEFINE k == Len(w)
           x == s[k + 1]
<1>2. value' = value
  BY DEF Sorted!del_node
<1>3. /\ k \in 0..Len(s) /\ (w = <<>> <=> k = 0) /\ k # Len(s) /\ k + 1 \in 1..Len(s)
      /\ \A i \in 1..k : w[i] = s[i]
      /\ Sorted!Stop(w) = x
  BY <1>1, PassedOfList
<1>4. /\ Len(s) \in Nat /\ s \in Seq(Address) /\ \A i \in 1..Len(s) : s[i] \in Address
      /\ head = s[1] /\ 1 \in 1..Len(s)
      /\ \A i \in 1..Len(s) - 1 : next[s[i]] = s[i + 1] /\ i + 1 \in 1..Len(s)
      /\ next[s[Len(s)]] = Nil /\ Len(s) \in 1..Len(s)
      /\ \A i, j \in 1..Len(s) : s[i] = s[j] => i = j
  <2>1. Part(s, head, next) /\ s \in Seq(Address) /\ After(s, head, next, Len(s)) = Nil
    BY DEF SortedAs, Chain, Part
  <2>2. \A i, j \in 1..Len(s) : s[i] = s[j] => i = j
    BY ChainDistinct DEF SortedAs
  <2>3. Len(s) # 0 /\ Len(s) \in Nat
    BY <1>3, <2>1
  <2> QED
    BY <2>1, <2>2, <2>3, PartNodes DEF After
<1>5. \A i \in 1..Len(s) : s[i] \in live
  BY DEF SortedAs, NodesOf
<1>6. \A i, j \in 1..Len(s) : i <= j => value[s[i]] <= value[s[j]]
  BY DEF SortedAs, Ascending
<1>7. k \in Nat /\ k <= Len(s) - 1
  BY <1>3, <1>4
<1>8. /\ k = 0 => head' = next[x] /\ next' = next
      /\ k # 0 => head' = head /\ next' = [next EXCEPT ![s[k]] = next[x]] /\ k \in 1..Len(s) /\ k \in 1..k
  <2>1. CASE k = 0
    <3>1. w = <<>> /\ x = s[1]
      BY <1>3, <2>1
    <3>2. head' = next[head] /\ next' = next
      BY <1>1, <3>1, Zenon
    <3> QED
      BY <1>4, <2>1, <3>1, <3>2
  <2>2. CASE k # 0
    <3>1. w # <<>> /\ w[k] = s[k] /\ k \in 1..Len(s) /\ k \in 1..k
      BY <1>3, <1>4, <1>7, <2>2
    <3>2. next' = [next EXCEPT ![w[k]] = next[Sorted!Stop(w)]] /\ head' = head
      <4>1. w # <<>>
        BY <3>1
      <4> QED
        BY <1>1, <4>1, Zenon
    <3> QED
      BY <1>3, <2>2, <3>1, <3>2
  <2> QED
    BY <2>1, <2>2
<1>9. /\ k # 0 => next'[s[k]] = next[x]
      /\ \A i \in 1..Len(s) : i # k => next'[s[i]] = next[s[i]]
  <2>1. k # 0 => \A i \in 1..Len(s) : i # k => s[i] # s[k]
    BY <1>4, <1>8
  <2> QED
    BY <1>4, <1>8, <2>1 DEF Sorted!TypeOK
<1>10. live' = live \ {x}
  BY <1>1, <1>3
<1>11. Sorted!TypeOK'
  BY <1>2, <1>3, <1>4, <1>8, <1>10 DEF Sorted!TypeOK
<1> DEFINE a == SubSeq(s, 1, k)
           b == SubSeq(s, k + 2, Len(s))
           t == a \o b
<1>12. a \in Seq(Address) /\ Len(a) = k /\ \A i \in 1..k : a[i] = s[i]
  BY <1>4, <1>7
<1>13. b \in Seq(Address) /\ Len(b) = Len(s) - (k + 1) /\ \A i \in 1..Len(s) - (k + 1) : b[i] = s[i + k + 1]
  <2>1. k + 2 \in 1..Len(s) + 1 /\ (k + 2 <= Len(s) \/ k + 2 = Len(s) + 1)
    BY <1>4, <1>7
  <2>2. \A i \in k + 2..Len(s) : i \in 1..Len(s)
    BY <1>4, <1>7
  <2> QED
    BY <1>4, <1>7, <2>1, <2>2
<1> HIDE DEF a, b
<1>14. /\ t \in Seq(Address) /\ Len(t) = Len(s) - 1
       /\ \A i \in 1..Len(t) : t[i] = IF i <= k THEN s[i] ELSE s[i + 1]
  <2>1. t \in Seq(Address) /\ Len(t) = Len(a) + Len(b)
        /\ \A i \in 1..Len(t) : t[i] = IF i <= Len(a) THEN a[i] ELSE b[i - Len(a)]
    <3>1. a \in Seq(Address) /\ b \in Seq(Address)
      BY <1>12, <1>13
    <3> QED
      BY ONLY <3>1, ConcatProperties
  <2>2. Len(t) = Len(s) - 1
    BY <1>4, <1>7, <1>12, <1>13, <2>1
  <2>3. ASSUME NEW i \in 1..Len(t), i <= k PROVE t[i] = s[i]
    BY <1>7, <1>12, <2>1, <2>3
  <2>4. ASSUME NEW i \in 1..Len(t), ~(i <= k) PROVE t[i] = s[i + 1]
    <3>1. i - k \in 1..Len(s) - (k + 1) /\ (i - k) + k + 1 = i + 1
      BY <1>4, <1>7, <2>2, <2>4
    <3> QED
      BY <1>12, <1>13, <2>1, <2>4, <3>1
  <2> QED
    BY <2>1, <2>2, <2>3, <2>4
<1> HIDE DEF t
<1>15. \A i \in 1..Len(t) : /\ i \in 1..Len(s) /\ i + 1 \in 1..Len(s) /\ i \in 1..Len(s) - 1
                            /\ IF i <= k THEN t[i] = s[i] ELSE t[i] = s[i + 1]
  BY <1>4, <1>14
<1>16. \A j \in 0..Len(t) : After(t, head', next', j) = IF j < k THEN s[j + 1] ELSE next[s[j + 1]]
  <2> TAKE j \in 0..Len(t)
  <2>1. j \in Nat /\ j + 1 \in 1..Len(s)
    BY <1>4, <1>14
  <2>2. CASE j = 0
    <3>1. CASE k = 0
      BY <1>8, <2>2, <3>1 DEF After
    <3>2. CASE k # 0
      BY <1>4, <1>7, <1>8, <2>2, <3>2 DEF After
    <3> QED
      BY <3>1, <3>2
  <2>3. CASE j # 0
    <3>1. j \in 1..Len(t) /\ j \in 1..Len(s) - 1 /\ j \in 1..Len(s) /\ After(t, head', next', j) = next'[t[j]]
      BY <1>15, <2>1, <2>3 DEF After
    <3>2. CASE j < k
      <4>1. t[j] = s[j] /\ next'[s[j]] = next[s[j]]
        BY <1>7, <1>9, <1>15, <3>1, <3>2
      <4> QED
        BY <1>4, <3>1, <3>2, <4>1
    <3>3. CASE j = k
      <4>1. t[j] = s[k] /\ next'[s[k]] = next[x] /\ x = s[j + 1]
        BY <1>7, <1>9, <1>15, <2>3, <3>1, <3>3
      <4> QED
        BY <1>7, <3>1, <3>3, <4>1
    <3>4. CASE j > k
      <4>1. t[j] = s[j + 1] /\ j + 1 # k
        BY <1>7, <1>15, <2>1, <3>1, <3>4
      <4>2. next'[s[j + 1]] = next[s[j + 1]]
        BY <1>9, <2>1, <4>1
      <4> QED
        BY <1>7, <2>1, <3>1, <3>4, <4>1, <4>2
    <3> QED
      BY <1>7, <2>1, <3>2, <3>3, <3>4
  <2> QED
    BY <2>2, <2>3
<1>17. Chain(t, head', next')
  <2>1. ASSUME NEW j \in 0..Len(t) - 1 PROVE After(t, head', next', j) = t[j + 1]
    <3>1. j \in 0..Len(t) /\ j + 1 \in 1..Len(t) /\ j + 1 \in 1..Len(s) - 1 /\ j \in Nat
      BY <1>4, <1>14
    <3>2. next[s[j + 1]] = s[(j + 1) + 1]
      BY <1>4, <3>1
    <3>3. CASE j < k
      BY <1>7, <1>15, <1>16, <3>1, <3>3
    <3>4. CASE ~(j < k)
      BY <1>7, <1>15, <1>16, <3>1, <3>2, <3>4
    <3> QED
      BY <3>3, <3>4
  <2>2. Len(t) \in 0..Len(t) /\ Len(t) + 1 = Len(s) /\ ~(Len(t) < k)
    BY <1>4, <1>7, <1>14
  <2>3. After(t, head', next', Len(t)) = Nil
    BY <1>4, <1>16, <2>2
  <2> QED
    BY <1>14, <2>1, <2>3 DEF Chain, Part
<1>18. NodesOf(t) \subseteq live'
  <2>1. ASSUME NEW i \in 1..Len(t) PROVE t[i] \in live /\ t[i] # x
    <3>1. CASE i <= k
      BY <1>3, <1>4, <1>5, <1>7, <1>15, <3>1
    <3>2. CASE ~(i <= k)
      <4>1. t[i] = s[i + 1] /\ i + 1 \in 1..Len(s) /\ i + 1 # k + 1
        BY <1>7, <1>15, <3>2
      <4> QED
        BY <1>3, <1>4, <1>5, <4>1
    <3> QED
      BY <3>1, <3>2
  <2> QED
    BY <1>10, <2>1 DEF NodesOf
<1>19. Ascending(t, value')
  <2> SUFFICES ASSUME NEW i \in 1..Len(t), NEW j \in 1..Len(t), i <= j
               PROVE  value[t[i]] <= value[t[j]]
    BY <1>2 DEF Ascending
  <2>1. PICK p \in 1..Len(s) : t[i] = s[p] /\ p = IF i <= k THEN i ELSE i + 1
    BY <1>15
  <2>2. PICK q \in 1..Len(s) : t[j] = s[q] /\ q = IF j <= k THEN j ELSE j + 1
    BY <1>15
  <2>3. p <= q
    BY <1>7, <2>1, <2>2
  <2> QED
    BY <1>6, <2>1, <2>2, <2>3
<1>20. Sorted!Deleted(x, s, t)
  <2>1. (k + 1) - 1 = k /\ (k + 1) + 1 = k + 2
    BY <1>7
  <2> QED
    BY <1>3, <2>1 DEF Sorted!Deleted, t, a, b
<1>21. \A n \in live \ live' : Sorted!Deleted(n, s, t)
  BY <1>10, <1>20
<1> QED
  BY <1>10, <1>11, <1>17, <1>18, <1>19, <1>21 DEF SortedAs

(* Every operation of the sorted list keeps the invariant, and loses nothing *)
(* but what an insertion cuts off.                                           *)
LEMMA SortedOperation ==
    ASSUME Sorted!NumberAssumption, SortedInv, Sorted!Next
    PROVE  SortedInv' /\ Sorted!Cuts
<1>1. PICK s : SortedAs(s)
  BY DEF SortedInv
<1>2. Sorted!TypeOK /\ Number \subseteq Int
  BY DEF SortedInv, Sorted!NumberAssumption
<1>3. ASSUME NEW t, SortedAs(t)',
             \A n \in live' \ live : Sorted!Inserted(n, s, t),
             \A n \in live \ live' : Sorted!Deleted(n, s, t)
      PROVE  Sorted!Cuts
  <2>1. Sorted!List = s
    BY <1>1, ListIsChain DEF SortedAs
  <2>2. Sorted!List' = t
    BY <1>3, ListIsChainThen DEF SortedAs
  <2> QED
    BY <1>3, <2>1, <2>2 DEF Sorted!Cuts
<1>4. CASE \E v \in Number, n \in Address : Sorted!add_node(n, v)
  <2>1. PICK v \in Number, n \in Address : Sorted!add_node(n, v)
    BY <1>4
  <2>2. live' = live \cup {n}
    BY <2>1 DEF Sorted!add_node
  <2>3. PICK t : SortedAs(t)' /\ Sorted!Inserted(n, s, t)
    BY <1>1, <1>2, <2>1, AddNodeKeeps
  <2>4. Sorted!TypeOK'
    BY <1>1, <1>2, <2>1, AddNodeKeeps
  <2>5. Sorted!Cuts
    BY <1>3, <2>2, <2>3
  <2> QED
    BY <2>3, <2>4, <2>5 DEF SortedInv
<1>5. CASE \E v \in Number : Sorted!del_node(v)
  <2>1. PICK v \in Number : Sorted!del_node(v)
    BY <1>5
  <2>2. Sorted!TypeOK' /\ live' \subseteq live
    BY <1>1, <1>2, <2>1, DelNodeKeeps
  <2>3. PICK t : SortedAs(t)' /\ \A n \in live \ live' : Sorted!Deleted(n, s, t)
    BY <1>1, <1>2, <2>1, DelNodeKeeps
  <2>4. Sorted!Cuts
    BY <1>3, <2>2, <2>3
  <2> QED
    BY <2>2, <2>3, <2>4 DEF SortedInv
<1> QED
  BY <1>4, <1>5 DEF Sorted!Next

(* A step of the sorted list, or of nothing. *)
LEMMA SortedInvNext == ASSUME Sorted!NumberAssumption PROVE SortedInv /\ [Sorted!Next]_(Sorted!vars) => SortedInv'
<1> SUFFICES ASSUME SortedInv, [Sorted!Next]_(Sorted!vars) PROVE SortedInv'
  OBVIOUS
<1>1. CASE UNCHANGED Sorted!vars
  <2>1. live' = live /\ value' = value /\ next' = next /\ head' = head
    BY <1>1 DEF Sorted!vars
  <2>2. ASSUME NEW s, SortedAs(s) PROVE SortedAs(s)'
    BY <2>1, <2>2 DEF SortedAs
  <2> QED
    BY <2>1, <2>2 DEF SortedInv, Sorted!TypeOK
<1> QED
  BY <1>1, SortedOperation

(* The program starts with an empty list. *)
LEMMA SortedInvInit == ASSUME Sorted!NumberAssumption PROVE Sorted!Init => SortedInv
<1> SUFFICES ASSUME Sorted!Init PROVE SortedInv
  OBVIOUS
<1>1. Sorted!TypeOK
  <2>1. (CHOOSE v \in Number : TRUE) \in Number
    BY DEF Sorted!NumberAssumption
  <2> QED
    BY <2>1 DEF Sorted!Init, Sorted!TypeOK
<1>2. <<>> \in Seq(Address) /\ Len(<<>>) = 0
  OBVIOUS
<1>3. Chain(<<>>, head, next)
  <2>1. 0..Len(<<>>) - 1 = {}
    BY <1>2
  <2> QED
    BY <1>2, <2>1 DEF Sorted!Init, Chain, Part, After
<1>4. NodesOf(<<>>) \subseteq live /\ Ascending(<<>>, value)
  BY <1>2 DEF NodesOf, Ascending
<1> QED
  BY <1>1, <1>3, <1>4 DEF SortedInv, SortedAs

(* After any operations dump comes to an end, meets no deleted node, and     *)
(* prints ascending values.                                                  *)
LEMMA SortedInvAscends == SortedInv => Sorted!Ascends
<1> SUFFICES ASSUME SortedInv PROVE Sorted!Ascends
  OBVIOUS
<1>1. PICK s : SortedAs(s)
  BY DEF SortedInv
<1>2. Sorted!IsList(s) /\ Sorted!List = s /\ s \in Sorted!Walks \cup {<<>>}
  BY <1>1, ListIsChain DEF SortedAs
<1>3. Sorted!NodesOf(s) \subseteq live
  BY <1>1 DEF SortedAs, NodesOf, Sorted!NodesOf
<1>4. \A i \in 1..Len(s) - 1 : value[s[i]] <= value[s[i + 1]]
  <2>1. Len(s) \in Nat
    BY <1>1, PartNodes DEF SortedAs, Chain
  <2>2. \A i \in 1..Len(s) - 1 : i \in 1..Len(s) /\ i + 1 \in 1..Len(s) /\ i <= i + 1
    BY <2>1
  <2> QED
    BY <1>1, <2>2 DEF SortedAs, Ascending
<1> QED
  BY <1>2, <1>3, <1>4 DEF Sorted!Ascends
-----------------------------------------------------------------------------
(***************************************************************************)
(* The skip list.  A level is described by the set S of its nodes: nx leads *)
(* from each of them, and from Root, to the one with the next greater value.*)
(***************************************************************************)
Below(m, v, val) == m = Root \/ val[m] < v

IsNext(S, m, x, val) ==
    \/ x = Nil /\ \A y \in S : ~Below(m, val[y], val)
    \/ x \in S /\ Below(m, val[x], val) /\ \A y \in S : Below(m, val[y], val) => val[x] <= val[y]

LevelAs(S, nx, val) ==
    /\ \A x, y \in S : val[x] = val[y] => x = y
    /\ \A m \in S \cup {Root} : IsNext(S, m, nx[m], val)

(* Where a loop stops that looks for v: nothing smaller is left ahead.       *)
StopsAt(S, nx, val, m, v) ==
    /\ m \in S \cup {Root} /\ Below(m, v, val)
    /\ nx[m] # Nil => ~(val[nx[m]] < v)

(* What every lemma about a level takes for granted. *)
Heap(S, val) ==
    /\ Root \notin Address \cup {Nil}
    /\ S \subseteq Address
    /\ \A m \in S : val[m] \in Int

(* There is one such place. *)
LEMMA StopUnique ==
    ASSUME NEW S, NEW val, NEW nx, NEW v \in Int, Heap(S, val), LevelAs(S, nx, val),
           NEW a, NEW b, StopsAt(S, nx, val, a, v), StopsAt(S, nx, val, b, v)
    PROVE  a = b
<1>1. ASSUME NEW c, NEW d, StopsAt(S, nx, val, c, v), StopsAt(S, nx, val, d, v), d \in S, Below(c, val[d], val)
      PROVE  FALSE
  <2>1. IsNext(S, c, nx[c], val) /\ val[d] < v /\ d # Root
    BY <1>1 DEF LevelAs, StopsAt, Heap, Below
  <2>2. nx[c] # Nil /\ nx[c] \in S /\ val[nx[c]] <= val[d]
    BY <1>1, <2>1, AddressAssumption DEF IsNext, Heap
  <2> QED
    BY <1>1, <2>1, <2>2 DEF StopsAt, Heap
<1>2. a \in S \cup {Root} /\ b \in S \cup {Root}
  BY DEF StopsAt
<1>3. CASE a = Root /\ b = Root
  BY <1>3
<1>4. CASE a \in S /\ Below(b, val[a], val)
  BY <1>1, <1>4
<1>5. CASE b \in S /\ Below(a, val[b], val)
  BY <1>1, <1>5
<1>6. CASE a \in S /\ b \in S /\ val[a] = val[b]
  BY <1>6 DEF LevelAs
<1> QED
  BY <1>2, <1>3, <1>4, <1>5, <1>6 DEF Below, Heap

(* If v is on the level it is what comes next there. *)
LEMMA StopBefore ==
    ASSUME NEW S, NEW val, NEW nx, NEW v \in Int, Heap(S, val), LevelAs(S, nx, val),
           NEW a, StopsAt(S, nx, val, a, v)
    PROVE  /\ nx[a] \in S \cup {Nil}
           /\ \A y \in S : val[y] = v => nx[a] = y
<1>1. IsNext(S, a, nx[a], val)
  BY DEF LevelAs, StopsAt
<1>2. nx[a] \in S \cup {Nil}
  BY <1>1 DEF IsNext
<1>3. ASSUME NEW y \in S, val[y] = v PROVE nx[a] = y
  <2>1. Below(a, val[y], val)
    BY <1>3 DEF StopsAt
  <2>2. nx[a] \in S /\ val[nx[a]] <= val[y] /\ nx[a] # Nil
    BY <1>1, <2>1, AddressAssumption DEF IsNext, Heap
  <2>3. val[nx[a]] = val[y]
    BY <1>3, <2>2 DEF StopsAt, Heap
  <2> QED
    BY <2>2, <2>3 DEF LevelAs
<1> QED
  BY <1>2, <1>3

(* A node put where the search for its value stopped. *)
LEMMA LevelInsert ==
    ASSUME NEW S, NEW val, NEW nx, Heap(S, val), LevelAs(S, nx, val),
           NEW n \in Address, n \notin S, NEW new, new[n] \in Int, \A m \in S : new[m] = val[m],
           NEW a, StopsAt(S, nx, val, a, new[n]), nx[a] # Nil => val[nx[a]] # new[n],
           NEW ny, ny[n] = nx[a], ny[a] = n, \A m \in (S \cup {Root}) \ {a} : ny[m] = nx[m]
    PROVE  LevelAs(S \cup {n}, ny, new)
<1>1. /\ a \in S \cup {Root} /\ Below(a, new[n], val) /\ a # n /\ n # Root
      /\ nx[a] \in S \cup {Nil}
      /\ \A y \in S : val[y] # new[n]
      /\ \A m \in S : val[m] \in Int /\ m # Root
      /\ Nil \notin S
  BY StopBefore, AddressAssumption DEF StopsAt, Heap
<1>2. \A m \in S \cup {Root} : IsNext(S, m, nx[m], val)
  BY DEF LevelAs
<1>3. nx[a] # Nil => nx[a] \in S /\ new[n] < val[nx[a]]
  BY <1>1 DEF StopsAt
<1>4. \A x, y \in S \cup {n} : new[x] = new[y] => x = y
  BY <1>1 DEF LevelAs
<1>5. IsNext(S \cup {n}, n, ny[n], new)
  <2>1. IsNext(S, a, nx[a], val)
    BY <1>1, <1>2
  <2>2. CASE nx[a] = Nil
    <3>1. \A y \in S : ~Below(a, val[y], val)
      BY <1>1, <2>1, <2>2 DEF IsNext
    <3>2. \A y \in S : ~(new[n] < val[y])
      BY <1>1, <3>1 DEF Below
    <3> QED
      BY <1>1, <2>2, <3>2 DEF IsNext, Below
  <2>3. CASE nx[a] # Nil
    <3>1. \A y \in S : Below(a, val[y], val) => val[nx[a]] <= val[y]
      BY <1>1, <2>1, <2>3 DEF IsNext
    <3>2. \A y \in S : new[n] < val[y] => val[nx[a]] <= val[y]
      BY <1>1, <3>1 DEF Below
    <3> QED
      BY <1>1, <1>3, <2>3, <3>2 DEF IsNext, Below
  <2> QED
    BY <2>2, <2>3
<1>6. IsNext(S \cup {n}, a, ny[a], new)
  <2>1. IsNext(S, a, nx[a], val)
    BY <1>1, <1>2
  <2>2. Below(a, new[n], new)
    BY <1>1 DEF Below
  <2>3. ASSUME NEW y \in S, Below(a, new[y], new) PROVE new[n] <= new[y]
    <3>1. Below(a, val[y], val)
      BY <1>1, <2>3 DEF Below
    <3>2. nx[a] # Nil /\ val[nx[a]] <= val[y]
      BY <1>1, <2>1, <3>1 DEF IsNext
    <3> QED
      BY <1>1, <1>3, <3>2
  <2> QED
    BY <2>2, <2>3 DEF IsNext
<1>7. ASSUME NEW m \in (S \cup {Root}) \ {a} PROVE IsNext(S \cup {n}, m, ny[m], new)
  <2>1. IsNext(S, m, nx[m], val) /\ ny[m] = nx[m]
    BY <1>2, <1>7
  <2>2. ~(m = Root /\ a = Root)
    BY <1>7
  <2>3. CASE Below(m, new[n], val)
    <3>1. a \in S /\ Below(m, val[a], val)
      <4>1. CASE a = Root
        <5>1. m \in S /\ Below(a, val[m], val)
          BY <1>7, <4>1 DEF Below
        <5>2. nx[a] # Nil /\ val[nx[a]] <= val[m]
          BY <1>1, <1>2, <5>1 DEF IsNext
        <5> QED
          BY <1>1, <1>3, <2>3, <5>1, <5>2 DEF Below
      <4>2. CASE a # Root
        <5>1. a \in S
          BY <1>1, <4>2
        <5>2. CASE m \in S /\ val[a] < val[m]
          <6>1. nx[a] # Nil /\ val[nx[a]] <= val[m]
            BY <1>1, <1>2, <5>2 DEF IsNext, Below
          <6> QED
            BY <1>1, <1>3, <2>3, <5>2, <6>1 DEF Below
        <5>3. CASE m \in S /\ val[a] = val[m]
          BY <1>7, <5>1, <5>3 DEF LevelAs
        <5> QED
          BY <1>1, <1>7, <5>1, <5>2, <5>3 DEF Below
      <4> QED
        BY <4>1, <4>2
    <3>2. nx[m] \in S /\ val[nx[m]] <= val[a] /\ val[a] < new[n]
      BY <1>1, <2>1, <3>1 DEF IsNext, Below
    <3>3. val[nx[m]] <= new[n]
      BY <1>1, <3>1, <3>2
    <3>4. Below(m, new[nx[m]], new)
      BY <1>1, <2>1, <3>2, <1>7 DEF IsNext, Below
    <3>5. ASSUME NEW y \in S, Below(m, new[y], new) PROVE new[nx[m]] <= new[y]
      BY <1>1, <1>7, <2>1, <3>2, <3>5 DEF IsNext, Below
    <3> QED
      BY <2>1, <3>2, <3>3, <3>4, <3>5 DEF IsNext
  <2>4. CASE ~Below(m, new[n], val)
    <3>1. m \in S /\ m # Root /\ new[m] = val[m]
      BY <1>1, <1>7, <2>4 DEF Below
    <3>2. ~Below(m, new[n], new)
      BY <2>4, <3>1 DEF Below
    <3>3. \A y \in S : Below(m, new[y], new) <=> Below(m, val[y], val)
      BY <3>1 DEF Below
    <3> QED
      BY <2>1, <3>2, <3>3 DEF IsNext
  <2> QED
    BY <2>3, <2>4
<1> QED
  BY <1>4, <1>5, <1>6, <1>7 DEF LevelAs

(* The node with the value v taken out. *)
LEMMA LevelDelete ==
    ASSUME NEW S, NEW val, NEW nx, NEW v \in Int, Heap(S, val), LevelAs(S, nx, val),
           NEW a, StopsAt(S, nx, val, a, v), nx[a] # Nil, val[nx[a]] = v,
           NEW ny, ny[a] = nx[nx[a]], \A m \in (S \cup {Root}) \ {a} : ny[m] = nx[m]
    PROVE  LevelAs(S \ {nx[a]}, ny, val)
<1> DEFINE x == nx[a]
<1>1. /\ x \in S /\ val[x] = v /\ a \in S \cup {Root} /\ a # x /\ x # Root /\ Below(a, v, val)
      /\ \A m \in S : val[m] \in Int /\ m # Root
      /\ Nil \notin S
  BY StopBefore, AddressAssumption DEF StopsAt, Heap, Below
<1>2. \A m \in S \cup {Root} : IsNext(S, m, nx[m], val)
  BY DEF LevelAs
<1>3. IsNext(S \ {x}, a, ny[a], val)
  <2>1. IsNext(S, a, x, val) /\ IsNext(S, x, nx[x], val)
    BY <1>1, <1>2
  <2>2. \A y \in S \ {x} : Below(a, val[y], val) <=> Below(x, val[y], val)
    <3> TAKE y \in S \ {x}
    <3>1. val[y] # val[x]
      BY <1>1 DEF LevelAs
    <3>2. Below(a, val[y], val) => val[x] <= val[y]
      BY <1>1, <2>1 DEF IsNext
    <3> QED
      BY <1>1, <3>1, <3>2 DEF Below
  <2>3. nx[x] # x
    BY <1>1, <2>1 DEF IsNext, Below
  <2> QED
    BY <1>1, <2>1, <2>2, <2>3 DEF IsNext
<1>4. ASSUME NEW m \in (S \cup {Root}) \ {a, x} PROVE IsNext(S \ {x}, m, ny[m], val)
  <2>1. IsNext(S, m, nx[m], val) /\ IsNext(S, a, x, val) /\ ny[m] = nx[m]
    BY <1>1, <1>2, <1>4
  <2>2. nx[m] # x
    <3> SUFFICES ASSUME nx[m] = x PROVE FALSE
      OBVIOUS
    <3>1. Below(m, v, val) /\ \A y \in S : Below(m, val[y], val) => v <= val[y]
      BY <1>1, <2>1 DEF IsNext
    <3>2. StopsAt(S, nx, val, m, v)
      BY <1>1, <1>4, <3>1 DEF StopsAt
    <3> QED
      BY <1>4, <3>2, StopUnique
  <2> QED
    BY <2>1, <2>2 DEF IsNext
<1> QED
  BY <1>1, <1>3, <1>4 DEF LevelAs
-----------------------------------------------------------------------------
(***************************************************************************)
(* The loops of the skip list.  A loop that goes from m to f[m] as long as *)
(* m is not in Stop ends, if at all, at the only place in Stop that is in  *)
(* every set that has m in it and is closed under the steps of the loop.   *)
(***************************************************************************)
ClosedUnder(C, f, Stop) == \A m \in C \ Stop : f[m] \in C
Ends(D, f, Stop, m) == {x \in Stop : \A C \in SUBSET D : m \in C /\ ClosedUnder(C, f, Stop) => x \in C}

(* What a loop comes to from each place in D, by what it says of itself. *)
IsLoop(g, D, f, Stop) == g = [m \in D |-> IF m \in Stop THEN m ELSE g[f[m]]]

(* There is such a function. *)
LEMMA LoopHasEnd ==
    ASSUME NEW D, NEW f, NEW Stop, Stop \subseteq D, \A m \in D \ Stop : f[m] \in D
    PROVE  \E g : IsLoop(g, D, f, Stop)
<1>1. ASSUME NEW m \in Stop PROVE Ends(D, f, Stop, m) = {m}
  <2>1. {m} \in SUBSET D /\ ClosedUnder({m}, f, Stop)
    BY <1>1 DEF ClosedUnder
  <2> QED
    BY <2>1, <1>1 DEF Ends
<1>2. ASSUME NEW m \in D \ Stop PROVE Ends(D, f, Stop, m) = Ends(D, f, Stop, f[m])
  <2>1. ASSUME NEW x \in Ends(D, f, Stop, f[m]) PROVE x \in Ends(D, f, Stop, m)
    BY <1>2, <2>1 DEF Ends, ClosedUnder
  <2>2. ASSUME NEW x \in Ends(D, f, Stop, m) PROVE x \in Ends(D, f, Stop, f[m])
    <3> SUFFICES ASSUME NEW C \in SUBSET D, f[m] \in C, ClosedUnder(C, f, Stop) PROVE x \in C
      BY <2>2 DEF Ends
    <3>1. C \cup {m} \in SUBSET D /\ m \in C \cup {m} /\ ClosedUnder(C \cup {m}, f, Stop)
      BY DEF ClosedUnder
    <3>2. x \in C \cup {m} /\ x \in Stop
      BY <2>2, <3>1 DEF Ends
    <3> QED
      BY <1>2, <3>2
  <2> QED
    BY <2>1, <2>2
<1> DEFINE g == [m \in D |-> CHOOSE x : x \in Ends(D, f, Stop, m)]
<1>3. ASSUME NEW m \in D PROVE g[m] = IF m \in Stop THEN m ELSE g[f[m]]
  <2>1. CASE m \in Stop
    BY <1>1, <2>1
  <2>2. CASE m \notin Stop
    <3>1. f[m] \in D /\ Ends(D, f, Stop, m) = Ends(D, f, Stop, f[m])
      BY <1>2, <2>2
    <3> QED
      BY <2>2, <3>1
  <2> QED
    BY <2>1, <2>2
<1>4. g = [m \in D |-> IF m \in Stop THEN m ELSE g[f[m]]]
  BY <1>3
<1> QED
  BY <1>4 DEF IsLoop

(* Next of every node on level i. *)
OnLevel(i) == [m \in DOMAIN next |-> next[m][i]]

(* S[i] is the set of the nodes on level i, which are on the level below. *)
LevelsAs(S) ==
    /\ S \in [Skip!Levels -> SUBSET live]
    /\ \A i \in Skip!Levels : LevelAs(S[i], OnLevel(i), value)
    /\ \A i \in Skip!Levels : i > 0 => S[i] \subseteq S[i - 1]

(* A loop on level i that starts below v goes on until nothing smaller than *)
(* v is ahead.                                                              *)
LEMMA AdvanceStops ==
    ASSUME Skip!SkipAssumption, Skip!TypeOK, NEW i \in Skip!Levels, NEW S \in SUBSET live, LevelAs(S, OnLevel(i), value),
           NEW v \in Number, NEW cur \in S \cup {Root}, Below(cur, v, value)
    PROVE  StopsAt(S, OnLevel(i), value, Skip!Advance(cur, i, v), v)
<1> DEFINE nx == OnLevel(i)
           D == DOMAIN next
           Stop == {m \in D : ~(nx[m] # Nil /\ value[nx[m]] < v)}
<1>1. /\ D = Address \cup {Root} /\ nx \in [D -> Address \cup {Nil}]
      /\ \A m \in D : nx[m] = next[m][i]
  BY DEF Skip!TypeOK, OnLevel
<1>2. /\ v \in Int /\ Heap(S, value) /\ S \subseteq D
      /\ \A m \in D : value[m] \in Int
  BY <1>1 DEF Skip!SkipAssumption, Skip!TypeOK, Heap
<1>3. PICK g : IsLoop(g, D, nx, Stop)
  <2>1. Stop \subseteq D /\ \A m \in D \ Stop : nx[m] \in D
    BY <1>1
  <2> HIDE DEF nx, D, Stop
  <2> QED
    BY <2>1, LoopHasEnd
<1> DEFINE Loop(h) == h = [m \in D |-> IF next[m][i] # Nil /\ value[next[m][i]] < v THEN h[next[m][i]] ELSE m]
<1>4. Loop(g)
  <2>1. \A m \in D : g[m] = IF next[m][i] # Nil /\ value[next[m][i]] < v THEN g[next[m][i]] ELSE m
    BY <1>1, <1>3 DEF IsLoop
  <2> QED
    BY <1>3, <2>1 DEF IsLoop
<1> DEFINE at == CHOOSE h : Loop(h)
<1>5. Loop(at)
  <2> HIDE DEF Loop
  <2> QED
    BY <1>4
<1>6. Skip!Advance(cur, i, v) = at[cur]
  BY DEF Skip!Advance
<1> HIDE DEF at
<1>7. \A m \in D : at[m] = IF nx[m] # Nil /\ value[nx[m]] < v THEN at[nx[m]] ELSE m
  BY <1>1, <1>5
<1> DEFINE Ahead(m) == {y \in S : Below(m, value[y], value)}
           Bad == {m \in S \cup {Root} : Below(m, v, value) /\ ~StopsAt(S, nx, value, at[m], v)}
<1>8. \A m \in S \cup {Root} : IsFiniteSet(Ahead(m)) /\ Cardinality(Ahead(m)) \in Nat
  <2>1. IsFiniteSet(S)
    BY AddressAssumption, FS_Subset DEF Skip!TypeOK
  <2>2. \A m \in S \cup {Root} : Ahead(m) \subseteq S
    OBVIOUS
  <2> HIDE DEF Ahead
  <2> QED
    BY <2>1, <2>2, FS_Subset, FS_CardinalityType
<1>9. ASSUME NEW m \in Bad
      PROVE  \E k \in Bad : Cardinality(Ahead(k)) < Cardinality(Ahead(m))
  <2>1. m \in D /\ m \in S \cup {Root} /\ Below(m, v, value)
    BY <1>1, <1>2, <1>9
  <2>2. nx[m] # Nil /\ value[nx[m]] < v /\ at[m] = at[nx[m]]
    BY <1>7, <1>9, <2>1 DEF StopsAt
  <2>3. IsNext(S, m, nx[m], value)
    BY <2>1 DEF LevelAs
  <2>4. nx[m] \in S /\ Below(m, value[nx[m]], value)
    BY <2>2, <2>3 DEF IsNext
  <2>5. nx[m] \in Bad
    BY <1>9, <2>2, <2>4 DEF Below
  <2>6. Ahead(nx[m]) \subseteq Ahead(m) /\ nx[m] \in Ahead(m) /\ nx[m] \notin Ahead(nx[m])
    BY <1>2, <2>1, <2>4 DEF Below, Heap
  <2>7. Cardinality(Ahead(nx[m])) < Cardinality(Ahead(m))
    <3>1. Ahead(nx[m]) # Ahead(m)
      BY <2>6
    <3>2. IsFiniteSet(Ahead(m)) /\ Ahead(nx[m]) \subseteq Ahead(m)
      BY <1>8, <2>1, <2>6
    <3>3. Cardinality(Ahead(nx[m])) \in Nat /\ Cardinality(Ahead(m)) \in Nat
      BY <1>8, <2>1, <2>4
    <3> HIDE DEF Ahead
    <3>4. Cardinality(Ahead(nx[m])) <= Cardinality(Ahead(m)) /\ (Cardinality(Ahead(nx[m])) = Cardinality(Ahead(m)) => Ahead(nx[m]) = Ahead(m))
      BY <3>2, FS_Subset
    <3> QED
      BY <3>1, <3>3, <3>4
  <2> QED
    BY <2>5, <2>7
<1>10. Bad = {}
  <2> SUFFICES ASSUME Bad # {} PROVE FALSE
    OBVIOUS
  <2> DEFINE T == {Cardinality(Ahead(m)) : m \in Bad}
  <2>1. T \in SUBSET Nat /\ T # {}
    BY <1>8
  <2>2. PICK x \in T : \A y \in T : x <= y
    <3> HIDE DEF T
    <3> QED
      BY <2>1, Least
  <2>3. PICK m \in Bad : x = Cardinality(Ahead(m))
    BY <2>2
  <2>4. PICK k \in Bad : Cardinality(Ahead(k)) < x
    BY <1>9, <2>3
  <2>5. Cardinality(Ahead(k)) \in T
    OBVIOUS
  <2>6. Cardinality(Ahead(k)) \in Nat /\ x \in Nat
    BY <2>1, <2>2, <2>5
  <2> HIDE DEF T, Ahead, Bad
  <2> QED
    BY <2>2, <2>4, <2>5, <2>6
<1> QED
  BY <1>6, <1>10

(* On the way down every level is left where nothing smaller is ahead. *)
LEMMA DescentStops ==
    ASSUME Skip!SkipAssumption, Skip!TypeOK, NEW S, LevelsAs(S), NEW v \in Number, NEW top \in Skip!Levels
    PROVE  \A i \in 0..top : StopsAt(S[i], OnLevel(i), value, Skip!Descent(top, v)[i], v)
<1>1. top \in Nat /\ \A i \in 0..top : i \in Skip!Levels /\ S[i] \in SUBSET live
  BY DEF Skip!Levels, Skip!SkipAssumption, LevelsAs
<1>2. \A i \in 0..top : v \in Int /\ Heap(S[i], value) /\ LevelAs(S[i], OnLevel(i), value)
  BY <1>1 DEF LevelsAs, Skip!SkipAssumption, Skip!TypeOK, Heap
<1> DEFINE stop == [i \in 0..top |-> Skip!Advance(Root, i, v)]
           Down(h) == h = [i \in 0..top |-> Skip!Advance(IF i = top THEN Root ELSE h[i + 1], i, v)]
<1>3. ASSUME NEW i \in 0..top, NEW m \in S[i] \cup {Root}, Below(m, v, value)
      PROVE  StopsAt(S[i], OnLevel(i), value, Skip!Advance(m, i, v), v)
  BY <1>1, <1>2, <1>3, AdvanceStops
<1>4. \A i \in 0..top : StopsAt(S[i], OnLevel(i), value, stop[i], v)
  BY <1>3 DEF Below
<1>5. ASSUME NEW i \in 0..top, NEW m \in S[i] \cup {Root}, Below(m, v, value) PROVE Skip!Advance(m, i, v) = stop[i]
  BY <1>2, <1>3, <1>4, <1>5, StopUnique
<1>6. ASSUME NEW i \in 0..top, i # top
      PROVE  /\ i + 1 \in 0..top
             /\ stop[i + 1] \in S[i] \cup {Root} /\ Below(stop[i + 1], v, value)
  <2>1. i + 1 \in 0..top /\ i + 1 > 0 /\ (i + 1) - 1 = i
    BY <1>1, <1>6
  <2>2. S[i + 1] \subseteq S[i]
    BY <1>1, <2>1 DEF LevelsAs
  <2> QED
    BY <1>4, <2>1, <2>2 DEF StopsAt
<1>7. Down(stop)
  <2>1. \A i \in 0..top : stop[i] = Skip!Advance(IF i = top THEN Root ELSE stop[i + 1], i, v)
    <3> TAKE i \in 0..top
    <3>1. CASE i = top
      BY <3>1
    <3>2. CASE i # top
      <4> HIDE DEF stop
      <4> QED
        BY <1>5, <1>6, <3>2
    <3> QED
      BY <3>1, <3>2
  <2> QED
    BY <2>1
<1> DEFINE at == CHOOSE h : Down(h)
<1>8. Down(at)
  <2> HIDE DEF Down
  <2> QED
    BY <1>7
<1>9. Skip!Descent(top, v) = at
  BY DEF Skip!Descent
<1> HIDE DEF at, stop
<1>10. \A i \in 0..top : at[i] = Skip!Advance(IF i = top THEN Root ELSE at[i + 1], i, v)
  BY <1>8
<1> DEFINE Off == {d \in 0..top : at[top - d] # stop[top - d]}
<1>11. Off = {}
  <2> SUFFICES ASSUME Off # {} PROVE FALSE
    OBVIOUS
  <2>1. Off \in SUBSET Nat
    OBVIOUS
  <2>2. PICK d \in Off : \A y \in Off : d <= y
    <3> HIDE DEF Off
    <3> QED
      BY <2>1, Least
  <2>3. d \in 0..top /\ top - d \in 0..top /\ at[top - d] # stop[top - d]
    BY <1>1, <2>2
  <2>4. CASE d = 0
    <3>1. top - d = top
      BY <1>1, <2>4
    <3>2. at[top] = Skip!Advance(Root, top, v)
      BY <1>1, <1>10
    <3> QED
      BY <2>3, <3>1, <3>2 DEF stop
  <2>5. CASE d # 0
    <3>1. d - 1 \in 0..top /\ top - (d - 1) = (top - d) + 1 /\ ~(d <= d - 1) /\ top - d # top
      BY <1>1, <2>3, <2>5
    <3>2. at[(top - d) + 1] = stop[(top - d) + 1]
      BY <2>2, <3>1
    <3>3. at[top - d] = Skip!Advance(stop[(top - d) + 1], top - d, v)
      BY <1>10, <2>3, <3>1, <3>2
    <3>4. Skip!Advance(stop[(top - d) + 1], top - d, v) = stop[top - d]
      BY <1>5, <1>6, <2>3, <3>1
    <3> QED
      BY <2>3, <3>3, <3>4
  <2> QED
    BY <2>4, <2>5
<1>12. \A i \in 0..top : at[i] = stop[i]
  <2> TAKE i \in 0..top
  <2>1. top - i \in 0..top /\ top - (top - i) = i
    BY <1>1
  <2> QED
    BY <1>11, <2>1
<1> QED
  BY <1>4, <1>9, <1>12

(* The inductive invariant: until the program is stuck or in undefined       *)
(* behaviour all nodes of level 0 but one are on level 1, and a node that is *)
(* not allocated has been on no level.                                       *)
SkipShape(S) ==
    /\ LevelsAs(S)
    /\ \E x : S[0] \subseteq S[1] \cup {x}
    /\ \A m \in Address \ live : next[m] = Skip!NullLevels
SkipInv == Skip!TypeOK /\ (status = "ok" => \E S : SkipShape(S))

(* A node is on every level below the highest one it is on. *)
LEMMA LevelsNested ==
    ASSUME Skip!SkipAssumption, NEW S, LevelsAs(S), NEW i \in Skip!Levels, NEW j \in Skip!Levels, i <= j
    PROVE  S[j] \subseteq S[i]
<1>1. i \in Nat /\ j \in Nat /\ \A k \in i..j : k \in Skip!Levels
  BY DEF Skip!Levels, Skip!SkipAssumption
<1> DEFINE Out == {k \in i..j : ~(S[k] \subseteq S[i])}
<1>2. Out = {}
  <2> SUFFICES ASSUME Out # {} PROVE FALSE
    OBVIOUS
  <2>1. Out \in SUBSET Nat
    BY <1>1
  <2>2. PICK k \in Out : \A y \in Out : k <= y
    <3> HIDE DEF Out
    <3> QED
      BY <2>1, Least
  <2>3. k # i /\ k \in Skip!Levels /\ k > 0 /\ k - 1 \in i..j /\ ~(k <= k - 1)
    BY <1>1, <2>2
  <2>4. S[k] \subseteq S[k - 1] /\ S[k - 1] \subseteq S[i]
    BY <2>2, <2>3 DEF LevelsAs
  <2> QED
    BY <2>2, <2>4
<1>3. j \in i..j
  BY <1>1
<1> QED
  BY <1>2, <1>3

(* A level that an operation leaves alone. *)
LEMMA LevelSame ==
    ASSUME NEW S, NEW val, NEW nx, Heap(S, val), LevelAs(S, nx, val),
           NEW new, \A m \in S : new[m] = val[m],
           NEW ny, \A m \in S \cup {Root} : ny[m] = nx[m]
    PROVE  LevelAs(S, ny, new)
BY DEF LevelAs, IsNext, Below, Heap

(* What the levels are made of. *)
LEMMA LevelFacts ==
    ASSUME Skip!SkipAssumption, Skip!TypeOK, NEW S, LevelsAs(S)
    PROVE  /\ MaxLevel \in Nat /\ 0 \in Skip!Levels /\ 1 \in Skip!Levels /\ MaxLevel - 1 \in Skip!Levels
           /\ \A i \in Skip!Levels : i \in Nat /\ i < MaxLevel
           /\ Root \notin Address \cup {Nil} /\ Number \subseteq Int /\ Skip!NullLevels = [i \in Skip!Levels |-> Nil]
           /\ \A i \in Skip!Levels : /\ S[i] \subseteq live /\ S[i] \subseteq Address
                                     /\ Heap(S[i], value) /\ LevelAs(S[i], OnLevel(i), value)
           /\ DOMAIN next = Address \cup {Root}
           /\ \A i \in Skip!Levels, m \in Address \cup {Root} : OnLevel(i)[m] = next[m][i]
<1>1. MaxLevel \in Nat /\ MaxLevel >= 2 /\ Root \notin Address \cup {Nil} /\ Number \subseteq Int
  BY DEF Skip!SkipAssumption
<1>2. \A i \in Skip!Levels : /\ S[i] \subseteq live /\ S[i] \subseteq Address
                             /\ LevelAs(S[i], OnLevel(i), value)
  BY DEF LevelsAs, Skip!TypeOK
<1>3. \A i \in Skip!Levels : Heap(S[i], value)
  BY <1>1, <1>2 DEF Heap, Skip!TypeOK
<1>4. DOMAIN next = Address \cup {Root}
  BY DEF Skip!TypeOK
<1>5. /\ 0 \in Skip!Levels /\ 1 \in Skip!Levels /\ MaxLevel - 1 \in Skip!Levels
      /\ \A i \in Skip!Levels : i \in Nat /\ i < MaxLevel
  BY <1>1 DEF Skip!Levels
<1>6. \A i \in Skip!Levels, m \in Address \cup {Root} : OnLevel(i)[m] = next[m][i]
  BY <1>4 DEF OnLevel
<1> QED
  BY <1>1, <1>2, <1>3, <1>4, <1>5, <1>6 DEF Skip!NullLevels

(* The first node of an empty list. *)
LEMMA SkipAddFirstKeeps ==
    ASSUME Skip!SkipAssumption, Skip!TypeOK, NEW S, SkipShape(S),
           NEW n \in Address, NEW v \in Number, NEW level \in Skip!choose_level, Skip!add_first(n, v, level)
    PROVE  /\ Skip!TypeOK' /\ n \in live' \ live
           /\ status' = "ok" =>
                 \E T : /\ SkipShape(T)' /\ T[0] = S[0] \cup {n} /\ value'[n] = v
                        /\ \A m \in S[0] : value'[m] = value[m] /\ value[m] # v
<1>1. /\ Skip!is_empty /\ n \notin live /\ live' = live \cup {n} /\ value' = [value EXCEPT ![n] = v]
      /\ \/ /\ next' = [next EXCEPT ![Root] = [i \in Skip!Levels |-> IF i < level THEN n ELSE next[Root][i]]]
            /\ level <= MaxLevel /\ status' = "ok"
         \/ status' = "undefined" /\ next' = next
  BY DEF Skip!add_first, Skip!New
<1>2. LevelsAs(S)
  BY DEF SkipShape
<1>3. Skip!TypeOK'
  BY <1>1 DEF Skip!TypeOK
<1>4. CASE status' = "ok"
  <2>1. next' = [next EXCEPT ![Root] = [i \in Skip!Levels |-> IF i < level THEN n ELSE next[Root][i]]]
    BY <1>1, <1>4
  <2>2. S[0] = {}
    <3>1. IsNext(S[0], Root, Nil, value)
      BY <1>1, <1>2, LevelFacts DEF LevelAs, Skip!is_empty
    <3> QED
      BY <1>2, <3>1, LevelFacts, AddressAssumption DEF IsNext, Below
  <2>3. \A i \in Skip!Levels : S[i] = {}
    <3> TAKE i \in Skip!Levels
    <3>1. 0 <= i /\ 0 \in Skip!Levels
      BY <1>2, LevelFacts
    <3> QED
      BY <1>2, <2>2, <3>1, LevelsNested
  <2>4. \A i \in Skip!Levels : next[Root][i] = Nil
    <3> TAKE i \in Skip!Levels
    <3>1. IsNext(S[i], Root, next[Root][i], value)
      BY <1>2, LevelFacts DEF LevelAs
    <3> QED
      BY <2>3, <3>1 DEF IsNext
  <2>5. n # Root /\ Nil # n /\ next[n] = Skip!NullLevels /\ level \in Nat /\ level >= 1
    BY <1>1, <1>2, LevelFacts, AddressAssumption DEF SkipShape, Skip!choose_level
  <2> DEFINE T == [i \in Skip!Levels |-> IF i < level THEN {n} ELSE {}]
  <2>6. /\ DOMAIN next' = Address \cup {Root}
        /\ \A i \in Skip!Levels, m \in Address \cup {Root} : OnLevel(i)'[m] = next'[m][i]
        /\ \A i \in Skip!Levels : next'[n][i] = Nil /\ next'[Root][i] = IF i < level THEN n ELSE Nil
    BY <1>2, <2>1, <2>4, <2>5, LevelFacts DEF OnLevel, Skip!TypeOK
  <2>7. T \in [Skip!Levels -> SUBSET live'] /\ \A i \in Skip!Levels : i > 0 => T[i] \subseteq T[i - 1]
    <3>1. T \in [Skip!Levels -> SUBSET live']
      BY <1>1
    <3>2. ASSUME NEW i \in Skip!Levels, i > 0 PROVE T[i] \subseteq T[i - 1]
      <4>1. i - 1 \in Skip!Levels /\ i \in Nat /\ (i < level => i - 1 < level)
        BY <1>2, <2>5, <3>2, LevelFacts DEF Skip!Levels
      <4> QED
        BY <4>1
    <3> QED
      BY <3>1, <3>2
  <2>8. ASSUME NEW i \in Skip!Levels PROVE LevelAs(T[i], OnLevel(i)', value')
    <3>1. CASE i < level
      <4>1. value'[n] = v /\ v \in Int
        BY <1>1, <1>2, LevelFacts DEF Skip!TypeOK
      <4>2. IsNext({n}, n, Nil, value') /\ IsNext({n}, Root, n, value')
        BY <2>5, <4>1 DEF IsNext, Below
      <4> QED
        BY <2>6, <3>1, <4>2 DEF LevelAs
    <3>2. CASE ~(i < level)
      BY <2>6, <3>2 DEF LevelAs, IsNext
    <3> QED
      BY <3>1, <3>2
  <2>9. LevelsAs(T)'
    BY <2>7, <2>8 DEF LevelsAs
  <2>10. \A m \in Address \ live' : next'[m] = Skip!NullLevels
    <3> TAKE m \in Address \ live'
    <3>1. m \in Address \ live /\ m # Root
      BY <1>1, <1>2, LevelFacts
    <3> QED
      BY <2>1, <3>1 DEF SkipShape, Skip!TypeOK
  <2>11. T[0] = {n}
    BY <1>2, <2>5, LevelFacts
  <2>12. SkipShape(T)'
    BY <2>9, <2>10, <2>11 DEF SkipShape, Skip!NullLevels, Skip!Levels
  <2>13. value'[n] = v
    BY <1>1 DEF Skip!TypeOK
  <2> QED
    BY <1>1, <1>3, <2>2, <2>11, <2>12, <2>13
<1> QED
  BY <1>1, <1>3, <1>4

(* A further node, on the levels up to level.                                *)
LEMMA SkipAddNodeKeeps ==
    ASSUME Skip!SkipAssumption, Skip!TypeOK, NEW S, SkipShape(S),
           NEW n \in Address, NEW v \in Number, NEW level \in Skip!choose_level, Skip!add_node(n, v, level)
    PROVE  /\ Skip!TypeOK' /\ n \in live' \ live
           /\ status' = "ok" =>
                 \E T : /\ SkipShape(T)' /\ T[0] = S[0] \cup {n} /\ value'[n] = v
                        /\ \A m \in S[0] : value'[m] = value[m] /\ value[m] # v
<1> DEFINE at == Skip!Descent(level, v)
           met == {i \in 0..level : Skip!Holds(at, i, v)}
           L == {i \in 0..level : \A j \in met : i > j}
<1>1. /\ n \notin live /\ live' = live \cup {n} /\ value' = [value EXCEPT ![n] = v]
      /\ \/ /\ level < MaxLevel
            /\ next' = Skip!Linked(n, at, L)
            /\ status' = IF met = {} THEN "ok" ELSE "loops"
         \/ status' = "undefined" /\ next' = next
  BY DEF Skip!add_node, Skip!New
<1>2. LevelsAs(S)
  BY DEF SkipShape
<1>3. /\ level \in Nat /\ level >= 1 /\ n # Root /\ n # Nil /\ v \in Int
      /\ DOMAIN next = Address \cup {Root} /\ next \in [Address \cup {Root} -> [Skip!Levels -> Address \cup {Nil}]]
  BY <1>2, LevelFacts, AddressAssumption DEF Skip!choose_level, Skip!TypeOK
<1> HIDE DEF at, met, L
<1>4. CASE status' = "undefined" /\ next' = next
  BY <1>1, <1>4 DEF Skip!TypeOK
<1>5. CASE level < MaxLevel /\ next' = Skip!Linked(n, at, L) /\ status' = IF met = {} THEN "ok" ELSE "loops"
  <2>1. level \in Skip!Levels /\ L \subseteq Skip!Levels /\ L \subseteq 0..level /\ \A i \in 0..level : i \in Skip!Levels
    BY <1>2, <1>3, <1>5, LevelFacts DEF Skip!Levels, L
  <2>2. \A i \in 0..level : StopsAt(S[i], OnLevel(i), value, at[i], v)
    BY <1>2, <2>1, DescentStops DEF at
  <2>3. \A i \in 0..level : at[i] \in S[i] \cup {Root} /\ at[i] \in Address \cup {Root} /\ at[i] # n
    BY <1>1, <1>2, <1>3, <2>1, <2>2, LevelFacts DEF StopsAt
  <2>4. /\ DOMAIN next' = Address \cup {Root}
        /\ \A m \in Address \cup {Root}, i \in Skip!Levels :
              next'[m][i] = IF i \notin L THEN next[m][i]
                            ELSE IF m = n THEN next[at[i]][i]
                            ELSE IF m = at[i] THEN n
                            ELSE next[m][i]
    BY <1>3, <1>5 DEF Skip!Linked
  <2>5. next' \in [Address \cup {Root} -> [Skip!Levels -> Address \cup {Nil}]]
    <3>1. \A m \in Address \cup {Root}, i \in Skip!Levels :
              (IF i \notin L THEN next[m][i]
                            ELSE IF m = n THEN next[at[i]][i]
                            ELSE IF m = at[i] THEN n
                            ELSE next[m][i]) \in Address \cup {Nil}
      <4> TAKE m \in Address \cup {Root}, i \in Skip!Levels
      <4>1. \A q \in Address \cup {Root} : next[q][i] \in Address \cup {Nil}
        BY <1>3
      <4>2. i \in L => at[i] \in Address \cup {Root}
        BY <2>1, <2>3
      <4> QED
        BY ONLY <4>1, <4>2, n \in Address
    <3> QED
      BY <1>3, <1>5, <3>1 DEF Skip!Linked
  <2>6. Skip!TypeOK'
    BY <1>1, <1>5, <2>5 DEF Skip!TypeOK
  <2>7. CASE status' = "ok"
    <3>1. met = {} /\ L = 0..level
      BY <1>5, <2>7 DEF L
    <3> DEFINE T == [i \in Skip!Levels |-> IF i <= level THEN S[i] \cup {n} ELSE S[i]]
    <3>2. /\ \A i \in Skip!Levels : S[i] \subseteq live /\ n \notin S[i]
          /\ value'[n] = v /\ \A m \in live : value'[m] = value[m]
      BY <1>1, <1>2, LevelFacts DEF Skip!TypeOK
    <3>3. T \in [Skip!Levels -> SUBSET live']
      BY <1>1, <3>2
    <3>4. ASSUME NEW i \in Skip!Levels, i > 0 PROVE T[i] \subseteq T[i - 1]
      <4>1. i - 1 \in Skip!Levels /\ i \in Nat /\ (i <= level => i - 1 <= level)
        BY <1>2, <1>3, <3>4, LevelFacts DEF Skip!Levels
      <4>2. S[i] \subseteq S[i - 1]
        BY <1>2, <3>4 DEF LevelsAs
      <4> QED
        BY <4>1, <4>2
    <3>5. ASSUME NEW i \in Skip!Levels PROVE LevelAs(T[i], OnLevel(i)', value')
      <4>1. /\ Heap(S[i], value) /\ LevelAs(S[i], OnLevel(i), value) /\ i \in Nat
            /\ S[i] \subseteq Address
            /\ \A m \in Address \cup {Root} : OnLevel(i)[m] = next[m][i]
            /\ \A m \in Address \cup {Root} : OnLevel(i)'[m] = next'[m][i]
        BY <1>2, <2>4, LevelFacts DEF OnLevel
      <4>2. CASE i <= level
        <5>1. i \in 0..level /\ i \in L
          BY <1>3, <3>1, <4>1, <4>2
        <5>2. StopsAt(S[i], OnLevel(i), value, at[i], v)
          BY <2>2, <5>1
        <5>3. OnLevel(i)[at[i]] # Nil => value[OnLevel(i)[at[i]]] # v
          BY <2>3, <3>1, <4>1, <5>1 DEF met, Skip!Holds
        <5>4. /\ OnLevel(i)'[n] = OnLevel(i)[at[i]] /\ OnLevel(i)'[at[i]] = n
              /\ \A m \in (S[i] \cup {Root}) \ {at[i]} : OnLevel(i)'[m] = OnLevel(i)[m]
          <6>1. at[i] \in Address \cup {Root} /\ at[i] # n
            BY <2>3, <5>1
          <6>2. \A m \in S[i] \cup {Root} : m \in Address \cup {Root} /\ m # n
            BY <1>3, <3>2, <4>1
          <6>3. \A m \in Address \cup {Root} :
                   next'[m][i] = IF m = n THEN next[at[i]][i]
                                 ELSE IF m = at[i] THEN n ELSE next[m][i]
            BY <2>4, <5>1
          <6>4. n \in Address \cup {Root}
            OBVIOUS
          <6>5. OnLevel(i)'[n] = OnLevel(i)[at[i]]
            BY <4>1, <6>1, <6>3, <6>4, Zenon
          <6>6. OnLevel(i)'[at[i]] = n
            BY <4>1, <6>1, <6>3, Zenon
          <6>7. \A m \in (S[i] \cup {Root}) \ {at[i]} : OnLevel(i)'[m] = OnLevel(i)[m]
            <7> TAKE m \in (S[i] \cup {Root}) \ {at[i]}
            <7>1. m \in Address \cup {Root} /\ m # n /\ m # at[i]
              BY <6>2
            <7> QED
              BY <4>1, <6>3, <7>1, Zenon
          <6> QED
            BY <6>5, <6>6, <6>7
        <5>5. /\ n \notin S[i] /\ value'[n] \in Int /\ \A m \in S[i] : value'[m] = value[m]
              /\ StopsAt(S[i], OnLevel(i), value, at[i], value'[n])
              /\ OnLevel(i)[at[i]] # Nil => value[OnLevel(i)[at[i]]] # value'[n]
          BY <1>3, <3>2, <5>2, <5>3
        <5>6. LevelAs(S[i] \cup {n}, OnLevel(i)', value')
          BY <4>1, <5>4, <5>5, LevelInsert
        <5> QED
          BY <4>2, <5>6
      <4>3. CASE ~(i <= level)
        <5>1. i \notin L
          BY <1>3, <3>1, <4>1, <4>3
        <5>2. \A m \in S[i] \cup {Root} : OnLevel(i)'[m] = OnLevel(i)[m]
          BY <2>4, <4>1, <5>1
        <5>3. \A m \in S[i] : value'[m] = value[m]
          BY <3>2
        <5>4. LevelAs(S[i], OnLevel(i)', value')
          BY <4>1, <5>2, <5>3, LevelSame
        <5> QED
          BY <4>3, <5>4
      <4> QED
        BY <4>2, <4>3
    <3>6. LevelsAs(T)'
      BY <3>3, <3>4, <3>5 DEF LevelsAs
    <3>7. T[0] = S[0] \cup {n} /\ T[1] = S[1] \cup {n}
      BY <1>2, <1>3, LevelFacts
    <3>8. \E x : T[0] \subseteq T[1] \cup {x}
      BY <3>7 DEF SkipShape
    <3>9. \A m \in Address \ live' : next'[m] = Skip!NullLevels
      <4> TAKE m \in Address \ live'
      <4>1. m \in Address \ live /\ m # n /\ m # Root /\ next[m] = Skip!NullLevels
        BY <1>1, <1>2, LevelFacts DEF SkipShape
      <4>2. \A i \in Skip!Levels : i \in L => m # at[i]
        BY <1>2, <2>1, <2>3, <4>1, LevelFacts
      <4>3. \A i \in Skip!Levels : next'[m][i] = Nil
        BY <1>2, <2>4, <4>1, <4>2, LevelFacts
      <4>4. next'[m] \in [Skip!Levels -> Address \cup {Nil}]
        BY <2>5
      <4> QED
        BY <1>2, <4>3, <4>4, LevelFacts
    <3>10. SkipShape(T)'
      BY <3>6, <3>8, <3>9 DEF SkipShape, Skip!NullLevels, Skip!Levels
    <3>11. \A m \in S[0] : value[m] # v
      <4> SUFFICES ASSUME NEW y \in S[0], value[y] = v PROVE FALSE
        OBVIOUS
      <4>1. 0 \in 0..level /\ 0 \in Skip!Levels /\ at[0] \in Address \cup {Root}
        BY <1>2, <1>3, <2>3, LevelFacts
      <4>2. OnLevel(0)[at[0]] = y /\ y # Nil
        BY <1>2, <1>3, <2>2, <4>1, LevelFacts, StopBefore, AddressAssumption
      <4>3. next[at[0]][0] = y
        BY <1>2, <4>1, <4>2, LevelFacts
      <4> QED
        BY <3>1, <4>1, <4>2, <4>3 DEF met, Skip!Holds
    <3> QED
      BY <1>1, <1>2, <2>6, <3>2, <3>7, <3>10, <3>11, LevelFacts
  <2> QED
    BY <1>1, <2>6, <2>7
<1> QED
  BY <1>1, <1>4, <1>5

(* A deletion that ends well takes its node off level 0 only, the one level  *)
(* it was on, and frees nothing.                                             *)
LEMMA SkipDelNodeKeeps ==
    ASSUME Skip!SkipAssumption, Skip!TypeOK, NEW S, SkipShape(S), NEW v \in Number, Skip!del_node(v)
    PROVE  /\ Skip!TypeOK'
           /\ status' = "ok" =>
                 /\ live' = live /\ value' = value
                 /\ \E T : SkipShape(T)' /\ T[0] = {m \in S[0] : value[m] # v}
<1> DEFINE at == Skip!Descent(MaxLevel - 1, v)
           found == {i \in Skip!Levels : Skip!Holds(at, i, v)}
<1>1. /\ next' = [m \in DOMAIN next |->
                     [i \in Skip!Levels |->
                         IF i \in found /\ m = at[i] /\ ~(1 \in found /\ i = 0)
                           THEN next[next[m][i]][i] ELSE next[m][i]]]
      /\ live' = IF 1 \in found THEN live \ {next[at[1]][0]} ELSE live
      /\ status' = IF 1 \in found THEN "undefined" ELSE "ok"
      /\ value' = value
  BY DEF Skip!del_node
<1>2. LevelsAs(S)
  BY DEF SkipShape
<1>3. /\ v \in Int /\ 0 \in Skip!Levels /\ 1 \in Skip!Levels
      /\ DOMAIN next = Address \cup {Root} /\ next \in [Address \cup {Root} -> [Skip!Levels -> Address \cup {Nil}]]
  BY <1>2, LevelFacts DEF Skip!TypeOK
<1>4. \A i \in Skip!Levels : StopsAt(S[i], OnLevel(i), value, at[i], v)
  <2>1. Skip!Levels = 0..MaxLevel - 1 /\ MaxLevel - 1 \in Skip!Levels
    BY <1>2, LevelFacts DEF Skip!Levels
  <2> QED
    BY <1>2, <2>1, DescentStops
<1>5. \A i \in Skip!Levels : at[i] \in S[i] \cup {Root} /\ at[i] \in Address \cup {Root}
  BY <1>2, <1>4, LevelFacts DEF StopsAt
<1> HIDE DEF at
<1>6. \A i \in found : next[at[i]][i] # Nil /\ value[next[at[i]][i]] = v /\ i \in Skip!Levels
  BY DEF Skip!Holds
<1>7. \A i \in Skip!Levels : i \notin found => next[at[i]][i] = Nil \/ value[next[at[i]][i]] # v
  BY DEF Skip!Holds
<1> HIDE DEF found
<1>8. /\ DOMAIN next' = Address \cup {Root}
      /\ \A m \in Address \cup {Root}, i \in Skip!Levels :
            next'[m][i] = IF i \in found /\ m = at[i] /\ ~(1 \in found /\ i = 0)
                            THEN next[next[m][i]][i] ELSE next[m][i]
  BY <1>1, <1>3
<1>9. Skip!TypeOK'
  <2>1. \A m \in Address \cup {Root}, i \in Skip!Levels :
            (IF i \in found /\ m = at[i] /\ ~(1 \in found /\ i = 0)
               THEN next[next[m][i]][i] ELSE next[m][i]) \in Address \cup {Nil}
    <3> TAKE m \in Address \cup {Root}, i \in Skip!Levels
    <3>1. next[m][i] \in Address \cup {Nil}
      BY <1>3
    <3>2. i \in found /\ m = at[i] => next[m][i] \in Address
      BY <1>6, <3>1
    <3> QED
      BY <1>3, <3>1, <3>2
  <2>2. next' \in [Address \cup {Root} -> [Skip!Levels -> Address \cup {Nil}]]
    BY <1>1, <1>3, <2>1
  <2> QED
    BY <1>1, <2>2 DEF Skip!TypeOK
<1>10. CASE status' = "ok"
  <2>1. 1 \notin found /\ live' = live
    BY <1>1, <1>10
  <2>2. \A y \in S[1] : value[y] # v
    <3> SUFFICES ASSUME NEW y \in S[1], value[y] = v PROVE FALSE
      OBVIOUS
    <3>1. OnLevel(1)[at[1]] = y /\ y \in Address
      BY <1>2, <1>3, <1>4, LevelFacts, StopBefore
    <3>2. next[at[1]][1] = y
      BY <1>2, <1>3, <1>5, <3>1, LevelFacts
    <3> QED
      BY <1>3, <1>7, <2>1, <3>1, <3>2, AddressAssumption
  <2>3. \A i \in Skip!Levels : i # 0 => i \notin found
    <3> SUFFICES ASSUME NEW i \in Skip!Levels, i # 0, i \in found PROVE FALSE
      OBVIOUS
    <3>1. 1 <= i
      BY <1>2, LevelFacts
    <3>2. OnLevel(i)[at[i]] \in S[i] \cup {Nil} /\ OnLevel(i)[at[i]] = next[at[i]][i]
      BY <1>2, <1>3, <1>4, <1>5, LevelFacts, StopBefore
    <3>3. next[at[i]][i] \in S[i] /\ value[next[at[i]][i]] = v
      BY <1>6, <3>2
    <3>4. S[i] \subseteq S[1]
      BY <1>2, <1>3, <3>1, LevelsNested
    <3> QED
      BY <2>2, <3>3, <3>4
  <2>4. PICK T : T = [i \in Skip!Levels |-> {m \in S[i] : value[m] # v}]
    OBVIOUS
  <2>5. T[0] = {m \in S[0] : value[m] # v} /\ T[1] = S[1]
    BY <1>3, <2>2, <2>4
  <2>6. T \in [Skip!Levels -> SUBSET live'] /\ \A i \in Skip!Levels : T[i] = {m \in S[i] : value[m] # v}
    BY <1>2, <2>1, <2>4, LevelFacts
  <2>7. ASSUME NEW i \in Skip!Levels, i > 0 PROVE T[i] \subseteq T[i - 1]
    <3>1. i - 1 \in Skip!Levels
      BY <1>2, <2>7, LevelFacts DEF Skip!Levels
    <3>2. S[i] \subseteq S[i - 1]
      BY <1>2, <2>7 DEF LevelsAs
    <3> QED
      BY <2>6, <3>1, <3>2
  <2>8. ASSUME NEW i \in Skip!Levels PROVE LevelAs(T[i], OnLevel(i)', value')
    <3>1. /\ Heap(S[i], value) /\ LevelAs(S[i], OnLevel(i), value) /\ S[i] \subseteq Address
          /\ StopsAt(S[i], OnLevel(i), value, at[i], v)
          /\ \A m \in Address \cup {Root} : OnLevel(i)[m] = next[m][i] /\ OnLevel(i)'[m] = next'[m][i]
      BY <1>2, <1>4, <1>8, LevelFacts DEF OnLevel
    <3> DEFINE x == OnLevel(i)[at[i]]
    <3>2. x \in S[i] \cup {Nil} /\ \A y \in S[i] : value[y] = v => x = y
      BY <1>3, <3>1, StopBefore
    <3>3. x = next[at[i]][i] /\ at[i] \in Address \cup {Root}
      BY <1>5, <3>1
    <3>4. CASE i \in found
      <4>1. x # Nil /\ value[x] = v /\ x \in Address
        BY <1>6, <3>1, <3>2, <3>3, <3>4
      <4>2. T[i] = S[i] \ {x}
        BY <2>6, <3>2, <4>1
      <4>3. OnLevel(i)'[at[i]] = OnLevel(i)[x] /\ \A m \in (S[i] \cup {Root}) \ {at[i]} : OnLevel(i)'[m] = OnLevel(i)[m]
        BY <1>8, <2>1, <3>1, <3>3, <3>4, <4>1
      <4>4. LevelAs(S[i] \ {x}, OnLevel(i)', value)
        BY <1>3, <3>1, <4>1, <4>3, LevelDelete
      <4> QED
        BY <1>1, <4>2, <4>4
    <3>5. CASE i \notin found
      <4>1. \A y \in S[i] : value[y] # v
        BY <1>7, <3>1, <3>2, <3>3, <3>5, AddressAssumption
      <4>2. T[i] = S[i]
        BY <2>6, <4>1
      <4>3. \A m \in S[i] \cup {Root} : OnLevel(i)'[m] = OnLevel(i)[m]
        BY <1>8, <3>1, <3>5
      <4>4. LevelAs(S[i], OnLevel(i)', value)
        BY <3>1, <4>3, LevelSame
      <4> QED
        BY <1>1, <4>2, <4>4
    <3> QED
      BY <3>4, <3>5
  <2>9. LevelsAs(T)'
    BY <2>6, <2>7, <2>8 DEF LevelsAs
  <2>10. \E x : T[0] \subseteq T[1] \cup {x}
    <3>1. T[0] \subseteq S[0] /\ T[1] = S[1]
      BY <2>5
    <3>2. PICK x : S[0] \subseteq S[1] \cup {x}
      BY DEF SkipShape
    <3> QED
      BY <3>1, <3>2
  <2>11. \A m \in Address \ live' : next'[m] = Skip!NullLevels
    <3> TAKE m \in Address \ live'
    <3>1. m # Root /\ m \notin live /\ next[m] = Skip!NullLevels
      BY <1>2, <2>1, LevelFacts DEF SkipShape
    <3>2. \A i \in Skip!Levels : m # at[i]
      BY <1>2, <1>5, <3>1, LevelFacts
    <3>3. \A i \in Skip!Levels : next'[m][i] = Nil
      BY <1>2, <1>8, <3>1, <3>2, LevelFacts
    <3>4. next'[m] \in [Skip!Levels -> Address \cup {Nil}]
      BY <1>9 DEF Skip!TypeOK
    <3> QED
      BY <1>2, <3>3, <3>4, LevelFacts
  <2>12. SkipShape(T)'
    BY <2>9, <2>10, <2>11 DEF SkipShape, Skip!NullLevels, Skip!Levels
  <2> QED
    BY <1>1, <1>9, <2>1, <2>5, <2>12
<1> QED
  BY <1>9, <1>10

(* Every operation of the skip list keeps the invariant, and one that ends   *)
(* well changes level 0 by the one node it is about.                         *)
Changes(S, T) ==
    \/ \E n \in Address, v \in Number :
         /\ n \in live' \ live /\ T[0] = S[0] \cup {n} /\ value'[n] = v
         /\ \A m \in S[0] : value'[m] = value[m] /\ value[m] # v
    \/ \E v \in Number :
         live' = live /\ value' = value /\ T[0] = {m \in S[0] : value[m] # v}

LEMMA SkipInvNext ==
    ASSUME Skip!SkipAssumption, SkipInv, Skip!Next
    PROVE  /\ SkipInv'
           /\ status = "ok"
           /\ status' = "ok" => \E S, T : SkipShape(S) /\ SkipShape(T)' /\ Changes(S, T)
<1>1. Skip!TypeOK /\ status = "ok"
  BY DEF SkipInv, Skip!Next, Skip!del_node, Skip!add_first, Skip!add_node
<1>2. PICK S : SkipShape(S)
  BY <1>1 DEF SkipInv
<1>3. CASE \E v \in Number : Skip!del_node(v)
  <2>1. PICK v \in Number : Skip!del_node(v)
    BY <1>3
  <2>2. Skip!TypeOK' /\ (status' = "ok" => /\ live' = live /\ value' = value
                                           /\ \E T : SkipShape(T)' /\ T[0] = {m \in S[0] : value[m] # v})
    BY <1>1, <1>2, <2>1, SkipDelNodeKeeps
  <2> QED
    BY <1>1, <1>2, <2>2 DEF SkipInv, Changes
<1>4. CASE \E v \in Number, n \in Address, level \in Skip!choose_level : Skip!add_first(n, v, level) \/ Skip!add_node(n, v, level)
  <2>1. PICK v \in Number, n \in Address, level \in Skip!choose_level : Skip!add_first(n, v, level) \/ Skip!add_node(n, v, level)
    BY <1>4
  <2>2. /\ Skip!TypeOK' /\ n \in live' \ live
        /\ status' = "ok" => \E T : /\ SkipShape(T)' /\ T[0] = S[0] \cup {n} /\ value'[n] = v
                                   /\ \A m \in S[0] : value'[m] = value[m] /\ value[m] # v
    BY <1>1, <1>2, <2>1, SkipAddFirstKeeps, SkipAddNodeKeeps
  <2> QED
    BY <1>1, <1>2, <2>2 DEF SkipInv, Changes
<1> QED
  BY <1>3, <1>4 DEF Skip!Next

(* The program starts with empty levels. *)
LEMMA SkipInvInit == ASSUME Skip!SkipAssumption PROVE Skip!Init => SkipInv
<1> SUFFICES ASSUME Skip!Init PROVE SkipInv
  OBVIOUS
<1>1. /\ live = {} /\ next = [n \in Address \cup {Root} |-> Skip!NullLevels] /\ status = "ok"
      /\ value = [n \in Address \cup {Root} |-> CHOOSE v \in Number : TRUE]
  BY DEF Skip!Init
<1>2. Skip!TypeOK
  <2>1. (CHOOSE v \in Number : TRUE) \in Number
    BY DEF Skip!SkipAssumption
  <2>2. Skip!NullLevels \in [Skip!Levels -> Address \cup {Nil}]
    BY DEF Skip!NullLevels
  <2> QED
    BY <1>1, <2>1, <2>2 DEF Skip!TypeOK
<1>3. PICK S : S = [i \in Skip!Levels |-> {}]
  OBVIOUS
<1>4. 0 \in Skip!Levels /\ 1 \in Skip!Levels
  BY DEF Skip!Levels, Skip!SkipAssumption
<1>5. S \in [Skip!Levels -> SUBSET live] /\ \A i \in Skip!Levels : S[i] = {}
  BY <1>3
<1>6. ASSUME NEW i \in Skip!Levels PROVE LevelAs(S[i], OnLevel(i), value) /\ (i > 0 => S[i] \subseteq S[i - 1])
  <2>1. OnLevel(i)[Root] = Nil
    BY <1>1 DEF OnLevel, Skip!NullLevels
  <2> QED
    BY <1>5, <2>1 DEF LevelAs, IsNext
<1>7. LevelsAs(S)
  BY <1>5, <1>6 DEF LevelsAs
<1>8. SkipShape(S)
  <2>1. \A m \in Address \ live : next[m] = Skip!NullLevels
    BY <1>1
  <2> QED
    BY <1>4, <1>5, <1>7, <2>1 DEF SkipShape
<1> QED
  BY <1>2, <1>8 DEF SkipInv

(* A walk of k steps from Root along nx, where it comes to, and the nodes it *)
(* is at.                                                                    *)
Along(s, k, nx) == \A j \in 1..k : s[j] = nx[IF j = 1 THEN Root ELSE s[j - 1]]
ComesTo(s, k, nx) == nx[IF k = 0 THEN Root ELSE s[k]]
Visited(s, k) == {s[j] : j \in 1..k}

(* A walk from Root along a level is through nodes of the level, in ascending*)
(* order, until it comes to null; then it has been at all of them.           *)
LEMMA LevelWalk ==
    ASSUME NEW S, NEW val, NEW nx, Heap(S, val), LevelAs(S, nx, val),
           NEW k \in Nat, NEW s, s \in [1..k -> Address],
           Along(s, k, nx)
    PROVE  /\ \A j \in 1..k : s[j] \in S
           /\ \A j \in 1..k - 1 : val[s[j]] < val[s[j + 1]]
           /\ ComesTo(s, k, nx) = Nil => S = Visited(s, k)
<1> DEFINE at(j) == IF j = 0 THEN Root ELSE s[j]
<1>1. \A j \in 1..k : j - 1 \in 0..k - 1 /\ s[j] = nx[at(j - 1)] /\ s[j] # Nil
  BY AddressAssumption DEF Along
<1>2. \A m \in S \cup {Root} : IsNext(S, m, nx[m], val)
  BY DEF LevelAs
<1>3. \A j \in 1..k : s[j] \in S
  <2> DEFINE Off == {j \in 1..k : s[j] \notin S}
  <2> SUFFICES ASSUME Off # {} PROVE FALSE
    OBVIOUS
  <2>1. Off \in SUBSET Nat
    OBVIOUS
  <2>2. PICK j \in Off : \A y \in Off : j <= y
    <3> HIDE DEF Off
    <3> QED
      BY <2>1, Least
  <2>3. at(j - 1) \in S \cup {Root}
    <3>1. CASE j = 1
      BY <3>1
    <3>2. CASE j # 1
      <4>1. j - 1 \in 1..k /\ ~(j <= j - 1)
        BY <2>2, <3>2
      <4> QED
        BY <2>2, <4>1
    <3> QED
      BY <3>1, <3>2
  <2>4. s[j] = nx[at(j - 1)] /\ s[j] # Nil /\ s[j] \notin S
    BY <1>1, <2>2
  <2> QED
    BY <1>2, <2>3, <2>4 DEF IsNext
<1>4. \A j \in 0..k : at(j) \in S \cup {Root}
  BY <1>3
<1>5. \A j \in 1..k : Below(at(j - 1), val[s[j]], val) /\ \A y \in S : Below(at(j - 1), val[y], val) => val[s[j]] <= val[y]
  <2> TAKE j \in 1..k
  <2>1. at(j - 1) \in S \cup {Root} /\ s[j] = nx[at(j - 1)] /\ s[j] # Nil
    <3>1. j - 1 \in 0..k
      OBVIOUS
    <3> HIDE DEF at
    <3> QED
      BY <1>1, <1>4, <3>1
  <2> HIDE DEF at
  <2> QED
    BY <1>2, <2>1 DEF IsNext
<1>6. \A j \in 1..k - 1 : val[s[j]] < val[s[j + 1]]
  <2> TAKE j \in 1..k - 1
  <2>1. j + 1 \in 1..k /\ (j + 1) - 1 = j /\ at(j) = s[j] /\ s[j] # Root
    BY <1>3 DEF Heap
  <2>2. Below(at((j + 1) - 1), val[s[j + 1]], val)
    BY <1>5, <2>1
  <2> QED
    BY <2>1, <2>2 DEF Below
<1>7. ASSUME nx[at(k)] = Nil, NEW y \in S PROVE \E j \in 1..k : s[j] = y
  <2>1. ~Below(at(k), val[y], val)
    BY <1>2, <1>4, <1>7, AddressAssumption DEF IsNext, Heap
  <2> DEFINE Beyond == {j \in 1..k : val[y] <= val[s[j]]}
  <2>2. k # 0 /\ k \in Beyond
    <3>1. k # 0 /\ k \in 1..k
      BY <2>1 DEF Below
    <3> QED
      BY <1>3, <2>1, <3>1 DEF Below, Heap
  <2>3. Beyond \in SUBSET Nat
    OBVIOUS
  <2>4. PICK j \in Beyond : \A i \in Beyond : j <= i
    <3> HIDE DEF Beyond
    <3> QED
      BY <2>2, <2>3, Least
  <2>5. Below(at(j - 1), val[y], val)
    <3>1. CASE j = 1
      BY <3>1 DEF Below
    <3>2. CASE j # 1
      <4>1. j - 1 \in 1..k /\ ~(j <= j - 1)
        BY <2>4, <3>2
      <4>2. ~(val[y] <= val[s[j - 1]])
        BY <2>4, <4>1
      <4> QED
        BY <1>3, <4>1, <4>2 DEF Below, Heap
    <3> QED
      BY <3>1, <3>2
  <2>6. val[s[j]] <= val[y] /\ val[y] <= val[s[j]] /\ j \in 1..k
    BY <1>5, <2>4, <2>5
  <2>7. s[j] = y
    BY <1>3, <2>6 DEF LevelAs, Heap
  <2> QED
    BY <2>6, <2>7
<1> QED
  BY <1>3, <1>6, <1>7 DEF ComesTo, Visited

(* The longest ascending walk comes to null. *)
LEMMA LevelHasWalk ==
    ASSUME NEW S, NEW val, NEW nx, Heap(S, val), LevelAs(S, nx, val), IsFiniteSet(S)
    PROVE  \E k \in 0..Cardinality(S) : \E s \in [1..k -> S] :
              Along(s, k, nx) /\ ComesTo(s, k, nx) = Nil
<1> DEFINE c == Cardinality(S)
           Walk(k, s) == /\ s \in [1..k -> S]
                         /\ Along(s, k, nx)
                         /\ \A i, j \in 1..k : i < j => val[s[i]] < val[s[j]]
           Short == {d \in 0..c : \E s : Walk(c - d, s)}
<1>1. c \in Nat
  BY FS_CardinalityType
<1>2. ASSUME NEW k \in Nat, NEW s, Walk(k, s) PROVE k <= c
  <2>1. \A i, j \in 1..k : s[i] = s[j] => i = j
    <3> TAKE i, j \in 1..k
    <3> HAVE s[i] = s[j]
    <3>1. val[s[i]] \in Int /\ (i < j => val[s[i]] < val[s[j]]) /\ (j < i => val[s[j]] < val[s[i]])
      BY <1>2 DEF Heap
    <3> QED
      BY <3>1
  <2>2. s \in Injection(1..k, S)
    BY <1>2, <2>1 DEF Injection, IsInjective
  <2>3. Cardinality(1..k) = k
    <3>1. Cardinality(1..k) = IF 1 > k THEN 0 ELSE k - 1 + 1
      BY FS_Interval
    <3> QED
      BY <3>1
  <2> QED
    BY <2>2, <2>3, FS_Injection
<1>3. c \in Short
  <2> DEFINE e == [j \in 1..0 |-> Root]
  <2>1. Walk(0, e)
    BY DEF Along
  <2> HIDE DEF e, Walk
  <2> QED
    BY <1>1, <2>1
<1>4. Short \in SUBSET Nat
  OBVIOUS
<1>5. PICK d \in Short : \A y \in Short : d <= y
  <2> HIDE DEF Short
  <2> QED
    BY <1>3, <1>4, Least
<1> DEFINE k == c - d
<1>6. d \in 0..c /\ k \in 0..c /\ k \in Nat
  BY <1>1, <1>5
<1>7. PICK s : Walk(k, s)
  BY <1>5
<1> DEFINE last == IF k = 0 THEN Root ELSE s[k]
           x == nx[last]
<1>8. x = Nil
  <2> SUFFICES ASSUME x # Nil PROVE FALSE
    OBVIOUS
  <2>1. last \in S \cup {Root}
    BY <1>6, <1>7
  <2>2. x \in S /\ Below(last, val[x], val)
    BY <2>1 DEF LevelAs, IsNext
  <2> DEFINE t == [j \in 1..k + 1 |-> IF j = k + 1 THEN x ELSE s[j]]
  <2>3. t \in [1..k + 1 -> S]
    BY <1>6, <1>7, <2>2
  <2>4. \A j \in 1..k + 1 : t[j] = nx[IF j = 1 THEN Root ELSE t[j - 1]]
    <3> TAKE j \in 1..k + 1
    <3>1. CASE j = k + 1
      BY <1>6, <3>1
    <3>2. CASE j # k + 1
      <4>1. j \in 1..k /\ (j # 1 => j - 1 \in 1..k)
        BY <1>6, <3>2
      <4> QED
        BY <1>6, <1>7, <3>2, <4>1 DEF Along
    <3> QED
      BY <3>1, <3>2
  <2>5. \A j \in 1..k : val[s[j]] < val[x]
    <3> TAKE j \in 1..k
    <3>1. k # 0 /\ k \in 1..k /\ s[j] \in S /\ s[k] \in S /\ (j = k \/ j < k)
      BY <1>6, <1>7
    <3>2. val[s[k]] < val[x]
      BY <2>2, <3>1 DEF Below, Heap
    <3>3. val[s[j]] \in Int /\ val[s[k]] \in Int /\ val[x] \in Int
      BY <2>2, <3>1 DEF Heap
    <3> QED
      BY <1>7, <3>1, <3>2, <3>3
  <2>6. \A i, j \in 1..k + 1 : i < j => val[t[i]] < val[t[j]]
    <3> TAKE i, j \in 1..k + 1
    <3> HAVE i < j
    <3>1. i \in 1..k /\ t[i] = s[i]
      BY <1>6
    <3>2. CASE j = k + 1
      <4>1. t[j] = x
        BY <1>6, <3>2
      <4> QED
        BY <2>5, <3>1, <4>1
    <3>3. CASE j # k + 1
      <4>1. j \in 1..k /\ t[j] = s[j]
        BY <1>6, <3>3
      <4> QED
        BY <1>7, <3>1, <4>1
    <3> QED
      BY <3>2, <3>3
  <2>7. k + 1 \in Nat /\ Walk(k + 1, t)
    <3> HIDE DEF t, k
    <3> QED
      BY <1>6, <2>3, <2>4, <2>6 DEF Along
  <2>8. k + 1 <= c
    BY <1>2, <2>7
  <2>9. d - 1 \in 0..c /\ c - (d - 1) = k + 1
    BY <1>1, <1>6, <2>8
  <2>10. d - 1 \in Short
    <3> HIDE DEF Walk, t, k
    <3> QED
      BY <2>7, <2>9
  <2> QED
    BY <1>5, <1>6, <2>10
<1> QED
  BY <1>6, <1>7, <1>8 DEF ComesTo

(* Such a walk is what dump goes along. *)
LEMMA DumpedWalk ==
    ASSUME Skip!SkipAssumption, Skip!TypeOK, NEW i \in Skip!Levels, NEW k \in Nat, NEW s, s \in [1..k -> Address]
    PROVE  LET w == <<Root>> \o s IN
           /\ Len(w) = k + 1 /\ \A j \in 1..k : w[j + 1] = s[j]
           /\ Skip!NodesOf(w) \ {Root} = Visited(s, k)
           /\ Skip!IsLevel(w, i) <=>
                Along(s, k, OnLevel(i)) /\ ComesTo(s, k, OnLevel(i)) = Nil
<1> DEFINE w == <<Root>> \o s
           nx == OnLevel(i)
<1>1. s \in Seq(Address \cup {Root}) /\ Len(s) = k /\ <<Root>> \in Seq(Address \cup {Root}) /\ Len(<<Root>>) = 1
  OBVIOUS
<1>2. Len(w) = k + 1 /\ w[1] = Root /\ \A j \in 1..k : w[j + 1] = s[j]
  BY <1>1, ConcatProperties
<1> HIDE DEF w
<1>3. \A j \in 1..k + 1 : j = 1 \/ (j - 1 \in 1..k /\ w[j] = s[j - 1])
  <2> TAKE j \in 1..k + 1
  <2>1. j # 1 => j - 1 \in 1..k /\ (j - 1) + 1 = j
    OBVIOUS
  <2> QED
    BY <1>2, <2>1
<1>4. Root \notin Address /\ \A j \in 1..k : s[j] \in Address /\ j + 1 \in 1..k + 1
  BY DEF Skip!SkipAssumption
<1>5. Skip!NodesOf(w) \ {Root} = Visited(s, k)
  <2>1. \A x \in Skip!NodesOf(w) \ {Root} : x \in Visited(s, k)
    BY <1>2, <1>3 DEF Skip!NodesOf, Visited
  <2>2. \A j \in 1..k : s[j] # Root /\ j + 1 \in 1..Len(w) /\ w[j + 1] = s[j]
    BY <1>2, <1>4
  <2>3. \A x \in Visited(s, k) : x \in Skip!NodesOf(w) /\ x # Root
    BY <2>2 DEF Skip!NodesOf, Visited
  <2> DEFINE A == Skip!NodesOf(w) \ {Root}
             B == Visited(s, k)
  <2>4. (\A x \in A : x \in B) /\ (\A x \in B : x \in A)
    BY <2>1, <2>3, Zenon
  <2>5. A = B
    <3> HIDE DEF A, B
    <3> QED
      BY ONLY <2>4
  <2> QED
    BY <2>5, Zenon
<1>6. (\A j \in 1..Len(w) - 1 : w[j + 1] = nx[w[j]]) <=> Along(s, k, nx)
  <2>1. \A j \in 1..k : w[j] = IF j = 1 THEN Root ELSE s[j - 1]
    BY <1>2, <1>3
  <2>2. Len(w) - 1 = k
    BY <1>2
  <2> HIDE DEF nx
  <2> QED
    BY <1>2, <2>1, <2>2 DEF Along
<1>7. w[Len(w)] = (IF k = 0 THEN Root ELSE s[k]) /\ w[Len(w)] \in Address \cup {Root}
  BY <1>2, <1>3, <1>4
<1>8. next[w[Len(w)]][i] = ComesTo(s, k, nx)
  BY <1>7 DEF OnLevel, ComesTo, Skip!TypeOK
<1>9. Skip!Follows(w, Root, nx) <=> Along(s, k, nx)
  BY <1>2, <1>6 DEF Skip!Follows
<1>10. Skip!IsLevel(w, i) <=> Skip!Follows(w, Root, nx) /\ next[w[Len(w)]][i] = Nil
  BY DEF Skip!IsLevel, OnLevel
<1> QED
  BY <1>2, <1>5, <1>8, <1>9, <1>10 DEF w

(* The nodes that dump prints of a level are those of the level. *)
LEMMA LevelPrinted ==
    ASSUME Skip!SkipAssumption, Skip!TypeOK, NEW S, LevelsAs(S), NEW i \in Skip!Levels
    PROVE  /\ Skip!Level(i) = S[i]
           /\ \E s \in Skip!LevelWalks :
                /\ Skip!IsLevel(s, i)
                /\ \A j \in 2..Len(s) - 1 : value[s[j]] < value[s[j + 1]]
<1>1. /\ Heap(S[i], value) /\ LevelAs(S[i], OnLevel(i), value)
      /\ S[i] \subseteq live /\ live \subseteq Address
  BY LevelFacts DEF Skip!TypeOK
<1>2. IsFiniteSet(live) /\ IsFiniteSet(S[i]) /\ Cardinality(live) \in Nat /\ Cardinality(S[i]) \in Nat
      /\ Cardinality(S[i]) <= Cardinality(live)
  <2>1. IsFiniteSet(live)
    BY <1>1, AddressAssumption, FS_Subset
  <2> QED
    BY <1>1, <2>1, FS_Subset, FS_CardinalityType
<1>3. Skip!LevelWalks = UNION {{<<Root>> \o s : s \in [1..k -> live]} : k \in 0..Cardinality(live)}
  <2>1. Skip!Cardinality(live) = Cardinality(live)
    BY Zenon DEF Cardinality, Skip!Cardinality
  <2> QED
    BY <2>1, Zenon DEF Skip!LevelWalks
<1>4. ASSUME NEW w \in Skip!LevelWalks, Skip!IsLevel(w, i)
      PROVE  /\ Skip!NodesOf(w) \ {Root} = S[i]
             /\ \A j \in 2..Len(w) - 1 : value[w[j]] < value[w[j + 1]]
  <2>1. PICK k \in 0..Cardinality(live) : w \in {<<Root>> \o s : s \in [1..k -> live]}
    BY <1>3, <1>4
  <2>2. PICK s \in [1..k -> live] : w = <<Root>> \o s
    BY <2>1
  <2>3. k \in Nat /\ s \in [1..k -> Address]
    BY <1>1, <1>2
  <2>4. /\ Len(w) = k + 1 /\ \A j \in 1..k : w[j + 1] = s[j]
        /\ Skip!NodesOf(w) \ {Root} = Visited(s, k)
        /\ Along(s, k, OnLevel(i)) /\ ComesTo(s, k, OnLevel(i)) = Nil
    BY <1>4, <2>2, <2>3, DumpedWalk
  <2>5. /\ \A j \in 1..k - 1 : value[s[j]] < value[s[j + 1]]
        /\ S[i] = Visited(s, k)
    <3> DEFINE nx == OnLevel(i)
               T == S[i]
    <3>1. Heap(T, value) /\ LevelAs(T, nx, value) /\ Along(s, k, nx) /\ ComesTo(s, k, nx) = Nil
      BY <1>1, <2>4
    <3> HIDE DEF nx, T
    <3>2. /\ \A j \in 1..k - 1 : value[s[j]] < value[s[j + 1]]
          /\ T = Visited(s, k)
      BY <2>3, <3>1, LevelWalk
    <3> QED
      BY <3>2 DEF T
  <2>6. \A j \in 2..Len(w) - 1 : j - 1 \in 1..k - 1 /\ (j - 1) + 1 = j /\ j \in 1..k /\ j - 1 \in 1..k
    BY <2>3, <2>4
  <2>7. \A j \in 2..Len(w) - 1 : w[j] = s[j - 1] /\ w[j + 1] = s[j]
    BY <2>4, <2>6
  <2> QED
    BY <2>4, <2>5, <2>6, <2>7
<1>5. \E w \in Skip!LevelWalks : Skip!IsLevel(w, i)
  <2>1. PICK k \in 0..Cardinality(S[i]) : \E s \in [1..k -> S[i]] :
              /\ Along(s, k, OnLevel(i)) /\ ComesTo(s, k, OnLevel(i)) = Nil
    BY <1>1, <1>2, LevelHasWalk
  <2>2. PICK s \in [1..k -> S[i]] :
              /\ Along(s, k, OnLevel(i)) /\ ComesTo(s, k, OnLevel(i)) = Nil
    BY <2>1
  <2>3. k \in Nat /\ k \in 0..Cardinality(live) /\ s \in [1..k -> live] /\ s \in [1..k -> Address]
    BY <1>1, <1>2
  <2>4. Skip!IsLevel(<<Root>> \o s, i)
    BY <2>2, <2>3, DumpedWalk
  <2>5. <<Root>> \o s \in Skip!LevelWalks
    BY <1>3, <2>3
  <2> QED
    BY <2>4, <2>5
<1>6. Skip!Level(i) = S[i]
  BY <1>4, <1>5 DEF Skip!Level
<1> QED
  BY <1>4, <1>5, <1>6

LEMMA LevelIs == Skip!SkipAssumption /\ Skip!TypeOK => \A S : LevelsAs(S) => \A i \in Skip!Levels : Skip!Level(i) = S[i]
BY LevelPrinted

(* The same after a step. *)
LEMMA LevelIsThen == (Skip!SkipAssumption /\ Skip!TypeOK => \A S : LevelsAs(S) => \A i \in Skip!Levels : Skip!Level(i) = S[i])'
BY LevelIs, PTL

(* Nothing changes when none of its variables does. *)
LEMMA SkipStutters == SkipInv /\ UNCHANGED Skip!vars => SkipInv'
<1> SUFFICES ASSUME SkipInv, UNCHANGED Skip!vars PROVE SkipInv'
  OBVIOUS
<1>1. live' = live /\ value' = value /\ next' = next /\ status' = status
  BY DEF Skip!vars
<1>2. ASSUME NEW S, SkipShape(S) PROVE SkipShape(S)'
  BY <1>1, <1>2 DEF SkipShape, LevelsAs, OnLevel
<1> QED
  BY <1>1, <1>2 DEF SkipInv, Skip!TypeOK

(* A step of the skip list, or of nothing. *)
LEMMA SkipInvStep == ASSUME Skip!SkipAssumption PROVE SkipInv /\ [Skip!Next]_(Skip!vars) => SkipInv'
<1> SUFFICES ASSUME SkipInv, [Skip!Next]_(Skip!vars) PROVE SkipInv'
  OBVIOUS
<1> QED
  BY SkipInvNext, SkipStutters

(* As long as the program is neither stuck nor in undefined behaviour the    *)
(* levels of the skip list are finite ascending lists nested in each other,  *)
(* and all values but one at most are where to delete them is undefined.     *)
LEMMA SkipInvNested == ASSUME Skip!SkipAssumption PROVE SkipInv => Skip!Nested
<1> SUFFICES ASSUME SkipInv, status = "ok" PROVE Skip!Chains /\ Skip!OneDeletable
  BY DEF Skip!Nested
<1>1. PICK S : SkipShape(S)
  BY DEF SkipInv
<1>2. Skip!TypeOK /\ LevelsAs(S)
  BY <1>1 DEF SkipInv, SkipShape
<1>3. 0 \in Skip!Levels /\ 1 \in Skip!Levels /\ \A i \in Skip!Levels : i > 0 => i - 1 \in Skip!Levels
  BY DEF Skip!Levels, Skip!SkipAssumption
<1>4. Skip!Chains
  <2> SUFFICES ASSUME NEW i \in Skip!Levels
               PROVE  /\ \E s \in Skip!LevelWalks :
                           /\ Skip!IsLevel(s, i)
                           /\ \A j \in 2..Len(s) - 1 : value[s[j]] < value[s[j + 1]]
                      /\ i > 0 => Skip!Level(i) \subseteq Skip!Level(i - 1)
    BY DEF Skip!Chains
  <2>1. i > 0 => Skip!Level(i) = S[i] /\ Skip!Level(i - 1) = S[i - 1] /\ S[i] \subseteq S[i - 1]
    BY <1>2, <1>3, LevelIs DEF LevelsAs
  <2> QED
    BY <1>2, <2>1, LevelPrinted
<1>5. Skip!OneDeletable
  <2>1. Skip!Level(0) = S[0] /\ Skip!Level(1) = S[1]
    BY <1>2, <1>3, LevelIs
  <2>2. PICK x : S[0] \subseteq S[1] \cup {x}
    BY <1>1 DEF SkipShape
  <2> DEFINE R == S[0] \ S[1]
  <2>3. R = {} \/ R = {x}
    BY <2>2
  <2> HIDE DEF R
  <2>4. Cardinality(R) = 0 \/ Cardinality(R) = 1
    BY <2>3, FS_EmptySet, FS_Singleton
  <2>5. Skip!Cardinality(R) = Cardinality(R)
    BY Zenon DEF Cardinality, Skip!Cardinality
  <2> QED
    BY <2>1, <2>4, <2>5 DEF Skip!OneDeletable, R
<1> QED
  BY <1>4, <1>5

(* An operation of the skip list that ends well adds a value that was not    *)
(* there or deletes one, and disturbs no other.                              *)
LEMMA SkipOneValue == ASSUME Skip!SkipAssumption, SkipInv, Skip!Next PROVE Skip!OneValue
<1> SUFFICES ASSUME status' = "ok"
             PROVE  \/ \E n \in live' \ live : /\ value'[n] \notin Skip!Contents
                                              /\ Skip!Contents' = Skip!Contents \cup {value'[n]}
                    \/ live' = live /\ \E v \in Number : Skip!Contents' = Skip!Contents \ {v}
  BY DEF Skip!OneValue
<1>1. SkipInv' /\ \E S, T : SkipShape(S) /\ SkipShape(T)' /\ Changes(S, T)
  BY SkipInvNext
<1>2. PICK S, T : SkipShape(S) /\ SkipShape(T)' /\ Changes(S, T)
  BY <1>1
<1>3. Skip!TypeOK /\ Skip!TypeOK' /\ LevelsAs(S) /\ LevelsAs(T)' /\ 0 \in Skip!Levels
  BY <1>1, <1>2 DEF SkipInv, SkipShape, Skip!Levels, Skip!SkipAssumption
<1>4. Skip!Level(0) = S[0]
  BY <1>3, LevelIs
<1>5. Skip!Level(0)' = T[0]
  BY <1>3, LevelIsThen DEF Skip!SkipAssumption, Skip!Levels
<1>6. Skip!Contents = {value[n] : n \in S[0]}
  BY <1>4 DEF Skip!Contents
<1>7. Skip!Contents' = {value'[n] : n \in T[0]}
  BY <1>5 DEF Skip!Contents
<1>8. CASE \E n \in Address, v \in Number :
              /\ n \in live' \ live /\ T[0] = S[0] \cup {n} /\ value'[n] = v
              /\ \A m \in S[0] : value'[m] = value[m] /\ value[m] # v
  <2>1. PICK n \in Address, v \in Number :
              /\ n \in live' \ live /\ T[0] = S[0] \cup {n} /\ value'[n] = v
              /\ \A m \in S[0] : value'[m] = value[m] /\ value[m] # v
    BY <1>8
  <2>2. Skip!Contents' = Skip!Contents \cup {value'[n]} /\ value'[n] \notin Skip!Contents
    BY <1>6, <1>7, <2>1
  <2> QED
    BY <2>1, <2>2
<1>9. CASE \E v \in Number : live' = live /\ value' = value /\ T[0] = {m \in S[0] : value[m] # v}
  <2>1. PICK v \in Number : live' = live /\ value' = value /\ T[0] = {m \in S[0] : value[m] # v}
    BY <1>9
  <2>2. Skip!Contents' = Skip!Contents \ {v}
    BY <1>6, <1>7, <2>1
  <2> QED
    BY <2>1, <2>2
<1> QED
  BY <1>2, <1>8, <1>9 DEF Changes
-----------------------------------------------------------------------------
(***************************************************************************)
(* The programs side by side.                                              *)
(***************************************************************************)
ListsInv ==
    /\ class \in {"ring", "sorted", "skip"}
    /\ class = "ring" => RingInv
    /\ class = "sorted" => SortedInv
    /\ class = "skip" => SkipInv
    /\ class # "ring" => tail = Nil

(* Each program starts with its own invariant. *)
LEMMA ListsInvInit == Start => ListsInv
BY RingInvInit, SortedInvInit, SkipInvInit, ListsAssumption DEF Start, ListsInv, NoRing

(* A step is one of the program that runs. *)
LEMMA ListsInvNext == ListsInv /\ [Step]_listVars => ListsInv'
<1> SUFFICES ASSUME ListsInv, [Step]_listVars PROVE ListsInv'
  OBVIOUS
<1>1. /\ RingInv /\ [Next]_vars => RingInv'
      /\ SortedInv /\ [Sorted!Next]_(Sorted!vars) => SortedInv'
      /\ SkipInv /\ [Skip!Next]_(Skip!vars) => SkipInv'
  BY RingInvNext, SortedInvNext, SkipInvStep, ListsAssumption
<1>2. CASE class = "ring" /\ Next /\ UNCHANGED <<class, value, head>>
  BY <1>1, <1>2 DEF ListsInv
<1>3. CASE class = "sorted" /\ Sorted!Next /\ UNCHANGED <<class, status, ringVars>>
  BY <1>1, <1>3 DEF ListsInv, ringVars
<1>4. CASE class = "skip" /\ Skip!Next /\ UNCHANGED <<class, head, ringVars>>
  BY <1>1, <1>4 DEF ListsInv, ringVars
<1>5. CASE UNCHANGED listVars
  <2>1. class' = class /\ tail' = tail /\ UNCHANGED vars /\ UNCHANGED Sorted!vars /\ UNCHANGED Skip!vars
    BY <1>5 DEF listVars, ringVars, vars, Sorted!vars, Skip!vars
  <2> QED
    BY <1>1, <2>1 DEF ListsInv
<1> QED
  BY <1>2, <1>3, <1>4, <1>5 DEF Step

(* The invariant holds in every state of every run. *)
LEMMA ListsInvAlways == Programs => []ListsInv
BY ListsInvInit, ListsInvNext, PTL DEF Programs

(* Every variable of the ring, the sorted list and the skip list keeps its   *)
(* type.                                                                     *)
THEOREM ListTypesKept == Programs => []ListTypes
<1>1. ListsInv => ListTypes
  BY DEF ListsInv, ListTypes, RingInv, SortedInv, SkipInv
<1> QED
  BY <1>1, ListsInvAlways, PTL

(* dump of RingList prints what its callers expect, from the first to the    *)
(* last node, as long as the last node is on the ring, and nothing else is   *)
(* allocated but what del_from_tail left behind.                             *)
THEOREM ListPrinted == Programs => []PrintsTheList
<1>1. ListsInv => PrintsTheList
  <2>1. RingInv => PrintsTheList
    BY DEF RingInv, Complete, PrintsTheList
  <2> QED
    BY <2>1 DEF ListsInv, PrintsTheList
<1> QED
  BY <1>1, ListsInvAlways, PTL

(* No operation of RingList brings a last node back that add_to_tail has put *)
(* beside the ring: the ring is printed as it is, or the program ends.       *)
THEOREM NeverRepaired == Programs => NothingRepairs
<1>1. ListsInv /\ [Step]_listVars =>
          [status = "ok" /\ Detached =>
              \/ status' = "ok" /\ Detached' /\ printed' = printed
              \/ status' \in {"loops", "undefined"}]_vars
  <2> SUFFICES ASSUME ListsInv, [Step]_listVars, ~UNCHANGED vars, status = "ok", Detached
               PROVE  \/ status' = "ok" /\ Detached' /\ printed' = printed
                      \/ status' \in {"loops", "undefined"}
    OBVIOUS
  <2>1. class = "ring" /\ RingInv
    BY DEF ListsInv, Detached
  <2>2. Next
    BY <2>1 DEF Step, listVars, ringVars, vars
  <2> QED
    BY <2>1, <2>2, DetachedStays
<1> QED
  BY <1>1, ListsInvAlways, PTL DEF Programs, NothingRepairs

(* After any operations dump of the sorted list comes to an end, meets no    *)
(* deleted node, and prints ascending values.                                *)
THEOREM SortedListAscends == Programs => []SortedAscends
<1>1. ListsInv => SortedAscends
  BY SortedInvAscends DEF ListsInv, SortedAscends
<1> QED
  BY <1>1, ListsInvAlways, PTL

(* The sorted list stays in order, and add_node cuts off exactly what is     *)
(* behind the new node, unless that is the first; del_node loses nothing.    *)
THEOREM InsertionsCut == Programs => SortedByCutting
<1>1. ListsInv /\ [Step]_listVars => [class = "sorted" => Sorted!Cuts]_listVars
  <2> SUFFICES ASSUME ListsInv, Step, class = "sorted" PROVE Sorted!Cuts
    OBVIOUS
  <2>1. SortedInv /\ Sorted!Next
    BY DEF ListsInv, Step
  <2> QED
    BY <2>1, SortedOperation, ListsAssumption
<1> QED
  BY <1>1, ListsInvAlways, SortedListAscends, PTL DEF Programs, SortedByCutting

(* As long as the program is neither stuck nor in undefined behaviour the    *)
(* levels of the skip list are finite ascending lists nested in each other,  *)
(* and all values but one at most are where to delete them is undefined.     *)
THEOREM LevelsNest == Programs => []SkipNested
<1>1. ListsInv => SkipNested
  BY SkipInvNested, ListsAssumption DEF ListsInv, SkipNested
<1> QED
  BY <1>1, ListsInvAlways, PTL

(* The levels of the skip list stay nested, and an operation that ends well  *)
(* adds a value that was not there or deletes one, and disturbs no other.    *)
THEOREM ValueByValue == Programs => SkipExact
<1>1. ListsInv /\ [Step]_listVars => [class = "skip" => Skip!OneValue]_listVars
  <2> SUFFICES ASSUME ListsInv, Step, class = "skip" PROVE Skip!OneValue
    OBVIOUS
  <2>1. SkipInv /\ Skip!Next
    BY DEF ListsInv, Step
  <2> QED
    BY <2>1, SkipOneValue, ListsAssumption
<1> QED
  BY <1>1, ListsInvAlways, LevelsNest, PTL DEF Programs, SkipExact
=============================================================================
