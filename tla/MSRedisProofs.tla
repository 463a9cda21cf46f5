--------------------------- MODULE MSRedisProofs ---------------------------
(***************************************************************************)
(* Proofs about MSRedis for any finite set of clients, any set of users,   *)
(* any stock and any number of retries.                                    *)
(***************************************************************************)
EXTENDS MSRedis, FiniteSetTheorems, TLAPS

(* MaxSends is the size of Sends. *)
LEMMA SendsCounted ==
    /\ IsFiniteSet(Sends)
    /\ Cardinality(Sends) = MaxSends
    /\ MaxSends \in Nat
    /\ MaxSends >= 1
<1>1. IsFiniteSet(0..Retries) /\ Cardinality(0..Retries) = Retries + 1
  BY RetriesAssumption, FS_Interval
<1>2. IsFiniteSet(Sends) /\ Cardinality(Sends) = MaxSends
  BY <1>1, ClientsAssumption, FS_Product DEF Sends, MaxSends
<1>3. Cardinality(Sends) \in Nat
  BY <1>2, FS_CardinalityType
<1>4. Sends # {}
  <2>1. PICK c : c \in Clients
    BY ClientsAssumption
  <2>2. 0 \in 0..Retries
    BY RetriesAssumption
  <2>3. <<c, 0>> \in Sends
    BY <2>1, <2>2 DEF Sends
  <2> QED
    BY <2>3
<1>5. Cardinality(Sends) # 0
  BY <1>2, <1>4, FS_EmptySet
<1> QED
  BY <1>2, <1>3, <1>5

(* The two sets SaleInv counts are finite and no larger than Sends. *)
LEMMA CountsBounded ==
    /\ IsFiniteSet(Admitted)
    /\ Cardinality(Admitted) \in Nat
    /\ Cardinality(Admitted) <= MaxSends
    /\ \A u : /\ IsFiniteSet(Buying(u))
              /\ Cardinality(Buying(u)) \in Nat
              /\ Cardinality(Buying(u)) <= MaxSends
<1>2. IsFiniteSet(Admitted) /\ Cardinality(Admitted) <= MaxSends
  <2>1. Admitted \in SUBSET Sends
    BY DEF Admitted
  <2> QED
    BY <2>1, SendsCounted, FS_Subset
<1>3. Cardinality(Admitted) \in Nat
  BY <1>2, FS_CardinalityType
<1>4. ASSUME NEW u
      PROVE  /\ IsFiniteSet(Buying(u))
             /\ Cardinality(Buying(u)) \in Nat
             /\ Cardinality(Buying(u)) <= MaxSends
  <2>1. Buying(u) \in SUBSET Sends
    BY DEF Buying
  <2>2. IsFiniteSet(Buying(u)) /\ Cardinality(Buying(u)) <= MaxSends
    BY <2>1, SendsCounted, FS_Subset
  <2> QED
    BY <2>2, FS_CardinalityType
<1> QED
  BY <1>2, <1>3, <1>4

(* The same in the next state. *)
LEMMA CountsBoundedNext ==
    /\ IsFiniteSet(Admitted')
    /\ Cardinality(Admitted') \in Nat
    /\ Cardinality(Admitted') <= MaxSends
    /\ \A u : /\ IsFiniteSet(Buying(u)')
              /\ Cardinality(Buying(u)') \in Nat
              /\ Cardinality(Buying(u)') <= MaxSends
<1>1. IsFiniteSet(Admitted') /\ Cardinality(Admitted') <= MaxSends
  <2>1. Admitted' \in SUBSET Sends
    BY DEF Admitted
  <2> QED
    BY <2>1, SendsCounted, FS_Subset
<1>2. Cardinality(Admitted') \in Nat
  BY <1>1, FS_CardinalityType
<1>3. ASSUME NEW u
      PROVE  /\ IsFiniteSet(Buying(u)')
             /\ Cardinality(Buying(u)') \in Nat
             /\ Cardinality(Buying(u)') <= MaxSends
  <2>1. Buying(u)' \in SUBSET Sends
    BY DEF Buying
  <2>2. IsFiniteSet(Buying(u)') /\ Cardinality(Buying(u)') <= MaxSends
    BY <2>1, SendsCounted, FS_Subset
  <2> QED
    BY <2>2, FS_CardinalityType
<1> QED
  BY <1>1, <1>2, <1>3

(* A client that leaves the program takes its sends to come with it. *)
LEMMA LeaveCounts ==
    ASSUME TypeOK, NEW c \in Clients, pc' = [pc EXCEPT ![c] = "idle"],
           attempt' = [attempt EXCEPT ![c] = 0], user' = user
    PROVE  /\ Admitted' = {s \in Admitted : s[1] # c}
           /\ \A u : Buying(u)' = {s \in Buying(u) : s[1] # c}
<1>1. \A s \in Sends : s[1] \in Clients
  BY DEF Sends
<1>2. \A s \in Sends : s[1] = c => pc'[s[1]] = "idle"
  BY DEF TypeOK
<1>3. \A s \in Sends : s[1] # c => pc'[s[1]] = pc[s[1]] /\ attempt'[s[1]] = attempt[s[1]]
  BY <1>1 DEF TypeOK
<1> QED
  BY <1>2, <1>3 DEF Admitted, Buying, ToCome

(* A DECR that was executed is not to come any more; every other send that   *)
(* is still to come was so before.                                           *)
LEMMA DecrCounts ==
    ASSUME TypeOK, NEW c \in Clients, Decr(c)
    PROVE  /\ Admitted' \subseteq Admitted \ {<<c, attempt[c]>>}
           /\ \A u : Buying(u)' \subseteq Buying(u) \ {<<c, attempt[c]>>}
           /\ <<c, attempt[c]>> \in Admitted
           /\ <<c, attempt[c]>> \in Buying(user[c])
           /\ \A u : u # user[c] => Buying(u)' \subseteq Buying(u)
<1>1. <<c, attempt[c]>> \in Admitted /\ <<c, attempt[c]>> \in Buying(user[c])
  BY DEF Decr, Admitted, Buying, ToCome, Sends, TypeOK
<1>2. CASE pc' = [pc EXCEPT ![c] = "idle"] /\ attempt' = [attempt EXCEPT ![c] = 0]
  <2>1. user' = user
    BY DEF Decr
  <2>2. /\ Admitted' = {s \in Admitted : s[1] # c}
        /\ \A u : Buying(u)' = {s \in Buying(u) : s[1] # c}
    BY <1>2, <2>1, LeaveCounts
  <2> QED
    BY <1>1, <2>2
<1>3. CASE pc' = pc /\ attempt' = [attempt EXCEPT ![c] = attempt[c] + 1]
  <2>1. \A s \in Sends : s[1] \in Clients /\ s[2] \in 0..Retries /\ s = <<s[1], s[2]>>
    BY DEF Sends
  <2>2. \A s \in Sends : s[1] = c => attempt'[s[1]] = attempt[c] + 1
    BY <1>3 DEF TypeOK
  <2>3. \A s \in Sends : s[1] # c => attempt'[s[1]] = attempt[s[1]]
    BY <1>3, <2>1 DEF TypeOK
  <2>4. attempt[c] \in 0..Retries
    BY DEF TypeOK
  <2>5. ASSUME NEW s \in Sends, s[2] >= attempt'[s[1]]
        PROVE  s[2] >= attempt[s[1]] /\ s # <<c, attempt[c]>>
    <3>1. CASE s[1] = c
      BY <2>1, <2>2, <2>4, <2>5, <3>1, RetriesAssumption
    <3>2. CASE s[1] # c
      BY <2>3, <2>5, <3>2
    <3> QED
      BY <3>1, <3>2
  <2>6. user' = user
    BY DEF Decr
  <2> QED
    BY <1>1, <1>3, <2>5, <2>6 DEF Admitted, Buying, ToCome
<1> QED
  BY <1>1, <1>2, <1>3 DEF Decr, GoTo, Attempt

-----------------------------------------------------------------------------
(* The inductive invariant: with the stock, SaleInv counts every DECR that *)
(* an admitted client may still send, so GET is the only command           *)
(* that has something to show, and it does so when the stock is positive.  *)
LEMMA SaleInvInit == Init => SaleInv
<1> SUFFICES ASSUME Init PROVE SaleInv
  OBVIOUS
<1>1. TypeOK
  BY StockAssumption, RetriesAssumption DEF Init, TypeOK
<1>2. Admitted = {} /\ \A u : Buying(u) = {}
  <2>1. \A s \in Sends : pc[s[1]] = "idle"
    BY DEF Init, Sends
  <2> QED
    BY <2>1 DEF Admitted, Buying
<1>3. Cardinality({}) = 0
  BY FS_EmptySet
<1> QED
  BY <1>1, <1>2, <1>3, SendsCounted, StockAssumption DEF Init, SaleInv

(* Every command, failure and start of a client keeps the invariant. *)
LEMMA SaleInvNext == SaleInv /\ [Next]_vars => SaleInv'
<1> SUFFICES ASSUME SaleInv, [Next]_vars PROVE SaleInv'
  OBVIOUS
<1> DEFINE N == MaxSends
<1>t. TypeOK
  BY DEF SaleInv
<1>n. N \in Nat /\ N >= 1
  BY SendsCounted
<1>1. ASSUME NEW c \in Clients, Start(c) PROVE SaleInv'
  <2>1. TypeOK'
    BY <1>1, <1>t DEF Start, GoTo, TypeOK, Commands
  <2>2. Admitted' = Admitted /\ \A u : Buying(u)' = Buying(u)
    BY <1>1, <1>t DEF Start, GoTo, TypeOK, Admitted, Buying, Sends, ToCome
  <2>3. \A d \in Clients : pc'[d] = "decr" => user'[d] \in members'
    BY <1>1, <1>t DEF Start, GoTo, TypeOK, SaleInv
  <2> QED
    BY <1>1, <2>1, <2>2, <2>3 DEF SaleInv, Start
<1>2. ASSUME NEW c \in Clients, Get(c) PROVE SaleInv'
  <2>1. TypeOK'
    BY <1>2, <1>t DEF Get, GoTo, TypeOK, Commands
  <2>2. \A u : Buying(u)' = Buying(u)
    BY <1>2, <1>t DEF Get, GoTo, TypeOK, Buying, Sends, ToCome
  <2>3. stock' - Cardinality(Admitted') >= 1 - N
    <3>1. CASE stock <= 0
      <4>1. Admitted' = Admitted
        BY <1>2, <1>t, <3>1 DEF Get, GoTo, TypeOK, Admitted, Sends, ToCome
      <4> QED
        BY <4>1, <1>2 DEF Get, SaleInv
    <3>2. CASE ~(stock <= 0)
      <4>1. stock >= 1
        BY <3>2, <1>t DEF TypeOK
      <4> QED
        BY <1>2, <1>t, <4>1, <1>n, CountsBoundedNext DEF Get, TypeOK
    <3> QED
      BY <3>1, <3>2
  <2>4. \A d \in Clients : pc'[d] = "decr" => user'[d] \in members'
    BY <1>2, <1>t DEF Get, GoTo, TypeOK, SaleInv
  <2> QED
    BY <1>2, <2>1, <2>2, <2>3, <2>4 DEF SaleInv, Get
<1>3. ASSUME NEW c \in Clients, SIsMember(c) PROVE SaleInv'
  <2>1. TypeOK'
    BY <1>3, <1>t DEF SIsMember, GoTo, TypeOK, Commands
  <2>2. Cardinality(Admitted') <= Cardinality(Admitted)
    <3>1. Admitted' \subseteq Admitted
      BY <1>3, <1>t DEF SIsMember, GoTo, TypeOK, Admitted, Sends, ToCome
    <3> QED
      BY <3>1, CountsBounded, FS_Subset
  <2>3. ASSUME NEW u \in Users
        PROVE  bought[u] + Cardinality(Buying(u)') <= N
    <3>1. CASE u \in members \/ u # user[c]
      <4>1. Buying(u)' = Buying(u)
        BY <1>3, <1>t, <3>1 DEF SIsMember, GoTo, TypeOK, Buying, Sends, ToCome
      <4> QED
        BY <4>1 DEF SaleInv
    <3>2. CASE u \notin members
      BY <3>2, CountsBoundedNext, <1>n DEF SaleInv
    <3> QED
      BY <3>1, <3>2
  <2>4. \A d \in Clients : pc'[d] = "decr" => user'[d] \in members'
    BY <1>3, <1>t DEF SIsMember, GoTo, TypeOK, SaleInv
  <2>5. stock' - Cardinality(Admitted') >= 1 - N
    BY <1>3, <2>2, <1>t, <1>n, CountsBounded, CountsBoundedNext
       DEF SIsMember, SaleInv, TypeOK
  <2> QED
    BY <1>3, <2>1, <2>3, <2>4, <2>5 DEF SaleInv, SIsMember
<1>4. ASSUME NEW c \in Clients, SAdd(c) PROVE SaleInv'
  <2>1. TypeOK'
    BY <1>4, <1>t DEF SAdd, GoTo, TypeOK, Commands
  <2>2. Admitted' \subseteq Admitted /\ \A u : Buying(u)' \subseteq Buying(u)
    BY <1>4, <1>t DEF SAdd, GoTo, TypeOK, Admitted, Buying, Sends, ToCome
  <2>3. /\ Cardinality(Admitted') <= Cardinality(Admitted)
        /\ \A u : Cardinality(Buying(u)') <= Cardinality(Buying(u))
    BY <2>2, CountsBounded, FS_Subset
  <2>4. \A d \in Clients : pc'[d] = "decr" => user'[d] \in members'
    BY <1>4, <1>t DEF SAdd, GoTo, TypeOK, SaleInv
  <2>5. stock' - Cardinality(Admitted') >= 1 - N
    BY <1>4, <2>3, <1>t, <1>n, CountsBounded, CountsBoundedNext
       DEF SAdd, SaleInv, TypeOK
  <2>6. ASSUME NEW u \in Users
        PROVE  /\ u \notin members' => bought'[u] = 0
               /\ bought'[u] + Cardinality(Buying(u)') <= N
    BY <1>4, <2>3, <1>t, <1>n, CountsBounded, CountsBoundedNext
       DEF SAdd, SaleInv, TypeOK
  <2> QED
    BY <2>1, <2>4, <2>5, <2>6 DEF SaleInv
<1>5. ASSUME NEW c \in Clients, Decr(c) PROVE SaleInv'
  <2> DEFINE sent == <<c, attempt[c]>>
  <2>1. TypeOK'
    <3>1. attempt' \in [Clients -> 0..Retries]
      BY <1>5, <1>t, RetriesAssumption DEF Decr, Attempt, TypeOK
    <3> QED
      BY <1>5, <1>t, <3>1 DEF Decr, GoTo, TypeOK
  <2>2. /\ Admitted' \subseteq Admitted \ {sent}
        /\ sent \in Admitted
        /\ sent \in Buying(user[c])
        /\ \A u : Buying(u)' \subseteq Buying(u) \ {sent}
        /\ \A u : u # user[c] => Buying(u)' \subseteq Buying(u)
    BY <1>5, <1>t, DecrCounts
  <2> HIDE DEF sent
  <2>3. stock' - Cardinality(Admitted') >= 1 - N
    <3>1. IsFiniteSet(Admitted \ {sent}) /\ Cardinality(Admitted \ {sent}) = Cardinality(Admitted) - 1
      BY <2>2, CountsBounded, FS_RemoveElement
    <3>2. Cardinality(Admitted') <= Cardinality(Admitted) - 1
      BY <2>2, <3>1, FS_Subset
    <3> QED
      BY <1>5, <3>2, <1>t, <1>n, CountsBounded, CountsBoundedNext DEF Decr, SaleInv, TypeOK
  <2>6. ASSUME NEW u \in Users
        PROVE  /\ u \notin members' => bought'[u] = 0
               /\ bought'[u] + Cardinality(Buying(u)') <= N
    <3>1. CASE u = user[c]
      <4>1. u \in members'
        BY <1>5, <3>1 DEF Decr, SaleInv
      <4>2. bought'[u] = bought[u] + 1
        BY <1>5, <1>t, <3>1 DEF Decr, TypeOK
      <4>3. sent \in Buying(u)
        BY <2>2, <3>1
      <4>4. IsFiniteSet(Buying(u) \ {sent}) /\ Cardinality(Buying(u) \ {sent}) = Cardinality(Buying(u)) - 1
        BY <4>3, CountsBounded, FS_RemoveElement
      <4>5. Cardinality(Buying(u)') <= Cardinality(Buying(u)) - 1
        BY <2>2, <4>4, FS_Subset
      <4>6. /\ bought[u] + Cardinality(Buying(u)) <= N
            /\ bought[u] \in Nat
            /\ Cardinality(Buying(u)) \in Nat
            /\ Cardinality(Buying(u)') \in Nat
        BY <1>t, CountsBounded, CountsBoundedNext DEF SaleInv, TypeOK
      <4> QED
        BY <4>1, <4>2, <4>5, <4>6, <1>n
    <3>2. CASE u # user[c]
      <4>1. Cardinality(Buying(u)') <= Cardinality(Buying(u))
        BY <2>2, <3>2, CountsBounded, FS_Subset
      <4>2. bought'[u] = bought[u] /\ bought[u] \in Nat
        BY <1>5, <1>t, <3>2 DEF Decr, TypeOK
      <4> QED
        BY <4>1, <4>2, <1>5, <1>n, CountsBounded, CountsBoundedNext DEF Decr, SaleInv
    <3> QED
      BY <3>1, <3>2
  <2>7. \A d \in Clients : pc'[d] = "decr" => user'[d] \in members'
    BY <1>5, <1>t DEF Decr, GoTo, TypeOK, SaleInv
  <2> QED
    BY <2>1, <2>3, <2>6, <2>7 DEF SaleInv
<1>6. ASSUME NEW c \in Clients, Fail(c) PROVE SaleInv'
  <2>1. TypeOK'
    BY <1>6, <1>t, RetriesAssumption DEF Fail, GoTo, Attempt, TypeOK
  <2>2. Admitted' \subseteq Admitted /\ \A u : Buying(u)' \subseteq Buying(u)
    BY <1>6, <1>t, LeaveCounts DEF Fail, GoTo, Attempt
  <2>3. /\ Cardinality(Admitted') <= Cardinality(Admitted)
        /\ \A u : Cardinality(Buying(u)') <= Cardinality(Buying(u))
    BY <2>2, CountsBounded, FS_Subset
  <2>4. \A d \in Clients : pc'[d] = "decr" => user'[d] \in members'
    BY <1>6, <1>t DEF Fail, GoTo, TypeOK, SaleInv
  <2>5. stock' - Cardinality(Admitted') >= 1 - N
    BY <1>6, <2>3, <1>t, <1>n, CountsBounded, CountsBoundedNext
       DEF Fail, SaleInv, TypeOK
  <2>6. ASSUME NEW u \in Users
        PROVE  /\ u \notin members' => bought'[u] = 0
               /\ bought'[u] + Cardinality(Buying(u)') <= N
    BY <1>6, <2>3, <1>t, <1>n, CountsBounded, CountsBoundedNext
       DEF Fail, SaleInv, TypeOK
  <2> QED
    BY <2>1, <2>4, <2>5, <2>6 DEF SaleInv
<1>7. CASE UNCHANGED vars
  BY <1>7 DEF vars, SaleInv, TypeOK, Admitted, Buying, ToCome
<1> QED
  BY <1>1, <1>2, <1>3, <1>4, <1>5, <1>6, <1>7 DEF Next, Run

(* The inductive invariant of the sale holds in every behaviour. *)
LEMMA SaleInvariant == Spec => []SaleInv
  BY SaleInvInit, SaleInvNext, PTL DEF Spec

-----------------------------------------------------------------------------
(* The types of the redis keys and of the clients' states. *)
THEOREM TypeCorrect == Spec => []TypeOK
<1>1. SaleInv => TypeOK
  BY DEF SaleInv
<1> QED
  BY <1>1, SaleInvariant, PTL

(* However the clients interleave and fail, GET and DECR being separate     *)
(* commands sells fewer units too many than the clients can send DECRs.     *)
THEOREM OversellBounded == Spec => []OversellBound
<1>1. SaleInv => OversellBound
  BY SendsCounted, CountsBounded DEF SaleInv, TypeOK, OversellBound
<1> QED
  BY <1>1, SaleInvariant, PTL

(* SISMEMBER and SADD being separate commands charges a user at most once   *)
(* per DECR of a concurrent client, however many runs are started.          *)
THEOREM RepeatBounded == Spec => []RepeatBound
<1>1. SaleInv => RepeatBound
  BY SendsCounted, CountsBounded DEF SaleInv, TypeOK, RepeatBound
<1> QED
  BY <1>1, SaleInvariant, PTL

(* A user is recorded in user:ms before being charged, whatever fails. *)
THEOREM ChargedUsersRecorded == Spec => []SoldIsRecorded
<1>1. SaleInv => SoldIsRecorded
  BY DEF SaleInv, TypeOK, SoldIsRecorded
<1> QED
  BY <1>1, SaleInvariant, PTL

-----------------------------------------------------------------------------
(* DECR is the only step in which a user gets a unit; with one client and   *)
(* no retries it finds the stock positive and the user not yet charged.     *)
LEMMA SerialDecrIsSell ==
    ASSUME Cardinality(Clients) = 1, Retries = 0, SaleInv,
           NEW c \in Clients, NEW u \in Users, u = user[c], Decr(c)
    PROVE  Sale!Sell(u)
<1>t. TypeOK
  BY DEF SaleInv
<1>1. u \in Users /\ bought' = [bought EXCEPT ![u] = @ + 1] /\ stock' = stock - 1
  BY DEF Decr
<1>2. Cardinality(Admitted) # 0 /\ Cardinality(Buying(u)) # 0
  <2>1. <<c, attempt[c]>> \in Admitted /\ <<c, attempt[c]>> \in Buying(u)
    BY <1>t, DecrCounts
  <2> QED
    BY <2>1, CountsBounded, FS_EmptySet
<1>m. MaxSends = 1
  BY DEF MaxSends
<1>3. stock > 0
  <2>1. stock - Cardinality(Admitted) >= 1 - 1 /\ stock \in Int
    BY <1>t, <1>m DEF SaleInv, TypeOK
  <2>2. Cardinality(Admitted) \in Nat
    BY CountsBounded
  <2> QED
    BY <1>2, <2>1, <2>2
<1>4. bought[u] = 0
  <2>1. bought[u] + Cardinality(Buying(u)) <= 1 /\ bought[u] \in Nat
    BY <1>1, <1>t, <1>m DEF SaleInv, TypeOK
  <2>2. Cardinality(Buying(u)) \in Nat
    BY CountsBounded
  <2> QED
    BY <1>2, <2>1, <2>2
<1>5. {v \in Users : bought'[v] > 0} = {v \in Users : bought[v] > 0} \cup {u}
  <2>1. bought'[u] = 1
    BY <1>1, <1>4, <1>t DEF TypeOK
  <2>2. \A v \in Users : v # u => bought'[v] = bought[v]
    BY <1>1, <1>t DEF TypeOK
  <2> QED
    BY <1>1, <2>1, <2>2
<1> QED
  BY <1>1, <1>3, <1>4, <1>5 DEF Sale!Sell

(* With one client at a time, failures included, MSRedis implements the     *)
(* atomic sale: no oversell, one unit per user.                             *)
THEOREM SerialImplementsSale ==
    ASSUME Cardinality(Clients) = 1, Retries = 0
    PROVE  Spec => AtomicSale
<1>1. Init => Sale!Init
  BY StockAssumption DEF Init, Sale!Init
<1>2. SaleInv /\ [Next]_vars
        => [Sale!Next]_<<stock, {u \in Users : bought[u] > 0}>>
  <2> SUFFICES ASSUME SaleInv, [Next]_vars
               PROVE  [Sale!Next]_<<stock, {u \in Users : bought[u] > 0}>>
    OBVIOUS
  <2>1. ASSUME NEW c \in Clients, Decr(c) PROVE Sale!Next
    <3>1. user[c] \in Users
      BY DEF SaleInv, TypeOK
    <3>2. PICK u \in Users : u = user[c]
      BY <3>1
    <3>3. Sale!Sell(u)
      BY <2>1, <3>2, SerialDecrIsSell
    <3> QED
      BY <3>3 DEF Sale!Next
  <2>2. ASSUME NEW c \in Clients,
               Start(c) \/ Get(c) \/ SIsMember(c) \/ SAdd(c) \/ Fail(c)
        PROVE  UNCHANGED <<stock, bought>>
    BY <2>2 DEF Start, Get, SIsMember, SAdd, Fail
  <2>3. CASE UNCHANGED vars
    BY <2>3 DEF vars
  <2> QED
    BY <2>1, <2>2, <2>3 DEF Next, Run
<1> QED
  BY <1>1, <1>2, SaleInvariant, PTL DEF Spec, AtomicSale, Sale!Spec
=============================================================================
