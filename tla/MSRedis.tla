------------------------------- MODULE MSRedis -------------------------------
(***************************************************************************)
(* The flash sale of redis学习/redis_client_Test.go.  Every client is a    *)
(* process that runs MSRedis(user, id): GET goods:id, SISMEMBER user:ms,   *)
(* SADD user:ms, DECR goods:id.  The redis server executes one command at  *)
(* a time, so a command is one step; between two commands of a client any  *)
(* other client may run.  A command may fail before or after the server    *)
(* executed it, and a client may be killed: MSRedis then stops where it is *)
(* and undoes nothing.  When a reply is lost, go-redis sends the command   *)
(* again, MaxRetries times unless the options say otherwise, and here they *)
(* do not: that is harmless for all commands but DECR.                     *)
(***************************************************************************)
EXTENDS Integers, FiniteSets

CONSTANTS Clients,  \* processes that run the program at the same time
          Users,    \* values of the user flag that pass the parameter check
          Stock,    \* value of goods:id when the sale opens
          Retries   \* times go-redis sends a command again

ASSUME ClientsAssumption == IsFiniteSet(Clients) /\ Clients # {}
ASSUME StockAssumption == Stock \in Nat
ASSUME RetriesAssumption == Retries \in Nat

VARIABLES stock,    \* the redis key goods:id
          members,  \* the redis set user:ms
          pc,       \* the command a client sends next, "idle" between two runs
          user,     \* the user a client runs for
          attempt,  \* the DECRs of this run whose reply was lost
          bought    \* history: how often DECR was executed for a user

vars == <<stock, members, pc, user, attempt, bought>>

Commands == {"get", "ismember", "sadd", "decr"}

Init ==
    /\ stock = Stock
    /\ members = {}
    /\ pc = [c \in Clients |-> "idle"]
    /\ user \in [Clients -> Users]
    /\ attempt = [c \in Clients |-> 0]
    /\ bought = [u \in Users |-> 0]

-----------------------------------------------------------------------------
GoTo(c, label) == pc' = [pc EXCEPT ![c] = label]
Attempt(c, k) == attempt' = [attempt EXCEPT ![c] = k]

\* main: the flags are parsed and MSRedis is called for some user.
Start(c) ==
    /\ pc[c] = "idle"
    /\ \E u \in Users : user' = [user EXCEPT ![c] = u]
    /\ GoTo(c, "get")
    /\ UNCHANGED <<stock, members, attempt, bought>>

\* Mutant: left is compared with < 0.
GetOffByOne(c) ==
    /\ pc[c] = "get"
    /\ GoTo(c, IF stock < 0 THEN "idle" ELSE "ismember")
    /\ UNCHANGED <<stock, members, user, attempt, bought>>

\* left is only compared with 0, before any other command is sent.
Get(c) ==
    /\ pc[c] = "get"
    /\ GoTo(c, IF stock <= 0 THEN "idle" ELSE "ismember")
    /\ UNCHANGED <<stock, members, user, attempt, bought>>

\* Mutant: the answer of SISMEMBER is not looked at.
SIsMemberIgnored(c) ==
    /\ pc[c] = "ismember"
    /\ GoTo(c, "sadd")
    /\ UNCHANGED <<stock, members, user, attempt, bought>>

SIsMember(c) ==
    /\ pc[c] = "ismember"
    /\ GoTo(c, IF user[c] \in members THEN "idle" ELSE "sadd")
    /\ UNCHANGED <<stock, members, user, attempt, bought>>

\* Mutant: the client adds its own name instead of the user's.
SAddClient(c) ==
    /\ pc[c] = "sadd"
    /\ members' = members \cup {c}
    /\ \E label \in {"decr", "idle"} : GoTo(c, label)
    /\ UNCHANGED <<stock, user, attempt, bought>>

\* Mutant: the error of SADD is not looked at.
SAddUnchecked(c) ==
    /\ pc[c] = "sadd"
    /\ members' \in {members, members \cup {user[c]}}
    /\ GoTo(c, "decr")
    /\ UNCHANGED <<stock, user, attempt, bought>>

\* The number of added members is discarded.  A lost reply is an error for
\* MSRedis, which returns although the user was added.
SAdd(c) ==
    /\ pc[c] = "sadd"
    /\ members' = members \cup {user[c]}
    /\ \E label \in {"decr", "idle"} : GoTo(c, label)
    /\ UNCHANGED <<stock, user, attempt, bought>>

\* MSRedis returns after DECR whether or not the reply arrives, unless
\* go-redis sends DECR again because it did not.
Decr(c) ==
    /\ pc[c] = "decr"
    /\ stock' = stock - 1
    /\ bought' = [bought EXCEPT ![user[c]] = @ + 1]
    /\ \/ GoTo(c, "idle") /\ Attempt(c, 0)
       \/ attempt[c] < Retries /\ Attempt(c, attempt[c] + 1) /\ UNCHANGED pc
    /\ UNCHANGED <<members, user>>

\* The command was not executed, or the client was killed before sending it.
Fail(c) ==
    /\ pc[c] \in Commands
    /\ GoTo(c, "idle")
    /\ Attempt(c, 0)
    /\ UNCHANGED <<stock, members, user, bought>>

Run(c) == Get(c) \/ SIsMember(c) \/ SAdd(c) \/ Decr(c) \/ Fail(c)

Next == \E c \in Clients : Start(c) \/ Run(c)

Spec == Init /\ [][Next]_vars

\* The go runtime and the network do not suspend a client for ever.
FairSpec == Spec /\ \A c \in Clients : WF_vars(Run(c))

-----------------------------------------------------------------------------
TypeOK ==
    /\ stock \in Int
    /\ members \in SUBSET Users
    /\ pc \in [Clients -> Commands \cup {"idle"}]
    /\ user \in [Clients -> Users]
    /\ attempt \in [Clients -> 0..Retries]
    /\ bought \in [Users -> Nat]

\* A client sends DECR at most 1 + Retries times in a run: send <<c, k>> is
\* still to come while at most k DECRs of c were executed, and c is not done.
Sends == Clients \X (0..Retries)
ToCome(s) == s[2] >= attempt[s[1]]

\* DECRs to come of the clients that saw a unit left.
Admitted == {s \in Sends : pc[s[1]] \in {"ismember", "sadd", "decr"} /\ ToCome(s)}

\* DECRs to come of the clients that did not find their user in user:ms.
Buying(u) == {s \in Sends : user[s[1]] = u /\ pc[s[1]] \in {"sadd", "decr"} /\ ToCome(s)}

MaxSends == Cardinality(Clients) * (Retries + 1)

\* GET and DECR are separate commands, so the stock may become negative, but
\* never by more than what the clients between the two can send: one of the
\* units they sell was still there at the last GET that let one of them in.
OversellBound == stock >= 1 - MaxSends

\* SISMEMBER and SADD are separate commands, so one user may be charged more
\* than once, but never more often than the concurrent clients can send DECR,
\* however many runs are started for that user.
RepeatBound == \A u \in Users : bought[u] <= MaxSends

\* SADD comes before DECR: whatever step fails, a charged user is recorded in
\* user:ms, and so can not be charged again by a run that starts later.
SoldIsRecorded == \A u \in Users : bought[u] > 0 => u \in members

\* Once the goods are sold out, the clients that read a positive stock drain
\* away and none is admitted again: the oversell stops.
SoldOutSettles == (stock <= 0) ~> [](Admitted = {})

\* One client at a time that does not send DECR again delivers what FlashSale
\* promises, with failures at any command: no oversell, one unit per user.
Sale == INSTANCE FlashSale WITH sold <- {u \in Users : bought[u] > 0}
AtomicSale == Sale!Spec

\* The strengthening that makes the two bounds inductive: every DECR to come
\* counts as a unit already gone.
SaleInv ==
    /\ TypeOK
    /\ stock - Cardinality(Admitted) >= 1 - MaxSends
    /\ \A u \in Users :
         /\ u \notin members => bought[u] = 0
         /\ bought[u] + Cardinality(Buying(u)) <= MaxSends
    /\ \A c \in Clients : pc[c] = "decr" => user[c] \in members
=============================================================================
