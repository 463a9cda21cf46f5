------------------------- MODULE SockRedirectProofs -------------------------
(***************************************************************************)
(* Proofs about SockRedirect for any set of clients and any number of      *)
(* messages.                                                               *)
(***************************************************************************)
EXTENDS SockRedirect, SequenceTheorems, TLAPS

(* Concatenation of sequences of message numbers is associative. *)
LEMMA Concat ==
    ASSUME NEW d \in Seq(Nat), NEW f \in Seq(Nat), NEW q \in Seq(Nat)
    PROVE  (d \o f) \o q = d \o (f \o q)
OBVIOUS

(* Append is concatenation. *)
LEMMA AppendLast == \A q \in Seq(Nat), x \in Nat : Append(q, x) = q \o <<x>>
BY AppendIsConcat

(* What joins the queue joins the whole. *)
LEMMA ConcatLast ==
    ASSUME NEW d \in Seq(Nat), NEW f \in Seq(Nat), NEW q \in Seq(Nat), NEW t \in Seq(Nat)
    PROVE  d \o f \o (q \o t) = (d \o f \o q) \o t
<1> DEFINE x == d \o f
<1>1. x \in Seq(Nat)
  OBVIOUS
<1> HIDE DEF x
<1>2. (x \o q) \o t = x \o (q \o t)
  BY <1>1, Concat
<1> QED
  BY <1>2 DEF x

(* A message that is judged leaves the queue and joins what was passed on. *)
LEMMA Judged ==
    ASSUME NEW d \in Seq(Nat), NEW f \in Seq(Nat), NEW h \in Nat, NEW t \in Seq(Nat)
    PROVE  /\ d \o Append(f, h) \o t = d \o f \o (<<h>> \o t)
           /\ f = <<>> => Append(d, h) \o f \o t = d \o f \o (<<h>> \o t)
<1>1. <<h>> \in Seq(Nat) /\ Append(f, h) = f \o <<h>> /\ Append(d, h) = d \o <<h>>
  BY AppendLast
<1>2. <<h>> \o t \in Seq(Nat) /\ f \o <<h>> \in Seq(Nat) /\ d \o <<h>> \in Seq(Nat)
  BY <1>1, ConcatProperties
<1>3. d \o f \o (<<h>> \o t) = d \o (f \o (<<h>> \o t))
  <2> DEFINE x == <<h>> \o t
  <2>1. x \in Seq(Nat)
    BY <1>2
  <2> HIDE DEF x
  <2>2. (d \o f) \o x = d \o (f \o x)
    BY <2>1, Concat
  <2> QED
    BY <2>2 DEF x
<1>4. f \o (<<h>> \o t) = (f \o <<h>>) \o t
  BY <1>1, Concat
<1>5. d \o ((f \o <<h>>) \o t) = d \o (f \o <<h>>) \o t
  <2> DEFINE x == f \o <<h>>
  <2>1. x \in Seq(Nat)
    BY <1>2
  <2> HIDE DEF x
  <2>2. (d \o x) \o t = d \o (x \o t)
    BY <2>1, Concat
  <2> QED
    BY <2>2 DEF x
<1>6. d \o Append(f, h) \o t = d \o f \o (<<h>> \o t)
  BY <1>1, <1>3, <1>4, <1>5
<1>7. ASSUME f = <<>> PROVE Append(d, h) \o f \o t = d \o f \o (<<h>> \o t)
  <2>1. (d \o <<h>>) \o f = d \o <<h>> /\ d \o f = d
    BY <1>2, <1>7, ConcatEmptySeq
  <2>2. d \o (<<h>> \o t) = (d \o <<h>>) \o t
    BY <1>1, Concat
  <2> QED
    BY <1>1, <2>1, <2>2
<1> QED
  BY <1>6, <1>7

(* What is judged first and what comes later make the queue. *)
LEMMA HeadTail ==
    ASSUME NEW q \in Seq(Nat), q # <<>>
    PROVE  Head(q) \in Nat /\ Tail(q) \in Seq(Nat) /\ q = <<Head(q)>> \o Tail(q)
OBVIOUS

(* A message that is sent comes after all the others. *)
LEMMA SentLast ==
    ASSUME NEW d \in Seq(Nat), NEW f \in Seq(Nat), NEW q \in Seq(Nat), NEW m \in Nat
    PROVE  d \o f \o Append(q, m) = Append(d \o f \o q, m)
<1>1. <<m>> \in Seq(Nat) /\ d \o f \o q \in Seq(Nat)
  BY ConcatProperties
<1>2. Append(q, m) = q \o <<m>> /\ Append(d \o f \o q, m) = (d \o f \o q) \o <<m>>
  BY <1>1, AppendLast
<1>3. d \o f \o (q \o <<m>>) = (d \o f \o q) \o <<m>>
  BY <1>1, ConcatLast
<1> QED
  BY <1>2, <1>3

(* The numbers up to the one that follows. *)
LEMMA OneMore ==
    ASSUME NEW n \in Nat
    PROVE  Append([k \in 1..n |-> k], n + 1) = [k \in 1..n + 1 |-> k]
<1> DEFINE s == [k \in 1..n |-> k]
           m == n + 1
<1>1. s \in Seq(Nat) /\ Len(s) = n /\ m \in Nat /\ \A k \in 1..n : s[k] = k
  OBVIOUS
<1>2. m = n + 1 /\ \A k \in 1..m : k = m \/ k \in 1..n
  OBVIOUS
<1> HIDE DEF s, m
<1>3. /\ Append(s, m) \in Seq(Nat) /\ Len(Append(s, m)) = m
      /\ Append(s, m)[m] = m /\ \A k \in 1..n : Append(s, m)[k] = k
  BY <1>1, <1>2, AppendProperties
<1>4. \A k \in 1..m : Append(s, m)[k] = k
  BY <1>2, <1>3
<1> DEFINE u == [k \in 1..m |-> k]
<1>5. u \in Seq(Nat) /\ Len(u) = m /\ \A k \in 1..m : u[k] = k
  BY <1>1
<1> HIDE DEF u
<1>6. Append(s, m) = u
  BY <1>1, <1>3, <1>4, <1>5, SeqEqual
<1> QED
  BY <1>6 DEF s, m, u

-----------------------------------------------------------------------------
(* What the maps hold: the client that was stored last, as long as it is     *)
(* there, and the remote socket from the first round of the loop on.         *)
MapsInv ==
    /\ \A c \in Clients : turn[c] <= turns
    /\ sock_store # None => turns >= 1 /\ turn[sock_store] = turns
    /\ pc = "exit" => sock_store = None /\ sock_redir = FALSE
    /\ pc # "exit" /\ ~sock_redir =>
         /\ turns = 0 \/ (turns = 1 /\ pc = "redir")
         /\ \A c \in Clients : forwarded[c] = <<>>

(* A client that waits has not been stored, and waits once. *)
WaitInv ==
    /\ \A c \in Clients : conn[c] = "out" => turn[c] = 0
    /\ \A k \in DOMAIN backlog : conn[backlog[k]] # "out" /\ turn[backlog[k]] = 0
    /\ \A k, l \in DOMAIN backlog : backlog[k] = backlog[l] => k = l
    /\ pc = "store" => /\ accepted_sock \in Clients
                       /\ conn[accepted_sock] # "out" /\ turn[accepted_sock] = 0
                       /\ \A k \in DOMAIN backlog : backlog[k] # accepted_sock

(* Only a client that was stored is owed an answer. *)
AskedInv ==
    /\ \A k \in DOMAIN asked : turn[asked[k]] >= 1
    /\ \A k \in DOMAIN answers : turn[answers[k]] >= 1

SockInv == TypeOK /\ MapsInv /\ WaitInv /\ AskedInv /\ AnswersGoForward /\ InOrder

(* At the start nobody is connected. *)
LEMMA SockInvInit == Init => SockInv
<1> SUFFICES ASSUME Init PROVE SockInv
  OBVIOUS
<1>1. TypeOK
  <2>1. \A S : <<>> \in Seq(S)
    OBVIOUS
  <2>2. /\ queue \in [Clients -> Seq(Nat)] /\ sent \in [Clients -> Nat]
        /\ dropped \in [Clients -> Seq(Nat)] /\ forwarded \in [Clients -> Seq(Nat)]
        /\ received \in [Clients -> Seq(Clients)] /\ turn \in [Clients -> Nat]
        /\ conn \in [Clients -> {"out", "open", "closed"}]
    BY <2>1 DEF Init
  <2>3. backlog \in Seq(Clients) /\ asked \in Seq(Clients) /\ answers \in Seq(Clients) /\ turns \in Nat
    BY <2>1 DEF Init
  <2> QED
    BY <2>2, <2>3 DEF Init, TypeOK
<1>2. MapsInv
  BY DEF Init, MapsInv
<1>3. WaitInv /\ AskedInv
  BY DEF Init, WaitInv, AskedInv
<1>4. AnswersGoForward
  BY DEF Init, AnswersGoForward
<1>5. InOrder
  <2>1. [k \in 1..0 |-> k] = <<>>
    OBVIOUS
  <2>2. <<>> \o <<>> \o <<>> = <<>>
    OBVIOUS
  <2> QED
    BY <2>1, <2>2 DEF Init, InOrder
<1> QED
  BY <1>1, <1>2, <1>3, <1>4, <1>5 DEF SockInv

(* The loop stores nobody twice. *)
LEMMA Stored ==
    ASSUME SockInv, Store
    PROVE  /\ accepted_sock \in Clients /\ turn[accepted_sock] = 0 /\ turns \in Nat
           /\ turns' = turns + 1 /\ turn' \in [Clients -> Nat] /\ turn'[accepted_sock] = turns + 1
           /\ \A c \in Clients : c # accepted_sock => turn'[c] = turn[c]
           /\ \A c \in Clients : turn[c] # 0 => turn'[c] = turn[c]
<1>1. accepted_sock \in Clients /\ turn[accepted_sock] = 0 /\ turn \in [Clients -> Nat] /\ turns \in Nat
  BY DEF SockInv, WaitInv, TypeOK, Store
<1>2. turns' = turns + 1 /\ turn' = [turn EXCEPT ![accepted_sock] = turns + 1]
  BY DEF Store
<1> QED
  BY <1>1, <1>2

(* Messages and answers stay what they are, wherever they go. *)
LEMMA TypeNext == ASSUME SockInv, Next PROVE TypeOK'
<1>0. TypeOK
  BY DEF SockInv
<1> USE DEF loader, maps, net, server, passed
<1>1. ASSUME NEW c \in Clients, Connect(c) PROVE TypeOK'
  <2>1. conn' \in [Clients -> {"out", "open", "closed"}]
    BY <1>0, <1>1 DEF Connect, TypeOK
  <2>2. backlog' \in Seq(Clients)
    <3>1. backlog \in Seq(Clients) /\ backlog' = Append(backlog, c)
      BY <1>0, <1>1 DEF Connect, TypeOK
    <3> QED
      BY <3>1, AppendProperties
  <2>3. UNCHANGED <<loader, maps, queue, sent, server, passed>>
    BY <1>1 DEF Connect
  <2>4. /\ pc' = pc /\ accepted_sock' = accepted_sock /\ turn' = turn /\ turns' = turns
        /\ sock_store' = sock_store /\ sock_redir' = sock_redir /\ queue' = queue /\ sent' = sent
        /\ asked' = asked /\ answers' = answers /\ dropped' = dropped /\ forwarded' = forwarded
        /\ received' = received
    BY <2>3
  <2> QED
    BY <1>0, <2>1, <2>2, <2>4 DEF TypeOK
<1>2. ASSUME NEW c \in Clients, Send(c) PROVE TypeOK'
  <2>1. sent[c] + 1 \in Nat /\ Append(queue[c], sent[c] + 1) \in Seq(Nat)
    <3>1. sent[c] \in Nat /\ queue[c] \in Seq(Nat)
      BY <1>0 DEF TypeOK
    <3>2. sent[c] + 1 \in Nat
      BY <3>1
    <3> QED
      BY <3>1, <3>2, AppendProperties
  <2>2. queue' \in [Clients -> Seq(Nat)] /\ sent' \in [Clients -> Nat]
    BY <1>0, <1>2, <2>1 DEF Send, TypeOK
  <2> QED
    BY <1>0, <1>2, <2>2 DEF Send, TypeOK
<1>3. ASSUME NEW c \in Clients, Close(c) PROVE TypeOK'
  <2>1. conn' \in [Clients -> {"out", "open", "closed"}]
    BY <1>0, <1>3 DEF Close, TypeOK
  <2> QED
    BY <1>0, <1>3, <2>1 DEF Close, TypeOK
<1>4. ASSUME NEW c \in Clients, Reset(c) PROVE TypeOK'
  BY <1>0, <1>4 DEF Reset, TypeOK
<1>5. CASE Accept
  <2>1. Head(backlog) \in Clients /\ Tail(backlog) \in Seq(Clients)
    BY <1>0, <1>5 DEF Accept, TypeOK
  <2> QED
    BY <1>0, <1>5, <2>1 DEF Accept, TypeOK
<1>6. CASE StoreFails \/ RedirFails \/ Redir \/ Wake
  BY <1>0, <1>6 DEF StoreFails, RedirFails, Redir, Wake, TypeOK
<1>7. CASE Store
  <2>1. turn' \in [Clients -> Nat] /\ turns' \in Nat
    BY <1>7, Stored
  <2> QED
    BY <1>0, <1>7, <2>1 DEF Store, TypeOK
<1>8. ASSUME NEW c \in Clients, VerdictToServer(c) PROVE TypeOK'
  <2>1. /\ queue[c] \in Seq(Nat) /\ queue[c] # <<>> /\ dropped[c] \in Seq(Nat)
        /\ forwarded[c] \in Seq(Nat)
    BY <1>0, <1>8 DEF VerdictToServer, TypeOK
  <2>2. /\ Tail(queue[c]) \in Seq(Nat) /\ Append(forwarded[c], Head(queue[c])) \in Seq(Nat)
        /\ Append(dropped[c], Head(queue[c])) \in Seq(Nat)
    <3>1. Head(queue[c]) \in Nat /\ Tail(queue[c]) \in Seq(Nat)
      BY <2>1, HeadTail
    <3> QED
      BY <2>1, <3>1, AppendProperties
  <2>3. queue' \in [Clients -> Seq(Nat)]
    BY <1>0, <1>8, <2>2 DEF VerdictToServer, TypeOK
  <2>4. forwarded' \in [Clients -> Seq(Nat)] /\ dropped' \in [Clients -> Seq(Nat)]
    BY <1>0, <1>8, <2>2 DEF VerdictToServer, TypeOK
  <2>5. asked' \in Seq(Clients)
    <3>1. asked \in Seq(Clients) /\ (asked' = asked \/ asked' = Append(asked, c))
      BY <1>0, <1>8 DEF VerdictToServer, TypeOK
    <3> QED
      BY <3>1, AppendProperties
  <2>6. UNCHANGED <<loader, maps, backlog, conn, sent, answers, received>>
    BY <1>8 DEF VerdictToServer
  <2> QED
    BY <1>0, <2>3, <2>4, <2>5, <2>6 DEF TypeOK
<1>9. CASE Answer
  <2>1. asked' \in Seq(Clients) /\ answers' \in Seq(Clients)
    BY <1>0, <1>9 DEF Answer, TypeOK
  <2> QED
    BY <1>0, <1>9, <2>1 DEF Answer, TypeOK
<1>10. CASE VerdictToClient
  <2>1. answers' \in Seq(Clients) /\ Head(answers) \in Clients
    BY <1>0, <1>10 DEF VerdictToClient, TypeOK
  <2>2. received' \in [Clients -> Seq(Clients)]
    <3>1. \A c \in Clients : Append(received[c], Head(answers)) \in Seq(Clients)
      BY <1>0, <2>1 DEF TypeOK
    <3> QED
      BY <1>0, <1>10, <3>1 DEF VerdictToClient, TypeOK
  <2> QED
    BY <1>0, <1>10, <2>1, <2>2 DEF VerdictToClient, TypeOK
<1> QED
  BY <1>1, <1>2, <1>3, <1>4, <1>5, <1>6, <1>7, <1>8, <1>9, <1>10
     DEF Next, main, bpf_prog_verdict, Peers

(* Whoever is stored takes the place of the client before. *)
LEMMA MapsNext == ASSUME SockInv, Next PROVE MapsInv'
<1>0. MapsInv /\ turn \in [Clients -> Nat] /\ turns \in Nat
  BY DEF SockInv, TypeOK
<1> USE DEF loader, maps, net, server, passed
<1>1. ASSUME NEW c \in Clients, Connect(c) \/ Send(c) \/ Close(c) \/ Reset(c) PROVE MapsInv'
  BY <1>0, <1>1 DEF Connect, Send, Close, Reset, MapsInv
<1>2. CASE Answer \/ VerdictToClient
  BY <1>0, <1>2 DEF Answer, VerdictToClient, MapsInv
<1>3. CASE Accept \/ StoreFails
  BY <1>0, <1>3 DEF Accept, StoreFails, MapsInv
<1>4. CASE Store
  <2>1. /\ accepted_sock \in Clients /\ turns' = turns + 1 /\ turn'[accepted_sock] = turns + 1
        /\ \A c \in Clients : c # accepted_sock => turn'[c] = turn[c]
    BY <1>4, Stored
  <2>2. /\ pc = "store" /\ pc' = "redir" /\ sock_store' = accepted_sock /\ sock_redir' = sock_redir
        /\ forwarded' = forwarded
    BY <1>4 DEF Store
  <2>3. \A c \in Clients : turn'[c] <= turns'
    BY <1>0, <2>1 DEF MapsInv
  <2>4. turns' >= 1 /\ turn'[sock_store'] = turns'
    BY <1>0, <2>1, <2>2
  <2>5. ~sock_redir => turns' = 1 /\ \A c \in Clients : forwarded[c] = <<>>
    BY <1>0, <2>1, <2>2 DEF MapsInv
  <2> QED
    BY <2>2, <2>3, <2>4, <2>5 DEF MapsInv
<1>5. CASE RedirFails \/ Redir \/ Wake
  BY <1>0, <1>5 DEF RedirFails, Redir, Wake, MapsInv
<1>6. ASSUME NEW c \in Clients, VerdictToServer(c) PROVE MapsInv'
  <2>1. UNCHANGED <<pc, turn, turns, sock_store, sock_redir>>
    BY <1>6 DEF VerdictToServer
  <2>2. ~sock_redir => forwarded' = forwarded
    BY <1>6 DEF VerdictToServer
  <2> QED
    BY <1>0, <2>1, <2>2 DEF MapsInv
<1> QED
  BY <1>1, <1>2, <1>3, <1>4, <1>5, <1>6 DEF Next, main, bpf_prog_verdict, Peers

-----------------------------------------------------------------------------
(* The entries of a queue of clients that one more joins. *)
LEMMA AtAppend ==
    ASSUME NEW s \in Seq(Clients), NEW x \in Clients
    PROVE  \A k \in DOMAIN Append(s, x) :
              \/ k \in DOMAIN s /\ Append(s, x)[k] = s[k]
              \/ k = Len(s) + 1 /\ k \notin DOMAIN s /\ Append(s, x)[k] = x
<1>1. DOMAIN s = 1..Len(s) /\ Len(s) \in Nat
  BY LenProperties
<1>2. /\ DOMAIN Append(s, x) = 1..Len(s) + 1
      /\ Append(s, x)[Len(s) + 1] = x /\ \A k \in 1..Len(s) : Append(s, x)[k] = s[k]
  BY AppendProperties, LenProperties
<1>3. \A k \in 1..Len(s) + 1 : k \in 1..Len(s) \/ (k = Len(s) + 1 /\ k \notin 1..Len(s))
  BY <1>1
<1> QED
  BY <1>1, <1>2, <1>3

(* The entries of a queue of clients that the first one leaves. *)
LEMMA AtTail ==
    ASSUME NEW s \in Seq(Clients), s # <<>>
    PROVE  /\ Head(s) = s[1] /\ 1 \in DOMAIN s /\ s[1] \in Clients /\ Tail(s) \in Seq(Clients)
           /\ \A k \in DOMAIN Tail(s) : k \in Nat /\ k >= 1 /\ k + 1 \in DOMAIN s /\ Tail(s)[k] = s[k + 1]
OBVIOUS

(* A client waits for accept once, and is stored once. *)
LEMMA WaitNext == ASSUME SockInv, Next PROVE WaitInv'
<1>0. /\ WaitInv /\ turn \in [Clients -> Nat] /\ backlog \in Seq(Clients)
      /\ conn \in [Clients -> {"out", "open", "closed"}]
      /\ \A k \in DOMAIN backlog : backlog[k] \in Clients
  BY DEF SockInv, TypeOK
<1> USE DEF loader, maps, net, server, passed
<1>1. ASSUME NEW c \in Clients, Connect(c) PROVE WaitInv'
  <2>1. /\ conn[c] = "out" /\ backlog' = Append(backlog, c)
        /\ pc' = pc /\ accepted_sock' = accepted_sock /\ turn' = turn
        /\ conn'[c] = "open" /\ \A d \in Clients : d # c => conn'[d] = conn[d]
    BY <1>0, <1>1 DEF Connect
  <2>2. turn[c] = 0 /\ \A k \in DOMAIN backlog : backlog[k] # c
    BY <1>0, <2>1 DEF WaitInv
  <2>3. pc = "store" => accepted_sock # c
    BY <1>0, <2>1 DEF WaitInv
  <2>4. \A k \in DOMAIN backlog' : \/ k \in DOMAIN backlog /\ backlog'[k] = backlog[k]
                                   \/ k = Len(backlog) + 1 /\ k \notin DOMAIN backlog /\ backlog'[k] = c
    BY <1>0, <2>1, AtAppend
  <2>5. \A d \in Clients : conn'[d] = "out" => turn'[d] = 0
    BY <1>0, <2>1 DEF WaitInv
  <2>6. \A k \in DOMAIN backlog' : conn'[backlog'[k]] # "out" /\ turn'[backlog'[k]] = 0
    BY <1>0, <2>1, <2>2, <2>4 DEF WaitInv
  <2>7. \A k, l \in DOMAIN backlog' : backlog'[k] = backlog'[l] => k = l
    BY <1>0, <2>2, <2>4 DEF WaitInv
  <2>8. pc' = "store" => /\ accepted_sock' \in Clients
                         /\ conn'[accepted_sock'] # "out" /\ turn'[accepted_sock'] = 0
                         /\ \A k \in DOMAIN backlog' : backlog'[k] # accepted_sock'
    BY <1>0, <2>1, <2>3, <2>4 DEF WaitInv
  <2> QED
    BY <2>5, <2>6, <2>7, <2>8 DEF WaitInv
<1>2. ASSUME NEW c \in Clients, Close(c) PROVE WaitInv'
  <2>1. /\ UNCHANGED <<pc, accepted_sock, turn, backlog>> /\ conn[c] = "open"
        /\ conn'[c] = "closed" /\ \A d \in Clients : d # c => conn'[d] = conn[d]
    BY <1>0, <1>2 DEF Close
  <2>2. \A d \in Clients : conn'[d] = "out" <=> conn[d] = "out"
    BY <2>1
  <2> QED
    BY <1>0, <2>1, <2>2 DEF WaitInv
<1>3. ASSUME NEW c \in Clients, Send(c) \/ Reset(c) \/ VerdictToServer(c) PROVE WaitInv'
  <2>1. UNCHANGED <<pc, accepted_sock, turn, backlog, conn>>
    BY <1>3 DEF Send, Reset, VerdictToServer
  <2> QED
    BY <1>0, <2>1 DEF WaitInv
<1>4. CASE Answer \/ VerdictToClient
  <2>1. UNCHANGED <<pc, accepted_sock, turn, backlog, conn>>
    BY <1>4 DEF Answer, VerdictToClient
  <2> QED
    BY <1>0, <2>1 DEF WaitInv
<1>5. CASE Accept
  <2>1. /\ backlog # <<>> /\ accepted_sock' = Head(backlog) /\ backlog' = Tail(backlog)
        /\ UNCHANGED <<turn, conn>>
    BY <1>5 DEF Accept
  <2>2. /\ Head(backlog) = backlog[1] /\ 1 \in DOMAIN backlog /\ backlog[1] \in Clients
        /\ \A k \in DOMAIN backlog' : /\ k \in Nat /\ k >= 1 /\ k + 1 \in DOMAIN backlog
                                      /\ backlog'[k] = backlog[k + 1]
    BY <1>0, <2>1, AtTail
  <2>3. \A k, l \in DOMAIN backlog' : backlog'[k] = backlog'[l] => k = l
    <3> TAKE k, l \in DOMAIN backlog'
    <3>1. backlog'[k] = backlog'[l] => k + 1 = l + 1
      BY <1>0, <2>2 DEF WaitInv
    <3> QED
      BY <2>2, <3>1
  <2>4. \A k \in DOMAIN backlog' : backlog'[k] # accepted_sock'
    <3> TAKE k \in DOMAIN backlog'
    <3>1. k + 1 # 1
      BY <2>2
    <3> QED
      BY <1>0, <2>1, <2>2, <3>1 DEF WaitInv
  <2>5. \A k \in DOMAIN backlog' : conn'[backlog'[k]] # "out" /\ turn'[backlog'[k]] = 0
    BY <1>0, <2>1, <2>2 DEF WaitInv
  <2>6. accepted_sock' \in Clients /\ conn'[accepted_sock'] # "out" /\ turn'[accepted_sock'] = 0
    BY <1>0, <2>1, <2>2 DEF WaitInv
  <2> QED
    BY <1>0, <2>1, <2>3, <2>4, <2>5, <2>6 DEF WaitInv
<1>6. CASE StoreFails \/ RedirFails \/ Redir \/ Wake
  <2>1. UNCHANGED <<turn, backlog, conn>> /\ pc' # "store"
    BY <1>6 DEF StoreFails, RedirFails, Redir, Wake
  <2> QED
    BY <1>0, <2>1 DEF WaitInv
<1>7. CASE Store
  <2>1. accepted_sock \in Clients /\ \A c \in Clients : c # accepted_sock => turn'[c] = turn[c]
    BY <1>7, Stored
  <2>2. pc = "store" /\ pc' = "redir" /\ UNCHANGED <<backlog, conn>> /\ conn[accepted_sock] = "open"
    BY <1>7 DEF Store
  <2>3. \A k \in DOMAIN backlog : backlog[k] # accepted_sock
    BY <1>0, <2>2 DEF WaitInv
  <2>4. \A c \in Clients : conn'[c] = "out" => turn'[c] = 0
    BY <1>0, <2>1, <2>2 DEF WaitInv
  <2>5. \A k \in DOMAIN backlog : conn[backlog[k]] # "out" /\ turn'[backlog[k]] = 0
    BY <1>0, <2>1, <2>3 DEF WaitInv
  <2> QED
    BY <1>0, <2>2, <2>4, <2>5 DEF WaitInv
<1> QED
  BY <1>1, <1>2, <1>3, <1>4, <1>5, <1>6, <1>7 DEF Next, main, bpf_prog_verdict, Peers

-----------------------------------------------------------------------------
(* A client that was stored keeps its turn, whatever happens. *)
LEMMA TurnsNext ==
    ASSUME SockInv, [Next]_vars
    PROVE  /\ \A c \in Clients : turn[c] # 0 => turn'[c] = turn[c]
           /\ turns' \in Nat /\ turns' >= turns
<1>0. turn \in [Clients -> Nat] /\ turns \in Nat
  BY DEF SockInv, TypeOK
<1>1. CASE Store
  BY <1>0, <1>1, Stored
<1>2. CASE ~Store
  <2>1. turn' = turn /\ turns' = turns
    BY <1>2 DEF Next, main, bpf_prog_verdict, Peers, Accept, StoreFails, RedirFails, Redir, Wake, VerdictToServer,
       VerdictToClient, Answer, Connect, Send, Close, Reset, vars, loader, maps, net, server, passed
  <2> QED
    BY <1>0, <2>1
<1> QED
  BY <1>1, <1>2

(* The server answers only those whose messages reached it. *)
LEMMA AskedNext == ASSUME SockInv, Next PROVE AskedInv'
<1>0. /\ AskedInv /\ turn \in [Clients -> Nat] /\ asked \in Seq(Clients) /\ answers \in Seq(Clients)
      /\ \A k \in DOMAIN asked : asked[k] \in Clients
      /\ \A k \in DOMAIN answers : answers[k] \in Clients
  <2>1. asked \in Seq(Clients) /\ answers \in Seq(Clients)
    BY DEF SockInv, TypeOK
  <2>2. \A k \in DOMAIN asked : asked[k] \in Clients
    BY <2>1
  <2>3. \A k \in DOMAIN answers : answers[k] \in Clients
    BY <2>1
  <2> QED
    BY <2>1, <2>2, <2>3 DEF SockInv, TypeOK
<1>1. \A c \in Clients : turn[c] >= 1 => turn'[c] >= 1
  <2>1. \A c \in Clients : turn[c] # 0 => turn'[c] = turn[c]
    BY TurnsNext
  <2> QED
    BY <1>0, <2>1
<1> USE DEF loader, maps, net, server, passed
<1>2. CASE asked' = asked /\ answers' = answers
  BY <1>0, <1>1, <1>2 DEF AskedInv
<1>3. ASSUME NEW c \in Clients, VerdictToServer(c), asked' # asked PROVE AskedInv'
  <2>1. asked' = Append(asked, c) /\ answers' = answers /\ turn' = turn /\ sock_store = c
    BY <1>3 DEF VerdictToServer
  <2>2. turn[c] >= 1
    <3>1. sock_store \in Clients /\ None \notin Clients
      BY <2>1, ClientsAssumption
    <3>2. turns \in Nat /\ turns >= 1 /\ turn[sock_store] = turns
      BY <3>1 DEF SockInv, MapsInv, TypeOK
    <3> QED
      BY <2>1, <3>2
  <2>3. \A k \in DOMAIN asked' : \/ k \in DOMAIN asked /\ asked'[k] = asked[k]
                                 \/ asked'[k] = c
    BY <1>0, <2>1, AtAppend
  <2> QED
    BY <1>0, <2>1, <2>2, <2>3 DEF AskedInv
<1>4. CASE Answer
  <2>1. asked # <<>> /\ asked' = Tail(asked) /\ answers' = Append(answers, Head(asked)) /\ turn' = turn
    BY <1>4 DEF Answer
  <2>2. /\ Head(asked) = asked[1] /\ 1 \in DOMAIN asked /\ asked[1] \in Clients
        /\ \A k \in DOMAIN asked' : k + 1 \in DOMAIN asked /\ asked'[k] = asked[k + 1]
    BY <1>0, <2>1, AtTail
  <2>3. \A k \in DOMAIN answers' : \/ k \in DOMAIN answers /\ answers'[k] = answers[k]
                                   \/ answers'[k] = asked[1]
    BY <1>0, <2>1, <2>2, AtAppend
  <2> QED
    BY <1>0, <2>1, <2>2, <2>3 DEF AskedInv
<1>5. CASE VerdictToClient
  <2>1. answers # <<>> /\ answers' = Tail(answers) /\ asked' = asked /\ turn' = turn
    BY <1>5 DEF VerdictToClient
  <2>2. \A k \in DOMAIN answers' : k + 1 \in DOMAIN answers /\ answers'[k] = answers[k + 1]
    BY <1>0, <2>1, AtTail
  <2> QED
    BY <1>0, <2>1, <2>2 DEF AskedInv
<1>6. CASE main \/ \E c \in Clients : Connect(c) \/ Send(c) \/ Close(c) \/ Reset(c)
  <2>1. asked' = asked /\ answers' = answers
    BY <1>6 DEF main, Accept, StoreFails, Store, RedirFails, Redir, Wake, Connect, Send, Close, Reset
  <2> QED
    BY <1>2, <2>1
<1>7. ASSUME NEW c \in Clients, VerdictToServer(c), asked' = asked PROVE AskedInv'
  <2>1. answers' = answers
    BY <1>7 DEF VerdictToServer
  <2> QED
    BY <1>2, <1>7, <2>1
<1> QED
  BY <1>3, <1>4, <1>5, <1>6, <1>7 DEF Next, bpf_prog_verdict, Peers

(* An answer reaches the client that is stored, whose turn is the latest. *)
LEMMA ForwardNext == ASSUME SockInv, Next PROVE AnswersGoForward'
<1>0. /\ AnswersGoForward /\ MapsInv /\ AskedInv /\ turn \in [Clients -> Nat] /\ turns \in Nat
      /\ received \in [Clients -> Seq(Clients)] /\ answers \in Seq(Clients)
      /\ \A c \in Clients : \A k \in DOMAIN received[c] : received[c][k] \in Clients
  <2>1. received \in [Clients -> Seq(Clients)]
    BY DEF SockInv, TypeOK
  <2>2. \A c \in Clients : received[c] \in Seq(Clients)
    BY <2>1
  <2>3. \A c \in Clients : \A k \in DOMAIN received[c] : received[c][k] \in Clients
    BY <2>2
  <2> QED
    BY <2>1, <2>3 DEF SockInv, TypeOK
<1>1. \A c \in Clients : turn[c] # 0 => turn'[c] = turn[c]
  BY TurnsNext
<1>2. CASE received' = received
  <2> SUFFICES ASSUME NEW c \in Clients, NEW k \in DOMAIN received'[c]
               PROVE  1 <= turn'[received'[c][k]] /\ turn'[received'[c][k]] <= turn'[c]
    BY DEF AnswersGoForward
  <2> DEFINE a == received[c][k]
  <2>1. k \in DOMAIN received[c] /\ a \in Clients /\ received'[c][k] = a
    BY <1>0, <1>2
  <2>2. 1 <= turn[a] /\ turn[a] <= turn[c]
    BY <1>0, <2>1 DEF AnswersGoForward
  <2> HIDE DEF a
  <2>3. turn[a] \in Nat /\ turn[c] \in Nat
    BY <1>0, <2>1
  <2>4. turn[a] # 0 /\ turn[c] # 0
    BY <2>2, <2>3
  <2> QED
    BY <1>1, <2>1, <2>2, <2>4
<1>3. CASE VerdictToClient /\ received' # received
  <2> DEFINE a == Head(answers)
  <2>1. /\ sock_store # None /\ answers # <<>> /\ turn' = turn
        /\ received' = [received EXCEPT ![sock_store] = Append(@, a)]
    BY <1>3 DEF VerdictToClient, loader
  <2>2. sock_store \in Clients
    BY <2>1 DEF SockInv, TypeOK
  <2>3. a \in Clients /\ turn[a] >= 1 /\ turn[a] <= turn[sock_store]
    <3>1. a = answers[1] /\ 1 \in DOMAIN answers /\ answers[1] \in Clients
      BY <1>0, <2>1, AtTail
    <3>2. turn[answers[1]] >= 1
      BY <1>0, <3>1 DEF AskedInv
    <3>3. turn[answers[1]] <= turns /\ turn[sock_store] = turns
      BY <1>0, <2>1, <3>1 DEF MapsInv
    <3> QED
      BY <3>1, <3>2, <3>3
  <2> HIDE DEF a
  <2> SUFFICES ASSUME NEW c \in Clients, NEW k \in DOMAIN received'[c]
               PROVE  1 <= turn'[received'[c][k]] /\ turn'[received'[c][k]] <= turn'[c]
    BY DEF AnswersGoForward
  <2>4. CASE c # sock_store
    <3>1. received'[c] = received[c]
      BY <1>0, <2>1, <2>2, <2>4
    <3> QED
      BY <1>0, <2>1, <3>1 DEF AnswersGoForward
  <2>5. CASE c = sock_store
    <3>1. received'[c] = Append(received[c], a) /\ received[c] \in Seq(Clients)
      BY <1>0, <2>1, <2>2, <2>5
    <3>2. (k \in DOMAIN received[c] /\ received'[c][k] = received[c][k]) \/ received'[c][k] = a
      BY <2>3, <3>1, AtAppend
    <3>3. CASE k \in DOMAIN received[c] /\ received'[c][k] = received[c][k]
      BY <1>0, <2>1, <3>3 DEF AnswersGoForward
    <3>4. CASE received'[c][k] = a
      BY <2>1, <2>3, <2>5, <3>4
    <3> QED
      BY <3>2, <3>3, <3>4
  <2> QED
    BY <2>4, <2>5
<1>4. received' = received \/ VerdictToClient
  BY DEF Next, main, bpf_prog_verdict, Peers, Accept, StoreFails, Store, RedirFails, Redir, Wake, VerdictToServer,
     Answer, Connect, Send, Close, Reset, loader, maps, net, server, passed
<1> QED
  BY <1>2, <1>3, <1>4

(* A message is judged in its turn and sent on, or dropped while there is    *)
(* no remote socket; then the client is the only one that was ever stored.   *)
LEMMA OrderNext == ASSUME SockInv, Next PROVE InOrder'
<1>0. /\ InOrder /\ MapsInv /\ turn \in [Clients -> Nat] /\ turns \in Nat
      /\ queue \in [Clients -> Seq(Nat)] /\ dropped \in [Clients -> Seq(Nat)]
      /\ forwarded \in [Clients -> Seq(Nat)] /\ sent \in [Clients -> Nat]
  BY DEF SockInv, TypeOK
<1>1. \A c \in Clients : turn[c] = 1 => turn'[c] = 1
  BY TurnsNext
<1> USE DEF loader, maps, net, server, passed
<1>2. CASE UNCHANGED <<dropped, forwarded, queue, sent>>
  <2> SUFFICES ASSUME NEW c \in Clients
               PROVE  /\ dropped'[c] \o forwarded'[c] \o queue'[c] = [k \in 1..sent'[c] |-> k]
                      /\ dropped'[c] # <<>> => turn'[c] = 1
    BY DEF InOrder
  <2>1. dropped'[c] = dropped[c] /\ forwarded'[c] = forwarded[c] /\ queue'[c] = queue[c] /\ sent'[c] = sent[c]
    BY <1>2
  <2>2. dropped[c] \o forwarded[c] \o queue[c] = [k \in 1..sent[c] |-> k] /\ (dropped[c] # <<>> => turn[c] = 1)
    BY <1>0 DEF InOrder
  <2> QED
    BY <1>1, <2>1, <2>2
<1>3. ASSUME NEW c \in Clients, Send(c) PROVE InOrder'
  <2> DEFINE m == sent[c] + 1
  <2>1. /\ dropped' = dropped /\ forwarded' = forwarded /\ turn' = turn
        /\ sent'[c] = m /\ queue'[c] = Append(queue[c], m)
        /\ \A d \in Clients : d # c => sent'[d] = sent[d] /\ queue'[d] = queue[d]
    BY <1>0, <1>3 DEF Send
  <2>2. m \in Nat /\ sent[c] \in Nat /\ queue[c] \in Seq(Nat) /\ dropped[c] \in Seq(Nat) /\ forwarded[c] \in Seq(Nat)
    <3>1. sent[c] \in Nat
      BY <1>0
    <3> QED
      BY <1>0, <3>1
  <2>3. Append([k \in 1..sent[c] |-> k], m) = [k \in 1..m |-> k]
    BY <2>2, OneMore
  <2> HIDE DEF m
  <2>4. dropped[c] \o forwarded[c] \o Append(queue[c], m) = Append(dropped[c] \o forwarded[c] \o queue[c], m)
    BY <2>2, SentLast, ZenonT(30)
  <2>5. dropped[c] \o forwarded[c] \o queue[c] = [k \in 1..sent[c] |-> k]
    BY <1>0 DEF InOrder
  <2>6. dropped'[c] \o forwarded'[c] \o queue'[c] = [k \in 1..sent'[c] |-> k]
    BY <2>1, <2>3, <2>4, <2>5
  <2>7. \A d \in Clients : d # c => dropped'[d] \o forwarded'[d] \o queue'[d] = [k \in 1..sent'[d] |-> k]
    BY <1>0, <2>1 DEF InOrder
  <2>8. \A d \in Clients : dropped'[d] # <<>> => turn'[d] = 1
    BY <1>0, <2>1 DEF InOrder
  <2> QED
    BY <2>6, <2>7, <2>8 DEF InOrder
<1>4. ASSUME NEW c \in Clients, VerdictToServer(c) PROVE InOrder'
  <2> DEFINE d == dropped[c]
             f == forwarded[c]
             h == Head(queue[c])
             t == Tail(queue[c])
  <2>1. /\ sock_store = c /\ queue[c] # <<>> /\ turn' = turn /\ sent' = sent
        /\ queue'[c] = t /\ \A e \in Clients : e # c => queue'[e] = queue[e]
    BY <1>0, <1>4 DEF VerdictToServer
  <2>2. d \in Seq(Nat) /\ f \in Seq(Nat) /\ h \in Nat /\ t \in Seq(Nat) /\ queue[c] = <<h>> \o t
    BY <1>0, <2>1, HeadTail
  <2>3. sock_redir => dropped'[c] = d /\ forwarded'[c] = Append(f, h)
    BY <1>0, <1>4 DEF VerdictToServer
  <2>4. ~sock_redir => forwarded'[c] = f /\ dropped'[c] = Append(d, h)
    BY <1>0, <1>4 DEF VerdictToServer
  <2>5. dropped[c] = d /\ forwarded[c] = f
    OBVIOUS
  <2> HIDE DEF d, f, h, t
  <2>6. /\ d \o Append(f, h) \o t = d \o f \o (<<h>> \o t)
        /\ f = <<>> => Append(d, h) \o f \o t = d \o f \o (<<h>> \o t)
    BY <2>2, Judged
  <2>7. d \o f \o (<<h>> \o t) = [k \in 1..sent[c] |-> k] /\ (d # <<>> => turn[c] = 1)
    BY <1>0, <2>2, <2>5 DEF InOrder
  <2>8. \A e \in Clients : e # c => dropped'[e] = dropped[e] /\ forwarded'[e] = forwarded[e]
    BY <1>0, <1>4 DEF VerdictToServer
  <2>9. /\ dropped'[c] \o forwarded'[c] \o queue'[c] = [k \in 1..sent'[c] |-> k]
        /\ dropped'[c] # <<>> => turn'[c] = 1
    <3>1. CASE sock_redir
      BY <2>1, <2>6, <2>7, <2>3, <3>1
    <3>2. CASE ~sock_redir
      <4>1. sock_store # None
        BY <2>1, ClientsAssumption
      <4>2. turns >= 1 /\ turn[c] = turns /\ pc # "exit"
        BY <1>0, <2>1, <4>1 DEF MapsInv
      <4>3. (turns = 0 \/ turns = 1) /\ f = <<>>
        BY <1>0, <2>5, <3>2, <4>2 DEF MapsInv
      <4>4. turn'[c] = 1
        BY <2>1, <4>2, <4>3
      <4> QED
        BY <2>1, <2>6, <2>7, <2>4, <3>2, <4>3, <4>4
    <3> QED
      BY <3>1, <3>2
  <2> SUFFICES ASSUME NEW e \in Clients
               PROVE  /\ dropped'[e] \o forwarded'[e] \o queue'[e] = [k \in 1..sent'[e] |-> k]
                      /\ dropped'[e] # <<>> => turn'[e] = 1
    BY DEF InOrder
  <2>10. CASE e = c
    BY <2>9, <2>10
  <2>11. CASE e # c
    <3>1. dropped'[e] = dropped[e] /\ forwarded'[e] = forwarded[e] /\ queue'[e] = queue[e]
      BY <2>1, <2>8, <2>11
    <3>2. dropped[e] \o forwarded[e] \o queue[e] = [k \in 1..sent[e] |-> k] /\ (dropped[e] # <<>> => turn[e] = 1)
      BY <1>0 DEF InOrder
    <3> QED
      BY <2>1, <3>1, <3>2
  <2> QED
    BY <2>10, <2>11
<1>5. \/ UNCHANGED <<dropped, forwarded, queue, sent>>
      \/ \E c \in Clients : Send(c) \/ VerdictToServer(c)
  BY DEF Next, main, bpf_prog_verdict, Peers, Accept, StoreFails, Store, RedirFails, Redir, Wake, VerdictToClient,
     Answer, Connect, Close, Reset
<1> QED
  BY <1>2, <1>3, <1>4, <1>5

-----------------------------------------------------------------------------
(* A step that leaves everything alone keeps the invariant. *)
LEMMA SockInvStutter == ASSUME SockInv, UNCHANGED vars PROVE SockInv'
<1> USE DEF vars, loader, maps, net, server, passed
<1>1. TypeOK'
  BY DEF SockInv, TypeOK
<1>2. MapsInv'
  BY DEF SockInv, MapsInv
<1>3. WaitInv' /\ AskedInv'
  BY DEF SockInv, WaitInv, AskedInv
<1>4. AnswersGoForward'
  BY DEF SockInv, AnswersGoForward
<1>5. InOrder'
  BY DEF SockInv, InOrder
<1> QED
  BY <1>1, <1>2, <1>3, <1>4, <1>5 DEF SockInv

(* The inductive invariant of the loader, the verdict program and the peers. *)
THEOREM SockInvariant == Spec => []SockInv
<1>1. Init => SockInv
  BY SockInvInit
<1>2. SockInv /\ [Next]_vars => SockInv'
  BY TypeNext, MapsNext, WaitNext, AskedNext, ForwardNext, OrderNext, SockInvStutter DEF SockInv
<1> QED
  BY <1>1, <1>2, PTL DEF Spec

(* Whatever the peers do, the maps hold clients or nothing, and messages and *)
(* answers stay what they are.                                               *)
THEOREM TypeCorrect == Spec => []TypeOK
<1>1. SockInv => TypeOK
  BY DEF SockInv
<1> QED
  BY <1>1, SockInvariant, PTL

(* For any clients and messages, each client's messages are dropped, then    *)
(* forwarded, then waiting, in the order sent, and only the first client     *)
(* loses any: bpf_prog_verdict between the two updates of the loader.        *)
THEOREM MessagesInOrder == Spec => []InOrder
<1>1. SockInv => InOrder
  BY DEF SockInv
<1> QED
  BY <1>1, SockInvariant, PTL

(* No answer goes back to a client that was stored before the one that asked. *)
THEOREM AnswersForward == Spec => []AnswersGoForward
<1>1. SockInv => AnswersGoForward
  BY DEF SockInv
<1> QED
  BY <1>1, SockInvariant, PTL

(* A client whose entry of sock_store was taken by another is never judged   *)
(* nor answered again.                                                       *)
THEOREM ReplacedStays == Spec => ReplacedForGood
<1>1. ASSUME SockInv, [Next]_vars
      PROVE  \A c \in Clients : Replaced(c) =>
                /\ Replaced(c)'
                /\ <<dropped[c], forwarded[c], received[c]>>' = <<dropped[c], forwarded[c], received[c]>>
  <2> SUFFICES ASSUME NEW c \in Clients, Replaced(c)
               PROVE  /\ Replaced(c)'
                      /\ <<dropped[c], forwarded[c], received[c]>>' = <<dropped[c], forwarded[c], received[c]>>
    OBVIOUS
  <2> USE <1>1
  <2>0. /\ turn \in [Clients -> Nat] /\ turns \in Nat /\ dropped \in [Clients -> Seq(Nat)]
        /\ forwarded \in [Clients -> Seq(Nat)] /\ received \in [Clients -> Seq(Clients)]
        /\ sock_store \in Clients \cup {None}
    BY DEF SockInv, TypeOK
  <2>1. turn[c] # 0 /\ turn[c] \in Nat /\ turn[c] < turns
    BY <2>0 DEF Replaced
  <2>2. turn'[c] = turn[c] /\ turns' \in Nat /\ turns' >= turns
    BY <2>1, TurnsNext
  <2>3. Replaced(c)'
    BY <2>0, <2>1, <2>2 DEF Replaced
  <2>4. sock_store # c
    <3>1. sock_store # None => turn[sock_store] = turns
      BY DEF SockInv, MapsInv
    <3> QED
      BY <2>1, <3>1, ClientsAssumption
  <2>5. dropped'[c] = dropped[c] /\ forwarded'[c] = forwarded[c] /\ received'[c] = received[c]
    <3> USE DEF loader, maps, net, server, passed, vars
    <3>1. CASE UNCHANGED passed
      BY <3>1
    <3>2. ASSUME NEW d \in Clients, VerdictToServer(d)
          PROVE  dropped'[c] = dropped[c] /\ forwarded'[c] = forwarded[c] /\ received'[c] = received[c]
      BY <2>0, <2>4, <3>2 DEF VerdictToServer
    <3>3. CASE VerdictToClient
      BY <2>0, <2>4, <3>3 DEF VerdictToClient
    <3>4. UNCHANGED passed \/ VerdictToClient \/ \E d \in Clients : VerdictToServer(d)
      BY DEF Next, main, bpf_prog_verdict, Peers, Accept, StoreFails, Store, RedirFails, Redir, Wake, Answer,
         Connect, Send, Close, Reset
    <3> QED
      BY <3>1, <3>2, <3>3, <3>4
  <2> QED
    BY <2>3, <2>5
<1> QED
  BY <1>1, SockInvariant, PTL DEF Spec, ReplacedForGood
=============================================================================
