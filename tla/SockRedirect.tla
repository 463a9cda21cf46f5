---------------------------- MODULE SockRedirect ----------------------------
(***************************************************************************)
(* bpf学习/sock_redirect: the loader accepts a client, puts its socket in  *)
(* the map sock_store and the connection to the remote server in the map   *)
(* sock_redir, each at key 0, and sleeps.  bpf_prog_verdict, which the     *)
(* kernel runs for every message that arrives on a socket in one of the    *)
(* maps, sends it out of the other map's socket.  The start-up, up to the  *)
(* connection to the server, succeeds or the loader exits; the server      *)
(* answers every message it gets and never closes the connection.          *)
(***************************************************************************)
EXTENDS Naturals, Sequences, FiniteSetsExt

CONSTANTS Clients, None,
          MaxSent   \* bound: messages the clients send together

ASSUME ClientsAssumption == None \notin Clients /\ MaxSent \in Nat

VARIABLES pc,          \* the loader
          accepted_sock,
          sock_store,  \* entry 0
          sock_redir,  \* is sock_remote in entry 0
          backlog,     \* clients that wait for accept
          conn,        \* each client's end: "out", "open" or "closed"
          queue,       \* numbers of the messages on a client's socket at the loader
          asked,       \* clients whose messages the server has to answer
          answers,     \* answers on sock_remote, by the client that asked
          sent,        \* history: messages each client has sent
          dropped,     \* history: messages of each client that were dropped
          forwarded,   \* history: messages of each client that were sent to the server
          received,    \* history: answers sent to each client, by the client that asked
          turn, turns  \* history: when each client was stored; clients stored so far

loader == <<pc, accepted_sock, turn, turns>>
maps == <<sock_store, sock_redir>>
net == <<conn, queue, sent>>
server == <<asked, answers>>
passed == <<dropped, forwarded, received>>
vars == <<loader, maps, backlog, net, server, passed>>

Init ==
    /\ pc = "accept" /\ accepted_sock = None
    /\ sock_store = None /\ sock_redir = FALSE
    /\ backlog = <<>>
    /\ conn = [c \in Clients |-> "out"]
    /\ queue = [c \in Clients |-> <<>>] /\ sent = [c \in Clients |-> 0]
    /\ asked = <<>> /\ answers = <<>>
    /\ dropped = [c \in Clients |-> <<>>] /\ forwarded = [c \in Clients |-> <<>>]
    /\ received = [c \in Clients |-> <<>>]
    /\ turn = [c \in Clients |-> 0] /\ turns = 0

-----------------------------------------------------------------------------
\* The clients connect, send and close, whatever the loader does.
Connect(c) ==
    /\ pc # "exit" /\ conn[c] = "out"
    /\ conn' = [conn EXCEPT ![c] = "open"]
    /\ backlog' = Append(backlog, c)
    /\ UNCHANGED <<loader, maps, queue, sent, server, passed>>

Send(c) ==
    /\ conn[c] = "open" /\ MapThenSumSet(LAMBDA d : sent[d], Clients) < MaxSent
    /\ sent' = [sent EXCEPT ![c] = @ + 1]
    /\ queue' = [queue EXCEPT ![c] = Append(@, sent[c] + 1)]
    /\ UNCHANGED <<loader, maps, backlog, conn, server, passed>>

Close(c) ==
    /\ conn[c] = "open"
    /\ conn' = [conn EXCEPT ![c] = "closed"]
    /\ UNCHANGED <<loader, maps, backlog, queue, sent, server, passed>>

\* A closed client answers what it is sent with a reset, and the kernel takes
\* its socket out of the map.
Reset(c) ==
    /\ conn[c] = "closed" /\ sock_store = c /\ received[c] # <<>>
    /\ sock_store' = None
    /\ UNCHANGED <<loader, sock_redir, backlog, net, server, passed>>

-----------------------------------------------------------------------------
\* The loop of main.
Accept ==
    /\ pc = "accept" /\ backlog # <<>>
    /\ accepted_sock' = Head(backlog) /\ backlog' = Tail(backlog)
    /\ pc' = "store"
    /\ UNCHANGED <<turn, turns, maps, net, server, passed>>

\* The kernel refuses a socket whose peer has closed: main returns, and with
\* the process go its sockets and both maps.
StoreFails ==
    /\ pc = "store" /\ conn[accepted_sock] = "closed"
    /\ pc' = "exit"
    /\ sock_store' = None /\ sock_redir' = FALSE
    /\ UNCHANGED <<accepted_sock, turn, turns, backlog, net, server, passed>>

Store ==
    /\ pc = "store" /\ conn[accepted_sock] = "open"
    /\ pc' = "redir"
    /\ sock_store' = accepted_sock
    /\ turns' = turns + 1 /\ turn' = [turn EXCEPT ![accepted_sock] = turns + 1]
    /\ UNCHANGED <<accepted_sock, sock_redir, backlog, net, server, passed>>

\* sock_remote is put into its map again for every client.  The kernel may
\* refuse a socket the verdict program already serves, and main returns.
RedirFails ==
    /\ pc = "redir"
    /\ pc' = "exit"
    /\ sock_store' = None /\ sock_redir' = FALSE
    /\ UNCHANGED <<accepted_sock, turn, turns, backlog, net, server, passed>>

Redir ==
    /\ pc = "redir"
    /\ pc' = "sleep"
    /\ sock_redir' = TRUE
    /\ UNCHANGED <<accepted_sock, turn, turns, sock_store, backlog, net, server, passed>>

\* Mutant: the loop leads back to the update of sock_redir.
WakeToRedir ==
    /\ pc = "sleep"
    /\ pc' = "redir"
    /\ UNCHANGED <<accepted_sock, turn, turns, maps, backlog, net, server, passed>>

\* sleep(5000)
Wake ==
    /\ pc = "sleep"
    /\ pc' = "accept"
    /\ UNCHANGED <<accepted_sock, turn, turns, maps, backlog, net, server, passed>>

-----------------------------------------------------------------------------
\* Mutant: a message is passed on to the socket it came from, not dropped,
\* and overtakes those behind it.
VerdictRequeues(c) ==
    /\ sock_store = c /\ queue[c] # <<>>
    /\ IF sock_redir
         THEN /\ forwarded' = [forwarded EXCEPT ![c] = Append(@, Head(queue[c]))]
              /\ queue' = [queue EXCEPT ![c] = Tail(@)]
              /\ asked' = Append(asked, c) /\ UNCHANGED dropped
         ELSE /\ queue' = [queue EXCEPT ![c] = Append(Tail(@), Head(@))]
              /\ UNCHANGED <<asked, dropped, forwarded>>
    /\ UNCHANGED <<loader, maps, backlog, conn, sent, answers, received>>

\* Mutant: a socket stays in the map after another took its entry.
VerdictKeepsOld(c) ==
    /\ turn[c] > 0 /\ sock_redir /\ queue[c] # <<>>
    /\ queue' = [queue EXCEPT ![c] = Tail(@)]
    /\ forwarded' = [forwarded EXCEPT ![c] = Append(@, Head(queue[c]))]
    /\ asked' = Append(asked, c)
    /\ UNCHANGED <<loader, maps, backlog, conn, sent, dropped, answers, received>>

\* local_port is 5201: the message of a stored client is redirected to entry 0
\* of sock_redir, and dropped while there is none.  What came before the
\* socket was stored is judged with what comes later.
VerdictToServer(c) ==
    /\ sock_store = c /\ queue[c] # <<>>
    /\ queue' = [queue EXCEPT ![c] = Tail(@)]
    /\ IF sock_redir
         THEN /\ forwarded' = [forwarded EXCEPT ![c] = Append(@, Head(queue[c]))]
              /\ asked' = Append(asked, c)
              /\ UNCHANGED dropped
         ELSE /\ dropped' = [dropped EXCEPT ![c] = Append(@, Head(queue[c]))]
              /\ UNCHANGED <<asked, forwarded>>
    /\ UNCHANGED <<loader, maps, backlog, conn, sent, answers, received>>

Answer ==
    /\ pc # "exit" /\ asked # <<>>
    /\ asked' = Tail(asked)
    /\ answers' = Append(answers, Head(asked))
    /\ UNCHANGED <<loader, maps, backlog, net, passed>>

\* Mutant: the answer goes to the socket accepted last, stored or not.
VerdictToAccepted ==
    /\ sock_redir /\ answers # <<>>
    /\ answers' = Tail(answers)
    /\ received' = [received EXCEPT ![accepted_sock] = Append(@, Head(answers))]
    /\ UNCHANGED <<loader, maps, backlog, net, asked, dropped, forwarded>>

\* remote_port is 5201: the answer is redirected to entry 0 of sock_store.
VerdictToClient ==
    /\ sock_redir /\ answers # <<>>
    /\ answers' = Tail(answers)
    /\ IF sock_store = None THEN UNCHANGED received
       ELSE received' = [received EXCEPT ![sock_store] = Append(@, Head(answers))]
    /\ UNCHANGED <<loader, maps, backlog, net, asked, dropped, forwarded>>

main == Accept \/ StoreFails \/ Store \/ RedirFails \/ Redir \/ Wake
bpf_prog_verdict == VerdictToClient \/ \E c \in Clients : VerdictToServer(c)
Peers == Answer \/ \E c \in Clients : Connect(c) \/ Send(c) \/ Close(c) \/ Reset(c)

Next == main \/ bpf_prog_verdict \/ Peers

Spec == Init /\ [][Next]_vars

\* The loader is scheduled, and its sleep ends.
FairSpec == Spec /\ WF_vars(main)

-----------------------------------------------------------------------------
TypeOK ==
    /\ pc \in {"accept", "store", "redir", "sleep", "exit"}
    /\ accepted_sock \in Clients \cup {None}
    /\ sock_store \in Clients \cup {None} /\ sock_redir \in BOOLEAN
    /\ backlog \in Seq(Clients)
    /\ conn \in [Clients -> {"out", "open", "closed"}]
    /\ queue \in [Clients -> Seq(Nat)] /\ sent \in [Clients -> Nat]
    /\ asked \in Seq(Clients) /\ answers \in Seq(Clients)
    /\ dropped \in [Clients -> Seq(Nat)] /\ forwarded \in [Clients -> Seq(Nat)]
    /\ received \in [Clients -> Seq(Clients)]
    /\ turn \in [Clients -> Nat] /\ turns \in Nat

\* The messages of a client are dropped, then forwarded, then not judged yet,
\* in the order they were sent; only the first client that is stored loses
\* any, before sock_remote is in its map.
InOrder ==
    \A c \in Clients :
        /\ dropped[c] \o forwarded[c] \o queue[c] = [k \in 1..sent[c] |-> k]
        /\ dropped[c] # <<>> => turn[c] = 1

\* An answer may go to a client that did not ask, but only to one that was
\* stored later than the client that did.
AnswersGoForward ==
    \A c \in Clients : \A k \in DOMAIN received[c] :
        LET asker == received[c][k] IN 1 <= turn[asker] /\ turn[asker] <= turn[c]

Replaced(c) == turn[c] \in 1..turns - 1

\* A client that was replaced in sock_store stays so: nothing it sends is
\* judged any more, and no answer reaches it, not even to its own messages.
ReplacedForGood ==
    [][\A c \in Clients : Replaced(c) =>
          /\ Replaced(c)'
          /\ <<dropped[c], forwarded[c], received[c]>>' = <<dropped[c], forwarded[c], received[c]>>]_vars

\* Why the loader returned: its client had closed before it was stored, or was
\* stored and sock_remote was refused.
ClientGone == pc = "exit" /\ turn[accepted_sock] = 0 /\ conn[accepted_sock] = "closed"
RemoteRefused == pc = "exit" /\ turn[accepted_sock] > 0

\* Every client that connects is stored after its predecessors have had their
\* time, unless one of them ends the loader: by closing early, or because its
\* turn to be stored is where putting sock_remote into the map again fails.
EveryoneStored ==
    \A c \in Clients :
        conn[c] = "open" ~> (turn[c] > 0 \/ ClientGone \/ RemoteRefused)
=============================================================================
