------------------------- MODULE SequentialPrograms -------------------------
(***************************************************************************)
(* Programs with one thread and loops over what they keep: a behaviour is  *)
(* a run of the doubly linked list, or one call: of a sorting function, of *)
(* a search for the turns of a lock's wheels, or of a sliding window.      *)
(***************************************************************************)
EXTENDS DoubleList, Sorts, LockDial, Windows

NoList == Init /\ value = [n \in Node |-> CHOOSE v \in Value : TRUE]

NoSort ==
    /\ fn = "none" /\ pc = "none" /\ given = <<>> /\ arr = <<>> /\ count = 0
    /\ index = 0 /\ jdex = 0 /\ inc = 0 /\ tmp = 0
    /\ left = 0 /\ right = 0 /\ jobs = <<>>

NoSearch ==
    /\ search = "none" /\ step = "none" /\ dead = {} /\ target = Zeros
    /\ offer = <<>> /\ seen = {} /\ rest = 0 /\ front = Zeros /\ wheel = 1
    /\ dial_count = 0 /\ answer = 0

NoWindow ==
    /\ slider = "none" /\ turn = "none" /\ source = <<>> /\ length = 0
    /\ sought = <<>> /\ width = 0 /\ lower = 0 /\ upper = 0
    /\ window = [count |-> <<>>, valid |-> 0] /\ repeat_set = {}
    /\ min_count = 0 /\ result = FALSE

Start ==
    \/ Init /\ NoSort /\ NoSearch /\ NoWindow
    \/ NoList /\ SortInit /\ NoSearch /\ NoWindow
    \/ NoList /\ NoSort /\ DialInit /\ NoWindow
    \/ NoList /\ NoSort /\ NoSearch /\ WindowInit

Step ==
    \/ /\ fn = "none" /\ search = "none" /\ slider = "none"
       /\ Next /\ UNCHANGED <<sortVars, dialVars, windowVars>>
    \/ fn # "none" /\ SortNext /\ UNCHANGED <<vars, dialVars, windowVars>>
    \/ search # "none" /\ DialNext /\ UNCHANGED <<vars, sortVars, windowVars>>
    \/ slider # "none" /\ WindowNext /\ UNCHANGED <<vars, sortVars, dialVars>>

\* A function that was called runs on.
Programs ==
    /\ Start /\ [][Step]_<<vars, sortVars, dialVars, windowVars>>
    /\ WF_sortVars(SortNext) /\ WF_dialVars(DialNext) /\ WF_windowVars(WindowNext)

-----------------------------------------------------------------------------
\* Every sorting function, search and window returns: no loop, scan or recursion
\* goes on for ever, no combination comes back to the queue again and again, and
\* no window shrinks for ever.
CallsReturn ==
    /\ fn # "none" ~> pc = "done"
    /\ search # "none" ~> step = "returned"
    /\ slider # "none" ~> turn = "returned"
=============================================================================
