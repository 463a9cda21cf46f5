# Verification of the DeathNode programs

DeathNode is a collection of small programs its author wrote while studying:
data structures and algorithms in C++, DPDK packet loops, a redis flash sale,
pthread and socket experiments, BPF loaders, and samples of Go, Rust and C++.
There is no common library and no long-running service: the parts share no
code and no state, and each program is a `main` of its own. This directory
holds TLA+ models of the programs that have behaviour worth reasoning about,
TLC runs on small instances of them, and TLAPS proofs of what matters most.

Source paths below are relative to `src/`.

## 1. Inventory

### Programs with concurrency, an environment, or state over time

| Component | State | Operations | Hard behaviour | Correct when |
|---|---|---|---|---|
| **Flash sale client**, `redis学习/redis_client_Test.go` | redis keys `goods:id` and `user:ms`, shared by every process that runs the program | `MSRedis`: GET, SISMEMBER, SADD, DECR, each of which can fail | four commands that should be one; clients interleave between any two; lost replies, retries, a killed client | a unit is sold only while one is left, a user gets one (an atomic sale); what the program delivers instead is bounded |
| **Crossed locks**, `cpp/lock_test.c` | two mutexes, two counters, four threads | `func1`, `func2`, the thread loops, `main` with create and join | opposite lock orders; a value read after both unlocks; an equality that can be stepped over | no increment is lost; the only way to get stuck is the crossed wait |
| **ARP responder**, `dpdk/arp/main.c` | mbuf pool, the port's receive and transmit queues, two mbuf pointers | `recv_dev_buffer` with all paths of a frame | ownership of buffers across program and driver; an empty pool; a full transmit queue | each buffer is in one place, and comes back to the pool |
| **UDP input**, `dpdk/skeleton/udp_input.c` | pool, receive queue, the array `bufs` reused by every burst | the burst loop of `main` | stale entries of `bufs`; frames that are never freed | the frame printed is the frame received; buffers come back |
| **Flow filter**, `dpdk/flow_filter/main.c` | pool, receive queue, the port's rule | `set_flow_filter`, `main_loop` | results tested the wrong way round; `continue` past the free | the loop runs behind the rule; buffers come back |
| **Socket redirection**, `bpf学习/sock_redirect` | two socket maps, used at key 0 only and shared with the kernel | the accept loop of the loader, the verdict program run for every message | the maps are filled one after the other while the program already runs; every client is stored at the same key; clients send and close at any time | a message goes to the server in order, an answer to the client that asked; what the program delivers instead is stated exactly |
| **Datagram pairs**, `socket学习` (broadcast, multicast, `senoir_udp`, `high_con_udp`) | two processes, a lossy channel | send after a sleep; bind and receive | order by `sleep` only, loss | the receiver ends |
| **Thread class**, `cpp/thread.h`, `thread.cc` | a thread and its id | construct, `run`, `stop`, destroy | join without cancel, copies | the destructor returns, each id is joined once |

### Data structures and algorithms

| Component | Operations | Hard behaviour | Correct when |
|---|---|---|---|
| **Doubly linked list**, `数据结构/double_linked_list.cpp` | add and delete at both ends | two chains of pointers kept consistent, the last node | it is a sequence with two ends; no leak, no dangling pointer |
| **Search trees**, `数据结构/tree.cpp` | two insertions, `search`, `min`, `max`, rotations, `is_balance`, six traversals | rotation chosen after a recursive call; traversals with explicit stacks | ordered, balanced, traversals agree |
| **Sorting**, `数据结构/sort.cpp` | seven functions | bounds, equal elements, heap nodes with one son | the result is sorted and has the same elements |
| **Dynamic programming**, `算法/*Package*`, `Coins`, `coin`, `Fibonacci`, `fb`, `Subsequence`, `max_*` | tables and recursions | indices off by one, results taken back, vectors kept between calls | the optimum is found |
| **Sliding windows**, `算法/min_substr`, `permutation`, `xor_substr`, `not_repeated_substr` | windows over a string | counts kept per character | the window asked for is found |
| **Backtracking**, `算法/Permutations`, `Queen`, `queen` | searches with undo | the shared board or path | every solution once |
| **Lock dials**, `算法/openlock`, `Dial` | breadth-first searches | dead combinations, duplicates in the queue | the fewest turns |
| **Ring list**, `数据结构/ring_linked_list.cpp` | add and delete at both ends, each followed by a walk round the ring | a ring that is not closed by `add_to_tail`; walks that never end or read a deleted node | what is printed is the list the callers expect |
| **Sorted list**, `数据结构/singel_linked_list.cpp` | `add_node`, `del_node`, `dump` | an insertion that loses the nodes behind it | the walk ends, in order, and loses nothing |
| **Skip list**, `数据结构/skip_linked_list.cpp` | `add_node` with a drawn level, `del_node` | counts used as indices, a loop that stays where it is, a delete of the wrong node | every level is a sorted part of the one below |
| **Calculator**, `cpp/test2.cpp` | `calculate_input` on two stacks, recursive in parentheses | precedence, association, the end of the input | the value of the expression |
| **Binary search**, `数据结构/binary_search.cpp` | one loop | the bounds of the halves | it ends, and finds |
| **Red-black tree, stack, queue**, `数据结构/rbtree.c`, `stack.cpp` | insertion, rotations, fix-up; push and pop | a node renewed but not its parent's parent | the rules of a red-black tree |

### How the parts interact

Only three kinds of interaction exist. The clients of the flash sale interact
through the redis server, which executes one command at a time. The threads of
`lock_test.c` interact through memory and two mutexes. The three DPDK programs
interact with the driver through the mbuf pool and the port's queues: that
part is not in the repository and is modelled once, in `MbufPool`, from the
calls the programs make. The loader of `sock_redirect` and its verdict
program interact through the two maps, and with the clients and the server
through the kernel's sockets. The functions of `算法` and `数据结构` are called by
their own test `main` and by nothing else.

`PROJECT.json` lists every component, modelled or not, and the hazards of the
code at the lines where they bite.

## 2. Modules

    FlashSale  <--refines--  MSRedis  <--  MSRedisProofs
    Deque      <--refines--  DoubleList
    DoubleList, Sorts, LockDial, Windows  <--  SequentialPrograms, SequentialProofs
    MbufPool   <--  ArpResponder  <--  ArpResponderProofs
               <--  UdpInput  <--  UdpInputProofs
               <--  FlowFilter  <--  FlowFilterProofs
    LockTest   <--  LockTestProofs
    SockRedirect  <--  SockRedirectProofs
    NodeWalks  <--  RingList, SortedList, SkipList  <--  Lists  <--  ListProofs
    Arrays     <--  DynamicProgramming, Backtracking
    DynamicProgramming, Backtracking, Calculator  <--  Algorithms
    Lists, Trees, Algorithms  <--  ListsTreesAlgorithms

Operators that a comment calls *Mutant* are variants of the definition below
them with a plausible mistake in it. The specifications do not use them; they
are there to confirm that each property fails when the code is wrong.

**MSRedis** models the program as one process per client. A redis command is
one step, because the server runs commands one at a time; between two commands
of a client anything can happen. `Start` is a new invocation of the program,
`Get`, `SIsMember`, `SAdd`, `Decr` are the commands with the early returns
that follow them, `Fail` is an error before the command reached the server or
a killed process: `MSRedis` returns and undoes nothing. A reply lost *after*
the command was executed appears in `SAdd` (an error although the user was
added) and in `Decr` (go-redis sends the command again, `Retries` times in a
run; for the other three commands sending again changes nothing). The history
variable `bought` counts how often a user was charged. The client library is
not in the repository. `SIsMember` and `SAdd` are passed a pointer to the
user; the model takes it to be written as the string it points to. A version
of the library that refuses pointers returns an error there, which is the
behaviour of `Fail`.

**FlashSale** is what such a sale promises: `Sell` takes a unit and records
the user in one step.

**LockTest** has one label per operation of a thread. `++` is a load and a
store, since nothing but the mutex makes it atomic. The thread's test of the
limit reads the counter after both unlocks, as `*result` does. `main` creates
four threads in order, exits the process when it can not, and joins in order;
threads 3 and 4 only sleep, so `main` stays in the third join and no mutex is
ever destroyed.

**MbufPool** counts references instead of naming owners: a buffer freed twice
is in the pool twice. `Deliver` is `rte_eth_rx_burst` for one frame, and posts
a fresh buffer, so that nothing is delivered from an empty pool. **ArpResponder**
has one action per path of a frame through `recv_dev_buffer` (`Foreign`: the
`continue` at line 190, `NoReply`, `Request` with the allocation, `TxBurst`,
`Release`) and the port's own steps `Receive` and `Transmit`. The contents of
a frame are abstracted to the path it takes. **UdpInput** keeps the array
`bufs` with its stale and never-written entries; **FlowFilter** keeps the
answers of `rte_flow_validate` and `rte_flow_create` and the burst in hand.
Of line 62, which writes a zero byte at an offset it takes from the frame
without a check, and so outside the frame's data, it has only the freeing that
follows: the model assumes that the write does no harm (see section 6).

**DoubleList** has the heap (`live`, `value`, `pre`, `next`) and the two
pointers of the class, and one action per member function. `order` is a
history variable: the nodes in the order the callers expect. **Deque** is the
abstract sequence with two ends.

**SockRedirect** has the loader's loop (`Accept`, `Store` or `StoreFails`,
`Redir` or `RedirFails`, `Wake`, one action for each call that others can come
between), the
verdict program, one action for each side a message can come from, and the
peers. Both maps are used at key 0 only, so each is one entry. The messages of
a client are numbered; `dropped`, `forwarded` and `received` are histories, and
`turn` says as the how-manieth a client was stored. Two rules of the kernel are
part of the model: a socket whose peer has closed is refused by the map, and a
socket that is reset leaves it. Whether the kernel takes `sock_remote`, which
is put into its map again for every client, is open each time; a refusal ends
the loader and with it both maps.

**NodeWalks** defines what a loop over the nodes of a list goes through.
**RingList** makes the walk of `dump`, with which every operation ends, part of
the operation: it prints the ring, or the program ends in one of three ways
(null dereferenced, a deleted node read, a walk without end). **SortedList**
and **SkipList** likewise contain the loops that look for a place; the level a
node of the skip list gets is any that `choose_level` can draw. Histories say
what the callers expect (`order`) and which nodes were unlinked and not deleted
(`kept`). **Lists** puts the three side by side: a behaviour is a run of one of
the programs, and `class` says of which.

**Trees** represents a tree by nested tuples, as no node has two parents; a
function that relinks nodes returns the new top, as in the code. The traversals
with a stack are loops over the program's own stack, mark set and saved nodes.

**Sorts** is a state machine of the seven sorting functions: a behaviour is one
call, and a step is a turn of a loop, or the entry to or the exit from one.
`fn` and `pc` say which function runs and in which loop it is; the other
variables are the program's, with two exceptions. `jobs` holds the calls of
`quick_sort` that have not returned, with the innermost first. `heapify` needs
no such stack, since its call of itself is its last statement: `index` is the
node it is at. `given` is a history, the array as the caller passed it.

**LockDial** is in the same way a state machine of the two breadth-first
searches: a step starts or ends a round, takes a combination out of the queue,
or turns one of its wheels one way and queues what is new. `offer` is the queue,
`seen` the set of what was put into it, `rest` what `size - index` is in the
code; `openLock` differs in what it marks as seen and in what it lets pass in
its first round.

**Windows** is the third of this kind: the four functions that move a window,
from `lower` to `upper`, over a string. A step takes the next character in
(`Grow`), or is a turn of the loop that takes characters out. `window` is
`window_map` and `valid_ch` together; the entries of the map are there from the
start with 0, which is what the code reads for a missing one. A string is a
function on the positions the code indexes, from 0.

**SequentialPrograms** puts the list, the sorting functions, the searches and
the windows side by side: a behaviour is a run of the list, or one call of one
of the functions.

**DynamicProgramming, Backtracking, Calculator** hold
one operator per function, with the loops as folds or recursive operators and
the tables as functions; `Calculator` also holds the loop of `binary_search`.
What the calls of a recursion share, the board or the path and `results`, goes
into each call and comes back from it as the call left it, so that a queen a
call leaves standing, or a coin it leaves in `results`, is there for the next.
**Algorithms** is the harness: one step calls one function on some input; the
Fibonacci functions with a `static` vector are called in sequences. The
expressions are generated together with their value and split into characters
for the call. **ListsTreesAlgorithms** puts the lists, the trees and the
functions side by side, as `SequentialPrograms` does.

## 3. Runs

| Run | Instance | Distinct states | What it shows |
|---|---|---|---|
| `MSRedis` | 3 clients, 2 users, 2 units, 1 retry | 27 176 | The sale *does* oversell and overcharge, and these are the exact limits: `OversellBound`, `RepeatBound` (one for each DECR concurrent clients can send, less the last unit that was really there). A charged user is always recorded (`SoldIsRecorded`). Once sold out, the admitted clients drain away (`SoldOutSettles`). |
| `LockTest` | limit 2, counters to 4 | 1 297 | No increment is lost; the counters stay within one; the crossed wait is the only way to get stuck and is final; a thread that exited has seen its limit; every fair run ends in one of four ways (`EndsSomehow`); a survivor is never blocked again. |
| `ArpResponder` | 5 buffers, queues of 1, 2 replies | 114 050 | Every reference is accounted for: a reply freed although the driver holds it adds one, a foreign frame takes one away. When the pool can run dry; and that foreign frames that keep coming end every run in a program that polls with a dry pool for ever, exits or crashes (`ForeignFramesStarve`). |
| `UdpInput` | 5 buffers, queue and bursts of 2 | 10 600 | No frame comes back, so `bufs[1]` may be stale but never belongs to the driver; frames that keep arriving make the program deaf. |
| `FlowFilter` | 4 buffers, queue and bursts of 2 | 480 | Every buffer is in one place; only passed-over frames empty the pool; if they keep coming, the program goes deaf. |
| `SequentialPrograms` | list: 4 nodes, 2 values; sorts: arrays of up to 5 elements of 4 values; dials: 2 wheels of 3 digits; windows: sources of up to 5, targets of up to 3 characters of 3 | 908 175 | List: the chains agree with the expected order, nothing leaks or dangles, and the list implements `Deque`. Sorts: the array has the elements it was given, each as often, in order (`SortsSort`). Dials: the fewest turns, or -1 when dead combinations close every way (`FewestTurns`). Windows: the first shortest part, the longest closed run, and of permutations only those that are there, all of them for a target without repeats (`WindowsExact`). Every function returns (`CallsReturn`). |
| `SockRedirect` | 3 clients, 3 messages | 362 683 | Messages are dropped, forwarded and waiting in the order sent, and only the first client that is stored loses any (`InOrder`); an answer can reach a later client than the one that asked, never an earlier one; a replaced client is cut off for good; every client is stored in the end unless the loader has ended, because the client it had accepted was closed or `sock_remote` was refused (`EveryoneStored`). |
| `ListsTreesAlgorithms` | lists: 4 nodes, numbers 1..3, 3 levels; trees: keys 1..7; functions: see below | 86 714 up to symmetry | Ring: it prints what is expected until `add_to_tail` meets a list with a node in it, after which nothing repairs it. Sorted list: it stays sorted and finite by cutting off what follows an insertion, and that is all an insertion takes away. Skip list: while the program is neither stuck nor in undefined behaviour, its levels are ascending lists nested in each other, in which only one value can be deleted, and an operation changes that value only. Trees: for every order of insertion, order, search, balance and agreement of the traversals. Algorithms: each function on every small input against a definition that computes the result another way. |
| `ArpExhaustion` | 4 buffers | violation | `dpdk/arp/main.c:238` dereferences the result of `rte_pktmbuf_alloc` before the check; `send_eth_msg` says the program exits with "no free buffer". |
| `UdpInputPrint` | 4 buffers | violation | `dpdk/skeleton/udp_input.c:102` reads `bufs[1]` where the loop is at `bufs[i]`. |
| `FlowFilterRule` | 3 buffers | violation | `dpdk/flow_filter/main.c:150`: both results are tested the wrong way round; the loop only ever runs without the rule. |
| `CommonSubsequence` | texts of up to 2 characters of 3 | violation | `算法/max_comm_seq.cc:21` compares from the second characters to the terminators; the table in the comment at 6-14 counts the characters themselves. |

Deadlock is checked where the system can always step. It is off in `LockTest`
(threads deadlock and exit), in the DPDK models (they exit, crash, or wait for
frames that can no longer be received), in `SockRedirect` (the loader exits, or
waits for clients when all have come), in `SequentialPrograms` (a function
returns) and in `ListsTreesAlgorithms` (a ring's or a skip list's program can
crash or hang, and a call of a function ends the behaviour). `MSRedis` can always go on.

Some properties state what the code does where it falls short of what its
name says; the definition's comment then says so. `PermutationWindows`,
`NotRepeatedClosed`, `BestSum`, `LastNumberLost`,
`NothingRepairs`, `SortedByCutting`, `SkipExact` and `AnswersGoForward` are of
this kind: they give what the code does exactly, so a change of behaviour in
either direction shows. A property that names several parts, such as
`CountersExact`, `Accounted`, `OptimaExact` or `TreeExact`, is the conjunction
of definitions above it in its module, the type invariant among them where it
has no line of its own in the configuration (those of `SockRedirect` and
`DoubleList` are proved).

### Bounds, and why they are enough

* `MSRedis`: two clients already interleave between GET and DECR; the third
  lets two of them share a user while another buys; one retry separates the
  number of clients from the number of DECRs in the bounds; two units let the
  stock be taken down by one client while others are admitted. The bounds are
  proved for every instance.
* `LockTest`: `Limit = 2` leaves one round before the round that decides;
  `Bound = 4` leaves counters past the limit for the thread that stepped over
  it. `Bound` is the one bound that is not in the code: a thread starts no new
  round when its counter is there. The safety properties are proved for every
  limit.
* DPDK: more buffers than both queues and the program hold together, so that
  the pool runs dry only by what the code does, and bursts of two, so that
  index 0 and index 1 differ. `MaxReplies` caps the references that double
  frees create. The safety properties are proved for any cap;
  `ForeignFramesStarve` is about runs in which requests stop at some point,
  since an endless sequence of replies would add references without end.
* `SequentialPrograms`: four nodes have two inner ones, so that no node is next to
  both ends. Five elements of four values include arrays with equal elements,
  a heap in which a node has one son, gaps 2 and 1 of `shell_sort`, and a pivot
  that is left with two parts to sort. An access outside of the array would be
  an error of TLC. With two wheels of three digits every set of dead combinations
  and every target is tried (the code has 4 wheels of 10 digits; its loops treat
  wheels and digits alike). Sources of five characters and targets of three
  include targets with a repeat, of which `valid_ch` loses count, and windows
  that give up several characters at once. All safety properties of this run
  are proved for any heap, array, wheels, digits and strings.
* `SockRedirect`: a client that is stored first, one that replaces it and one
  that waits are all different; three messages let one be dropped, one forwarded
  and one left behind, or be of three clients. The safety properties are proved
  for any numbers.
* `ListsTreesAlgorithms`, the lists: four nodes let a list lose one between two others, and with three
  numbers one of them occurs twice. `MaxLevel` is 3 where the code has 5: a
  bottom, a top and a level between, treated by the same loop; draws past the
  top are included. The addresses are symmetric, since nothing compares them.
  All properties of the lists are proved for any nodes, numbers and levels.
* `ListsTreesAlgorithms`, the trees: seven keys fill three levels and reach all
  four rotations, at the root and below it, with subtrees between the rotated
  nodes.
* `ListsTreesAlgorithms`, the functions: arrays of up to 5 elements over four values, so that equal and
  negative ones occur; texts of up to 5 characters over three letters; amounts
  to 16 over the code's own coins; boards to 6x6 (the first size above 1 that
  has solutions is 4, and 6 has fewer than 5); expressions of up to three operators,
  so that one can wait on the stack for two others, with parentheses, signs and
  spaces.

### Fairness

* `MSRedis`: weak fairness of each client's run: neither the go runtime nor
  the network suspends a client for ever. `Start` is not fair; nobody has to
  buy.
* `LockTest`: weak fairness of each thread and of `main`. A mutex is not handed
  over fairly, so a thread may lose every race for it: no strong fairness.
* `SockRedirect`: weak fairness of the loader, which is scheduled and whose
  sleep ends. Nothing is assumed of clients, server or verdict program.
* `SequentialPrograms`: weak fairness of the steps of a sorting function, of a
  search and of a window: a function that was called runs on. Nobody has to
  call an operation of the list.
* DPDK: a posted descriptor eventually holds a frame and the loop runs on
  (weak fairness). `NoiseDeafens` and `ForeignFramesStarve` are about networks
  on which frames that are passed over keep coming, and assume just that, as
  strong fairness of `PassOver` and of `Foreign`. Nothing is assumed of when the
  driver transmits or frees a reply.

## 4. Proofs

All theorems hold for every value of the constants that satisfies the named
assumptions of the module, and `tlapm` checks them to the last leaf.

**MSRedisProofs** (finite set of clients, any users, `Stock` and `Retries`
natural). `OversellBound` is not inductive: in a state with the stock at the
bound and a client about to send DECR it would be broken by the next step.
`SaleInv` charges the DECRs *to come* in advance: the stock less the number of
sends the admitted clients still have is at least the bound, and what a user
was charged plus the sends to come for that user is at most the bound. A
client that is admitted brings `1 + Retries` sends with it, and is admitted
only while the stock is positive; a DECR takes one from both sides; a client
that leaves takes its sends with it. The counting rests on cardinalities of
two sets of sends (`SendsCounted`, `CountsBounded`, `LeaveCounts`,
`DecrCounts`). From it: `TypeCorrect`, `OversellBounded`, `RepeatBounded`,
`ChargedUsersRecorded`. `SerialImplementsSale` shows the other side: one client
at a time, without retries, implements `FlashSale`, whatever command fails, so
that concurrency and retries are the only reasons for overselling.

**LockTestProofs** (any limit). `LockInv` ties the owner of each mutex to the
labels of the threads, the register of a half-done `++` to the counter, and the
difference of the counters to the threads that are between their two
increments. From it follow mutual exclusion of the increments
(`NoIncrementLost`), `CountersStayTogether` and `ExitMeansLimit`, which
together are `CountersAreExact`, `OnlyCrossedWait` and `DeadlockIsFinal`. `LockInv` needs the clause about
threads not yet created, or `main` could restart one that holds a mutex.

**ArpResponderProofs** (any finite pool and queues). The equation of
`Accounted` over all places is inductive together with typing (`ArpInv`): every
step moves references from one place to another, and the one reference that
`Release` makes up is counted in `over`. From it `ReferencesAccounted`.
`PoolRunsDryByDrops` needs totals instead of single buffers: `Total` counts the
references of a place, `Take` and `Put` change it by one (`TotalTake`,
`TotalPut`), and `CountInv` says that the receive queue is always full, the
transmit queue at most full, and how the total over all places grows. At an
empty pool only the buffers in the two queues and the two in hand are left to
account for, and the rest must have been dropped.

**SequentialProofs**, the list (any heap, any values). `ListInv` is `TypeOK`, `Linked`
and `NoLeakNoDangling`: linking alone is not inductive, since a delete would
break a chain in which one node occurs twice, and a new node must be one that
is not in the list. From it `AlwaysLinked`, `MemorySafe`, and `ImplementsDeque`,
the refinement of the abstract sequence, one lemma per operation.

**SequentialProofs**, the sorting functions (any set of integers, arrays of
any length). `SortsSort` speaks of the array when a function has returned;
`SortInv` says what holds on the way there, for each function in turn, and
`SortingSorts` follows. It has two halves.

* *The same elements.* The array is the given one behind a bijection of its
  positions (`Moved`), and a bijection keeps how often an element occurs
  (`MovedRearranged`). `insert_sort`, `shell_sort` and `quick_sort` hold one
  element in `tmp` while the array has another one twice: for them it is the
  array with `tmp` put back into the hole (`Filled`) that is a rearrangement.
* *In order.* `select_sort`: the elements before `index` are in place and none
  behind them is smaller (`SettledBelow`). `bubble_sort`: the same from the
  other end. `select_sort` for vectors compares every pair in both orders; its
  first `index` elements descend, and the last of them is a smallest of all.
  `insert_sort` and the last pass of `shell_sort`: the elements before `index`
  are in order but for the hole. The earlier passes of `shell_sort` need no
  order at all, only that `jdex` is a multiple of `inc`, without which
  `arr[jdex - inc]` could be before the array. `quick_sort`: two elements are in
  order unless one pending call still has to sort both; the pending calls have
  no element in common, and around a partition the elements before `left` are
  at most, those behind `right` at least, the pivot. `heap_sort`: every node
  from the one being sifted on is at least its sons, except at the hole that
  sinks (`HeapBut`), where the sons are at most the father. That the root of a
  heap is its largest element is proved by a least counterexample.

**SequentialProofs**, the lock dials (any number of wheels and digits, any dead
combinations). `Arrived[n]` is what n turns lead to past no dead combination,
by definition; the search knows nothing of it. `DialInv` ties the queue to it:
the `rest` elements at the front are n turns away, n being `dial_count`, and
those behind them are n + 1 turns away and no fewer (`QueueInv`); whatever is
known and not dead waits in the queue, is in hand, or was turned every way
(`DoneInv`); whatever n turns or fewer lead to is known, and no fewer than n
lead to the target (`CountInv`). The three need one another: that the round
may end at `rest = 0` takes `DoneInv` and the second half of `QueueInv`, and
that half takes `CountInv`. `openLock` needs the start as an exception
throughout, as it does not mark it as seen. When the queue is empty everything
known is dead or turned every way, so by a least counterexample every
`Arrived[n]` is known (`NoWay`). `Arrived` is a recursive function; that there
is such a function is shown through the sets that are closed under turns
(`ArrivedExists`). From it `DialsFewestTurns`, and for -1 `NoWayAtAll`.

**SequentialProofs**, the windows (any strings shorter than the largest `int`,
which `min_count` starts with, and any target that is not empty). `WindowInv`
says what each function knows of the source on the way to `WindowsExact`.

* *The counts.* `window_map` always counts the characters in the window
  (`Counted`). What `valid_ch` counts differs: it never exceeds the number of
  characters that are there often enough (`Full`), and equals it in
  `slide_window`, which takes characters out of a window only while it has all,
  and for a target without repeats (`AtMostFull`). In the other two functions a
  character that is missing already can go once more and `valid_ch` with it:
  `DropFacts` says when. That is why permutations of a target with repeats are
  missed, and why none is reported that is not there.
* *Permutations.* A part that is no longer than the target and has all its
  characters as often is a permutation of it (`CoversPermuted`): the positions of
  each character of the target go into those of the source (`SmallerGoesInto`),
  all of them together fill the part, and so make a bijection. The converse is
  `PermutedCovers`.
* *Shortest.* Parts with all characters that end before `upper` start before
  `lower`, and those that start before `lower` are no shorter than `min_count`,
  but for those that end at `upper` or later while the window still has all
  characters: it is measured only when it loses one (`SlideInv`).
* *Runs without repeats.* `RepeatInv` has a part for runs that start before
  `lower`: they have a repeat already, or none of them is closed at `upper`.
  Without it a longer run could be missed.

From it `WindowsAreExact`. That the functions return is beyond the prover and
stays with TLC.

**UdpInputProofs** (any finite pool, any queue and burst). `UdpInv` adds to
`Accounted` where the loop is in the burst and that every entry of `bufs`, and
the one that was read last, is a buffer neither the pool nor the port refers to
(`Taken`): `ReadsOwnBuffer` says so only of the last read, and the next burst
would break it without the entries left over from earlier bursts. From it
`BuffersAccounted` and `PrintedBufferOwned`.

**FlowFilterProofs** (any finite pool, any queue and burst). `Accounted` needs
only that `main_loop` is at a frame when there is one (`FlowInv`). Most of the
work is counting: the positions of a buffer in the burst in hand, and the
buffers of the receive queue, when one buffer moves. From it `BuffersAccounted`.

**ListProofs** (any finite set of addresses, any set of integers, at least two
levels) holds the proofs about the three lists. Each has an invariant of its own,
and `ListsInv`, that the one of the program that runs holds, is inductive for
`Lists`. The types are `ListTypesKept`.

* *Ring.* `RingInv` says that while the program runs on, what was printed last
  is one round of the ring from `tail_->next`, and that it is the expected list
  if `tail_` is on it. That a walk visits no node twice, stays on the ring and
  is the only one there is is proved by a least counterexample, from the
  well-foundedness of the naturals. From it `ListPrinted` and `NeverRepaired`.
  The theorems say what an operation prints *when* the walk ends, and which of
  the three ends a detached ring can meet; not that every walk ends.
* *Sorted list.* `SortedInv` adds to the types that an ascending chain leads
  from `head` to null through allocated nodes. `Ascends` says the same of the
  walk that `List` chooses; that this is the chain of the invariant takes three
  facts about chains: there is only one from a node (`ChainUnique`), it is at no
  node twice (`ChainDistinct`), and so it is no longer than the memory
  (`DistinctFits`). Each operation is then shown to make a new chain out of a
  part of the old one, and which part. From it
  `SortedListAscends`, and with it the action property `InsertionsCut`
  (`SortedByCutting`).
* *Skip list.* Sequences are the wrong shape for an argument about several
  levels, so `SkipInv` speaks of sets: level by level there is a set of nodes
  such that `next` leads from each of them, and from `root_`, to the node of the
  set with the next greater value; each set is part of the one below, and all
  but one node of level 0 are on level 1. Insertion and deletion on one level
  are then facts about such a set (`LevelInsert`, `LevelDelete`). The loops are
  recursive functions over the heap as it is. That there is such a function is
  shown through the sets closed under a step of the loop (`LoopHasEnd`); where
  it stops, by the place with the fewest nodes ahead of it at which it would
  stop wrongly (`AdvanceStops`, and level by level `DescentStops`).
  `LevelPrinted` returns from the sets to the walks `dump`
  makes. From it `LevelsNest`, and with it the action property
  `ValueByValue` (`SkipExact`).

**SockRedirectProofs** (any clients, any number of messages). `SockInv` joins
`InOrder` and `AnswersGoForward` with three parts they rest on: `MapsInv`, the
client in `sock_store` has the latest turn, and until the server's socket is in
its map at most one was stored and nothing was forwarded; `WaitInv`, a client
waits for `accept` once, and not after it was stored, so that nobody's turn
changes; `AskedInv`, only a client that was stored is owed an answer. From it
`MessagesInOrder`, `AnswersForward`, `TypeCorrect`, and `ReplacedStays`, since
verdicts touch only the client that is stored.

Only model-checked: all liveness properties (`SoldOutSettles`, `EndsSomehow`,
`SurvivorRunsOn`, `DeafInTheEnd`, `NoiseDeafens`, `ForeignFramesStarve`,
`EveryoneStored`, `CallsReturn`),
which are beyond the prover; and everything in `Trees` and `Algorithms`, whose operators
are recursive, which the prover can not read.

## 5. Findings

The four violation runs, detailed in `PROJECT.json`, are disagreements of the
code with its own messages and comments: the ARP responder uses the result of
an allocation before it checks it, the UDP input prints another frame than the
one it checked, the flow filter announces a rule that was refused, and
`max_comm_sequence` does not fill the table its comment shows, but finds a
common subsequence of length 1 in two different strings of one character.

## 6. Not modelled

* Programs of one system call after the other (most of `socket学习`, the
  loaders of `bpf学习` but one, `syslog学习`, `unix-linux系统编程` and others):
  nothing but I/O and error messages. Several do not compile.
* Language samples in C++, Rust and Go, which have no behaviour beyond the
  feature they show. The Rust thread pool and TCP server are unfinished.
* `balance_delete` of `tree.cpp`, `col_dp` of `coin.cc` and `legal_position` of
  `Permutations.cc`, which nothing calls; stubs in `算法`.
* `rbtree.c`: nothing calls it and nothing makes a tree. `rbtree_insert` reads
  an uninitialised `pre` when the tree is empty, and its way down follows the
  sons of the new node, not of the tree, so that a node is only ever attached to
  the root. Rotations and fix-up are reached on a tree made by hand only.
* `stack.cpp`, whose `Stack` forwards to `std::list` and whose `Queue` nothing
  can be pushed to.
* The second and third dump of `dump_3_times`, which print the same ring again.
* Expressions whose parentheses do not match, and overflow, in the calculator.
* The damage done by `dpdk/flow_filter/main.c:62`: for a UDP frame to port 12345
  it writes a zero byte at `udp_hdr + 1 + data_length`, where the unit is the
  eight bytes of the header and `data_length` comes from the frame. The byte is
  outside the frame's data and may be in another buffer, or in the mbuf that
  describes it. `Accounted` and `NoiseDeafens` of `FlowFilter`, and the theorem
  about the former, assume that it damages nothing.
* IPv6 messages in `sock_redirect`, which the verdict program passes, a server
  that closes, and an `accept` that fails.
* Results of undefined behaviour: `min` and `max` of an empty tree, a Fibonacci
  index above the first one asked for, an empty target of `slide_window`.
* The start-up of the DPDK programs and of the BPF loader, each step of which succeeds or exits.
* Notes, images, generated headers and build products.

## 7. Plan

Done, in this order: flash sale and its abstract promise; locks; the mbuf pool
with the three DPDK programs; the doubly linked list and its abstract
sequence; trees; the pure functions; the ring, the sorted list and the skip
list; the calculator and binary search; socket redirection; the proofs about
the DPDK loops, the redirection, the three lists and the totals over the mbuf
pool; the sorting functions, the lock dials and the sliding windows step by
step, and the proofs that they sort, find the fewest turns and return what is in
the string. Every safety property of a passing run is a theorem now, but those
of `Trees` and `Algorithms`.

Left, by the weight of their hazards:

1. **Datagrams**: the client and server pairs of `socket学习` with a lossy
   channel and no order but a sleep.
2. **Addresses**: the walk of `client_addr.c`, which tries a failing address for
   ever.
3. **Thread**: construction, run, stop and destruction, with copies.
4. Proofs about the other algorithms, in the way of `Sorts`, `LockDial` and
   `Windows`: the loops of binary search and of the tables as steps, with
   inductive invariants; the ordered tree as a heap of nodes instead of nested
   tuples.
