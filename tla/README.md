# Verification of the Computer Systems Workspace

This directory holds TLA+ models of the programs of this repository that run
threads, processes or clients against each other, and of its memory allocation
simulator; TLC configurations that check them on small instances; and proofs,
checked by TLAPS, of what holds for every number of threads, every size of buffer
or memory, and every number of clients. `PROJECT.json` lists the components, the
runs, a mutant for each property, the source lines of each definition, the hazards,
the findings and the theorems.

    tlc -config semaphore.cfg MCProducerConsumerSemaphore
    tlapm ProducerConsumerSemaphore_proofs.tla

## Inventory

| Program | State | Operations | Interaction | What is hard |
|---|---|---|---|---|
| `project2/producerConsumerSemaphore.c` | `buffer`, `insertAt`, `removeAt`, `globalProductionCounter`, three semaphores, per thread the loop counter and a local | `produce`, `append`, `take`, `consume`, the loops of `producer` and `consumer`, `main` | shared memory under semaphores; create and join | the two waits and two posts of each loop are separate steps; their order decides about deadlock; the totals decide about termination |
| `project2/producerConsumerMonitor.c` | the same buffer, `count`, a mutex, two condition variables | the same, with `while`/`pthread_cond_wait` and `pthread_cond_signal` | shared memory under a mutex | stale tests after a wait, spurious and lost wakeups, `count` against the indices |
| `project2/readerWriterSemaphore.c` | `buffer[2]`, `stillWriting`, `readcount`, two semaphores | `writer`, `reader`, `main` | shared memory; a flag that ends the readers | the first and last reader act for the group; two loads against two stores; starvation of writers |
| `project2/readerWriterMutex.c` | `buffer[2]`, `stillWriting`, a mutex | `writer`, `reader`, `main` | as above | readers do not lock; each writer sets and clears the flag |
| `project 3/memoryAllocation.c` | `memory`, `processesVacated`, `compactionEvents`, the policy | `allocate`, `compaction`, `vacateProcess`, five policies, their helpers, `main` | sequential; a policy is called through a pointer and its result ignored | long sequences of requests, exact fits, loops that end only if a helper finds something |
| `classwork/sockets/*_server.c` | the listening socket, connections, `accept_new_connections`, a buffer per handler | `main` (accept, fork or create), `handle_connection` (read, `kill`, `killserver`, send) | TCP; fork or threads; signals | a flag read before or after a blocking accept, descriptors that children inherit, clients that vanish |
| `classwork/sockets/*_client.c` | one connection | connect, read the id, send a line, read the answer, `kill` | TCP | a server that goes away between any two calls |
| `classwork/fork_factorial/main.c` | a chain of processes | fork, wait, exit with the product | exit status | 8 bits of an exit status arrive; `fork()` before the test |
| `project 1/*.c` | a loop of children | fork, printf, exit | getppid, copied output buffers | the parent may be gone; buffered lines are copied |
| `project2/*nsyn*.c` | the same data | the same, without synchronisation | shared memory | data races, by intent: the exercise starts from them |
| `project0/basics.c` | none | sums, factorial, binary search | none | nothing runs concurrently, nothing is kept |

What makes each component correct:

* **Producers and consumers**: no value is overwritten before it is consumed,
  consumed twice, or consumed before it exists; values come out in the order of
  production; the program ends whenever its totals allow it.
* **Readers and writers**: a read sees both halves of one write; a writer in the
  critical section is alone; `stillWriting` is true while a writer is active; every
  thread finishes.
* **Memory allocation**: a request gets the cells it asked for and takes no other
  process's; compaction moves processes and changes nothing else; making room ends.
* **Servers and clients**: a client sees its own lines come back, each once and in
  order; a client's `kill` ends that session only; after `killserver` nobody new is
  served; every line is answered, or the client learns that the server is gone.
* **Fork programs**: the number printed is the factorial, if an exit status can
  carry it; every process ends; no line that was printed is lost.

## Modules

    BoundedFifo            AtomicPair               abstract specifications
       ^ refines              ^ refines
    CircularBuffer         ReadersWriters           shared data, loops and main()
       |                      |       |
    ProducerConsumer          |       |
       |        |             |       |
    ...Semaphore ...Monitor  ReaderWriterSemaphore  ReaderWriterMutex
                      all four use Posix

    Connections            EchoService              sockets; abstract specification
       |                      ^ refines
    SessionClient             |
       |                      |
    SessionServer             |
       |                      |
    EchoServer ForkServer ThreadServer --- Servers  composition

    ForkedProcesses --- ForkFactorial, ForkLoop --- Forks

    MemoryAllocation       (on its own)

Every composition has an `MC` module and its configurations; every module with
theorems is called `..._proofs`.

* `Posix` (external): semaphores as naturals, a mutex as its owner, a condition
  variable as the set of its waiters. Nothing is assumed about who gets through.
* `CircularBuffer`: `produce`, `append`, `take` and `consume`, whose text is the
  same in both programs. The console is the sequence of printed values.
* `ProducerConsumer`: what the loops and `main()` of both programs share. `pc[t]`
  is the call thread `t` makes next; every call on a semaphore, mutex or condition
  variable and every function of the buffer is one step. Threads run from their
  creation on; a failing `pthread_create` ends the process.
* `ProducerConsumerSemaphore`, `ProducerConsumerMonitor`: the two programs. In the
  second one each test of a `while` loop and each update of `count` is a step, and a
  blocked thread may wake up for no reason. The semaphore program does not compile
  as it stands: `items_in_buffer_sem` is not declared (line 40 declares
  `buffer_size_sem` in its place); the model takes it as declared.
* `BoundedFifo`: a queue of at most `Capacity` values 0, 1, 2, ...; both programs
  implement it, with the part of the ring between the indices as the queue.
* `ReadersWriters`, `ReaderWriterSemaphore`, `ReaderWriterMutex`: every load and
  store of `buffer` and the flag, every update of `readcount` and every test of it is a
  step. An update (`readcount++`, itself a load and a store) is one step, since only the
  holder of `readcount_update` gets there; that it is alone is checked (`Accounting`),
  and a reader that enters without the semaphore breaks it. The two accesses of one
  thread to the two halves have no order that another thread could rely on (the
  program with the mutex has a data race there): the model makes them in either one.
* `AtomicPair`: a pair of two equal halves that is written in one step and read in
  one step; `misread` never becomes true. The semaphore program implements it with both
  elements of `buffer` as the register and both values a reader loaded as what it has
  seen: a write takes effect with its first store, a read with its second
  load, and the comparison that follows never prints an error.
* `MemoryAllocation`: a pass of the compaction loop, a pass of the eviction loop
  and the call of the policy are a step each; the helpers that scan memory are
  operators, with their oddities: the longest sequence does not count its first cell
  and ignores the end of memory, the "tightest" space is the first one with more
  than enough cells, `is_compact` does not look at cell 0. After a write past the
  end of memory (worst-fit only) the model stops in the state `overrun`.
* `Connections` (external): the listening socket and its backlog, the descriptors of
  each process of the server, what was sent and not yet read, and the reset that
  answers data sent to a client that has left. `fork` copies descriptors, the end of
  a process closes them.
* `SessionClient`: both client programs; they differ in the id that the session
  client reads first. A user types `hello`, `kill` or `killserver`, or ends the input.
* `SessionServer`: what `main()` and the handlers of the three servers share;
  `EchoServer`, `ForkServer` and `ThreadServer` add what differs. `handler[c]` is
  what the handler of client `c` does next, be it a call, a child process or a thread.
* `Servers`: a server of each kind (`program`) with its clients.
* `EchoService`: what a user may rely on: the answer to a line is that line, until
  the connection breaks. All three servers implement it.
* `ForkedProcesses` (external): fork, wait, exit status and buffered output;
  `ForkFactorial` and `ForkLoop` are the programs, `Forks` takes them together.

An operator whose comment starts with "Slip" is a plausible mistake in the
definition after it. No specification uses it; a mutant puts it in the place of that
definition to show that a property would notice.

## Runs

| Run | Instance | Distinct states | Shows |
|---|---|---|---|
| `semaphore` | 2 producers of 3 values, 2 consumers of 2, buffer of 2 | 10,047 | accounting of the semaphores; the surplus, and nothing else, is left in the buffer at the end; refinement of `BoundedFifo`; termination |
| `monitor` | 2 producers of 2, 2 consumers of 2, buffer of 2, 1 spurious wakeup | 17,466 | ownership of the mutex, tests that still hold when used, `count`, no lost wakeup, refinement, termination |
| `rw_semaphore` | 2 writers of 2 passes, 2 readers | 21,368 | exclusion, accounting, the flag, refinement of `AtomicPair`, readers stop |
| `rw_starvation` | 1 writer, 2 readers, strong fairness | | **violated**: writers may starve |
| `rw_mutex` | 2 writers of 2 passes, 1 reader | 13,248 | ownership, whole writes, the flag is false once all have written, termination |
| `rw_mutex_torn` | 2 writers, 1 reader | | **violated**: a read may be torn |
| `memory` | 6 cells, 6 requests of 1, 2, 3 or 5, all five policies | 92,535 | compaction ends and keeps the contents; next-fit keeps processes whole; paging shares no frame; only worst-fit leaves memory |
| `memory_pages` | 6 cells, 5 requests of 2, 3 or 5, paging | | **violated**: a request gets fewer cells than it asked for, and nobody is vacated |
| `memory_region` | 6 cells, 5 requests, best-fit | | **violated**: an exact fit overwrites the process in cell 0 |
| `memory_evict` | 6 cells, 5 requests, first-fit | | **violated**: the eviction loop may not end |
| `servers` | each of the three servers, 2 clients of 2 lines, a backlog of 1 | 48,535 | refinement of `EchoService`; sessions and servers end for a cause; `killserver` holds; every line is answered; whoever connects is served |
| `forks` | factorial of 0 to 12; both loops with 3 children; output to a terminal or a file | 4,927 | the factorial is printed, if it fits an exit status and the chain got down to 0; lines that are printed are written, and how often; every process ends |

**The bounds.** Two threads of each kind are the least with two rivals for every
resource; with a buffer of 2 and 6 values the indices wrap around three times, the
buffer is full and empty, producers and consumers block, and in `semaphore` two
values are left over. Two passes per writer let a writer that goes on meet one that
has finished. Six cells hold three frames and enough processes for fragmentation at
both ends; six requests let evictions follow compactions and a further placement
follow both, with sizes that fit exactly, leave one cell, or need an odd half frame.
Two clients are one session and one that it could disturb; with a backlog of 1 the
second one connects while the first waits to be accepted or is served; of two lines
the first can be `killserver` and the second an ordinary one or `kill`, and a client
can hang up before, between and after them. The argument of the factorial stops at
12 because 13!, which the program accepts, does not fit the integers of TLC; the
remainder by 256 is 0 from 10! on. With three children each line of `main()` can be
printed before, between and after forks. `MaxSpurious` bounds spurious wakeups,
`MaxRequests` the input, `MaxVacated` the counter of evictions, which only output
uses, `MaxLines` what one user types. The theorems have no such bounds: they hold
for every value of these constants.

Deadlock is checked in all passing runs but `servers`, whose programs wait for
clients forever (`CHECK_DEADLOCK FALSE`).

**Fairness.** Weak fairness of each thread and of `main()`: the kernel runs every
thread that can run, and POSIX promises no more; a blocked thread may be overtaken
each time. Creation may fail without any fairness. `rw_starvation` uses strong
fairness, the most that could be asked, so that its counterexample is not a matter
of an unfair semaphore: the writer's wait is simply never enabled. In the memory
simulator only `allocate` is fair: the input may end at any request. In `Servers`
the reads of the clients, the handlers and `main()` are weakly fair; users need not
type, hang up or connect. In `Forks` every process is.

## What the runs found

Where the code disagrees with what it says of itself:

1. **Writers may starve** (`readerWriterSemaphore.c:78`, against the comment at
   63): two readers take turns so that `readcount` never gets to 0; they loop until
   the writers have finished, so nothing ends the cycle.
2. **A read may be torn** (`readerWriterMutex.c:116`, against 114-115): the reader
   loads the halves on both sides of a store.
3. **Paging cuts a request short** (`memoryAllocation.c:482`, against 456-458): the
   free halves of half-used frames are counted as room, so that nobody is vacated when
   there are too few free frames; `pages()` places what it can and reports success (395).
   The process then holds fewer cells than it asked for (`PagedWhole`). That this happens
   only when no free frame is left is `CutShortWhenFull`, which is proved.
4. **An exact fit overwrites** (`memoryAllocation.c:223`, against 256-258).
   First-fit breaks the same contract: it looks at one free cell, fills the next ones
   whatever they hold, and turns down the last possible start (266); worst-fit may
   also write past the end of memory (330-333).
5. **The eviction loop may not end** (`memoryAllocation.c:482`, against 464-466).

Four more disagreements have no run of their own:

* **The flag is cleared early** (`readerWriterMutex.c:91`, against 51-53, "will be true
  as long as any writer thread is active"): by the first writer to finish. With
  `FlagWhileWriting` added to `rw_mutex.cfg` TLC shows it. The flag does end up false:
  `FlagSettles`.
* **The factorial is wrong for most arguments** (`fork_factorial/main.c:83` and 91,
  against 47-49, "compute the specified number. If print is true, print it"): `main()`
  accepts 0 to 13 (11, 36-37), and the program prints 208 for 6!, and 0 from 10! on,
  since an exit status has 8 bits. After a `fork()` that failed (63) it prints a product
  without the small factors. There is no message in either case. With `PrintsFactorial`
  added to `forks.cfg` TLC shows both; what the code does keep is `FactorialIfItFits`,
  which is checked and proved, and what it prints otherwise is `PrintsProduct`, which
  is proved.
* **The parent prints nothing after a fork** (`project 1/fork_scheduling.c:28-37`,
  against 4-6, "After each fork, both the child and the parent will print a message to
  the console containing their PID"): it prints one line before the loop (23), and in the
  loop only when a `fork()` failed. `OutputComplete` is about the lines that are
  printed, not about those that the comment promises.
* **A request for one page takes a frame and a half** (`memoryAllocation.c:374-391`,
  against 338-343, "a full frame must be reserved for each chunk"): `pages()` fills both
  cells of a frame and then the first cell of the next one, the frame that the comment at
  384-386 means to leave half empty, though half a frame would do. Of a larger odd
  request the full frame holds two pages that are due, so that it gets as many cells as
  it asked for. `Paged` takes this as it is: 3 cells for a request of 1.
What the passing runs say more precisely than the comments do:

* `producerConsumerSemaphore.c:23-29` (production must reach consumption) is correct
  but not sufficient: the surplus must also fit the buffer (`Balanced`). With a larger
  one the program never returns (`SurplusLeft`). The numbers in the file, 75 and 70
  with a buffer of 10, are balanced.
* `killserver` in the thread server is not immediate (45, 127-135): the client whose
  connection `main()` has already tested gets its thread; the next one is accepted,
  dropped without being closed, and waits for its id forever. `KillserverHolds` says
  exactly this, and `Served` excepts it. In the fork server the children keep the
  listening socket open, so that clients still connect after `main()` was killed.
* A client of the thread server that leaves without `kill` ends the server for
  everybody: empty lines are sent to it until SIGPIPE (`EndsForCause`). In the echo
  server the same client keeps the only handler in its loop.
* The fork loops write a line of `main()` again for every child forked after it, when
  the output is not a terminal (`OutputComplete`). A child of `fork_scheduling.c` may name
  another process as its parent (31): `getppid()` is called when the parent may have
  ended already. No comment says which process the line names, and `OutputComplete`
  accepts either.

## Proofs

The theorems hold for every finite set of threads, every limit and every buffer
size of at least 1 (`BufferAssumption`, `ThreadAssumption`, `LimitAssumption`); the
mutex programs also assume that no thread is called `Unlocked`. Those of the fork
programs hold for every `MAX`, as long as there are enough processes for it
(`ArgumentAssumption`, `ProcessAssumption`), and every number of children
(`ChildrenAssumption`). Those of the memory
simulator hold for every memory of at least one cell and every set of request sizes
(`MemoryAssumption`), those of the servers for every set of clients, backlog and
number of lines (`ConnectionAssumption`, `LineAssumption`).

* `ProducerConsumer_proofs`: counting threads at labels, arithmetic modulo
  `BUFFER_SIZE`, and what each call on the buffer does to `RingContents` and to the
  queue that `BoundedFifo` sees. `RingContents` is stated with `Appended` and `Taken`,
  numbers of values, so that the slots in use are an interval and two different
  offsets below `BUFFER_SIZE` never meet (`ModDistinct`).
* `ProducerConsumerSemaphore_proofs`: the inductive invariant is `TypeOK /\
  SemaphoreAccounting /\ RingContents /\ ConsumedInOrder`. Mutual exclusion follows
  from the first equation of the accounting; that nothing is overrun from the other
  two. None of the listed properties is inductive alone: exclusion needs to know that
  a free mutex means an empty critical section, order needs the ring.
  `SurplusLeft` and `DeadlockFree` add that calls are counted (`CallsCounted`): every
  pass of a loop that is over has produced or consumed one value, so that when all
  threads are done production minus consumption is what the ring holds. Mutual exclusion, no
  overrun and order of consumption have theorems and no run: the refinement and the
  accounting, which are checked too, imply them.
* `ProducerConsumerMonitor_proofs`: the same ring, with `MutexOwnership`,
  `WaitersWait`, `CountMatchesBuffer`, `TestHolds` and `NoLostWakeup`. The last one
  counts: while a producer is blocked, the free slots are at most the producers awake
  in their loop plus the consumers about to signal. A signal wakes one producer for the
  one slot that was freed, a wait adds a waiter only when there are no slots.
* `DeadlockFree` in both: if the surplus of production fits the buffer (`Balanced`),
  then as long as a thread has not finished some thread is not blocked. Were all
  blocked, nobody would be in the critical section, so that they would all wait for
  room, or all for items (`AllBlocked`). If all for room, the buffer is full, all
  consumers are done, and the calls counted say that the surplus does not fit; if all
  for items, it is empty, all producers are done, and production does not cover
  consumption. In the monitor it is `NoLostWakeup` that turns "blocked" into "full" or
  "empty". `Blocked` is the negation of the guards of the blocking calls:
  the prover has no `ENABLED`. The spurious wakeup is left out of what counts as going on.
* `ReaderWriterSemaphore_proofs`: the invariant is
  `TypeOK`, `Accounting` (each semaphore plus its holders is 1; `readcount` is the
  number of counted readers; `wsem` counts the group of readers once),
  `WritesWhole`, `LoadsCurrent` and `FlagCleared`. `Exclusion`, `NoMisread` and
  `FlagWhileWriting` follow, and each step maps to a step of `AtomicPair` or a stutter:
  with no store under way both halves agree (`WritesWhole`), and what a reader has loaded
  of either half is still there (`LoadsCurrent`), so that the pair it compares is the
  register.
  `DeadlockFree` carries along that the first reader is alone while it waits for `wsem`
  (`FirstAlone`): it holds `readcount_update`, which everybody else at the entry or
  the exit needs, and if counted readers that want to leave needed it too, no
  thread could go on.
* `ReaderWriterMutex_proofs`: `WriterOwnership`, `WritesWhole` and `Written` give
  `BufferSettles`; the last writer to finish clears the flag and nobody is left to set
  it again, which gives `FlagSettles`. `NoMisread` and `FlagWhileWriting`,
  which the program breaks, are of course not proved.
* `MemoryAllocation_proofs`: the invariant adds to the properties that a request that
  is placed fits the free cells (`RequestFits`), that no cell holds its identifier yet
  (`Fresh`), and that paging never compacts. A pass of compaction permutes the cells
  (`SwapPassCount`); next-fit takes the free cells whose rank among them is below the
  size, and ranks are the numbers below the number of free cells, each one once
  (`Ranks`, `FirstOnes`); paging numbers the cells of its frames in the same way
  (`PagesCount`). What memory holds is the set of pairs of a process and the number of
  cells in use before its cell (`Contents`); a pass moves the cells behind the first
  gap down by one, which leaves these numbers as they are (`ContentsKept`). It also moves
  the last cell in use (`Shrinks`): the variant for which `CompactionEnds` holds.
* `Forks_proofs`: both kinds of program. Of the factorial program the invariant says
  that its processes form a chain without gaps (`Chain`), that a process ends after all
  those below it (`ChainEnded`), and that an exit status is the product down to
  the end of the chain, modulo 256 (`StatusIsProduct`): multiplying 8-bit
  statuses gives the 8 bits of the product (`RemainderOfProduct`). A chain with a process
  for 0 ends at 0 (`BaseIsZero`), so that the product is the factorial, and if that
  is less than 256 it is printed (`FactorialPrinted`). `factorial` is a
  recursive function, and what it returns is shown without an induction theorem:
  of the finite beginnings of the function two agree where both are defined, for
  otherwise there were a least number at which they differ, and the least number
  without a beginning would have one (`LeastExists`, `BeginningsAgree`). Of the loops it says who has
  a copy of each line: as many copies are on the console as holders have ended, and
  each holder that has not ended has one in its buffer (`Accounted`, `LaunchAccounted`).
* `Servers_proofs`: the invariant has three parts. `OwnLabels`: each program keeps to
  its own labels. `HandedOver`: a connection is in the backlog, once, or at hand in
  `main()`, or open in the process of its handler. `Session(c)`: the one line under
  way of client `c` is on its way to the handler, with it, or on its way back. The
  refinement follows from `Session`; `KillserverHolds` from `HandedOver`. For
  `EndsForCause` two more facts are carried along: what a handler obeys was said by
  its client, and nothing is said after `kill` (`Heard`, `Farewell`). Two theorems
  are what the liveness properties rest on: a client and its handler never both wait
  for the other to speak (`SessionsNeverStuck`), and a client that waits for its id is
  never dropped on the way from the backlog to its handler, unless somebody said
  `killserver` (`NobodyForgotten`; `QueueInv` is the invariant).

Some theorems state more than a run checks. `NoDeadlock` (three programs),
`CompactionShrinks`, `CutShortWhenFull`, `PrintsProduct`, `NeverBothRead` and
`NotForgotten` are definitions of the modules, so that adding them to a configuration
checks them: TLC finds all of them to hold on the instances above. The configurations check the liveness
properties that rest on them instead. The inductive invariants were found with TLC in the same way.

Only model-checked: everything about liveness (`Termination`, `ReadersStop`,
`CompactionEnds`, `Answered`, `Served`, `AllEnd`), which the prover cannot do. What it proves instead is the safety part: that not all are blocked,
that a loop has a variant, that what is waited for is under way, and that a program
that has ended has done its output (`OneNumberPrinted`, `OutputComplete`). Everything else
that a passing run checks has a theorem.

## Not modelled

* **The unsynchronised programs.** Every access to their data is a data race, of
  which C promises nothing, and they are where the exercise starts ("TODO: Add
  synchronization"): no comment states what they would do. What goes wrong without a
  lock, a wait or a count is what the slips of the synchronised modules show
  (`ConsumerSkipsMutex`, `WriterSkipsLock`, ...).
* **`project0/basics.c`**, but for `factorial()`, to which the fork program is
  compared: one-line exercises on integers and arrays, without state.
* **What the clock says** in `fork_timing.c`.
* Within the modelled programs: initialisation and destruction of semaphores and
  mutexes, socket set-up, `accept()` and `pthread_join()`, which are taken to succeed;
  output other than what a property is about; random pauses, which the interleaving
  covers; overflow of ints, out of reach with the limits in the files; `fillMemory()`
  and `lastAllocationPoint`, never used; an input file that does not hold nonnegative
  integers; the contents of memory past the array.
* Of the servers: lines are short, so that what is sent in one piece is read in one
  piece; the id is a token (its text overflows an 8-byte buffer); each client connects
  once; a second `killserver` of the fork server signals whoever adopted the child,
  and what that does is left out; descriptors and process identifiers do not run out.
* Of the fork programs: the output of one process fits the buffer of the C library,
  nobody sends a signal, and the check of the command line is the range of `arg`.

## What is left

* Variants for the other liveness properties, as `Shrinks` is one for compaction: what
  a step of a fork program or of a thread that produces takes off what is still to do.
* One theorem that a server with its clients only stops when its users do, from
  `SessionsNeverStuck` and `NobodyForgotten`.
* Liveness of the servers under a client that never stops typing; TLC's bound on lines
  ends every conversation.
* A second connection per client, for descriptors that the kernel uses again.
