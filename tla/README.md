# fatest: TLA+ models, checks and proofs

`fatest` is a collection of small, independent programs, most of them written
while reading *UNIX Network Programming*: echo servers in every process model,
IPC and thread experiments, data-structure libraries, sorting routines, a small
C++ utility library and two bulk loaders in Go. There is no single system; each
program is a component of its own, and the modules are grouped accordingly. The
process-pool server is the largest concurrent program and the core of this
project.

Source paths are relative to `src/`; a bare `dd.cpp` is the program of the
section it stands in.

To check a run: `tlc -workers 2 -config <cfg> <module>`; to check a proof
module: `tlapm <module>.tla`. `PROJECT.json` names the runs, the source lines
behind every definition, the hazards of the code and the theorems.

## Inventory

| component | state it keeps | operations | interacts with | what is hard | what makes it correct |
|---|---|---|---|---|---|
| process-pool echo server (`unp/src/app/u15.7_…`) | parent: slot table, `childs_run_num`; child: the connection in hand, its descriptors; socket pairs | fork loop, epoll loop (accept, refuse, dispatch, read a report), child loop (receive, echo, report) | 50 children by messages and passed descriptors; clients | the table is a belief built from messages; batches of events; death of a child or of the parent | the table follows the children, one holder per connection, a refusal only when all are busy, every connection decided, children end with the parent |
| echo servers with `select`, `poll`, `epoll` (`u6.8_…`, `u6.10_…`, `u_reflect_sv_epoll`) | slots or registrations, descriptor sets, counters, the events of this turn | accept, refuse, read, echo, close | clients through the kernel | descriptor numbers used again within one turn; early exits of the scan; edge-triggered reports | the tables agree, the loop blocks only where it should, nothing is lost or forgotten, everything sent comes back |
| echo server with threads (`u26.4_…`) | a heap cell between `main` and each thread; descriptors | accept, create a thread, serve, close | threads share descriptors and the heap | the cell's owner changes; numbers are used again at once | one thread per descriptor, every conversation complete |
| echo server with `fork` (`u5.4_…`) | descriptors of parent and children; pending SIGCHLD | accept, fork, close, reap | children by inherited descriptors and signals | signals merge; copies of descriptors keep a connection open | an open connection has the right holders, no zombie is forgotten |
| echo client (`u5.2_…`) | the conversation | connect, send, half-close, wait for the FIN | a server | it is the servers' environment | – |
| mutex producer/consumer (`ipc/u7.3_mutex_p_c`) | array, two counters, mutex, condition variable, `count[]` | produce, consume, create and join threads | threads through shared memory | test with `if`; signal without a waiter; unlocked read; tallies outside the mutex | no lost wakeup, no element passed unread, quiet unlocked reads, totals agree, termination |
| time-series loaders (`tsdb/*.go`) | channel, a slice per worker, an atomic count | generate, receive, post, count, poll | a database over HTTP | part batches; failing posts; `main` returns under everybody's feet | a point has one place, the count follows the posts, `main` returns unless too much stays in part batches |
| red-black tree (`algorithm/rb_tree`) | nodes with four pointers and a color, a sentinel | insert, remove, find, destroy | – | two fix loops with mirrored cases; the sentinel's parent | one well-linked tree, red-black at every step, a dictionary, loops that end |
| AVL tree (`algorithm/avl_tree`) | nodes with a balance | insert, del, find, destroy | – | balances are kept, never recomputed | balanced, a multiset |
| dates and times (`unp/src/common/FaBaseTime`, `FaDate`, `FaTime`, `FaDateTime`) | a string of digits | assign, add, compare, subtract | the C library's calendar | leap years, centuries, 1970, `int` products, an unset flag | an addition moves by what was added; comparison of strings is comparison of instants |
| sorts (`algorithm/*_sort`) | an array, and the memory around it | seven sorting functions | – | cells next to the array, the last parent of a heap, a pivot without smaller elements | no element is lost; an array is sorted when a call returns, and nothing else was touched (which holds of four of the seven) |
| exercises (`point_to_offer`) | a string class's buffers; arguments and results | construct, copy, assign, destroy; five functions | the heap | assignment to itself, a null pointer, the least `int`, moving from two ends in one buffer | the function's value; a buffer has one owner |
| message queue (`ipc/u6.6_mqueue`) | a kernel queue behind a key, and an identifier in each process | create, send, receive, remove | other runs of the program | the queue is removed, filled or made anew between `msgget` and the call after it; errors are not looked at | every message printed once and in order, or its queue was removed |
| shared memory (`ipc/u14.6_shm`) | a segment behind a key, attached by processes | create, write, read, remove | other runs of the program | nothing keeps a copy and a print apart; a segment removed while in use; an argument too long to have an end | a print runs no further than what was copied, and is one content if no copy overlaps it |
| properties file (`FaProperties`) | a map of keys and values | open, close, getters | the logger | comments, blanks, separators in a value, lines too long, a second file into the same map | the map says what the lines say, while every line fits |
| logger (`FaLogger`) | a level, a stream | construct, initialise, log, close | properties file, stdio | a pointer nobody assigned; a stream replaced with its buffer full; a file that cannot be opened | a stream gets each enabled message once, in order; it crashes only when the object has no stream |
| time servers and client (`u1.5_…`, `u4.6_…`, `u1.2_…`) | one connection, a loop counter | accept, write byte by byte, close; connect, read to the end | each other | the client leaves in the middle: an unhandled SIGPIPE | a client that stays gets the whole time or nothing, and comes to its end |
| helpers and exceptions (`FaFunc`, `FaException`) | – | the day of the week; numbers and the clock into strings | dates | a table from another year on, centuries | the weekday is the calendar's |
| class registry (`cpp/cppreflect`) | a map from names to constructors | register, look up | static initialisation | order of initialisation, which the linker decides | – |
| process examples, Python scripts | – | straight lines of system calls | – | – | – |

What is not modelled, and why, is in the last section.

## Modules

| module | models | uses |
|---|---|---|
| `WorkerPool` | what a pre-forked server promises | |
| `ProcessPool`, `ProcessPoolProps`, `ProcessPool_proofs`, `MCProcessPool` | the process-pool server | refines `WorkerPool` |
| `OrderedLog` | what the mutex program promises | |
| `ProducerConsumer`, `…Props` | the mutex program | refines `OrderedLog` |
| `MessageQueue`, `SharedMemory` | the two System V examples | |
| `MCIpc`, `Ipc_proofs` | the three programs of `ipc/` in one run, and the proofs about all of them | |
| `TsdbLoader`, `…Props`, `…_proofs` | the two loaders | |
| `TimeServer` | the time servers and their client | |
| `MCPrograms` | loaders, time server and, without spurious wakeups, the mutex program in one run | |
| `EchoService` | what an echo server promises its clients | |
| `EchoSockets` | listen queue, connections and clients, shared by five servers | |
| `SelectServer`, `PollServer`, `EpollServer`, `ThreadServer`, `ForkServer` | the servers, with what each must satisfy | extend `EchoSockets` |
| `EchoSockets_proofs` | lemmas about the sockets, extended by the servers | |
| `EventLoops_proofs`, `EchoServers_proofs` | proofs about select, poll and epoll; about thread and fork, and about `MCEchoServers`, from these | |
| `MCEchoServers`, `MCEpollServer` | the five servers under the same promises; epoll alone | refine `EchoService` |
| `Dictionary`, `Multiset` | what the trees promise | |
| `RbTree`, `AvlTree`, `FaTimes`, each with `…Props` | the trees, the dates and times and their weekday | |
| `Sorts`, `PointToOffer` | the sorting programs and the exercises | |
| `FaProperties`, `FaLogger` | the properties file; the logger, which extends it | |
| `MCLibraries` | all the sequential code in one run | refine `Dictionary`, `Multiset` |

Modules that put several programs into one run (`MCEchoServers`, `MCIpc`,
`MCPrograms`, `MCLibraries`) have a variable that says which one runs; the
others stand still. A property names its program and says nothing of the rest.

A definition that starts with the comment "Mutant" is not part of a model: it
is a plausible mistake in the definition below it, and `PROJECT.json` names the
property that finds it.

## The process-pool server

Source: `unp/src/app/u15.7_reflect_sv_process_pool/dd.cpp`, with the client of
`unp/src/app/u5.2_reflect_client/dd.cpp`.

The parent creates `CHILDNUMBER` (50) children, each joined to it by a Unix
stream socket pair, and then runs an epoll loop over the listening socket and
the 50 pairs. A new connection is passed as an `SCM_RIGHTS` message to the
first slot marked idle; a child echoes until the client's FIN and writes its
number back; the parent then marks the slot idle. The parent never sees its
children directly: `childs[i].state` and `childs_run_num` are a belief built
from messages, and what can go wrong is that belief.

State: `ppc`, `nxt` (the fork loop's `i`), `state`, `run_num` and `batch` (the
events returned by one `epoll_wait` and not handled yet) are the parent's;
`cpc`, `cur` and `held` belong to the children (`held` grows, because nothing
closes the connected descriptor); `cmdq` and `repq` are the two directions of
each socket pair; `backlog` is the kernel's listen queue; `conn`, `cli`, `sent`
and `echoed` follow each connection. `is_use` is 1 in every slot from the fork
loop on and is left out, as are pids and the log. The SIGCHLD handler only
reaps and prints.

Events of one batch are handled in any order, which includes the order the
kernel chooses. `read` on the pair of a dead child returns 0 and leaves `buf`
as it was; the number parsed from it is any child number (an index outside the
table, which the C program could also produce, is not modelled).

Faults are constants, so that each run says which ones it allows: `MayAbort`
(clients that vanish, which lets `SIGPIPE` kill the child serving them),
`ForkMayFail`, `ParentMayFail` (socket, bind, listen or accept fail and the
parent returns from `main`), `FdLimit` (the child's descriptor table).

| run | environment | result |
|---|---|---|
| `pool_service` | 2 children, 3 clients, no fault | the table and the count follow the children (`PoolInv`, `SlotsMatchChildren`), the server implements `WorkerPool`, every connection is served or refused, every busy slot becomes idle again |
| `pool_faults` | every fault | no connection is ever with two processes, and none vanishes without a reason (`OneHolder`); no client receives more than it sent; all children exit after the parent |
| `pool_child_death` | a client aborts | **violated**: a slot marked idle whose child is serving |

Bounds: one client more than children, so that a refusal, a queue of two and a
re-used slot all occur; one chunk per client is enough to distinguish echoed,
half-echoed and not echoed. `MaxUnder` stops following the count below zero,
which only the faulty runs reach.

Fairness: weak fairness of the parent and of each child (the kernel schedules
runnable processes), of each client's half-close (a client's input ends) and of
its reading the FIN. Nothing forces a client to connect, send or abort.

What the finding means: when `SIGPIPE` has killed a child, its pair is readable
for ever, and at each turn the parent frees the slot whose number the old
contents of `buf` spell (dd.cpp:301-308), although that slot's child may be
serving.

What is lost under faults is described exactly by `OneHolder`: a connection
that was handed over lies in a child's queue or is the one it serves; one that
was served stays open, since a child never closes it (dd.cpp:162: the client of
`u5.2` gets no FIN), unless the child is dead; and one is dropped only because
the parent exited, because the slot's child is dead or was never forked
(dd.cpp:208: the slot looks idle and swallows what is sent to it), or because
the child's descriptor table is full (dd.cpp:150: no report is sent either, and
the slot stays busy for ever).

Proved (`ProcessPool_proofs`), for any number of children and connections, in
two layers.

In every environment, with all the faults above: type correctness
(`TypeCorrect`) and `FaultInvariant`, from which `OneHolder` and
`EchoedExactly` follow. `FaultInv` does not mention the parent's table, which
the finding shows to be wrong once a child has died. It says where a connection
can be for each value of `conn`: in the listen queue once (`BacklogInv`), in one
child's queue once or in one child's hands (`HoldInv`), and, if it is in
neither, for which reason (`NoneVanishes`); and how far its echo is
(`EchoInv`: in `echo` the child has something left to write, which is why one
more chunk never exceeds what was sent). There is one lemma per kind of step;
`ChildGoneStep` is the death of a child with what is queued for it.

Under the assumption `Healthy` (no aborting client, no failing fork, more
descriptors than connections; the parent may exit): `PoolInvariant`, from which
follow the agreement of table and children, the count, and the refinement of
`WorkerPool`. `PoolInv` adds to `FaultInv` that children exist exactly below
`nxt` and die only behind the parent (`ForkOrder`), and that a slot equals the
number of messages and jobs its child has outstanding, also after the parent's
exit (`SlotInv`). `HealthyStep` first discharges the fault actions; each part
then has its own lemma. The liveness properties are model-checked only.
## The mutex producer/consumer program

Source: `ipc/u7.3_mutex_p_c/dd.c`. `THREADS_NUM` (10) producers fill an array
of `MAX_PRODUCT` (200,000,000) elements under one mutex; a consumer waits on a
condition variable when it has caught up, and compares each element after it
gave the mutex back; `main` joins everybody and prints three totals.

State: the shared structure (`mutex`, `buf`, `nput`, `next_val`), `count[]`,
and where each thread is. Every access to shared memory is a step of its own
(`PStore`, `PNext`, `PValue`, `PSignal`, …), so the unlocked read (`CRead`) and
the tally outside the mutex (`PTally`) interleave with everything. The `if` of
line 51 is modelled as it is: what happens after a wakeup without a signal
(`SpuriousWakeup`, which a constant allows) is part of the model, including that the unlock
of line 55 is then skipped.

| run | instance | result |
|---|---|---|
| `ipc` | 3 producers, 3 products, spurious wakeups (with the two programs below) | no producer writes what the consumer reads unlocked; the totals agree whenever `main` prints them |
| `programs` | 2 producers, 4 products, signals only (with the loaders and the time server) | no lost wakeup; the program implements `OrderedLog`, liveness included; `main` returns |
| `pc_spurious` | 2 producers, 2 products, spurious wakeups | **violated**: the consumer passes an element nobody made, and keeps the mutex |

Bounds: two producers make a race for every lock and a producer that finds the
array full after another filled it; a third lets two wait while one holds the
mutex. Four products let the consumer wait, be woken and catch up more than
once.

Fairness: weak fairness of each thread. Strong fairness of the lock is not
needed: every producer stops when the array is full, so a thread that waits
for the mutex is in the end alone with it.

Proved (`Ipc_proofs`), for any number of producers and products:
`PCInv` is invariant with and without spurious wakeups; the consumer's check
never fails and its unlocked read never meets a write to the same element;
after the joins the array is full, in order, and the counters agree; the totals
that `main` prints are the length of the array (`TotalsAreTheLength`), although
each thread counts outside the mutex: what a producer made is its `count` plus
the one it has not tallied, and the subtotals over the producers are a function
of the state that needs no induction. Without spurious wakeups: no wakeup is lost, and every step is a `Make`, a `Take` or a
stutter of `OrderedLog`. `PCInv` needs who may hold the mutex where
(`LockInv`), how the two counters of lines 35-36 run together (`ValueInv`), and
that a woken consumer has something to read (`WakeInv`), which is the part a
spurious wakeup breaks. Termination and `OrderedLog`'s liveness are
model-checked only.

## Message queue and shared memory

Sources: `ipc/u6.6_mqueue/dd.c`, `ipc/u14.6_shm/dd.c`. Both are run once per
command; what interacts is several runs, by a kernel object that a key names.
A process in these models is one run, with any command, and each system call is
a step, so others run in between.

**Message queue** (`MessageQueue`). `queues` keeps every queue ever made, alive
or removed, with its messages; `sent` and `taken` record who put in and took
out. `msgsnd` waits for room and `msgrcv` for a message, as the program sets no
`IPC_NOWAIT`; when the queue is removed under them they fail, the program does
not look, and `rcv` prints a message that nobody filled in (dd.c:88-93).
`MessagesInOrder` says that this is all that goes wrong: what is printed is a
prefix of what was sent, each message printed once, and a sender that returned
0 has sent, unless somebody removed the queue between its `msgget` and its call.

**Shared memory** (`SharedMemory`). `memcpy` writes one character a step, in
any order; `printf` first looks for the end and then copies. The segment
lives on without its key while a process has it attached. `PrintsAreWhole`:
whatever is copied meanwhile, a print runs no further than the longest string
copied to the segment; so it ends inside the segment when every argument had an
end there, and runs out of it only when one had none. A print that overlapped
no copy shows the content copied last, when the copies ended on the page. Without a segment
(`read` before `create`) `shmat` fails and the program crashes (dd.c:56-60).
`strncpy` leaves an argument of `MAX_DATA` characters or more without an end
(dd.c:34). `Found` is what `strlen` then finds in the array: the argument cut
off, and whatever stood behind the array on the stack, up to a NUL. So a copy
may be longer than the segment; `shmat` maps whole pages, so that it
overwrites what is left of the page first (`PAGE` cells of which the segment has
`MAX_DATA`), and ends the process, or writes to something else, behind it
(`MemcpyBehind`). A print that finds no end on the page likewise.

Both are part of the run `ipc`. The queue has five processes with any commands
and room for two messages: two are in the queue while a third sender waits, a
`msgrcv` that took the newer one first is found (the run's mutant for
`MessagesInOrder`), and one process can remove the queue between two steps of
the others while the fifth makes it anew. The shared memory has four processes,
a segment of `MAX_DATA` = 2 cells on a page of 3, and arguments that are empty,
fit, or fill the segment and so have no end; behind these the stack has nothing, so
that the copy still ends on the page, or a character, so that it does not. The
processes of the shared memory are interchangeable, which `SYMMETRY` uses.

Proved (`Ipc_proofs`), of the composition `AllSpec` that the run checks, for any
set of processes with any commands, any capacity and any number of queues, any
arguments of any length and anything behind them on the stack:

- `MessagesStayInOrder`: `[]MessagesInOrder`. The property only speaks of
  processes that have returned; `QueueInvariant` adds which queue a process has
  between `msgget` and its call and for which call (`HeldInv`), that a queue
  holds what was sent to it less as many as were taken (`QueueInv`: two lengths
  and an index, so that no induction over sequences is needed), and that a sender and a receiver
  each stand once in the log of one queue, the one they have (`SentInv`, `TakenInv`).
- `PrintsStayWhole`: `[]PrintsAreWhole`. `ShmInvariant` says what is in a
  segment (`SegmentOK`): a cell that is not NUL lies within the content of some
  writer; and where all copies so far follow one another, the cells of the page the
  last one has copied hold its content. So a print has come no further than some
  content is long (`LengthInv`). `ReadInv` says how far a print is with the text
  it finds, as long as no copy overlaps with it and the copies before it ended
  on the page; a copy
  that begins afterwards makes the hypothesis false for good, which `LogInv` (each event once, the
  end after the beginning) shows.
- `ThreadsStayRight`: the first program keeps its properties in the composition,
  because under the other two its threads stand still (`ThreadsStandStill`).

`CONSTANTS` are restricted only by `IpcConstants`: a queue and a segment have
room for something, a page holds a segment, and characters are not NUL.
## The time-series loaders

Source: `tsdb/influxdb_insert.go` and `tsdb/opentsdb_insert.go`, which differ in
the wire format only and share one model. `gen` sends 10,000,000 points into a
channel of capacity 1,000,000; 50 workers gather 100 each, post them and add
100 to an atomic count; `main` polls the count and returns at 9,999,000.

State: how many points were `sent` and `received` (the channel is a queue, so
these two numbers are the channel), what each worker has gathered (`arr`) and
where it is, the points `stored` and `lost`, and `Count`. A post, the new slice
after it and the increment are separate where other goroutines can tell
(`Posted`, `AddCount`); a failed post is counted like any other.

The run `programs`, which it shares with the time server and the mutex program
(10 points, 2 workers, batches of 3, a channel of 3,
posts that may fail) shows that no point is in two places, that the count is
behind the posts by one batch for each worker about to count, and that only part
batches are left at the end. Of `main` it shows how it ends (`LoaderReturns`):
it returns, or it polls for ever, and then for one reason only: everything was
sent and received, every worker waits for points that will not come, and what
they hold in part batches is more than `main` tolerates (`Starved`). The
threshold keeps the source's relation: part batches may hold 2 · 2 points and
the run tolerates 10 − 8, as they may hold 50 · 99 = 4950 in the source
(`RemaindersOnly` proves the bound) and `main` tolerates 1000. So both ends occur
in the run. Nothing in the repository says that `main` returns, so that it may
not is a hazard and not a finding.

Bounds: two workers are needed for a point to be posted by the wrong one or
twice; the channel fills and empties several times; three batches are posted.

Fairness: weak fairness of `gen`, `main` and each worker (the Go scheduler), and
with a worker's fairness that a post returns in the end: `httplib` is given no
other end.

Proved (`TsdbLoader_proofs`), for any number of points and workers, any batch
size, capacity and threshold: `LoaderInv` and from it `OnePlace`,
`CountIsPosted`, that `main` returns only when `THRESHOLD` points were posted
(`ExitComesLate`), and the bound on the remainders. The last one needs that a
union of slices that share no point is as large as the slices together, shown
through an injection of the points left into numbered places
(`SliceNumbered`, `RemaindersBounded`). `MainReturns`, which the
run checks as `LoaderReturns`, is model-checked only.

## The time servers

Sources: `unp/src/app/u1.5_timeserver`, `u4.6_timesv_showcli` (one model: the
second also prints the client's address) and their client `u1.2_timeclient`.
The server takes one client after the other, writes the time one byte per
`write` and closes. `peer` is what its kernel knows of a client that left: a FIN
first, a reset once bytes were unread or a byte was answered, then `SIGPIPE`,
which ends the server for everybody still waiting.

The run `programs` has three clients, two of which may leave at any step, a
time of three bytes (so that a client can leave before, between and after them)
and an `accept` that may fail. `TimeIsTold`: a client that exits with 0 has the
whole time; one that exits with 1 got no byte, because the server had ended;
and every client that connected comes to its end, whichever others left in the
middle. So a client that leaves costs the others their connection but never a
part of their time.

Fairness: weak fairness of the server and of each client's `read` (the kernel
schedules them); nobody has to connect or to leave.
## The echo servers

Sources: `unp/src/app/u6.8_reflect_sv_select`, `u6.10_reflect_sv_poll`,
`u_reflect_sv_epoll`, `u26.4_reflect_sv_thread`, `u5.4_reflect_sv_fork`, each a
`dd.cpp`. The five speak with the same clients, so what they share is one
module, `EchoSockets`: the listen queue, connections, clients that send and
half-close (or vanish, `MayReset`), and what `read`, `write`, `close` and
`accept` do. A conversation is a byte stream counted in chunks; a read takes any
part of what has arrived. Each server module adds its tables and its loop:

| module | state | steps |
|---|---|---|
| `SelectServer` | `client[]`, `allset`, `nUserful`, `maxfd1`, and `rset`, `nReady`, `nDeal` of this turn | `Select`; the listening socket; then one slot a step, a read and its write being two |
| `PollServer` | `client[]`, `nFdUse`, `revents` and `nReady` of this turn | the same |
| `EpollServer` | a registration per descriptor (`level`, `edge`, `out`), its buffer `md`, `nFdUse`, the events of this turn | `EpollWait`, which reports at most `MAXCLIENT` of the ready descriptors; then one event a step in any order |
| `ThreadServer` | heap cells, `main`'s cell, each thread's argument and descriptor | each system call of `main` and of a thread |
| `ForkServer` | the processes that hold each descriptor, children, SIGCHLD pending, the handler | each system call of the parent, the handler and a child |

Descriptors are numbers, the lowest free one is given out and numbers are used
again: that a set computed by `select`, or an event list of `epoll_wait`, may
name another connection by the time it is used is the point of these models.
The kernel's part (readiness, level and edge triggering, SIGPIPE, the last
close sending the FIN) is marked external in `PROJECT.json`.

`MCEchoServers` runs the five as alternatives under the same properties;
properties about one server's tables say so, and each begins with the types of
the tables it speaks of.

| run | instance | result |
|---|---|---|
| `echo_faults` | clients vanish, 2 descriptors for 3 connections, `fork` and `pthread_create` fail | nothing read is lost, tables agree, no loop blocks where it should not, no descriptor has two threads, no zombie is forgotten |
| `echo_service` | 2 clients of 2 chunks, no fault, room for one with poll and epoll | each server implements `EchoService`; every connection is accepted or refused, everything sent comes back, every ended connection is closed; epoll's edge-triggered reports leave nobody behind (`NothingForgotten`); the fork server's descriptors have the right holders |
| `epoll_nul` | one client whose second chunk holds a NUL | **violated**: `strncpy` (dd.cpp:127) echoes NULs in place of what followed |

Bounds: in `echo_service` there is one client more than the poll and epoll
servers take, so a table is full, a client is refused, and a slot and a number
are used again; two chunks make a read that leaves something behind and an
arrival between read and write. In `echo_faults` three clients use numbers again
while other conversations go on. The thread server starts at most two threads
in the first run and three in the second. Three clients in `echo_service` take
too long for liveness; the refinement and the invariants are proved for any number.

Fairness: the kernel runs every process and thread that can run, and delivers a
pending signal. `accept` of the thread server may be interrupted, but not for
ever (strong fairness of `Accept`). Nothing forces a client to do anything.
Writes never block: the sockets' buffers are unbounded, and the client of
`u5.2` always reads.

What the models contain besides: the select server's "too many clients" branch
(dd.cpp:97-100) is dead code, and with no descriptor left `accept` fails and
`main` returns instead (dd.cpp:86), cutting everybody off; the poll and epoll
servers report readiness again at once when `accept` fails for want of a
descriptor (poll dd.cpp:73), so they spin, which violates no property; the
thread server ignores the result of `pthread_create` (dd.cpp:106) and the fork
server keeps the descriptor when `fork` fails (dd.cpp:105), so that connection
is neither served nor closed; a `write` to a client that vanished ends the
single-process servers and the thread server by SIGPIPE.

Proved, for any number of clients, threads, descriptors and slots, of all five
servers, and so of `MCEchoServers`: every invariant of both runs, and under `Healthy` the refinement `ImplementsEcho`. The theorems
are about the very instances the runs check, `Sel`, `Pol`, `Epo`, `Thr` and `For`
of `MCEchoServers`.

- `EchoSockets_proofs`: what a client and each system call do to `SockInv` (what
  is queued waits once, a client and its connection begin and end together,
  nothing is echoed that was not read, or read that was not sent). The server
  modules extend it so that each instance has the lemmas for its own names.
- `EventLoops_proofs` and the first half of `EchoServers_proofs`: one section per
  server. Each has the same lemmas: the invariant holds at the start and is kept by each step
  (`…Init`, `…StepKeeps`), it implies the properties (`…Shows`), and under
  `Healthy` the server keeps running and its steps are steps of `EchoService`
  (`…StillRuns`, `…StepRefines`). The theorems `SelectServerIsRight` to
  `ForkServerIsRight` are about one server in every environment of its model.
- The rest of `EchoServers_proofs`: a step of the program is a step of the server that runs
  (`OneServerRuns`), so `EchoInv`, the invariant of whichever runs, is kept
  (`EchoInvariant`), and the properties follow one by one.
  `EveryServerIsAnEchoService` is the refinement.

The inductive invariants, and why the properties alone are not inductive:

- `SelectInv`: slots, descriptors and `allset` correspond one to one and
  `nUserful` counts them (`TableInv`), the open connections are those behind the
  descriptors (`OpenInv`), and a bit of `rset` that the scan has not come to
  belongs to a connection that is still ready, or its slot was emptied in this
  turn (`TurnInv`). `NeverBlocks` speaks of the slot of this step, and the next
  step looks at another; that no number is given to another connection between
  `select` and the scan is what makes it true. The scan's
  early exit needs that `nDeal` counts no slot beyond this one.
- `PollInv`: the same parts, for slots with `revents`.
- `EpollInv`: besides, an edge the kernel has not reported is there to be read
  (`EdgeInv`) and what was read and not written is in the buffer of its own
  descriptor (`BufferInv`); without the first, a later `epoll_wait` could hand the
  loop a descriptor with nothing to read.
- `ThreadInv`: a cell belongs to `main` or to one thread that has not read it
  (`CellInv`), a descriptor in use belongs to `main`, to one thread or to nobody,
  and no connection is behind two (`FdInv`), what is behind a descriptor is open
  (`ConnInv`), and how far each conversation is (`EchoInv`). A thread that starts
  takes its number from a cell, which `OneThread` does not mention.
- `ForkInv`: where the parent is with the connection it accepted and the child
  it forks (`ParentInv`), a connection that waits has no child yet (`WaitInv`),
  and a child leaves only a conversation that is over or a client that vanished
  (`TalkInv`).

`Healthy` says for each server what its refinement needs, no more: no client
vanishes; a slot for one client (poll); a descriptor for each client beside the
listening socket's (select and thread, which end without one);
no failing `fork` and one descriptor to accept with (fork). Poll and epoll need
no descriptor for each: they go on when `accept` fails. `Echo_service.cfg` satisfies it. That
`accept` never fails there is a pigeonhole argument (`SelDescriptorFree`,
`ThrDescriptorFree`): the descriptors in use are behind different open
connections, and one connection waits. The fork server's parent never has two
descriptors, since the holders of an open connection are exactly its living child
and the parent before its `close`. That an event loop refuses a client exactly at
its capacity is the count of `OpenInv`: one open connection for each slot.

Only the liveness properties of `echo_service` are model-checked and not proved.

## The sequential libraries

Sources: the trees and sorts of `algorithm/`, `point_to_offer/`, and the classes
of `unp/src/common`. `MCLibraries` runs them as alternatives in one run,
`libraries`: no two of them interact, and the question is the same for each,
whether its results are right whatever was called before. Two more runs show
where they are not what the repository says.

| run | instance | result |
|---|---|---|
| `libraries` | all of them, bounds below | the properties below hold |
| `sorts_main` | the mains of bubble, heap and quick sort 2, up to two elements | **violated**: a sort returns with its array unsorted, or something else overwritten |
| `dates_weekday` | days of January 1900 | **violated**: a Sunday is 0, not 7 |

| property | part |
|---|---|
| `TreeIsRight`, `ImplementsDictionary`, `CallsEnd` | red-black tree |
| `KeepsBalance`, `ImplementsMultiset` | AVL tree |
| `AdditionIsExact`, `CalendarIsRight` | dates and times, and the weekday |
| `AlgorithmsAreRight` | the seven sorts and `point_to_offer` |
| `ConfigAndLogAreRight` | properties file and logger |

**Red-black tree** (`RbTree`). A node is named by its key, which is unique and
never changes; `t` is everything its pointers lead to, the sentinel `Nil`
included, whose parent field the code really writes and relies on. A call up to
its fix loop is one step (`Insert`, `Remove`), each turn of a fix loop another
(`InsertFix`, `RemoveFix`); the mirrored halves are one definition with a side
as parameter. In the middle of a call as between calls: the pointers make one
tree of everything allocated (`Linked`); colors and black heights are right but
for the node the loop is at, and the loops find the relatives they ask for
(`ColorsAreRight`); seen through searches from the root the tree changes once
per call (`ImplementsDictionary`, refining `Dictionary`); the loops end
(`CallsEnd`, under weak fairness of the loop: a call that has begun goes on).
Six keys reach every case of both loops; one key is inserted with two data.

`RbTree_proofs` proves `TreeIsRight` and `ImplementsDictionary` for any number of
keys and data (`SearchTreeIsRight`, `TreeImplementsDictionary`). The two
properties speak of what is reachable and count along paths, which would need
induction over the tree. The inductive invariant `TreeInv` says the same of each
node and its neighbours, by numbers that exist although the code does not keep
them:

- `Shape`: every node has bounds `lo` and `hi` of the keys below it. A child's
  bounds are its parent's, one of them replaced by the parent; where no child
  hangs, no node's key lies between; a bound is an end or a node whose own bounds
  are wider, and no two nodes lie within each other's.
- `Leveled`: every node has a black height `bh`, by the same rule for both
  children, with one more for the node that `RemoveFix` is at (`Extra`).
- `Colored`: no red node has a red parent but where a loop is at, and the sentinel
  is black and, while the remove fix is at it, its parent is where it hangs.

Each write to the tree gets a lemma that says which field of which node changes
(`KidSet`, `ParentSet`, ...), `Rotate`, `Transplant` and `SpliceMinimum` lemmas that say
which nodes are hooked where, and every step one that names the new bounds and
heights: a rotation exchanges two bounds, an insertion splits the gap the search
ended in (`Near`), the heir of a removed node with two children takes over its
bounds. The properties follow without induction over paths, because the
bounds are numbers and a child's are narrower than its parent's: after `i` turns
`Reached` holds every node whose bounds are at most `i` narrower than the root's
(`ReachedIs`), and after `i` steps a search is at a node whose bounds are at least
`i` narrower and contain the key (`Descent`, `LookupIs`). The ancestors of a
node are those whose bounds contain it (`AncestorsAre`), so that the black nodes
above a node and its black height have the same sum as at its parent, and
everywhere (`FarIsSame`, by the widest counterexample). For the refinement,
searches find exactly the nodes, so that a fix loop's turn, which keeps
nodes and data, is a stutter of `Dictionary`. `CallsEnd` needs fairness and is
model-checked only, like everything about the AVL tree.

**AVL tree** (`AvlTree`). A tree is a value, a call is one step, and the
"taller"/"shorter" flag passed by address is returned with the subtree. Two
defects of `del` are part of the model: a node with two children is deleted
only if its left child has no right child (avl_tree.cpp:183, otherwise `del`
returns 0 and nothing happens), and after the left subtree of an even node
shrank its balance is set to the wrong side (line 270), so that a later deletion
may rotate around a child that is not there, which ends the process. Nothing in
the repository says what should happen, so the promises leave it out:
`KeepsBalance` says insertions and all other deletions keep a balanced tree
balanced, `ImplementsMultiset` that whatever happened no rotation loses,
doubles or hides an element. Five numbers, one of them twice, give trees of
three levels with both double rotations.

**Dates and times** (`FaTimes`). The three classes have the same operations on
strings of 14, 8 and 6 digits; `class` says which one two objects have, and the
fields a class does not keep have the values its `mkTime` fills in. Where the
three files repeat a function, the map names one of them. Seconds are pairs of days
and seconds of the day, and `ToInt` wraps what `nDay*24*60*60` and the cast of
`operator -` do not fit. `mktime` and `localtime` are the C library's; the zone
has no daylight saving time. The flag `tm_isdst` that `operator -` leaves
unset may cost an hour or not.

After an assignment that throws, the object holds the string it refused
(FaDate.cpp:122), and the operations go on with it. A string of another length or
with other characters is what the getters' `substr` and `atoi` read in it
(`[read |-> …]`); one too short for them makes them throw (`TooShort`). An
addition past the year 9999 is performed: `%04d` is a least width, and the
string that `mkTime` writes is one digit too long, which the class itself would
refuse, or is cut (`Written`, `Shifted`).

`AdditionIsExact` compares every addition to a valid object with a
calendar counted day by day from the class's own month lengths and leap years;
`CalendarIsRight` says valid strings compare as instants, and differences are the
interval where it fits an `int` and the unset flag reads zero. The strings
are ends of years, leap years, centuries, of 1970 and of 9999, and invalid ones;
the amounts lie on both sides of the 24855 days an `int` of seconds holds. In a
zone with daylight saving time `mkTime`, which sets `tm_isdst` to 0, would be an
hour off in summer; this is not modelled. Of a longer interval, or with another
flag, the property claims nothing, although the comments of FaDate.cpp:194 and
FaDateTime.cpp:210 promise "the seconds between the two" for all times after
1970: beyond 68 years the difference wraps, and with the flag set it is an hour
off. The program disagrees with its comment there.

`fa_getWeekDay` is checked against the days counted from 1 January 1970. From
Monday to Saturday it tells 1 to 6, and for a Sunday something else. The comment
of FaFunc.h:45 promises 7 for a Sunday; it is 0, which `dates_weekday` shows.

`FaTimes_proofs` proves both properties for every year of four digits and every
amount an `int` holds, where the run has thirteen strings. Three calendars have to
agree: that of the C library, whose years begin in March and whose date of a day
is found by dividing (`DayNumber`, `DateOf`); the class's own, in which the
years' days are the cardinality of a set of years and the months' are summed
one by one (`Ordinal`); and Zeller's sum. The argument is: the leap years of an
interval number what the quotients by 4, 100 and 400 differ by (`LeapYearsBetween`);
hence both calendars number a date alike (`CalendarsAgree`); `DateOf` gives an
existing date that `DayNumber` takes back to the same day, by following the four
quotients through a cycle of 400 years (`Cycle`, `YearOf`, `DateOfMarch`); days
are in the order of their dates, so strings compare as moments (`DatesInOrder`,
`LessIs`, `MomentsCompare`); and what an `int` holds of a time that fits is that
time (`ToIntKeeps`). The invariant is the type of the two objects alone: both
properties speak of a valid object, `MovesExactly` of one that `verifyFormat`
accepts before the addition, and say that it accepts the result where four
digits hold its year.

**Sorts** (`Sorts`). Each of the seven programs sorts an array of every content
up to four elements of three values; a cell of memory on either side shows who
reaches beyond the array. The quick sorts are a stack of calls, one call a
step, with a random pivot in the first. `SortsAreRight`, one half of
`AlgorithmsAreRight`, says that none of the seven loses or doubles an element
at any step, and that selection sort, the first quick sort and both merge sorts
touch nothing but their array and return it sorted. The other three do not do
what their mains call them for: `bubble_sort.c:29` compares the last element
with the one behind the array and may exchange them; `heap_sort/dd.c:48` begins
one parent too early and leaves arrays of an even length unsorted;
`quick_sort2.c:32` puts the pivot in the place of the last smaller element. The run
`sorts_main` checks `EverySortSorts` of these three, on arrays of the mains' kind but
short, and is violated; with one of the three alone it is violated as well.
Three values give equal neighbours, and
four elements a heap of three levels and merges of two and two. Larger arrays
multiply the states and add no case.

**Exercises** (`PointToOffer`). The string class of p1 is a heap and objects that
own a buffer, for every sequence of constructions, copies, assignments (to
itself as well) and destructions among three objects; a copy of an object
without a buffer is a null pointer's `strlen`, and ends the program. The five
functions are called once, with every input below the bound, and their results
compared with a definition that has nothing to do with the algorithm: the
spiral is the walk that visits each place once and turns right, the sums of dice
are counted over all throws, the bits from the number. An `int` has `Width`
bits; the least one negated stays what it is, which the unsigned exponent of
p11 puts right.

**Properties file** (`FaProperties`). A line is a sequence of blanks, `#`, `=` and
words. All lines with a separator up to three tokens, and some longer ones, are
read, in one file or two, into the same map; `ConfigIsRight` says by the form of
the line what it assigns, without trimming or searching as the parser does. A
line longer than its buffer ends the reading without a word (`LinesRead`),
although the comment of FaProperties.cpp:25 says that `open` throws on an error.
The model does what the code does, and `ConfigIsRight` claims nothing of such a
file.

**Logger** (`FaLogger`, which extends `FaProperties`: it is configured from one).
Streams have buffers, which the C library empties when they are full, at
`fclose` and at exit. A second `init` gives the object another stream without
closing the first, a constructor without arguments leaves the pointer
unassigned, and a file that cannot be opened leaves it null; logging then ends
the program. `LogIsRight` has three parts. `NoMessageLost`: a stream has one
level all its life, and every message from it on reaches the stream, once and in
order, and its file once the stream is closed or the program returned; the
level is not taken from the configuration, so the property does not repeat
`isEnableFor`, which passes the levels whose number is *not below* the configured
one, that is the less important ones. `FilesInOrder`: a file that has one
stream has its messages in the order of the calls. `CrashIsMisuse`: the program
crashes on a null or a wild pointer only if no `init` was called, or the latest
one could not open its file, or the stream it opened was closed; so an `init`
that opens its file repairs the object whatever was done to it before.

`AvlTree`, `Sorts` and `PointToOffer` have recursive operators, so nothing can be
proved about them. These, the properties file and the logger are
model-checked only.

## What is proved, and what is out of reach

Proofs are in `ProcessPool_proofs`, `Ipc_proofs`, `TsdbLoader_proofs`,
`EchoSockets_proofs`, `EventLoops_proofs`, `EchoServers_proofs`, `FaTimes_proofs`
and `RbTree_proofs`; `PROJECT.json` lists the theorems. They assume only the
named assumptions on the constants (`PoolConstants`, `PCConstants`,
`LoaderConstants`, `IpcConstants`, `SocketConstants`, `EventLoopConstants`,
`ConcurrentConstants`, `TimesConstants`, `TreeConstants`), which TLC evaluates on every run, and, for the
refinements of the pool and of the echo servers, the hypothesis `Healthy`, which
the runs `pool_service` and `echo_service` satisfy.

Out of TLAPS's reach and left to TLC: liveness under fairness and `ENABLED`;
induction over data, so what a recursive definition computes for every input
(over numbers a least counterexample does instead, `LeastNumber` of
`FaTimes_proofs` and `RbTree_proofs`, and a recursive function of twelve months is
unrolled);
and modules with `RECURSIVE` operators (`AvlTree`, `AvlTreeProps`, `Sorts`,
`PointToOffer`). `FaProperties` and `FaLogger` are written with `SelectSeq` and
`SelectInSeq`, which take an operator, and the known facts about them cannot be
cited. What `TimeServer` promises is liveness.

## What is not modelled

- The process examples (`u4.7_fork_and_exec`, `u13.4_daemon_init`,
  `u11.3_ip_name_transfer`: `fork` and `exec`,
  a daemon, a name lookup): straight lines of system calls with one order of
  steps, no shared state and nothing two of which could disagree.
- `cpp/cppreflect`: a map filled before `main` by static objects and only read
  afterwards. What can go wrong is the order in which the files' static objects
  are initialised, which the Makefile's link order decides, not the program.
- The Python scripts: a socket client and text generation of a few lines.
- Of the helpers, all but `fa_getWeekDay`: they print a number or the clock into
  a string. `FaException` carries a code and a text.
- Of the echo client, what it prints. It is the servers' environment.
- Failures with which a program ends before it has any state (`socket`, `bind`,
  `listen` of the small servers), and `malloc`.

## Plan

Done: every program with state of its own is modelled and checked; the pool, the
three programs of `ipc/`, the loaders, the five echo servers, the dates and times and the
red-black tree are proved.

Left, in this order:

1. The logger's `LogIsRight` said of a recursive function instead of `SelectSeq`;
   it is nearly inductive, and a proof could follow.
2. The AVL tree with its recursion written as a recursive function, and the same
   bounds for its nodes: `ImplementsMultiset`, then `KeepsBalance`.
