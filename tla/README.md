# Verification of CSProjects-IST

TLA+ models of the programs of this repository that keep a state: the concurrent ones
first, then two sequential ones whose state is hard to keep consistent. TLC runs check
them on small instances, and TLAPS proofs cover every value of the constants.
Paths below are relative to `src/`. `PROJECT.json` has, for each definition, the
lines of code it models (`map`), the runs, the mutants that show that each
property can fail, and the theorems.

    tlc -workers 2 -config SeatLocks.cfg MCSeatLocks     # a run
    tlapm SeatLocksProofs.tla                            # the proofs of a module

## 1. Inventory

The repository is a collection of independent course projects. The ones with
threads, processes, messages or a state that outlives a call come first.

### 1.1 `2nd year/OS/P1`: the batch EMS (event management system)

A program that executes all the job files of a directory: one process for each
file, at most MAX_PROC at once, and MAX_THREADS threads in each process.

| component | state | operations |
|---|---|---|
| processes of a batch, `main.c` | the directory, `proc_count`, the children | `process_batch`, `dispatch`, `wait_child_processes` |
| thread pool, `thread_pool.c` | `exit_status` under `pool_lock`; for each thread `wait_time` under a mutex | `threadpool_init`, `_join`, `_get/set_exit_status`, `_increase_wait`, `_get_wait` |
| command loop of a job, `batch.c` | the input file under the global input lock | `execute_job`, `execute_command`, `execute_create/reserve/show/list/wait` |
| list of events, `eventlist.c`, `operations.c` | `head` and `tail`, `head_lock` and one lock for each node | `blocking_get_event`, `get_event`, `append_to_list`, `ems_create`, `ems_list_events` |
| seats of an event, `operations.c` | `data`, one read-write lock for each seat, `reservations` under a mutex | `ems_reserve`, `ems_show` |
| parser, writer, files, strings | file descriptors, growing buffers | character input and output |

The threads of a job call the event operations directly; they share the list, the
seats, the input file and the output file. A BARRIER in the file makes every thread
of the pool leave; `execute_job` joins them and starts another pool. The processes
share nothing.

*Hard*: seats are locked one by one, in order, and undone when one of them is taken;
the search that precedes an append leaves a lock held for it; the exit status of the
pool races the threads that already wait for the input lock; threads may fail to be
created half way.

*Correct when*: a RESERVE takes all its seats or none and SHOW and LIST print one
state; no id is twice in the list and no event is lost; each command of the file is
executed once and none overtakes a BARRIER; nobody waits for ever; the limit of
processes holds and every child is waited for.

### 1.2 `2nd year/OS/P2`: the EMS as a server over named pipes

| component | state | operations |
|---|---|---|
| host thread, `server/server_state.c` | the register pipe, `sigusr1_flag` | `host_loop`, `register_client`, `server_sigusr_check`, `sigusr1_handler` |
| queue of sessions, `server/session.c` | a ring of sessions, its mutex, two condition variables, `running` | `session_queue_push`, `_fetch`, `_close`, `_free` |
| workers, `server/server_state.c` | the session each one serves | `worker_loop`, `execute_requests`, `session_open`, `session_free` |
| events, `server/operations.c`, `eventlist.c` | the list under one read-write lock, a mutex for each event | `ems_create`, `ems_reserve`, `ems_show`, `ems_list_events`, `ems_display_events` |
| client, `client/api.c`, `main.c` | two pipes, a session id | `ems_setup`, `ems_quit`, one function for each request |

A client makes two pipes and writes their names to the register pipe; the host queues
them; a worker opens the pipes, writes the session id and then reads requests and
writes answers until the client quits or its pipe closes. SIGUSR1 makes the host
print every event.

*Hard*: signals and broadcasts of condition variables, wakeups without a signal; pipes
block when they are full, and answers are written with locks held; a client dies at
any point; a signal arrives between the test of its flag and the blocking read.

*Correct when*: the queue is first in, first out and loses no wakeup; requests take
effect one at a time and the answer is the state of that moment; of a half-written
request nothing is done; no death, full pipe or lock leaves others waiting.

### 1.3 `3rd year/CN`: a code-guessing game over UDP and TCP

| component | state | operations |
|---|---|---|
| games, `server/game.cpp` | a file for each game, under the name of its player while it goes on and under the time of its end afterwards | `create`, `find_active`, `find_any`, `parse`, `guess`, `write_trial`, `has_ended`, `terminate`, `quit` |
| scoreboard, `server/game.cpp` | a list in each process, a file for each start of the server | `add_record`, `materialize`, `get_latest` |
| server, `server/server.cpp` | the parent, a child for each TCP connection | `start_new_game`, `do_try`, `end_game`, `start_new_game_debug`, `show_trials`, `show_scoreboard` |
| player, `client/client.cpp` | `is_plid_set`, `in_game`, `current_trial` | one function for each command |
| transport, `common/common.cpp` | the datagrams under way, the number of sends | `udp_connection::request`, `answer` |

The parent answers UDP requests (start, try, quit, debug) one at a time; a child answers
TCP requests (trials, scoreboard) from the same files. The client sends a request again,
up to three times, when no answer comes in five seconds.

*Hard*: requests and answers are lost, repeated and late; the child and the parent may
end the same game; the server may stop between a trial and the end it causes.
*Correct when*: a repeated request has the effect of one; a game is scored once and
with the trials it took; what was answered is on disk; what the client tells the player
is the answer to this request and is right.

### 1.4 `3rd year/CO/lab1`: cache simulators

One level (`task4.1`), two direct-mapped levels (`task4.2`) and a two-way second level
(`task4.3`) over a memory; state: the lines with valid, dirty and tag, the data, the
way of each set used last, a clock; operations: `initCache`, `read` and `write` over
`fetch` and `writeBack`. *Hard*: a dirty block is written back to the line of L2 that its
address maps to without a test of the tag, which is right only if L2 holds every block
of L1; addresses are rebuilt from tags; one slot looked up before a fetch is used after
it. *Correct when*: every read returns the last value written, L2 includes L1, and a
new initialisation loses nothing that was saved.

### 1.5 `2nd year/OOP`: a spreadsheet

Core (`xxl-core`): cells that observe the cells they refer to (`cells/Cell.java`),
contents shared by all the cells of an interval, ranges that keep their value until a
notification (`cells/Range.java`), a storage that drops unused cells
(`storage/TreeStorage.java`), a cut buffer that is a second storage
(`cutBuffer/CutBuffer.java`), and insertion, deletion, copy, cut and paste
(`Spreadsheet.java`). Saving, loading, searches, users (`Calculator.java`) and the menus
(`xxl-app`) read this state or replace it whole. *Hard*: a notification that is missed,
or without end in a circle of references; the removal of cells that are still observed;
contents that two cells share. *Correct when*: the value shown is the value of the
formulas over the present cells, the observers of a cell are exactly the cells that
refer to it, and a paste is a copy.

### 1.6 `1st year/IADS`: a public transport network, twice

`project1.c` keeps stops, lines and connections in arrays; `project2` keeps them in
doubly linked lists with hash tables, and also removes lines, stops and everything. Each
is one sequential program over commands. *Hard*: a stop that is removed may stand on a
line several times, first, last, next to itself or alone, and the connections around it
merge into a new one; each stop counts the lines through it. *Correct when*: the two
programs print the same for the same commands, counts are exact, and a line is a path
of connections whose costs add up.

### 1.7 The rest

* `1st year/FP` (minesweeper), `2nd year/ASA`, `2nd year/AI` (pipe puzzle): batch
  algorithms. A few are candidates for pure operators checked against a definition.
* `1st year/LP` (queries in Prolog), `1st year/ICA` (assembly for a simulated machine
  whose devices are not in the repository), `2nd year/HCI` (a web page for an
  experiment), `2nd year/DB`, `2nd year/P&S`, `3rd year/ML`, `3rd year/SAM` (data,
  notebooks, reports): no state machine of interest. Not modelled.

## 2. Plan

Done, in this order (the most concurrent code first):

1. `Seating` <- `SeatLocks`, `EventSet` <- `EventList`, `JobOrder` <- `ThreadPool`,
   `ProcessPool` (P1); the arrow is "is implemented by".
2. `SessionFifo` <- `SessionQueue`, `EmsService` <- `EmsServer` (P2). `EmsServer` takes
   the queue as a sequence: `SessionQueue` shows that it may.
3. `Memory` <- `Cache` (CO).

4. `Mastermind`, then `GameServer` (files, parent, child, crashes and restarts) and
   `GamePlayer` (client and datagrams) on it (CN). `GamePlayer` takes an answer of the
   server as one step; `GameServer` has the steps inside.
5. `BusTables` and `BusLists`, composed by `BusNetwork` on the same commands (IADS).
6. `Sheet` with its reference definition of a value (OOP).
7. Proofs for `SeatLocks`, `EventList`, `ThreadPool`, `ProcessPool`, `SessionQueue`,
   `GamePlayer`, `GameServer`, `Cache`, `EmsServer`, `BusNetwork`.

Left:

8. Saving and loading of a spreadsheet; the clearing of a field in `1st year/FP`.

## 3. Modules

Each component module has one action for each step of the code that others can see:
an access under a lock that is released at once is one step; a lock that is kept over
several accesses is a variable. Program counters (`pc`) name the place of a thread in
its function. Modules called `MC...` only give values to constants. Definitions under a
heading "Mutants", or a comment that calls them a bug, are deliberately wrong versions of actions and belong to no
specification; they show that the properties can be violated.

**Seating / SeatLocks.** `SeatLocks` is `ems_reserve` and `ems_show` on one event.
`data`, `writer`, `readers` are the seats and their locks, `todo` the rest of the
sorted array `idxs` (a set: the loops skip duplicates), `held` the locks the thread
has, `snap` the string of SHOW. `ReserveStart` takes the number (`operations.c:150`),
`BoundsCheck`, `LockSeat`, `TakeSeat`/`Conflict` follow the loop, `Release` and `Undo`
the unlocking, `GiveBack` the decrement. In `Seating` a RESERVE is granted, or refused
for a reason, in one step, and SHOW takes a snapshot. The mapping hides seats that
were written by a RESERVE that may still fail.

**EventSet / EventList.** Link *i* leads from node *i* to the next, and has the lock
of node *i* (link 0: `head_lock`). A CREATE walks (`BlockingAdvance`), keeps the last
link locked (`BlockingLast`), and appends in three steps (`LinkNode`, `SetTail`,
`UnlockOld`) or fails (`AppendFails`, `NoMemory`). A thread that waits for a lock it
holds ends the process, as `handle_lock_failure` does (`SelfDeadlock`).

**JobOrder / ThreadPool.** `ThreadPool` is one job: the main thread creates threads
(`CreateThread`, `CreateFails`), joins them and restarts the pool at a BARRIER
(`JoinAtBarrier`); a thread sleeps its delay (`GetWait`, `Nap`), takes the input lock
(`Acquire`), looks at the exit status (`Check`), reads the name of a command (`Read`)
and its arguments (`Parse`) in two steps, releases and executes. What the commands do
to events is in the two modules above: here they only start and finish. `JobOrder` is
the order a job file promises.

**ProcessPool.** `process_batch`: entries in any order, fork failing, children ending
at any time, the test `proc_count >= max_proc`, one wait, the last waits.

**SessionFifo / SessionQueue.** The critical section of a push or of a fetch is one
step between `Lock` and `Unlock`; `Wait` releases the mutex and joins the waiters of
the thread's condition variable; a signal moves one waiter, of any choice, back to
`Lock`; `WakeUp` is a return of `pthread_cond_wait` without a signal. `Close`, `Join`
and `Free` are the shutdown. The server has one producer; the interface allows several,
and so does the model. The constant `Joins` distinguishes `server_free` (joins, then
frees) from the failure path of `server_init` (frees at once). In the server the first
is only reached if `host_loop` returned, which it does not.

**EmsService / EmsServer.** `EmsServer` composes host, workers, clients, pipes, events
and the signal. A request is up to three writes (op code, id, arguments) and as many
reads; an answer is written and read item by item through a pipe of `PipeSize` items,
and SHOW and LIST hold their lock meanwhile. `Die` may come between any two steps of a
client in `Mortal`. `Signal` marks SIGUSR1, handled by the host or by a worker that has
not blocked it yet (`Handle`); since the handler is reset to the default when it is
entered, a second signal may end the server (`SignalKills`). In `EmsService` a request
takes effect in one step (`Execute`). The mapping is three functions of the state:
how far a client has come (`PhaseOf`), the request that is under way and has not taken
effect (`AskedOf`: the pieces in the request pipe and those its worker has read, once they
are all there), and, after that, the answer (`TellsOf`: what the client has received, what is in its response pipe
and what the worker has still to write).

**Memory / Cache.** `caches` is the hierarchy that `initCache` links, L1 first: the three
programs are three initial states of one module. An address is a block and a word. `m`
is the whole state of the buffers, so that `fetch` can be the composition it is in the
code: save the victim (`SaveVictim`), fetch from the next layer (`FetchSecond`, which is
the same on L2, or the DRAM), fill the line (`Load`). A direct-mapped
cache is one with sets of one way. `read` and `write` are sequential, hence one step
each. `Reset` is another `initCache`: it makes every line invalid, so that a block
written and not saved is lost. What an access adds to `time` is computed (`ReadTime`, `WriteTime`) and not
accumulated, since no branch reads it. `Memory` is one function from addresses to
values; the mapping takes each block from the first layer that holds it.

**Mastermind.** The game without the server: `Compare` (`game::compare`, with the mask of
the positions of the key that are taken), `Status` (the tests of `has_ended` in their
order), `Score`, `DuplicateAt` and `TryKind` (what `do_try` makes of a guess and its
number: a new trial, the last one again, a duplicate, invalid).

**GameServer.** Files are inodes, and the names are pointers to them: a file that is
moved keeps its inode, so that a process that opened it before writes to where it is
now. A step of a process ends with one call that others, or a later server, can see
(`Find`, `OpenToEnd`, `WriteEnd`, `Move`, `EmptyScores`, `WriteScores`, `Create`,
`WriteHeader`, `WriteTrial`, ...). `Crash` stops the server between any two, together
with its children; `Restart` is a new one with the scoreboard it finds. `told` and `won`
are ghosts: what a player was answered, and how many trials a game really took. A child
has a copy of the scoreboard, which the parent's next `materialize` overwrites
(`game.hpp:12-18`); a parse error ends the parent, since `throw err` copies the exception
as its base class (`game.cpp:388`) and the handler that says it ignores it
(`server.cpp:205-206`) does not catch it.

**GamePlayer.** One client and the datagrams of both directions, which may be lost
(`Lose`) or take longer than the timeout (`Resend` while one is under way sets `late`),
but do not overtake each other. `AskServer` sends; `Started`, `Accepted`, `Refused`, `HasQuit`,
`BadResponse` and `GiveUp` are the ends of a request, as each command's code tests the
answer. A command has a number that the program does not know (`cmd`): the properties use
it to tell which request an answer belongs to.

**BusTables / BusLists / BusNetwork.** `BusTables` is `project1.c`: arrays with indexes,
the shift of a line by one position, the merge sort of the lines of an interchange.
`BusLists` is `project2`: nodes with `back` (the `prev` pointer: none, the node before, or
freed memory), the connections on both sides, and the removals, case by case as in
`deleteStopOfRoute`. `BusNetwork` gives both the same commands, until the first
command that `project1.c` does not have or answers differently (`Part`). Printed
lists are operators (`Print...`), including the reads beyond what was written
(`Undefined`).

**Sheet.** One column of cells. A storage is a function from positions to cells with a
content and the set of observers; `Insert`, `Delete`, `Destroy` and `CopyCell` follow
`Cell`, `TreeStorage` and the contents' `initialize` and `destroy`, in the order of their
loops, since a cell in the middle of a change may be observed, dropped and made again.
The content of a range is an object that several cells may share, with `_updated` and the
kept value (`ranges`). A circle of references ends the program (`alive`), as
`StackOverflowError` does. `Meaning` is the reference: the value from contents alone.

## 4. What is checked

| run | instance | states | shows |
|---|---|---|---|
| `seats` | 3 threads, a row of 3 seats, a ring of overlapping requests, one with a seat that does not exist | 102 201 | the protocol is atomic (`AtomicOperations`), the counter exact, every command returns |
| `list` | 3 threads with 2, 1 and 1 commands, 2 ids, malloc fails anywhere | 227 066 | atomic CREATE, search and LIST, with unique ids; appends go to the tail, one at a time; while memory lasts every command returns |
| `pool` | 2 threads, every file of up to 4 commands or BARRIERs, every file of up to 3 with WAITs, creation fails anywhere | 130 562 | every command exactly once, none past a BARRIER; delays are kept; jobs end |
| `processes` | 4 files, 2 processes, fork fails | 976 | the count is exact, the limit holds, no child is left, the batch ends |
| `queue` | 2 producers, 2 workers, 3 sessions, capacity 2, one wakeup without a signal, closing at any time | 29 083 | first in, first out; no lost wakeup; sessions are fetched, a closing ends |
| `sessions` | 2 clients (one mortal), 2 workers, 1 event of 2 seats, queue and pipes of one item, 2 signals | 337 888 | requests are atomic, answers whole, and nobody is left waiting |
| `cache` | L1 of 2 blocks; L1 of 1 and L2 of 2, direct mapped or two way; 4 blocks of one bit | 47 616 | one memory, inclusion, no write lost |
| `games` | one player, two games of up to 2 trials with 2 colors and one position, one child, 2 starts of the server, 2 instants, a scoreboard of one | 1 276 340 | a game is scored once and rightly, told trials are on disk, nothing but its end touches a game that goes on |
| `player` | 5 commands, 2 colors, 2 positions, 3 trials, a request sent at most twice | 800 675 | a try counts once; client and server agree and the player is told the truth while no datagram is later than the timeout; commands return |
| `network` | 3 stops, 3 lines, connections of total cost 3, removals | 177 833 | two programs, one answer; exact counts; paths of connections |
| `sheet` | 3 cells; a number, a cell added to itself, ranges over one and over two cells; the cut buffer | 86 308 | no old value, observers exact, a paste is a copy |

Why the bounds are enough for the interesting cases:

* `seats`: three requests that overlap pairwise are the smallest ring of waits; the
  third seat makes partial locks of two requests overlap a third; `MaxOps = 1` keeps
  one command for each thread, and the proofs cover the rest.
* `list`: three threads make two appenders and a reader meet on one link, and two
  creators of one id meet a third thread between them; the second command of one of
  them walks a list that has grown since its first.
* `pool`: two threads are enough for one to wait for the input lock while the other
  reads BARRIER; four commands have room for a barrier with commands on both sides,
  for two in a row and for one at each end.
* `queue`: capacity 2 with three sessions wraps the indices around, and fills and
  empties the ring with waiters on both sides.
* `sessions`: pipe and queue of one item make every write able to block; the mortal
  client may die in the middle of each of its three kinds of request, and in the middle
  of an answer while a lock is held. The two workers are interchangeable, hence the
  symmetry (the run has no liveness property).
* `cache`: four blocks put two in each set of the direct-mapped caches, and make a two
  way set (one, of both slots) evict; L1 of two blocks has two sets, so that a rebuilt
  address needs its index. One word in a block: the words of a block move together, but
  in `Write`. The ratios are those of `Cache.h`: L2 twice the size of L1.

* `games`: one player suffices, because the files of two have nothing in common but the
  scoreboard, which two games of one player share as well; two starts of the server are a
  crash with a recovery, and two instants an end by time. With two trials and two colors a
  second different guess always wins, so that a game is lost by its trials only in
  `player`, which has three. A scoreboard of one has a game drop out.
* `player`: with five commands a game can be started, tried twice and left while the
  answers of the first requests are still under way; the request that is sent twice is
  the smallest that can be answered twice.
* `network`: three connections make lines of up to four nodes over three stops, so that a
  stop stands on a line twice, first, last, next to itself and alone; a third line makes
  the merge sort do a merge of two and one.
* `sheet`: three cells are a chain of two references, two cells that share a range, and a
  circle; references to a cell that is above and that is below come from the ranges.

`EmsServer` has no loop that does not consume a request, a signal or an entry of a
queue: every behaviour of the instance is finite. `NobodyIsLeftWaiting` says that
wherever no thread and no living client can go on, everything is settled (`NoDeadlock`);
with finiteness, that is termination and freedom from deadlock in one invariant. When
somebody can go on is written out (`HostCan`, `WorkerCan`, `ClientCan`), for the proof;
the run also checks that this is exactly when their steps are ENABLED.

**Fairness.** Weak fairness of the steps of each thread, process or living client: the
kernel schedules what can run. It is not assumed that a lock is granted to a given
waiter: the commands of each thread are finite in number (`MaxOps`, the job file, the
sessions), so that no other can starve it for ever. Nobody has to push or to close;
wakeups without a signal need not come, and are bounded (`MaxWakes`), because an
endless series of them would keep a thread busy. A child of `ProcessPool` ends: a
job does, by `JobEnds`. In `GamePlayer` only the client's own steps are fair: datagrams
may all be lost, and the server need not answer; the timeout of `select` is what lets a
command return.

CHECK_DEADLOCK is off where the system may stop: threads that have executed their
commands, workers with no session to fetch, a server nobody calls, a spreadsheet or a
network that may get any command but has nothing to do.

### Disagreements found

`network_reverse` is a run that TLC refutes: after the first stop of a line with three
stops is removed, the new first node keeps its `prev` pointer (`stops.c:417`), and
printing the line in reverse order reads the freed node (`routes.c:229-234`).

Six more have a configuration of their own, which anybody can run:

| configuration, module | property that fails | what happens |
|---|---|---|
| `EventListHang`, `MCEventList` | `EveryCommandReturns` | When `append_to_list` fails, `ems_create` returns with the last link locked (`operations.c:125`): the next command that gets there never returns. |
| `ThreadPoolCrash`, `MCThreadPool` | `NoCrash` | When a pool cannot be created again after a BARRIER, `threadpool_join` is given NULL and reads through it (`batch.c:271`, `thread_pool.c:128`). |
| `SessionQueueFreed`, `MCSessionQueue` | `FreedIsUnused` | When the register pipe cannot be opened, `server_init` frees the queue while its workers use it (`server_state.c:270`). |
| `EmsServerSignal`, `MCEmsServer` | `SignalIsShown` | A SIGUSR1 handled between the test of the flag and the read, or by a worker that has just started, prints nothing until somebody registers (`server_state.c:336-338`). |
| `EmsServerDeath`, `MCEmsServer` | `WorkersRepeat` | A client that dies between its registration and the opening of its pipes leaves a worker in `open` for ever (`server_state.c:186`). |
| `GameServerRace`, `MCGameServer` | `EndsAreTrue` | A child that parsed one game appends its end to the file that has the active name by then, which may be another game: `has_ended` opens it by name again (`game.cpp:243`). |

Others were seen while modelling; the modules have them, and the properties are
stated around them:

* `operations.c:36` (OS/P1) says of the search "If the event does not exist, no node is
  left locked", and its caller rightly relies on the opposite. A reservation number may be
  printed twice, when a RESERVE that fails gives back a number after others have taken
  higher ones (`operations.c:193`).
* CN: a parse error ends the parent (`game.cpp:388`, against `server.cpp:205-206`). A
  server that stops between the last line of a game and its move leaves a finished game
  under the active name: a later start overwrites its record, and a TRY of such a game
  without trials follows the null pointer of `last_trial` (`server.cpp:676`). Two games
  that end in one second have one record. What a child adds to the scoreboard may be
  lost. After a second DUP that comes late, the client takes the answer of one guess for
  that of another (`ToldTheTruth` excludes late datagrams).
* IADS: in `project1.c` a first connection from a stop to itself counts the line twice
  (`project1.c:707`). In `project2` the removal of a stop from a line that has it twice
  and no other stop leaves a connection that belongs to no node.
* OOP: cells in a circle end the program (`Cell.java:113-128`). A paste skips a cell of
  the buffer that is empty but observed (`CutBuffer.java:58-61`), so that what was in the
  sheet stays (`PasteIsCopy` says where).

## 5. What is proved

All the theorems are for every value of the constants that the modules' assumptions
allow: any set of threads, ids, sessions and requests, any size, any capacity, with
failures allowed or not. Finiteness is assumed where something is counted (threads in
`SeatLocks`, files in `ProcessPool`, producers and workers in `SessionQueue`, players and
children in `GameServer`). The proofs of a component follow
one scheme: an inductive invariant `Inv`, one lemma that every action keeps it, the
safety properties as consequences, then the refinement step by step.

* **SeatLocksProofs.** `Inv` adds to types and counter: who holds a lock is told by the
  program counter, `held` and `todo` (`LocksOK`); what a thread holds is below what it
  has still to lock (`PhasesOK`); what it has written carries its number
  (`RequestsOK`); what SHOW has read is still true (`SnapshotOK`). `TypeCorrect`,
  `CounterIsExact`. `DeadlockFree`: of the executing threads, the one that waits for the
  highest seat waits for a thread that waits for a higher one; there is none.
  `Refinement`: the last `TakeSeat` is the grant, a `Conflict` the refusal, the last
  `ShowLock` the snapshot.
* **EventListProofs.** At most one link is locked, the last or the one before the new
  node (`LinksOK`); `tail` is right but between two assignments (`TailOK`); nobody walks
  beyond a link that is being extended (`NobodyBeyond`); what a search has passed is not
  what it looks for (`SearchesOK`). `TypeCorrect` (no walk leaves the list),
  `IdsAreUnique`, `AppendsAreAtTail`, `EventsAreKept`, `Refinement`.
* **BatchProofs** (jobs). Only the holder of the input lock reads, and only while the pool
  is told to continue (`LockOK`, `ReadOK`); everything read is finished or in the hands
  of a thread (`Progress`); everything above a BARRIER that was passed is finished
  (`Barriers`, `RunOK`); threads leave only after the status has changed (`StatusOK`);
  a failed pool is idle (`PoolOK`). `FileRunsExactlyOnce`, `BarriersHold`,
  `FailedPoolsAreIdle`, `DelaysAreKept` with one more invariant, and `Refinement`.
  **BatchProofs** (processes). `ProcessPool` names its initial states, steps and
  specification `BatchInit`, `BatchNext` and `BatchSpec`, so that one module can extend it
  and `ThreadPool`. Where each file is (`FilesOK`) and what the place of the parent says of
  the count (`PlaceOK`: it waits only with `max_proc` children, so that the one wait takes
  exactly one, `ReapTakesOne`). `ProcessTypes`, `ChildrenAreAccounted`.
* **SessionQueueProofs.** The owner of the mutex is the thread in the critical section
  (`MutexOK`), what each role has in its hands (`RolesOK`), that the occupied slots are
  those between the indices (`RingConsistent`) and that a session is in one place
  (`OnePlace`), which are inductive with these. `WakeupsAreKept` counts: while a thread of
  a role waits, as many threads of the role are about to test as there are sessions (or
  free slots) for them. `Refinement`: the ring is the abstract queue read from
  `fetch_idx`.
* **EmsServerProofs.** `AtomicRequests` alone is not inductive: whether the answer that a
  client reads is that of its request depends on everything between the two ends of the
  session. `Inv` is `Types` and three parts. `LocksOK`: a lock is held by those at the
  place that needs it, and by no others. `LineOK`: the clients that have registered and
  are in the host's hands or in the queue are different, and nobody serves them. `Talks`,
  about sessions: no two workers have one client, and `Session` says how far each end can
  be ahead of the other. It is stated of two sequences, the pieces of a request
  (what the worker has read, and the request pipe) and the items of an answer (what the
  client has received, the response pipe, and what the worker has still to write). A piece
  that is written or read moves from one part of such a sequence to the next and leaves the
  whole as it was (`Moved`, `MovedBehind`), so that most steps change neither the
  mapping nor what `Session` says. `Prompt`: no proper beginning of an answer looks whole,
  so that the client does not stop early, and nothing is left for its next request.
  `TypeInvariance`, `LocksAreHeld`, and `Refinement`: `ReadSessionId` is the connection;
  the last write of a request (`WriteId` of LIST, `WriteArguments` of the others) asks;
  `Create`, `NotFound`, `Reserve`, `ShowLock` and `ListLock` execute; the last `ReadAnswer` receives;
  `WriteQuitId`, `Disconnected` and `Die` leave; `SignalKills` is the stop; all else is a
  stutter. A client that dies in the middle of a request, whose worker may still execute
  it or find the end of the file, is among the cases. `DeadlockFreedom` (`NoDeadlock`) adds
  to `Inv` that a client that waits for its pipes to be opened is registered or served, and
  that a client that reads an answer has not read all of it (`WaitOK`). A response pipe that
  is full has a client that reads it, so no worker is kept writing, and no lock is held
  where nobody can go on; then no request is left to execute and every session is over, so
  each worker is back at the queue, or waits for a client that died before its pipes were
  open, and the host waits for a registration. For any sets of clients, workers and
  events, any seats, any requests of each client and any sizes of queue and pipes, from
  `SizesAssumption`, `NamesAssumption` (the names of workers, clients and events and `Null`
  are not confused) and `AsksAssumption` (each client has a sequence of choices of what to
  ask).
* **GameProofs** (the player). `GamePlayer` names its initial states, steps and specification
  `PlayerInit`, `PlayerNext` and `PlayerSpec`, so that one module can extend it and
  `GameServer`. The datagrams on their way to the server are in the order of
  their commands, and those of one command are copies of one request (`InOrder`); trials
  come from commands in their order, and from none later than a datagram still to come
  (`PlaysOK`); a copy of a request that became a trial carries the number of the last
  trial (`Known`), which is why the server takes it for a repetition.
  `TriesAreCountedOnce`. The argument rests on datagrams being lost and delayed but not
  overtaken by later ones, as the model of the network has it.
  A second invariant, `Whole`, uses the first. `GameOK`: the trials of a game that goes on
  are different guesses, none the key, and it has one left (so `is_duplicate` finds the
  copy of the last trial where `do_try` expects it); an answer OK is of a trial that was
  not the last one, or that won. `CountsOK`: what is under way is bounded by what was sent.
  `ClientOK`: a client in a game has a trial left. `Coupled`: while nothing is late, one
  request or one answer is under way at most, the request is the next trial of the server
  or its last one (`Waits`), and the answer says what the game is (`AnswerFits`).
  `Agreement` alone is not inductive: it says nothing while the client waits, which is
  where losses and repetitions happen. `PlayerTypeInvariance`, `Agreed`, and `ToldTruthfully`:
  what the player is told is the answer to the guess that was made, and it is right. The
  second half is about the comparison alone (`ComparisonIsRight`): `Whites` goes over the
  positions of the guess and takes positions of the key, the definition of the game sums
  over the colors what key and guess have in common. After `k` positions, of each color
  as many positions of the key are taken as both the key has and the guess had among those
  looked at (`Exact`), so that in the end there are as many as the sum has
  (`SumOfColors`). Both are inductions, told of the least position, or the smallest set
  of colors, that would be wrong (`LeastExists`, from `WFMin` of the library), as the
  theorems of the library that take a predicate cannot be used; that the recursive
  functions inside the folds exist is shown on the way (`MasksExist`).
* **GameProofs** (the server). `Inv`: the values have their types (`Types`); a header is in one
  file, and a file is active for one player (`Names`); what each process claims at its
  place is true (`Mine`): its record has the fields it reads there (`Frame`), the file it
  has open, or the game it has read, is of its own player (`Owner`), a process about to end
  a won game has the trials that won it and a scoreboard that does not list it yet
  (`Wins`), and what the parent has read is what the active file of its player says, as
  only the parent writes headers and trials (`InStep`); every scoreboard, of a process or
  on disk, lists a game once, with the number of trials that won it, and none that is
  still active (`ListsOK`); told trials are on disk (`ToldOnDisk`); a file whose last trial
  is the key is of a game won with that many trials, and the file of a game that was won
  has the key as long as the parent may still read it without an end (`WonOnDisk`). Most
  steps are shown to be *quiet*: they write neither a header nor a trial, and a file
  becomes active only blank and unused (`QuietKeeps`); what is left are the four that
  write. `TypeInvariance`, `Scores` (`ScoredOnce`), `TrialsAreOnDisk`, `OngoingKept`. A
  stop of the server between any two steps is one of the actions. Assumed of the constants
  (`ServerAssumption`): players and children are finite sets, durations are numbers, the
  server starts at least once. There is one inode for each name a file can have, one for
  each process and one more, so that a new one is always free (`FreeInodeIsFree`).
* **CacheProofs.** `Inclusion` alone is not inductive: what a victim that is written back
  overwrites depends on what the layer below holds at its address. `Inv` says of each
  layer (`Sound`) that no block is in two ways of a set (`Unique`), that a clean line is a
  copy of what is seen behind it (`Copied`), and, of a layer above another one, that each
  of its valid blocks is in the next one, in the way of its set that was used last
  (`Included`), so that the write-back of a victim hits. The proof goes through `fetch` as the code composes it: save the victim,
  fetch from the next layer, fill the line; each part changes one line of one layer, and
  keeps what the memory means. `TypeInvariance`, `InclusionKept`, `CleanCopies`,
  `ResetLosesDirty`, and `Implementation`, the refinement of `Memory`: a read returns the
  last value written through any number of evictions, and changes no address; a reset
  falls back to what was saved. For any number of sets, blocks and words, one layer or two,
  a direct mapped L1 and an L2 of one way or two (`HierarchyAssumption`: what the
  simulators have).
* **BusNetworkProofs.** About the lists of `project2`. `CountsExact` and `PathsJoin` say
  nothing of each other, but the steps need both: what a removal takes off a count depends
  on where the line still passes, and which connection goes depends on how the nodes hang
  together. `Network` is `NetworkOf` the three variables: names are there once
  (`Distinct`); each line is `Fine`, that is, its nodes are a path (`Path`) with as many
  stops as it counts, never one, its cost is the sum of its connections (`Sound`), and each
  of these is at least as often in the bag as on the line (`Owned`; the bag may have more,
  as the removal of a stop from a line that has only this stop, twice, leaves one behind);
  counts are exact (`Counted`), and no line has a stop that is not there (`Served`).
  The removal of a stop is two loops, one inside the other. `FoldIterates` and `FoldSteps`
  turn a fold into the values of an iteration (that the recursive function inside a fold
  exists is shown on the way, `FoldExists`), and the loops become inductions: one round of
  `updateRouteStops` takes one node of the stop away, first, last or in the middle
  (`EndTaken`, `MiddleTaken`, `RoundTaken`), so that after as many rounds as there were
  nodes none is left (`AllTaken`); and after the first `k` lines, the lines that still pass
  another stop and those that were taken off its count are together as many as before
  (`MidStep`, `AllUpdated`). The removal of a line takes it off a count at the last node of each stop
  (`LastOnesAre`, `LostIs`). `Invariance`, `CountsAreExact`, `PathsAreJoined`, for any
  names, and costs that are positive numbers (`NetworkAssumption`).
  The second half is about both programs, as long as both are asked. `Twins`: the arrays of
  `project1.c` have the stops and lines of the lists in the same order, with the same
  counts and costs, and the indexes in the array of a line are those of the stops of its
  nodes (`Places`); the pointers back lead to the first node (`Straight`). A new
  connection is followed through both programs: at the end, where the lists append and the
  array writes behind the last index, and at the beginning, where the shift and the search that
  follows it must amount to a new first node (`LinkEndTwins`, `LinkBeginningTwins`,
  `CountTwins`). The array of a line in the model has a fixed length, the list has none: each
  connection was paid for (`Paid`), all of them cost at most `MaxCost`, and a cost is
  positive, so a line has at most one stop more than `MaxCost`. What the connections of a bag cost is a
  fold over a set, in no stated order; it is counted as the size of a set of tokens, as
  many of each connection as it cost (`SpentIsTokens`, `SpentGrows`).
  `TwinsInvariance`; `TypeInvariance`; and `ListsAreSame`: both programs print the same
  stops, lines, and stops of a line in both orders (`SameLists`, the first part of
  `SameNetwork`). For any stops, lines and costs.

Some theorems (`DeadlockFree`, `IdsAreUnique`, `BarriersHold`, `CommandsRunOnce`,
`JobsAreComplete`, `FailedPoolsAreIdle`, `RingIsConsistent`, `SessionsAreInOnePlace`,
`LocksAreHeld`, `CleanCopies`, and type correctness) are of properties that no run checks any more: the proofs cover every
instance.

Only model-checked: liveness (`EveryCommandReturns`, `ReturnWhileMemoryLasts`, `JobEnds`,
`BatchEnds`, `QueuedIsFetched`, `ClosingEnds`, `CommandsReturn`), which the proof system
does not reach; that the guards in `NobodyIsLeftWaiting` are exactly ENABLED;
`Sheet`, whose operators are RECURSIVE; of `SameNetwork`, that both programs print the same
interchanges: these lists are made by `SelectSeq`, for which the proof system has no rules,
and sorted.

## 6. What is left out of the modelled parts, and why

* Failures of pthread calls other than the ones named (the program ends, or has
  undefined behaviour); failures of `malloc` inside SHOW, failures of `mkfifo`, `open`
  and `close` in the client: error paths of one thread.
* An event without rows or columns, for which SHOW of P1 reads out of bounds
  (`operations.c:218`): `SizeAssumption` excludes it.
* The parsers and the layout of the output; in P1 the output lock is held for the
  whole of an answer and only orders it.
* The delay of a WAIT that is pending when a BARRIER is read: the pool that holds it is
  freed and the delay dropped (`batch.c:102`); the repository does not say what should
  happen. The width of `wait_time`.
* Setup and shutdown that run before the first thread and after the last
  (`ems_init`, `ems_terminate`).
* CN: the syntax of requests and answers (a bad one is answered ERR and changes nothing),
  the chunks of a TCP answer, the scoreboard as a child prints it, failures of the disk
  other than a stop of the server, two clients that use the number of one player.
* IADS: coordinates, durations (treated as costs are), names, the layout, the bounds of
  the arrays of `project1.c`, the failure of `malloc`, the hash tables of `project2`
  (they hold what the lists hold).
* OOP: the other operations and intervals (they evaluate as those modelled), text values,
  saving and loading, users, searches. Two facts read there: `importFile` does not reset
  `_filename`, and `save` marks the sheet saved before the stream is closed.
* The components that are not modelled at all: the menus of OOP call the core and print;
  FP, ASA, AI and LP are batch computations without a state between calls, whose
  recursion over data no proof here would reach; ICA is for a simulated machine whose
  devices are not in the repository; HCI is a page to look at; the rest is data and reports.
