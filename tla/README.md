# A verification project for `system_programing`

The repository holds three course projects in C:

- `prj1` — a shell, written in three phases (`myshell.c`);
- `prj2` — a stock server, written three times: event-driven (`task1`), one
  thread per connection (`task2`), and with a pool of worker threads
  (`task2_new`); clients for them are in each directory, and `task3` measures;
- `prj3` — a `malloc` package (`mm.c`) over a simulated heap, with its driver.

This directory holds TLA+ models of all three, the TLC runs that check them and TLAPS
proofs about the servers of `prj2`, their clients and the shell's pipelines and job control.

## 1. Inventory

### Stock servers and their clients (`prj2`)

| part | state | operations | hard behaviour |
|---|---|---|---|
| connection buffer, `task2_new/stockserver.c` | `sbuf_t`: ring `buf`, `front`, `rear`, semaphores `mutex`, `slots`, `items` | `sbuf_insert` (main), `sbuf_remove` (workers), `Close` | one producer and 1024 consumers on two counting semaphores; descriptors are reused by the kernel as soon as they are closed |
| request handlers, `task2_new/stock_endpoint.c` | per stock: `cnt`, `read_cnt`, `mutex`, `mutex_read` | `update_stock`, `set_stocks_info`, `process_request` | a readers-writers lock per stock built from two semaphores; check and addition apart; `int` arithmetic |
| request handlers of `task2` | one semaphore per stock | the same; the walk of a show keeps the locks of its ancestors | nested locks |
| stock tree and file, handlers of `task1` | nodes with `left_stock`, `right_stock`; `stock.txt` | `insert_stock`, `get_stock`, `init_stock`, `process_request`, `write_to_file` | the file is a preorder listing; duplicate identifiers are allowed; Ctrl-C while the file is read |
| process and SIGINT, `terminate_handler` | the file, the locks the interrupted thread holds | save, `exit(0)`; death through `unix_error`/SIGPIPE | the handler takes semaphores and calls `malloc` on top of an arbitrary thread, while the others run |
| event loop, `task1/stockserver.c` | `pool`: `clientfd`, `rio`, `read_set`, `ready_set`, `nready`, `maxi` | `select`, `add_client`, `check_clients` | descriptors and slots reused between `select` and the scan; a copy of the read buffer is used; a blocking read in the only thread |
| clients, `stockclient.c`, `multiclient.c` | children, `result.md`, the `rio_t` of each connection | write a line, read `MAXLINE` bytes | no framing: each end counts the other's bytes; servers and children die in between |

### Shell (`prj1`)

| part | state | operations | hard behaviour |
|---|---|---|---|
| job control, phase 3 | linked list of jobs, `current_pid`, signal masks | `jobs`, `kill`, `fg`, `bg`, `create_bg_process`, `remove_job_node`, handlers of SIGCHLD, SIGINT, SIGTSTP | handlers walk, extend and free the list that `main` walks; `fg` and the handler wait for the same child |
| pipelines, phases 2 and 3 | descriptor tables, `in`, `fd[2]`, `saved_stdin` | `execute_command`, `create_sub_process` | descriptors leak; each stage is waited for before the next starts; a built-in may keep the pipe as stdin |
| parsing | `args[][]` | `parse_command`, `parse_bg_command` | blanks, quotes, bars and `&` in any place |
| history | `command_history`, `.bash_history`, the command buffer | `add_command_history`, `read_bash_history`, `replace_history_command` | the line is expanded in place over stale bytes, with lengths kept by hand |

### Allocator (`prj3`)

| part | state | operations | hard behaviour |
|---|---|---|---|
| `mm.c`, `memlib.c` | the words of the heap, `mem_brk`, `heap_tail` | `mm_init`, `mm_malloc`, `mm_free`, `mm_realloc`, `mm_check`, `mem_sbrk`, `mem_reset_brk` | headers, footers and links share words with payloads; `realloc` in place; nothing clears the memory between runs |
| driver, `mdriver.c` | traces, range list | `read_trace`, `eval_mm_valid`, `eval_mm_util`, `eval_mm_speed` | three passes that must see the same blocks; arrays sized by what the file says |
| timers, `clock.c`, `fcyc.c`, `ftimer.c` | samples, counter words | `get_counter`, `add_sample`, `fcyc`, `ftimer_*` | two-word subtraction, a sorted array that is cut |

What makes these parts correct: no connection is lost, overwritten or served twice; trades
are indivisible and exact; locks are given back; Ctrl-C leaves a file that holds what was
acknowledged and a restart rebuilds the same tree; the `select` loop serves exactly the
ready clients; client and server stay in step; every child is reaped, the job list is never
followed into freed memory, and the prompt comes back; a stage reads what the stage before
it wrote; payloads never overlap and the block list tiles the heap.

## 2. Modules

```
ConnQueue   <- refined by - Sbuf                          SbufProofs
StockLedger <- refined by - StockEndpoint                 StockEndpointProofs
            |                  <- INSTANCE - StockServer  StockServerProofs
            <- refined by - MutexEndpoint                 MutexEndpointProofs
EventServer                                               EventServerProofs
Rio <- Clients                                            ClientsProofs
ShellJobs                                                 ShellJobsProofs
StockTree <- IterativeStock                               (not proved about)
ShellParse <- ShellPipeline                               ShellPipelineProofs
ShellHistory                                              (not proved about)
MmHeap, Timing, TraceFile <- MmDriver
```

Each `MCx` module extends `x` and only names constants for TLC. The definitions called
"Mutant" are not used by any specification: each is a plausible bug in the operator that
follows it, kept to show that the properties notice it.

### `ConnQueue` and `Sbuf`
`ConnQueue` is the promise: a FIFO queue of `Capacity` connections; a worker takes
the oldest when it holds none; a descriptor is offered again only after its release.

`Sbuf` is the code. `Main` runs `Accept` and `sbuf_insert`, split into `InsertWaitSlot`
(`P(&slots)`), `InsertLock`, `InsertIndex` (`++rear % n`), `InsertStore`, `InsertUnlock`,
`InsertAnnounce` (`V(&items)`); each worker runs `sbuf_remove`, split alike, and `Close`.
Semaphores are counters; `sem_wait` is a guard. `Accept` returns any descriptor that is
not open, so numbers are reused as in the kernel. `front` and `rear` are natural numbers.
The refinement mapping reads the abstract queue off the ring: positions `Loaded+1 .. Stored`,
where `Loaded` does not count the slot of a worker that has moved `front` but not loaded,
and `Stored` not the slot that main has claimed but not stored.

### `StockLedger`, `StockEndpoint`, `MutexEndpoint`
`StockLedger` is the promise: a buy or sell is one step, granted exactly when the true
sum lies in `0..IntMax`, otherwise refused; an unknown stock is reported; a show looks
at one stock after the other, each time at its current count. It does not promise a
snapshot, because the code does not take one.

`StockEndpoint` is `update_stock` and `set_stocks_info` of `task2_new`, one step per
semaphore call and per access to `cnt` or `read_cnt`. The recursion over the tree is
the position `pos` in `Order`, the preorder listing. `Wrap` is the arithmetic of the
build (`gcc -O2`: an add and a test of its sign). `P(&target->mutex)` stands before the
`NULL` test as in the code: a request for an unknown stock (`UpdateUnknown`) kills the
process. `read_cnt`, which the code does not initialise, starts at 0.

`MutexEndpoint` is the same for `task2`, where `set_stocks_info` holds a stock's semaphore
while it lists both subtrees; its activations are an explicit stack of (stock, statement).

### `StockServer`
Composes `StockEndpoint` (an `INSTANCE` with the workers *and* the handler activations
as its threads: `write_to_file` walks the tree exactly as a show does) with the process:
which thread the handler runs on (`on`), its progress through `write_to_file`
(`phase`: malloc, walk, `fopen(.., "w")`, write), the file, and threads that may be inside
`malloc`. SIGINT goes to the main thread unless a handler already runs there. A client
that goes away ends the process (`HangUp`). There may be any number of activations. Each writes
from the start of the file it has opened, so when two have opened it the text of the later
writer may have the end of the other's behind it: `Mixed`, unless the texts are the same.

### `StockTree` and `IterativeStock`
`StockTree` has `insert_stock`, `get_stock` and the listings as operators on a sequence of
nodes. `IterativeStock` is the server of `task1` around them, which answers one request at
a time: `init_stock` line by line; `process_request`, whose answer (`reply`) waits until
`Rio_writen` has sent it; `terminate_handler` at any moment after `Signal()`, also while the
file is being read; death at any moment, or by a request that lacks a word; and the next start.
The handler's `fopen` empties the file (`OpenFile`), what it writes arrives there in pieces of
any number of lines (`WriteBlock`), and death may come in between, which leaves a file that lists
the first nodes of the tree (`FirstNodes`). `write_to_file` calls `set_stocks_info` behind
`fopen`; nothing else runs by then, so the listing is the same.

### `EventServer`
`main`, `add_client` and `check_clients` of `task1`, one step per slot looked at and per
read; `process_request` is one step because no other thread runs. Lines are `req`,
`blank`, `exit`, or a `half` line followed by its `rest`. `Rio_readlineb` blocks in state
`read`; what it has buffered behind the first line is lost, because `check_clients` reads
into a copy of `p->rio[i]`. Clients connect, write and leave freely; `Pipelined` says
whether they write before they have their answer.

### `Rio` and `Clients`
`Rio` has the pieces of the CS:APP rio package as operators: what a refill takes, what a
line or a counted read copies, what a write leaves. `Clients` runs them on both ends of
every connection, byte by byte: the children of `multiclient` with their parent, and in
`task3` the `result.md` they share, or users at `stockclient`, against the threads of `task2`. Sockets,
`rio_t` and lines hold two or three bytes, so every read and write may be short. A byte of
an answer carries the number of the line it answers and whether the server took that line
whole. The server may not come up, may be stopped by Ctrl-C, and dies of a line without a
word and of a client that closed; children may be refused or fail to be forked.

### `ShellParse` and `ShellPipeline`
`ShellParse` gives `parse_command` and `parse_bg_command` as operators on token sequences
(words, blanks, quotes, bars, `&`). `ShellPipeline` parses the line that is typed and runs
`execute_command`: `MakePipe`, `create_sub_process`, `NextStage`, and the last stage, which
phases 2 and 3 treat differently (`phase` says which program it is). The descriptor tables
of the shell and its one child map numbers to open files; `pipe`, `dup` and `dup2` take
the lowest free number, and their failures are ignored as in the code. A pipe holds the
numbers of the stages that wrote its lines. The prompt reads whatever descriptor 0 is,
through `stdio`, which reads ahead.

### `ShellHistory`
The main loop of the shell over the bytes of the `command` array, whose old bytes stay
behind the string: `replace_history_command` one character at a time with its own `cur` and
`len`, `add_command_history` and the file it appends to, `read_bash_history` with the extra
round its `feof` test allows, and kills and restarts at any point.

### `ShellJobs`
`main`, `execute_command` as far as it forks and waits, the built-ins, and the handlers. The
program is a stack of frames with `main` at the bottom; the kernel pushes a handler whenever
a signal is pending and not blocked, on top of `main` or of another handler. A step is one access
to what main and the handlers share: a test of `first_job` or `last_job`, the store that
follows, the read of a pointer and the write through it are apart, in `create_bg_process` and in
`remove_job_node` alike. Merged into one step are `malloc` and the filling of the new node,
which nobody else can see yet; the read and the store of `curruent_job_id`, in
`curruent_job_id++` and at the end of `remove_job_node`; the read of a neighbour and the store
into it in lines 600-603; and `free` with the `sigprocmask` behind it. (A signal inside the last
two finds and leaves nothing that one before or after does not.) `remove_job_node` does
not empty its `mask` before it adds SIGCHLD, so the mask holds SIGCHLD and what the stack held, any
member of `StackMasks` (`BlockInRemove`). Of a status the model keeps what the handler tells apart:
it removes the job of a child that has exited or that SIGKILL has ended, and no other.

A freed job keeps its contents until `malloc` returns it again, as in the build; a frame that
reads it may find them or end in undefined behaviour (`UseAfterFree`, which also has the NULL
that `last_job` may be when `create_bg_process` uses it). Four outcomes end what is looked at:

- `killed`: Ctrl-C while `fg` has SIGINT at its default;
- `undefined`;
- `torn`: the SIGCHLD handler has freed a job under `create_bg_process`, which was linking it in
  or had just read `last_job` to link another one to it;
- `heap`: a handler calls `malloc` or `free` while a frame below it is inside one of them, or `main`
  in the part of its loop that allocates and prints (`InHeap`). The lock of the heap is then
  held by the interrupted code, or the heap's lists are in between two states. The handler may
  also be lucky: `HeapBroken` is one of the steps, never the only one.

Two histories mark where the list stops being one. `reused`: `malloc` was called while a frame
still held a freed job, which it may then return; the frame goes on with a job it has never looked
for. `tangled`: `create_bg_process` was called while it was adding another job.

### `MmHeap` and `MmDriver`
`MmHeap` is `mm.c` and `memlib.c` over the words of the heap, because headers, footers,
links and payloads share them. The macros are operators on a heap `[m, brk, tail]` and keep
their names; a routine that returns a block yields the heap and the block (`At`). A word is
a number: a size plus 1 (allocated) plus 2 (the block in front is allocated, the "tag").
Memory starts at zero, as `malloc` returns it for 20 MB, and no reset clears it.

`MmDriver` is the client: a trace under `eval_mm_valid`, which fills every payload and checks
ranges and reallocated contents; then the same trace under `eval_mm_util` and `Runs` times
under `eval_mm_speed`, on the memory the pass before has left; then the next trace.
`overrun` records that `mm_realloc` has taken an allocated neighbour for a free one: the
block behind (line 391) or, through a "footer" that is really payload or an old footer, the
one in front (line 412). The heap is not looked at after that. When that "footer" leads
outside the heap the read is undefined: the process goes on as if the word were marked
allocated, or is given up (`ReallocWild`). `memcpy` of overlapping blocks is taken to
copy like `memmove`.

### `Timing` and `TraceFile`
Pure: the cycle counter's two-word subtraction, the K-best sampling and the two wall clock
timers; and `read_trace`, from a file's lines to accepted, rejected, aborted or overflowing.
`MmDriver` asks about them before its first operation (`TimersMeasure`, `TracesFit`), against
reference definitions over all bounded inputs.

## 3. Runs

| run | instance | properties |
|---|---|---|
| `sbuf` | 3 workers, 2 slots, 3 descriptors, 6 accepts | `NoOverwrite`; `OneHolder` (each open connection is in one hand or one slot); `RefinesConnQueue`; `AcceptedIsServed` |
| `stock` | 3 threads with one request each, 2 stocks and an unknown one, amounts 1 and `INT_MIN`, `IntMax = 2` | `ReadersExcludeWriters`, `IdleStockIsUnlocked`, `ImplementsLedger`, `EveryRequestAnswered` |
| `server` | 2 workers, 2 stocks, 1 Ctrl-C, any thread may be in malloc | `SavedAfterSignal`, `InterruptEndsUnlessAllocating` |
| `tree` | files of up to 4 lines over 3 identifiers, 2 further starts | `TradesAreExact`, `RestartKeepsTree`, `StocksLostOnlyInTwoWindows` |
| `event` | 3 connections over 2 descriptors and 2 slots, 3 pieces, clients wait for answers | `ScanIsExact`, `NoLineLost`, `AnsweredUnlessStalled` |
| `mutex` | 2 connections, a root with two children, an unknown stock, 2 requests each | `PathIsSnapshot`, `ImplementsLedger`, `EveryRequestAnswered` |
| `clients` | 2 children or 2 users, `MAXLINE` 3, `RIO_BUFSIZE` 3, sockets of 2 bytes, 4 inputs | `AnswersInStep`, `ReportIsWhole`, `EveryClientEnds` |
| `shell_jobs` | 2 children, 3 jobs, `&`, pipelines, `fg`, `bg`, `kill`, 1 key, 2 masks | `NoZombieForgotten`, `WalkIsSafe`, `RemovedOnlyWhenReaped`, `PromptReturns` |
| `shell_pipe` | 11 lines, 10 descriptors, pipes of 2 lines, both phases | `EndOfFileComes`, `StageReadsPrevious`, `PromptIsTheTerminals`, `LinesAreUnderstood`, `PromptReturns` |
| `shell_history` | 15 lines, 3 files, a buffer of 14, 4 entries | `FileIsHistory`, `ExpansionIsMeant` |
| `mm` | traces of 6 operations on 4 blocks, 4 of them run again, 160 bytes of heap, chunks of 64 | `PayloadsIntact`, `HeapIsConsistent`, `ReplayAgrees`, `UtilIsARatio`, `LosesOnlyWhenMoving`, `TimersMeasure`, `TracesFit` |
| `mm_overlap` | traces of 7 operations | **violated**: `PayloadsAreDisjoint` |

**Bounds, and why they are enough.** In `sbuf`, six accepts go round a ring of two
slots three times; three workers and the acceptor is the smallest number at which one
worker claims an item, one is inside the region and one has still to give its slot back;
three descriptors for six accepts force reuse. In `stock` a lock needs a first, a last and a
further reader against a writer, hence three threads; `IntMax = 2` makes every sum a
boundary case, and -`IntMax`-1 is the amount whose negation does not fit. In `event`,
three connections compete for two descriptors, so the third finds either a reused slot or
none (`AcceptFails`). Files of four lines over three identifiers contain every tree shape of
up to four nodes with at least one duplicate. In `clients` the inputs are a line below, at and
above the length at which both ends cut, and one without a newline; two bytes of socket
split every answer. `shell_jobs` needs two children for a pipeline, for signals that merge
and for `cur` to go on from one child to the next; a third job is what SIGTSTP adds twice.
One child with `&` that ends and a Ctrl-Z that arrives when the handler of SIGCHLD has freed its
job (at `reap`) suffice for `reused`, so the run has that state. The commands leave out `run`,
which is the last stage of a pipeline, and `jobs`, whose walk is that of `fg` with a number that is
not there. The uninitialised mask of `remove_job_node` holds nothing or both keys' signals
(`StackMasks`). Too big to be kept as runs, the three safety properties were also checked with all
four masks on: the same instance with every command (2.1 million states); three children, `run`,
`&` and one key (7.7 million); two children, four jobs, `run`, `&`, `fg` and two keys (9.1
million). `SavedAfterSignal` was also checked with two Ctrl-Cs (1 worker with 2 requests, 327
thousand states), the smallest case in which two walks differ: a worker that trades between them.
In `tree` two further starts are a save that is cut off and a start from what it
has left.
In `shell_pipe` pipelines repeat until ten descriptors are used up and `pipe` fails;
`MAX_PIPELINE` is 3, so that the line of four stages overflows `args`; programs write more
lines than a pipe holds; parsing is asked about every line of up to six tokens. In
`shell_history` the longest expansion just does not fit 14 bytes. In `mm` a chunk of 64 bytes
holds two or three blocks, so that three fill it, leave a rest too small to split, and
force a second `sbrk`; the sizes fill a block to its last word (12), leave the footer's
word unused (16), and make a block that `place` puts at the end (28, with `BigBlock` and
`BigRest` scaled down like the chunk). Six operations reach every pattern of free and
allocated neighbours and each branch of `mm_realloc`; four are run again twice and followed
by the next trace on the same memory. In `Timing` a word is 8, so that it wraps within a run.

**The violation.** `mm_overlap`: when the last block of the heap is allocated, `next_size`
of the block in front of it is 0 and `!next_size` lets `mm_realloc` erase it from a list it
is not in and grow over its payload, against "The payload must not overlap any other
payloads" (`mdriver.c`:409).

**Exceptions that properties name**, because the code really has them:

- `InterruptEndsUnlessAllocating`: a handler that interrupts a `malloc` of its own thread
  calls `malloc` and waits for ever.
- `AnsweredUnlessStalled`: a client that stops in the middle of a line stops the
  single-threaded server for all.
- `SavedAfterSignal`: when two activations of the handler have opened the file, one may exit
  while the other has just emptied it, or has written over it.
- `StocksLostOnlyInTwoWindows`: Ctrl-C during `init_stock` saves only what has been read, and a
  process that is killed between `fopen` and the end of `fclose` leaves the beginning of the
  listing, or nothing.
- `TradesAreExact`: the answer to a sell that is refused because the sum overflows is empty, since
  `process_request` has no case for it; the property says so.
- `EveryClientEnds`: a user whose last line has no newline and is short waits for an answer
  while the server waits for the rest of the line.
- `PromptReturns` (jobs): a stage of a pipeline that Ctrl-Z stops is waited for without
  `WUNTRACED`, for ever; the four outcomes of section 2, `heap` above all, and `reused`, after which
  the list may be a ring. `PromptReturns` (pipelines): a stage that writes more than a pipe
  holds is waited for before anybody reads.
- `PromptIsTheTerminals`: a built-in at the end of a pipeline of phase 3 leaves the shell's
  stdin on the pipe, whose lines are then run as commands; a built-in alone, and a line that
  begins with `jobs`, do not bring a lost stdin back.
- `WalkIsSafe` is about the ends of the list, the forward links of allocated jobs, and the backward
  link of a job that is being removed, the only one that is followed. It ends at `reused`, at
  `tangled` and at the outcomes of section 2. It does not say that every job can be found: a job that
  SIGTSTP's handler adds between two steps of a removal may be cut off, and its `prev`,
  which nobody reaches any more, may dangle.
- `ExpansionIsMeant`: `!n` makes `len` two too long, and the scan may then replace what old
  bytes behind the string say (`past`).
- `LosesOnlyWhenMoving`: joining with a free block in front copies two words less than the
  block, and the last word of a full payload is lost.
- `LinesAreUnderstood`: quotes do not protect a bar, the first argument keeps its quotes,
  and in `a&b c` the words behind the `&` stay arguments.

**Facts the models contain and no property contradicts.** A request for an unknown stock
kills the servers of `task2` and `task2_new` (`UpdateUnknown`). A client
of `task1` that writes two lines at once loses the second (`Pipelined = TRUE`; the
repository's own clients never do). A background child that ends before
`create_bg_process` lists it stays in the job list for ever. After `reused` a removal may
leave `last_job` on a freed job; with one more job the list becomes a ring, which the
built-in `jobs` follows for ever. `mm_check`'s search for
neighbours that were not coalesced compares distances of `WSIZE` with `DSIZE` and cannot
fire, and its walk leaves out the last block; `HeapIsConsistent` makes both tests itself.

## 4. Fairness

Weak fairness of each thread's own step: the scheduler runs every thread that can run,
and a `sem_wait` whose semaphore *stays* positive returns. Nothing stronger is assumed of
semaphores, which promise no order among waiters. Consequences:

- `sbuf`: connections are a bounded supply, so an item cannot be snatched from one
  waiting worker for ever; every client hangs up in the end; nobody must connect.
- `stock`, `mutex`: the requests are bounded (`OrdersPerClient`). With an endless stream
  of shows a writer may starve — the lock prefers readers — and the model does not claim
  otherwise. The runs show that no *lock* is kept for ever, not that waits are short.
- `server`: fairness for workers in the middle of a request, for threads that are
  inside malloc and for the handler; none for clients or Ctrl-C. `CHECK_DEADLOCK FALSE`
  in this run only, because a handler that waits for the allocator's lock
  can really stop the process; the liveness property says when. It is asked for one Ctrl-C:
  a second handler runs on a worker, waits for the lock which that worker holds, and so may
  keep the first one waiting.
- `event`: fairness of the server's only thread. Clients may stop at any point.
- `clients`: fairness of every process and thread on both machines; Ctrl-C, at either end,
  is free.
- `shell_jobs`: fairness of the process, which makes a step of its own or is delivered a signal
  that is not blocked, whichever the kernel chooses. No child must end, nobody must type.
- `shell_pipe`: fairness of the shell and of the child's program, except where it waits for
  the user.

## 5. Proofs

| module | result | property |
|---|---|---|
| `SbufProofs` | `TypeCorrect`, `MutualExclusion`, `SemaphoreBalance` | |
| | `NeverOverwrites` | `NoOverwrite` |
| | `OneHolderAlways` | `OneHolder` |
| | `RingIsQueue` | `RefinesConnQueue` |
| `StockEndpointProofs` | `TypeCorrect` | |
| | `Exclusion`, `IdleIsUnlocked` | `ReadersExcludeWriters`, `IdleStockIsUnlocked` |
| | `Refinement` | `ImplementsLedger` |
| `MutexEndpointProofs` | `TypeCorrect` | |
| | `SnapshotOfPath` | `PathIsSnapshot` |
| | `Refinement` | `ImplementsLedger` |
| `StockServerProofs` | `SavedUnlessTwoOpened` | `SavedAfterSignal` |
| | `OneSignalSaves` | |
| `EventServerProofs` | `ScanServesReadyClients` | `ScanIsExact` |
| | `WaitingClientsLoseNothing` | `NoLineLost` |
| `ShellJobsProofs` | `Types`, `NoNullJob` | |
| | `NoChildForgotten` | `NoZombieForgotten` |
| | `RemovesWhatIsReaped` | `RemovedOnlyWhenReaped` |
| `ShellPipelineProofs` | `InputsEnd` | `EndOfFileComes` |
| | `StagesAreConnected` | `StageReadsPrevious` |
| | `StdinLostOnlyToBuiltIns` | `PromptIsTheTerminals` |
| `ClientsProofs` | `TypeCorrect` | |
| | `StaysInStep` | `AnswersInStep` |
| | `ReportStaysWhole` | `ReportIsWhole` |

Each is proved for all values of the constants that satisfy the assumption named in the
module (`SbufAssumption`, `EndpointAssumption`, ...): finite sets where something is
counted, values like `NoFd` that are none of the values they stand beside, amounts that are
ints. Every invariant was checked by TLC on the module's run before it was proved.

### The connection buffer
The inductive invariant is

    Inv == TypeOK /\ MutexExcludes /\ SemaphoresCount /\ IndexIsCurrent

`MutexExcludes` (at most one thread in the region, and `mutex = 0` exactly then) is
needed to know that between a thread's `InsertIndex` or `RemoveIndex` and its use of the
slot nobody moves `rear` or `front`: that is `IndexIsCurrent`. `SemaphoresCount` is the
balance `items + claiming + filling = rear - front` and `slots + freeing + reserving =
N - (rear - front)`; with the ranges of `TypeOK` it bounds `rear - front` by `N`, and
since positions less than `N` apart fall into different slots (`SlotsDiffer`, from the
division theorem `DivMod`) the slot main is about to fill is not among the waiting ones:
`NoOverwrite`. There is one lemma per action; `MainStep` and `WorkerStep` say once what a
step of one thread does to the sets that are counted.

`DataInv` adds what the numbers are about. `HandsMatchCode` says at which places of the code
a thread has a descriptor in its hands; `Placed` that the open descriptors are those
in some thread's hands and those at the positions `Loaded+1 .. Stored` of the ring, each in
one place. `Ends` draws from `Inv` that less than `N` connections wait while main is about
to store and at least one while a worker is about to load. So `InsertStore` appends to the
queue and leaves the slots of all others alone, `RemoveLoad` takes its head, and every
other step of `insert` and `remove` keeps the queue and stutters.

### The request handlers
`StockEndpointProofs` proves, for every number of threads, stocks, requests and any
`IntMax`, from `EndpointAssumption` (finitely many threads, distinct stocks, amounts that
are ints, initial counts that are not negative),

- `TypeCorrect`: `Spec => []TypeOK`, hence no count is ever negative or wraps
- `Exclusion`: `Spec => []ReadersExcludeWriters`
- `IdleIsUnlocked`: `Spec => []IdleStockIsUnlocked`
- `Refinement`: `Spec => ImplementsLedger`

The inductive invariant is

    IInv == TypeOK /\ ReqInv /\ GateInv /\ WriteInv /\ CountInv /\ CheckInv /\ AnswerInv

`GateInv`: `mutex_read` of a stock is 0 exactly while one thread is at its gate. `CountInv`:
`read_cnt` is the number of readers inside, and a reader that has found itself the first
or the last one still is, which holds because it is at the gate. `WriteInv`: `mutex` is 0
exactly while there is one writer or a set of readers that hold it together. The three
need each other. When a reader enters without touching `mutex`, `CountInv` gives another
reader inside, `GateInv` says it is past the gate, so it holds the lock and `WriteInv`
excludes a writer. When the last reader posts `mutex`, `CountInv` says nobody else is
inside. `CheckInv` carries the test of `update_stock` to the addition: `WriteInv` says
that nobody writes this stock in between, so the sum written is the sum tested.
`SumIsExact` is the arithmetic: for every count and every amount, `INT_MIN` included, the
wrapped sum is non-negative exactly when the true sum is a count, and is then equal to it.
`ReqInv` and `AnswerInv` tie the locals to the program counter. In the refinement
`UpdateAdd` is the ledger's `Grant`, `UpdateNotEnough` its `Refuse`, `ReadCopy` its `Look`;
all other steps inside a handler stutter.

`MutexEndpointProofs` proves the same of `task2`, for every number of threads and every tree
(`OrderIsPreorder` says of `Order` that it is the tree's preorder). The invariant is

    Inv == TypeOK /\ ReqInv /\ AnswerInv /\ LockInv /\ WalkInv /\ CheckInv

`LockInv`: a thread owns the semaphores of the activations on its stack that have passed
`P`, and of the stock it is writing; each of these is 0 and owned by nobody else. `WalkInv`
makes the stack of activations a path of the tree from the root whose topmost place says
how many counts have been listed (`Progress`). For that one needs where a subtree lies in the
preorder: `Places` derives it from the sizes of the subtrees. Since the activations are a
path and places in the preorder differ, a walk that has just returned from a left subtree
has not been there before, locks each stock once and lists exactly `Len(Order)` counts.
The snapshot follows from `LockInv`: nobody writes a stock while a walk owns its semaphore.

### The server process
`StockServerProofs` follows the counts into the file, for any number of Ctrl-Cs, of workers
they interrupt and of handlers they nest in. `since[s]` is the history of a stock since the
first signal. `NowInv`: the present count is in it; `LengthInv`: a walk's buffer has one count
for each stock passed; `SeenInv`: each of them is in the history of its stock; `FileInv`: while one
activation at most has opened the file, it is `Empty` until that one has written and `Saved` from
then on (`FileStays` carries this over the steps of all others). The locks of
`StockEndpoint` are not used: a count is recent when it is copied, whoever else is there. The walks
of any number of activations may overlap; with two that have opened the file nothing is claimed,
because there the code does lose it, as section 3 says. `OneSignalSaves` is the consequence for
one activation at most, which is always alone.

### The event-driven server
`RoundIInv == Types /\ FdInv /\ PoolAgrees /\ RoundInv /\ NreadyCounts` says that what a round
has found out is true until it is used: `nready` is the number of slots from `i` on whose
descriptor is in `ready_set` (before `accept`, of all of `ready_set`), although `add_client` may
fill a slot behind or before the scan and a client that is served may be removed. The sets
are compared one descriptor at a time (`PoolByElements`), and `SlotsOfFds` counts them through
a bijection; `FreeSlot` is why the loop of `add_client` finds a slot: `accept` fails first.

`LineInv` is about clients that wait for their answers, which the theorem assumes
(`~Pipelined`; without it lines do get lost, see section 3). Each of them has at most one
line outstanding, and the line is in the socket, split or whole, or in the server's hands; so
`Rio_readlineb` never buffers a second line that the copy of `rio_t` would lose.

### The shell's jobs
`ShellJobsProofs` proves, for every number of children, jobs and key presses, any commands and
anything the uninitialised mask may hold, from `ShellJobsAssumption`,

- `Types`: `Spec => []TypeOK`
- `NoNullJob`: `Spec => []FramesHoldJobs`
- `NoChildForgotten`: `Spec => []NoZombieForgotten`
- `RemovesWhatIsReaped`: `Spec => RemovedOnlyWhenReaped`

The inductive invariant of the first three is `Inv == TypeOK /\ NoZombieForgotten`, and the part of `TypeOK`
that carries the argument is `StackOK`: `main` is the bottom frame and no other, a frame is
only at a place its handler has (`FrameOK`), a frame at a place that dereferences a job
holds one, and what main does fits the command it has read (`ServesCommand`: without it
`Walk` could go to a place that is none of main's). A child that ends makes SIGCHLD pending
(`EndsAreTold`), so it can be forgotten in two ways only: the signal is taken without a
handler, which `Deliver` excludes because it pushes the handler's frame; or the last such
frame returns. By `FrameOK` that frame is at a place of its own handler or of
`remove_job_node`, of which only `Reap` returns, and `Reap` has found no zombie in the same step; the handlers that return
from `PrintJob` or from their own walk are others. The lemmas about the stack (`BecomesKeepsStack`,
`ReturnKeepsStack`, `AppendKeepsStack`) are stated once; there is one lemma per action.
The proof needs no bound on how deep handlers nest, which the run has (two children
and one key).

`RemovesWhatIsReaped` adds `ReapInv`. A child that has been reaped stays so, and a job keeps its
child from `malloc` to `malloc`; what has to be shown is that a frame about to remove a job
holds a job of the child it has itself reaped (`FramesKnow`). That is not plain: `fg` goes
from the job it has found to `waitpid` while handlers may free that very job and SIGTSTP's
handler may be given its node. It is saved by `current_pid`, from which that handler takes the
child of the new job, and which is then the child `fg` waits for. Two further parts are needed:
no two frames have reaped the same child and not yet dealt with it (`OneReaper`), and the
child of a freed job is reaped (`JobsKnown`), so a job number that a stale walk still finds
does no harm.

The shape of the list (`WalkIsSafe`) is model-checked only: since SIGTSTP's handler may divide a
removal, the list between two steps is not one in which a handler or `main` could be said to
keep an order of jobs, and the argument would have to follow every pair of interrupted steps.

### The pipelines
`ShellPipelineProofs` proves, for both phases, any commands, any capacity of a pipe and any number
of descriptors, from `ShellPipelineAssumption` alone,

- `InputsEnd`: `Spec => []EndOfFileComes`
- `StagesAreConnected`: `Spec => []StageReadsPrevious`
- `StdinLostOnlyToBuiltIns`: `Spec => []PromptIsTheTerminals`; in phase 2 the prompt always reads
  the terminal; and a stdin that is not the terminal is a pipe's read end without a writer

`Inv` says, for every place of `execute_command`, which descriptor holds which end of which
pipe. The shell has a write end only between `pipe` and the `close` of the same turn, and only in
`fd[1]` (`OneWriteEnd`); `in` and `fd[0]` are read ends above 1 (`InputOK`, `PairOK`); the child's
standard input is the terminal or a read end nobody writes to (`ChildOK`). Two steps are not
plain. `MakePipe` takes a pipe that no descriptor refers to: `PipeFinds` shows that there is
one while two descriptors are free, because every pipe in use occupies a descriptor of its
own (pigeonhole). And phase 2 overwrites descriptor 0 although its `dup` of stdin may have
failed: that takes a full table, then the first `pipe` fails too (and the shell goes on with an
`fd[]` nobody has set, where the model stops), so only a command of one stage gets
through, and that does not redirect its input (`Phase2OK`). For the contents, `ChildOK` holds that
what the reader has taken and what is still in its pipe are together the lines its
predecessor sent (`got + Len(pipes[cfd[0][2]]) = sent`), all with that stage's number.

### The clients
`ClientsProofs` proves, for any number of children, users and orders, any `MAXLINE`, `RIO_BUFSIZE`
and socket capacity, and any input, `Spec => []TypeOK`, `Spec => []AnswersInStep` and
`Spec => []ReportIsWhole`. It assumes that children and users are different processes
and none of the words of `result.md` (`ClientsAssumption`), sizes that are positive
(`RioAssumption`), and that the load generator's order is shorter than `MAXLINE`
(`OrderLineAssumption`; in the code 11 bytes at most, `sell 10 10`, against 8192). The invariant is

    Inv == TypeOK /\ ConnectionsInStep /\ BacklogOK /\ ParentInv /\ ReportInv

`ConnectionsInStep` says where the bytes of a connection are, per place of the client. While
it writes, and while it reads and nothing has come yet, the server's line, its `rio_t`, the
socket and what is still to be written are together one whole line, in this order (`Asked`). Later
they are empty, and what has been read, what is on the way and what the thread has still
to write are together one answer of `MAXLINE` bytes (`Answered`). Between two lines everything
is empty. The lemma about the order of the bytes is `BytesKeepTheirOrder`: one round of
`rio_readlineb`, with any refill, changes only where the bytes are. `DoneIsWhole` says that it
stops at the end of a whole line and not before, because a line is cut at the same length
by `fgets` and by `rio_readlineb`; that is what keeps a long line from being answered twice.
When the server has died, `alive` drops out of these clauses and only what the client has read
is constrained. `AcceptKeeps` needs that a connection waits for `Accept` once and has no
thread (`BacklogOK`). For `result.md`, `ParentInv` says that the children in front of
`parent.next` have ended while it waits, and `ReportInv` that exactly the children at or behind
their report have a line.

### What is only checked by TLC
The runs do not repeat `TypeOK`, `MutexExcludes` and `SemaphoresCount`, which are proved.
`WalkIsSafe` and `PromptReturns` of `ShellJobs`, `LinesAreUnderstood` and `PromptReturns` of
`ShellPipeline`, and all of `ShellHistory`, `IterativeStock` and `MmDriver` are only model-checked. For the tree, the parser, the history expansion and the walks over the
heap the obstacle is of principle: what a recursive definition computes needs an induction
over data, which the prover cannot instantiate; `MmHeap`, `MmDriver` and `ShellHistory` also
declare recursive operators.
All liveness stays with TLC, fairness and `ENABLED` being out of the prover's reach.

## 6. Not modelled

- Servers: splitting a request line into words and `stock.txt` into numbers (a line gives
  the request it means; a missing word is a value of its own); the signs and limits of
  `atoi`; prices; listings longer than `MAXBUF`; `front` and `rear` beyond 2^31; Ctrl-C
  inside `insert_stock` or `malloc` in `task1`; a save of `task1` that is cut off in the middle of a
  line; a save of `StockServer` that dies before its text is out, which nobody calls saved.
- Clients: `EINTR` restarts, lists of several addresses, `pids[]` beyond `MAX_CLIENT`, what
  an order says.
- The rest of `csapp.c`: wrappers of one system call each, many never called.
- Shell: reuse of process numbers; a signal inside `curruent_job_id++`, after which two jobs may
  have one number; what the heap does after `heap`;
  what a child does between `fork` and `exec`; the printed state of jobs; background jobs
  inside `ShellPipeline` (they are in `ShellJobs`); `cd` and the other built-ins' effects
  outside the shell; `parse_command` of phase 1.
- Allocator: `mm_realloc(NULL, n)`, which the driver does not call; sizes that are not
  whole words; the driver's comparison with libc, its options, performance index and
  tables; clearing the cache, compensation for timer interrupts, the Alpha counter.

## 7. Plan

1. `Timing` and `TraceFile`: the two-word subtraction and the bounds of the arrays as lemmas
   about their operators.
2. The shape of the job list as a theorem, for a shell in which no SIGTSTP comes during a removal.
