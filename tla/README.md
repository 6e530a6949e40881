# OpenBLAS in TLA+

Specifications, model-checking instances and machine-checked proofs for the
part of OpenBLAS that is hard to test: how library calls, a pool of server
threads, the workers of a threaded GEMM and cancellation requests interleave.
The numerical kernels are not a subject of this project; what they read, and
when, is.

## 1. Inventory

| part | source | state it keeps | operations |
|---|---|---|---|
| cancellation slots | `driver/others/openblas_cancel.c` | per thread one `size_t`: a generation counter whose bit 0 is the cancel flag | `openblas_cancel_token`, `_begin`, `_self`, `_poll`, `openblas_cancel` |
| pthread server pool | `driver/others/blas_server.c` | `thread_status[]` (queue pointer, sleep state, lock, condition variable), `blas_server_avail`, `blas_num_threads`, `blas_cpu_number`, `blas_thread_buffer[]`, `server_lock`, `exec_queue_lock` | `exec_blas`, `exec_blas_async`, `exec_blas_async_wait`, `blas_thread_server`, `exec_threads`, `blas_thread_init`, `goto_set_num_threads`, `blas_thread_shutdown`, `adjust_thread_buffers` |
| threaded GEMM | `driver/level3/level3_thread.c` | `job[].working[][]` (one flag per owner, reader and panel), the panels of B in each thread's buffer, the loop variables | `gemm_driver`, `inner_thread` |
| level-3 entry lock | `driver/level3/level3_thread_lock.c` | two locks, `parallel_section_left`, the lazy-initialisation flag | `blas_level3_thread_enter`, `blas_level3_thread_leave` |
| memory pool | `driver/others/memory.c` | `memory[]`, the auxiliary `newmemory[]`, the register of regions, `alloc_lock` | `blas_memory_alloc`, `blas_release_register`, `blas_memory_free`, `blas_shutdown` |
| OpenMP server | `driver/others/blas_server_omp.c`, `num_cpu_avail` of `common_thread.h` | `blas_thread_buffer[][]`, sets of thread buffers, `blas_buffer_inuse[]`, the counts, `blas_is_num_threads_set_explicitly` | `exec_blas`, `exec_threads`, `adjust_thread_buffers`, `goto_set_num_threads`, `openblas_set_num_threads`, `blas_thread_init`, `blas_thread_shutdown` |
| Windows server | `driver/others/blas_server_win32.c` | one work list, the events `pool.filled` and `pool.killed`, an event per job, `blas_server_avail`, the counts, `server_lock` | `exec_blas`, `exec_blas_async`, `exec_blas_async_wait`, `blas_thread_server`, `blas_thread_init`, `goto_set_num_threads`, `blas_thread_shutdown` |
| callback backend | `blas_server_callback.c` | a function pointer | `exec_blas` |
| other level-3 drivers | `driver/level3/*.c` | as threaded GEMM, or none | SYRK, GEMM3M, batches, the splitters `gemm_thread_*.c` |
| level-1, level-2, LAPACK drivers | `driver/level2`, `lapack` | partial results | independent jobs through `exec_blas`; recursive factorisations |
| interface, kernels, processor selection, bundled LAPACK | `interface`, `kernel`, `dynamic.c`, `lapack-netlib`, `relapack` | none that is shared | argument checks, arithmetic, detection |

How they interact. An interface routine picks a number of threads no larger
than `blas_cpu_number` and calls `gemm_driver`, which enters the level-3 lock,
begins a generation in the calling thread's cancellation slot, and for every
block of columns clears the flags and hands `inner_thread` to `exec_blas`, one
job per thread. `exec_blas` posts all but one of the jobs to slots of the pool,
runs the first one itself and waits until each slot has been seen empty. The
jobs are a gang: they wait for each other's panels through the flags, so none
of them ends unless all of them run. Any thread that knows a token may request
cancellation; the workers and the driver poll the slot of the calling thread.
`openblas_set_num_threads` changes the pool while others use it, and `fork`
takes it down and lets the next call start it again.

A build has one of three servers behind the same `exec_blas`. The pthread pool has a
slot per server thread; the Windows pool one list for all of them; the OpenMP
server opens a parallel region per call and keeps only the buffers of the threads.
Only the OpenMP build lets several level-3 calls in at a time, through the entry
lock, which is what keeps the sets of buffers from running out.

What is hard, and where: the list `hazards` of `PROJECT.json` names it line by
line, with the properties that look after it. In short: a request that arrives
late (slots are reused); flags read and cleared by many threads with skipped
work in between; a job whose queue entry lies on the stack of a caller that
goes on; a server that falls asleep while a job is posted; checks made before a
lock is taken; gangs of jobs competing for the same slots; and every shared
count changed by another thread in the middle of a loop.

Per part, what makes it correct:

- cancellation: a request reaches the operation it was made for, and no other;
  once cancelled an operation stays so.
- pool: every job of a call runs exactly once and the call returns only then;
  no wakeup is lost; one server per slot; no buffer is taken from a running job.
- threaded GEMM: a kernel reads the right panel, completely packed; no panel is
  overwritten, and no buffer given up, under a reader; flags are clear at the
  end of a round; incomplete work is not taken for a result; cancelled or not,
  everybody comes to an end.
- Windows server: as the pool, where no wakeup is lost means that a job in the list
  is never left to a set of servers that all sleep.
- OpenMP server: no two jobs share a buffer, a level-3 call finds a set of its own.
- entry lock: a counting semaphore.
- memory pool: no buffer is handed out twice, none is lost or unmapped while it
  is held, all of them can be given back; callers are served while there is room.

## 2. Modules

| module | what it is |
|---|---|
| `CancelSlot` | the arithmetic of a slot: set the bit, next generation, with the width of `size_t` as a constant |
| `Cancel` | threads issuing operations, cancellers holding values they loaded; both look-ups of a slot and both compare-exchanges of the source |
| `ForkJoin` | abstract: every job of a call runs exactly once before the call returns |
| `BlasServer` | the pthread pool, implements `ForkJoin` |
| `Win32Server` | the Windows and Cygwin pool, implements `ForkJoin` |
| `OmpServer` | the OpenMP server with `num_cpu_avail`, behind a `Semaphore`; implements `ForkJoin` |
| `GemmThread` | `gemm_driver` and `inner_thread` with cancellation |
| `Semaphore` | abstract: at most so many inside |
| `Level3Lock` | the OpenMP entry lock, implements `Semaphore` |
| `BufferPool` | abstract: a buffer has one holder and is mapped while it is held |
| `MemoryPool` | the default pool of `memory.c`, implements `BufferPool` |
| `BlasServerProofs`, `CancelProofs`, `GemmThreadProofs`, `GemmPanelProofs`, `Level3LockProofs`, `MemoryPoolProofs`, `OmpServerProofs`, `Win32ServerProofs` | theorems and proofs |
| `MC*` and `*.cfg` | instances for TLC |

`GemmThread` uses what the other two establish: its action `Join` is
`ForkJoin!Return` (all jobs of a round are done), its fairness is that of
`BlasServer` with `Gang = TRUE` (all jobs of a round do run), and its variable
`superseded` never goes back to `FALSE`, which is `CancelSticky`. They are
checked separately; their product would be out of reach.

The definitions whose comment says "a slip" are faulty variants of the
definition that follows. No action uses them; they show that a property can
fail: replacing the definition by its slip makes TLC find the violation.

### Cancel

A thread's operation is `BeginLoad`/`BeginStore` (`openblas_cancel_begin`: the
load and the store are two steps, since a canceller may hit the slot in
between), `Self`, any number of `Poll`s by the thread or its workers, `End`. A
build without thread-local storage (`TLS = FALSE`) allocates the slot on first
use, which may fail each time it is tried (`BeginNull`, and `Self` may still
succeed then). A canceller loads a slot (`Load`), and later calls
`openblas_cancel` with what it saw: `Cancel` where the build has an atomic
compare-exchange, `CancelCheck` and `CancelStore` where it has not. `asked` and
`target` are history variables: which generation was meant. Which of the two a
build has is the rigid variable `atomicCAS`, chosen from the constant `Builds`, so that
one run shows what holds of both and what (`NoStrayCancelAtomic`) of one.

The counter wraps. A value loaded 2^(w-1) generations ago is equal to a current
one and no code can tell them apart; `MaxAge` bounds how old a value may be,
and the module assumes only `2 * MaxAge < 2^w`. `MaxOps` ends the state space.

### BlasServer

Each action is what happens between two points where another thread can
interfere: the unlocked look at `blas_server_avail`, a critical section of
`server_lock` (one step where nothing inside can block or be seen half done;
several in `blas_thread_shutdown`, which waits inside), each look at a queue
pointer, each store into it, the taking of a slot's lock and the wait on its
condition variable. `See` and `Fetch` are the two loads of the polling loop's
pointer. `Sleep` and `Reacquire` are `pthread_cond_wait`, with spurious wakeups.
The queue pointer is `Null`, `Busy` (1), `Exit` (-1) or a job; a job is named by
its caller and index, as its queue entry lies on that caller's stack. `job`
is the history that `ForkJoin` is about.

Who does what is a matter of constants: `Users` call routines, `Setters` set the number of
threads, `Forkers` fork, and one caller may do all of it. A call is sized by
`num_cpu_avail` (`common_thread.h:151`), as those of the interface are.

A server is named by its slot and a name among twins, so that the model could
have two servers for one slot; `PoolShape` says it never does.

Not in this module: `gotoblas_pthread`, which hands `exec_blas` as many jobs as its
caller says after an initialisation of its own, a failing `pthread_create` (its return value is ignored when
the pool is extended), affinity, the redirection of `exec_blas` to a callback,
and a fork while another thread is inside the library.
`cpp_thread_test/dgemm_thread_safety_shutdown.cpp:1-8` says that a shutdown racing
with calls cannot be made safe; `Fork` therefore requires that nobody is inside.

### GemmThread

`pc[t]` follows `inner_thread`: `step` (next step of k), `free`/`packing`/
`publish` (the loop over the own panels), `visit`/`reading`/`clear` (the two
loops over the regions of the group), `drain`. `blk[t]` is the block of m: the
first one waits for the panels of others, the later ones use what the first one
waited for, and the last one clears the flags. The poll between two pieces of a
panel may leave it incomplete: `EndPack` chooses. `panel` records which step of
k a panel's content belongs to (0 while it is being written), `done` the kernels
applied; neither steers the program.

The model abstracts from the arithmetic that divides m and n: `MBlocks` and
`Columns` say how many blocks of rows and panels of columns each thread gets,
and all the combinations the assumptions allow are covered by the proofs. An
empty part of m is one block (`min_i = 0`), an empty part of n no panel. The
flags a waiting loop looks at one after the other are looked at together, since
each of them changes in one direction only while it is waited for. The garbage
in `job[]`, an uninitialised array on the stack, is a choice in `Init`. Memory is
sequentially consistent; whether the WMB and MB of the code make it so on a given
processor is outside of the model.

### Win32Server

The servers share `pool.queue` (`list`) and one auto-reset event. `exec_blas_async`
hooks its whole chain of jobs to the end of the list and sets the event (`Post`); a
server takes the head under `pool.lock` (`Take`), then looks at the list without the lock
(`Look`) and passes the signal on if more is waiting (`Pass`). The event of a job is the
last thing its server touches (`Status`, `Signal`); the caller waits for the events one by
one (`Wait`). The pool is started by the first call (`Async`), in Cygwin builds also by
`exec_blas` and `goto_set_num_threads` (`ExecInit`, `SetInit`), enlarged by `SetGrow`, and
taken down by `StopLock`, `StopJoin`, `StopEnd`. As in `BlasServer`, `Gang` says whether the
jobs of a call wait for one another, and the pool is stopped between calls only.

Five things the code does lie outside of the instances and of the hypotheses of the
proofs, and no document speaks of them. With `blas_cpu_number = 1` between sizing
and posting, `exec_blas_async` posts to a pool nobody has started (lines 360, 405). Two
threads that set the number of threads may both create the same servers (the test of
line 558 precedes the lock), as in `server_setters`. After lowering the number,
a shutdown and a restart, raising it again creates no servers for the part between
(lines 378 and 574), which breaks `PoolCoversCount`. `goto_set_num_threads` outside of
Cygwin starts a pool that is down with those servers only that lie beyond the former
number. And a server terminated after 50 ms takes its buffer with it.

### OmpServer

A call is `Begin` (the routine's own buffer, and `num_cpu_avail`, which may change the
number of threads), `Size` or `Serial`, for level-3 routines `EnterLock`, then `ExecBlas`
with the lazy start, `Claim`, the jobs, `Release` and `Return`. `adjust_thread_buffers` is
walked through cell by cell (`Grow`, `Put`, `Trim`, `Null`, `NextSet`, `Adjusted`), since it takes
no lock and reads `blas_cpu_number` again in every turn. `Start` picks the buffer as
`exec_threads` does: the caller's own for the first job of a level-3 call, else that
of the executing thread in the claimed set, else one allocated on the spot.
`Runner` is `schedule(static)`: a team smaller than the number of jobs runs several
of them, one after the other. The lock is the abstract `Semaphore`, which `Level3Lock`
is shown to implement; of the memory pool it needs that a region is given out once
until it is freed, which `MemoryPool` is shown to implement.

`Careful` restricts changes of the number of threads to times when no other call is
under way. Without it `NoSharedBuffer` fails: `adjust_thread_buffers` frees the buffers
beyond the new count in every set, also those jobs are running in
(`blas_server_omp.c:91-94`), and `num_cpu_avail` calls it whenever two threads have different
values of `omp_get_max_threads()`. `Makefile.rule:99-102` warns of data corruption only
for more callers than `NUM_PARALLEL`.

A second known exception: `openblas_set_num_threads` does not set the number of
OpenMP threads, and the region is not sized by the number of jobs
(`blas_server_omp.c:457`). A setting above `omp_get_max_threads()` makes a thread run two
jobs of a level-3 call that wait for each other: with `MaxThreads = 3`, a team of 2 and
a setting of 3 `CallsReturn` fails. In the instance, a team of the level-3 callers has
`MaxThreads` threads.

### Level3Lock

The lazy initialisation (a spin lock around a second look at the flag), then
one action per lock operation and critical step. `level3_lock` is taken by the
thread that enters and, after the last section has been taken, released by
another one.

### MemoryPool

The pool of a pthread build without `USE_TLS`. A section under `alloc_lock` is
one step, and an allocation has up to four of them: mark a slot (`Claim`, or
`Full` and then `Extend` or `Refuse`), register the region (`Register`), publish
its address (`Publish`); reads without the lock (`Look`, `Return`) are steps of
their own. Positions run through `memory[]` and on through `newmemory[]`, as
`position` does. A slot of `memory[]` keeps its region when it is freed; one of
`newmemory[]` is mapped anew at every use, which is what the code does.
`Regions` is what the system can give; `Map` takes any region that is not
mapped, so one that was unmapped by `Shutdown` may come back, and fails when
there is none. `Shutdown` happens only between calls (the test quoted under
"hazards" rules out the rest). After a write behind the release tables
(`ended = "wild"`) the behaviour of the program is undefined and the model
stops; `Retry` is a caller that was refused and, like `adjust_thread_buffers`,
asks again later. The start-up under `memory_initialized` is taken as done: it
runs in a constructor.

## 3. Runs

| run | instance | bounds, and what they let happen |
|---|---|---|
| `cancel` | 2 threads, 2 cancellers, slots allocated on first use, with and without the atomic compare-exchange | a modulus small enough for generations to wrap around within `MaxOps` |
| `cancel_fallback_stray` | the build without atomics | the owner begins an operation between check and store |
| `server` | 2 callers of routines, one of which may fork instead, and a thread that lowers the number from 3 to 2; 2 slots, 1 call each | calls that compete for slots; sleep and wakeup; a caller late at `blas_thread_init` after the number was lowered, while jobs run in both slots; a restarted pool |
| `server_gang` | 2 callers whose jobs wait for one another, 2 calls each; one raises the number from 2 to 3, the other forks | the holding-half-the-pool deadlock, lost wakeups (liveness); growth while others post; restart of a pool that was enlarged |
| `server_setters` | 2 setters | a finding, below |
| `gemm` | 2 threads, 2 panels, 2 steps of k, 1 and 2 blocks of m, 2 rounds, the second with an empty part | reuse of a panel by the next step and the next round; clearing in the first and in a later block; cancellation anywhere |
| `win32` | 2 callers whose jobs wait for one another, 2 to 3 threads, 2 calls each; one caller sets the number of threads, the other stops the pool; started at load or not | both callers at the first call; one signal for several jobs; growth under running jobs; restart |
| `omp` | 3 level-3 and 2 other callers (one thread is both, one has teams of one thread), 2 sets, teams of 2; one of them sets the number of threads and forks | more callers than sets; sets adjusted by several callers at once; serial calls; a thread that runs two jobs |
| `level3_lock` | 3 threads, 2 sections, 2 calls | the last section taken and given back while others are between the locks |
| `pool` | 3 callers, 1 built-in and 2 auxiliary slots, memory for 3 regions | every slot of both tables in use (nobody is left to ask for a fourth), two callers at `error` together, slots of both tables reused, memory running out under either loop, addresses that come back after a shutdown |
| `pool_refused`, `pool_register` | the smallest instances with these traces | findings, below |

Two slots are the smallest pool in which a posting caller wraps around, two
calls per caller (`server_gang`) the fewest in which a caller uses a pool again after its
restart, two steps of k the fewest in which a panel is packed over an old one. With two threads
in a group each panel has one reader besides its owner; what more of them do is
covered by the proofs of `GemmThread`, which hold for every number, and not by a run.

`server*`, `win32`, `omp` and `cancel*` turn deadlock checking off, since all calls may have been
made, and `pool*` because the process may have exited; `gemm` has the stuttering step
`Finished` instead, so that its workers waiting for each other for ever would be
a deadlock.

Violations found, each with a trace by TLC:

- `cancel_fallback_stray`: without GNU atomics `openblas_cancel` compares and
  then stores. The comment at `openblas_cancel.c:135-137` says this "can at worst
  dirty a dead generation". If the owner begins its next operation between the
  two, the store goes to the slot of the new operation, whose polls see a value
  other than its generation: it is cancelled by a stale request, against
  `cblas.h:85-87`. `cancel` shows what remains true.
- `server_setters`: `goto_set_num_threads` compares with `blas_num_threads` before
  it takes `server_lock`. Of two concurrent calls the smaller one may store last
  and leave `blas_num_threads` below `blas_cpu_number`, which `memory.c:2001` rules
  out.
- `pool_refused`: a caller that finds `memory[]` full gives up `alloc_lock` and takes
  it again at the label `error`. If another caller has made the auxiliary table in
  between, `memory_overflowed` sends the first one to `terminate`, and it gets `NULL`
  while slots are free; `Changelog.txt:1271-1273` promises the auxiliary table
  "instead of aborting". `interface/gemm.c:758` uses the result without a test.
- `pool_register`: each use of an auxiliary slot maps and registers another region.
  `release_pos` has no bound, `new_release_info` has `NEW_BUFFERS` entries: after
  `NUM_BUFFERS + NEW_BUFFERS` registrations the register is written behind its end
  (`memory.c:2146`), with no more callers than there are slots, while the same line of
  the change log speaks of "up to 512 additional threads". Until then the earlier
  regions of the slot stay mapped.

Two known exceptions lie outside of the instances. `BufferKept` fails if the number of
threads is lowered by two or more: in the instance of `server` with `Settings = {1}`,
`blas_thread_init` adjusts the thread buffers before it looks at `blas_server_avail`
again (`blas_server.c:569`), so a caller that comes late frees the buffer of a server that
runs a job in a slot beyond the new number. With `Settings = {2}`, as in `server`, the same
happens and is harmless, because the pool has one server less than threads.
`BufferTakenCorrect` proves that there is no other way to lose a buffer. And `AllocEnds`
excepts a caller with an auxiliary slot and no memory (`Starved`): only the loop over a
built-in slot counts failures (`memory.c:2937`), the other one retries for ever.

Several groups of threads (`NN > 1`), which only share A, are in no run; the
theorems about `GemmThread` hold for every number of groups.

The passing runs of the server pool have one thread that sets the number of threads; in
`server` it lowers the number, in `server_gang` it raises it.

## 4. Fairness

- `BlasServer`: threads are scheduled (weak fairness of a caller inside the
  library and of a server that has something to do), and a mutex that is
  released again and again is obtained eventually (strong fairness of `Signal`
  and `ShutPost`, the steps that wait for a slot's lock against a server that
  keeps going to sleep). Nobody has to call, time out or wake up spuriously.
- `GemmThread`: the driver and every worker go on. That the workers of a round
  all run is what `exec_blas` provides: the caller runs one job, each other job
  has a slot of its own with a server. `server_gang` checks this.
- `Level3Lock`: every thread goes on where it can. Calls are bounded, so a thread
  competes for a lock only finitely often.
- `MemoryPool`: a call that has begun goes on. Nobody has to free a buffer or to
  allocate one, so `AllocEnds` cannot rest on a slot coming free.
- `Win32Server`: a caller inside the library and a server that can take a step go on;
  both are threads of the system. That the event is set stays so until somebody
  takes it, so weak fairness is enough.
- `OmpServer`: callers inside the library go on, and so do the jobs: OpenMP runs each
  iteration of the loop to its end. Calls are bounded, so a caller competes for the
  lock and for a set only finitely often.
- `Cancel` has no liveness: nobody has to cancel, poll or end.

## 5. Proofs

Checked by TLAPS for all values of the constants that satisfy the named
assumptions.

`BlasServerProofs`. `TypeCorrect` holds for any number of setters, from an invariant `Inv` that
says where each caller is (`WalkOf`), that who stops the pool is alone (`ShutAlone`) and that
jobs are posted to a pool that is up (`PoolUp`). Everything else assumes `SingleSetter`: at most one
thread calls `goto_set_num_threads`, which compares before it locks (the run `server_setters`
shows what two of them do). The second invariant, `Safe`, has three layers. `Counts`: calls, and
the scan of each caller, fit the pool, which never shrinks. `Pool` and `Exits`: each slot of the pool
has one server, of whichever twin, and the pointer -1 is only in a pool that is being
stopped or is down. `Jobbed`: a job that has been handed out and not been taken back is in the
slot it was assigned to, with a server that runs it while the slot says `Busy`, or
done (`Progress`), and conversely what is in a slot or in the hands of a server was handed out and is at
that stage (`Queued`, `Taken`, `ServerOf`). Where a slot is empty the job that went there is therefore
done, whoever has used the slot since (`WaitDone`), which is all `exec_blas_async_wait` relies on;
`JobAliveCorrect` and `Implementation` follow. `NoLostWakeup` is inductive next to these: a server waits only after it
found its slot empty under the slot's lock, posting a job makes its caller one that is
`Coming`, and `pthread_cond_signal` reaches the one server of the slot, as `Pool` says.

`BufferTakenCorrect` says in which one way a running job can lose its work buffer: somebody who
came late to `blas_thread_init` runs `adjust_thread_buffers` after `blas_cpu_number` was lowered below
the job's slot. A shutdown frees all buffers, but `Taken` and `ShutAlone` exclude that a job
runs then; the start of a pool is excluded by `Pool`. `BufferKeptCorrect` adds the hypothesis `OneApart`: any two
of the numbers of threads in use differ by one at most. The number still changes while jobs run,
and late callers still free buffers; but a slot with a server lies below `blas_num_threads` - 1,
hence below `blas_cpu_number` (`Chosen`). Numbers further apart are the exception of section 3.

`NoDeadlockCorrect` is the safety half of `Completion`: while a call is under way, some
caller or server has a step that takes it on. `Owed` adds to `Safe` who owes what: a lock is held
by somebody about to release it (`Holders`), a slot that is `Busy` has a server that runs
(`BusyServed`), a shutdown has told the servers before it waits for them (`Told`), and a server
that waits over a job will be signalled by the caller that posted it (`OwnWake`). So
nobody is stuck in front of a lock (`StuckLocks`), every job that has been posted has begun, unless
its caller still posts (`StuckJobs`), and jobs that wait for one another could
only wait for a caller that looks for a free slot. That one holds `exec_queue_lock`, so
no other call posts, every other job in a slot has finished or can, and by
counting there is a slot left (`PosterFindsRoom`). Here too `CallerCanGo` and
`ServerCanGo` write the guards out, and TLC agrees with them. A look at a slot counts only if
some slot is free, and neither a timeout nor a spurious wakeup counts: TLC's own deadlock check, for which
a thread that spins moves, says nothing of all this.

`CancelProofs`. The invariant relates a slot to its owner's generation counter:
the value without its bit is twice the number of operations begun modulo 2^w,
and the value a canceller holds is that of the generation it meant. Two values
at most `MaxAge` generations apart are then equal only if the generations are,
so that a compare-exchange that succeeds hits the generation that was meant.
`StickyCorrect` needs no such bound and holds for the fallback too.

`GemmThreadProofs`. None of the three safety properties is inductive. The invariant `Inv`
says which panels a thread *counts on* (`Held`): in its first block of m those it
has waited for and, when more blocks follow, has passed; in the later blocks all
of its group, in the last one those it has not passed yet. Where a thread is in
its walk is a number (`Place`), which differs between the first walk, that ends
with the thread's own region, and the others, that begin with it. `HeldSet`: the
flag of each panel a thread counts on is set. `PackingFree`: a panel being packed
has no flag set. `Closed`: a thread that has not begun, or has returned, has
none. The step that carries the proof is that of the acting thread
(`HeldSetSelf`): what it counts on afterwards it counted on before or has just
waited for. Other threads cannot disturb it, for a flag is cleared by its reader
only and set by its owner only (`FlagFrame`). From `Inv`:
`NoPanelRace` and `NoUseAfterReturn` (a panel that is read is held, thus its flag
is set, thus its owner neither packs it nor has returned) and `NoFlagLeft`.
Cancellation needs no case of its own: nothing in the invariant depends on it,
which is the point of the code's rule that skipped work skips no flag.

`GemmPanelProofs` extends that module with a second invariant, which counts. In each
step of k an owner publishes a panel to a reader once and the reader gives it
back once, so the step of each, less one if its part of this step is still to come, says
how often (`Times`). `FlagCounts`: a flag is set exactly when its panel was published once
more than given back. `PanelSteps`: uncancelled, a panel holds the owner's present
step once packed and its last one until the packing begins. A reader at work has a
flag that is set and has given back one time less than its own step says, so the
owner has published as often as the reader's step says. It is in the same step, or in the next
one with this panel not yet begun, and either way the panel is the right one
(`RightPanelCorrect`). `AllDoneRight`: a thread that has skipped nothing has applied exactly the
kernels behind it in its loops (`Behind`), and those are all of them once it has returned;
`LocalCopy`: a thread skips work only in an operation that is superseded. The
driver, which looks at that too between rounds, therefore goes on only with a
whole round (`WholeUnlessCancelledCorrect`).

The module also proves the safety half of `Termination`. `NoDeadlockCorrect`: while a thread
of the round has not returned, one has a step to take. A thread waits for a flag to be cleared
(before it packs, and before it returns) or to be set (when it visits), and which threads owe
the other side of that flag follows from `FlagCounts`: always one that is less far, by the
pair of its step of k and its phase (`Wait`: packing before visiting before draining). Of the
threads that cannot go, one is the least far (`Least`), and it would wait for one less far
still. Between rounds nobody waits. `StepsAdvanceCorrect`: each step moves one thread up in a
lexicographic order of its loop variables (`Before`) and no other thread at all, and these stay in
bounded loops (`PositionsBoundedCorrect`). `CanGo` writes the guards out because ENABLED is
beyond the provers; on the run's instance TLC agrees that it says when a thread is enabled.

`Level3LockProofs`. The invariant ties `level3_lock`'s holder to `left`: the lock is
kept exactly while a thread is between the two locks or no section is left, and
`left` is `MaxSections` less the threads inside. It gives the type, the bound, that
the lock is never released while it is free, the readiness of the locks, and that
every step is one of `Semaphore` or a stutter (`Implementation`). `NoDeadlockCorrect` is the
safety half of `EntersEventually`: while a thread has not returned, one can go on. It adds that who holds
`level3_lock` while sections are left is on the way in (`Keeper`), so that a thread that waits for
it waits for somebody at the inner lock or, when no section is left, for somebody inside.

`MemoryPoolProofs`. `NoSlotLost` speaks of addresses, because `blas_memory_free` has
nothing else to go by, and is not inductive. The invariant follows positions:
the slots in use are those some call or caller took, each taken once (`Marks`);
no two slots have the same region and each region of a slot is mapped
(`Addresses`); a region that is mapped but not yet published is in no slot and
belongs to one call (`Fresh`); a caller's buffer is the region of its slot
(`Areas`). Then the search by address in `Free` finds exactly the caller's slot.
`RegisteredCorrect` needs `Fresh` too, as two calls must not register one region.
`Implementation` maps `Return` to `Acquire`, `Map` to `Grow`, `Free` to `Release` and
`Shutdown` to `Close`, which needs that everything mapped is registered when no
call is under way. The proof covers every number of slots of both tables and
holds up to the point where the register overflows, after which the model,
like the meaning of the program, stops.

`Win32ServerProofs`. The jobs of one call are at every moment in one of three places:
in the list, in the hands of one server, or done. The invariant says so from all
three sides: what is in the list is there once and has not been begun (`ListJobs`), what a
server has in hand is in no list and in no other hand (`BusyJobs`), and what a caller
concludes from the events, and from how far it has come in waiting for them, is
true of the jobs (`Progress`). `Ranges` keeps `blas_cpu_number` within `blas_num_threads` and
servers within the pool; `PoolUp`: jobs are posted to a pool that runs; `StopAlone`: who
stops the pool is alone. From it: a job in the list or in hand belongs to a
call that has not returned (`JobAliveCorrect`); if the list is not empty the event is set,
or somebody is on the way to set it (`NoLostSignalCorrect`); every step is one of `ForkJoin`
or a stutter (`Implementation`). The hypotheses are `SingleSetter` (at most one thread sets the
number of threads) and `NeverSerial` (never to one); the exceptions under
"Win32Server" are why they are needed. `TypeCorrect` needs neither: what fits the arrays is
said there by an invariant of its own (`Fits`). `PoolCoversCountCorrect` assumes both and
`NeverLowered`: either the library is loaded with its pool and the pool is never stopped, or (Cygwin)
the number is raised, and to one value only. A pool that is stopped and started again has as many
servers as `blas_cpu_number` says, which after a lower number are fewer than `blas_num_threads` has
counted, and a later call finds nothing to extend; the hypothesis keeps clear of exactly that.

`NoDeadlockCorrect` has the same three hypotheses: without `NeverLowered` the restarted pool is smaller than
a call that was sized before, whose jobs then wait for one that no server will take. Its invariant `Lined` says
who holds `server_lock` is joining (`LockHeld`); no call has more jobs than the pool has servers (`Sized`); the list
is grouped by call (`Contiguous`), as `exec_blas_async` hangs a whole chain at its end; only
jobs of the call in front have been taken while another job of it waits (`InTurn`); and every job awaited is in
the list or in the hands of a server (`Somewhere`). If nobody could move with jobs in the list, then
by `NoLostSignal` all servers would be at work, on jobs of the call in front, which with the one
in the list would have more jobs than there are servers, against `Sized`. With an empty list
all jobs of every call have begun, and one of them can end.

`OmpServerProofs`. Three theorems hold without hypotheses, from an invariant `Inv` of four
parts: `TypeOK`; `Walk`, where a caller is and what it has there; `Claims`, the marked sets are
those of the callers in a region, one each; and `Doors`, what the semaphore counts. With it
`SetsSuffice` is a pigeonhole argument: if all sets were those of level-3 calls and one
more waited, the lock would have let in more than `MAX_PARALLEL_NUMBER`. The mapping to
`ForkJoin` needs `Walk` only. `NoSharedBufferCorrect` assumes `Careful`, and needs who owns a
region at every moment: a cell of the table, a caller with its own buffer, a caller on its way to a
cell, or a job that allocated for itself. `Owners` says that these differ and that
each of them has been given out and not yet freed; `Uses` ties the buffer of a job to that of its
thread in the set of its call. Two jobs of one thread share a cell one after the
other, which is where the arithmetic of schedule(static) comes in (`RunnerRange`). Between the
free of a buffer and the emptying of its cell the table has a buffer that is not given
out any more: `Order` (who changes the number is alone, and cells beyond the
count are empty once everybody is back) shows that nobody allocates or starts a job then.

`NoDeadlockCorrect` assumes `Enough` (memory never runs out: the model's caller waits for a region that is
free) and `WholeTeams`, which keeps clear of the second exception under "OmpServer": either
`OMP_ADAPTIVE` sizes the region by the jobs, or no number of threads in use exceeds the team of a level-3
caller. With a number above `omp_get_max_threads()` TLC finds two jobs of one thread of which the
first waits for the second. Under it (`Bounded`, by induction over all steps that change a number) each job of a
level-3 region has a thread of its own, and every region comes to its end (`RegionGoes`: of the
jobs not begun, look at the first). Who waits for a set then waits for a region, and who waits at the
door for somebody behind it (`SomebodyGoes`, by `Claims` and `Doors`).

Deadlock freedom is thus proved for every part that waits. `CanGo` writes guards
out in each of them, as ENABLED is beyond the provers; on the runs' instances TLC agrees that it
says when a thread is enabled.

Only model-checked: all liveness (`Completion`, `Termination`, `EntersEventually`, `AllocEnds`,
`CallsReturn`), which TLAPS does not handle here.

## 6. Not modelled, and the plan

What is left out, with the reason, is in `components` of `PROJECT.json`.

Done: cancellation, the three servers, threaded GEMM, the entry lock and the memory
pool, with their abstract specifications, and the proofs above. What could follow:

1. `Partition`: the splits of m and n in `gemm_driver` and the division of a part
   into panels, as functions checked against what `GemmThread` assumes of
   `MBlocks` and `Columns` (parts cover the range, at most `DivideRate` panels).
2. The pool with a failing `pthread_create`, and the callback redirection.
3. The SYRK driver as a second protocol over the flags of `GemmThread`.
4. The claim of a slot in OpenMP builds, where each slot has a lock instead of
   `alloc_lock`, and the builds without `SEEK_ADDRESS`, as variants of `MemoryPool`.

The numerical code (the kernels, the serial drivers, the interface, `lapack-netlib`,
`relapack`) is by far the largest part of the repository. It keeps no shared state and
runs in one thread; its correctness is a matter of rounding and of index
arithmetic over unbounded matrices, for which TLC and TLAPS are the wrong tools.
Scripts, tests and benchmarks are not modelled either.
