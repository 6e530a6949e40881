------------------------------ MODULE OmpServer ------------------------------
(***************************************************************************)
(* driver/others/blas_server_omp.c with num_cpu_avail of common_thread.h,  *)
(* behind the entry lock of the level-3 drivers, of which it needs what    *)
(* Level3Lock implements: a Semaphore.  Every call of exec_blas claims one *)
(* of MAX_PARALLEL_NUMBER sets of thread buffers and opens a parallel      *)
(* region; a call may also find that the number of threads has to change,  *)
(* which allocates and frees buffers of all sets.                          *)
(*                                                                         *)
(* MaxSections  MAX_PARALLEL_NUMBER                                        *)
(* MaxThreads  MAX_CPU_NUMBER                                              *)
(* Level3, Plain  who calls level-3 routines, who calls others, which      *)
(*             enter exec_blas without the lock and own no buffer          *)
(* Team        omp_get_max_threads() of each thread                        *)
(* Loader      the thread that loaded the library                          *)
(* Adaptive    OMP_ADAPTIVE, or a registered threads callback: a region    *)
(*             has as many threads as the call has jobs                    *)
(* Setters, Settings  who calls openblas_set_num_threads, and for how many *)
(* Forkers     who forks: blas_thread_shutdown runs first                  *)
(* Careful     the number of threads changes only while no other call is   *)
(*             under way                                                   *)
(* Regions     memory for blas_memory_alloc; enough of it                  *)
(* MaxCalls    bound: calls with several threads made by one caller        *)
(***************************************************************************)
EXTENDS Integers, FiniteSets

CONSTANTS Threads, MaxSections, MaxThreads, Level3, Plain, Team, Loader, Adaptive, Setters, Settings,
          Forkers, Careful, Regions, MaxCalls

ASSUME OmpAssumption ==
    /\ MaxSections \in Nat \ {0} /\ MaxThreads \in Nat \ {0} /\ MaxCalls \in Nat
    /\ Level3 \subseteq Threads /\ Plain \subseteq Threads
    /\ Setters \subseteq Threads /\ Forkers \subseteq Threads
    /\ Team \in [Threads -> 1 .. MaxThreads] /\ Loader \in Threads
    /\ Settings \subseteq Nat
    /\ Adaptive \in BOOLEAN /\ Careful \in BOOLEAN
    /\ Regions \subseteq Nat \ {0} /\ 1 .. (MaxSections * MaxThreads) \subseteq Regions

Sets == 0 .. (MaxSections - 1)
Slots == 0 .. (MaxThreads - 1)
None == 0   \* no buffer: NULL

VARIABLES
    left,        \* parallel_section_left
    inside,      \* callers between blas_level3_thread_enter and _leave
    avail,       \* blas_server_avail
    cpuNumber,   \* blas_cpu_number
    numThreads,  \* blas_num_threads
    ompMax,      \* blas_omp_number_max
    explicit,    \* blas_is_num_threads_set_explicitly
    buffer,      \* blas_thread_buffer: set -> thread -> region
    inuse,       \* blas_buffer_inuse
    taken,       \* regions blas_memory_alloc has given out
    at,          \* caller -> where it is in the library
    back,        \* caller -> where adjust_thread_buffers returns to
    row, col,    \* caller -> i and j of adjust_thread_buffers
    new,         \* caller -> region it is about to store
    mine,        \* caller -> its own buffer, in a level-3 call
    num,         \* caller -> number of jobs
    calls,       \* caller -> calls made
    set,         \* caller -> buf_index
    job,         \* caller -> job -> what has become of it
    using,       \* caller -> job -> the buffer it works in
    fallback     \* jobs whose buffer exec_threads has allocated itself

lockVars == <<left, inside>>
sizeVars == <<avail, cpuNumber, numThreads, ompMax, explicit>>
adjustVars == <<back, row, col, new>>
jobVars == <<job, using, fallback>>
callVars == <<mine, num, calls, set, jobVars>>
vars == <<lockVars, sizeVars, buffer, inuse, taken, at, adjustVars, callVars>>

Adjusts == {"grow", "put", "trim", "null"}

TypeOK ==
    /\ left \in 0 .. MaxSections /\ inside \subseteq Threads
    /\ avail \in BOOLEAN /\ explicit \in BOOLEAN
    /\ cpuNumber \in 1 .. MaxThreads
    /\ numThreads \in 1 .. MaxThreads
    /\ ompMax \in 1 .. MaxThreads
    /\ buffer \in [Sets -> [Slots -> Regions \cup {None}]]
    /\ inuse \in [Sets -> BOOLEAN]
    /\ taken \in SUBSET Regions
    /\ at \in [Threads -> {"out", "size", "door", "exec", "claim", "mark", "run", "left"}
                            \cup Adjusts]
    /\ back \in [Threads -> {"out", "size", "claim"}]
    /\ row \in [Threads -> Sets]
    /\ col \in [Threads -> 0 .. MaxThreads]
    /\ new \in [Threads -> Regions \cup {None}]
    /\ mine \in [Threads -> Regions \cup {None}]
    /\ num \in [Threads -> 0 .. MaxThreads]
    /\ calls \in [Threads -> 0 .. MaxCalls]
    /\ set \in [Threads -> Sets]
    /\ job \in [Threads -> [Slots -> {"none", "todo", "running", "done"}]]
    /\ using \in [Threads -> [Slots -> Regions \cup {None}]]
    /\ fallback \subseteq Threads \X Slots

Door == INSTANCE Semaphore

NoJobs == [k \in Slots |-> "none"]
NoBuffers == [k \in Slots |-> None]

\* gotoblas_init has called blas_thread_init in this thread.
OwnTeam == Team[Loader]
FirstBuffer(s, k) == IF k < OwnTeam THEN s * OwnTeam + k + 1 ELSE None

Init ==
    /\ Door!Init
    /\ avail = TRUE /\ explicit = FALSE
    /\ cpuNumber = OwnTeam /\ numThreads = OwnTeam /\ ompMax = OwnTeam
    /\ buffer = [s \in Sets |-> [k \in Slots |-> FirstBuffer(s, k)]]
    /\ inuse = [s \in Sets |-> FALSE]
    /\ taken = 1 .. (MaxSections * OwnTeam)
    /\ at = [c \in Threads |-> "out"]
    /\ back = [c \in Threads |-> "out"]
    /\ row = [c \in Threads |-> 0] /\ col = [c \in Threads |-> 0]
    /\ new = [c \in Threads |-> None]
    /\ mine = [c \in Threads |-> None]
    /\ num = [c \in Threads |-> 0]
    /\ calls = [c \in Threads |-> 0]
    /\ set = [c \in Threads |-> 0]
    /\ job = [c \in Threads |-> NoJobs]
    /\ using = [c \in Threads |-> NoBuffers]
    /\ fallback = {}

Goes(c, label) == at' = [at EXCEPT ![c] = label]
Out == \A c \in Threads : at[c] = "out"
OthersOut(c) == \A d \in Threads : d # c => at[d] = "out"

\* Somebody changes the number of threads.
Resizing == \E c \in Threads : at[c] \in Adjusts /\ back[c] # "claim"

\* blas_memory_alloc gives the first region that is free.
FirstFree(r) ==
    /\ r \in Regions \ taken
    /\ \A q \in Regions \ taken : r <= q

-----------------------------------------------------------------------------
(* adjust_thread_buffers: a buffer in each of the first blas_cpu_number    *)
(* cells of every set, none in the others.  It takes no lock, and reads    *)
(* blas_cpu_number again and again.                                        *)

StartAdjust(c, label) ==
    /\ Goes(c, "grow")
    /\ back' = [back EXCEPT ![c] = label]
    /\ row' = [row EXCEPT ![c] = 0]
    /\ col' = [col EXCEPT ![c] = 0]
    /\ UNCHANGED new

NextCell(c) == col' = [col EXCEPT ![c] = @ + 1]
Cell(c) == buffer[row[c]][col[c]]
Store(c, r) == buffer' = [buffer EXCEPT ![row[c]][col[c]] = r]

\* An empty cell within the count gets a buffer.
Grow(c) ==
    /\ at[c] = "grow"
    /\ IF col[c] >= cpuNumber
       THEN Goes(c, "trim") /\ UNCHANGED <<taken, new, col>>
       ELSE IF Cell(c) # None
       THEN NextCell(c) /\ UNCHANGED <<at, taken, new>>
       ELSE /\ \E r \in Regions :
                 /\ FirstFree(r)
                 /\ taken' = taken \cup {r}
                 /\ new' = [new EXCEPT ![c] = r]
            /\ Goes(c, "put")
            /\ UNCHANGED col
    /\ UNCHANGED <<lockVars, sizeVars, buffer, inuse, back, row, callVars>>

Put(c) ==
    /\ at[c] = "put"
    /\ Store(c, new[c])
    /\ new' = [new EXCEPT ![c] = None]
    /\ NextCell(c)
    /\ Goes(c, "grow")
    /\ UNCHANGED <<lockVars, sizeVars, inuse, taken, back, row, callVars>>

\* A full cell beyond the count is freed.
Trim(c) ==
    /\ at[c] = "trim" /\ col[c] < MaxThreads
    /\ IF Cell(c) = None
       THEN NextCell(c) /\ UNCHANGED <<at, taken>>
       ELSE taken' = taken \ {Cell(c)} /\ Goes(c, "null") /\ UNCHANGED col
    /\ UNCHANGED <<lockVars, sizeVars, buffer, inuse, back, row, new, callVars>>

Null(c) ==
    /\ at[c] = "null"
    /\ Store(c, None)
    /\ NextCell(c)
    /\ Goes(c, "trim")
    /\ UNCHANGED <<lockVars, sizeVars, inuse, taken, back, row, new, callVars>>

NextSet(c) ==
    /\ at[c] = "trim" /\ col[c] = MaxThreads /\ row[c] < MaxSections - 1
    /\ row' = [row EXCEPT ![c] = @ + 1]
    /\ col' = [col EXCEPT ![c] = 0]
    /\ Goes(c, "grow")
    /\ UNCHANGED <<lockVars, sizeVars, buffer, inuse, taken, back, new, callVars>>

\* blas_thread_init sets blas_server_avail last.
Adjusted(c) ==
    /\ at[c] = "trim" /\ col[c] = MaxThreads /\ row[c] = MaxSections - 1
    /\ avail' = IF back[c] = "claim" THEN TRUE ELSE avail
    /\ row' = [row EXCEPT ![c] = 0]
    /\ col' = [col EXCEPT ![c] = 0]
    /\ back' = [back EXCEPT ![c] = "out"]
    /\ Goes(c, back[c])
    /\ UNCHANGED <<lockVars, cpuNumber, numThreads, ompMax, explicit, buffer, inuse, taken,
                   new, callVars>>

Adjust(c) ==
    Grow(c) \/ Put(c) \/ Trim(c) \/ Null(c) \/ NextSet(c) \/ Adjusted(c)

\* A slip: a number above MAX_CPU_NUMBER is not cut down.
Wanted_Unbounded(n) == IF n < 1 THEN numThreads ELSE n

\* goto_set_num_threads: the number asked for, in the range of the table.
Wanted(n) ==
    CASE n < 1          -> numThreads
      [] n > MaxThreads -> MaxThreads
      [] OTHER          -> n

GotoSetNumThreads(c, n, label) ==
    /\ Careful => OthersOut(c)
    /\ numThreads' = IF Wanted(n) > numThreads THEN Wanted(n) ELSE numThreads
    /\ cpuNumber' = Wanted(n)
    /\ StartAdjust(c, label)
    /\ UNCHANGED <<avail, ompMax>>

-----------------------------------------------------------------------------
(* A call, up to exec_blas: a level-3 routine allocates its own buffer,    *)
(* num_cpu_avail looks at the number of threads, the lock is entered.      *)

NumThreads(c) == IF Team[c] > ompMax THEN ompMax ELSE Team[c]

\* A caller with one thread would run serially.
Begin(c, own) ==
    /\ at[c] = "out" /\ calls[c] < MaxCalls
    /\ Careful => ~Resizing
    /\ explicit \/ Team[c] # 1
    /\ IF own
       THEN \E r \in Regions :
               FirstFree(r) /\ mine' = [mine EXCEPT ![c] = r] /\ taken' = taken \cup {r}
       ELSE UNCHANGED <<mine, taken>>
    /\ IF explicit \/ NumThreads(c) = cpuNumber
       THEN Goes(c, "size") /\ UNCHANGED <<sizeVars, adjustVars>>
       ELSE GotoSetNumThreads(c, NumThreads(c), "size") /\ UNCHANGED explicit
    /\ UNCHANGED <<lockVars, buffer, inuse, num, calls, set, jobVars>>

\* With one thread the call is serial; else it has up to blas_cpu_number jobs.
Serial(c) ==
    /\ at[c] = "size" /\ cpuNumber = 1
    /\ Goes(c, "out")
    /\ taken' = taken \ {mine[c]}
    /\ mine' = [mine EXCEPT ![c] = None]
    /\ UNCHANGED <<lockVars, sizeVars, buffer, inuse, adjustVars, num, calls, set, jobVars>>

Size(c) ==
    /\ at[c] = "size"
    /\ \E n \in 2 .. cpuNumber : num' = [num EXCEPT ![c] = n]
    /\ calls' = [calls EXCEPT ![c] = @ + 1]
    /\ Goes(c, IF mine[c] # None THEN "door" ELSE "exec")
    /\ UNCHANGED <<lockVars, sizeVars, buffer, inuse, taken, adjustVars, mine, set, jobVars>>

\* A slip: the driver does not take the lock.
EnterLock_Not(c) ==
    /\ at[c] = "door"
    /\ Goes(c, "exec")
    /\ UNCHANGED <<lockVars, sizeVars, buffer, inuse, taken, adjustVars, callVars>>

\* blas_level3_thread_enter
EnterLock(c) ==
    /\ at[c] = "door"
    /\ Door!Enter(c)
    /\ Goes(c, "exec")
    /\ UNCHANGED <<sizeVars, buffer, inuse, taken, adjustVars, callVars>>

-----------------------------------------------------------------------------
(* exec_blas                                                               *)

\* The unlocked look at blas_server_avail.
ExecBlas(c) ==
    /\ at[c] = "exec"
    /\ job' = [job EXCEPT ![c] = [k \in Slots |-> IF k < num[c] THEN "todo" ELSE "none"]]
    /\ IF avail
       THEN Goes(c, "claim") /\ UNCHANGED <<ompMax, adjustVars>>
       ELSE ompMax' = Team[c] /\ StartAdjust(c, "claim")
    /\ UNCHANGED <<lockVars, avail, cpuNumber, numThreads, explicit, buffer, inuse, taken,
                   mine, num, calls, set, using, fallback>>

\* A slip, and the code without C11: the mark is tested and then set.
Claim_TestThenSet(c) ==
    /\ \/ /\ at[c] = "claim"
          /\ \E s \in Sets : ~inuse[s] /\ set' = [set EXCEPT ![c] = s]
          /\ Goes(c, "mark")
          /\ UNCHANGED inuse
       \/ /\ at[c] = "mark"
          /\ inuse' = [inuse EXCEPT ![set[c]] = TRUE]
          /\ Goes(c, "run")
          /\ UNCHANGED set
    /\ UNCHANGED <<lockVars, sizeVars, buffer, taken, adjustVars, mine, num, calls, jobVars>>

\* Round and round until a compare-exchange succeeds.
Claim(c) ==
    /\ at[c] = "claim"
    /\ \E s \in Sets :
          /\ ~inuse[s]
          /\ inuse' = [inuse EXCEPT ![s] = TRUE]
          /\ set' = [set EXCEPT ![c] = s]
    /\ Goes(c, "run")
    /\ UNCHANGED <<lockVars, sizeVars, buffer, taken, adjustVars, mine, num, calls, jobVars>>

\* omp_get_thread_num() for iteration k, schedule(static).
Runner(c, k) ==
    IF Adaptive \/ Team[c] >= num[c] THEN k
    ELSE LET share == num[c] \div Team[c]
             more == num[c] % Team[c]   \* so many threads run one job more
         IN  IF k < more * (share + 1) THEN k \div (share + 1)
             ELSE more + (k - more * (share + 1)) \div share

\* The first job of a level-3 call brings its own buffer, the others find that
\* of their thread in the set of the call.
Place(c, k) ==
    IF k = 0 /\ mine[c] # None THEN mine[c] ELSE buffer[set[c]][Runner(c, k)]

\* exec_threads makes up for an empty cell.  A thread runs its jobs in order.
Start(c, k) ==
    /\ at[c] = "run" /\ job[c][k] = "todo"
    /\ \A l \in Slots : l < k /\ Runner(c, l) = Runner(c, k) => job[c][l] = "done"
    /\ job' = [job EXCEPT ![c][k] = "running"]
    /\ IF Place(c, k) # None
       THEN using' = [using EXCEPT ![c][k] = Place(c, k)] /\ UNCHANGED <<taken, fallback>>
       ELSE \E r \in Regions :
              /\ FirstFree(r)
              /\ using' = [using EXCEPT ![c][k] = r]
              /\ taken' = taken \cup {r}
              /\ fallback' = fallback \cup {<<c, k>>}
    /\ UNCHANGED <<lockVars, sizeVars, buffer, inuse, at, adjustVars, mine, num, calls, set>>

\* The jobs of a level-3 call wait for one another.
Finish(c, k) ==
    /\ job[c][k] = "running"
    /\ mine[c] # None => \A l \in Slots : job[c][l] # "todo"
    /\ job' = [job EXCEPT ![c][k] = "done"]
    /\ using' = [using EXCEPT ![c][k] = None]
    /\ IF <<c, k>> \in fallback
       THEN taken' = taken \ {using[c][k]} /\ fallback' = fallback \ {<<c, k>>}
       ELSE UNCHANGED <<taken, fallback>>
    /\ UNCHANGED <<lockVars, sizeVars, buffer, inuse, at, adjustVars, mine, num, calls, set>>

\* A slip: the region does not wait for its threads at the end.
Release_Early(c) ==
    /\ at[c] = "run"
    /\ \A k \in Slots : job[c][k] # "todo"
    /\ inuse' = [inuse EXCEPT ![set[c]] = FALSE]
    /\ set' = [set EXCEPT ![c] = 0]
    /\ num' = [num EXCEPT ![c] = 0]
    /\ job' = [job EXCEPT ![c] = NoJobs]
    /\ Goes(c, IF mine[c] # None THEN "left" ELSE "out")
    /\ UNCHANGED <<lockVars, sizeVars, buffer, taken, adjustVars, mine, calls, using, fallback>>

\* A slip: the set is not given back.
Release_KeepsSet(c) ==
    /\ at[c] = "run"
    /\ \A k \in Slots : job[c][k] \in {"none", "done"}
    /\ set' = [set EXCEPT ![c] = 0]
    /\ num' = [num EXCEPT ![c] = 0]
    /\ job' = [job EXCEPT ![c] = NoJobs]
    /\ Goes(c, IF mine[c] # None THEN "left" ELSE "out")
    /\ UNCHANGED <<lockVars, sizeVars, buffer, inuse, taken, adjustVars, mine, calls,
                   using, fallback>>

\* The end of the parallel region: the set is given back, exec_blas returns.
Release(c) ==
    /\ at[c] = "run"
    /\ \A k \in Slots : job[c][k] \in {"none", "done"}
    /\ inuse' = [inuse EXCEPT ![set[c]] = FALSE]
    /\ set' = [set EXCEPT ![c] = 0]
    /\ num' = [num EXCEPT ![c] = 0]
    /\ job' = [job EXCEPT ![c] = NoJobs]
    /\ Goes(c, IF mine[c] # None THEN "left" ELSE "out")
    /\ UNCHANGED <<lockVars, sizeVars, buffer, taken, adjustVars, mine, calls, using, fallback>>

\* blas_level3_thread_leave, then the level-3 routine frees its own buffer.
Return(c) ==
    /\ at[c] = "left"
    /\ Door!Leave(c)
    /\ taken' = taken \ {mine[c]}
    /\ mine' = [mine EXCEPT ![c] = None]
    /\ Goes(c, "out")
    /\ UNCHANGED <<sizeVars, buffer, inuse, adjustVars, num, calls, set, jobVars>>

-----------------------------------------------------------------------------
(* openblas_set_num_threads, and blas_thread_shutdown, which pthread_atfork *)
(* runs before a fork.                                                     *)

\* goto_set_num_threads may also be called directly.
Set(c, n) ==
    /\ at[c] = "out" /\ calls[c] < MaxCalls
    /\ calls' = [calls EXCEPT ![c] = @ + 1]
    /\ Careful => ~Resizing
    /\ explicit' \in {explicit, TRUE}
    /\ GotoSetNumThreads(c, n, "out")
    /\ UNCHANGED <<lockVars, buffer, inuse, taken, mine, num, set, jobVars>>

\* That nobody else is inside the library is up to the caller.
Shutdown(c) ==
    /\ Out /\ calls[c] < MaxCalls
    /\ calls' = [calls EXCEPT ![c] = @ + 1]
    /\ avail' = FALSE
    /\ taken' = taken \ {buffer[s][k] : s \in Sets, k \in Slots}
    /\ buffer' = [s \in Sets |-> NoBuffers]
    /\ UNCHANGED <<lockVars, cpuNumber, numThreads, ompMax, explicit, inuse, at, adjustVars,
                   mine, num, set, jobVars>>

-----------------------------------------------------------------------------
Serve(c) ==
    \/ Serial(c) \/ Size(c) \/ EnterLock(c) \/ ExecBlas(c) \/ Adjust(c)
    \/ Claim(c) \/ Release(c) \/ Return(c)

Runs(c, k) == Start(c, k) \/ Finish(c, k)

Next ==
    \/ \E c \in Level3 : Begin(c, TRUE)
    \/ \E c \in Plain : Begin(c, FALSE)
    \/ \E c \in Threads : Serve(c)
    \/ \E c \in Threads, k \in Slots : Runs(c, k)
    \/ \E c \in Setters, n \in Settings : Set(c, n)
    \/ \E c \in Forkers : Shutdown(c)

\* A caller inside the library goes on, and so do the threads of its team.
Fairness ==
    /\ \A c \in Threads : WF_vars(Serve(c))
    /\ \A c \in Threads, k \in Slots : WF_vars(Runs(c, k))

Spec == Init /\ [][Next]_vars
FairSpec == Spec /\ Fairness

-----------------------------------------------------------------------------
(* No two jobs work in the same buffer at a time, whatever sets, fallback  *)
(* buffers and buffers of their callers they work in.                      *)
NoSharedBuffer ==
    \A c, d \in Threads : \A k, l \in Slots :
        using[c][k] # None /\ using[c][k] = using[d][l] => c = d /\ k = l

(* A level-3 call waits for a set of buffers only while another routine    *)
(* has one: the lock lets in as many level-3 calls as there are sets.      *)
SetsSuffice ==
    (\E c \in Threads : at[c] = "claim" /\ mine[c] # None) /\ (\A s \in Sets : inuse[s])
        => \E d \in Threads : at[d] = "run" /\ mine[d] = None

(* Every call returns, and so does every change of the number of threads.  *)
CallsReturn == \A c \in Threads : at[c] # "out" ~> at[c] = "out"

(* exec_blas keeps its promise.                                            *)
InExec(c) == at[c] \in {"claim", "mark", "run"} \/ (at[c] \in Adjusts /\ back[c] = "claim")
FJ == INSTANCE ForkJoin WITH
        Callers <- Threads,
        MaxJobs <- MaxThreads,
        inside <- [c \in Threads |-> InExec(c)]

RunsJobsOnce == FJ!Spec
=============================================================================
