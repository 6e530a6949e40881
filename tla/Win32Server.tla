---------------------------- MODULE Win32Server ----------------------------
(***************************************************************************)
(* driver/others/blas_server_win32.c, the Windows and Cygwin backend: all  *)
(* jobs go through one work list, and one auto-reset event wakes one       *)
(* server at a time, which passes the signal on.                           *)
(*                                                                         *)
(* MaxThreads  MAX_CPU_NUMBER; servers are 0 .. MaxThreads - 2             *)
(* Initial     blas_num_threads as blas_get_cpu_number finds it            *)
(* Loaded      whether gotoblas_init, run when the library is loaded, has  *)
(*             started the pool; in a static library it may not have run   *)
(* Cygwin      OS_CYGWIN_NT: exec_blas and goto_set_num_threads start the  *)
(*             pool again first                                            *)
(* Setters, Settings  who calls goto_set_num_threads, and for how many     *)
(* Stoppers    callers that call blas_thread_shutdown (Cygwin's fork does) *)
(* Gang        the jobs of a call wait for one another                     *)
(* MaxCalls    bound: library calls made by one caller                     *)
(*                                                                         *)
(* A section under pool.lock is one step.  The interface to Win32 is       *)
(* SetEvent, WaitFor...Object(s) and TerminateThread.                      *)
(***************************************************************************)
EXTENDS Integers, FiniteSets, Sequences

CONSTANTS Callers, MaxThreads, Initial, Loaded, Cygwin, Setters, Settings, Stoppers,
          Gang, MaxCalls, Nobody

ASSUME Win32Assumption ==
    /\ MaxThreads \in Nat /\ MaxThreads >= 2
    /\ Initial \in 1 .. MaxThreads
    /\ Loaded \subseteq BOOLEAN /\ Cygwin \in BOOLEAN /\ Gang \in BOOLEAN
    /\ Setters \subseteq Callers /\ Stoppers \subseteq Callers
    /\ Settings \subseteq Nat
    /\ MaxCalls \in Nat
    /\ Nobody \notin Callers

Servers == 0 .. (MaxThreads - 2)
Indices == 0 .. (MaxThreads - 1)
Jobs == Callers \X Indices

VARIABLES
    avail,       \* blas_server_avail
    numThreads,  \* blas_num_threads
    cpuNumber,   \* blas_cpu_number
    serverLock,  \* holder of server_lock
    list,        \* pool.queue and what hangs from it
    filled,      \* the event pool.filled is set
    killed,      \* the event pool.killed is set
    spc,         \* server -> where blas_thread_server is
    sjob,        \* server -> the job it took last
    pc,          \* caller -> where it is in the library
    num,         \* caller -> number of jobs of the call, or threads asked for
    k,           \* caller -> the job it waits for, or the server
    finish,      \* caller -> job index -> its event is set
    job,         \* caller -> job index -> what has become of it (history)
    calls        \* caller -> library calls made

poolVars == <<avail, numThreads, cpuNumber, serverLock>>
listVars == <<list, filled, killed>>
serverVars == <<spc, sjob>>
callerVars == <<pc, num, k, calls>>
jobVars == <<finish, job>>
vars == <<poolVars, listVars, serverVars, callerVars, jobVars>>

\* A server has a job in its hands.
Busy == {"look", "pass", "run", "running", "status", "signal"}
ExecStates == {"async", "exec_init", "post", "fill", "own", "owning", "wait"}
SetStates == {"set", "set_init", "set_read", "set_grow", "set_store"}
StopStates == {"stop", "joining"}

TypeOK ==
    /\ avail \in BOOLEAN
    /\ numThreads \in 1 .. MaxThreads
    /\ cpuNumber \in 1 .. MaxThreads
    /\ serverLock \in Callers \cup {Nobody}
    /\ list \in Seq(Jobs)
    /\ filled \in BOOLEAN /\ killed \in BOOLEAN
    /\ spc \in [Servers -> {"none", "wait", "take", "dead"} \cup Busy]
    /\ sjob \in [Servers -> Jobs \cup {Nobody}]
    /\ pc \in [Callers -> {"idle"} \cup ExecStates \cup SetStates \cup StopStates]
    /\ num \in [Callers -> Nat]
    /\ k \in [Callers -> 0 .. MaxThreads]
    /\ finish \in [Callers -> [Indices -> BOOLEAN]]
    /\ job \in [Callers -> [Indices -> {"none", "todo", "running", "done"}]]
    /\ calls \in [Callers -> 0 .. MaxCalls]

NoJobs == [i \in Indices |-> "none"]
NoEvents == [i \in Indices |-> FALSE]

Init ==
    /\ avail \in Loaded /\ (avail => Initial > 1)
    /\ numThreads = Initial
    /\ cpuNumber = Initial
    /\ serverLock = Nobody
    /\ list = <<>>
    /\ filled = FALSE /\ killed = FALSE
    /\ spc = [s \in Servers |-> IF avail /\ s <= Initial - 2 THEN "wait" ELSE "none"]
    /\ sjob = [s \in Servers |-> Nobody]
    /\ pc = [c \in Callers |-> "idle"]
    /\ num = [c \in Callers |-> 0]
    /\ k = [c \in Callers |-> 0]
    /\ finish = [c \in Callers |-> NoEvents]
    /\ job = [c \in Callers |-> NoJobs]
    /\ calls = [c \in Callers |-> 0]

Go(c, label) == pc' = [pc EXCEPT ![c] = label]

\* A call returns: its locals, and with them its queue entries, are gone.
Leave(c) ==
    /\ Go(c, "idle")
    /\ num' = [num EXCEPT ![c] = 0]
    /\ k' = [k EXCEPT ![c] = 0]
    /\ finish' = [finish EXCEPT ![c] = NoEvents]
    /\ job' = [job EXCEPT ![c] = NoJobs]
    /\ UNCHANGED calls

Inside(c) == pc[c] \in ExecStates
Quiet == \A c \in Callers : pc[c] = "idle"
Stopping == \E c \in Callers : pc[c] \in StopStates

Together(c) == \A i \in Indices : job[c][i] # "todo"
CanFinish(c) == Gang => Together(c)

-----------------------------------------------------------------------------
(* blas_thread_init, and what goto_set_num_threads repeats of it.          *)

\* CreateThread for each server of a set.
Create(servers) == spc' = [s \in Servers |-> IF s \in servers THEN "wait" ELSE spc[s]]

NewPool == avail' = TRUE /\ list' = <<>> /\ filled' = FALSE /\ killed' = FALSE

\* The test before server_lock; blas_thread_init makes it once more inside.
NeedsInit == ~avail /\ cpuNumber > 1

\* Under server_lock.
BlasThreadInit ==
    /\ serverLock = Nobody
    /\ IF avail
       THEN UNCHANGED <<avail, listVars, spc>>
       ELSE NewPool /\ Create(0 .. (cpuNumber - 2))
    /\ UNCHANGED <<numThreads, cpuNumber, serverLock, sjob>>

-----------------------------------------------------------------------------
(* exec_blas, exec_blas_async and exec_blas_async_wait.                    *)

\* The interface sizes the call by blas_cpu_number (num_cpu_avail).
Call(c) ==
    /\ pc[c] = "idle" /\ calls[c] < MaxCalls /\ ~Stopping
    /\ \E n \in 2 .. cpuNumber :
          /\ num' = [num EXCEPT ![c] = n]
          /\ job' = [job EXCEPT ![c] = [i \in Indices |-> IF i < n THEN "todo" ELSE "none"]]
    /\ calls' = [calls EXCEPT ![c] = @ + 1]
    /\ Go(c, "async")
    /\ UNCHANGED <<poolVars, listVars, serverVars, k, finish>>

\* The unlocked look at blas_server_avail.
Async(c) ==
    /\ pc[c] = "async"
    /\ Go(c, IF NeedsInit THEN "exec_init" ELSE "post")
    /\ UNCHANGED <<poolVars, listVars, serverVars, num, k, calls, jobVars>>

ExecInit(c) ==
    /\ pc[c] = "exec_init"
    /\ BlasThreadInit
    /\ Go(c, "post")
    /\ UNCHANGED <<num, k, calls, jobVars>>

\* The jobs a call hands over, in the order of their next pointers.
Chain(c) == [i \in 1 .. (num[c] - 1) |-> <<c, i>>]

\* A slip: the new jobs are put in front of those that wait.
Post_InFront(c) ==
    /\ pc[c] = "post"
    /\ list' = Chain(c) \o list
    /\ Go(c, "fill")
    /\ UNCHANGED <<poolVars, filled, killed, serverVars, num, k, calls, jobVars>>

\* Under pool.lock: the chain is hung from the last job of the list.
Post(c) ==
    /\ pc[c] = "post"
    /\ list' = list \o Chain(c)
    /\ Go(c, "fill")
    /\ UNCHANGED <<poolVars, filled, killed, serverVars, num, k, calls, jobVars>>

\* SetEvent(pool.filled), after pool.lock has been left.
Fill(c) ==
    /\ pc[c] = "fill"
    /\ filled' = TRUE
    /\ Go(c, "own")
    /\ UNCHANGED <<poolVars, list, killed, serverVars, num, k, calls, jobVars>>

\* The caller runs the first job itself.
StartOwn(c) ==
    /\ pc[c] = "own"
    /\ job' = [job EXCEPT ![c][0] = "running"]
    /\ Go(c, "owning")
    /\ UNCHANGED <<poolVars, listVars, serverVars, num, k, calls, finish>>

FinishOwn(c) ==
    /\ pc[c] = "owning"
    /\ CanFinish(c)
    /\ job' = [job EXCEPT ![c][0] = "done"]
    /\ k' = [k EXCEPT ![c] = 1]
    /\ Go(c, "wait")
    /\ UNCHANGED <<poolVars, listVars, serverVars, num, calls, finish>>

\* A slip: only the event of the last job is waited for.
Wait_ForLast(c) ==
    /\ pc[c] = "wait"
    /\ finish[c][num[c] - 1]
    /\ Leave(c)
    /\ UNCHANGED <<poolVars, listVars, serverVars>>

\* The event of the job is waited for and closed, its lock deleted: from here
\* on the queue entry is the caller's alone.
Wait(c) ==
    /\ pc[c] = "wait"
    /\ finish[c][k[c]]
    /\ IF k[c] < num[c] - 1
       THEN k' = [k EXCEPT ![c] = @ + 1] /\ UNCHANGED <<pc, num, calls, jobVars>>
       ELSE Leave(c)
    /\ UNCHANGED <<poolVars, listVars, serverVars>>

ExecBlas(c) ==
    \/ Async(c) \/ ExecInit(c) \/ Post(c) \/ Fill(c)
    \/ StartOwn(c) \/ FinishOwn(c) \/ Wait(c)

-----------------------------------------------------------------------------
(* blas_thread_server.                                                     *)

Be(s, label) == spc' = [spc EXCEPT ![s] = label]

\* WaitForMultipleObjects: of two events the one with the lower index counts,
\* and pool.filled resets itself.
Awake(s) ==
    /\ spc[s] = "wait" /\ filled
    /\ filled' = FALSE
    /\ Be(s, "take")
    /\ UNCHANGED <<poolVars, list, killed, sjob, callerVars, jobVars>>

Die(s) ==
    /\ spc[s] = "wait" /\ killed /\ ~filled
    /\ Be(s, "dead")
    /\ UNCHANGED <<poolVars, listVars, sjob, callerVars, jobVars>>

\* Under pool.lock: the first job, if there is one.
Take(s) ==
    /\ spc[s] = "take"
    /\ IF list = <<>>
       THEN Be(s, "wait") /\ UNCHANGED <<list, sjob>>
       ELSE /\ sjob' = [sjob EXCEPT ![s] = Head(list)]
            /\ list' = Tail(list)
            /\ Be(s, "look")
    /\ UNCHANGED <<poolVars, filled, killed, callerVars, jobVars>>

\* A slip: a server that got a job does not look for more.
Look_Not(s) ==
    /\ spc[s] = "look"
    /\ Be(s, "run")
    /\ UNCHANGED <<poolVars, listVars, sjob, callerVars, jobVars>>

\* pool.queue is read once more, without the lock.
Look(s) ==
    /\ spc[s] = "look"
    /\ Be(s, IF list = <<>> THEN "run" ELSE "pass")
    /\ UNCHANGED <<poolVars, listVars, sjob, callerVars, jobVars>>

Pass(s) ==
    /\ spc[s] = "pass"
    /\ filled' = TRUE
    /\ Be(s, "run")
    /\ UNCHANGED <<poolVars, list, killed, sjob, callerVars, jobVars>>

Become(s, state) == job' = [job EXCEPT ![sjob[s][1]][sjob[s][2]] = state]

Start(s) ==
    /\ spc[s] = "run"
    /\ Become(s, "running")
    /\ Be(s, "running")
    /\ UNCHANGED <<poolVars, listVars, sjob, callerVars, finish>>

Finish(s) ==
    /\ spc[s] = "running"
    /\ CanFinish(sjob[s][1])
    /\ Become(s, "done")
    /\ Be(s, "status")
    /\ UNCHANGED <<poolVars, listVars, sjob, callerVars, finish>>

\* A slip: the event is set before the status is stored under queue->lock.
Status_Late(s) ==
    /\ spc[s] = "status"
    /\ finish' = [finish EXCEPT ![sjob[s][1]][sjob[s][2]] = TRUE]
    /\ Be(s, "signal")
    /\ UNCHANGED <<poolVars, listVars, sjob, callerVars, job>>

\* The status of the job is stored, under the job's own lock.
Status(s) ==
    /\ spc[s] = "status"
    /\ Be(s, "signal")
    /\ UNCHANGED <<poolVars, listVars, sjob, callerVars, jobVars>>

\* SetEvent(queue->finish): the last thing the server does with the job.
Signal(s) ==
    /\ spc[s] = "signal"
    /\ finish' = [finish EXCEPT ![sjob[s][1]][sjob[s][2]] = TRUE]
    /\ sjob' = [sjob EXCEPT ![s] = Nobody]
    /\ Be(s, "wait")
    /\ UNCHANGED <<poolVars, listVars, callerVars, job>>

Server(s) ==
    \/ Awake(s) \/ Die(s) \/ Take(s) \/ Look(s) \/ Pass(s)
    \/ Start(s) \/ Finish(s) \/ Status(s) \/ Signal(s)

-----------------------------------------------------------------------------
(* goto_set_num_threads.                                                   *)

SetCall(c) ==
    /\ c \in Setters
    /\ pc[c] = "idle" /\ calls[c] < MaxCalls /\ ~Stopping
    /\ \E n \in Settings : num' = [num EXCEPT ![c] = n]
    /\ calls' = [calls EXCEPT ![c] = @ + 1]
    /\ Go(c, "set")
    /\ UNCHANGED <<poolVars, listVars, serverVars, k, jobVars>>

SetEnter(c) ==
    /\ pc[c] = "set"
    /\ Go(c, IF Cygwin /\ NeedsInit THEN "set_init" ELSE "set_read")
    /\ UNCHANGED <<poolVars, listVars, serverVars, num, k, calls, jobVars>>

SetInit(c) ==
    /\ pc[c] = "set_init"
    /\ BlasThreadInit
    /\ Go(c, "set_read")
    /\ UNCHANGED <<num, k, calls, jobVars>>

\* A slip: a number above MAX_CPU_NUMBER is not cut down.
Wanted_Unbounded(n) == IF n < 1 THEN cpuNumber ELSE n

\* The number asked for, in the range the tables allow.
Wanted(n) ==
    CASE n < 1          -> cpuNumber
      [] n > MaxThreads -> MaxThreads
      [] OTHER          -> n

\* A slip: the pool is never extended, only the count is.
SetRead_NeverGrows(c) ==
    /\ pc[c] = "set_read"
    /\ num' = [num EXCEPT ![c] = Wanted(@)]
    /\ Go(c, "set_store")
    /\ UNCHANGED <<poolVars, listVars, serverVars, k, calls, jobVars>>

\* blas_num_threads is read before server_lock is taken.
SetRead(c) ==
    /\ pc[c] = "set_read"
    /\ num' = [num EXCEPT ![c] = Wanted(@)]
    /\ Go(c, IF Wanted(num[c]) > numThreads THEN "set_grow" ELSE "set_store")
    /\ UNCHANGED <<poolVars, listVars, serverVars, k, calls, jobVars>>

\* Under server_lock: a pool if there is none, then the servers numThreads - 1
\* and up, whether or not those below exist.
SetGrow(c) ==
    /\ pc[c] = "set_grow"
    /\ serverLock = Nobody
    /\ IF avail THEN UNCHANGED <<avail, listVars>> ELSE NewPool
    /\ Create((numThreads - 1) .. (num[c] - 2))
    /\ numThreads' = num[c]
    /\ Go(c, "set_store")
    /\ UNCHANGED <<cpuNumber, serverLock, sjob, num, k, calls, jobVars>>

SetStore(c) ==
    /\ pc[c] = "set_store"
    /\ cpuNumber' = num[c]
    /\ Leave(c)
    /\ UNCHANGED <<avail, numThreads, serverLock, listVars, serverVars>>

SetNumThreads(c) ==
    SetEnter(c) \/ SetInit(c) \/ SetRead(c) \/ SetGrow(c) \/ SetStore(c)

-----------------------------------------------------------------------------
(* blas_thread_shutdown.  That nobody else is inside is up to the caller.  *)

Stop(c) ==
    /\ c \in Stoppers
    /\ calls[c] < MaxCalls /\ Quiet
    /\ calls' = [calls EXCEPT ![c] = @ + 1]
    /\ Go(c, "stop")
    /\ UNCHANGED <<poolVars, listVars, serverVars, num, k, jobVars>>

StopLock(c) ==
    /\ pc[c] = "stop"
    /\ serverLock = Nobody
    /\ IF avail
       THEN /\ serverLock' = c /\ killed' = TRUE
            /\ Go(c, "joining")
            /\ UNCHANGED <<num, k, calls, jobVars>>
       ELSE Leave(c) /\ UNCHANGED <<serverLock, killed>>
    /\ UNCHANGED <<avail, numThreads, cpuNumber, list, filled, serverVars>>

\* Wait 50 ms for server k: it has ended, or TerminateThread ends it wherever
\* it is.  A server that was never created has no valid handle.
StopJoin(c) ==
    /\ pc[c] = "joining"
    /\ k[c] < numThreads - 1
    /\ spc' = [spc EXCEPT ![k[c]] = "none"]
    /\ k' = [k EXCEPT ![c] = @ + 1]
    /\ UNCHANGED <<poolVars, listVars, sjob, pc, num, calls, jobVars>>

\* The events are closed.
StopEnd(c) ==
    /\ pc[c] = "joining"
    /\ k[c] >= numThreads - 1
    /\ avail' = FALSE
    /\ serverLock' = Nobody
    /\ Leave(c)
    /\ UNCHANGED <<numThreads, cpuNumber, listVars, serverVars>>

Shutdown(c) == StopLock(c) \/ StopJoin(c) \/ StopEnd(c)

-----------------------------------------------------------------------------
Caller(c) ==
    \/ Call(c) \/ SetCall(c) \/ Stop(c)
    \/ ExecBlas(c) \/ SetNumThreads(c) \/ Shutdown(c)

Next == (\E c \in Callers : Caller(c)) \/ (\E s \in Servers : Server(s))

\* Threads that can go on do; nobody has to call the library.
Fairness ==
    /\ \A c \in Callers : WF_vars(ExecBlas(c) \/ SetNumThreads(c) \/ Shutdown(c))
    /\ \A s \in Servers : WF_vars(Server(s))

Spec == Init /\ [][Next]_vars
FairSpec == Spec /\ Fairness

-----------------------------------------------------------------------------
(* A job that waits in the list will be found: the event is set, or a      *)
(* server is between the event and its second look at the list, or the     *)
(* caller that posted it has still to set the event.  One auto-reset event *)
(* stands for any number of jobs.                                          *)
NoLostSignal ==
    avail /\ list # <<>> =>
        \/ filled
        \/ \E s \in Servers : spc[s] \in {"take", "look", "pass"}
        \/ \E c \in Callers : pc[c] = "fill"

(* A server touches a job only while its caller is inside exec_blas and    *)
(* has not yet seen the event of the job: the queue entries lie on the     *)
(* caller's stack, and the caller deletes the job's lock.                  *)
Held(c, i) ==
    /\ pc[c] \in {"fill", "own", "owning", "wait"}
    /\ i \in 1 .. (num[c] - 1)
    /\ pc[c] = "wait" => k[c] <= i /\ ~(k[c] = i /\ finish[c][i])

JobAlive ==
    /\ \A s \in Servers : spc[s] \in Busy => Held(sjob[s][1], sjob[s][2])
    /\ \A p \in 1 .. Len(list) : Held(list[p][1], list[p][2])

(* memory.c on blas_num_threads: "The numbers of threads in the thread     *)
(* pool.  This value is equal or large than blas_cpu_number."              *)
Alive == {s \in Servers : spc[s] \notin {"none", "dead"}}

PoolCoversCount ==
    avail /\ ~Stopping => cpuNumber <= numThreads /\ cpuNumber - 1 <= Cardinality(Alive)

(* Every call comes back, also when its jobs wait for one another.         *)
Completion == \A c \in Callers : pc[c] # "idle" ~> pc[c] = "idle"

(* The pool keeps exec_blas's promise.                                     *)
FJ == INSTANCE ForkJoin WITH
        MaxJobs <- MaxThreads,
        inside <- [c \in Callers |-> Inside(c)]

RunsJobsOnce == FJ!Spec
=============================================================================
