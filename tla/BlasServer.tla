----------------------------- MODULE BlasServer -----------------------------
(***************************************************************************)
(* driver/others/blas_server.c, the pthread backend: callers hand jobs to  *)
(* a pool of server threads through one queue pointer per slot.            *)
(*                                                                         *)
(* MaxThreads  MAX_CPU_NUMBER; slots are 0 .. MaxThreads - 2               *)
(* Initial     blas_num_threads as blas_get_cpu_number finds it            *)
(* Users       callers that call BLAS routines                             *)
(* Setters     callers that call goto_set_num_threads                      *)
(* Settings    the thread counts they ask for                              *)
(* Forkers     callers that fork: pthread_atfork's prepare handler is      *)
(*             blas_thread_shutdown                                        *)
(* Gang        the jobs of a call wait for one another, as the workers of  *)
(*             level3_thread.c do                                          *)
(* Twins       names that keep two servers of one slot apart               *)
(* MaxCalls    bound: library calls made by one caller                     *)
(* Null, Busy, Exit  the values 0, 1 and -1 of a queue pointer             *)
(***************************************************************************)
EXTENDS Integers, FiniteSets

CONSTANTS Callers, MaxThreads, Initial, Users, Setters, Settings, Forkers, Gang,
          Twins, MaxCalls, Nobody, Null, Busy, Exit

ASSUME ServerAssumption ==
    /\ MaxThreads \in Nat /\ MaxThreads >= 2
    /\ Initial \in 1 .. MaxThreads
    /\ Users \subseteq Callers /\ Setters \subseteq Callers /\ Forkers \subseteq Callers
    /\ Settings \subseteq 1 .. MaxThreads
    /\ Gang \in BOOLEAN
    /\ MaxCalls \in Nat
    /\ Twins \subseteq Nat /\ \E t \in Twins : \A u \in Twins : t <= u
    /\ Nobody \notin Callers

Slots == 0 .. (MaxThreads - 2)
Indices == 0 .. (MaxThreads - 1)
Jobs == Callers \X Indices

ASSUME PointerAssumption ==
    /\ Null # Busy /\ Null # Exit /\ Busy # Exit
    /\ Null \notin Jobs /\ Busy \notin Jobs /\ Exit \notin Jobs

\* A server thread is known by the slot it serves and a name among its twins.
Servers == Slots \X Twins
Cpu(s) == s[1]

VARIABLES
    avail,       \* blas_server_avail
    numThreads,  \* blas_num_threads
    cpuNumber,   \* blas_cpu_number
    buffer,      \* slot -> blas_thread_buffer is not NULL
    serverLock,  \* holder of server_lock
    queueLock,   \* holder of exec_queue_lock
    queue,       \* slot -> thread_status[].queue
    status,      \* slot -> thread_status[].status
    slotLock,    \* slot -> holder of thread_status[].lock
    spc,         \* server -> where blas_thread_server is
    sjob,        \* server -> the queue pointer it works on
    pc,          \* caller -> where it is in the library
    num,         \* caller -> number of jobs of the call, or threads asked for
    k,           \* caller -> index of the job or slot it deals with
    scan,        \* caller -> i of exec_blas_async
    assigned,    \* caller -> job index -> queue[].assigned
    job,         \* caller -> job index -> what has become of it (history)
    calls        \* caller -> library calls made

poolVars == <<avail, numThreads, cpuNumber, buffer, serverLock>>
slotVars == <<queueLock, queue, status, slotLock>>
serverVars == <<spc, sjob>>
callerVars == <<pc, num, k, scan, assigned, calls>>
vars == <<poolVars, slotVars, serverVars, callerVars, job>>

ServerStates == {"none", "poll", "got", "run", "running",
                 "sleepy", "drowsy", "waiting", "woken", "dead"}

ExecStates == {"enter", "exec_init", "lock", "post", "wake", "signal",
               "own", "owning", "wait"}
SetStates == {"set", "set_init", "set_read", "set_grow", "set_store"}
ShutStates == {"shut", "shutting", "joining"}

TypeOK ==
    /\ avail \in BOOLEAN
    /\ numThreads \in 1 .. MaxThreads
    /\ cpuNumber \in 1 .. MaxThreads
    /\ buffer \in [Indices -> BOOLEAN]
    /\ serverLock \in Callers \cup {Nobody}
    /\ queueLock \in Callers \cup {Nobody}
    /\ queue \in [Slots -> Jobs \cup {Null, Busy, Exit}]
    /\ status \in [Slots -> {"SLEEP", "WAKEUP"}]
    /\ slotLock \in [Slots -> Servers \cup {Nobody}]
    /\ spc \in [Servers -> ServerStates]
    /\ sjob \in [Servers -> Jobs \cup {Null, Busy}]
    /\ pc \in [Callers -> {"idle"} \cup ExecStates \cup SetStates \cup ShutStates]
    /\ num \in [Callers -> 0 .. MaxThreads]
    /\ k \in [Callers -> 0 .. MaxThreads]
    /\ scan \in [Callers -> Slots]
    /\ assigned \in [Callers -> [Indices -> Slots]]
    /\ job \in [Callers -> [Indices -> {"none", "todo", "running", "done"}]]
    /\ calls \in [Callers -> 0 .. MaxCalls]

NoJobs == [i \in Indices |-> "none"]

Init ==
    /\ avail = FALSE
    /\ numThreads = Initial
    /\ cpuNumber = Initial
    /\ buffer = [i \in Indices |-> FALSE]
    /\ serverLock = Nobody
    /\ queueLock = Nobody
    /\ queue = [i \in Slots |-> Null]
    /\ status = [i \in Slots |-> "WAKEUP"]
    /\ slotLock = [i \in Slots |-> Nobody]
    /\ spc = [s \in Servers |-> "none"]
    /\ sjob = [s \in Servers |-> Null]
    /\ pc = [c \in Callers |-> "idle"]
    /\ num = [c \in Callers |-> 0]
    /\ k = [c \in Callers |-> 0]
    /\ scan = [c \in Callers |-> 0]
    /\ assigned = [c \in Callers |-> [i \in Indices |-> 0]]
    /\ job = [c \in Callers |-> NoJobs]
    /\ calls = [c \in Callers |-> 0]

Go(c, label) == pc' = [pc EXCEPT ![c] = label]

\* A call returns: its locals are gone.
Leave(c) ==
    /\ Go(c, "idle")
    /\ num' = [num EXCEPT ![c] = 0]
    /\ k' = [k EXCEPT ![c] = 0]
    /\ scan' = [scan EXCEPT ![c] = 0]
    /\ assigned' = [assigned EXCEPT ![c] = [i \in Indices |-> 0]]
    /\ UNCHANGED calls

Inside(c) == pc[c] \in ExecStates
Quiet == \A c \in Callers : pc[c] \notin ExecStates \cup SetStates
Shutting == \E c \in Callers : pc[c] \in ShutStates

\* Every job of the call has been started: gang-scheduled jobs can go on.
Together(c) == \A i \in Indices : job[c][i] # "todo"
CanFinish(c) == Gang => Together(c)

IsPointer(q) == q \notin {Null, Busy}

-----------------------------------------------------------------------------
(* blas_thread_init, and what it shares with goto_set_num_threads.         *)

\* The lowest free name for a new server of a slot.
Fresh(s) ==
    /\ spc[s] = "none"
    /\ \A r \in Servers : Cpu(r) = Cpu(s) /\ spc[r] = "none" => s[2] <= r[2]

\* Reset the slots of a set and create a thread for each of them.
Spawn(slots) ==
    /\ queue' = [i \in Slots |-> IF i \in slots THEN Null ELSE queue[i]]
    /\ status' = [i \in Slots |-> IF i \in slots THEN "WAKEUP" ELSE status[i]]
    /\ spc' = [s \in Servers |-> IF Cpu(s) \in slots /\ Fresh(s) THEN "poll" ELSE spc[s]]

\* A slip: one buffer for each server that the count asks for, as the caller of a
\* routine brings its own; the pool may have one server more.
AdjustBuffers_OnePerServer == buffer' = [i \in Indices |-> i < cpuNumber - 1]

\* adjust_thread_buffers
AdjustBuffers == buffer' = [i \in Indices |-> i < cpuNumber]

\* Under server_lock.  A caller that read blas_server_avail = 0 too early
\* comes here as well and only adjusts the buffers.
BlasThreadInit ==
    /\ serverLock = Nobody
    /\ AdjustBuffers
    /\ IF avail
       THEN UNCHANGED <<avail, queue, status, spc>>
       ELSE avail' = TRUE /\ Spawn(0 .. (numThreads - 2))
    /\ UNCHANGED <<numThreads, cpuNumber, serverLock, queueLock, slotLock, sjob>>

-----------------------------------------------------------------------------
(* exec_blas, exec_blas_async and exec_blas_async_wait.                    *)

\* The interface sizes the call by blas_cpu_number (num_cpu_avail).
Call(c) ==
    /\ c \in Users
    /\ pc[c] = "idle" /\ calls[c] < MaxCalls /\ ~Shutting
    /\ \E n \in 2 .. cpuNumber :
          /\ num' = [num EXCEPT ![c] = n]
          /\ job' = [job EXCEPT ![c] = [i \in Indices |-> IF i < n THEN "todo" ELSE "none"]]
    /\ calls' = [calls EXCEPT ![c] = @ + 1]
    /\ Go(c, "enter")
    /\ UNCHANGED <<poolVars, slotVars, serverVars, k, scan, assigned>>

\* The unlocked look at blas_server_avail.
Enter(c) ==
    /\ pc[c] = "enter"
    /\ Go(c, IF avail THEN "lock" ELSE "exec_init")
    /\ UNCHANGED <<poolVars, slotVars, serverVars, num, k, scan, assigned, calls, job>>

ExecInit(c) ==
    /\ pc[c] = "exec_init"
    /\ BlasThreadInit
    /\ Go(c, "lock")
    /\ UNCHANGED <<num, k, scan, assigned, calls, job>>

Lock(c) ==
    /\ pc[c] = "lock"
    /\ queueLock = Nobody
    /\ queueLock' = c
    /\ k' = [k EXCEPT ![c] = 1]
    /\ Go(c, "post")
    /\ UNCHANGED <<poolVars, queue, status, slotLock, serverVars, num, scan, assigned, calls, job>>

\* A slip in the wrap-around test: i walks off the slots.
Skip_TooFar(c) ==
    /\ pc[c] = "post"
    /\ queue[scan[c]] # Null
    /\ scan' = [scan EXCEPT ![c] = IF @ + 1 > numThreads - 1 THEN 0 ELSE @ + 1]
    /\ UNCHANGED <<poolVars, slotVars, serverVars, pc, num, k, assigned, calls, job>>

\* The slot looked at is taken: on to the next one.
Skip(c) ==
    /\ pc[c] = "post"
    /\ queue[scan[c]] # Null
    /\ scan' = [scan EXCEPT ![c] = IF @ + 1 >= numThreads - 1 THEN 0 ELSE @ + 1]
    /\ UNCHANGED <<poolVars, slotVars, serverVars, pc, num, k, assigned, calls, job>>

\* A slip: exec_queue_lock is given up after every job.
Place_Unlocks(c) ==
    /\ queue' = [queue EXCEPT ![scan[c]] = <<c, k[c]>>]
    /\ assigned' = [assigned EXCEPT ![c][k[c]] = scan[c]]
    /\ queueLock' = Nobody
    /\ IF k[c] < num[c] - 1
       THEN k' = [k EXCEPT ![c] = @ + 1] /\ UNCHANGED pc
       ELSE k' = [k EXCEPT ![c] = 1] /\ Go(c, "wake")
    /\ UNCHANGED <<poolVars, status, slotLock, serverVars, num, scan, calls, job>>

\* The job goes to the slot; after the last one exec_queue_lock is released.
Place(c) ==
    /\ queue' = [queue EXCEPT ![scan[c]] = <<c, k[c]>>]
    /\ assigned' = [assigned EXCEPT ![c][k[c]] = scan[c]]
    /\ IF k[c] < num[c] - 1
       THEN k' = [k EXCEPT ![c] = @ + 1] /\ UNCHANGED <<queueLock, pc>>
       ELSE k' = [k EXCEPT ![c] = 1] /\ queueLock' = Nobody /\ Go(c, "wake")
    /\ UNCHANGED <<poolVars, status, slotLock, serverVars, num, scan, calls, job>>

Post(c) ==
    /\ pc[c] = "post"
    /\ queue[scan[c]] = Null
    /\ Place(c)

\* The next job of the list, or label after the last one.
Advance(c, label) ==
    IF k[c] < num[c] - 1
    THEN k' = [k EXCEPT ![c] = @ + 1] /\ Go(c, "wake")
    ELSE k' = [k EXCEPT ![c] = 0] /\ Go(c, label)

\* A slot that still holds a pointer may have a sleeping server.
Wake(c) ==
    /\ pc[c] = "wake"
    /\ IF IsPointer(queue[assigned[c][k[c]]])
       THEN Go(c, "signal") /\ UNCHANGED k
       ELSE Advance(c, "own")
    /\ UNCHANGED <<poolVars, slotVars, serverVars, num, scan, assigned, calls, job>>

\* pthread_cond_signal: one of the servers waiting at the slot is woken.
Notify(slot) ==
    LET waiting == {s \in Servers : Cpu(s) = slot /\ spc[s] = "waiting"}
    IN IF waiting = {}
       THEN UNCHANGED spc
       ELSE \E s \in waiting : spc' = [spc EXCEPT ![s] = "woken"]

Signal(c) ==
    LET slot == assigned[c][k[c]]
    IN /\ pc[c] = "signal"
       /\ slotLock[slot] = Nobody
       /\ status' = [status EXCEPT ![slot] = "WAKEUP"]
       /\ IF status[slot] = "SLEEP" THEN Notify(slot) ELSE UNCHANGED spc
       /\ Advance(c, "own")
       /\ UNCHANGED <<poolVars, queueLock, queue, slotLock, sjob, num, scan, assigned, calls, job>>

\* The caller runs the first job itself.
StartOwn(c) ==
    /\ pc[c] = "own"
    /\ job' = [job EXCEPT ![c][0] = "running"]
    /\ Go(c, "owning")
    /\ UNCHANGED <<poolVars, slotVars, serverVars, num, k, scan, assigned, calls>>

FinishOwn(c) ==
    /\ pc[c] = "owning"
    /\ CanFinish(c)
    /\ job' = [job EXCEPT ![c][0] = "done"]
    /\ k' = [k EXCEPT ![c] = 1]
    /\ Go(c, "wait")
    /\ UNCHANGED <<poolVars, slotVars, serverVars, num, scan, assigned, calls>>

\* The queue pointer of the slot the next job went to.
Awaited(c) == queue[assigned[c][k[c]]]

\* seen: the condition under which exec_blas_async_wait goes on.
WaitFor(c, seen) ==
    /\ pc[c] = "wait"
    /\ seen
    /\ IF k[c] < num[c] - 1
       THEN k' = [k EXCEPT ![c] = @ + 1] /\ UNCHANGED <<pc, num, scan, assigned, calls, job>>
       ELSE Leave(c) /\ job' = [job EXCEPT ![c] = NoJobs]
    /\ UNCHANGED <<poolVars, slotVars, serverVars>>

\* A slip: the call returns when its jobs are no longer pending.
Wait_ForStart(c) == WaitFor(c, ~IsPointer(Awaited(c)))

\* exec_blas_async_wait: each slot a job went to has to be seen empty once.
Wait(c) == WaitFor(c, Awaited(c) = Null)

-----------------------------------------------------------------------------
(* goto_set_num_threads.                                                   *)

SetCall(c) ==
    /\ c \in Setters
    /\ pc[c] = "idle" /\ calls[c] < MaxCalls /\ ~Shutting
    /\ \E n \in Settings : num' = [num EXCEPT ![c] = n]
    /\ calls' = [calls EXCEPT ![c] = @ + 1]
    /\ Go(c, "set")
    /\ UNCHANGED <<poolVars, slotVars, serverVars, k, scan, assigned, job>>

SetEnter(c) ==
    /\ pc[c] = "set"
    /\ Go(c, IF avail THEN "set_read" ELSE "set_init")
    /\ UNCHANGED <<poolVars, slotVars, serverVars, num, k, scan, assigned, calls, job>>

SetInit(c) ==
    /\ pc[c] = "set_init"
    /\ BlasThreadInit
    /\ Go(c, "set_read")
    /\ UNCHANGED <<num, k, scan, assigned, calls, job>>

\* A slip: the pool is never extended, only the count is.
SetRead_NeverGrows(c) ==
    /\ pc[c] = "set_read"
    /\ Go(c, "set_store")
    /\ UNCHANGED <<poolVars, slotVars, serverVars, num, k, scan, assigned, calls, job>>

\* blas_num_threads is read before server_lock is taken.
SetRead(c) ==
    /\ pc[c] = "set_read"
    /\ Go(c, IF num[c] > numThreads THEN "set_grow" ELSE "set_store")
    /\ UNCHANGED <<poolVars, slotVars, serverVars, num, k, scan, assigned, calls, job>>

\* A slip: the new servers start one slot too early.
SetGrow_FromLast(c) ==
    /\ pc[c] = "set_grow"
    /\ serverLock = Nobody
    /\ Spawn({i \in Slots : numThreads - 2 <= i /\ i <= num[c] - 2})
    /\ numThreads' = num[c]
    /\ Go(c, "set_store")
    /\ UNCHANGED <<avail, cpuNumber, buffer, serverLock, queueLock, slotLock, sjob,
                   num, k, scan, assigned, calls, job>>

\* Under server_lock: servers for the slots the pool does not have yet.
SetGrow(c) ==
    /\ pc[c] = "set_grow"
    /\ serverLock = Nobody
    /\ Spawn((numThreads - 1) .. (num[c] - 2))
    /\ numThreads' = num[c]
    /\ Go(c, "set_store")
    /\ UNCHANGED <<avail, cpuNumber, buffer, serverLock, queueLock, slotLock, sjob,
                   num, k, scan, assigned, calls, job>>

SetStore(c) ==
    /\ pc[c] = "set_store"
    /\ cpuNumber' = num[c]
    /\ Leave(c)
    /\ UNCHANGED <<avail, numThreads, buffer, serverLock, slotVars, serverVars, job>>

-----------------------------------------------------------------------------
(* blas_thread_shutdown, from pthread_atfork's prepare handler.  A fork    *)
(* while another thread is inside the library is not modelled: the code    *)
(* has no protection against it.                                           *)

Fork(c) ==
    /\ c \in Forkers
    /\ pc[c] = "idle" /\ calls[c] < MaxCalls /\ ~Shutting /\ Quiet
    /\ calls' = [calls EXCEPT ![c] = @ + 1]
    /\ Go(c, "shut")
    /\ UNCHANGED <<poolVars, slotVars, serverVars, num, k, scan, assigned, job>>

ShutLock(c) ==
    /\ pc[c] = "shut"
    /\ serverLock = Nobody
    /\ buffer' = [i \in Indices |-> FALSE]
    /\ IF avail
       THEN /\ serverLock' = c
            /\ Go(c, IF numThreads > 1 THEN "shutting" ELSE "joining")
            /\ UNCHANGED <<num, k, scan, assigned, calls>>
       ELSE Leave(c) /\ UNCHANGED serverLock
    /\ UNCHANGED <<avail, numThreads, cpuNumber, slotVars, serverVars, job>>

ShutPost(c) ==
    /\ pc[c] = "shutting"
    /\ slotLock[k[c]] = Nobody
    /\ queue' = [queue EXCEPT ![k[c]] = Exit]
    /\ status' = [status EXCEPT ![k[c]] = "WAKEUP"]
    /\ Notify(k[c])
    /\ IF k[c] < numThreads - 2
       THEN k' = [k EXCEPT ![c] = @ + 1] /\ UNCHANGED pc
       ELSE k' = [k EXCEPT ![c] = 0] /\ Go(c, "joining")
    /\ UNCHANGED <<poolVars, queueLock, slotLock, sjob, num, scan, assigned, calls, job>>

\* pthread_join on the servers of all slots.
ShutJoin(c) ==
    LET joined == {s \in Servers : Cpu(s) < numThreads - 1}
    IN /\ pc[c] = "joining"
       /\ \A s \in joined : spc[s] \in {"none", "dead"}
       /\ spc' = [s \in Servers |-> IF s \in joined THEN "none" ELSE spc[s]]
       /\ avail' = FALSE
       /\ serverLock' = Nobody
       /\ Leave(c)
       /\ UNCHANGED <<numThreads, cpuNumber, buffer, slotVars, sjob, job>>

-----------------------------------------------------------------------------
(* blas_thread_server and exec_threads.                                    *)

Be(s, label) == spc' = [spc EXCEPT ![s] = label]

\* The polling loop ends on a pointer ...
See(s) ==
    /\ spc[s] = "poll"
    /\ IsPointer(queue[Cpu(s)])
    /\ Be(s, "got")
    /\ UNCHANGED <<poolVars, slotVars, sjob, callerVars, job>>

\* ... and the pointer is loaded a second time.
Fetch(s) ==
    LET q == queue[Cpu(s)]
    IN /\ spc[s] = "got"
       /\ Be(s, CASE q = Exit -> "dead" [] q = Null -> "poll" [] OTHER -> "run")
       /\ sjob' = [sjob EXCEPT ![s] = IF q = Exit THEN Null ELSE q]
       /\ UNCHANGED <<poolVars, slotVars, callerVars, job>>

\* exec_threads up to the call of the routine, for queue pointer mark.
StartWith(s, mark) ==
    /\ spc[s] = "run"
    /\ sjob[s] \in Jobs
    /\ queue' = [queue EXCEPT ![Cpu(s)] = mark]
    /\ buffer' = [buffer EXCEPT ![Cpu(s)] = TRUE]
    /\ job' = [job EXCEPT ![sjob[s][1]][sjob[s][2]] = "running"]
    /\ Be(s, "running")
    /\ UNCHANGED <<avail, numThreads, cpuNumber, serverLock, queueLock, status, slotLock,
                   sjob, callerVars>>

\* A slip: the slot is marked empty as soon as its job is picked up.
Start_MarksEmpty(s) == StartWith(s, Null)

Start(s) == StartWith(s, Busy)

Finish(s) ==
    /\ spc[s] = "running"
    /\ CanFinish(sjob[s][1])
    /\ job' = [job EXCEPT ![sjob[s][1]][sjob[s][2]] = "done"]
    /\ queue' = [queue EXCEPT ![Cpu(s)] = Null]
    /\ sjob' = [sjob EXCEPT ![s] = Null]
    /\ Be(s, "poll")
    /\ UNCHANGED <<poolVars, queueLock, status, slotLock, callerVars>>

\* thread_timeout ticks without a job: the server is about to sleep.
Timeout(s) ==
    /\ spc[s] = "poll"
    /\ queue[Cpu(s)] = Null
    /\ Be(s, "sleepy")
    /\ UNCHANGED <<poolVars, slotVars, sjob, callerVars, job>>

Doze(s) ==
    /\ spc[s] = "sleepy"
    /\ slotLock[Cpu(s)] = Nobody
    /\ slotLock' = [slotLock EXCEPT ![Cpu(s)] = s]
    /\ status' = [status EXCEPT ![Cpu(s)] = "SLEEP"]
    /\ Be(s, "drowsy")
    /\ UNCHANGED <<poolVars, queueLock, queue, sjob, callerVars, job>>

\* A slip: the queue is not looked at again before pthread_cond_wait.
Sleep_Blindly(s) ==
    /\ spc[s] = "drowsy"
    /\ Be(s, IF status[Cpu(s)] = "SLEEP" THEN "waiting" ELSE "poll")
    /\ slotLock' = [slotLock EXCEPT ![Cpu(s)] = Nobody]
    /\ UNCHANGED <<poolVars, queueLock, queue, status, sjob, callerVars, job>>

\* The inner loop's condition, then pthread_cond_wait or the way out.
Sleep(s) ==
    /\ spc[s] = "drowsy"
    /\ Be(s, IF status[Cpu(s)] = "SLEEP" /\ queue[Cpu(s)] = Null THEN "waiting" ELSE "poll")
    /\ slotLock' = [slotLock EXCEPT ![Cpu(s)] = Nobody]
    /\ UNCHANGED <<poolVars, queueLock, queue, status, sjob, callerVars, job>>

\* pthread_cond_wait may return without a signal.
Spurious(s) ==
    /\ spc[s] = "waiting"
    /\ Be(s, "woken")
    /\ UNCHANGED <<poolVars, slotVars, sjob, callerVars, job>>

Reacquire(s) ==
    /\ spc[s] = "woken"
    /\ slotLock[Cpu(s)] = Nobody
    /\ slotLock' = [slotLock EXCEPT ![Cpu(s)] = s]
    /\ Be(s, "drowsy")
    /\ UNCHANGED <<poolVars, queueLock, queue, status, sjob, callerVars, job>>

-----------------------------------------------------------------------------
ExecBlas(c) ==
    \/ Enter(c) \/ ExecInit(c) \/ Lock(c) \/ Skip(c) \/ Post(c) \/ Wake(c)
    \/ Signal(c) \/ StartOwn(c) \/ FinishOwn(c) \/ Wait(c)

SetNumThreads(c) ==
    SetEnter(c) \/ SetInit(c) \/ SetRead(c) \/ SetGrow(c) \/ SetStore(c)

Shutdown(c) == ShutLock(c) \/ ShutPost(c) \/ ShutJoin(c)

Caller(c) ==
    \/ Call(c) \/ SetCall(c) \/ Fork(c)
    \/ ExecBlas(c) \/ SetNumThreads(c) \/ Shutdown(c)

Work(s) == See(s) \/ Fetch(s) \/ Start(s) \/ Finish(s) \/ Doze(s) \/ Sleep(s) \/ Reacquire(s)

Server(s) == Work(s) \/ Timeout(s) \/ Spurious(s)

Next == (\E c \in Callers : Caller(c)) \/ (\E s \in Servers : Server(s))

\* Threads are scheduled and a mutex that keeps being released is obtained;
\* nobody has to call the library, to time out or to wake up without a signal.
Fairness ==
    /\ \A c \in Callers :
          /\ WF_vars(ExecBlas(c) \/ SetNumThreads(c) \/ Shutdown(c))
          /\ SF_vars(Signal(c)) /\ SF_vars(ShutPost(c))
    /\ \A s \in Servers : WF_vars(Work(s))

Spec == Init /\ [][Next]_vars
FairSpec == Spec /\ Fairness

-----------------------------------------------------------------------------
(* A queue pointer points to the stack of a call that has not returned:    *)
(* exec_blas takes back every job it handed out before it returns.         *)
Pointed(q) == q \in Jobs => Inside(q[1]) /\ job[q[1]][q[2]] # "none"

JobAlive ==
    /\ \A i \in Slots : Pointed(queue[i])
    /\ \A s \in Servers : Pointed(sjob[s])

(* Nobody sleeps over a job: if a server waits on its condition variable   *)
(* although its queue holds a pointer, the caller that posted it has still *)
(* to come by and signal.                                                  *)
Coming(slot) ==
    \E c \in Callers : \E i \in 1 .. (num[c] - 1) :
        /\ assigned[c][i] = slot
        /\ \/ pc[c] = "post" /\ i < k[c]
           \/ pc[c] \in {"wake", "signal"} /\ i >= k[c]

NoLostWakeup ==
    \A s \in Servers :
        spc[s] = "waiting" /\ IsPointer(queue[Cpu(s)]) => Coming(Cpu(s))

(* Between shutdowns the pool has one server for each of the               *)
(* blas_num_threads - 1 slots jobs are posted to, and no other.            *)
Live(i) == {s \in Servers : Cpu(s) = i /\ spc[s] \notin {"none", "dead"}}

PoolShape ==
    ~Shutting => \A i \in Slots :
        Cardinality(Live(i)) = IF avail /\ i < numThreads - 1 THEN 1 ELSE 0

(* memory.c on blas_num_threads: "This value is equal or large than        *)
(* blas_cpu_number".  Callers size their calls by the one and post to the  *)
(* slots counted by the other.                                             *)
PoolCoversCount == cpuNumber <= numThreads

(* The work buffer of a job that is running is not given back: not by a    *)
(* shutdown, and not by a caller that comes late to blas_thread_init after *)
(* blas_cpu_number was lowered, as long as it is lowered by one only.      *)
BufferKept == \A s \in Servers : spc[s] = "running" => buffer[Cpu(s)]

(* Every library call comes back: no lost wakeup, no job left behind, no   *)
(* gang of jobs of which one part waits for a slot the other part holds.   *)
Completion == \A c \in Callers : pc[c] # "idle" ~> pc[c] = "idle"

(* The pool keeps exec_blas's promise.                                     *)
FJ == INSTANCE ForkJoin WITH
        MaxJobs <- MaxThreads,
        inside <- [c \in Callers |-> Inside(c)]

RunsJobsOnce == FJ!Spec
=============================================================================
