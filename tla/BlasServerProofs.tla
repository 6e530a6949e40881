-------------------------- MODULE BlasServerProofs --------------------------
(***************************************************************************)
(* Theorems about BlasServer, for every number of callers, slots and       *)
(* calls.  What is shown of jobs and servers assumes that one thread at    *)
(* most sets the number of threads: goto_set_num_threads compares before   *)
(* it locks, and the smaller of two numbers may be stored last.  The last  *)
(* section shows that a call under way leaves somebody a step to take.     *)
(***************************************************************************)
EXTENDS BlasServer, FiniteSetTheorems, TLAPS

SingleSetter == \A c, d \in Setters : c = d

USE ServerAssumption

-----------------------------------------------------------------------------
(* Where the callers are, for any number of setters.                       *)

\* The index of the job or slot a caller deals with.
WalkOf(c) ==
    /\ pc[c] \in {"post", "wake", "signal", "wait"} => k[c] \in 1 .. (num[c] - 1)
    /\ pc[c] \notin {"post", "wake", "signal", "wait", "shutting"} => k[c] = 0
    /\ pc[c] = "shutting" => k[c] \in 0 .. (numThreads - 2)
    /\ pc[c] \in ExecStates => num[c] \in 2 .. MaxThreads
    /\ pc[c] \in SetStates => c \in Setters /\ num[c] \in Settings
    /\ pc[c] \notin ExecStates \/ pc[c] \in {"enter", "exec_init", "lock"} => scan[c] = 0

\* Whoever stops the pool is alone in the library.
ShutAlone ==
    \A c \in Callers : pc[c] \in ShutStates =>
        \A d \in Callers : d # c => pc[d] = "idle"

\* Beyond blas_thread_init the pool is up.
PoolUp ==
    \A c \in Callers :
        pc[c] \notin {"idle", "enter", "exec_init", "set", "set_init", "shut"} => avail

Inv == TypeOK /\ (\A c \in Callers : WalkOf(c)) /\ ShutAlone /\ PoolUp

-----------------------------------------------------------------------------
(* What becomes of the jobs, with a single setter.                         *)

\* Calls fit the pool, which never shrinks.
Counts ==
    /\ cpuNumber <= numThreads
    /\ \A c \in Callers :
          /\ pc[c] \in ExecStates => num[c] <= numThreads /\ scan[c] < numThreads - 1
          /\ pc[c] = "set_grow" => numThreads < num[c]
          /\ pc[c] = "set_store" => num[c] <= numThreads

Alive(s) == spc[s] \notin {"none", "dead"}

\* Each slot of the pool has one server, other slots have none.
Pool ==
    /\ \A s \in Servers : spc[s] # "none" => avail /\ Cpu(s) < numThreads - 1
    /\ \A s \in Servers : spc[s] = "dead" => Shutting
    /\ \A s, t \in Servers : spc[s] # "none" /\ spc[t] # "none" /\ Cpu(s) = Cpu(t) => s = t
    /\ avail => \A i \in 0 .. (numThreads - 2) : \E s \in Servers : Cpu(s) = i /\ spc[s] # "none"

\* The pointer -1 is in slots of the pool, while it is stopped or down.
Exits ==
    \A i \in Slots : queue[i] = Exit => i < numThreads - 1 /\ (Shutting \/ ~avail)

\* What a server does agrees with its slot.
ServerOf(s) ==
    /\ spc[s] = "got" => IsPointer(queue[Cpu(s)])
    /\ spc[s] = "run" => sjob[s] \in Jobs /\ queue[Cpu(s)] = sjob[s]
    /\ spc[s] = "running" => sjob[s] \in Jobs /\ queue[Cpu(s)] = Busy
    /\ spc[s] \notin {"run", "running"} => sjob[s] = Null
    /\ spc[s] = "waiting" => status[Cpu(s)] = "SLEEP"

\* Job i of the call has been handed out and not been taken back.
HandedOut(c, i) ==
    /\ 1 <= i /\ i < num[c]
    /\ \/ pc[c] = "post" /\ i < k[c]
       \/ pc[c] \in {"wake", "signal", "own", "owning"}
       \/ pc[c] = "wait" /\ k[c] <= i

\* A pointer is in the slot its job is assigned to, and nobody has begun it.
Queued ==
    \A q \in Slots, c \in Callers, i \in Indices :
        queue[q] = <<c, i>> =>
            HandedOut(c, i) /\ assigned[c][i] = q /\ job[c][i] = "todo"

Taken ==
    \A s \in Servers, c \in Callers, i \in Indices :
        spc[s] = "running" /\ sjob[s] = <<c, i>> =>
            HandedOut(c, i) /\ assigned[c][i] = Cpu(s) /\ job[c][i] = "running"

\* A job handed out is in its slot, with a server, or done.
Carried(c, i) ==
    /\ assigned[c][i] < numThreads - 1
    /\ \/ job[c][i] = "todo" /\ queue[assigned[c][i]] = <<c, i>>
       \/ /\ job[c][i] = "running"
          /\ \E s \in Servers : spc[s] = "running" /\ sjob[s] = <<c, i>>
       \/ job[c][i] = "done"

OwnState(c) ==
    CASE pc[c] = "owning" -> "running"
      [] pc[c] = "wait"   -> "done"
      [] OTHER            -> "todo"

\* How far the jobs of a call are, by where its caller is.
Progress(c) ==
    /\ pc[c] \notin ExecStates => job[c] = NoJobs
    /\ pc[c] \in ExecStates =>
          /\ job[c][0] = OwnState(c)
          /\ \A i \in Indices :
                /\ job[c][i] = "none" <=> num[c] <= i
                /\ HandedOut(c, i) => Carried(c, i)
                /\ 1 <= i /\ i < num[c] /\ ~HandedOut(c, i) =>
                      job[c][i] = IF pc[c] = "wait" THEN "done" ELSE "todo"

Jobbed == Queued /\ Taken /\ \A c \in Callers : Progress(c)

Safe ==
    /\ Counts /\ Pool /\ Exits /\ Jobbed
    /\ \A s \in Servers : ServerOf(s)
    /\ NoLostWakeup

-----------------------------------------------------------------------------
(* Steps.                                                                  *)

LEMMA CpuRange == \A s \in Servers : Cpu(s) \in Slots /\ s = <<s[1], s[2]>> /\ s[2] \in Twins
BY DEF Servers, Cpu

LEMMA IndexRange == 0 \in Indices /\ 0 \in Slots /\ Slots \subseteq Indices
BY DEF Indices, Slots

\* Nobody moves another caller.
Unmoved(d) ==
    UNCHANGED <<pc[d], num[d], k[d], scan[d], assigned[d], calls[d], job[d]>>

LEMMA OthersUnmoved ==
    ASSUME TypeOK, NEW c \in Callers, Caller(c), NEW d \in Callers, d # c
    PROVE  Unmoved(d)
<1> USE DEF Unmoved, TypeOK, callerVars, Go, Leave
<1>1. CASE Call(c) \/ SetCall(c) \/ Fork(c)
  BY <1>1 DEF Call, SetCall, Fork
<1>2. CASE ExecBlas(c)
  <2>1. CASE Enter(c) \/ ExecInit(c) \/ Lock(c) \/ Skip(c) \/ Post(c)
    BY <2>1 DEF Enter, ExecInit, Lock, Skip, Post, Place
  <2>2. CASE Wake(c) \/ Signal(c) \/ StartOwn(c) \/ FinishOwn(c) \/ Wait(c)
    BY <2>2 DEF Wake, Signal, Advance, StartOwn, FinishOwn, Wait, WaitFor
  <2> QED BY <1>2, <2>1, <2>2 DEF ExecBlas
<1>3. CASE SetNumThreads(c)
  BY <1>3 DEF SetNumThreads, SetEnter, SetInit, SetRead, SetGrow, SetStore
<1>4. CASE Shutdown(c)
  BY <1>4 DEF Shutdown, ShutLock, ShutPost, ShutJoin
<1> QED BY <1>1, <1>2, <1>3, <1>4 DEF Caller

\* The work of servers changes no caller, and no more of the pool than this.
LEMMA ServerUnmoved ==
    ASSUME NEW s \in Servers, Server(s)
    PROVE  UNCHANGED <<callerVars, avail, numThreads, cpuNumber, serverLock, queueLock>>
BY DEF Server, Work, See, Fetch, Start, StartWith, Finish, Timeout, Doze, Sleep, Spurious,
       Reacquire, poolVars, slotVars

-----------------------------------------------------------------------------
(* Types.                                                                  *)

LEMMA NotifyType ==
    ASSUME spc \in [Servers -> ServerStates], NEW slot, Notify(slot)
    PROVE  spc' \in [Servers -> ServerStates]
BY DEF Notify, ServerStates

LEMMA SpawnType ==
    ASSUME TypeOK, NEW slots, Spawn(slots)
    PROVE  /\ queue' \in [Slots -> Jobs \cup {Null, Busy, Exit}]
           /\ status' \in [Slots -> {"SLEEP", "WAKEUP"}]
           /\ spc' \in [Servers -> ServerStates]
BY DEF Spawn, TypeOK, ServerStates

LEMMA InitType ==
    ASSUME TypeOK, BlasThreadInit
    PROVE  /\ avail' \in BOOLEAN /\ buffer' \in [Indices -> BOOLEAN]
           /\ queue' \in [Slots -> Jobs \cup {Null, Busy, Exit}]
           /\ status' \in [Slots -> {"SLEEP", "WAKEUP"}]
           /\ spc' \in [Servers -> ServerStates]
           /\ UNCHANGED <<numThreads, cpuNumber, serverLock, queueLock, slotLock, sjob>>
<1>1. CASE avail
  BY <1>1 DEF BlasThreadInit, AdjustBuffers, TypeOK
<1>2. CASE ~avail
  <2>1. Spawn(0 .. (numThreads - 2)) /\ avail' = TRUE
    BY <1>2 DEF BlasThreadInit
  <2> QED BY <2>1, SpawnType DEF BlasThreadInit, AdjustBuffers, TypeOK
<1> QED BY <1>1, <1>2

\* What a caller that returns has left.
LEMMA LeaveType ==
    ASSUME TypeOK, NEW c \in Callers, Leave(c)
    PROVE  /\ pc' \in [Callers -> {"idle"} \cup ExecStates \cup SetStates \cup ShutStates]
           /\ num' \in [Callers -> 0 .. MaxThreads]
           /\ k' \in [Callers -> 0 .. MaxThreads]
           /\ scan' \in [Callers -> Slots]
           /\ assigned' \in [Callers -> [Indices -> Slots]]
           /\ calls' \in [Callers -> 0 .. MaxCalls]
           /\ pc'[c] = "idle" /\ num'[c] = 0 /\ k'[c] = 0 /\ scan'[c] = 0
BY IndexRange DEF Leave, Go, TypeOK

LEMMA AdvanceType ==
    ASSUME TypeOK, NEW c \in Callers, Advance(c, "own")
    PROVE  /\ pc' \in [Callers -> {"idle"} \cup ExecStates \cup SetStates \cup ShutStates]
           /\ k' \in [Callers -> 0 .. MaxThreads]
           /\ \/ /\ k[c] < num[c] - 1 /\ k'[c] = k[c] + 1 /\ pc'[c] = "wake"
              \/ /\ ~(k[c] < num[c] - 1) /\ k'[c] = 0 /\ pc'[c] = "own"
<1>1. /\ k[c] \in 0 .. MaxThreads /\ num[c] \in 0 .. MaxThreads
      /\ k \in [Callers -> 0 .. MaxThreads]
      /\ pc \in [Callers -> {"idle"} \cup ExecStates \cup SetStates \cup ShutStates]
  BY DEF TypeOK
<1>2. "own" \in ExecStates /\ "wake" \in ExecStates
  BY DEF ExecStates
<1>3. CASE k[c] < num[c] - 1
  <2>1. k[c] + 1 \in 0 .. MaxThreads
    BY <1>1, <1>3
  <2>2. k' = [k EXCEPT ![c] = k[c] + 1] /\ pc' = [pc EXCEPT ![c] = "wake"]
    BY <1>3 DEF Advance, Go
  <2> QED BY <1>1, <1>2, <1>3, <2>1, <2>2
<1>4. CASE ~(k[c] < num[c] - 1)
  <2>1. 0 \in 0 .. MaxThreads
    OBVIOUS
  <2>2. k' = [k EXCEPT ![c] = 0] /\ pc' = [pc EXCEPT ![c] = "own"]
    BY <1>4 DEF Advance, Go
  <2> QED BY <1>1, <1>2, <1>4, <2>1, <2>2
<1> QED BY <1>3, <1>4

LEMMA TypeCaller ==
    ASSUME Inv, NEW c \in Callers, Caller(c)
    PROVE  TypeOK'
<1> USE DEF poolVars, slotVars, serverVars, Go, ExecStates, SetStates, ShutStates
<1>0. TypeOK /\ WalkOf(c)
  BY DEF Inv
<1>1. CASE Call(c)
  <2>1. PICK n \in 2 .. cpuNumber :
           /\ num' = [num EXCEPT ![c] = n]
           /\ job' = [job EXCEPT ![c] = [i \in Indices |-> IF i < n THEN "todo" ELSE "none"]]
    BY <1>1 DEF Call
  <2>2. num' \in [Callers -> 0 .. MaxThreads]
    BY <1>0, <2>1 DEF TypeOK
  <2>3. job' \in [Callers -> [Indices -> {"none", "todo", "running", "done"}]]
    BY <1>0, <2>1 DEF TypeOK
  <2> QED BY <1>0, <1>1, <2>2, <2>3 DEF Call, TypeOK
<1>2. CASE SetCall(c)
  <2>1. num' \in [Callers -> 0 .. MaxThreads]
    BY <1>0, <1>2 DEF SetCall, TypeOK
  <2> QED BY <1>0, <1>2, <2>1 DEF SetCall, TypeOK
<1>3. CASE Fork(c)
  BY <1>0, <1>3 DEF Fork, TypeOK
<1>4. CASE Enter(c) \/ SetEnter(c) \/ SetRead(c)
  BY <1>0, <1>4 DEF Enter, SetEnter, SetRead, TypeOK
<1>5. CASE ExecInit(c) \/ SetInit(c)
  <2>1. BlasThreadInit
    BY <1>5 DEF ExecInit, SetInit
  <2>2. pc' \in [Callers -> {"idle"} \cup ExecStates \cup SetStates \cup ShutStates]
    BY <1>0, <1>5 DEF ExecInit, SetInit, TypeOK
  <2>3. UNCHANGED <<num, k, scan, assigned, calls, job>>
    BY <1>5 DEF ExecInit, SetInit
  <2> QED BY <1>0, <2>1, <2>2, <2>3, InitType DEF TypeOK
<1>6. CASE Lock(c)
  BY <1>0, <1>6 DEF Lock, TypeOK
<1>7. CASE Skip(c)
  <2>1. scan' \in [Callers -> Slots]
    BY <1>0, <1>7 DEF Skip, TypeOK, Slots
  <2> QED BY <1>0, <1>7, <2>1 DEF Skip, TypeOK
<1>8. CASE Post(c)
  <2>1. pc[c] = "post" /\ k[c] \in 1 .. (num[c] - 1) /\ num[c] \in 2 .. MaxThreads /\ scan[c] \in Slots
    BY <1>0, <1>8 DEF Post, WalkOf, TypeOK
  <2>2. k[c] \in Indices /\ <<c, k[c]>> \in Jobs
    BY <2>1 DEF Indices, Jobs
  <2>3. queue' \in [Slots -> Jobs \cup {Null, Busy, Exit}]
    BY <1>0, <1>8, <2>2 DEF Post, Place, TypeOK
  <2>4. assigned' \in [Callers -> [Indices -> Slots]]
    BY <1>0, <1>8, <2>1, <2>2 DEF Post, Place, TypeOK
  <2>5. k' \in [Callers -> 0 .. MaxThreads]
    <3>1. k[c] < num[c] - 1 => k[c] + 1 \in 0 .. MaxThreads
      BY <2>1
    <3>2. 1 \in 0 .. MaxThreads
      OBVIOUS
    <3> QED BY <1>0, <1>8, <3>1, <3>2 DEF Post, Place, TypeOK
  <2> QED BY <1>0, <1>8, <2>3, <2>4, <2>5 DEF Post, Place, TypeOK
<1>9. CASE Wake(c)
  BY <1>0, <1>9, AdvanceType DEF Wake, TypeOK
<1>10. CASE Signal(c)
  <2>1. spc' \in [Servers -> ServerStates]
    BY <1>0, <1>10, NotifyType DEF Signal, TypeOK
  <2>2. status' \in [Slots -> {"SLEEP", "WAKEUP"}]
    BY <1>0, <1>10 DEF Signal, TypeOK
  <2> QED BY <1>0, <1>10, <2>1, <2>2, AdvanceType DEF Signal, TypeOK
<1>11. CASE StartOwn(c) \/ FinishOwn(c)
  <2>1. job' \in [Callers -> [Indices -> {"none", "todo", "running", "done"}]]
    <3>1. PICK state \in {"running", "done"} : job' = [job EXCEPT ![c][0] = state]
      BY <1>11 DEF StartOwn, FinishOwn
    <3> QED BY <1>0, <3>1, IndexRange DEF TypeOK
  <2>2. pc' \in [Callers -> {"idle"} \cup ExecStates \cup SetStates \cup ShutStates]
    BY <1>0, <1>11 DEF StartOwn, FinishOwn, TypeOK
  <2>3. k' \in [Callers -> 0 .. MaxThreads]
    <3>1. 1 \in 0 .. MaxThreads
      OBVIOUS
    <3> QED BY <1>0, <1>11, <3>1 DEF StartOwn, FinishOwn, TypeOK
  <2> QED BY <1>0, <1>11, <2>1, <2>2, <2>3 DEF StartOwn, FinishOwn, TypeOK
<1>12. CASE Wait(c)
  <2>1. CASE k[c] < num[c] - 1
    <3>1. k[c] + 1 \in 0 .. MaxThreads
      BY <1>0, <2>1 DEF TypeOK
    <3>2. k' \in [Callers -> 0 .. MaxThreads]
      BY <1>0, <1>12, <2>1, <3>1 DEF Wait, WaitFor, TypeOK
    <3> QED BY <1>0, <1>12, <2>1, <3>2 DEF Wait, WaitFor, TypeOK
  <2>2. CASE ~(k[c] < num[c] - 1)
    <3>1. Leave(c) /\ job' = [job EXCEPT ![c] = NoJobs]
      BY <1>12, <2>2 DEF Wait, WaitFor
    <3>2. job' \in [Callers -> [Indices -> {"none", "todo", "running", "done"}]]
      BY <1>0, <3>1 DEF NoJobs, TypeOK
    <3> QED BY <1>0, <1>12, <3>1, <3>2, LeaveType DEF Wait, WaitFor, TypeOK
  <2> QED BY <2>1, <2>2
<1>13. CASE SetGrow(c)
  <2>1. num[c] \in Settings
    BY <1>0, <1>13 DEF SetGrow, WalkOf
  <2>2. Spawn((numThreads - 1) .. (num[c] - 2))
    BY <1>13 DEF SetGrow
  <2> QED BY <1>0, <1>13, <2>1, <2>2, SpawnType DEF SetGrow, TypeOK
<1>14. CASE SetStore(c)
  <2>1. num[c] \in Settings
    BY <1>0, <1>14 DEF SetStore, WalkOf
  <2> QED BY <1>0, <1>14, <2>1, LeaveType DEF SetStore, TypeOK
<1>15. CASE ShutLock(c)
  <2>1. buffer' \in [Indices -> BOOLEAN]
    BY <1>15 DEF ShutLock
  <2> QED BY <1>0, <1>15, <2>1, LeaveType DEF ShutLock, TypeOK
<1>16. CASE ShutPost(c)
  <2>1. spc' \in [Servers -> ServerStates]
    BY <1>0, <1>16, NotifyType DEF ShutPost, TypeOK
  <2>2. k[c] \in 0 .. (numThreads - 2)
    BY <1>0, <1>16 DEF ShutPost, WalkOf
  <2>3. queue' \in [Slots -> Jobs \cup {Null, Busy, Exit}] /\ status' \in [Slots -> {"SLEEP", "WAKEUP"}]
    BY <1>0, <1>16 DEF ShutPost, TypeOK
  <2>4. k' \in [Callers -> 0 .. MaxThreads]
    BY <1>0, <1>16, <2>2 DEF ShutPost, TypeOK
  <2> QED BY <1>0, <1>16, <2>1, <2>3, <2>4 DEF ShutPost, TypeOK
<1>17. CASE ShutJoin(c)
  <2>1. spc' \in [Servers -> ServerStates]
    BY <1>0, <1>17 DEF ShutJoin, TypeOK, ServerStates
  <2> QED BY <1>0, <1>17, <2>1, LeaveType DEF ShutJoin, TypeOK
<1> QED BY <1>1, <1>2, <1>3, <1>4, <1>5, <1>6, <1>7, <1>8, <1>9, <1>10, <1>11, <1>12, <1>13,
           <1>14, <1>15, <1>16, <1>17
        DEF Caller, ExecBlas, SetNumThreads, Shutdown

LEMMA TypeServer ==
    ASSUME TypeOK, NEW s \in Servers, Server(s)
    PROVE  TypeOK'
<1> USE DEF poolVars, slotVars, serverVars, callerVars, Be, ServerStates
<1>1. Cpu(s) \in Slots /\ Slots \subseteq Indices
  BY CpuRange, IndexRange
<1>2. CASE See(s) \/ Timeout(s) \/ Spurious(s)
  BY <1>2 DEF See, Timeout, Spurious, TypeOK
<1>3. CASE Fetch(s)
  <2>1. queue[Cpu(s)] \in Jobs \cup {Null, Busy, Exit}
    BY <1>1 DEF TypeOK
  <2>2. sjob' \in [Servers -> Jobs \cup {Null, Busy}]
    BY <1>3, <2>1 DEF Fetch, TypeOK
  <2>3. spc' \in [Servers -> ServerStates]
    BY <1>3 DEF Fetch, TypeOK
  <2> QED BY <1>3, <2>2, <2>3 DEF Fetch, TypeOK
<1>4. CASE Start(s)
  BY <1>1, <1>4 DEF Start, StartWith, TypeOK, Jobs
<1>5. CASE Finish(s)
  <2>1. job' \in [Callers -> [Indices -> {"none", "todo", "running", "done"}]]
    BY <1>5 DEF Finish, TypeOK
  <2> QED BY <1>1, <1>5, <2>1 DEF Finish, TypeOK
<1>6. CASE Doze(s) \/ Sleep(s) \/ Reacquire(s)
  BY <1>1, <1>6 DEF Doze, Sleep, Reacquire, TypeOK
<1> QED BY <1>2, <1>3, <1>4, <1>5, <1>6 DEF Server, Work

-----------------------------------------------------------------------------
(* Where the callers are.                                                  *)

\* While the pool is being stopped no other caller moves.
LEMMA ShutBlocks ==
    ASSUME Inv, NEW c \in Callers, Caller(c), NEW d \in Callers, d # c
    PROVE  pc[d] \notin ShutStates
<1> SUFFICES ASSUME pc[d] \in ShutStates PROVE FALSE
  OBVIOUS
<1>1. pc[c] = "idle" /\ Shutting
  BY DEF Inv, ShutAlone, Shutting
<1> QED BY <1>1 DEF Caller, Call, SetCall, Fork, ExecBlas, Enter, ExecInit, Lock, Skip, Post, Wake,
           Signal, StartOwn, FinishOwn, Wait, WaitFor, SetNumThreads, SetEnter, SetInit, SetRead,
           SetGrow, SetStore, Shutdown, ShutLock, ShutPost, ShutJoin

LEMMA WalkSelf ==
    ASSUME Inv, NEW c \in Callers, Caller(c)
    PROVE  WalkOf(c)'
<1> USE DEF Go, ExecStates, SetStates, ShutStates
<1>0. TypeOK /\ WalkOf(c)
  BY DEF Inv
<1>1. CASE Call(c)
  <2>1. PICK n \in 2 .. cpuNumber : num' = [num EXCEPT ![c] = n]
    BY <1>1 DEF Call
  <2>2. pc[c] = "idle" /\ pc'[c] = "enter" /\ num'[c] \in 2 .. MaxThreads /\ UNCHANGED <<k, scan>>
    BY <1>0, <1>1, <2>1 DEF Call, TypeOK
  <2> QED BY <1>0, <2>2 DEF WalkOf
<1>2. CASE SetCall(c)
  <2>1. /\ pc[c] = "idle" /\ pc'[c] = "set" /\ c \in Setters /\ num'[c] \in Settings
        /\ UNCHANGED <<k, scan>>
    BY <1>0, <1>2 DEF SetCall, TypeOK
  <2> QED BY <1>0, <2>1 DEF WalkOf
<1>3. CASE Fork(c)
  <2>1. pc[c] = "idle" /\ pc'[c] = "shut" /\ UNCHANGED <<k, num, scan>>
    BY <1>0, <1>3 DEF Fork, TypeOK
  <2> QED BY <1>0, <2>1 DEF WalkOf
<1>4. CASE Enter(c) \/ ExecInit(c)
  <2>1. /\ pc[c] \in {"enter", "exec_init"} /\ pc'[c] \in {"exec_init", "lock"}
        /\ UNCHANGED <<k, num, scan>>
    BY <1>0, <1>4 DEF Enter, ExecInit, TypeOK
  <2> QED BY <1>0, <2>1 DEF WalkOf
<1>5. CASE SetEnter(c) \/ SetInit(c) \/ SetRead(c) \/ SetGrow(c)
  <2>1. /\ pc[c] \in SetStates /\ pc'[c] \in SetStates
        /\ UNCHANGED <<k, num, scan>>
    BY <1>0, <1>5 DEF SetEnter, SetInit, SetRead, SetGrow, TypeOK
  <2> QED BY <1>0, <2>1 DEF WalkOf
<1>6. CASE Lock(c)
  <2>1. pc[c] = "lock" /\ pc'[c] = "post" /\ k'[c] = 1 /\ UNCHANGED <<num, scan>>
    BY <1>0, <1>6 DEF Lock, TypeOK
  <2> QED BY <1>0, <2>1 DEF WalkOf
<1>7. CASE Skip(c)
  <2>1. pc[c] = "post" /\ UNCHANGED <<pc, k, num>>
    BY <1>7 DEF Skip
  <2> QED BY <1>0, <2>1 DEF WalkOf
<1>8. CASE Post(c)
  <2>1. /\ pc[c] = "post" /\ UNCHANGED <<num, scan>>
        /\ \/ k[c] < num[c] - 1 /\ k'[c] = k[c] + 1 /\ pc'[c] = "post"
           \/ k'[c] = 1 /\ pc'[c] = "wake"
    BY <1>0, <1>8 DEF Post, Place, TypeOK
  <2>2. k[c] \in 1 .. (num[c] - 1) /\ num[c] \in 2 .. MaxThreads
    BY <1>0, <2>1 DEF WalkOf
  <2>3. k'[c] \in 1 .. (num[c] - 1)
    BY <2>1, <2>2
  <2> QED BY <2>1, <2>2, <2>3 DEF WalkOf
<1>9. CASE Wake(c) \/ Signal(c)
  <2>1. pc[c] \in {"wake", "signal"} /\ UNCHANGED <<num, scan>>
    BY <1>9 DEF Wake, Signal
  <2>2. k[c] \in 1 .. (num[c] - 1) /\ num[c] \in 2 .. MaxThreads
    BY <1>0, <2>1 DEF WalkOf
  <2>3. \/ pc'[c] = "signal" /\ UNCHANGED k
        \/ Advance(c, "own")
    BY <1>0, <1>9 DEF Wake, Signal, TypeOK
  <2>4. CASE pc'[c] = "signal" /\ UNCHANGED k
    BY <2>1, <2>2, <2>4 DEF WalkOf
  <2>5. CASE Advance(c, "own")
    <3>1. \/ k'[c] \in 1 .. (num[c] - 1) /\ pc'[c] = "wake"
          \/ k'[c] = 0 /\ pc'[c] = "own"
      BY <1>0, <2>2, <2>5, AdvanceType
    <3> QED BY <2>1, <2>2, <3>1 DEF WalkOf
  <2> QED BY <2>3, <2>4, <2>5
<1>10. CASE StartOwn(c)
  <2>1. pc[c] = "own" /\ pc'[c] = "owning" /\ UNCHANGED <<k, num, scan>>
    BY <1>0, <1>10 DEF StartOwn, TypeOK
  <2> QED BY <1>0, <2>1 DEF WalkOf
<1>11. CASE FinishOwn(c)
  <2>1. pc[c] = "owning" /\ pc'[c] = "wait" /\ k'[c] = 1 /\ UNCHANGED <<num, scan>>
    BY <1>0, <1>11 DEF FinishOwn, TypeOK
  <2> QED BY <1>0, <2>1 DEF WalkOf
<1>12. CASE Wait(c)
  <2>1. CASE k[c] < num[c] - 1
    <3>1. /\ pc[c] = "wait" /\ pc'[c] = "wait" /\ k'[c] = k[c] + 1
          /\ UNCHANGED <<num, scan>>
      BY <1>0, <1>12, <2>1 DEF Wait, WaitFor, TypeOK
    <3>2. k[c] \in 1 .. (num[c] - 1) /\ num[c] \in 2 .. MaxThreads
      BY <1>0, <3>1 DEF WalkOf
    <3>3. k'[c] \in 1 .. (num[c] - 1)
      BY <2>1, <3>1, <3>2
    <3> QED BY <3>1, <3>2, <3>3 DEF WalkOf
  <2>2. CASE ~(k[c] < num[c] - 1)
    <3>1. Leave(c)
      BY <1>12, <2>2 DEF Wait, WaitFor
    <3> QED BY <1>0, <3>1, LeaveType DEF WalkOf
  <2> QED BY <2>1, <2>2
<1>13. CASE SetStore(c)
  BY <1>0, <1>13, LeaveType DEF SetStore, WalkOf
<1>14. CASE ShutLock(c)
  <2>1. CASE avail
    <3>1. /\ pc[c] = "shut" /\ UNCHANGED <<k, num, scan, numThreads>>
          /\ \/ pc'[c] = "shutting" /\ numThreads > 1
             \/ pc'[c] = "joining"
      BY <1>0, <1>14, <2>1 DEF ShutLock, TypeOK
    <3>2. k[c] = 0 /\ scan[c] = 0 /\ numThreads \in Nat
      BY <1>0, <3>1 DEF WalkOf, TypeOK
    <3> QED BY <3>1, <3>2 DEF WalkOf
  <2>2. CASE ~avail
    <3>1. Leave(c)
      BY <1>14, <2>2 DEF ShutLock
    <3> QED BY <1>0, <3>1, LeaveType DEF WalkOf
  <2> QED BY <2>1, <2>2
<1>15. CASE ShutPost(c)
  <2>1. /\ pc[c] = "shutting" /\ UNCHANGED <<num, scan, numThreads>>
        /\ \/ pc'[c] = "shutting" /\ k[c] < numThreads - 2 /\ k'[c] = k[c] + 1
           \/ pc'[c] = "joining" /\ k'[c] = 0
    BY <1>0, <1>15 DEF ShutPost, TypeOK, poolVars
  <2>2. k[c] \in 0 .. (numThreads - 2) /\ scan[c] = 0 /\ numThreads \in Nat
    BY <1>0, <2>1 DEF WalkOf, TypeOK
  <2>3. k[c] < numThreads - 2 => k[c] + 1 \in 0 .. (numThreads - 2)
    BY <2>2
  <2> QED BY <2>1, <2>2, <2>3 DEF WalkOf
<1>16. CASE ShutJoin(c)
  BY <1>0, <1>16, LeaveType DEF ShutJoin, WalkOf
<1> QED BY <1>1, <1>2, <1>3, <1>4, <1>5, <1>6, <1>7, <1>8, <1>9, <1>10, <1>11, <1>12, <1>13,
           <1>14, <1>15, <1>16
        DEF Caller, ExecBlas, SetNumThreads, Shutdown

\* The pool stays up, but for the end of blas_thread_shutdown.
LEMMA PoolStaysUp ==
    ASSUME NEW c \in Callers, Caller(c), avail, ~avail'
    PROVE  ShutJoin(c)
BY DEF Caller, Call, SetCall, Fork, ExecBlas, Enter, ExecInit, Lock, Skip, Post, Place, Wake, Signal,
       StartOwn, FinishOwn, Wait, WaitFor, SetNumThreads, SetEnter, SetInit, SetRead, SetGrow,
       SetStore, Shutdown, ShutLock, ShutPost, BlasThreadInit, poolVars

LEMMA WalkCaller ==
    ASSUME Inv, NEW c \in Callers, Caller(c)
    PROVE  (\A d \in Callers : WalkOf(d)') /\ ShutAlone' /\ PoolUp'
<1> USE DEF Go
<1>0. TypeOK
  BY DEF Inv
<1>1. \A d \in Callers : d # c => Unmoved(d) /\ pc[d] \notin ShutStates
  BY <1>0, OthersUnmoved, ShutBlocks
<1>2. ASSUME NEW d \in Callers, d # c PROVE WalkOf(d)'
  <2>1. WalkOf(d) /\ Unmoved(d) /\ pc[d] # "shutting"
    BY <1>1, <1>2 DEF Inv, ShutStates
  <2> QED BY <2>1 DEF WalkOf, Unmoved
<1>3. ShutAlone'
  <2>1. SUFFICES ASSUME pc'[c] \in ShutStates, NEW d \in Callers, d # c PROVE pc'[d] = "idle"
    BY <1>1 DEF ShutAlone, Unmoved
  <2>2. pc[c] \in ShutStates \/ Fork(c)
    <3> USE <1>0, <2>1 DEF TypeOK, ShutStates, ExecStates, Leave
    <3>1. ~Call(c) /\ ~SetCall(c)
      BY DEF Call, SetCall
    <3>2. ~Enter(c) /\ ~ExecInit(c) /\ ~Lock(c) /\ ~Skip(c) /\ ~Post(c)
      BY DEF Enter, ExecInit, Lock, Skip, Post, Place
    <3>3. ~Wake(c) /\ ~Signal(c) /\ ~StartOwn(c) /\ ~FinishOwn(c) /\ ~Wait(c)
      BY DEF Wake, Signal, Advance, StartOwn, FinishOwn, Wait, WaitFor
    <3>4. ~SetNumThreads(c)
      BY DEF SetNumThreads, SetEnter, SetInit, SetRead, SetGrow, SetStore
    <3>5. Shutdown(c) => pc[c] \in ShutStates
      BY DEF Shutdown, ShutLock, ShutPost, ShutJoin
    <3> QED BY <3>1, <3>2, <3>3, <3>4, <3>5 DEF Caller, ExecBlas
  <2>3. pc[d] = "idle"
    <3>1. CASE pc[c] \in ShutStates
      BY <2>1, <3>1 DEF Inv, ShutAlone
    <3>2. CASE Fork(c)
      BY <1>0, <1>1, <2>1, <3>2 DEF Fork, Quiet, TypeOK
    <3> QED BY <2>2, <3>1, <3>2
  <2> QED BY <1>1, <2>1, <2>3 DEF Unmoved
<1>4. PoolUp'
  <2> DEFINE Down == {"idle", "enter", "exec_init", "set", "set_init", "shut"}
  <2>1. CASE avail /\ ~avail'
    <3>1. ShutJoin(c)
      BY <2>1, PoolStaysUp
    <3>2. pc[c] \in ShutStates /\ pc'[c] = "idle"
      BY <1>0, <3>1, LeaveType DEF ShutJoin, ShutStates
    <3> QED BY <1>1, <3>2 DEF Inv, ShutAlone, PoolUp, Unmoved
  <2>2. CASE ~(avail /\ ~avail')
    <3>1. pc'[c] \in Down \/ pc[c] \notin Down \/ avail'
      BY <1>0
         DEF Caller, Call, SetCall, Fork, ExecBlas, Enter, ExecInit, Lock, Skip, Post, Wake, Signal,
             StartOwn, FinishOwn, Wait, WaitFor, SetNumThreads, SetEnter, SetInit, SetRead, SetGrow,
             SetStore, Shutdown, ShutLock, ShutPost, ShutJoin, TypeOK, BlasThreadInit, Leave,
             poolVars
    <3>2. pc'[c] \in Down \/ avail'
      BY <2>2, <3>1 DEF Inv, PoolUp
    <3> QED BY <1>1, <2>2, <3>2 DEF Inv, PoolUp, Unmoved
  <2> QED BY <2>1, <2>2
<1> QED BY <1>2, <1>3, <1>4, WalkSelf

LEMMA InvInit == Init => Inv
<1> SUFFICES ASSUME Init PROVE Inv
  OBVIOUS
<1> USE DEF Init
<1>1. TypeOK
  <2>1. /\ job \in [Callers -> [Indices -> {"none", "todo", "running", "done"}]]
        /\ assigned \in [Callers -> [Indices -> Slots]]
        /\ buffer \in [Indices -> BOOLEAN]
        /\ sjob \in [Servers -> Jobs \cup {Null, Busy}]
        /\ spc \in [Servers -> ServerStates]
    BY IndexRange DEF NoJobs, ServerStates
  <2>2. numThreads \in 1 .. MaxThreads /\ cpuNumber \in 1 .. MaxThreads
    OBVIOUS
  <2>3. /\ queue \in [Slots -> Jobs \cup {Null, Busy, Exit}]
        /\ status \in [Slots -> {"SLEEP", "WAKEUP"}]
        /\ slotLock \in [Slots -> Servers \cup {Nobody}]
    OBVIOUS
  <2>4. /\ num \in [Callers -> 0 .. MaxThreads] /\ k \in [Callers -> 0 .. MaxThreads]
        /\ scan \in [Callers -> Slots] /\ calls \in [Callers -> 0 .. MaxCalls]
    BY IndexRange
  <2> HIDE DEF Init
  <2>5. Init
    OBVIOUS
  <2> QED BY <2>1, <2>2, <2>3, <2>4, <2>5 DEF TypeOK, Init
<1>2. \A c \in Callers : WalkOf(c)
  BY DEF WalkOf, ExecStates, SetStates
<1>3. ShutAlone /\ PoolUp
  BY DEF ShutAlone, PoolUp
<1> QED BY <1>1, <1>2, <1>3 DEF Inv

LEMMA InvServer ==
    ASSUME Inv, NEW s \in Servers, Server(s)
    PROVE  Inv'
<1>1. TypeOK'
  BY TypeServer DEF Inv
<1>2. UNCHANGED <<pc, num, k, scan, numThreads, avail>>
  BY ServerUnmoved DEF callerVars
<1>3. (\A c \in Callers : WalkOf(c)') /\ ShutAlone' /\ PoolUp'
  BY <1>2 DEF Inv, WalkOf, ShutAlone, PoolUp
<1> QED BY <1>1, <1>3 DEF Inv

LEMMA InvStep == Inv /\ [Next]_vars => Inv'
<1> SUFFICES ASSUME Inv, [Next]_vars PROVE Inv'
  OBVIOUS
<1>1. ASSUME NEW c \in Callers, Caller(c) PROVE Inv'
  BY <1>1, TypeCaller, WalkCaller DEF Inv
<1>2. ASSUME NEW s \in Servers, Server(s) PROVE Inv'
  BY <1>2, InvServer
<1>3. CASE UNCHANGED vars
  BY <1>3 DEF Inv, TypeOK, WalkOf, ShutAlone, PoolUp, vars, poolVars, slotVars, serverVars, callerVars
<1> QED BY <1>1, <1>2, <1>3 DEF Next

LEMMA InvCorrect == Spec => []Inv
BY InvInit, InvStep, PTL DEF Spec

\* Every variable of blas_server.c keeps its type, whoever sets the number of
\* threads: in particular exec_blas_async never looks at a slot that does not
\* exist, and what a server takes from its slot is a pointer.
THEOREM TypeCorrect == Spec => []TypeOK
<1>1. Inv => TypeOK
  BY DEF Inv
<1> QED BY <1>1, InvCorrect, PTL

-----------------------------------------------------------------------------
(* The number of threads.                                                  *)

LEMMA CountsCaller ==
    ASSUME SingleSetter, Inv, Counts, NEW c \in Callers, Caller(c)
    PROVE  Counts' /\ numThreads <= numThreads'
<1> USE DEF Go, ExecStates, SetStates
<1>0. TypeOK /\ WalkOf(c) /\ numThreads \in Nat /\ cpuNumber \in Nat /\ scan[c] \in Nat
  BY DEF Inv, TypeOK, Slots
<1>1. \A d \in Callers : d # c => Unmoved(d) /\ num[d] \in Nat /\ scan[d] \in Nat
  BY <1>0, OthersUnmoved DEF TypeOK, Slots
<1>2. \A d \in Callers : d # c =>
          /\ pc'[d] \in ExecStates => num'[d] <= numThreads /\ scan'[d] < numThreads - 1
          /\ pc'[d] = "set_grow" => numThreads < num'[d]
          /\ pc'[d] = "set_store" => num'[d] <= numThreads
  BY <1>1 DEF Counts, Unmoved
<1>3. CASE SetGrow(c)
  <2>1. /\ pc[c] = "set_grow" /\ pc'[c] = "set_store" /\ numThreads' = num[c]
        /\ UNCHANGED <<num, cpuNumber>> /\ num[c] \in Nat
    BY <1>0, <1>3 DEF SetGrow, TypeOK
  <2>2. numThreads < numThreads'
    BY <2>1 DEF Counts
  <2>3. \A d \in Callers : d # c => pc[d] # "set_grow"
    BY <2>1 DEF Inv, WalkOf, SingleSetter
  <2>4. cpuNumber' <= numThreads'
    BY <1>0, <2>1, <2>2 DEF Counts
  <2>5. \A d \in Callers : d # c =>
            /\ pc'[d] \in ExecStates => num'[d] <= numThreads' /\ scan'[d] < numThreads' - 1
            /\ pc'[d] # "set_grow"
            /\ pc'[d] = "set_store" => num'[d] <= numThreads'
    BY <1>0, <1>1, <1>2, <2>1, <2>2, <2>3 DEF Unmoved
  <2> QED BY <1>0, <2>1, <2>2, <2>4, <2>5 DEF Counts
<1>4. CASE SetStore(c)
  <2>1. pc[c] = "set_store" /\ pc'[c] = "idle" /\ cpuNumber' = num[c] /\ UNCHANGED numThreads
    BY <1>0, <1>4, LeaveType DEF SetStore
  <2> QED BY <1>0, <1>2, <2>1 DEF Counts
<1>5. CASE ~SetGrow(c) /\ ~SetStore(c)
  <2>1. UNCHANGED <<numThreads, cpuNumber>>
    BY <1>5 DEF Caller, Call, SetCall, Fork, ExecBlas, Enter, ExecInit, Lock, Skip, Post, Place, Wake,
         Signal, StartOwn, FinishOwn, Wait, WaitFor, SetNumThreads, SetEnter, SetInit, SetRead,
         Shutdown, ShutLock, ShutPost, ShutJoin, BlasThreadInit, poolVars
  <2>2. /\ pc'[c] \in ExecStates => num'[c] <= numThreads /\ scan'[c] < numThreads - 1
        /\ pc'[c] = "set_grow" => numThreads < num'[c]
        /\ pc'[c] = "set_store" => num'[c] <= numThreads
    <3>1. CASE Call(c)
      <4>1. PICK n \in 2 .. cpuNumber : num' = [num EXCEPT ![c] = n]
        BY <3>1 DEF Call
      <4>2. pc[c] = "idle" /\ pc'[c] = "enter" /\ num'[c] \in 2 .. cpuNumber /\ UNCHANGED scan
        BY <1>0, <3>1, <4>1 DEF Call, TypeOK
      <4> QED BY <1>0, <4>2 DEF Counts, WalkOf
    <3>2. CASE SetRead(c)
      <4>1. /\ pc'[c] = IF num[c] > numThreads THEN "set_grow" ELSE "set_store"
            /\ UNCHANGED num /\ num[c] \in Nat
        BY <1>0, <3>2 DEF SetRead, TypeOK
      <4> QED BY <1>0, <4>1
    <3>3. CASE Skip(c)
      <4>1. pc[c] = "post" /\ UNCHANGED <<pc, num>> /\ scan'[c] \in {0, scan[c] + 1}
            /\ (scan[c] + 1 >= numThreads - 1 => scan'[c] = 0)
        BY <1>0, <3>3 DEF Skip, TypeOK
      <4>2. num[c] \in 2 .. MaxThreads /\ num[c] <= numThreads
        BY <1>0, <4>1 DEF Counts, WalkOf
      <4> QED BY <1>0, <4>1, <4>2
    <3>4. CASE Wait(c) \/ ShutLock(c) \/ ShutJoin(c)
      <4>1. pc'[c] = "idle" \/ (pc[c] = "wait" /\ UNCHANGED <<pc, num, scan>>)
                \/ pc'[c] \in {"shutting", "joining"}
        BY <1>0, <3>4, LeaveType DEF Wait, WaitFor, ShutLock, ShutJoin, TypeOK
      <4> QED BY <4>1 DEF Counts
    <3>5. CASE SetCall(c) \/ Fork(c) \/ SetEnter(c) \/ SetInit(c) \/ ShutPost(c)
      BY <1>0, <3>5 DEF SetCall, Fork, SetEnter, SetInit, ShutPost, TypeOK
    <3>6. CASE \/ Enter(c) \/ ExecInit(c) \/ Lock(c) \/ Post(c) \/ Wake(c) \/ Signal(c) \/ StartOwn(c)
               \/ FinishOwn(c)
      <4>1. pc[c] \in ExecStates /\ UNCHANGED <<num, scan>>
        BY <3>6 DEF Enter, ExecInit, Lock, Post, Place, Wake, Signal, StartOwn, FinishOwn
      <4>2. pc'[c] \in ExecStates
        BY <1>0, <3>6 DEF Enter, ExecInit, Lock, Post, Place, Wake, Signal, StartOwn, FinishOwn,
                          Advance, TypeOK
      <4> QED BY <4>1, <4>2 DEF Counts
    <3> QED BY <1>5, <3>1, <3>2, <3>3, <3>4, <3>5, <3>6
            DEF Caller, ExecBlas, SetNumThreads, Shutdown
  <2> QED BY <1>0, <1>2, <2>1, <2>2 DEF Counts
<1> QED BY <1>3, <1>4, <1>5

LEMMA CountsServer ==
    ASSUME Counts, NEW s \in Servers, Server(s)
    PROVE  Counts'
<1>1. UNCHANGED <<pc, num, scan, numThreads, cpuNumber>>
  BY ServerUnmoved DEF callerVars
<1> QED BY <1>1 DEF Counts

-----------------------------------------------------------------------------
(* The pool.                                                               *)

\* blas_thread_init and goto_set_num_threads start one server for each slot.
LEMMA SpawnPool ==
    ASSUME TypeOK, NEW slots \in SUBSET Slots, Spawn(slots),
           \A s \in Servers : Cpu(s) \in slots => spc[s] = "none"
    PROVE  /\ \A s \in Servers : Cpu(s) \notin slots => spc'[s] = spc[s]
           /\ \A s \in Servers : Cpu(s) \in slots => spc'[s] \in {"none", "poll"}
           /\ \A s, t \in Servers :
                 Cpu(s) \in slots /\ spc'[s] # "none" /\ spc'[t] # "none" /\ Cpu(s) = Cpu(t) => s = t
           /\ \A i \in slots : \E s \in Servers : Cpu(s) = i /\ spc'[s] = "poll"
           /\ \A i \in slots : queue'[i] = Null
           /\ \A i \in Slots \ slots : queue'[i] = queue[i] /\ status'[i] = status[i]
<1>1. \A s \in Servers : spc'[s] = IF Cpu(s) \in slots /\ Fresh(s) THEN "poll" ELSE spc[s]
  BY DEF Spawn, TypeOK
<1>2. \A s \in Servers : Cpu(s) \in slots => spc'[s] \in {"none", "poll"}
  BY <1>1
<1>3. ASSUME NEW s \in Servers, NEW t \in Servers, Cpu(s) \in slots, Cpu(s) = Cpu(t),
             spc'[s] # "none", spc'[t] # "none"
      PROVE  s = t
  <2>1. Fresh(s) /\ Fresh(t)
    BY <1>1, <1>3
  <2>2. s[2] <= t[2] /\ t[2] <= s[2]
    BY <1>3, <2>1 DEF Fresh
  <2>3. s[2] \in Nat /\ t[2] \in Nat
    BY CpuRange
  <2> QED BY <1>3, <2>2, <2>3, CpuRange DEF Cpu
<1>4. ASSUME NEW i \in slots PROVE \E s \in Servers : Cpu(s) = i /\ spc'[s] = "poll"
  <2>1. PICK t \in Twins : \A u \in Twins : t <= u
    OBVIOUS
  <2>2. <<i, t>> \in Servers /\ Cpu(<<i, t>>) = i /\ <<i, t>>[2] = t
    BY DEF Servers, Cpu
  <2>3. Fresh(<<i, t>>)
    BY <1>4, <2>1, <2>2, CpuRange DEF Fresh
  <2> QED BY <1>1, <2>2, <2>3
<1> QED BY <1>1, <1>2, <1>3, <1>4 DEF Spawn

\* Servers move, but none is started, joined or lost.
LEMMA PoolSame ==
    ASSUME Pool, UNCHANGED <<avail, numThreads>>,
           \A s \in Servers : spc'[s] = "none" <=> spc[s] = "none",
           \A s \in Servers : spc'[s] = "dead" => Shutting'
    PROVE  Pool'
<1>1. \A s \in Servers : spc'[s] # "none" => avail' /\ Cpu(s) < numThreads' - 1
  BY DEF Pool
<1>2. \A s, t \in Servers : spc'[s] # "none" /\ spc'[t] # "none" /\ Cpu(s) = Cpu(t) => s = t
  BY DEF Pool
<1>3. avail' => \A i \in 0 .. (numThreads' - 2) : \E s \in Servers : Cpu(s) = i /\ spc'[s] # "none"
  BY DEF Pool
<1> QED BY <1>1, <1>2, <1>3 DEF Pool

\* The pool is being stopped until pthread_join is through.
LEMMA StillShutting ==
    ASSUME Inv, NEW c \in Callers, Caller(c), Shutting, ~ShutJoin(c), avail \/ ~ShutLock(c)
    PROVE  Shutting'
<1>1. pc[c] \in ShutStates
  BY ShutBlocks DEF Shutting
<1>2. Shutdown(c)
  BY <1>1 DEF Caller, Call, SetCall, Fork, ExecBlas, Enter, ExecInit, Lock, Skip, Post, Wake,
              Signal, StartOwn, FinishOwn, Wait, WaitFor, SetNumThreads, SetEnter, SetInit, SetRead,
              SetGrow, SetStore, ShutStates
<1>3. pc'[c] \in ShutStates
  BY <1>1, <1>2 DEF Inv, TypeOK, Shutdown, ShutLock, ShutPost, Go, ShutStates
<1> QED BY <1>3 DEF Shutting

LEMMA NotifyKeeps ==
    ASSUME TypeOK, NEW slot, Notify(slot)
    PROVE  \A s \in Servers :
              \/ spc'[s] = spc[s]
              \/ spc[s] = "waiting" /\ spc'[s] = "woken" /\ Cpu(s) = slot
BY DEF Notify, TypeOK

LEMMA PoolCaller ==
    ASSUME SingleSetter, Inv, Counts, Pool, Exits, NEW c \in Callers, Caller(c)
    PROVE  Pool' /\ Exits'
<1>0. TypeOK /\ WalkOf(c) /\ numThreads \in 1 .. MaxThreads
  BY DEF Inv, TypeOK
<1>1. CASE BlasThreadInit
  <2>1. UNCHANGED numThreads
    BY <1>1 DEF BlasThreadInit
  <2>2. CASE avail
    <3>1. UNCHANGED <<avail, queue, spc>>
      BY <1>1, <2>2 DEF BlasThreadInit
    <3>2. Shutting => Shutting'
      BY <1>1, <2>2, <3>1, StillShutting DEF ShutJoin
    <3> QED BY <2>1, <3>1, <3>2, PoolSame DEF Pool, Exits
  <2>3. CASE ~avail
    <3> DEFINE slots == 0 .. (numThreads - 2)
    <3>1. slots \in SUBSET Slots
      BY <1>0 DEF Slots
    <3>2. Spawn(slots) /\ avail'
      BY <1>1, <2>3 DEF BlasThreadInit
    <3>3. \A s \in Servers : spc[s] = "none"
      BY <2>3 DEF Pool
    <3>4. \A s \in Servers : Cpu(s) \in slots <=> Cpu(s) < numThreads - 1
      BY <1>0, CpuRange DEF Slots
    <3> HIDE DEF slots
    <3>5. /\ \A s \in Servers : Cpu(s) \notin slots => spc'[s] = spc[s]
          /\ \A s \in Servers : Cpu(s) \in slots => spc'[s] \in {"none", "poll"}
          /\ \A s, t \in Servers :
                Cpu(s) \in slots /\ spc'[s] # "none" /\ spc'[t] # "none" /\ Cpu(s) = Cpu(t) => s = t
          /\ \A i \in slots : \E s \in Servers : Cpu(s) = i /\ spc'[s] = "poll"
          /\ \A i \in slots : queue'[i] = Null
          /\ \A i \in Slots \ slots : queue'[i] = queue[i]
      BY <1>0, <3>1, <3>2, <3>3, SpawnPool
    <3>6. \A s \in Servers : spc'[s] # "none" => Cpu(s) \in slots /\ spc'[s] = "poll"
      BY <3>3, <3>5
    <3>7. Pool'
      <4>1. \A s \in Servers : spc'[s] # "none" => avail' /\ Cpu(s) < numThreads' - 1
        BY <2>1, <3>2, <3>4, <3>6
      <4>2. \A i \in 0 .. (numThreads' - 2) : \E s \in Servers : Cpu(s) = i /\ spc'[s] # "none"
        BY <2>1, <3>5 DEF slots
      <4> QED BY <3>5, <3>6, <4>1, <4>2 DEF Pool
    <3>8. ASSUME NEW i \in Slots, queue'[i] = Exit PROVE FALSE
      <4>1. i \notin slots
        BY <3>5, <3>8, PointerAssumption
      <4>2. i < numThreads - 1
        BY <3>5, <3>8, <4>1 DEF Exits
      <4> QED BY <1>0, <4>1, <4>2 DEF slots, Slots
    <3> QED BY <3>7, <3>8 DEF Exits
  <2> QED BY <2>2, <2>3
<1>2. CASE SetGrow(c)
  <2> DEFINE slots == (numThreads - 1) .. (num[c] - 2)
  <2>1. /\ numThreads < num[c] /\ num[c] \in 1 .. MaxThreads /\ avail /\ numThreads' = num[c]
        /\ UNCHANGED avail /\ Spawn(slots) /\ ~Shutting
    <3>1. pc[c] = "set_grow" /\ numThreads' = num[c] /\ UNCHANGED avail /\ Spawn(slots)
      BY <1>2 DEF SetGrow
    <3>2. ~Shutting
      BY <1>0, <3>1, ShutBlocks DEF Shutting, ShutStates
    <3> QED BY <1>0, <3>1, <3>2 DEF Counts, WalkOf, SetStates, Inv, PoolUp
  <2>2. slots \in SUBSET Slots
    BY <1>0, <2>1 DEF Slots
  <2>3. \A s \in Servers : Cpu(s) \in slots <=> ~(Cpu(s) < numThreads - 1) /\ Cpu(s) < num[c] - 1
    BY <1>0, <2>1, CpuRange DEF Slots
  <2>4. \A s \in Servers : Cpu(s) \in slots => spc[s] = "none"
    BY <2>3 DEF Pool
  <2> HIDE DEF slots
  <2>5. /\ \A s \in Servers : Cpu(s) \notin slots => spc'[s] = spc[s]
        /\ \A s \in Servers : Cpu(s) \in slots => spc'[s] \in {"none", "poll"}
        /\ \A s, t \in Servers :
              Cpu(s) \in slots /\ spc'[s] # "none" /\ spc'[t] # "none" /\ Cpu(s) = Cpu(t) => s = t
        /\ \A i \in slots : \E s \in Servers : Cpu(s) = i /\ spc'[s] = "poll"
        /\ \A i \in slots : queue'[i] = Null
        /\ \A i \in Slots \ slots : queue'[i] = queue[i]
    BY <1>0, <2>1, <2>2, <2>4, SpawnPool
  <2>6. Pool'
    <3>1. ASSUME NEW s \in Servers, spc'[s] # "none"
          PROVE  avail' /\ Cpu(s) < numThreads' - 1 /\ spc'[s] # "dead"
      <4>1. CASE Cpu(s) \in slots
        BY <2>1, <2>3, <2>5, <3>1, <4>1
      <4>2. CASE Cpu(s) \notin slots
        <5>1. spc[s] # "none" /\ Cpu(s) < numThreads - 1 /\ spc'[s] = spc[s] /\ spc[s] # "dead"
          BY <2>1, <2>5, <3>1, <4>2 DEF Pool
        <5>2. Cpu(s) \in Nat
          BY CpuRange DEF Slots
        <5> QED BY <1>0, <2>1, <5>1, <5>2
      <4> QED BY <4>1, <4>2
    <3>2. \A s, t \in Servers : spc'[s] # "none" /\ spc'[t] # "none" /\ Cpu(s) = Cpu(t) => s = t
      BY <2>5 DEF Pool
    <3>3. ASSUME NEW i \in 0 .. (numThreads' - 2) PROVE \E s \in Servers : Cpu(s) = i /\ spc'[s] # "none"
      <4>1. CASE i \in slots
        <5>1. PICK s \in Servers : Cpu(s) = i /\ spc'[s] = "poll"
          BY <2>5, <4>1
        <5> QED BY <5>1
      <4>2. CASE i \notin slots
        <5>1. i \in 0 .. (numThreads - 2)
          BY <1>0, <2>1, <3>3, <4>2 DEF slots
        <5>2. PICK s \in Servers : Cpu(s) = i /\ spc[s] # "none"
          BY <2>1, <5>1 DEF Pool
        <5> QED BY <2>5, <4>2, <5>2
      <4> QED BY <4>1, <4>2
    <3> QED BY <3>1, <3>2, <3>3 DEF Pool
  <2>7. Exits'
    BY <2>1, <2>5, PointerAssumption DEF Exits
  <2> QED BY <2>6, <2>7
<1>3. CASE Signal(c) \/ ShutPost(c)
  <2>1. UNCHANGED <<avail, numThreads>>
    BY <1>3 DEF Signal, ShutPost, poolVars
  <2>2. \A s \in Servers : spc'[s] = spc[s] \/ (spc[s] = "waiting" /\ spc'[s] = "woken")
    <3>1. CASE Signal(c)
      <4>1. UNCHANGED spc \/ Notify(assigned[c][k[c]])
        BY <3>1 DEF Signal
      <4> QED BY <1>0, <4>1, NotifyKeeps
    <3>2. CASE ShutPost(c)
      <4>1. Notify(k[c])
        BY <3>2 DEF ShutPost
      <4> QED BY <1>0, <4>1, NotifyKeeps
    <3> QED BY <1>3, <3>1, <3>2
  <2>3. Shutting => Shutting'
    <3>1. ~ShutJoin(c) /\ ~ShutLock(c)
      BY <1>3 DEF Signal, ShutPost, ShutJoin, ShutLock
    <3> QED BY <3>1, StillShutting
  <2>4. Pool'
    BY <2>1, <2>2, <2>3, PoolSame DEF Pool
  <2>5. Exits'
    <3>1. CASE Signal(c)
      <4>1. UNCHANGED queue
        BY <3>1 DEF Signal
      <4> QED BY <2>1, <2>3, <4>1 DEF Exits
    <3>2. CASE ShutPost(c)
      <4>1. pc[c] = "shutting" /\ queue' = [queue EXCEPT ![k[c]] = Exit]
        BY <3>2 DEF ShutPost
      <4>2. Shutting /\ k[c] \in 0 .. (numThreads - 2)
        BY <1>0, <4>1 DEF Shutting, ShutStates, WalkOf
      <4>3. k[c] < numThreads - 1
        BY <1>0, <4>2
      <4> QED BY <1>0, <2>1, <2>3, <4>1, <4>2, <4>3 DEF Exits, TypeOK
    <3> QED BY <1>3, <3>1, <3>2
  <2> QED BY <2>4, <2>5
<1>4. CASE ShutJoin(c)
  <2>1. \A s \in Servers : spc'[s] = "none"
    BY <1>0, <1>4 DEF ShutJoin, Pool, TypeOK
  <2>2. ~avail' /\ UNCHANGED <<queue, numThreads>>
    BY <1>4 DEF ShutJoin, slotVars
  <2> QED BY <2>1, <2>2 DEF Pool, Exits
<1>5. CASE ShutLock(c)
  <2>1. UNCHANGED <<avail, numThreads, queue, spc>>
    BY <1>5 DEF ShutLock, slotVars, serverVars
  <2>2. CASE avail
    <3>1. Shutting => Shutting'
      BY <1>5, <2>2, StillShutting DEF ShutLock, ShutJoin
    <3> QED BY <2>1, <3>1, PoolSame DEF Pool, Exits
  <2>3. CASE ~avail
    <3>1. \A s \in Servers : spc'[s] # "dead"
      BY <2>1, <2>3 DEF Pool
    <3> QED BY <2>1, <2>3, <3>1, PoolSame DEF Exits
  <2> QED BY <2>2, <2>3
<1>6. CASE ~BlasThreadInit /\ ~SetGrow(c) /\ ~Signal(c) /\ ~Shutdown(c)
  <2>1. UNCHANGED <<avail, numThreads, spc>> /\ (UNCHANGED queue \/ Post(c))
    BY <1>6 DEF Caller, Call, SetCall, Fork, ExecBlas, Enter, ExecInit, Lock, Skip, Post, Place, Wake,
         StartOwn, FinishOwn, Wait, WaitFor, SetNumThreads, SetEnter, SetInit, SetRead, SetStore,
         poolVars, slotVars, serverVars
  <2>2. Shutting => Shutting'
    BY <1>6, StillShutting DEF Shutdown
  <2>3. Pool'
    BY <2>1, <2>2, PoolSame DEF Pool
  <2>4. CASE UNCHANGED queue
    BY <2>1, <2>2, <2>3, <2>4 DEF Exits
  <2>5. CASE Post(c)
    <3>1. queue' = [queue EXCEPT ![scan[c]] = <<c, k[c]>>] /\ pc[c] = "post"
      BY <2>5 DEF Post, Place
    <3>2. <<c, k[c]>> \in Jobs
      BY <1>0, <3>1 DEF WalkOf, Jobs, Indices, ExecStates
    <3>3. <<c, k[c]>> # Exit
      BY <3>2, PointerAssumption
    <3> QED BY <1>0, <2>1, <2>2, <2>3, <3>1, <3>3 DEF Exits, TypeOK
  <2> QED BY <2>1, <2>4, <2>5
<1> QED BY <1>1, <1>2, <1>3, <1>4, <1>5, <1>6 DEF Shutdown

LEMMA PoolServer ==
    ASSUME Inv, Pool, Exits, NEW s \in Servers, Server(s)
    PROVE  Pool' /\ Exits'
<1>0. TypeOK /\ Cpu(s) \in Slots
  BY CpuRange DEF Inv
<1>1. UNCHANGED <<pc, avail, numThreads>> /\ (Shutting <=> Shutting')
  BY ServerUnmoved DEF callerVars, Shutting
<1>2. /\ spc[s] # "none" /\ spc'[s] # "none"
      /\ \A t \in Servers : t # s => spc'[t] = spc[t]
      /\ spc'[s] = "dead" => queue[Cpu(s)] = Exit
      /\ UNCHANGED queue \/ \E q \in {Busy, Null} : queue' = [queue EXCEPT ![Cpu(s)] = q]
  BY <1>0 DEF Server, Work, See, Fetch, Start, StartWith, Finish, Timeout, Doze, Sleep, Spurious,
              Reacquire, Be, TypeOK, slotVars
<1>3. Exits'
  BY <1>0, <1>1, <1>2, PointerAssumption DEF Exits, TypeOK
<1>4. spc'[s] = "dead" => Shutting'
  BY <1>0, <1>1, <1>2 DEF Exits, Pool
<1>5. Pool'
  BY <1>1, <1>2, <1>4, PoolSame DEF Pool
<1> QED BY <1>3, <1>5

-----------------------------------------------------------------------------
(* What servers do.                                                        *)

LEMMA PairJob == \A j \in Jobs : j = <<j[1], j[2]>> /\ j[1] \in Callers /\ j[2] \in Indices
BY DEF Jobs

\* A server moves, not counting the jobs.
LEMMA ServerOfServer ==
    ASSUME Inv, Pool, \A s \in Servers : ServerOf(s), NEW s \in Servers, Server(s)
    PROVE  \A t \in Servers : ServerOf(t)'
<1> USE DEF Be, ServerStates
<1>0. /\ TypeOK /\ Cpu(s) \in Slots /\ ServerOf(s)
      /\ queue[Cpu(s)] \in Jobs \cup {Null, Busy, Exit}
  BY CpuRange DEF Inv, TypeOK
<1>1. ASSUME NEW t \in Servers, t # s PROVE ServerOf(t)'
  <2>1. spc'[t] = spc[t] /\ sjob'[t] = sjob[t] /\ ServerOf(t) /\ Cpu(t) \in Slots
    BY <1>0, <1>1, CpuRange
       DEF Server, Work, See, Fetch, Start, StartWith, Finish, Timeout, Doze, Sleep, Spurious,
           Reacquire, TypeOK
  <2>2. spc[s] # "none" /\ \A i \in Slots : i # Cpu(s) => queue'[i] = queue[i] /\ status'[i] = status[i]
    BY <1>0 DEF Server, Work, See, Fetch, Start, StartWith, Finish, Timeout, Doze, Sleep, Spurious,
                Reacquire, TypeOK, slotVars
  <2>3. spc[t] # "none" => Cpu(t) # Cpu(s)
    BY <1>1, <2>2 DEF Pool
  <2>4. CASE spc[t] = "none"
    BY <2>1, <2>4 DEF ServerOf
  <2>5. CASE spc[t] # "none"
    BY <2>1, <2>2, <2>3, <2>5 DEF ServerOf
  <2> QED BY <2>4, <2>5
<1>2. ServerOf(s)'
  <2>1. CASE See(s)
    <3>1. spc[s] = "poll" /\ spc'[s] = "got" /\ IsPointer(queue[Cpu(s)]) /\ UNCHANGED <<queue, sjob>>
      BY <1>0, <2>1 DEF See, TypeOK, slotVars
    <3> QED BY <1>0, <3>1 DEF ServerOf, IsPointer
  <2>2. CASE Fetch(s)
    <3>1. spc[s] = "got" /\ UNCHANGED queue
      BY <2>2 DEF Fetch, slotVars
    <3>2. queue[Cpu(s)] \in Jobs \cup {Exit}
      BY <1>0, <3>1 DEF ServerOf, IsPointer
    <3>3. CASE queue[Cpu(s)] = Exit
      <4>1. spc'[s] = "dead" /\ sjob'[s] = Null
        BY <1>0, <2>2, <3>3, PointerAssumption DEF Fetch, TypeOK
      <4> QED BY <4>1 DEF ServerOf
    <3>4. CASE queue[Cpu(s)] \in Jobs
      <4>1. queue[Cpu(s)] # Exit /\ queue[Cpu(s)] # Null
        BY <3>4, PointerAssumption
      <4>2. spc'[s] = "run" /\ sjob'[s] = queue[Cpu(s)]
        BY <1>0, <2>2, <4>1 DEF Fetch, TypeOK
      <4> QED BY <3>1, <3>4, <4>2 DEF ServerOf
    <3> QED BY <3>2, <3>3, <3>4
  <2>3. CASE Start(s)
    <3>1. sjob[s] \in Jobs /\ spc'[s] = "running" /\ queue'[Cpu(s)] = Busy /\ UNCHANGED sjob
      BY <1>0, <2>3 DEF Start, StartWith, TypeOK
    <3> QED BY <3>1 DEF ServerOf
  <2>4. CASE Finish(s)
    <3>1. spc'[s] = "poll" /\ sjob'[s] = Null
      BY <1>0, <2>4 DEF Finish, TypeOK
    <3> QED BY <3>1 DEF ServerOf
  <2>5. CASE Timeout(s) \/ Doze(s) \/ Spurious(s) \/ Reacquire(s)
    <3>1. /\ spc[s] \in {"poll", "sleepy", "waiting", "woken"}
          /\ spc'[s] \in {"sleepy", "drowsy", "woken"} /\ UNCHANGED sjob
      BY <1>0, <2>5 DEF Timeout, Doze, Spurious, Reacquire, TypeOK
    <3> QED BY <1>0, <3>1 DEF ServerOf
  <2>6. CASE Sleep(s)
    <3>1. /\ spc[s] = "drowsy" /\ UNCHANGED <<sjob, status>>
          /\ spc'[s] = "poll" \/ (spc'[s] = "waiting" /\ status[Cpu(s)] = "SLEEP")
      BY <1>0, <2>6 DEF Sleep, TypeOK
    <3> QED BY <1>0, <3>1 DEF ServerOf
  <2> QED BY <2>1, <2>2, <2>3, <2>4, <2>5, <2>6 DEF Server, Work
<1> QED BY <1>1, <1>2

\* Neither the jobs nor who has them change.
LEMMA JobbedSame ==
    ASSUME Jobbed, UNCHANGED <<pc, num, k, assigned, job, numThreads, queue>>,
           \A t \in Servers : spc'[t] = "running" <=> spc[t] = "running",
           \A t \in Servers : spc[t] = "running" => sjob'[t] = sjob[t]
    PROVE  Jobbed'
<1>1. \A c \in Callers, i \in Indices : HandedOut(c, i)' <=> HandedOut(c, i)
  BY DEF HandedOut
<1>2. Queued' /\ Taken'
  BY <1>1 DEF Jobbed, Queued, Taken
<1>3. ASSUME NEW c \in Callers PROVE Progress(c)'
  <2>1. \A i \in Indices : Carried(c, i) => Carried(c, i)'
    BY DEF Carried
  <2>2. OwnState(c)' = OwnState(c)
    BY DEF OwnState
  <2> QED BY <1>1, <2>1, <2>2 DEF Jobbed, Progress
<1> QED BY <1>2, <1>3 DEF Jobbed

LEMMA JobbedStart ==
    ASSUME Inv, Pool, Jobbed, NEW s \in Servers, ServerOf(s), Start(s)
    PROVE  Jobbed'
<1>0. TypeOK /\ Cpu(s) \in Slots
  BY CpuRange DEF Inv
<1>1. PICK c \in Callers, i \in Indices : sjob[s] = <<c, i>>
  BY PairJob DEF Start, StartWith
<1>2. /\ spc[s] = "run" /\ queue[Cpu(s)] = <<c, i>>
      /\ HandedOut(c, i) /\ assigned[c][i] = Cpu(s) /\ job[c][i] = "todo"
  BY <1>0, <1>1 DEF Start, StartWith, ServerOf, Jobbed, Queued
<1>3. /\ UNCHANGED <<pc, num, k, assigned, numThreads, sjob>>
      /\ spc'[s] = "running" /\ \A t \in Servers : t # s => spc'[t] = spc[t]
      /\ queue'[Cpu(s)] = Busy /\ \A q \in Slots : q # Cpu(s) => queue'[q] = queue[q]
      /\ job'[c][i] = "running"
      /\ \A d \in Callers, j \in Indices : ~(d = c /\ j = i) => job'[d][j] = job[d][j]
  BY <1>0, <1>1 DEF Start, StartWith, Be, TypeOK, callerVars
<1>4. \A d \in Callers, j \in Indices : HandedOut(d, j)' <=> HandedOut(d, j)
  BY <1>3 DEF HandedOut
<1>5. \A d \in Callers, j \in Indices : <<d, j>> # Busy
  BY PointerAssumption DEF Jobs
<1>6. Queued'
  <2> SUFFICES ASSUME NEW q \in Slots, NEW d \in Callers, NEW j \in Indices, queue'[q] = <<d, j>>
               PROVE  HandedOut(d, j)' /\ assigned'[d][j] = q /\ job'[d][j] = "todo"
    BY DEF Queued
  <2>1. q # Cpu(s)
    BY <1>3, <1>5
  <2>2. HandedOut(d, j) /\ assigned[d][j] = q /\ job[d][j] = "todo"
    BY <1>3, <2>1 DEF Jobbed, Queued
  <2>3. ~(d = c /\ j = i)
    BY <1>2, <2>1, <2>2
  <2> QED BY <1>3, <1>4, <2>2, <2>3
<1>7. Taken'
  <2> SUFFICES ASSUME NEW t \in Servers, NEW d \in Callers, NEW j \in Indices,
                      spc'[t] = "running", sjob'[t] = <<d, j>>
               PROVE  HandedOut(d, j)' /\ assigned'[d][j] = Cpu(t) /\ job'[d][j] = "running"
    BY DEF Taken
  <2>1. CASE t = s
    <3>1. d = c /\ j = i
      BY <1>1, <1>3, <2>1
    <3> QED BY <1>2, <1>3, <1>4, <2>1, <3>1
  <2>2. CASE t # s
    <3>1. HandedOut(d, j) /\ assigned[d][j] = Cpu(t) /\ job[d][j] = "running"
      BY <1>3, <2>2 DEF Jobbed, Taken
    <3>2. ~(d = c /\ j = i)
      BY <1>2, <3>1
    <3> QED BY <1>3, <1>4, <3>1, <3>2
  <2> QED BY <2>1, <2>2
<1>8. ASSUME NEW d \in Callers PROVE Progress(d)'
  <2>1. Progress(d) /\ OwnState(d)' = OwnState(d)
    BY <1>3 DEF Jobbed, OwnState
  <2>2. ASSUME NEW j \in Indices, Carried(d, j) PROVE Carried(d, j)'
    <3>1. CASE d = c /\ j = i
      BY <1>1, <1>3, <2>2, <3>1 DEF Carried
    <3>2. CASE ~(d = c /\ j = i)
      <4>1. queue[assigned[d][j]] = <<d, j>> => assigned[d][j] # Cpu(s)
        BY <1>2, <3>2
      <4>2. assigned[d][j] \in Slots
        BY <1>0 DEF TypeOK
      <4>3. \A t \in Servers : spc[t] = "running" => spc'[t] = "running"
        BY <1>3
      <4> QED BY <1>3, <2>2, <3>2, <4>1, <4>2, <4>3 DEF Carried
    <3> QED BY <3>1, <3>2
  <2>3. i # 0 /\ i < num[c]
    BY <1>2 DEF HandedOut
  <2>4. \A j \in Indices : job'[d][j] = "none" <=> job[d][j] = "none"
    BY <1>2, <1>3
  <2>5. \A j \in Indices : ~HandedOut(d, j) => job'[d][j] = job[d][j]
    BY <1>2, <1>3
  <2>6. pc[d] \notin ExecStates => job'[d] = job[d]
    <3>1. d = c => pc[d] \in ExecStates
      BY <1>2 DEF HandedOut, ExecStates
    <3>2. d # c => job'[d] = job[d]
      BY <1>0, <1>1 DEF Start, StartWith, TypeOK
    <3> QED BY <3>1, <3>2
  <2>7. job'[d][0] = job[d][0]
    BY <1>3, <2>3, IndexRange
  <2> QED BY <1>3, <1>4, <2>1, <2>2, <2>4, <2>5, <2>6, <2>7 DEF Progress
<1> QED BY <1>6, <1>7, <1>8 DEF Jobbed

LEMMA JobbedFinish ==
    ASSUME Inv, Pool, Jobbed, NEW s \in Servers, ServerOf(s), Finish(s)
    PROVE  Jobbed'
<1>0. TypeOK /\ Cpu(s) \in Slots /\ spc[s] = "running"
  BY CpuRange DEF Inv, Finish
<1>1. PICK c \in Callers, i \in Indices : sjob[s] = <<c, i>>
  BY <1>0, PairJob DEF ServerOf
<1>2. /\ queue[Cpu(s)] = Busy
      /\ HandedOut(c, i) /\ assigned[c][i] = Cpu(s) /\ job[c][i] = "running"
  BY <1>0, <1>1 DEF ServerOf, Jobbed, Taken
<1>3. /\ UNCHANGED <<pc, num, k, assigned, numThreads>>
      /\ spc'[s] = "poll" /\ sjob'[s] = Null
      /\ \A t \in Servers : t # s => spc'[t] = spc[t] /\ sjob'[t] = sjob[t]
      /\ queue'[Cpu(s)] = Null /\ \A q \in Slots : q # Cpu(s) => queue'[q] = queue[q]
      /\ job'[c][i] = "done"
      /\ \A d \in Callers, j \in Indices : ~(d = c /\ j = i) => job'[d][j] = job[d][j]
  BY <1>0, <1>1 DEF Finish, Be, TypeOK, callerVars, poolVars
<1>4. \A d \in Callers, j \in Indices : HandedOut(d, j)' <=> HandedOut(d, j)
  BY <1>3 DEF HandedOut
<1>5. \A d \in Callers, j \in Indices : <<d, j>> # Busy /\ <<d, j>> # Null
  BY PointerAssumption DEF Jobs
<1>6. Queued'
  <2> SUFFICES ASSUME NEW q \in Slots, NEW d \in Callers, NEW j \in Indices, queue'[q] = <<d, j>>
               PROVE  HandedOut(d, j)' /\ assigned'[d][j] = q /\ job'[d][j] = "todo"
    BY DEF Queued
  <2>1. q # Cpu(s)
    BY <1>3, <1>5
  <2>2. HandedOut(d, j) /\ assigned[d][j] = q /\ job[d][j] = "todo"
    BY <1>3, <2>1 DEF Jobbed, Queued
  <2>3. ~(d = c /\ j = i)
    BY <1>2, <2>1, <2>2
  <2> QED BY <1>3, <1>4, <2>2, <2>3
<1>7. Taken'
  <2> SUFFICES ASSUME NEW t \in Servers, NEW d \in Callers, NEW j \in Indices,
                      spc'[t] = "running", sjob'[t] = <<d, j>>
               PROVE  HandedOut(d, j)' /\ assigned'[d][j] = Cpu(t) /\ job'[d][j] = "running"
    BY DEF Taken
  <2>1. t # s
    BY <1>3
  <2>2. /\ HandedOut(d, j) /\ assigned[d][j] = Cpu(t) /\ job[d][j] = "running"
        /\ spc[t] = "running"
    BY <1>3, <2>1 DEF Jobbed, Taken
  <2>3. ~(d = c /\ j = i)
    BY <1>0, <1>2, <2>1, <2>2 DEF Pool
  <2> QED BY <1>3, <1>4, <2>2, <2>3
<1>8. ASSUME NEW d \in Callers PROVE Progress(d)'
  <2>1. Progress(d) /\ OwnState(d)' = OwnState(d)
    BY <1>3 DEF Jobbed, OwnState
  <2>2. ASSUME NEW j \in Indices, Carried(d, j) PROVE Carried(d, j)'
    <3>1. CASE d = c /\ j = i
      BY <1>3, <2>2, <3>1 DEF Carried
    <3>2. CASE ~(d = c /\ j = i)
      <4>1. queue[assigned[d][j]] = <<d, j>> => assigned[d][j] # Cpu(s)
        BY <1>2, <1>5
      <4>2. assigned[d][j] \in Slots
        BY <1>0 DEF TypeOK
      <4>3. \A t \in Servers : sjob[t] = <<d, j>> => t # s
        BY <1>1, <3>2
      <4> QED BY <1>3, <2>2, <3>2, <4>1, <4>2, <4>3 DEF Carried
    <3> QED BY <3>1, <3>2
  <2>3. i # 0 /\ i < num[c]
    BY <1>2 DEF HandedOut
  <2>4. \A j \in Indices : job'[d][j] = "none" <=> job[d][j] = "none"
    BY <1>2, <1>3
  <2>5. \A j \in Indices : ~HandedOut(d, j) => job'[d][j] = job[d][j]
    BY <1>2, <1>3
  <2>6. pc[d] \notin ExecStates => job'[d] = job[d]
    <3>1. d = c => pc[d] \in ExecStates
      BY <1>2 DEF HandedOut, ExecStates
    <3>2. d # c => job'[d] = job[d]
      BY <1>0, <1>1 DEF Finish, TypeOK
    <3> QED BY <3>1, <3>2
  <2>7. job'[d][0] = job[d][0]
    BY <1>3, <2>3, IndexRange
  <2> QED BY <1>3, <1>4, <2>1, <2>2, <2>4, <2>5, <2>6, <2>7 DEF Progress
<1> QED BY <1>6, <1>7, <1>8 DEF Jobbed

\* A server that begins to wait has found its slot empty.
LEMMA WakeServer ==
    ASSUME Inv, Pool, NoLostWakeup, NEW s \in Servers, Server(s)
    PROVE  NoLostWakeup'
<1>0. TypeOK /\ Cpu(s) \in Slots
  BY CpuRange DEF Inv
<1>1. UNCHANGED <<pc, num, k, assigned>>
  BY ServerUnmoved DEF callerVars
<1>2. /\ spc[s] # "none" /\ \A t \in Servers : t # s => spc'[t] = spc[t]
      /\ \A q \in Slots : q # Cpu(s) => queue'[q] = queue[q]
  BY <1>0 DEF Server, Work, See, Fetch, Start, StartWith, Finish, Timeout, Doze, Sleep, Spurious,
              Reacquire, Be, TypeOK, slotVars
<1>3. spc'[s] = "waiting" => ~IsPointer(queue'[Cpu(s)])
  <2>1. spc'[s] = "waiting" => Sleep(s)
    BY <1>0 DEF Server, Work, See, Fetch, Start, StartWith, Finish, Timeout, Doze, Spurious,
                Reacquire, Be, TypeOK
  <2>2. Sleep(s) /\ spc'[s] = "waiting" => queue[Cpu(s)] = Null /\ UNCHANGED queue
    BY <1>0 DEF Sleep, Be, TypeOK
  <2> QED BY <2>1, <2>2 DEF IsPointer
<1>4. \A i \in Slots : Coming(i) => Coming(i)'
  BY <1>1 DEF Coming
<1>5. \A t \in Servers : t # s /\ spc[t] # "none" => Cpu(t) # Cpu(s)
  BY <1>2 DEF Pool
<1> QED BY <1>2, <1>3, <1>4, <1>5, CpuRange DEF NoLostWakeup, IsPointer

LEMMA JobbedServer ==
    ASSUME Inv, Pool, Jobbed, \A s \in Servers : ServerOf(s), NEW s \in Servers, Server(s)
    PROVE  Jobbed'
<1>0. TypeOK
  BY DEF Inv
<1>1. CASE Start(s)
  BY <1>1, JobbedStart
<1>2. CASE Finish(s)
  BY <1>2, JobbedFinish
<1>3. CASE ~Start(s) /\ ~Finish(s)
  <2>1. /\ UNCHANGED <<pc, num, k, assigned, job, numThreads, queue>>
        /\ \A t \in Servers : spc'[t] = "running" <=> spc[t] = "running"
        /\ \A t \in Servers : spc[t] = "running" => sjob'[t] = sjob[t]
    BY <1>0, <1>3
       DEF Server, Work, See, Fetch, Timeout, Doze, Sleep, Spurious, Reacquire, Be, TypeOK,
           slotVars, callerVars, poolVars
  <2> QED BY <2>1, JobbedSame
<1> QED BY <1>1, <1>2, <1>3

-----------------------------------------------------------------------------
(* What callers do.                                                        *)

LEMMA HandedOutUp ==
    ASSUME Inv, NEW c \in Callers, NEW i \in Indices, HandedOut(c, i)
    PROVE  avail /\ pc[c] \in ExecStates
BY DEF Inv, PoolUp, HandedOut, ExecStates

\* Servers are started for slots nobody uses.
LEMMA Spawned ==
    ASSUME Inv, Counts, Pool, Jobbed, NEW c \in Callers,
           (Caller(c) /\ BlasThreadInit) \/ SetGrow(c)
    PROVE  /\ UNCHANGED sjob
           /\ \A q \in Slots :
                 \/ /\ queue'[q] = queue[q] /\ status'[q] = status[q]
                    /\ \A s \in Servers : Cpu(s) = q => spc'[s] = spc[s]
                 \/ /\ queue'[q] = Null /\ queue[q] \notin Jobs
                    /\ \A s \in Servers : Cpu(s) = q => spc[s] = "none" /\ spc'[s] \in {"none", "poll"}
<1>0. TypeOK /\ WalkOf(c) /\ numThreads \in 1 .. MaxThreads /\ UNCHANGED sjob
  BY DEF Inv, TypeOK, BlasThreadInit, SetGrow
<1>1. SUFFICES \A q \in Slots :
                  \/ /\ queue'[q] = queue[q] /\ status'[q] = status[q]
                     /\ \A s \in Servers : Cpu(s) = q => spc'[s] = spc[s]
                  \/ /\ queue'[q] = Null /\ queue[q] \notin Jobs
                     /\ \A s \in Servers : Cpu(s) = q => spc[s] = "none" /\ spc'[s] \in {"none", "poll"}
  BY <1>0
<1>2. CASE UNCHANGED <<queue, status, spc>>
  BY <1>2
<1>3. CASE ~UNCHANGED <<queue, status, spc>>
  <2>1. PICK slots \in SUBSET Slots :
          /\ Spawn(slots)
          /\ \A s \in Servers : Cpu(s) \in slots => spc[s] = "none"
          /\ \A q \in slots : queue[q] \notin Jobs
    <3>1. CASE SetGrow(c)
      <4> DEFINE slots == (numThreads - 1) .. (num[c] - 2)
      <4>1. num[c] \in 1 .. MaxThreads
        BY <1>0, <3>1 DEF SetGrow, WalkOf, SetStates
      <4>2. slots \in SUBSET Slots /\ \A q \in slots : ~(q < numThreads - 1)
        BY <1>0, <4>1 DEF Slots
      <4>3. Spawn(slots)
        BY <3>1 DEF SetGrow
      <4> HIDE DEF slots
      <4>4. \A s \in Servers : Cpu(s) \in slots => spc[s] = "none"
        BY <4>2 DEF Pool
      <4>5. ASSUME NEW q \in slots, queue[q] \in Jobs PROVE FALSE
        <5>1. PICK d \in Callers, j \in Indices : queue[q] = <<d, j>>
          BY <4>5, PairJob
        <5>2. HandedOut(d, j) /\ assigned[d][j] = q
          BY <4>2, <5>1 DEF Jobbed, Queued
        <5>3. Carried(d, j)
          BY <5>2, HandedOutUp DEF Jobbed, Progress
        <5> QED BY <4>2, <5>2, <5>3 DEF Carried
      <4> QED BY <4>2, <4>3, <4>4, <4>5
    <3>2. CASE BlasThreadInit
      <4> DEFINE slots == 0 .. (numThreads - 2)
      <4>1. ~avail /\ Spawn(slots)
        BY <1>3, <3>2 DEF BlasThreadInit
      <4>2. slots \in SUBSET Slots
        BY <1>0 DEF Slots
      <4> HIDE DEF slots
      <4>3. \A s \in Servers : spc[s] = "none"
        BY <4>1 DEF Pool
      <4>4. ASSUME NEW q \in slots, queue[q] \in Jobs PROVE FALSE
        <5>1. PICK d \in Callers, j \in Indices : queue[q] = <<d, j>>
          BY <4>4, PairJob
        <5>2. HandedOut(d, j)
          BY <4>2, <5>1 DEF Jobbed, Queued
        <5> QED BY <4>1, <5>2, HandedOutUp
      <4> QED BY <4>1, <4>2, <4>3, <4>4
    <3> QED BY <3>1, <3>2
  <2>2. /\ \A s \in Servers : Cpu(s) \notin slots => spc'[s] = spc[s]
        /\ \A s \in Servers : Cpu(s) \in slots => spc'[s] \in {"none", "poll"}
        /\ \A i \in slots : queue'[i] = Null
        /\ \A i \in Slots \ slots : queue'[i] = queue[i] /\ status'[i] = status[i]
    BY <1>0, <2>1, SpawnPool
  <2> QED BY <2>1, <2>2
<1> QED BY <1>2, <1>3

\* pthread_cond_signal reaches the one server of the slot.
LEMMA NotifyWakes ==
    ASSUME TypeOK, Pool, NEW slot, Notify(slot)
    PROVE  \A s \in Servers : Cpu(s) = slot => spc'[s] # "waiting"
<1> SUFFICES ASSUME NEW s \in Servers, Cpu(s) = slot, spc'[s] = "waiting" PROVE FALSE
  OBVIOUS
<1>1. spc[s] = "waiting"
  BY NotifyKeeps
<1>2. PICK t \in Servers : Cpu(t) = slot /\ spc[t] = "waiting" /\ spc' = [spc EXCEPT ![t] = "woken"]
  BY <1>1 DEF Notify
<1>3. s = t
  BY <1>1, <1>2 DEF Pool
<1> QED BY <1>2, <1>3 DEF TypeOK

LEMMA ServerOfCaller ==
    ASSUME Inv, Counts, Pool, Jobbed, \A s \in Servers : ServerOf(s), NEW c \in Callers, Caller(c)
    PROVE  \A s \in Servers : ServerOf(s)'
<1>0. TypeOK /\ WalkOf(c)
  BY DEF Inv
<1>1. CASE BlasThreadInit \/ SetGrow(c)
  <2> SUFFICES ASSUME NEW s \in Servers PROVE ServerOf(s)'
    OBVIOUS
  <2>1. Cpu(s) \in Slots /\ ServerOf(s) /\ sjob'[s] = sjob[s]
    BY <1>1, CpuRange, Spawned
  <2>2. \/ queue'[Cpu(s)] = queue[Cpu(s)] /\ status'[Cpu(s)] = status[Cpu(s)] /\ spc'[s] = spc[s]
        \/ spc[s] = "none" /\ spc'[s] \in {"none", "poll"}
    BY <1>1, <2>1, Spawned
  <2> QED BY <2>1, <2>2 DEF ServerOf
<1>2. CASE Signal(c)
  <2> DEFINE slot == assigned[c][k[c]]
  <2>1. /\ UNCHANGED <<queue, sjob>> /\ status' = [status EXCEPT ![slot] = "WAKEUP"]
        /\ IF status[slot] = "SLEEP" THEN Notify(slot) ELSE UNCHANGED spc
    BY <1>2 DEF Signal
  <2>2. \A s \in Servers : spc'[s] = spc[s] \/ (spc[s] = "waiting" /\ spc'[s] = "woken")
    BY <1>0, <2>1, NotifyKeeps
  <2>3. \A s \in Servers : Cpu(s) = slot => spc'[s] # "waiting"
    <3>1. CASE status[slot] = "SLEEP"
      BY <1>0, <2>1, <3>1, NotifyWakes
    <3>2. CASE status[slot] # "SLEEP"
      BY <2>1, <3>2 DEF ServerOf
    <3> QED BY <3>1, <3>2
  <2> HIDE DEF slot
  <2>4. \A s \in Servers : Cpu(s) # slot => status'[Cpu(s)] = status[Cpu(s)]
    BY <1>0, <2>1, CpuRange DEF TypeOK
  <2> QED BY <2>1, <2>2, <2>3, <2>4 DEF ServerOf
<1>3. CASE ShutPost(c)
  <2>1. /\ pc[c] = "shutting" /\ UNCHANGED sjob /\ Notify(k[c])
        /\ queue' = [queue EXCEPT ![k[c]] = Exit] /\ status' = [status EXCEPT ![k[c]] = "WAKEUP"]
    BY <1>3 DEF ShutPost
  <2>2. \A s \in Servers : spc'[s] = spc[s] \/ (spc[s] = "waiting" /\ spc'[s] = "woken")
    BY <1>0, <2>1, NotifyKeeps
  <2>3. \A s \in Servers : Cpu(s) = k[c] => spc'[s] # "waiting"
    BY <1>0, <2>1, NotifyWakes
  <2>4. \A d \in Callers, i \in Indices : ~HandedOut(d, i)
    BY <2>1 DEF Inv, ShutAlone, ShutStates, HandedOut
  <2>5. ASSUME NEW s \in Servers PROVE spc[s] \notin {"run", "running"}
    <3>1. CASE spc[s] = "run"
      <4>1. PICK d \in Callers, i \in Indices : queue[Cpu(s)] = <<d, i>>
        BY <3>1, PairJob DEF ServerOf
      <4> QED BY <2>4, <4>1, CpuRange DEF Jobbed, Queued
    <3>2. CASE spc[s] = "running"
      <4>1. PICK d \in Callers, i \in Indices : sjob[s] = <<d, i>>
        BY <3>2, PairJob DEF ServerOf
      <4> QED BY <2>4, <3>2, <4>1 DEF Jobbed, Taken
    <3> QED BY <3>1, <3>2
  <2>6. \A s \in Servers :
          /\ queue'[Cpu(s)] \in {queue[Cpu(s)], Exit}
          /\ Cpu(s) # k[c] => status'[Cpu(s)] = status[Cpu(s)]
    BY <1>0, <2>1, CpuRange DEF TypeOK
  <2>7. IsPointer(Exit)
    BY PointerAssumption DEF IsPointer
  <2> QED BY <2>1, <2>2, <2>3, <2>5, <2>6, <2>7 DEF ServerOf, IsPointer
<1>4. CASE ShutJoin(c)
  <2>1. UNCHANGED <<queue, status, sjob>>
        /\ \A s \in Servers : spc'[s] = spc[s] \/ (spc[s] \in {"none", "dead"} /\ spc'[s] = "none")
    BY <1>0, <1>4 DEF ShutJoin, TypeOK, slotVars
  <2> QED BY <2>1 DEF ServerOf
<1>5. CASE Post(c)
  <2>1. /\ UNCHANGED <<status, sjob, spc>> /\ queue[scan[c]] = Null
        /\ queue' = [queue EXCEPT ![scan[c]] = <<c, k[c]>>] /\ pc[c] = "post"
    BY <1>5 DEF Post, Place, serverVars
  <2> SUFFICES ASSUME NEW s \in Servers PROVE ServerOf(s)'
    OBVIOUS
  <2>2. ServerOf(s) /\ Cpu(s) \in Slots
    BY CpuRange
  <2>3. CASE Cpu(s) = scan[c]
    <3>1. spc[s] \notin {"got", "run", "running"}
      BY <2>1, <2>2, <2>3, PointerAssumption DEF ServerOf, IsPointer
    <3> QED BY <2>1, <2>2, <3>1 DEF ServerOf
  <2>4. CASE Cpu(s) # scan[c]
    <3>1. queue'[Cpu(s)] = queue[Cpu(s)]
      BY <1>0, <2>1, <2>2, <2>4 DEF TypeOK
    <3> QED BY <2>1, <2>2, <3>1 DEF ServerOf
  <2> QED BY <2>3, <2>4
<1>6. CASE ~BlasThreadInit /\ ~SetGrow(c) /\ ~Signal(c) /\ ~ShutPost(c) /\ ~ShutJoin(c) /\ ~Post(c)
  <2>1. UNCHANGED <<queue, status, sjob, spc>>
    BY <1>6 DEF Caller, Call, SetCall, Fork, ExecBlas, Enter, ExecInit, Lock, Skip, Wake, StartOwn,
         FinishOwn, Wait, WaitFor, SetNumThreads, SetEnter, SetInit, SetRead, SetStore, Shutdown,
         ShutLock, slotVars, serverVars
  <2> QED BY <2>1 DEF ServerOf
<1> QED BY <1>1, <1>2, <1>3, <1>4, <1>5, <1>6

LEMMA ComingIndex ==
    ASSUME TypeOK, NEW slot, Coming(slot)
    PROVE  \E d \in Callers, i \in Indices :
              /\ i \in 1 .. (num[d] - 1)
              /\ assigned[d][i] = slot
              /\ \/ pc[d] = "post" /\ i < k[d]
                 \/ pc[d] \in {"wake", "signal"} /\ i >= k[d]
BY DEF Coming, TypeOK, Indices

\* Others may still have to come by, whatever this caller does.
LEMMA ComingOthers ==
    ASSUME Inv, NEW c \in Callers, Caller(c), NEW slot,
           NEW d \in Callers, d # c, NEW i \in 1 .. (num[d] - 1), assigned[d][i] = slot,
           \/ pc[d] = "post" /\ i < k[d]
           \/ pc[d] \in {"wake", "signal"} /\ i >= k[d]
    PROVE  Coming(slot)'
<1>1. Unmoved(d)
  BY OthersUnmoved DEF Inv
<1> QED BY <1>1 DEF Coming, Unmoved

LEMMA WakeCaller ==
    ASSUME Inv, Counts, Pool, Jobbed, \A s \in Servers : ServerOf(s), NoLostWakeup,
           NEW c \in Callers, Caller(c)
    PROVE  NoLostWakeup'
<1>0. TypeOK /\ WalkOf(c) /\ k[c] \in Nat /\ num[c] \in Nat
  BY DEF Inv, TypeOK
<1> SUFFICES ASSUME NEW s \in Servers, spc'[s] = "waiting", IsPointer(queue'[Cpu(s)])
             PROVE  Coming(Cpu(s))'
  BY DEF NoLostWakeup, IsPointer
<1>1. Cpu(s) \in Slots /\ ServerOf(s)
  BY CpuRange
<1>2. CASE Post(c)
  <2>1. /\ UNCHANGED <<spc, num>> /\ pc[c] = "post" /\ scan[c] \in Slots
        /\ queue' = [queue EXCEPT ![scan[c]] = <<c, k[c]>>]
        /\ assigned' = [assigned EXCEPT ![c][k[c]] = scan[c]]
        /\ \/ k[c] < num[c] - 1 /\ k'[c] = k[c] + 1 /\ pc'[c] = "post"
           \/ k'[c] = 1 /\ pc'[c] = "wake"
    BY <1>0, <1>2 DEF Post, Place, Go, TypeOK, serverVars
  <2>2. k[c] \in 1 .. (num[c] - 1) /\ num[c] \in 2 .. MaxThreads
    BY <1>0, <2>1 DEF WalkOf, ExecStates
  <2>3. k[c] \in Indices
    BY <2>2 DEF Indices
  <2>4. CASE Cpu(s) = scan[c]
    <3>1. assigned'[c][k[c]] = scan[c]
      BY <1>0, <2>1, <2>3 DEF TypeOK
    <3>2. k[c] \in 1 .. (num'[c] - 1)
      BY <2>1, <2>2
    <3>3. \/ pc'[c] = "post" /\ k[c] < k'[c]
          \/ pc'[c] = "wake" /\ k[c] >= k'[c]
      BY <2>1, <2>2
    <3> QED BY <2>4, <3>1, <3>2, <3>3 DEF Coming
  <2>5. CASE Cpu(s) # scan[c]
    <3>1. Coming(Cpu(s))
      BY <1>0, <1>1, <2>1, <2>5 DEF NoLostWakeup, TypeOK
    <3>2. PICK d \in Callers, i \in Indices :
              /\ i \in 1 .. (num[d] - 1)
              /\ assigned[d][i] = Cpu(s)
              /\ \/ pc[d] = "post" /\ i < k[d]
                 \/ pc[d] \in {"wake", "signal"} /\ i >= k[d]
      BY <1>0, <3>1, ComingIndex
    <3>3. CASE d # c
      BY <3>2, <3>3, ComingOthers
    <3>4. CASE d = c
      <4>1. i < k[c] /\ i \in 1 .. (num[c] - 1)
        BY <2>1, <3>2, <3>4
      <4>2. i # k[c]
        BY <2>2, <4>1
      <4>3. assigned'[c][i] = Cpu(s)
        <5>1. assigned'[c] = [assigned[c] EXCEPT ![k[c]] = scan[c]]
          BY <1>0, <2>1 DEF TypeOK
        <5>2. i \in Indices
          BY <2>2, <4>1 DEF Indices
        <5> QED BY <1>0, <3>2, <3>4, <4>2, <5>1, <5>2 DEF TypeOK
      <4>4. \/ pc'[c] = "post" /\ i < k'[c]
            \/ pc'[c] = "wake" /\ i >= k'[c]
        BY <2>1, <2>2, <4>1
      <4> QED BY <2>1, <4>1, <4>3, <4>4 DEF Coming
    <3> QED BY <3>3, <3>4
  <2> QED BY <2>4, <2>5
<1>3. CASE Wake(c) \/ Signal(c)
  <2>1. /\ UNCHANGED <<queue, num, assigned>> /\ pc[c] \in {"wake", "signal"}
        /\ \/ pc'[c] = "signal" /\ k'[c] = k[c]
           \/ /\ Advance(c, "own")
              /\ Cpu(s) # assigned[c][k[c]]
    <3>1. CASE Wake(c)
      <4>1. UNCHANGED <<queue, num, assigned>> /\ pc[c] = "wake"
        BY <3>1 DEF Wake, slotVars
      <4>2. IsPointer(queue[assigned[c][k[c]]]) => pc'[c] = "signal" /\ k'[c] = k[c]
        BY <1>0, <3>1 DEF Wake, Go, TypeOK
      <4>3. ~IsPointer(queue[assigned[c][k[c]]]) => Advance(c, "own") /\ Cpu(s) # assigned[c][k[c]]
        BY <3>1, <4>1 DEF Wake, IsPointer
      <4> QED BY <4>1, <4>2, <4>3
    <3>2. CASE Signal(c)
      <4> DEFINE slot == assigned[c][k[c]]
      <4>1. /\ UNCHANGED <<queue, num, assigned>> /\ pc[c] = "signal" /\ Advance(c, "own")
            /\ IF status[slot] = "SLEEP" THEN Notify(slot) ELSE UNCHANGED spc
        BY <3>2 DEF Signal
      <4>2. CASE status[slot] = "SLEEP"
        BY <1>0, <4>1, <4>2, NotifyWakes
      <4>3. CASE status[slot] # "SLEEP"
        BY <1>1, <4>1, <4>3 DEF ServerOf
      <4> QED BY <4>1, <4>2, <4>3
    <3> QED BY <1>3, <3>1, <3>2
  <2>2. spc[s] = "waiting"
    <3>1. CASE Wake(c)
      BY <3>1 DEF Wake, serverVars
    <3>2. CASE Signal(c)
      <4>1. UNCHANGED spc \/ Notify(assigned[c][k[c]])
        BY <3>2 DEF Signal
      <4> QED BY <1>0, <4>1, NotifyKeeps
    <3> QED BY <1>3, <3>1, <3>2
  <2>3. Coming(Cpu(s))
    BY <2>1, <2>2 DEF NoLostWakeup, IsPointer
  <2>4. PICK d \in Callers, i \in Indices :
            /\ i \in 1 .. (num[d] - 1)
            /\ assigned[d][i] = Cpu(s)
            /\ \/ pc[d] = "post" /\ i < k[d]
               \/ pc[d] \in {"wake", "signal"} /\ i >= k[d]
    BY <1>0, <2>3, ComingIndex
  <2>5. CASE d # c
    BY <2>4, <2>5, ComingOthers
  <2>6. CASE d = c
    <3>1. i >= k[c] /\ i \in 1 .. (num[c] - 1)
      BY <2>1, <2>4, <2>6
    <3>2. CASE pc'[c] = "signal" /\ k'[c] = k[c]
      BY <2>1, <2>4, <2>6, <3>1, <3>2 DEF Coming
    <3>3. CASE Advance(c, "own") /\ Cpu(s) # assigned[c][k[c]]
      <4>1. i # k[c]
        BY <2>4, <2>6, <3>3
      <4>2. k[c] < num[c] - 1 /\ i >= k[c] + 1
        BY <1>0, <3>1, <4>1
      <4>3. k'[c] = k[c] + 1 /\ pc'[c] = "wake"
        BY <1>0, <3>3, <4>2, AdvanceType
      <4> QED BY <2>1, <2>4, <2>6, <3>1, <4>2, <4>3 DEF Coming
    <3> QED BY <2>1, <3>2, <3>3
  <2> QED BY <2>5, <2>6
<1>4. CASE ~Post(c) /\ ~Wake(c) /\ ~Signal(c)
  <2>1. spc[s] = "waiting" /\ queue'[Cpu(s)] = queue[Cpu(s)]
    <3>1. CASE BlasThreadInit \/ SetGrow(c)
      BY <1>1, <3>1, Spawned
    <3>2. CASE ShutPost(c)
      <4>1. Notify(k[c]) /\ queue' = [queue EXCEPT ![k[c]] = Exit]
        BY <3>2 DEF ShutPost
      <4>2. Cpu(s) # k[c] /\ spc[s] = "waiting"
        BY <1>0, <4>1, NotifyWakes, NotifyKeeps
      <4> QED BY <1>0, <1>1, <4>1, <4>2 DEF TypeOK
    <3>3. CASE ShutJoin(c)
      BY <1>0, <3>3 DEF ShutJoin, TypeOK, slotVars
    <3>4. CASE ~BlasThreadInit /\ ~SetGrow(c) /\ ~ShutPost(c) /\ ~ShutJoin(c)
      BY <1>4, <3>4
         DEF Caller, Call, SetCall, Fork, ExecBlas, Enter, ExecInit, Lock, Skip, StartOwn,
             FinishOwn, Wait, WaitFor, SetNumThreads, SetEnter, SetInit, SetRead, SetStore, Shutdown,
             ShutLock, slotVars, serverVars
    <3> QED BY <3>1, <3>2, <3>3, <3>4
  <2>2. Coming(Cpu(s))
    BY <2>1 DEF NoLostWakeup, IsPointer
  <2>3. PICK d \in Callers, i \in Indices :
            /\ i \in 1 .. (num[d] - 1)
            /\ assigned[d][i] = Cpu(s)
            /\ \/ pc[d] = "post" /\ i < k[d]
               \/ pc[d] \in {"wake", "signal"} /\ i >= k[d]
    BY <1>0, <2>2, ComingIndex
  <2>4. CASE d # c
    BY <2>3, <2>4, ComingOthers
  <2>5. CASE d = c
    <3>1. Skip(c)
      BY <1>4, <2>3, <2>5
         DEF Caller, Call, SetCall, Fork, ExecBlas, Enter, ExecInit, Lock, StartOwn,
             FinishOwn, Wait, WaitFor, SetNumThreads, SetEnter, SetInit, SetRead, SetGrow, SetStore,
             Shutdown, ShutLock, ShutPost, ShutJoin
    <3>2. UNCHANGED <<pc, num, k, assigned>>
      BY <3>1 DEF Skip
    <3> QED BY <2>3, <3>2 DEF Coming
  <2> QED BY <2>4, <2>5
<1> QED BY <1>2, <1>3, <1>4

\* Of other callers nothing changes; jobs keep their places.
LEMMA JobbedQuiet ==
    ASSUME Inv, Jobbed, NEW c \in Callers, Caller(c), numThreads <= numThreads', numThreads' \in Nat,
           UNCHANGED sjob, \A s \in Servers : spc'[s] = "running" <=> spc[s] = "running",
           \A q \in Slots : queue'[q] = queue[q] \/ (queue[q] \notin Jobs /\ queue'[q] \notin Jobs),
           \A i \in Indices : HandedOut(c, i) =>
              \/ HandedOut(c, i)' /\ assigned'[c][i] = assigned[c][i] /\ job'[c][i] = job[c][i]
              \/ job[c][i] = "done"
    PROVE  /\ Queued' /\ Taken'
           /\ \A d \in Callers : d # c => Progress(d)'
           /\ \A i \in Indices :
                 HandedOut(c, i) /\ assigned'[c][i] = assigned[c][i] /\ job'[c][i] = job[c][i] =>
                    Carried(c, i)'
<1>0. TypeOK /\ numThreads \in Nat /\ \A d \in Callers, i \in Indices : assigned[d][i] \in Slots
  BY DEF Inv, TypeOK
<1>1. \A d \in Callers : d # c => Unmoved(d)
  BY <1>0, OthersUnmoved
<1>2. \A d \in Callers, i \in Indices : d # c => (HandedOut(d, i)' <=> HandedOut(d, i))
  BY <1>1 DEF HandedOut, Unmoved
<1>3. \A d \in Callers, i \in Indices : HandedOut(d, i) =>
         \/ HandedOut(d, i)' /\ assigned'[d][i] = assigned[d][i] /\ job'[d][i] = job[d][i]
         \/ job[d][i] = "done"
  BY <1>1, <1>2 DEF Unmoved
<1>4. \A d \in Callers, i \in Indices : <<d, i>> \in Jobs
  BY DEF Jobs
<1>5. Queued'
  <2> SUFFICES ASSUME NEW q \in Slots, NEW d \in Callers, NEW i \in Indices, queue'[q] = <<d, i>>
               PROVE  HandedOut(d, i)' /\ assigned'[d][i] = q /\ job'[d][i] = "todo"
    BY DEF Queued
  <2>1. queue[q] = <<d, i>>
    BY <1>4
  <2>2. HandedOut(d, i) /\ assigned[d][i] = q /\ job[d][i] = "todo"
    BY <2>1 DEF Jobbed, Queued
  <2> QED BY <1>3, <2>2
<1>6. Taken'
  <2> SUFFICES ASSUME NEW s \in Servers, NEW d \in Callers, NEW i \in Indices,
                      spc'[s] = "running", sjob'[s] = <<d, i>>
               PROVE  HandedOut(d, i)' /\ assigned'[d][i] = Cpu(s) /\ job'[d][i] = "running"
    BY DEF Taken
  <2>1. HandedOut(d, i) /\ assigned[d][i] = Cpu(s) /\ job[d][i] = "running"
    BY DEF Jobbed, Taken
  <2> QED BY <1>3, <2>1
<1>7. ASSUME NEW d \in Callers, NEW i \in Indices, Carried(d, i),
             assigned'[d][i] = assigned[d][i], job'[d][i] = job[d][i]
      PROVE  Carried(d, i)'
  <2>1. assigned[d][i] \in Nat /\ assigned[d][i] \in Slots
    BY <1>0 DEF Slots
  <2>2. assigned'[d][i] < numThreads' - 1
    BY <1>0, <1>7, <2>1 DEF Carried
  <2>3. queue[assigned[d][i]] = <<d, i>> => queue'[assigned[d][i]] = <<d, i>>
    BY <1>4, <2>1
  <2> QED BY <1>7, <2>2, <2>3 DEF Carried
<1>8. ASSUME NEW d \in Callers, d # c PROVE Progress(d)'
  <2>1. Progress(d) /\ Unmoved(d) /\ OwnState(d)' = OwnState(d)
    BY <1>1, <1>8 DEF Jobbed, Unmoved, OwnState
  <2>2. \A i \in Indices : Carried(d, i) => Carried(d, i)'
    BY <1>7, <2>1 DEF Unmoved
  <2> QED BY <1>2, <1>8, <2>1, <2>2 DEF Progress, Unmoved
<1>9. \A i \in Indices : HandedOut(c, i) => Carried(c, i)
  BY HandedOutUp DEF Jobbed, Progress
<1> QED BY <1>5, <1>6, <1>7, <1>8, <1>9

\* A job is posted to the slot it is assigned to.
LEMMA JobbedPost ==
    ASSUME Inv, Counts, Jobbed, NEW c \in Callers, Post(c)
    PROVE  Jobbed'
<1>0. TypeOK /\ WalkOf(c) /\ numThreads \in Nat /\ Caller(c)
  BY DEF Inv, TypeOK, Caller, ExecBlas
<1>1. /\ UNCHANGED <<spc, sjob, num, job, numThreads>> /\ pc[c] = "post" /\ scan[c] \in Slots
      /\ queue[scan[c]] = Null
      /\ queue'[scan[c]] = <<c, k[c]>>
      /\ \A q \in Slots : q # scan[c] => queue'[q] = queue[q]
      /\ assigned' = [assigned EXCEPT ![c][k[c]] = scan[c]]
      /\ \/ k[c] < num[c] - 1 /\ k'[c] = k[c] + 1 /\ pc'[c] = "post"
         \/ ~(k[c] < num[c] - 1) /\ k'[c] = 1 /\ pc'[c] = "wake"
  BY <1>0 DEF Post, Place, Go, TypeOK, serverVars, poolVars
<1>2. /\ k[c] \in 1 .. (num[c] - 1) /\ num[c] \in 2 .. MaxThreads /\ k[c] \in Indices
      /\ scan[c] < numThreads - 1
  BY <1>0, <1>1 DEF WalkOf, ExecStates, Indices, Counts
<1>3. /\ assigned'[c][k[c]] = scan[c]
      /\ \A i \in Indices : i # k[c] => assigned'[c][i] = assigned[c][i]
      /\ \A d \in Callers : d # c => assigned'[d] = assigned[d]
  BY <1>0, <1>1, <1>2 DEF TypeOK
<1>4. \A d \in Callers : d # c => Unmoved(d)
  BY <1>0, OthersUnmoved
<1>5. \A d \in Callers, i \in Indices : d # c => (HandedOut(d, i)' <=> HandedOut(d, i))
  BY <1>4 DEF HandedOut, Unmoved
<1>6. \A i \in Indices : HandedOut(c, i)' <=> HandedOut(c, i) \/ i = k[c]
  <2>1. \A i \in Indices : i \in Int
    BY DEF Indices
  <2> QED BY <1>1, <1>2, <2>1 DEF HandedOut
<1>7. ~HandedOut(c, k[c]) /\ job[c][k[c]] = "todo"
  <2>1. ~HandedOut(c, k[c])
    BY <1>1, <1>2 DEF HandedOut
  <2> QED BY <1>1, <1>2, <2>1 DEF Jobbed, Progress, ExecStates
<1>8. Queued'
  <2> SUFFICES ASSUME NEW q \in Slots, NEW d \in Callers, NEW i \in Indices, queue'[q] = <<d, i>>
               PROVE  HandedOut(d, i)' /\ assigned'[d][i] = q /\ job'[d][i] = "todo"
    BY DEF Queued
  <2>1. CASE q = scan[c]
    <3>1. d = c /\ i = k[c]
      BY <1>1, <2>1
    <3> QED BY <1>1, <1>3, <1>6, <1>7, <2>1, <3>1
  <2>2. CASE q # scan[c]
    <3>1. HandedOut(d, i) /\ assigned[d][i] = q /\ job[d][i] = "todo"
      BY <1>1, <2>2 DEF Jobbed, Queued
    <3> QED BY <1>1, <1>3, <1>5, <1>6, <1>7, <3>1
  <2> QED BY <2>1, <2>2
<1>9. Taken'
  <2> SUFFICES ASSUME NEW s \in Servers, NEW d \in Callers, NEW i \in Indices,
                      spc'[s] = "running", sjob'[s] = <<d, i>>
               PROVE  HandedOut(d, i)' /\ assigned'[d][i] = Cpu(s) /\ job'[d][i] = "running"
    BY DEF Taken
  <2>1. HandedOut(d, i) /\ assigned[d][i] = Cpu(s) /\ job[d][i] = "running"
    BY <1>1 DEF Jobbed, Taken
  <2> QED BY <1>1, <1>3, <1>5, <1>6, <1>7, <2>1
<1>10. ASSUME NEW d \in Callers, NEW i \in Indices, Carried(d, i), ~(d = c /\ i = k[c])
       PROVE  Carried(d, i)'
  <2>1. assigned'[d][i] = assigned[d][i] /\ assigned[d][i] \in Slots
    BY <1>0, <1>3, <1>10 DEF TypeOK
  <2>2. queue[assigned[d][i]] = <<d, i>> => queue'[assigned[d][i]] = <<d, i>>
    <3>1. <<d, i>> # Null
      BY PointerAssumption DEF Jobs
    <3> QED BY <1>1, <2>1, <3>1
  <2> QED BY <1>1, <1>10, <2>1, <2>2 DEF Carried
<1>11. ASSUME NEW d \in Callers, d # c PROVE Progress(d)'
  <2>1. Progress(d) /\ Unmoved(d) /\ OwnState(d)' = OwnState(d)
    BY <1>4, <1>11 DEF Jobbed, Unmoved, OwnState
  <2>2. \A i \in Indices : Carried(d, i) => Carried(d, i)'
    BY <1>10, <1>11
  <2> QED BY <1>5, <1>11, <2>1, <2>2 DEF Progress, Unmoved
<1>12. Progress(c)'
  <2>1. Progress(c) /\ OwnState(c)' = OwnState(c) /\ pc[c] \in ExecStates /\ pc'[c] \in ExecStates
        /\ pc[c] # "wait" /\ pc'[c] # "wait"
    BY <1>1 DEF Jobbed, OwnState, ExecStates
  <2>2. ASSUME NEW i \in Indices, HandedOut(c, i)' PROVE Carried(c, i)'
    <3>1. CASE i = k[c]
      <4>1. job'[c][i] = "todo" /\ assigned'[c][i] = scan[c]
        BY <1>1, <1>3, <1>7, <3>1
      <4>2. queue'[scan[c]] = <<c, i>> /\ scan[c] < numThreads' - 1
        BY <1>1, <1>2, <3>1
      <4> QED BY <4>1, <4>2 DEF Carried
    <3>2. CASE i # k[c]
      <4>1. HandedOut(c, i)
        BY <1>6, <2>2, <3>2
      <4>2. Carried(c, i)
        BY <2>1, <4>1 DEF Progress
      <4> QED BY <1>10, <3>2, <4>2
    <3> QED BY <3>1, <3>2
  <2>3. \A i \in Indices : HandedOut(c, i)' => Carried(c, i)'
    BY <2>2
  <2> QED BY <1>1, <1>6, <2>1, <2>3 DEF Progress
<1> QED BY <1>8, <1>9, <1>11, <1>12 DEF Jobbed

\* But for posting a job, callers leave jobs where they are.
LEMMA CallerQuiet ==
    ASSUME SingleSetter, Inv, Counts, Pool, Jobbed, NEW c \in Callers, Caller(c), ~Post(c)
    PROVE  /\ numThreads <= numThreads' /\ numThreads' \in Nat /\ UNCHANGED sjob
           /\ \A s \in Servers : spc'[s] = "running" <=> spc[s] = "running"
           /\ \A q \in Slots : queue'[q] = queue[q] \/ (queue[q] \notin Jobs /\ queue'[q] \notin Jobs)
<1>0. TypeOK
  BY DEF Inv
<1>1. numThreads <= numThreads' /\ numThreads' \in Nat
  BY CountsCaller, TypeCaller DEF TypeOK
<1>2. CASE BlasThreadInit \/ SetGrow(c)
  <2>1. /\ UNCHANGED sjob
        /\ \A q \in Slots :
              \/ /\ queue'[q] = queue[q]
                 /\ \A s \in Servers : Cpu(s) = q => spc'[s] = spc[s]
              \/ /\ queue'[q] = Null /\ queue[q] \notin Jobs
                 /\ \A s \in Servers : Cpu(s) = q => spc[s] = "none" /\ spc'[s] \in {"none", "poll"}
    BY <1>2, Spawned
  <2>2. \A s \in Servers : spc'[s] = "running" <=> spc[s] = "running"
    BY <2>1, CpuRange
  <2> QED BY <1>1, <2>1, <2>2, PointerAssumption
<1>3. CASE ShutPost(c)
  <2>1. /\ pc[c] = "shutting" /\ UNCHANGED sjob /\ Notify(k[c])
        /\ queue' = [queue EXCEPT ![k[c]] = Exit]
    BY <1>3 DEF ShutPost
  <2>2. \A s \in Servers : spc'[s] = "running" <=> spc[s] = "running"
    BY <1>0, <2>1, NotifyKeeps
  <2>3. \A q \in Slots : queue[q] \notin Jobs
    <3> SUFFICES ASSUME NEW q \in Slots, queue[q] \in Jobs PROVE FALSE
      OBVIOUS
    <3>1. PICK d \in Callers, i \in Indices : queue[q] = <<d, i>>
      BY PairJob
    <3>2. HandedOut(d, i)
      BY <3>1 DEF Jobbed, Queued
    <3> QED BY <2>1, <3>2 DEF Inv, ShutAlone, ShutStates, HandedOut
  <2>4. \A q \in Slots : queue'[q] \in {queue[q], Exit}
    BY <1>0, <2>1 DEF TypeOK
  <2> QED BY <1>1, <2>1, <2>2, <2>3, <2>4, PointerAssumption
<1>4. CASE ShutJoin(c)
  <2>1. UNCHANGED <<queue, sjob>>
        /\ \A s \in Servers : spc'[s] = spc[s] \/ (spc[s] \in {"none", "dead"} /\ spc'[s] = "none")
    BY <1>0, <1>4 DEF ShutJoin, TypeOK, slotVars
  <2> QED BY <1>1, <2>1
<1>5. CASE Signal(c)
  <2>1. UNCHANGED <<queue, sjob>> /\ (UNCHANGED spc \/ Notify(assigned[c][k[c]]))
    BY <1>5 DEF Signal
  <2>2. \A s \in Servers : spc'[s] = "running" <=> spc[s] = "running"
    BY <1>0, <2>1, NotifyKeeps
  <2> QED BY <1>1, <2>1, <2>2
<1>6. CASE ~BlasThreadInit /\ ~SetGrow(c) /\ ~Signal(c) /\ ~ShutPost(c) /\ ~ShutJoin(c)
  <2>1. UNCHANGED <<queue, sjob, spc>>
    BY <1>6 DEF Caller, Call, SetCall, Fork, ExecBlas, Enter, ExecInit, Lock, Skip, Wake, StartOwn,
         FinishOwn, Wait, WaitFor, SetNumThreads, SetEnter, SetInit, SetRead, SetStore, Shutdown,
         ShutLock, slotVars, serverVars
  <2> QED BY <1>1, <2>1
<1> QED BY <1>2, <1>3, <1>4, <1>5, <1>6

\* The caller moves, its jobs stay as they are.
LEMMA ProgressMoves ==
    ASSUME SingleSetter, Inv, Counts, Pool, Jobbed, NEW c \in Callers, Caller(c), ~Post(c),
           UNCHANGED <<num[c], job[c], assigned[c]>>,
           pc[c] \in ExecStates \ {"wait"}, pc'[c] \in ExecStates \ {"wait"}, OwnState(c)' = OwnState(c),
           \A i \in Indices : HandedOut(c, i)' <=> HandedOut(c, i)
    PROVE  Jobbed'
<1>1. /\ Queued' /\ Taken'
      /\ \A d \in Callers : d # c => Progress(d)'
      /\ \A i \in Indices : HandedOut(c, i) => Carried(c, i)'
  BY CallerQuiet, JobbedQuiet
<1>2. Progress(c)
  BY DEF Jobbed
<1>3. Progress(c)'
  BY <1>1, <1>2 DEF Progress
<1> QED BY <1>1, <1>3 DEF Jobbed

\* A slot that is empty again: its job is done.
LEMMA WaitDone ==
    ASSUME Inv, Jobbed, \A s \in Servers : ServerOf(s), NEW c \in Callers,
           pc[c] = "wait", Awaited(c) = Null
    PROVE  k[c] \in Indices /\ HandedOut(c, k[c]) /\ job[c][k[c]] = "done"
<1>1. k[c] \in 1 .. (num[c] - 1) /\ num[c] \in 2 .. MaxThreads
  BY DEF Inv, WalkOf, ExecStates
<1>2. k[c] \in Indices /\ HandedOut(c, k[c])
  BY <1>1 DEF Indices, HandedOut
<1>3. Carried(c, k[c])
  BY <1>2, HandedOutUp DEF Jobbed, Progress
<1>4. CASE queue[assigned[c][k[c]]] = <<c, k[c]>>
  BY <1>2, <1>4, PointerAssumption DEF Awaited, Jobs
<1>5. CASE \E s \in Servers : spc[s] = "running" /\ sjob[s] = <<c, k[c]>>
  <2>1. PICK s \in Servers : spc[s] = "running" /\ sjob[s] = <<c, k[c]>>
    BY <1>5
  <2>2. assigned[c][k[c]] = Cpu(s)
    BY <1>2, <2>1 DEF Jobbed, Taken
  <2> QED BY <2>1, <2>2, PointerAssumption DEF ServerOf, Awaited
<1> QED BY <1>2, <1>3, <1>4, <1>5 DEF Carried

LEMMA JobbedCall ==
    ASSUME SingleSetter, Inv, Counts, Pool, Jobbed, NEW c \in Callers, Call(c)
    PROVE  Jobbed'
<1>0. TypeOK /\ Caller(c) /\ ~Post(c) /\ 0 \in Indices
  BY IndexRange DEF Inv, Caller, Call, Post
<1>1. PICK n \in 2 .. cpuNumber :
        /\ num'[c] = n /\ pc'[c] = "enter"
        /\ job'[c] = [i \in Indices |-> IF i < n THEN "todo" ELSE "none"]
  BY <1>0 DEF Call, Go, TypeOK
<1>2. n \in Nat /\ n >= 2
  BY <1>0, <1>1 DEF TypeOK
<1>3. \A i \in Indices : ~HandedOut(c, i) /\ ~HandedOut(c, i)'
  BY <1>1 DEF Call, HandedOut
<1>4. /\ Queued' /\ Taken'
      /\ \A d \in Callers : d # c => Progress(d)'
  BY <1>0, <1>3, CallerQuiet, JobbedQuiet
<1>5. Progress(c)'
  <2>1. OwnState(c)' = "todo" /\ job'[c][0] = "todo"
    BY <1>0, <1>1, <1>2 DEF OwnState
  <2>2. \A i \in Indices : job'[c][i] = (IF i < n THEN "todo" ELSE "none") /\ i \in Int
    BY <1>1 DEF Indices
  <2>3. \A i \in Indices : (job'[c][i] = "none" <=> n <= i) /\ (i < n => job'[c][i] = "todo")
    BY <1>2, <2>2
  <2> QED BY <1>1, <1>3, <2>1, <2>3 DEF Progress, ExecStates
<1> QED BY <1>4, <1>5 DEF Jobbed

LEMMA JobbedOwn ==
    ASSUME SingleSetter, Inv, Counts, Pool, Jobbed, NEW c \in Callers, StartOwn(c) \/ FinishOwn(c)
    PROVE  Jobbed'
<1>0. TypeOK /\ Caller(c) /\ ~Post(c) /\ 0 \in Indices
  BY IndexRange DEF Inv, Caller, ExecBlas, StartOwn, FinishOwn, Post
<1>1. /\ UNCHANGED <<num, assigned>>
      /\ \/ /\ pc[c] = "own" /\ pc'[c] = "owning" /\ UNCHANGED k
            /\ job' = [job EXCEPT ![c][0] = "running"]
         \/ /\ pc[c] = "owning" /\ pc'[c] = "wait" /\ k'[c] = 1
            /\ job' = [job EXCEPT ![c][0] = "done"]
  BY <1>0 DEF StartOwn, FinishOwn, Go, TypeOK
<1>2. \A i \in Indices : i # 0 => job'[c][i] = job[c][i]
  BY <1>0, <1>1 DEF TypeOK
<1>3. job'[c][0] = IF pc'[c] = "owning" THEN "running" ELSE "done"
  BY <1>0, <1>1 DEF TypeOK
<1>4. \A i \in Indices : HandedOut(c, i)' <=> HandedOut(c, i)
  <2>1. \A i \in Indices : i \in Int
    BY DEF Indices
  <2> QED BY <1>1, <2>1 DEF HandedOut
<1>5. \A i \in Indices : HandedOut(c, i) <=> 1 <= i /\ i < num[c]
  BY <1>1 DEF HandedOut
<1>6. /\ Queued' /\ Taken'
      /\ \A d \in Callers : d # c => Progress(d)'
      /\ \A i \in Indices : HandedOut(c, i) => Carried(c, i)'
  <2>1. \A i \in Indices : HandedOut(c, i) =>
          HandedOut(c, i)' /\ assigned'[c][i] = assigned[c][i] /\ job'[c][i] = job[c][i]
    BY <1>1, <1>2, <1>4, <1>5
  <2> QED BY <1>0, <2>1, CallerQuiet, JobbedQuiet
<1>7. Progress(c)'
  <2>1. /\ Progress(c) /\ pc[c] \in ExecStates /\ pc'[c] \in {"owning", "wait"}
        /\ num[c] \in 2 .. MaxThreads
    BY <1>1 DEF Jobbed, ExecStates, Inv, WalkOf
  <2>2. job'[c][0] = OwnState(c)' /\ pc'[c] \in ExecStates
    BY <1>3, <2>1 DEF OwnState, ExecStates
  <2>3. \A i \in Indices : job'[c][i] = "none" <=> num[c] <= i
    BY <1>2, <1>3, <2>1 DEF Progress
  <2> QED BY <1>1, <1>4, <1>5, <1>6, <2>2, <2>3 DEF Progress
<1> QED BY <1>6, <1>7 DEF Jobbed

\* exec_blas_async_wait takes back one job after the other.
LEMMA JobbedWait ==
    ASSUME SingleSetter, Inv, Counts, Pool, Jobbed, \A s \in Servers : ServerOf(s),
           NEW c \in Callers, Wait(c)
    PROVE  Jobbed'
<1>0. TypeOK /\ Caller(c) /\ ~Post(c) /\ pc[c] = "wait" /\ Awaited(c) = Null
  BY DEF Inv, Caller, ExecBlas, Wait, WaitFor, Post
<1>1. k[c] \in Indices /\ job[c][k[c]] = "done"
  BY <1>0, WaitDone
<1>2. k[c] \in 1 .. (num[c] - 1) /\ num[c] \in 2 .. MaxThreads /\ \A i \in Indices : i \in Int
  BY <1>0 DEF Inv, WalkOf, ExecStates, Indices
<1>3. CASE k[c] < num[c] - 1
  <2>1. UNCHANGED <<pc, num, assigned, job>> /\ k'[c] = k[c] + 1
    BY <1>0, <1>3 DEF Wait, WaitFor, TypeOK
  <2>2. \A i \in Indices : HandedOut(c, i) <=> HandedOut(c, i)' \/ i = k[c]
    BY <1>0, <1>2, <2>1 DEF HandedOut
  <2>3. /\ Queued' /\ Taken'
        /\ \A d \in Callers : d # c => Progress(d)'
        /\ \A i \in Indices : HandedOut(c, i) => Carried(c, i)'
    <3>1. \A i \in Indices : HandedOut(c, i) =>
            \/ HandedOut(c, i)' /\ assigned'[c][i] = assigned[c][i] /\ job'[c][i] = job[c][i]
            \/ job[c][i] = "done"
      BY <1>1, <2>1, <2>2
    <3> QED BY <1>0, <2>1, <3>1, CallerQuiet, JobbedQuiet
  <2>4. Progress(c)'
    <3>1. Progress(c) /\ OwnState(c)' = OwnState(c) /\ pc[c] \in ExecStates
      BY <1>0, <2>1 DEF Jobbed, OwnState, ExecStates
    <3> QED BY <1>0, <1>1, <2>1, <2>2, <2>3, <3>1 DEF Progress
  <2> QED BY <2>3, <2>4 DEF Jobbed
<1>4. CASE ~(k[c] < num[c] - 1)
  <2>1. Leave(c) /\ job'[c] = NoJobs
    BY <1>0, <1>4 DEF Wait, WaitFor, TypeOK
  <2>2. pc'[c] = "idle"
    BY <1>0, <2>1, LeaveType
  <2>3. \A i \in Indices : HandedOut(c, i) => i = k[c]
    BY <1>0, <1>2, <1>4 DEF HandedOut
  <2>4. \A i \in Indices : HandedOut(c, i) => job[c][i] = "done"
    BY <1>1, <2>3
  <2>5. /\ Queued' /\ Taken'
        /\ \A d \in Callers : d # c => Progress(d)'
    BY <1>0, <2>4, CallerQuiet, JobbedQuiet
  <2>6. Progress(c)'
    BY <2>1, <2>2 DEF Progress, ExecStates
  <2> QED BY <2>5, <2>6 DEF Jobbed
<1> QED BY <1>3, <1>4

LEMMA JobbedCaller ==
    ASSUME SingleSetter, Inv, Counts, Pool, Jobbed, \A s \in Servers : ServerOf(s),
           NEW c \in Callers, Caller(c)
    PROVE  Jobbed'
<1>0. TypeOK /\ WalkOf(c) /\ num[c] \in Nat /\ k[c] \in Nat
  BY DEF Inv, TypeOK
<1>1. CASE Call(c)
  BY <1>1, JobbedCall
<1>2. CASE Post(c)
  BY <1>2, JobbedPost
<1>3. CASE StartOwn(c) \/ FinishOwn(c)
  BY <1>3, JobbedOwn
<1>4. CASE Wait(c)
  BY <1>4, JobbedWait
<1>5. CASE Enter(c) \/ ExecInit(c) \/ Lock(c) \/ Skip(c) \/ Wake(c) \/ Signal(c)
  <2>1. UNCHANGED <<num, job, assigned>> /\ ~Post(c)
    BY <1>5 DEF Enter, ExecInit, Lock, Skip, Wake, Signal, Post
  <2>2. /\ pc[c] \in ExecStates \ {"wait", "owning"} /\ pc'[c] \in ExecStates \ {"wait", "owning"}
        /\ \/ pc[c] \in {"enter", "exec_init", "lock"} /\ pc'[c] \in {"exec_init", "lock"}
           \/ pc[c] = "lock" /\ pc'[c] = "post" /\ k'[c] = 1
           \/ pc[c] = "post" /\ pc'[c] = "post" /\ k'[c] = k[c]
           \/ pc[c] \in {"wake", "signal"} /\ pc'[c] \in {"wake", "signal", "own"}
    <3>1. CASE Enter(c) \/ ExecInit(c) \/ Lock(c) \/ Skip(c)
      BY <1>0, <3>1 DEF Enter, ExecInit, Lock, Skip, Go, TypeOK, ExecStates
    <3>2. CASE Wake(c) \/ Signal(c)
      <4>1. pc[c] \in {"wake", "signal"} /\ (Advance(c, "own") \/ Go(c, "signal"))
        BY <3>2 DEF Wake, Signal
      <4>2. pc'[c] \in {"wake", "signal", "own"}
        <5>1. Go(c, "signal") => pc'[c] = "signal"
          BY <1>0 DEF Go, TypeOK
        <5> QED BY <1>0, <4>1, <5>1, AdvanceType
      <4> QED BY <4>1, <4>2 DEF ExecStates
    <3> QED BY <1>5, <3>1, <3>2
  <2>3. OwnState(c)' = OwnState(c)
    BY <2>2 DEF OwnState
  <2>4. \A i \in Indices : HandedOut(c, i)' <=> HandedOut(c, i)
    <3>1. \A i \in Indices : i \in Int
      BY DEF Indices
    <3> QED BY <2>1, <2>2, <3>1 DEF HandedOut
  <2> QED BY <2>1, <2>2, <2>3, <2>4, ProgressMoves
<1>6. CASE SetCall(c) \/ Fork(c) \/ SetNumThreads(c) \/ Shutdown(c)
  <2>1. UNCHANGED job /\ ~Post(c) /\ pc[c] \notin ExecStates
    BY <1>6 DEF SetCall, Fork, SetNumThreads, SetEnter, SetInit, SetRead, SetGrow, SetStore,
                Shutdown, ShutLock, ShutPost, ShutJoin, Post, ExecStates
  <2>2. pc'[c] \notin ExecStates
    BY <1>0, <1>6 DEF SetCall, Fork, SetNumThreads, SetEnter, SetInit, SetRead, SetGrow, SetStore,
                Shutdown, ShutLock, ShutPost, ShutJoin, Go, Leave, TypeOK, ExecStates
  <2>3. \A i \in Indices : ~HandedOut(c, i)
    BY <2>1 DEF HandedOut, ExecStates
  <2>4. /\ Queued' /\ Taken'
        /\ \A d \in Callers : d # c => Progress(d)'
    BY <2>1, <2>3, CallerQuiet, JobbedQuiet
  <2>5. Progress(c)'
    BY <2>1, <2>2 DEF Progress, Jobbed
  <2> QED BY <2>4, <2>5 DEF Jobbed
<1> QED BY <1>1, <1>2, <1>3, <1>4, <1>5, <1>6 DEF Caller, ExecBlas

-----------------------------------------------------------------------------
(* The whole invariant.                                                    *)

LEMMA SafeInit == Init => Safe
<1> SUFFICES ASSUME Init PROVE Safe
  OBVIOUS
<1>1. /\ ~avail /\ cpuNumber = Initial /\ numThreads = Initial
      /\ \A s \in Servers : spc[s] = "none" /\ sjob[s] = Null
      /\ \A q \in Slots : queue[q] = Null
      /\ \A c \in Callers : pc[c] = "idle" /\ job[c] = NoJobs
  BY DEF Init
<1>2. Counts /\ Pool /\ Exits
  BY <1>1, PointerAssumption DEF Counts, Pool, Exits, ExecStates
<1>3. Jobbed
  <2>1. Queued
    <3>1. \A c \in Callers, i \in Indices : <<c, i>> \in Jobs /\ <<c, i>> # Null
      BY PointerAssumption DEF Jobs
    <3> QED BY <1>1, <3>1 DEF Queued
  <2>2. Taken /\ \A c \in Callers : Progress(c)
    BY <1>1 DEF Taken, Progress, ExecStates
  <2> QED BY <2>1, <2>2 DEF Jobbed
<1>4. (\A s \in Servers : ServerOf(s)) /\ NoLostWakeup
  BY <1>1 DEF ServerOf, NoLostWakeup
<1> QED BY <1>2, <1>3, <1>4 DEF Safe

LEMMA SafeSame ==
    ASSUME Safe, UNCHANGED vars
    PROVE  Safe'
<1> USE DEF vars, poolVars, slotVars, serverVars, callerVars
<1>1. Counts' /\ Pool' /\ Exits'
  BY DEF Safe, Counts, Pool, Exits, Shutting
<1>2. Jobbed'
  BY JobbedSame DEF Safe
<1>3. (\A s \in Servers : ServerOf(s)') /\ NoLostWakeup'
  BY DEF Safe, ServerOf, NoLostWakeup, Coming
<1> QED BY <1>1, <1>2, <1>3 DEF Safe

LEMMA SafeStep ==
    ASSUME SingleSetter, Inv, Safe, [Next]_vars
    PROVE  Safe'
<1>1. ASSUME NEW c \in Callers, Caller(c) PROVE Safe'
  BY <1>1, CountsCaller, PoolCaller, JobbedCaller, ServerOfCaller, WakeCaller DEF Safe
<1>2. ASSUME NEW s \in Servers, Server(s) PROVE Safe'
  BY <1>2, CountsServer, PoolServer, JobbedServer, ServerOfServer, WakeServer DEF Safe
<1> QED BY <1>1, <1>2, SafeSame DEF Next

LEMMA SafeCorrect ==
    ASSUME SingleSetter
    PROVE  Spec => [](Inv /\ Safe)
<1>1. Inv /\ Safe /\ [Next]_vars => Safe'
  BY SafeStep
<1> QED BY <1>1, SafeInit, InvCorrect, PTL DEF Spec

\* With one thread that sets the number of threads, blas_cpu_number, by which
\* calls are sized, stays within the blas_num_threads - 1 slots and the caller.
THEOREM PoolCoversCountCorrect ==
    ASSUME SingleSetter
    PROVE  Spec => []PoolCoversCount
<1>1. Safe => PoolCoversCount
  BY DEF Safe, Counts, PoolCoversCount
<1> QED BY <1>1, SafeCorrect, PTL

\* A queue pointer, in a slot or in the hands of a server, points to the stack
\* of a call that is still inside exec_blas and waits for that very job.
THEOREM JobAliveCorrect ==
    ASSUME SingleSetter
    PROVE  Spec => []JobAlive
<1>1. ASSUME Inv, Safe PROVE JobAlive
  <2>1. ASSUME NEW j \in Jobs,
               \/ \E q \in Slots : queue[q] = j
               \/ \E s \in Servers : spc[s] = "running" /\ sjob[s] = j
        PROVE  Pointed(j)
    <3>1. PICK c \in Callers, i \in Indices : j = <<c, i>>
      BY PairJob
    <3>2. HandedOut(c, i) /\ job[c][i] \in {"todo", "running"}
      BY <1>1, <2>1, <3>1 DEF Safe, Jobbed, Queued, Taken
    <3>3. pc[c] \in ExecStates
      BY <1>1, <3>2, HandedOutUp
    <3> QED BY <3>1, <3>2, <3>3 DEF Pointed, Inside
  <2>2. \A q \in Slots : Pointed(queue[q])
    BY <2>1 DEF Pointed
  <2>3. ASSUME NEW s \in Servers PROVE Pointed(sjob[s])
    <3>1. CASE sjob[s] \in Jobs
      <4>1. queue[Cpu(s)] = sjob[s] \/ spc[s] = "running"
        BY <1>1, <3>1, PointerAssumption DEF Safe, ServerOf
      <4> QED BY <2>1, <3>1, <4>1, CpuRange
    <3> QED BY <3>1 DEF Pointed
  <2> QED BY <2>2, <2>3 DEF JobAlive
<1> QED BY <1>1, SafeCorrect, PTL

\* No server waits on its condition variable over a job unless the caller that
\* posted it still comes by to signal: the unlocked store of the pointer, the
\* look at it and the locked store of the status cannot miss each other.
THEOREM NoLostWakeupCorrect ==
    ASSUME SingleSetter
    PROVE  Spec => []NoLostWakeup
<1>1. Safe => NoLostWakeup
  BY DEF Safe
<1> QED BY <1>1, SafeCorrect, PTL

\* Whatever blas_thread_init, goto_set_num_threads and blas_thread_shutdown do
\* to the pool, each of its slots has exactly one server between shutdowns.
THEOREM PoolShapeCorrect ==
    ASSUME SingleSetter
    PROVE  Spec => []PoolShape
<1>1. ASSUME Inv, Safe PROVE PoolShape
  <2> SUFFICES ASSUME ~Shutting, NEW i \in Slots
               PROVE  Cardinality(Live(i)) = IF avail /\ i < numThreads - 1 THEN 1 ELSE 0
    BY DEF PoolShape
  <2>1. \A s \in Servers : spc[s] # "dead"
    BY <1>1 DEF Safe, Pool
  <2>2. CASE avail /\ i < numThreads - 1
    <3>1. i \in 0 .. (numThreads - 2)
      BY <1>1, <2>2 DEF Inv, TypeOK, Slots
    <3>2. PICK s \in Servers : Cpu(s) = i /\ spc[s] # "none"
      BY <1>1, <2>2, <3>1 DEF Safe, Pool
    <3>3. \A t \in Servers : Cpu(t) = i /\ spc[t] # "none" => t = s
      BY <1>1, <3>2 DEF Safe, Pool
    <3>4. Live(i) = {s}
      BY <2>1, <3>2, <3>3 DEF Live
    <3> QED BY <2>2, <3>4, FS_Singleton
  <2>3. CASE ~(avail /\ i < numThreads - 1)
    <3>1. Live(i) = {}
      BY <1>1, <2>3 DEF Safe, Pool, Live
    <3> QED BY <2>3, <3>1, FS_EmptySet
  <2> QED BY <2>2, <2>3
<1> QED BY <1>1, SafeCorrect, PTL

-----------------------------------------------------------------------------
(* ForkJoin.                                                               *)

LEMMA FJInit == Init => FJ!Init
<1> SUFFICES ASSUME Init PROVE FJ!Init
  OBVIOUS
<1>1. [c \in Callers |-> Inside(c)] = [c \in Callers |-> FALSE]
  <2>1. \A c \in Callers : Inside(c) = FALSE
    BY DEF Init, Inside, ExecStates
  <2> QED BY <2>1
<1>2. job = [c \in Callers |-> FJ!NoJobs]
  BY DEF Init, FJ!NoJobs, FJ!Indices, NoJobs, Indices
<1> QED BY <1>1, <1>2 DEF FJ!Init

\* What ForkJoin sees of a step.
Stutter == UNCHANGED job /\ \A c \in Callers : Inside(c)' = Inside(c)

LEMMA FJStutter == ASSUME Stutter PROVE UNCHANGED FJ!vars
BY DEF Stutter, FJ!vars

\* One caller enters exec_blas or leaves it.
LEMMA OneCaller ==
    ASSUME NEW c \in Callers, NEW value \in BOOLEAN, Inside(c)' = value,
           \A d \in Callers : d # c => Inside(d)' = Inside(d)
    PROVE  [d \in Callers |-> Inside(d)]' = [[d \in Callers |-> Inside(d)] EXCEPT ![c] = value]
<1> DEFINE f == [d \in Callers |-> Inside(d)]
           g == [d \in Callers |-> Inside(d)']
<1>1. f = [d \in Callers |-> f[d]] /\ g = [d \in Callers |-> g[d]]
  OBVIOUS
<1>2. g[c] = value
  OBVIOUS
<1>3. \A d \in Callers : d # c => g[d] = f[d]
  OBVIOUS
<1> HIDE DEF f, g
<1>4. g = [f EXCEPT ![c] = value]
  BY <1>1, <1>2, <1>3
<1> QED BY <1>4 DEF f, g

LEMMA FJCaller ==
    ASSUME Inv, Safe, NEW c \in Callers, Caller(c)
    PROVE  [FJ!Next]_(FJ!vars)
<1>0. TypeOK /\ WalkOf(c) /\ cpuNumber \in 1 .. MaxThreads /\ Progress(c) /\ 0 \in Indices
  BY IndexRange DEF Inv, TypeOK, Safe, Jobbed
<1>1. \A d \in Callers : d # c => Inside(d)' = Inside(d)
  BY <1>0, OthersUnmoved DEF Unmoved, Inside
<1>2. ASSUME UNCHANGED job, Inside(c)' = Inside(c) PROVE [FJ!Next]_(FJ!vars)
  BY <1>1, <1>2, FJStutter DEF Stutter
<1>3. CASE Call(c)
  <2>1. PICK n \in 2 .. cpuNumber :
          job' = [job EXCEPT ![c] = [i \in Indices |-> IF i < n THEN "todo" ELSE "none"]]
    BY <1>3 DEF Call
  <2>2. n \in 1 .. MaxThreads
    BY <1>0
  <2>3. Inside(c) = FALSE /\ Inside(c)' = TRUE
    BY <1>0, <1>3 DEF Call, Go, TypeOK, Inside, ExecStates
  <2>4. [d \in Callers |-> Inside(d)]' = [[d \in Callers |-> Inside(d)] EXCEPT ![c] = TRUE]
    BY <1>1, <2>3, OneCaller
  <2>5. FJ!Enter(c)
    BY <2>1, <2>2, <2>3, <2>4 DEF FJ!Enter, FJ!Indices, Indices
  <2> QED BY <2>5 DEF FJ!Next
<1>4. CASE StartOwn(c) \/ FinishOwn(c)
  <2>1. Inside(c)' = Inside(c)
    BY <1>0, <1>4 DEF StartOwn, FinishOwn, Go, TypeOK, Inside, ExecStates
  <2>2. [d \in Callers |-> Inside(d)]' = [d \in Callers |-> Inside(d)]
    BY <1>1, <2>1
  <2>3. FJ!Start(c, 0) \/ FJ!Finish(c, 0)
    <3>1. CASE StartOwn(c)
      <4>1. job[c][0] = "todo" /\ job' = [job EXCEPT ![c][0] = "running"]
        BY <1>0, <3>1 DEF StartOwn, Progress, OwnState, ExecStates
      <4> QED BY <2>2, <4>1 DEF FJ!Start
    <3>2. CASE FinishOwn(c)
      <4>1. job[c][0] = "running" /\ job' = [job EXCEPT ![c][0] = "done"]
        BY <1>0, <3>2 DEF FinishOwn, Progress, OwnState, ExecStates
      <4> QED BY <2>2, <4>1 DEF FJ!Finish
    <3> QED BY <1>4, <3>1, <3>2
  <2> QED BY <1>0, <2>3 DEF FJ!Next, FJ!Indices, Indices
<1>5. CASE Wait(c)
  <2>0. pc[c] = "wait" /\ Awaited(c) = Null
    BY <1>5 DEF Wait, WaitFor
  <2>1. CASE k[c] < num[c] - 1
    <3>1. UNCHANGED <<pc, job>>
      BY <1>5, <2>1 DEF Wait, WaitFor
    <3> QED BY <1>2, <3>1 DEF Inside
  <2>2. CASE ~(k[c] < num[c] - 1)
    <3>1. Leave(c) /\ job' = [job EXCEPT ![c] = NoJobs]
      BY <1>5, <2>2 DEF Wait, WaitFor
    <3>2. Inside(c) = TRUE /\ Inside(c)' = FALSE
      BY <1>0, <2>0, <3>1, LeaveType DEF Inside, ExecStates
    <3>3. [d \in Callers |-> Inside(d)]' = [[d \in Callers |-> Inside(d)] EXCEPT ![c] = FALSE]
      BY <1>1, <3>2, OneCaller
    <3>4. job[c][k[c]] = "done"
      BY <2>0, WaitDone DEF Safe
    <3>5. k[c] \in 1 .. (num[c] - 1) /\ num[c] \in 2 .. MaxThreads
      BY <1>0, <2>0 DEF WalkOf, ExecStates
    <3>6. ASSUME NEW i \in Indices PROVE job[c][i] \in {"done", "none"}
      <4>1. i \in Nat
        BY DEF Indices
      <4>2. CASE i = 0
        BY <1>0, <2>0, <4>2 DEF Progress, OwnState, ExecStates
      <4>3. CASE i = k[c]
        BY <3>4, <4>3
      <4>4. CASE i >= num[c]
        BY <1>0, <2>0, <3>5, <4>1, <4>4 DEF Progress, ExecStates
      <4>5. CASE 1 <= i /\ i < k[c]
        <5>1. ~HandedOut(c, i) /\ i < num[c]
          BY <2>0, <3>5, <4>1, <4>5 DEF HandedOut
        <5> QED BY <1>0, <2>0, <4>5, <5>1 DEF Progress, ExecStates
      <4> QED BY <2>2, <3>5, <4>1, <4>2, <4>3, <4>4, <4>5
    <3>7. FJ!Return(c)
      BY <3>1, <3>2, <3>3, <3>6 DEF FJ!Return, FJ!Indices, FJ!NoJobs, Indices, NoJobs
    <3> QED BY <3>7 DEF FJ!Next
  <2> QED BY <2>1, <2>2
<1>6. CASE ~Call(c) /\ ~StartOwn(c) /\ ~FinishOwn(c) /\ ~Wait(c)
  <2>1. UNCHANGED job
    BY <1>6 DEF Caller, SetCall, Fork, ExecBlas, Enter, ExecInit, Lock, Skip, Post, Place, Wake,
         Signal, SetNumThreads, SetEnter, SetInit, SetRead, SetGrow, SetStore, Shutdown, ShutLock,
         ShutPost, ShutJoin
  <2>2. Inside(c)' = Inside(c)
    <3>1. CASE Enter(c) \/ ExecInit(c) \/ Lock(c) \/ Skip(c) \/ Post(c)
      BY <1>0, <3>1 DEF Enter, ExecInit, Lock, Skip, Post, Place, Go, TypeOK, Inside, ExecStates
    <3>2. CASE Wake(c) \/ Signal(c)
      <4>1. pc[c] \in {"wake", "signal"} /\ (Advance(c, "own") \/ Go(c, "signal"))
        BY <3>2 DEF Wake, Signal
      <4>2. Go(c, "signal") => pc'[c] = "signal"
        BY <1>0 DEF Go, TypeOK
      <4>3. pc'[c] \in {"wake", "signal", "own"}
        BY <1>0, <4>1, <4>2, AdvanceType
      <4> QED BY <4>1, <4>3 DEF Inside, ExecStates
    <3>3. CASE SetCall(c) \/ Fork(c) \/ SetNumThreads(c)
      BY <1>0, <3>3 DEF SetCall, Fork, SetNumThreads, SetEnter, SetInit, SetRead, SetGrow, SetStore,
                        Go, Leave, TypeOK, Inside, ExecStates
    <3>4. CASE Shutdown(c)
      BY <1>0, <3>4 DEF Shutdown, ShutLock, ShutPost, ShutJoin, Go, Leave, TypeOK, Inside, ExecStates
    <3> QED BY <1>6, <3>1, <3>2, <3>3, <3>4 DEF Caller, ExecBlas
  <2> QED BY <1>2, <2>1, <2>2
<1> QED BY <1>3, <1>4, <1>5, <1>6

LEMMA FJServer ==
    ASSUME Inv, Safe, NEW s \in Servers, Server(s)
    PROVE  [FJ!Next]_(FJ!vars)
<1>0. TypeOK /\ Cpu(s) \in Slots /\ ServerOf(s)
  BY CpuRange DEF Inv, Safe
<1>1. UNCHANGED pc
  BY ServerUnmoved DEF callerVars
<1>2. [d \in Callers |-> Inside(d)]' = [d \in Callers |-> Inside(d)]
  BY <1>1 DEF Inside
<1>3. CASE Start(s) \/ Finish(s)
  <2>1. sjob[s] \in Jobs
    BY <1>0, <1>3 DEF Start, StartWith, Finish, ServerOf
  <2>2. PICK c \in Callers, i \in Indices : sjob[s] = <<c, i>>
    BY <2>1, PairJob
  <2>3. FJ!Start(c, i) \/ FJ!Finish(c, i)
    <3>1. CASE Start(s)
      <4>1. job' = [job EXCEPT ![c][i] = "running"]
        BY <2>2, <3>1 DEF Start, StartWith
      <4>2. job[c][i] = "todo"
        BY <1>0, <2>2, <3>1 DEF Start, StartWith, ServerOf, Safe, Jobbed, Queued
      <4> QED BY <1>2, <4>1, <4>2 DEF FJ!Start
    <3>2. CASE Finish(s)
      <4>1. job' = [job EXCEPT ![c][i] = "done"]
        BY <2>2, <3>2 DEF Finish
      <4>2. job[c][i] = "running"
        BY <2>2, <3>2 DEF Finish, Safe, Jobbed, Taken
      <4> QED BY <1>2, <4>1, <4>2 DEF FJ!Finish
    <3> QED BY <1>3, <3>1, <3>2
  <2> QED BY <2>3 DEF FJ!Next, FJ!Indices, Indices
<1>4. CASE ~Start(s) /\ ~Finish(s)
  <2>1. UNCHANGED job
    BY <1>4 DEF Server, Work, See, Fetch, Timeout, Doze, Sleep, Spurious, Reacquire
  <2> QED BY <1>2, <2>1 DEF FJ!vars
<1> QED BY <1>3, <1>4

\* exec_blas keeps its promise: every job of a call is run exactly once and the
\* call returns after the last of them, whatever other callers post to the same
\* slots, and whether servers poll, sleep, are started or have been stopped.
THEOREM Implementation ==
    ASSUME SingleSetter
    PROVE  Spec => RunsJobsOnce
<1>1. Inv /\ Safe /\ [Next]_vars => [FJ!Next]_(FJ!vars)
  <2> SUFFICES ASSUME Inv, Safe, [Next]_vars PROVE [FJ!Next]_(FJ!vars)
    OBVIOUS
  <2>1. ASSUME NEW c \in Callers, Caller(c) PROVE [FJ!Next]_(FJ!vars)
    BY <2>1, FJCaller
  <2>2. ASSUME NEW s \in Servers, Server(s) PROVE [FJ!Next]_(FJ!vars)
    BY <2>2, FJServer
  <2>3. CASE UNCHANGED vars
    <3>1. Stutter
      BY <2>3 DEF vars, callerVars, Stutter, Inside
    <3> QED BY <3>1, FJStutter
  <2> QED BY <2>1, <2>2, <2>3 DEF Next
<1> QED BY <1>1, FJInit, SafeCorrect, PTL DEF Spec, RunsJobsOnce, FJ!Spec

-----------------------------------------------------------------------------
(* The work buffers.                                                       *)

\* The buffer of a running job is taken from it only by a caller that comes late
\* to blas_thread_init, and only in a slot beyond blas_cpu_number, which has been
\* lowered: not by the start of a pool, and not by blas_thread_shutdown.
BufferTaken ==
    \A s \in Servers :
        spc[s] = "running" /\ buffer[Cpu(s)] /\ ~buffer'[Cpu(s)] =>
            /\ avail /\ cpuNumber <= Cpu(s) /\ Cpu(s) < numThreads - 1
            /\ \E c \in Callers : pc[c] \in {"exec_init", "set_init"}

LEMMA TakenByCaller ==
    ASSUME Inv, Safe, NEW c \in Callers, Caller(c)
    PROVE  BufferTaken
<1> SUFFICES ASSUME NEW s \in Servers, spc[s] = "running", buffer[Cpu(s)], ~buffer'[Cpu(s)]
             PROVE  /\ avail /\ cpuNumber <= Cpu(s) /\ Cpu(s) < numThreads - 1
                    /\ pc[c] \in {"exec_init", "set_init"}
  BY DEF BufferTaken
<1>0. TypeOK /\ Cpu(s) \in Slots /\ Cpu(s) \in Indices
  BY CpuRange, IndexRange DEF Inv
<1>1. avail /\ Cpu(s) < numThreads - 1
  BY DEF Safe, Pool
<1>2. ~ShutLock(c)
  <2>1. PICK d \in Callers, i \in Indices : sjob[s] = <<d, i>>
    BY PairJob DEF Safe, ServerOf
  <2>2. HandedOut(d, i)
    BY <2>1 DEF Safe, Jobbed, Taken
  <2>3. pc[c] # "shut"
    BY <2>2 DEF Inv, ShutAlone, ShutStates, HandedOut
  <2> QED BY <2>3 DEF ShutLock
<1>3. ExecInit(c) \/ SetInit(c)
  <2>1. buffer' # buffer
    OBVIOUS
  <2> QED BY <1>2, <2>1
     DEF Caller, Call, SetCall, Fork, ExecBlas, Enter, Lock, Skip, Post, Place, Wake, Signal, StartOwn,
         FinishOwn, Wait, WaitFor, SetNumThreads, SetEnter, SetRead, SetGrow, SetStore, Shutdown,
         ShutPost, ShutJoin, poolVars
<1>4. pc[c] \in {"exec_init", "set_init"} /\ BlasThreadInit
  BY <1>3 DEF ExecInit, SetInit
<1>5. cpuNumber <= Cpu(s)
  <2>1. buffer'[Cpu(s)] = (Cpu(s) < cpuNumber)
    BY <1>0, <1>4 DEF BlasThreadInit, AdjustBuffers
  <2> QED BY <1>0, <2>1 DEF TypeOK, Slots
<1> QED BY <1>1, <1>4, <1>5

LEMMA TakenByNobodyElse ==
    ASSUME Inv, [Next]_vars, \A c \in Callers : ~Caller(c)
    PROVE  BufferTaken
<1>1. CASE UNCHANGED vars
  BY <1>1 DEF vars, poolVars, BufferTaken
<1>2. ASSUME NEW t \in Servers, Server(t) PROVE BufferTaken
  <2>1. CASE Start(t)
    <3>1. buffer' = [buffer EXCEPT ![Cpu(t)] = TRUE]
      BY <2>1 DEF Start, StartWith
    <3>2. \A s \in Servers : Cpu(s) \in Indices
      BY CpuRange, IndexRange
    <3> QED BY <3>1, <3>2 DEF Inv, TypeOK, BufferTaken
  <2>2. CASE ~Start(t)
    <3>1. UNCHANGED buffer
      BY <1>2, <2>2 DEF Server, Work, See, Fetch, Finish, Timeout, Doze, Sleep, Spurious, Reacquire,
                        poolVars
    <3> QED BY <3>1 DEF BufferTaken
  <2> QED BY <2>1, <2>2
<1> QED BY <1>1, <1>2 DEF Next

\* Whatever the settings: the one way for a running job to lose its work buffer is a
\* late blas_thread_init that finds blas_cpu_number lowered below the job's slot.
THEOREM BufferTakenCorrect ==
    ASSUME SingleSetter PROVE Spec => [][BufferTaken]_vars
<1>1. Inv /\ Safe /\ [Next]_vars => BufferTaken
  <2> SUFFICES ASSUME Inv, Safe, [Next]_vars PROVE BufferTaken
    OBVIOUS
  <2>1. CASE \E c \in Callers : Caller(c)
    BY <2>1, TakenByCaller
  <2>2. CASE \A c \in Callers : ~Caller(c)
    BY <2>2, TakenByNobodyElse
  <2> QED BY <2>1, <2>2
<1>2. Spec => [](Inv /\ Safe)
  BY SafeCorrect
<1> QED BY <1>1, <1>2, PTL DEF Spec

\* The numbers of threads in use lie at most one apart.
OneApart == \A m, n \in Settings \cup {Initial} : m <= n + 1

Chosen ==
    cpuNumber \in Settings \cup {Initial} /\ numThreads \in Settings \cup {Initial}

LEMMA ChosenStep ==
    ASSUME Inv, Chosen, [Next]_vars
    PROVE  Chosen'
<1>1. ASSUME NEW c \in Callers, Caller(c) PROVE Chosen'
  <2>1. pc[c] \in SetStates => num[c] \in Settings
    BY DEF Inv, WalkOf
  <2>2. CASE SetGrow(c)
    BY <2>1, <2>2 DEF SetGrow, SetStates, Chosen
  <2>3. CASE SetStore(c)
    BY <2>1, <2>3 DEF SetStore, SetStates, Chosen
  <2>4. CASE ~SetGrow(c) /\ ~SetStore(c)
    <3>1. UNCHANGED <<cpuNumber, numThreads>>
      BY <1>1, <2>4
         DEF Caller, Call, SetCall, Fork, ExecBlas, Enter, ExecInit, Lock, Skip, Post, Place, Wake,
             Signal, StartOwn, FinishOwn, Wait, WaitFor, SetNumThreads, SetEnter, SetInit, SetRead,
             Shutdown, ShutLock, ShutPost, ShutJoin, BlasThreadInit, poolVars
    <3> QED BY <3>1 DEF Chosen
  <2> QED BY <2>2, <2>3, <2>4
<1>2. ASSUME NEW s \in Servers, Server(s) PROVE Chosen'
  BY <1>2, ServerUnmoved DEF Chosen
<1>3. CASE UNCHANGED vars
  BY <1>3 DEF vars, poolVars, Chosen
<1> QED BY <1>1, <1>2, <1>3 DEF Next

\* Who begins to run a job has a buffer.
LEMMA BegunWithBuffer ==
    ASSUME SingleSetter, Inv, Safe, [Next]_vars, NEW s \in Servers, spc[s] # "running", spc'[s] = "running"
    PROVE  buffer'[Cpu(s)]
<1>0. TypeOK /\ Cpu(s) \in Indices
  BY CpuRange, IndexRange DEF Inv
<1>1. ASSUME NEW c \in Callers, Caller(c) PROVE FALSE
  <2>1. CASE Post(c)
    BY <2>1 DEF Post, Place, serverVars
  <2>2. CASE ~Post(c)
    BY <1>1, <2>2, CallerQuiet DEF Safe
  <2> QED BY <2>1, <2>2
<1>2. ASSUME NEW t \in Servers, Server(t) PROVE buffer'[Cpu(s)]
  <2>1. CASE Start(t)
    <3>1. spc' = [spc EXCEPT ![t] = "running"] /\ buffer' = [buffer EXCEPT ![Cpu(t)] = TRUE]
      BY <2>1 DEF Start, StartWith, Be
    <3>2. s = t BY <1>0, <3>1 DEF TypeOK
    <3> QED BY <1>0, <3>1, <3>2 DEF TypeOK
  <2>2. CASE ~Start(t)
    BY <1>0, <1>2, <2>2 DEF Server, Work, See, Fetch, Finish, Timeout, Doze, Sleep, Spurious, Reacquire,
                            Be, TypeOK
  <2> QED BY <2>1, <2>2
<1>3. CASE UNCHANGED vars
  BY <1>3 DEF vars, serverVars
<1> QED BY <1>1, <1>2, <1>3 DEF Next

\* A caller that comes late to blas_thread_init after the number of threads was
\* lowered by one gives back the highest buffer, which no server has, because the
\* pool has one server less than the highest number of threads; so the work buffer of
\* a running job is kept, over that and over shutdowns.
THEOREM BufferKeptCorrect ==
    ASSUME SingleSetter, OneApart PROVE Spec => []BufferKept
<1>1. Init => Chosen /\ BufferKept
  BY DEF Init, Chosen, BufferKept
<1>2. Inv /\ Safe /\ Chosen /\ BufferKept /\ [Next]_vars => BufferKept'
  <2> SUFFICES ASSUME Inv, Safe, Chosen, BufferKept, [Next]_vars, NEW s \in Servers,
                      spc'[s] = "running"
               PROVE  buffer'[Cpu(s)]
    BY DEF BufferKept
  <2>1. CASE spc[s] # "running"
    BY <2>1, BegunWithBuffer
  <2>2. CASE spc[s] = "running"
    <3>1. numThreads <= cpuNumber + 1
      BY DEF Chosen, OneApart
    <3>2. ~(cpuNumber <= Cpu(s) /\ Cpu(s) < numThreads - 1)
      BY <3>1, CpuRange DEF Inv, TypeOK, Slots
    <3>3. BufferTaken
      <4>1. CASE \E c \in Callers : Caller(c)
        BY <4>1, TakenByCaller
      <4>2. CASE \A c \in Callers : ~Caller(c)
        BY <4>2, TakenByNobodyElse
      <4> QED BY <4>1, <4>2
    <3> QED BY <2>2, <3>2, <3>3 DEF BufferTaken, BufferKept
  <2> QED BY <2>1, <2>2
<1>3. Inv /\ Chosen /\ [Next]_vars => Chosen'
  BY ChosenStep
<1>4. Spec => [](Inv /\ Safe)
  BY SafeCorrect
<1> QED BY <1>1, <1>2, <1>3, <1>4, PTL DEF Spec

-----------------------------------------------------------------------------
(* Nobody waits for ever on everybody else.                                *)

\* Locks are held by those who are about to release them.
Holders ==
    /\ \A c \in Callers : serverLock = c => pc[c] \in {"shutting", "joining"}
    /\ \A c \in Callers : queueLock = c <=> pc[c] = "post"
    /\ \A i \in Slots, s \in Servers \ {Nobody} :
          slotLock[i] = s => Cpu(s) = i /\ spc[s] = "drowsy"

\* A slot marked busy has a server at work.
BusyServed ==
    \A i \in Slots : queue[i] = Busy => \E s \in Servers : Cpu(s) = i /\ spc[s] = "running"

\* Who stops the pool has told the servers.
Told ==
    \A c \in Callers, i \in Slots :
        /\ pc[c] = "shutting" /\ i < k[c] => queue[i] = Exit
        /\ pc[c] = "joining" /\ i < numThreads - 1 => queue[i] = Exit

\* A server that waits over a job is going to be signalled by the very caller
\* that posted it.
OwnWake ==
    \A s \in Servers, c \in Callers, i \in Indices :
        spc[s] = "waiting" /\ queue[Cpu(s)] = <<c, i>> =>
            \/ pc[c] = "post" /\ i < k[c]
            \/ pc[c] \in {"wake", "signal"} /\ k[c] <= i

Owed == Holders /\ BusyServed /\ Told /\ OwnWake

LEMMA CallerWakes ==
    ASSUME TypeOK, NEW c \in Callers, Caller(c)
    PROVE  \A s \in Servers :
              \/ spc'[s] = spc[s]
              \/ spc[s] = "none" /\ spc'[s] = "poll"
              \/ spc[s] = "waiting" /\ spc'[s] = "woken"
              \/ spc[s] = "dead" /\ spc'[s] = "none"
<1>1. CASE BlasThreadInit \/ SetGrow(c)
  <2>1. UNCHANGED spc \/ \E slots : Spawn(slots)
    BY <1>1 DEF BlasThreadInit, SetGrow
  <2> QED BY <2>1 DEF Spawn, Fresh, TypeOK
<1>2. CASE Signal(c) \/ ShutPost(c)
  <2>1. UNCHANGED spc \/ \E slot : Notify(slot)
    BY <1>2 DEF Signal, ShutPost
  <2> QED BY <2>1, NotifyKeeps
<1>3. CASE ShutJoin(c)
  BY <1>3 DEF ShutJoin, TypeOK
<1>4. CASE ~BlasThreadInit /\ ~SetGrow(c) /\ ~Signal(c) /\ ~ShutPost(c) /\ ~ShutJoin(c)
  <2>1. UNCHANGED spc
    BY <1>4
       DEF Caller, Call, SetCall, Fork, ExecBlas, Enter, ExecInit, Lock, Skip, Post, Place, Wake,
           StartOwn, FinishOwn, Wait, WaitFor, SetNumThreads, SetEnter, SetInit, SetRead, SetStore,
           Shutdown, ShutLock, serverVars
  <2> QED BY <2>1
<1> QED BY <1>1, <1>2, <1>3, <1>4

LEMMA HoldersCaller ==
    ASSUME Inv, Holders, NEW c \in Callers, Caller(c)
    PROVE  Holders'
<1>0. TypeOK /\ c # Nobody
  BY ServerAssumption DEF Inv
<1>1. \A d \in Callers : d # c => pc'[d] = pc[d]
  BY <1>0, OthersUnmoved DEF Unmoved
<1>2. UNCHANGED slotLock /\ \A s \in Servers : spc[s] = "drowsy" => spc'[s] = "drowsy"
  <2>1. UNCHANGED slotLock
    BY DEF Caller, Call, SetCall, Fork, ExecBlas, Enter, ExecInit, Lock, Skip, Post, Place, Wake,
           Signal, StartOwn, FinishOwn, Wait, WaitFor, SetNumThreads, SetEnter, SetInit, SetRead,
           SetGrow, SetStore, Shutdown, ShutLock, ShutPost, ShutJoin, BlasThreadInit, slotVars
  <2> QED BY <1>0, <2>1, CallerWakes
<1>3. /\ UNCHANGED serverLock \/ serverLock' = Nobody \/ (serverLock' = c /\ pc'[c] \in {"shutting", "joining"})
      /\ pc[c] \in {"shutting", "joining"} => pc'[c] \in {"shutting", "joining"} \/ serverLock' = Nobody
  BY <1>0 DEF Caller, Call, SetCall, Fork, ExecBlas, Enter, ExecInit, Lock, Skip, Post, Place, Wake,
           Signal, StartOwn, FinishOwn, Wait, WaitFor, SetNumThreads, SetEnter, SetInit, SetRead,
           SetGrow, SetStore, Shutdown, ShutLock, ShutPost, ShutJoin, BlasThreadInit, poolVars, Go,
           TypeOK
<1>4. \/ UNCHANGED queueLock /\ (pc'[c] = "post" <=> pc[c] = "post")
      \/ queueLock = Nobody /\ queueLock' = c /\ pc'[c] = "post"
      \/ pc[c] = "post" /\ queueLock' = Nobody /\ pc'[c] = "wake"
  BY <1>0 DEF Caller, Call, SetCall, Fork, ExecBlas, Enter, ExecInit, Lock, Skip, Post, Place, Wake,
           Signal, StartOwn, FinishOwn, Wait, WaitFor, SetNumThreads, SetEnter, SetInit, SetRead,
           SetGrow, SetStore, Shutdown, ShutLock, ShutPost, ShutJoin, BlasThreadInit, slotVars, Go,
           Leave, Advance, TypeOK
<1>5. \A d \in Callers : serverLock' = d => pc'[d] \in {"shutting", "joining"}
  BY <1>0, <1>1, <1>3, ServerAssumption DEF Holders
<1>6. \A d \in Callers : queueLock' = d <=> pc'[d] = "post"
  BY <1>0, <1>1, <1>4, ServerAssumption DEF Holders
<1> QED BY <1>2, <1>5, <1>6 DEF Holders

LEMMA HoldersServer ==
    ASSUME Inv, Holders, NEW s \in Servers, Server(s)
    PROVE  Holders'
<1>0. TypeOK /\ Cpu(s) \in Slots
  BY CpuRange DEF Inv
<1>1. UNCHANGED <<pc, serverLock, queueLock>> /\ \A t \in Servers : t # s => spc'[t] = spc[t]
  <2>1. \A t \in Servers : t # s => spc'[t] = spc[t]
    BY <1>0 DEF Server, Work, See, Fetch, Start, StartWith, Finish, Timeout, Doze, Sleep, Spurious,
                Reacquire, Be, TypeOK
  <2> QED BY <2>1, ServerUnmoved DEF callerVars
<1>2. \/ UNCHANGED slotLock /\ spc[s] # "drowsy"
      \/ slotLock' = [slotLock EXCEPT ![Cpu(s)] = s] /\ spc'[s] = "drowsy"
      \/ slotLock' = [slotLock EXCEPT ![Cpu(s)] = Nobody]
  BY <1>0 DEF Server, Work, See, Fetch, Start, StartWith, Finish, Timeout, Doze, Sleep, Spurious,
              Reacquire, Be, TypeOK, slotVars
<1>3. ASSUME NEW i \in Slots, NEW t \in Servers \ {Nobody}, slotLock'[i] = t
      PROVE  Cpu(t) = i /\ spc'[t] = "drowsy"
  <2>1. CASE slotLock'[i] = slotLock[i] /\ (t = s => spc[s] # "drowsy")
    BY <1>1, <1>3, <2>1 DEF Holders
  <2>2. CASE i = Cpu(s) /\ slotLock'[i] = s /\ spc'[s] = "drowsy"
    BY <1>3, <2>2
  <2>3. CASE i = Cpu(s) /\ slotLock'[i] = Nobody
    BY <1>3, <2>3
  <2>4. CASE i # Cpu(s) /\ slotLock'[i] = slotLock[i] /\ t = s
    BY <1>3, <2>4 DEF Holders
  <2> QED BY <1>0, <1>2, <1>3, <2>1, <2>2, <2>3, <2>4 DEF TypeOK
<1> QED BY <1>1, <1>3 DEF Holders

\* Only Start marks a slot busy, only Finish ends its work.
LEMMA BusyCaller ==
    ASSUME SingleSetter, Inv, Counts, Pool, Jobbed, BusyServed, NEW c \in Callers, Caller(c)
    PROVE  BusyServed'
<1>0. TypeOK
  BY DEF Inv
<1>1. \A s \in Servers : spc[s] = "running" => spc'[s] = "running"
  BY <1>0, CallerWakes
<1>2. ASSUME NEW i \in Slots, queue'[i] = Busy PROVE queue[i] = Busy
  <2>1. CASE BlasThreadInit \/ SetGrow(c)
    BY <1>2, <2>1, Spawned, PointerAssumption
  <2>2. CASE ShutPost(c)
    <3>1. queue' = [queue EXCEPT ![k[c]] = Exit]
      BY <2>2 DEF ShutPost
    <3> QED BY <1>0, <1>2, <3>1, PointerAssumption DEF TypeOK
  <2>4. CASE Post(c)
    <3>1. queue' = [queue EXCEPT ![scan[c]] = <<c, k[c]>>] /\ pc[c] = "post"
      BY <2>4 DEF Post, Place
    <3>2. WalkOf(c)
      BY DEF Inv
    <3>3. <<c, k[c]>> \in Jobs
      <4>1. k[c] \in 1 .. (num[c] - 1) /\ num[c] \in 2 .. MaxThreads
        BY <3>1, <3>2 DEF WalkOf, ExecStates
      <4>2. k[c] \in Indices
        BY <4>1 DEF Indices
      <4> QED BY <4>2 DEF Jobs
    <3> QED BY <1>0, <1>2, <3>1, <3>3, PointerAssumption DEF TypeOK
  <2>3. CASE ~BlasThreadInit /\ ~SetGrow(c) /\ ~ShutPost(c) /\ ~Post(c)
    <3>1. UNCHANGED queue
      BY <2>3
         DEF Caller, Call, SetCall, Fork, ExecBlas, Enter, ExecInit, Lock, Skip, Wake, Signal, StartOwn,
             FinishOwn, Wait, WaitFor, SetNumThreads, SetEnter, SetInit, SetRead, SetStore, Shutdown,
             ShutLock, ShutJoin, slotVars
    <3> QED BY <1>2, <3>1
  <2> QED BY <2>1, <2>2, <2>3, <2>4
<1> QED BY <1>1, <1>2 DEF BusyServed

LEMMA BusyServer ==
    ASSUME Inv, BusyServed, NEW s \in Servers, Server(s)
    PROVE  BusyServed'
<1>0. TypeOK /\ Cpu(s) \in Slots
  BY CpuRange DEF Inv
<1>1. CASE Start(s)
  <2>1. spc'[s] = "running" /\ \A i \in Slots : i # Cpu(s) => queue'[i] = queue[i]
    BY <1>0, <1>1 DEF Start, StartWith, Be, TypeOK
  <2>2. \A t \in Servers : t # s => spc'[t] = spc[t]
    BY <1>0, <1>1 DEF Start, StartWith, Be, TypeOK
  <2> QED BY <2>1, <2>2 DEF BusyServed
<1>2. CASE Finish(s)
  <2>1. queue'[Cpu(s)] = Null /\ \A i \in Slots : i # Cpu(s) => queue'[i] = queue[i]
    BY <1>0, <1>2 DEF Finish, TypeOK
  <2>2. \A t \in Servers : t # s => spc'[t] = spc[t]
    BY <1>0, <1>2 DEF Finish, Be, TypeOK
  <2> QED BY <2>1, <2>2, PointerAssumption DEF BusyServed
<1>3. CASE ~Start(s) /\ ~Finish(s)
  <2>1. UNCHANGED queue /\ \A t \in Servers : spc[t] = "running" => spc'[t] = "running"
    BY <1>0, <1>3 DEF Server, Work, See, Fetch, Timeout, Doze, Sleep, Spurious, Reacquire, Be,
                      TypeOK, slotVars
  <2> QED BY <2>1 DEF BusyServed
<1> QED BY <1>1, <1>2, <1>3

\* The pointer -1 stays where blas_thread_shutdown put it.
LEMMA ToldCaller ==
    ASSUME Inv, Told, NEW c \in Callers, Caller(c)
    PROVE  Told'
<1>0. TypeOK /\ WalkOf(c) /\ numThreads \in Nat
  BY DEF Inv, TypeOK
<1>1. \A d \in Callers : d # c => pc'[d] \notin ShutStates
  BY <1>0, ShutBlocks, OthersUnmoved DEF Unmoved
<1>2. ASSUME pc'[c] \in {"shutting", "joining"}
      PROVE  \/ ShutLock(c) /\ pc[c] = "shut" /\ UNCHANGED <<k, numThreads>>
             \/ ShutPost(c) /\ pc[c] = "shutting" /\ UNCHANGED numThreads
  BY <1>0, <1>2 DEF Caller, Call, SetCall, Fork, ExecBlas, Enter, ExecInit, Lock, Skip, Post, Place,
           Wake, Signal, StartOwn, FinishOwn, Wait, WaitFor, SetNumThreads, SetEnter, SetInit, SetRead,
           SetGrow, SetStore, Shutdown, ShutLock, ShutPost, ShutJoin, Go, Leave, Advance, TypeOK,
           poolVars
<1>3. ASSUME NEW i \in Slots, pc'[c] = "shutting", i < k'[c] PROVE queue'[i] = Exit
  <2>1. i \in Nat
    BY DEF Slots
  <2>2. CASE ShutLock(c) /\ pc[c] = "shut" /\ UNCHANGED k
    BY <1>0, <1>3, <2>1, <2>2 DEF WalkOf
  <2>3. CASE ShutPost(c) /\ pc[c] = "shutting"
    <3>1. /\ queue' = [queue EXCEPT ![k[c]] = Exit] /\ k[c] \in Nat
          /\ k'[c] = k[c] + 1
      BY <1>0, <1>3, <2>3 DEF ShutPost, Go, TypeOK
    <3>2. i < k[c] \/ i = k[c]
      BY <1>3, <2>1, <3>1
    <3> QED BY <1>0, <2>3, <3>1, <3>2 DEF Told, TypeOK
  <2> QED BY <1>2, <1>3, <2>2, <2>3
<1>4. ASSUME NEW i \in Slots, pc'[c] = "joining", i < numThreads' - 1 PROVE queue'[i] = Exit
  <2>1. i \in Nat
    BY DEF Slots
  <2>2. CASE ShutLock(c) /\ UNCHANGED numThreads
    <3>1. ~(numThreads > 1)
      BY <1>0, <1>4, <2>2 DEF ShutLock, Go, Leave, TypeOK
    <3> QED BY <1>0, <1>4, <2>1, <2>2, <3>1
  <2>3. CASE ShutPost(c) /\ pc[c] = "shutting" /\ UNCHANGED numThreads
    <3>1. /\ queue' = [queue EXCEPT ![k[c]] = Exit] /\ k[c] \in Nat
          /\ ~(k[c] < numThreads - 2)
      BY <1>0, <1>4, <2>3 DEF ShutPost, Go, TypeOK
    <3>2. i < k[c] \/ i = k[c]
      BY <1>0, <1>4, <2>1, <2>3, <3>1
    <3> QED BY <1>0, <2>3, <3>1, <3>2 DEF Told, TypeOK
  <2> QED BY <1>2, <1>4, <2>2, <2>3
<1> QED BY <1>1, <1>3, <1>4 DEF Told, ShutStates

LEMMA ToldServer ==
    ASSUME Inv, Told, NEW s \in Servers, ServerOf(s), Server(s)
    PROVE  Told'
<1>0. TypeOK /\ Cpu(s) \in Slots
  BY CpuRange DEF Inv
<1>1. UNCHANGED <<pc, k, numThreads>>
  BY ServerUnmoved DEF callerVars
<1>2. \/ UNCHANGED queue
      \/ (Start(s) \/ Finish(s)) /\ \E q \in {Busy, Null} : queue' = [queue EXCEPT ![Cpu(s)] = q]
  <2>1. CASE Start(s)
    BY <2>1 DEF Start, StartWith
  <2>2. CASE Finish(s)
    BY <2>2 DEF Finish
  <2>3. CASE ~Start(s) /\ ~Finish(s)
    BY <2>3 DEF Server, Work, See, Fetch, Timeout, Doze, Sleep, Spurious, Reacquire, slotVars
  <2> QED BY <2>1, <2>2, <2>3
<1>3. Start(s) \/ Finish(s) => queue[Cpu(s)] # Exit
  BY PointerAssumption DEF Start, StartWith, Finish, ServerOf
<1>4. \A i \in Slots : queue[i] = Exit => queue'[i] = Exit
  BY <1>0, <1>2, <1>3 DEF TypeOK
<1> QED BY <1>1, <1>4 DEF Told

LEMMA OwnWakeServer ==
    ASSUME Inv, Pool, OwnWake, NEW s \in Servers, Server(s)
    PROVE  OwnWake'
<1>0. TypeOK /\ Cpu(s) \in Slots
  BY CpuRange DEF Inv
<1>1. UNCHANGED <<pc, k>>
  BY ServerUnmoved DEF callerVars
<1>2. /\ spc[s] # "none" /\ \A t \in Servers : t # s => spc'[t] = spc[t]
      /\ \A q \in Slots : q # Cpu(s) => queue'[q] = queue[q]
  BY SMTT(30), <1>0 DEF Server, Work, See, Fetch, Start, StartWith, Finish, Timeout, Doze, Sleep,
                        Spurious, Reacquire, Be, TypeOK, slotVars
<1>6. spc'[s] = "waiting" => queue'[Cpu(s)] = Null
  <2>1. spc'[s] = "waiting" => Sleep(s)
    BY <1>0 DEF Server, Work, See, Fetch, Start, StartWith, Finish, Timeout, Doze, Spurious,
                Reacquire, Be, TypeOK
  <2>2. Sleep(s) /\ spc'[s] = "waiting" => queue[Cpu(s)] = Null /\ UNCHANGED queue
    BY <1>0 DEF Sleep, Be, TypeOK
  <2> QED BY <2>1, <2>2
<1>3. \A c \in Callers, i \in Indices : <<c, i>> # Null
  BY PointerAssumption DEF Jobs
<1>4. \A t \in Servers : t # s /\ spc[t] # "none" => Cpu(t) # Cpu(s)
  BY <1>2 DEF Pool
<1>5. ASSUME NEW t \in Servers, NEW c \in Callers, NEW i \in Indices,
             spc'[t] = "waiting", queue'[Cpu(t)] = <<c, i>>
      PROVE  \/ pc[c] = "post" /\ i < k[c]
             \/ pc[c] \in {"wake", "signal"} /\ k[c] <= i
  <2>1. t # s
    BY <1>3, <1>5, <1>6
  <2>2. spc[t] = "waiting" /\ queue[Cpu(t)] = <<c, i>>
    BY <1>2, <1>4, <1>5, <2>1, CpuRange
  <2> QED BY <2>2 DEF OwnWake
<1> QED BY <1>1, <1>5 DEF OwnWake

\* Posting a job is followed by waking its server; a job that is seen in its slot
\* is signalled.
LEMMA OwnWakeCaller ==
    ASSUME SingleSetter, Inv, Counts, Pool, Jobbed, \A s \in Servers : ServerOf(s), OwnWake,
           NEW a \in Callers, Caller(a)
    PROVE  OwnWake'
<1>0. TypeOK /\ WalkOf(a) /\ k[a] \in Nat /\ num[a] \in Nat
  BY DEF Inv, TypeOK
<1> SUFFICES ASSUME NEW s \in Servers, NEW c \in Callers, NEW i \in Indices,
                    spc'[s] = "waiting", queue'[Cpu(s)] = <<c, i>>
             PROVE  \/ pc'[c] = "post" /\ i < k'[c]
                    \/ pc'[c] \in {"wake", "signal"} /\ k'[c] <= i
  BY DEF OwnWake
<1>1. spc[s] = "waiting" /\ ServerOf(s) /\ Cpu(s) \in Slots /\ <<c, i>> \in Jobs /\ i \in Nat
  BY <1>0, CallerWakes, CpuRange DEF Jobs, Indices
<1>2. ASSUME queue[Cpu(s)] = <<c, i>>
      PROVE  /\ \/ pc[c] = "post" /\ i < k[c]
                \/ pc[c] \in {"wake", "signal"} /\ k[c] <= i
             /\ HandedOut(c, i) /\ assigned[c][i] = Cpu(s)
  BY <1>1, <1>2 DEF OwnWake, Jobbed, Queued
<1>3. c # a => pc'[c] = pc[c] /\ k'[c] = k[c]
  BY <1>0, OthersUnmoved DEF Unmoved
<1>4. CASE Post(a)
  <2>1. /\ pc[a] = "post" /\ scan[a] \in Slots
        /\ queue' = [queue EXCEPT ![scan[a]] = <<a, k[a]>>]
        /\ \/ k[a] < num[a] - 1 /\ k'[a] = k[a] + 1 /\ pc'[a] = "post"
           \/ k'[a] = 1 /\ pc'[a] = "wake"
    BY <1>0, <1>4 DEF Post, Place, Go, TypeOK
  <2>2. k[a] \in 1 .. (num[a] - 1)
    BY <1>0, <2>1 DEF WalkOf
  <2>3. CASE Cpu(s) = scan[a]
    <3>1. c = a /\ i = k[a]
      BY <1>0, <1>1, <2>1, <2>3 DEF TypeOK
    <3> QED BY <1>0, <2>1, <2>2, <3>1
  <2>4. CASE Cpu(s) # scan[a]
    <3>1. queue[Cpu(s)] = <<c, i>>
      BY <1>0, <1>1, <2>1, <2>4 DEF TypeOK
    <3>2. CASE c = a
      <4>1. i < k[a] /\ 1 <= i
        BY <1>2, <2>1, <3>1, <3>2 DEF HandedOut
      <4> QED BY <1>0, <1>1, <2>1, <3>2, <4>1
    <3> QED BY <1>2, <1>3, <3>1, <3>2
  <2> QED BY <2>3, <2>4
<1>5. CASE ~Post(a)
  <2>1. queue[Cpu(s)] = <<c, i>>
    BY <1>1, <1>5, CallerQuiet
  <2>2. CASE c # a
    BY <1>2, <1>3, <2>1, <2>2
  <2>3. CASE c = a
    <3>1. Skip(a) \/ Wake(a) \/ Signal(a)
      BY <1>2, <1>5, <2>1, <2>3
         DEF Caller, Call, SetCall, Fork, ExecBlas, Enter, ExecInit, Lock, StartOwn,
             FinishOwn, Wait, WaitFor, SetNumThreads, SetEnter, SetInit, SetRead, SetGrow, SetStore,
             Shutdown, ShutLock, ShutPost, ShutJoin
    <3>2. CASE Skip(a)
      <4>1. UNCHANGED <<pc, k>>
        BY <3>2 DEF Skip
      <4> QED BY <1>2, <2>1, <4>1
    <3>3. ASSUME Advance(a, "own"), i # k[a], pc[a] \in {"wake", "signal"}
          PROVE  pc'[a] = "wake" /\ k'[a] <= i
      <4>1. k[a] < i /\ i < num[a]
        BY <1>0, <1>1, <1>2, <2>1, <2>3, <3>3 DEF HandedOut
      <4>2. k[a] < num[a] - 1
        BY <1>0, <1>1, <4>1
      <4>3. k'[a] = k[a] + 1 /\ pc'[a] = "wake"
        BY <1>0, <3>3, <4>2, AdvanceType
      <4> QED BY <1>0, <1>1, <4>1, <4>3
    <3>4. CASE Wake(a)
      <4>1. CASE IsPointer(queue[assigned[a][k[a]]])
        <5>1. pc'[a] = "signal" /\ UNCHANGED k /\ pc[a] = "wake"
          BY <1>0, <3>4, <4>1 DEF Wake, Go, TypeOK
        <5> QED BY <1>2, <2>1, <2>3, <5>1
      <4>2. CASE ~IsPointer(queue[assigned[a][k[a]]])
        <5>1. Advance(a, "own") /\ pc[a] = "wake"
          BY <3>4, <4>2 DEF Wake
        <5>2. i # k[a]
          BY <1>1, <1>2, <2>1, <2>3, <4>2, PointerAssumption DEF IsPointer
        <5> QED BY <2>3, <3>3, <5>1, <5>2
      <4> QED BY <4>1, <4>2
    <3>5. CASE Signal(a)
      <4> DEFINE slot == assigned[a][k[a]]
      <4>1. /\ Advance(a, "own") /\ pc[a] = "signal"
            /\ IF status[slot] = "SLEEP" THEN Notify(slot) ELSE UNCHANGED spc
        BY <3>5 DEF Signal
      <4>2. i # k[a]
        <5>1. CASE status[slot] = "SLEEP"
          <6>1. Cpu(s) # slot
            BY <1>0, <4>1, <5>1, NotifyWakes
          <6> QED BY <1>2, <2>1, <2>3, <6>1
        <5>2. CASE status[slot] # "SLEEP"
          <6>1. Cpu(s) # slot
            BY <1>1, <5>2 DEF ServerOf
          <6> QED BY <1>2, <2>1, <2>3, <6>1
        <5> QED BY <5>1, <5>2
      <4> QED BY <2>3, <3>3, <4>1, <4>2
    <3> QED BY <3>1, <3>2, <3>4, <3>5
  <2> QED BY <2>2, <2>3
<1> QED BY <1>4, <1>5

LEMMA OwedInit == Init => Owed
<1> SUFFICES ASSUME Init PROVE Owed
  OBVIOUS
<1> USE DEF Init
<1>1. Holders
  BY ServerAssumption DEF Holders
<1>2. BusyServed /\ Told
  BY PointerAssumption DEF BusyServed, Told
<1>3. OwnWake
  BY CpuRange DEF OwnWake
<1> QED BY <1>1, <1>2, <1>3 DEF Owed

LEMMA OwedStep ==
    ASSUME SingleSetter, Inv, Safe, Owed, [Next]_vars
    PROVE  Owed'
<1>1. ASSUME NEW c \in Callers, Caller(c) PROVE Owed'
  BY <1>1, HoldersCaller, BusyCaller, ToldCaller, OwnWakeCaller DEF Owed, Safe
<1>2. ASSUME NEW s \in Servers, Server(s) PROVE Owed'
  BY <1>2, HoldersServer, BusyServer, ToldServer, OwnWakeServer DEF Owed, Safe
<1>3. CASE UNCHANGED vars
  BY <1>3 DEF Owed, Holders, BusyServed, Told, OwnWake, vars, poolVars, slotVars, serverVars, callerVars
<1> QED BY <1>1, <1>2, <1>3 DEF Next

\* A caller has a step to take that does not wait for anybody.
CallerCanGo(c) ==
    /\ pc[c] # "idle"
    /\ pc[c] \in {"exec_init", "set_init", "set_grow", "shut"} => serverLock = Nobody
    /\ pc[c] = "lock" => queueLock = Nobody
    /\ pc[c] = "post" => \E i \in 0 .. (numThreads - 2) : queue[i] = Null
    /\ pc[c] = "signal" => slotLock[assigned[c][k[c]]] = Nobody
    /\ pc[c] = "shutting" => slotLock[k[c]] = Nobody
    /\ pc[c] = "owning" => CanFinish(c)
    /\ pc[c] = "wait" => Awaited(c) = Null
    /\ pc[c] = "joining" =>
          \A s \in Servers : Cpu(s) < numThreads - 1 => spc[s] \in {"none", "dead"}

\* A server has; that a time runs out or a wakeup is spurious does not count.
ServerCanGo(s) ==
    /\ spc[s] \notin {"none", "dead", "waiting"}
    /\ spc[s] = "poll" => IsPointer(queue[Cpu(s)])
    /\ spc[s] = "run" => sjob[s] \in Jobs
    /\ spc[s] = "running" => CanFinish(sjob[s][1])
    /\ spc[s] \in {"sleepy", "woken"} => slotLock[Cpu(s)] = Nobody

NoDeadlock ==
    (\E c \in Callers : pc[c] # "idle") =>
        \/ \E c \in Callers : CallerCanGo(c)
        \/ \E s \in Servers : ServerCanGo(s)

Stuck == (\A c \in Callers : ~CallerCanGo(c)) /\ (\A s \in Servers : ~ServerCanGo(s))

\* Nobody is in front of a lock.
LEMMA StuckLocks ==
    ASSUME Inv, Safe, Owed, Stuck
    PROVE  /\ \A s \in Servers : spc[s] \in {"none", "dead", "waiting", "poll", "running"}
           /\ \A c \in Callers : pc[c] \in {"idle", "lock", "post", "owning", "wait"}
<1>0. /\ TypeOK /\ Holders /\ Told /\ \A s \in Servers : Cpu(s) \in Slots /\ ServerOf(s)
      /\ numThreads \in 1 .. MaxThreads
  BY CpuRange DEF Inv, Owed, Safe, TypeOK
<1>1. \A i \in Slots : slotLock[i] = Nobody
  <2> SUFFICES ASSUME NEW i \in Slots, slotLock[i] # Nobody PROVE FALSE
    OBVIOUS
  <2>1. slotLock[i] \in Servers \ {Nobody}
    BY <1>0 DEF TypeOK
  <2>2. spc[slotLock[i]] = "drowsy"
    BY <1>0, <2>1 DEF Holders
  <2> QED BY <2>1, <2>2 DEF Stuck, ServerCanGo
<1>2. ASSUME NEW s \in Servers PROVE spc[s] \in {"none", "dead", "waiting", "poll", "running"}
  <2>1. spc[s] \in ServerStates /\ Cpu(s) \in Slots /\ (spc[s] = "run" => sjob[s] \in Jobs)
    BY <1>0 DEF TypeOK, ServerOf
  <2> QED BY <1>1, <2>1 DEF Stuck, ServerCanGo, ServerStates
<1>3. ASSUME NEW c \in Callers PROVE pc[c] \notin {"shutting", "joining"}
  <2>1. CASE pc[c] = "shutting"
    <3>1. k[c] \in Slots
      BY <1>0, <2>1 DEF Inv, WalkOf, Slots
    <3> QED BY <1>1, <2>1, <3>1 DEF Stuck, CallerCanGo
  <2>2. CASE pc[c] = "joining"
    <3>1. PICK s \in Servers : Cpu(s) < numThreads - 1 /\ spc[s] \notin {"none", "dead"}
      BY <2>2 DEF Stuck, CallerCanGo
    <3>2. queue[Cpu(s)] = Exit /\ IsPointer(queue[Cpu(s)])
      BY <1>0, <2>2, <3>1, PointerAssumption DEF Told, IsPointer
    <3>3. CASE spc[s] = "poll"
      BY <3>2, <3>3 DEF Stuck, ServerCanGo
    <3>4. CASE spc[s] = "running"
      BY <1>0, <3>2, <3>4, PointerAssumption DEF ServerOf
    <3>5. CASE spc[s] = "waiting"
      <4>1. Coming(Cpu(s))
        BY <3>2, <3>5 DEF Safe, NoLostWakeup
      <4>2. PICK d \in Callers : pc[d] \in {"post", "wake", "signal"}
        BY <4>1 DEF Coming
      <4> QED BY <2>2, <4>2 DEF Inv, ShutAlone, ShutStates
    <3> QED BY <1>2, <3>1, <3>3, <3>4, <3>5
  <2> QED BY <2>1, <2>2
<1>4. serverLock = Nobody
  BY <1>0, <1>3 DEF Holders, TypeOK
<1>5. ASSUME NEW c \in Callers PROVE pc[c] \in {"idle", "lock", "post", "owning", "wait"}
  <2>1. /\ pc[c] \in {"idle"} \cup ExecStates \cup SetStates \cup ShutStates
        /\ pc[c] \notin {"shutting", "joining"}
    BY <1>0, <1>3 DEF TypeOK
  <2>2. pc[c] = "signal" => slotLock[assigned[c][k[c]]] = Nobody
    <3>1. pc[c] = "signal" => k[c] \in 1 .. (num[c] - 1) /\ num[c] \in 2 .. MaxThreads
      BY DEF Inv, WalkOf, ExecStates
    <3>2. pc[c] = "signal" => k[c] \in Indices
      BY <3>1 DEF Indices
    <3> QED BY <1>0, <1>1, <3>2 DEF TypeOK
  <2>3. ~CallerCanGo(c)
    BY DEF Stuck
  <2> QED BY <1>4, <2>1, <2>2, <2>3 DEF CallerCanGo, ExecStates, SetStates, ShutStates
<1> QED BY <1>2, <1>5

\* What a call has posted and nobody has begun is on its way, unless its caller
\* is still posting.
LEMMA StuckJobs ==
    ASSUME Inv, Safe, Owed, Stuck, NEW e \in Callers, NEW i \in Indices,
           HandedOut(e, i), job[e][i] = "todo"
    PROVE  pc[e] = "post"
<1> SUFFICES ASSUME pc[e] # "post" PROVE FALSE
  OBVIOUS
<1> DEFINE q == assigned[e][i]
<1>1. avail /\ Progress(e) /\ pc[e] \in ExecStates
  BY HandedOutUp DEF Safe, Jobbed
<1>2. Carried(e, i)
  BY <1>1 DEF Progress
<1>3. <<e, i>> \in Jobs
  BY DEF Jobs
<1>4. PICK s \in Servers : Cpu(s) = q /\ spc[s] # "none"
  <2>1. q \in Slots /\ numThreads \in 1 .. MaxThreads
    BY DEF Inv, TypeOK
  <2>2. q \in 0 .. (numThreads - 2)
    BY <1>2, <2>1 DEF Carried, Slots
  <2> QED BY <1>1, <2>2 DEF Safe, Pool
<1>5. ServerOf(s) /\ ~ServerCanGo(s)
  BY DEF Safe, Stuck
<1>6. queue[q] = <<e, i>>
  BY <1>2 DEF Carried, Safe, Jobbed, Taken
<1>7. CASE spc[s] = "dead"
  BY <1>7, StuckLocks DEF Safe, Pool, Shutting, ShutStates
<1>8. CASE spc[s] = "poll"
  BY <1>3, <1>4, <1>5, <1>6, <1>8, PointerAssumption DEF ServerCanGo, IsPointer
<1>9. CASE spc[s] = "running"
  BY <1>3, <1>4, <1>5, <1>6, <1>9, PointerAssumption DEF ServerOf
<1>10. CASE spc[s] = "waiting"
  <2>1. pc[e] \in {"wake", "signal"}
    BY <1>4, <1>6, <1>10 DEF Owed, OwnWake
  <2> QED BY <2>1, StuckLocks
<1> QED BY <1>4, <1>7, <1>8, <1>9, <1>10, StuckLocks

\* All jobs of a call that has posted them have been started.
LEMMA StuckTogether ==
    ASSUME Inv, Safe, Owed, Stuck, NEW e \in Callers, pc[e] \in {"owning", "wait"}
    PROVE  CanFinish(e)
<1> SUFFICES ASSUME NEW i \in Indices, job[e][i] = "todo" PROVE FALSE
  BY DEF CanFinish, Together
<1>1. /\ Progress(e) /\ pc[e] \in ExecStates
      /\ num[e] \in 2 .. MaxThreads /\ i \in Nat
      /\ pc[e] = "wait" => k[e] \in 1 .. (num[e] - 1)
  BY DEF Safe, Jobbed, ExecStates, Inv, WalkOf, Indices
<1>2. i # 0
  BY <1>1 DEF Progress, OwnState
<1>3. i < num[e]
  BY <1>1 DEF Progress
<1>4. HandedOut(e, i)
  <2>1. 1 <= i /\ i < num[e]
    BY <1>1, <1>2, <1>3
  <2>2. CASE pc[e] = "owning"
    BY <2>1, <2>2 DEF HandedOut
  <2>3. CASE pc[e] = "wait"
    BY <1>1, <2>1, <2>3 DEF Progress
  <2> QED BY <2>2, <2>3
<1> QED BY <1>4, StuckJobs

\* Who is stuck waits for somebody who posts.
LEMMA StuckPost ==
    ASSUME Inv, Safe, Owed, Stuck, NEW a \in Callers, pc[a] # "idle"
    PROVE  \E d \in Callers : pc[d] = "post"
<1> SUFFICES ASSUME \A d \in Callers : pc[d] # "post" PROVE FALSE
  OBVIOUS
<1>1. pc[a] \in {"lock", "owning", "wait"} /\ ~CallerCanGo(a)
  BY StuckLocks DEF Stuck
<1>2. CASE pc[a] = "lock"
  <2>1. queueLock = Nobody
    BY DEF Inv, TypeOK, Owed, Holders
  <2> QED BY <1>1, <1>2, <2>1 DEF CallerCanGo
<1>3. CASE pc[a] = "owning"
  BY <1>1, <1>3, StuckTogether DEF CallerCanGo
<1>4. CASE pc[a] = "wait"
  <2> DEFINE q == assigned[a][k[a]]
  <2>1. queue[q] # Null
    BY <1>1, <1>4 DEF CallerCanGo, Awaited
  <2>2. q \in Slots /\ avail
    <3>1. k[a] \in 1 .. (num[a] - 1) /\ num[a] \in 2 .. MaxThreads /\ avail
      BY <1>4 DEF Inv, WalkOf, ExecStates, PoolUp
    <3>2. k[a] \in Indices
      BY <3>1 DEF Indices
    <3> QED BY <3>1, <3>2 DEF Inv, TypeOK
  <2>3. queue[q] \in Jobs \cup {Null, Busy, Exit}
    BY <2>2 DEF Inv, TypeOK
  <2>4. CASE queue[q] = Exit
    BY <2>2, <2>4, StuckLocks DEF Safe, Exits, Shutting, ShutStates
  <2>5. CASE queue[q] = Busy
    <3>1. PICK s \in Servers : spc[s] = "running"
      BY <2>2, <2>5 DEF Owed, BusyServed
    <3>2. PICK d \in Callers, j \in Indices : sjob[s] = <<d, j>>
      BY <3>1, PairJob DEF Safe, ServerOf
    <3>3. HandedOut(d, j)
      BY <3>1, <3>2 DEF Safe, Jobbed, Taken
    <3>4. pc[d] \in {"owning", "wait"}
      BY <3>3, StuckLocks DEF HandedOut
    <3> QED BY <3>1, <3>2, <3>4, StuckTogether DEF Stuck, ServerCanGo
  <2>6. CASE queue[q] \in Jobs
    <3>1. PICK d \in Callers, j \in Indices : queue[q] = <<d, j>>
      BY <2>6, PairJob
    <3>2. HandedOut(d, j) /\ job[d][j] = "todo"
      BY <2>2, <3>1 DEF Safe, Jobbed, Queued
    <3> QED BY <3>2, StuckJobs
  <2> QED BY <2>1, <2>3, <2>4, <2>5, <2>6
<1> QED BY <1>1, <1>2, <1>3, <1>4

\* Who posts finds room: a call has fewer jobs to post than there are slots, and
\* nobody else's jobs are in the way for ever.
LEMMA PosterFindsRoom ==
    ASSUME Inv, Safe, Owed, Stuck, NEW d \in Callers, pc[d] = "post"
    PROVE  FALSE
<1>1. /\ k[d] \in 1 .. (num[d] - 1) /\ num[d] \in 2 .. MaxThreads /\ num[d] <= numThreads
      /\ avail /\ numThreads \in 1 .. MaxThreads
  BY DEF Inv, WalkOf, ExecStates, PoolUp, TypeOK, Safe, Counts
<1>2. \A e \in Callers : pc[e] = "post" => e = d
  BY DEF Owed, Holders
<1>3. ASSUME NEW i \in 0 .. (numThreads - 2)
      PROVE  \E j \in 1 .. (k[d] - 1) : assigned[d][j] = i
  <2>1. i \in Slots
    BY <1>1 DEF Slots
  <2>2. queue[i] # Null /\ queue[i] \in Jobs \cup {Null, Busy, Exit}
    BY <2>1 DEF Stuck, CallerCanGo, Inv, TypeOK
  <2>3. ASSUME NEW j \in Indices, HandedOut(d, j), assigned[d][j] = i
        PROVE  \E h \in 1 .. (k[d] - 1) : assigned[d][h] = i
    <3>1. j \in 1 .. (k[d] - 1)
      BY <1>1, <2>3 DEF HandedOut, Indices
    <3> QED BY <2>3, <3>1
  <2>4. CASE queue[i] = Exit
    BY <1>1, <2>1, <2>4, StuckLocks DEF Safe, Exits, Shutting, ShutStates
  <2>5. CASE queue[i] = Busy
    <3>1. PICK s \in Servers : Cpu(s) = i /\ spc[s] = "running"
      BY <2>1, <2>5 DEF Owed, BusyServed
    <3>2. PICK e \in Callers, j \in Indices : sjob[s] = <<e, j>>
      BY <3>1, PairJob DEF Safe, ServerOf
    <3>3. HandedOut(e, j) /\ assigned[e][j] = i
      BY <3>1, <3>2 DEF Safe, Jobbed, Taken
    <3>4. pc[e] \notin {"owning", "wait"}
      BY <3>1, <3>2, StuckTogether DEF Stuck, ServerCanGo
    <3>5. e = d
      BY <1>2, <3>3, <3>4, StuckLocks DEF HandedOut
    <3> QED BY <2>3, <3>3, <3>5
  <2>6. CASE queue[i] \in Jobs
    <3>1. PICK e \in Callers, j \in Indices : queue[i] = <<e, j>>
      BY <2>6, PairJob
    <3>2. HandedOut(e, j) /\ assigned[e][j] = i /\ job[e][j] = "todo"
      BY <2>1, <3>1 DEF Safe, Jobbed, Queued
    <3>3. e = d
      BY <1>2, <3>2, StuckJobs
    <3> QED BY <2>3, <3>2, <3>3
  <2> QED BY <2>2, <2>4, <2>5, <2>6
<1> DEFINE S == 0 .. (numThreads - 2)
           T == 1 .. (k[d] - 1)
           g == [i \in S |-> CHOOSE j \in T : assigned[d][j] = i]
<1>4. g \in [S -> T] /\ \A i \in S : assigned[d][g[i]] = i
  BY <1>3
<1>5. IsFiniteSet(S) /\ IsFiniteSet(T) /\ Cardinality(T) < Cardinality(S)
  <2>1. 0 \in Int /\ 1 \in Int /\ numThreads - 2 \in Int /\ k[d] - 1 \in Int
    BY <1>1
  <2>2. /\ IsFiniteSet(S) /\ Cardinality(S) = IF 0 > numThreads - 2 THEN 0 ELSE numThreads - 2 - 0 + 1
        /\ IsFiniteSet(T) /\ Cardinality(T) = IF 1 > k[d] - 1 THEN 0 ELSE k[d] - 1 - 1 + 1
    BY <2>1, FS_Interval
  <2> HIDE DEF S, T
  <2>3. numThreads \in Nat /\ k[d] \in Nat /\ num[d] \in Nat /\ k[d] < num[d] /\ num[d] <= numThreads
        /\ 1 <= k[d]
    BY <1>1
  <2> QED BY <2>2, <2>3
<1> HIDE DEF S, T, g
<1>6. PICK x, y \in S : x # y /\ g[x] = g[y]
  BY <1>4, <1>5, FS_PigeonHole
<1> QED BY <1>4, <1>6

\* The waits of blas_server.c never close a circle.  Whenever some thread is in the
\* library one of them has a step to take, be it that callers wait for server_lock,
\* exec_queue_lock, a free slot or the end of a job, that servers wait on their
\* condition variable, that blas_thread_shutdown waits in pthread_join, or that the
\* jobs of a call wait for one another.  The last is safe because exec_blas_async
\* holds exec_queue_lock until all jobs of the call are posted.
THEOREM NoDeadlockCorrect ==
    ASSUME SingleSetter
    PROVE  Spec => []NoDeadlock
<1>1. Spec => []Owed
  BY OwedInit, OwedStep, InvCorrect, SafeCorrect, PTL DEF Spec
<1>2. Inv /\ Safe /\ Owed => NoDeadlock
  BY StuckPost, PosterFindsRoom DEF NoDeadlock, Stuck
<1> QED BY <1>1, <1>2, InvCorrect, SafeCorrect, PTL
=============================================================================
