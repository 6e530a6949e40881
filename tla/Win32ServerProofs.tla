------------------------- MODULE Win32ServerProofs -------------------------
(***************************************************************************)
(* Theorems about Win32Server, for every number of callers, servers and    *)
(* calls.  What is shown of the jobs assumes that one thread at most sets  *)
(* the number of threads, never to one: goto_set_num_threads compares      *)
(* before it locks, and with blas_cpu_number = 1 exec_blas_async posts to  *)
(* a pool that blas_thread_init has not started.  Types hold without that; *)
(* that the pool covers the count, and that the calls never all wait for   *)
(* one another, needs a number never lowered as well.                      *)
(***************************************************************************)
EXTENDS Win32Server, SequenceTheorems, FiniteSetTheorems, TLAPS

SingleSetter == \A c, d \in Setters : c = d
NeverSerial == Initial >= 2 /\ 1 \notin Settings

-----------------------------------------------------------------------------
(* The invariant.                                                          *)

Posted == {"fill", "own", "owning", "wait"}

\* Counts, positions and servers stay within one another.
Ranges ==
    /\ cpuNumber \in 2 .. numThreads
    /\ \A c \in Callers :
          /\ pc[c] \in ExecStates => num[c] \in 2 .. MaxThreads
          /\ pc[c] \in SetStates => c \in Setters /\ num[c] # 1
          /\ pc[c] = "set_grow" => num[c] \in (numThreads + 1) .. MaxThreads
          /\ pc[c] = "set_store" => num[c] \in 2 .. numThreads
          /\ pc[c] = "wait" => k[c] \in 1 .. (num[c] - 1)
    /\ \A s \in Servers : spc[s] # "none" => s <= numThreads - 2

\* Whoever stops the pool is alone in the library.
StopAlone ==
    \A c \in Callers : pc[c] \in StopStates =>
        \A d \in Callers : d # c => pc[d] = "idle"

\* Jobs are posted to a pool that has been started.
PoolUp == \A c \in Callers : pc[c] \in Posted \cup {"post"} => avail

\* The event of job i of caller c is still to come.
Pending(c, i) ==
    /\ pc[c] \in Posted
    /\ i \in 1 .. (num[c] - 1)
    /\ ~finish[c][i]
    /\ pc[c] = "wait" => k[c] <= i

\* What waits in the list: jobs nobody has begun, each once.
ListJobs ==
    /\ \A p \in 1 .. Len(list) :
          Pending(list[p][1], list[p][2]) /\ job[list[p][1]][list[p][2]] = "todo"
    /\ \A p, q \in 1 .. Len(list) : list[p] = list[q] => p = q

StateOf(label) ==
    CASE label \in {"look", "pass", "run"} -> "todo"
      [] label = "running"                 -> "running"
      [] label \in {"status", "signal"}    -> "done"

\* What servers work on: each a job of its own that has left the list.
BusyJobs ==
    /\ \A s \in Servers : spc[s] \in Busy =>
          /\ sjob[s] \in Jobs
          /\ Pending(sjob[s][1], sjob[s][2])
          /\ job[sjob[s][1]][sjob[s][2]] = StateOf(spc[s])
          /\ \A p \in 1 .. Len(list) : list[p] # sjob[s]
    /\ \A s, t \in Servers :
          spc[s] \in Busy /\ spc[t] \in Busy /\ sjob[s] = sjob[t] => s = t

\* What the caller may conclude from the events and from where it is.
Done(c, i) == pc[c] \in Posted /\ i \in 1 .. (num[c] - 1) /\ job[c][i] = "done"

ProgressOf(c) ==
    /\ \A i \in Indices : finish[c][i] => Done(c, i)
    /\ pc[c] \notin ExecStates => job[c] = NoJobs
    /\ pc[c] \in {"async", "exec_init", "post"} =>
          \A i \in Indices : i < num[c] => job[c][i] = "todo"
    /\ pc[c] \in {"fill", "own"} => job[c][0] = "todo"
    /\ pc[c] = "owning" => job[c][0] = "running"
    /\ pc[c] = "wait" =>
          job[c][0] = "done" /\ \A i \in 1 .. (k[c] - 1) : job[c][i] = "done"
    /\ pc[c] \in ExecStates => \A i \in Indices : i >= num[c] => job[c][i] = "none"

Progress == \A c \in Callers : ProgressOf(c)

\* What the types rest on, whoever sets the number of threads, and to what.
Fits ==
    /\ TypeOK
    /\ \A c \in Callers :
          /\ pc[c] \in ExecStates => num[c] \in 2 .. MaxThreads
          /\ pc[c] \in {"set_grow", "set_store"} => num[c] \in 1 .. MaxThreads
    /\ \A s \in Servers : spc[s] \in Busy => sjob[s] \in Jobs

Inv ==
    /\ TypeOK /\ Ranges /\ StopAlone /\ PoolUp
    /\ ListJobs /\ BusyJobs /\ Progress

USE Win32Assumption

-----------------------------------------------------------------------------
(* Types and ranges.                                                       *)

LEMMA TypeInit == Init => TypeOK
<1> SUFFICES ASSUME Init PROVE TypeOK OBVIOUS
<1> USE DEF Init, NoJobs, NoEvents
<1>1. avail \in BOOLEAN
  OBVIOUS
<1>2. list \in Seq(Jobs)
  BY EmptySeq
<1>3. spc \in [Servers -> {"none", "wait", "take", "dead"} \cup Busy]
  OBVIOUS
<1>4. /\ pc \in [Callers -> {"idle"} \cup ExecStates \cup SetStates \cup StopStates]
      /\ num \in [Callers -> Nat]
      /\ k \in [Callers -> 0 .. MaxThreads]
      /\ calls \in [Callers -> 0 .. MaxCalls]
  OBVIOUS
<1>5. /\ finish \in [Callers -> [Indices -> BOOLEAN]]
      /\ job \in [Callers -> [Indices -> {"none", "todo", "running", "done"}]]
      /\ sjob \in [Servers -> Jobs \cup {Nobody}]
  OBVIOUS
<1> QED BY <1>1, <1>2, <1>3, <1>4, <1>5 DEF TypeOK

LEMMA InvInit == NeverSerial /\ Init => Inv
<1> SUFFICES ASSUME NeverSerial, Init PROVE Inv OBVIOUS
<1> USE DEF NeverSerial, Init, NoJobs, NoEvents
<1>1. TypeOK
  BY TypeInit
<1>2. Ranges /\ StopAlone /\ PoolUp
  BY DEF Ranges, StopAlone, PoolUp, ExecStates, SetStates, StopStates, Posted, Servers
<1>3. ListJobs /\ BusyJobs /\ Progress
  BY DEF ListJobs, BusyJobs, Progress, ProgressOf, Busy, ExecStates, Posted, Indices
<1> QED BY <1>1, <1>2, <1>3 DEF Inv

\* The chain of a call is a sequence of distinct jobs.
LEMMA ChainFacts ==
    ASSUME TypeOK, NEW c \in Callers, num[c] \in 2 .. MaxThreads
    PROVE  /\ Chain(c) \in Seq(Jobs)
           /\ Len(Chain(c)) = num[c] - 1
           /\ \A i \in 1 .. (num[c] - 1) : Chain(c)[i] = <<c, i>> /\ i \in Indices
<1>1. \A i \in 1 .. (num[c] - 1) : <<c, i>> \in Jobs /\ i \in Indices
  BY DEF Jobs, Indices
<1>2. num[c] - 1 \in Nat
  OBVIOUS
<1>3. Chain(c) \in [1 .. (num[c] - 1) -> Jobs]
  BY <1>1 DEF Chain
<1>4. Chain(c) \in Seq(Jobs)
  BY <1>2, <1>3, SeqDef
<1>5. Len(Chain(c)) = num[c] - 1
  BY <1>2, <1>3, <1>4, LenProperties
<1> QED BY <1>1, <1>4, <1>5 DEF Chain

LEMMA LeaveType ==
    ASSUME TypeOK, NEW c \in Callers, Leave(c)
    PROVE  /\ pc' \in [Callers -> {"idle"} \cup ExecStates \cup SetStates \cup StopStates]
           /\ num' \in [Callers -> Nat]
           /\ k' \in [Callers -> 0 .. MaxThreads]
           /\ finish' \in [Callers -> [Indices -> BOOLEAN]]
           /\ job' \in [Callers -> [Indices -> {"none", "todo", "running", "done"}]]
           /\ calls' = calls
BY DEF TypeOK, Leave, Go, NoEvents, NoJobs

LEMMA CreateType ==
    ASSUME TypeOK, NEW S, Create(S)
    PROVE  spc' \in [Servers -> {"none", "wait", "take", "dead"} \cup Busy]
BY DEF TypeOK, Create

LEMMA TypeStepCall ==
    ASSUME Fits, NEW c \in Callers, Caller(c)
    PROVE  TypeOK'
<1> USE DEF Fits, TypeOK, poolVars, listVars, serverVars, callerVars, jobVars, Go
<1>1. CASE Call(c)
  BY <1>1 DEF Call, ExecStates, Indices
<1>2. CASE Async(c)
  BY <1>2 DEF Async, ExecStates
<1>3. CASE ExecInit(c)
  <2>1. CASE avail
    BY <1>3, <2>1 DEF ExecInit, BlasThreadInit, ExecStates
  <2>2. CASE ~avail
    <3>1. Create(0 .. (cpuNumber - 2)) /\ NewPool
      BY <1>3, <2>2 DEF ExecInit, BlasThreadInit
    <3> QED BY <1>3, <3>1, CreateType, EmptySeq DEF ExecInit, BlasThreadInit, NewPool, ExecStates
  <2> QED BY <2>1, <2>2
<1>4. CASE Post(c)
  <2>1. num[c] \in 2 .. MaxThreads
    BY <1>4 DEF Post, ExecStates
  <2>2. list \o Chain(c) \in Seq(Jobs)
    BY <2>1, ChainFacts, ConcatProperties
  <2> QED BY <1>4, <2>2 DEF Post, ExecStates
<1>5. CASE Fill(c)
  BY <1>5 DEF Fill, ExecStates
<1>6. CASE StartOwn(c)
  BY <1>6 DEF StartOwn, ExecStates
<1>7. CASE FinishOwn(c)
  <2>1. k' \in [Callers -> 0 .. MaxThreads]
    BY <1>7 DEF FinishOwn
  <2>2. job' \in [Callers -> [Indices -> {"none", "todo", "running", "done"}]]
    BY <1>7 DEF FinishOwn
  <2> QED BY <1>7, <2>1, <2>2 DEF FinishOwn, ExecStates
<1>8. CASE Wait(c)
  <2>1. num[c] \in 2 .. MaxThreads
    BY <1>8 DEF Wait, ExecStates
  <2>2. CASE k[c] < num[c] - 1
    <3>1. k[c] + 1 \in 0 .. MaxThreads BY <2>1, <2>2
    <3> QED BY <1>8, <2>2, <3>1 DEF Wait
  <2>3. CASE ~(k[c] < num[c] - 1)
    BY <1>8, <2>3, LeaveType DEF Wait
  <2> QED BY <2>2, <2>3
<1>9. CASE SetCall(c)
  BY <1>9 DEF SetCall, SetStates
<1>10. CASE SetEnter(c)
  BY <1>10 DEF SetEnter, SetStates
<1>11. CASE SetInit(c)
  <2>1. CASE avail
    BY <1>11, <2>1 DEF SetInit, BlasThreadInit, SetStates
  <2>2. CASE ~avail
    <3>1. Create(0 .. (cpuNumber - 2)) /\ NewPool
      BY <1>11, <2>2 DEF SetInit, BlasThreadInit
    <3> QED BY <1>11, <3>1, CreateType, EmptySeq DEF SetInit, BlasThreadInit, NewPool, SetStates
  <2> QED BY <2>1, <2>2
<1>12. CASE SetRead(c)
  <2>1. Wanted(num[c]) \in Nat
    BY DEF Wanted
  <2> QED BY <1>12, <2>1 DEF SetRead, SetStates
<1>13. CASE SetGrow(c)
  <2>1. num[c] \in 1 .. MaxThreads
    BY <1>13 DEF SetGrow
  <2>2. spc' \in [Servers -> {"none", "wait", "take", "dead"} \cup Busy]
    <3>1. Create((numThreads - 1) .. (num[c] - 2))
      BY <1>13 DEF SetGrow
    <3> QED BY <3>1, CreateType
  <2>3. avail' \in BOOLEAN /\ list' \in Seq(Jobs) /\ filled' \in BOOLEAN /\ killed' \in BOOLEAN
    <3>1. <<>> \in Seq(Jobs)
      BY EmptySeq
    <3>2. CASE avail
      BY <1>13, <3>2 DEF SetGrow
    <3>3. CASE ~avail
      BY <1>13, <3>1, <3>3 DEF SetGrow, NewPool
    <3> QED BY <3>2, <3>3
  <2> QED BY <1>13, <2>1, <2>2, <2>3 DEF SetGrow, SetStates
<1>14. CASE SetStore(c)
  <2>1. num[c] \in 1 .. MaxThreads
    BY <1>14 DEF SetStore
  <2> QED BY <1>14, <2>1, LeaveType DEF SetStore
<1>15. CASE Stop(c)
  BY <1>15 DEF Stop, StopStates
<1>16. CASE StopLock(c)
  BY <1>16, LeaveType DEF StopLock, StopStates
<1>17. CASE StopJoin(c)
  <2>1. k[c] + 1 \in 0 .. MaxThreads
    BY <1>17 DEF StopJoin
  <2> QED BY <1>17, <2>1 DEF StopJoin
<1>18. CASE StopEnd(c)
  BY <1>18, LeaveType DEF StopEnd
<1> QED BY <1>1, <1>2, <1>3, <1>4, <1>5, <1>6, <1>7, <1>8, <1>9, <1>10, <1>11, <1>12,
           <1>13, <1>14, <1>15, <1>16, <1>17, <1>18
        DEF Caller, ExecBlas, SetNumThreads, Shutdown

LEMMA BecomeType ==
    ASSUME TypeOK, NEW s \in Servers, NEW state \in {"running", "done"}, Become(s, state),
           sjob[s][1] \in Callers, sjob[s][2] \in Indices
    PROVE  job' \in [Callers -> [Indices -> {"none", "todo", "running", "done"}]]
<1> DEFINE c == sjob[s][1]
           i == sjob[s][2]
<1>1. [job[c] EXCEPT ![i] = state] \in [Indices -> {"none", "todo", "running", "done"}]
  BY DEF TypeOK
<1> QED BY <1>1 DEF TypeOK, Become

LEMMA TypeStepServer ==
    ASSUME Fits, NEW s \in Servers, Server(s)
    PROVE  TypeOK'
<1> USE DEF Fits, TypeOK, poolVars, listVars, serverVars, callerVars, jobVars, Be, Busy
<1>1. CASE Awake(s) \/ Die(s) \/ Look(s) \/ Pass(s) \/ Status(s)
  BY <1>1 DEF Awake, Die, Look, Pass, Status
<1>2. CASE Take(s)
  <2>1. CASE list = <<>>
    BY <1>2, <2>1 DEF Take
  <2>2. CASE list # <<>>
    <3>1. Head(list) \in Jobs /\ Tail(list) \in Seq(Jobs)
      BY <2>2, HeadTailProperties
    <3> QED BY <1>2, <2>2, <3>1 DEF Take
  <2> QED BY <2>1, <2>2
<1>3. CASE Start(s) \/ Finish(s)
  <2>1. job' \in [Callers -> [Indices -> {"none", "todo", "running", "done"}]]
    <3>1. sjob[s][1] \in Callers /\ sjob[s][2] \in Indices
      BY <1>3 DEF Start, Finish, Jobs
    <3>2. Become(s, "running") \/ Become(s, "done")
      BY <1>3 DEF Start, Finish
    <3> QED BY <3>1, <3>2, BecomeType
  <2> QED BY <1>3, <2>1 DEF Start, Finish
<1>4. CASE Signal(s)
  BY <1>4 DEF Signal
<1> QED BY <1>1, <1>2, <1>3, <1>4 DEF Server

LEMMA TypeStep == Fits /\ [Next]_vars => TypeOK'
<1> SUFFICES ASSUME Fits, [Next]_vars PROVE TypeOK' OBVIOUS
<1>1. CASE UNCHANGED vars
  BY <1>1 DEF Fits, TypeOK, vars, poolVars, listVars, serverVars, callerVars, jobVars
<1> QED BY <1>1, TypeStepCall, TypeStepServer DEF Next

LEMMA InvFits == Inv => Fits
<1> SUFFICES ASSUME Inv PROVE Fits OBVIOUS
<1>1. /\ TypeOK /\ numThreads \in 1 .. MaxThreads
      /\ \A s \in Servers : spc[s] \in Busy => sjob[s] \in Jobs
  BY DEF Inv, TypeOK, BusyJobs
<1>2. ASSUME NEW c \in Callers
      PROVE  /\ pc[c] \in ExecStates => num[c] \in 2 .. MaxThreads
             /\ pc[c] \in {"set_grow", "set_store"} => num[c] \in 1 .. MaxThreads
  BY <1>1 DEF Inv, Ranges
<1> QED BY <1>1, <1>2 DEF Fits

\* What a server does to pc, num, k and the counts: nothing.
LEMMA ServerFrame ==
    ASSUME NEW s \in Servers, Server(s)
    PROVE  /\ UNCHANGED <<avail, numThreads, cpuNumber, serverLock, killed, pc, num, k, calls>>
           /\ spc[s] # "none"
           /\ \E label : spc' = [spc EXCEPT ![s] = label]
<1> USE DEF Be, poolVars, listVars, callerVars
<1>1. CASE Awake(s) \/ Die(s) \/ Look(s) \/ Pass(s)
  BY <1>1 DEF Awake, Die, Look, Pass
<1>2. CASE Take(s)
  BY <1>2 DEF Take
<1>3. CASE Start(s) \/ Finish(s) \/ Status(s) \/ Signal(s)
  BY <1>3 DEF Start, Finish, Status, Signal
<1> QED BY <1>1, <1>2, <1>3 DEF Server

LEMMA FitsInit == Init => Fits
BY TypeInit DEF Init, Fits, Busy, ExecStates

LEMMA FitsStepCall ==
    ASSUME Fits, NEW c \in Callers, Caller(c)
    PROVE  Fits'
<1>0. TypeOK' BY TypeStepCall
<1> DEFINE Good(d) ==
             /\ pc'[d] \in ExecStates => num'[d] \in 2 .. MaxThreads
             /\ pc'[d] \in {"set_grow", "set_store"} => num'[d] \in 1 .. MaxThreads
<1> USE DEF Fits, TypeOK, ExecStates, Go, poolVars, listVars, serverVars, callerVars, jobVars
<1>1. \A d \in Callers : Good(d)
  <2>1. CASE Call(c) BY <2>1 DEF Call
  <2>2. CASE Async(c) \/ Post(c) \/ Fill(c) \/ StartOwn(c) \/ FinishOwn(c)
    BY <2>2 DEF Async, Post, Fill, StartOwn, FinishOwn
  <2>3. CASE ExecInit(c) BY <2>3 DEF ExecInit, BlasThreadInit
  <2>4. CASE Wait(c) BY <2>4 DEF Wait, Leave
  <2>5. CASE SetCall(c) \/ SetEnter(c) \/ SetInit(c)
    BY <2>5 DEF SetCall, SetEnter, SetInit
  <2>6. CASE SetRead(c)
    <3>1. Wanted(num[c]) \in 1 .. MaxThreads BY DEF Wanted
    <3> QED BY <2>6, <3>1 DEF SetRead
  <2>7. CASE SetGrow(c) BY <2>7 DEF SetGrow
  <2>8. CASE SetStore(c) BY <2>8 DEF SetStore, Leave
  <2>9. CASE Stop(c) BY <2>9 DEF Stop
  <2>10. CASE Shutdown(c) BY <2>10 DEF Shutdown, StopLock, StopJoin, StopEnd, Leave
  <2> QED BY <2>1, <2>2, <2>3, <2>4, <2>5, <2>6, <2>7, <2>8, <2>9, <2>10
          DEF Caller, ExecBlas, SetNumThreads
<1>2. UNCHANGED sjob /\ \A s \in Servers : spc'[s] \in Busy => spc[s] \in Busy
  <2>1. CASE Call(c) \/ SetCall(c) \/ Stop(c)
    BY <2>1 DEF Call, SetCall, Stop
  <2>2. CASE Async(c) \/ Post(c) \/ Fill(c) \/ StartOwn(c) \/ FinishOwn(c) \/ Wait(c)
    BY <2>2 DEF Async, Post, Fill, StartOwn, FinishOwn, Wait
  <2>3. CASE ExecInit(c) \/ SetInit(c)
    BY <2>3 DEF ExecInit, SetInit, BlasThreadInit, Create, Busy
  <2>4. CASE SetEnter(c) \/ SetRead(c) \/ SetStore(c)
    BY <2>4 DEF SetEnter, SetRead, SetStore
  <2>5. CASE SetGrow(c) BY <2>5 DEF SetGrow, Create, Busy
  <2>6. CASE Shutdown(c) BY <2>6 DEF Shutdown, StopLock, StopJoin, StopEnd, Busy
  <2> QED BY <2>1, <2>2, <2>3, <2>4, <2>5, <2>6 DEF Caller, ExecBlas, SetNumThreads
<1> QED BY <1>0, <1>1, <1>2

LEMMA FitsStepServer ==
    ASSUME Fits, NEW s \in Servers, Server(s)
    PROVE  Fits'
<1>0. TypeOK' BY TypeStepServer
<1>1. UNCHANGED <<pc, num>> BY ServerFrame
<1>2. \A t \in Servers : spc'[t] \in Busy => sjob'[t] \in Jobs
  <2> USE DEF Fits, TypeOK, Busy, Be
  <2>1. CASE Take(s)
    <3>1. list # <<>> => Head(list) \in Jobs BY HeadTailProperties
    <3> QED BY <2>1, <3>1 DEF Take
  <2>2. CASE Signal(s) BY <2>2 DEF Signal
  <2>3. CASE Awake(s) \/ Die(s) \/ Look(s) \/ Pass(s)
    BY <2>3 DEF Awake, Die, Look, Pass
  <2>4. CASE Start(s) \/ Finish(s) \/ Status(s)
    BY <2>4 DEF Start, Finish, Status
  <2> QED BY <2>1, <2>2, <2>3, <2>4 DEF Server
<1> QED BY <1>0, <1>1, <1>2 DEF Fits

(* Every call keeps its number of jobs, and goto_set_num_threads the number *)
(* it will store, within the tables, and a server works on a real queue    *)
(* entry: for any number of setters and any numbers (blas_server_win32.c). *)
THEOREM TypeCorrect == Spec => []TypeOK
<1>1. Init => Fits
  BY FitsInit
<1>2. Fits /\ [Next]_vars => Fits'
  <2> SUFFICES ASSUME Fits, [Next]_vars PROVE Fits' OBVIOUS
  <2>1. CASE UNCHANGED vars
    BY <2>1, TypeStep DEF Fits, vars, serverVars, callerVars
  <2> QED BY <2>1, FitsStepCall, FitsStepServer DEF Next
<1>3. Fits => TypeOK
  BY DEF Fits
<1> QED BY <1>1, <1>2, <1>3, PTL DEF Spec

LEMMA RangesStepCall ==
    ASSUME SingleSetter, NeverSerial, Inv, NEW c \in Callers, Caller(c)
    PROVE  Ranges'
<1> USE DEF Inv, TypeOK, Ranges, ExecStates, SetStates, StopStates, Go,
            poolVars, listVars, serverVars, callerVars, jobVars
<1>1. CASE Call(c)
  BY <1>1 DEF Call
<1>0. CASE Async(c) \/ Post(c) \/ Fill(c) \/ StartOwn(c) \/ FinishOwn(c)
  <2>1. CASE Async(c) BY <2>1 DEF Async
  <2>2. CASE Post(c) \/ Fill(c) BY <2>2 DEF Post, Fill
  <2>3. CASE StartOwn(c) BY <2>3 DEF StartOwn
  <2>4. CASE FinishOwn(c) BY <2>4 DEF FinishOwn
  <2> QED BY <1>0, <2>1, <2>2, <2>3, <2>4
<1>2. CASE ExecInit(c)
  BY <1>2 DEF ExecInit, BlasThreadInit, Create
<1>3. CASE Wait(c)
  <2>1. CASE k[c] < num[c] - 1
    <3>1. k'[c] \in 1 .. (num[c] - 1) /\ UNCHANGED <<pc, num, spc, numThreads, cpuNumber>>
      BY <1>3, <2>1 DEF Wait
    <3>2. \A d \in Callers : d # c => k'[d] = k[d]
      BY <1>3, <2>1 DEF Wait
    <3> QED BY <3>1, <3>2
  <2>2. CASE ~(k[c] < num[c] - 1)
    <3>1. pc'[c] = "idle" /\ UNCHANGED <<spc, numThreads, cpuNumber>>
      BY <1>3, <2>2 DEF Wait, Leave
    <3>2. \A d \in Callers : d # c => pc'[d] = pc[d] /\ num'[d] = num[d] /\ k'[d] = k[d]
      BY <1>3, <2>2 DEF Wait, Leave
    <3> QED BY <3>1, <3>2
  <2> QED BY <2>1, <2>2
<1>4. CASE SetCall(c) \/ SetEnter(c)
  <2>1. CASE SetCall(c)
    <3>1. num'[c] # 1 /\ pc'[c] = "set" /\ c \in Setters
      BY <2>1 DEF SetCall, NeverSerial
    <3>2. \A d \in Callers : d # c => pc'[d] = pc[d] /\ num'[d] = num[d]
      BY <2>1 DEF SetCall
    <3> QED BY <2>1, <3>1, <3>2 DEF SetCall
  <2>2. CASE SetEnter(c) BY <2>2 DEF SetEnter
  <2> QED BY <1>4, <2>1, <2>2
<1>5. CASE SetInit(c)
  BY <1>5 DEF SetInit, BlasThreadInit, Create
<1>6. CASE SetRead(c)
  BY <1>6 DEF SetRead, Wanted
<1>7. CASE SetGrow(c)
  <2>1. \A d \in Callers : d # c => pc[d] \notin SetStates
    BY <1>7 DEF SetGrow, SingleSetter
  <2>2. num[c] \in (numThreads + 1) .. MaxThreads
    BY <1>7 DEF SetGrow
  <2>3. ASSUME NEW s \in Servers, spc'[s] # "none" PROVE s <= num[c] - 2
    <3>1. spc'[s] = IF s \in (numThreads - 1) .. (num[c] - 2) THEN "wait" ELSE spc[s]
      BY <1>7 DEF SetGrow, Create
    <3> QED BY <2>2, <2>3, <3>1 DEF Servers
  <2> QED BY <1>7, <2>1, <2>2, <2>3 DEF SetGrow
<1>8. CASE SetStore(c)
  <2>1. \A d \in Callers : d # c => pc[d] \notin SetStates
    BY <1>8 DEF SetStore, SingleSetter
  <2> QED BY <1>8, <2>1 DEF SetStore, Leave
<1>9. CASE Stop(c) \/ StopLock(c) \/ StopEnd(c)
  BY <1>9 DEF Stop, StopLock, StopEnd, Leave
<1>10. CASE StopJoin(c)
  BY <1>10 DEF StopJoin
<1> QED BY <1>0, <1>1, <1>2, <1>3, <1>4, <1>5, <1>6, <1>7, <1>8, <1>9, <1>10
        DEF Caller, ExecBlas, SetNumThreads, Shutdown

LEMMA RangesStep == SingleSetter /\ NeverSerial /\ Inv /\ [Next]_vars => Ranges'
<1> SUFFICES ASSUME SingleSetter, NeverSerial, Inv, [Next]_vars PROVE Ranges' OBVIOUS
<1>1. ASSUME NEW s \in Servers, Server(s) PROVE Ranges'
  BY <1>1, ServerFrame DEF Inv, Ranges, TypeOK
<1>2. CASE UNCHANGED vars
  BY <1>2 DEF Inv, Ranges, vars, poolVars, serverVars, callerVars
<1> QED BY <1>1, <1>2, RangesStepCall DEF Next

LEMMA StopAloneStep == Inv /\ [Next]_vars => StopAlone'
<1> SUFFICES ASSUME Inv, [Next]_vars PROVE StopAlone' OBVIOUS
<1> USE DEF Inv, TypeOK, StopAlone, StopStates, Go
<1>1. ASSUME NEW c \in Callers, Caller(c) PROVE StopAlone'
  <2>1. CASE Call(c) \/ SetCall(c) \/ Stop(c)
    BY <2>1 DEF Call, SetCall, Stop, Stopping, Quiet
  <2>2. CASE ExecBlas(c)
    BY <2>2 DEF ExecBlas, Async, ExecInit, Post, Fill, StartOwn, FinishOwn, Wait, Leave
  <2>3. CASE SetNumThreads(c)
    <3>1. pc[c] \in SetStates
      BY <2>3 DEF SetNumThreads, SetEnter, SetInit, SetRead, SetGrow, SetStore, SetStates
    <3>2. \A d \in Callers : pc[d] \notin StopStates
      BY <3>1 DEF SetStates
    <3>3. \E label \in SetStates \cup {"idle"} : pc' = [pc EXCEPT ![c] = label]
      BY <2>3 DEF SetNumThreads, SetEnter, SetInit, SetRead, SetGrow, SetStore, SetStates, Leave
    <3> QED BY <3>2, <3>3 DEF SetStates
  <2>4. CASE Shutdown(c)
    BY <2>4 DEF Shutdown, StopLock, StopJoin, StopEnd, Leave
  <2> QED BY <1>1, <2>1, <2>2, <2>3, <2>4 DEF Caller
<1>2. ASSUME NEW s \in Servers, Server(s) PROVE StopAlone'
  BY <1>2, ServerFrame
<1>3. CASE UNCHANGED vars
  BY <1>3 DEF vars, callerVars
<1> QED BY <1>1, <1>2, <1>3 DEF Next

LEMMA PoolUpStep == Inv /\ [Next]_vars => PoolUp'
<1> SUFFICES ASSUME Inv, [Next]_vars PROVE PoolUp' OBVIOUS
<1> USE DEF Inv, TypeOK, PoolUp, Posted, Go, poolVars
<1>1. ASSUME NEW c \in Callers, Caller(c) PROVE PoolUp'
  <2>1. CASE Call(c) \/ SetCall(c) \/ Stop(c)
    BY <2>1 DEF Call, SetCall, Stop
  <2>2. CASE Async(c)
    BY <2>2 DEF Async, NeedsInit, Ranges
  <2>3. CASE ExecInit(c) \/ SetInit(c) \/ SetGrow(c)
    BY <2>3 DEF ExecInit, SetInit, SetGrow, BlasThreadInit, NewPool
  <2>4. CASE Post(c) \/ Fill(c) \/ StartOwn(c) \/ FinishOwn(c) \/ Wait(c)
    BY <2>4 DEF Post, Fill, StartOwn, FinishOwn, Wait, Leave
  <2>5. CASE SetEnter(c) \/ SetRead(c) \/ SetStore(c)
    BY <2>5 DEF SetEnter, SetRead, SetStore, Leave
  <2>6. CASE StopLock(c) \/ StopJoin(c)
    BY <2>6 DEF StopLock, StopJoin, Leave
  <2>7. CASE StopEnd(c)
    BY <2>7 DEF StopEnd, Leave, StopAlone, StopStates
  <2> QED BY <1>1, <2>1, <2>2, <2>3, <2>4, <2>5, <2>6, <2>7
          DEF Caller, ExecBlas, SetNumThreads, Shutdown
<1>2. ASSUME NEW s \in Servers, Server(s) PROVE PoolUp'
  BY <1>2, ServerFrame
<1>3. CASE UNCHANGED vars
  BY <1>3 DEF vars, callerVars
<1> QED BY <1>1, <1>2, <1>3 DEF Next

\* A pool that is down, or about to be, has nothing to do.
LEMMA NothingToDo ==
    ASSUME Inv, ~avail \/ Stopping
    PROVE  /\ \A c \in Callers : pc[c] \notin Posted
           /\ list = <<>>
           /\ \A s \in Servers : spc[s] \notin Busy
<1> USE DEF Inv
<1>1. \A c \in Callers : pc[c] \notin Posted
  BY DEF PoolUp, Stopping, StopAlone, Posted, StopStates
<1>2. \A s \in Servers : spc[s] \notin Busy
  BY <1>1 DEF BusyJobs, Pending, Jobs
<1>3. list = <<>>
  <2> SUFFICES ASSUME list # <<>> PROVE FALSE
    OBVIOUS
  <2>1. list[1] \in Jobs /\ 1 \in 1 .. Len(list)
    BY ElementOfSeq, EmptySeq, LenProperties DEF TypeOK
  <2> QED BY <1>1, <2>1 DEF ListJobs, Pending, Jobs
<1> QED BY <1>1, <1>2, <1>3

-----------------------------------------------------------------------------
(* The jobs, where the caller acts.                                        *)

LEMMA ListElement ==
    ASSUME TypeOK, NEW p \in 1 .. Len(list)
    PROVE  list[p] \in Jobs /\ list[p][1] \in Callers /\ list[p][2] \in Indices
BY ElementOfSeq DEF TypeOK, Jobs

\* A step that takes no job from the list and none up, and disturbs no pending
\* job, keeps list and servers right.
LEMMA KeepJobs ==
    ASSUME Inv, UNCHANGED <<list, sjob>>,
           \A s \in Servers : spc'[s] \in Busy => spc'[s] = spc[s],
           \A d \in Callers, i \in Indices :
               Pending(d, i) => Pending(d, i)' /\ job'[d][i] = job[d][i]
    PROVE  ListJobs' /\ BusyJobs'
<1> USE DEF Inv
<1>1. ListJobs'
  BY ListElement DEF ListJobs
<1>2. BusyJobs'
  <2>1. ASSUME NEW s \in Servers, spc'[s] \in Busy
        PROVE  /\ sjob[s] \in Jobs /\ sjob[s][1] \in Callers /\ sjob[s][2] \in Indices
               /\ Pending(sjob[s][1], sjob[s][2])
               /\ job[sjob[s][1]][sjob[s][2]] = StateOf(spc[s])
               /\ \A p \in 1 .. Len(list) : list[p] # sjob[s]
               /\ spc[s] = spc'[s]
    BY <2>1 DEF BusyJobs, Jobs
  <2>2. ASSUME NEW s \in Servers, spc'[s] \in Busy
        PROVE  /\ Pending(sjob[s][1], sjob[s][2])'
               /\ job'[sjob[s][1]][sjob[s][2]] = StateOf(spc'[s])
    BY <2>1, <2>2
  <2>3. \A s, t \in Servers :
          spc'[s] \in Busy /\ spc'[t] \in Busy /\ sjob[s] = sjob[t] => s = t
    BY <2>1 DEF BusyJobs
  <2> QED BY <2>1, <2>2, <2>3 DEF BusyJobs, StateOf
<1> QED BY <1>1, <1>2

\* Creating servers disturbs none that is at work, and a new list replaces an
\* empty one.
LEMMA CreateKeeps ==
    ASSUME Inv, BlasThreadInit \/ \E c \in Callers : SetGrow(c)
    PROVE  UNCHANGED <<list, sjob>> /\ \A s \in Servers : spc'[s] \in Busy => spc'[s] = spc[s]
<1> USE DEF Inv, Busy
<1>1. UNCHANGED <<list, sjob>>
  BY NothingToDo DEF BlasThreadInit, SetGrow, NewPool, listVars
<1>2. CASE BlasThreadInit
  <2>1. CASE avail
    BY <1>1, <1>2, <2>1 DEF BlasThreadInit
  <2>2. CASE ~avail
    <3>1. \A s \in Servers : spc[s] \notin Busy /\ spc'[s] \in {"wait", spc[s]}
      BY <1>2, <2>2, NothingToDo DEF BlasThreadInit, Create
    <3> QED BY <1>1, <3>1
  <2> QED BY <2>1, <2>2
<1>3. ASSUME NEW c \in Callers, SetGrow(c)
      PROVE  \A s \in Servers : spc'[s] \in Busy => spc'[s] = spc[s]
  BY <1>3 DEF SetGrow, Create
<1> QED BY <1>1, <1>2, <1>3

\* What a caller that has posted nothing may do: no job changes, and it goes
\* from call to call or from one stage before the posting to the next.
LEMMA UnpostedStep ==
    ASSUME Inv, NEW c \in Callers,
           UNCHANGED <<finish, job>>,
           \A d \in Callers : d # c => pc'[d] = pc[d] /\ num'[d] = num[d] /\ k'[d] = k[d],
           pc[c] \notin Posted, pc'[c] \notin Posted,
           \/ pc[c] \notin ExecStates /\ pc'[c] \notin ExecStates
           \/ pc[c] \in ExecStates /\ pc'[c] \in ExecStates /\ num'[c] = num[c]
    PROVE  /\ Progress'
           /\ \A d \in Callers, i \in Indices :
                 Pending(d, i) => Pending(d, i)' /\ job'[d][i] = job[d][i]
<1> USE DEF Inv
<1>1. Progress'
  BY DEF Progress, ProgressOf, Done, Posted, ExecStates
<1>2. \A d \in Callers, i \in Indices :
         Pending(d, i) => Pending(d, i)' /\ job'[d][i] = job[d][i]
  BY DEF Pending
<1> QED BY <1>1, <1>2

\* Leaving without a job changes none.
LEMMA LeaveIdle ==
    ASSUME Inv, NEW c \in Callers, pc[c] \notin ExecStates, Leave(c)
    PROVE  UNCHANGED <<finish, job>> /\ pc'[c] = "idle"
           /\ \A d \in Callers : d # c => pc'[d] = pc[d] /\ num'[d] = num[d] /\ k'[d] = k[d]
<1> USE DEF Inv, TypeOK, Leave, Go
<1>1. job[c] = NoJobs
  BY DEF Progress, ProgressOf
<1>2. finish[c] = NoEvents
  <2>1. \A i \in Indices : finish[c][i] = FALSE
    BY DEF Progress, ProgressOf, Done, Posted, ExecStates
  <2> QED BY <2>1 DEF NoEvents
<1> QED BY <1>1, <1>2

LEMMA JobsUnposted ==
    ASSUME Inv, NEW c \in Callers,
           Async(c) \/ ExecInit(c) \/ SetCall(c) \/ SetNumThreads(c) \/ Stop(c) \/ Shutdown(c)
    PROVE  ListJobs' /\ BusyJobs' /\ Progress'
<1> USE DEF Inv, TypeOK, Go, ExecStates, Posted, poolVars, listVars, serverVars,
            callerVars, jobVars
<1>1. CASE Async(c)
  BY <1>1, UnpostedStep, KeepJobs DEF Async
<1>2. CASE ExecInit(c)
  BY <1>2, CreateKeeps, UnpostedStep, KeepJobs DEF ExecInit
<1>3. CASE SetCall(c) \/ Stop(c)
  BY <1>3, UnpostedStep, KeepJobs DEF SetCall, Stop, Quiet
<1>4. CASE SetEnter(c) \/ SetRead(c)
  BY <1>4, UnpostedStep, KeepJobs DEF SetEnter, SetRead
<1>5. CASE SetInit(c)
  BY <1>5, CreateKeeps, UnpostedStep, KeepJobs DEF SetInit
<1>6. CASE SetGrow(c)
  BY <1>6, CreateKeeps, UnpostedStep, KeepJobs DEF SetGrow
<1>7. CASE SetStore(c)
  BY <1>7, LeaveIdle, UnpostedStep, KeepJobs DEF SetStore
<1>8. CASE StopLock(c)
  BY <1>8, LeaveIdle, UnpostedStep, KeepJobs DEF StopLock
<1>9. CASE StopEnd(c)
  BY <1>9, LeaveIdle, UnpostedStep, KeepJobs DEF StopEnd
<1>10. CASE StopJoin(c)
  <2>1. \A s \in Servers : spc'[s] \in Busy => spc'[s] = spc[s]
    BY <1>10 DEF StopJoin, Busy
  <2> QED BY <1>10, <2>1, UnpostedStep, KeepJobs DEF StopJoin
<1> QED BY <1>1, <1>2, <1>3, <1>4, <1>5, <1>6, <1>7, <1>8, <1>9, <1>10
        DEF SetNumThreads, Shutdown

\* Progress of a caller whose part of the state stays the same.
LEMMA ProgressKept ==
    ASSUME Progress, NEW d \in Callers, pc'[d] = pc[d], num'[d] = num[d], k'[d] = k[d],
           job'[d] = job[d], finish'[d] = finish[d]
    PROVE  ProgressOf(d)'
BY DEF Progress, ProgressOf, Done

LEMMA JobsCall ==
    ASSUME Inv, NEW c \in Callers, Call(c)
    PROVE  ListJobs' /\ BusyJobs' /\ Progress'
<1> USE DEF Inv, TypeOK, Go, ExecStates, Posted, poolVars, listVars, serverVars,
            callerVars, jobVars
<1>0. PICK n \in 2 .. cpuNumber :
         /\ num' = [num EXCEPT ![c] = n]
         /\ job' = [job EXCEPT ![c] = [i \in Indices |-> IF i < n THEN "todo" ELSE "none"]]
  BY DEF Call
<1>1. /\ pc[c] = "idle" /\ pc'[c] = "async" /\ num'[c] = n
      /\ UNCHANGED <<list, spc, sjob, k, finish>>
      /\ \A d \in Callers : d # c =>
            pc'[d] = pc[d] /\ num'[d] = num[d] /\ job'[d] = job[d]
      /\ \A i \in Indices : job'[c][i] = IF i < n THEN "todo" ELSE "none"
  BY <1>0 DEF Call
<1>2. \A d \in Callers, i \in Indices :
        Pending(d, i) => Pending(d, i)' /\ job'[d][i] = job[d][i]
  BY <1>1 DEF Pending
<1>3. Progress'
  <2>1. ASSUME NEW d \in Callers, d # c
        PROVE  ProgressOf(d)'
    BY <1>1, <2>1, ProgressKept
  <2>2. ProgressOf(c)'
    <3>1. \A i \in Indices : ~finish[c][i]
      BY <1>1 DEF Progress, ProgressOf, Done
    <3> QED BY <1>1, <3>1 DEF ProgressOf, Indices
  <2> QED BY <2>1, <2>2 DEF Progress
<1> QED BY <1>1, <1>2, <1>3, KeepJobs

\* The chain is appended: its jobs are new to the list and to the servers.
LEMMA JobsPost ==
    ASSUME Inv, NEW c \in Callers, Post(c)
    PROVE  ListJobs' /\ BusyJobs' /\ Progress'
<1> USE DEF Inv
<1>0. /\ UNCHANGED <<spc, sjob, num, k, finish, job>>
      /\ pc[c] = "post" /\ pc'[c] = "fill" /\ list' = list \o Chain(c)
      /\ \A d \in Callers : d # c => pc'[d] = pc[d]
  BY DEF Post, Go, TypeOK, serverVars, jobVars
<1>1. num[c] \in 2 .. MaxThreads
  BY <1>0 DEF Ranges, ExecStates
<1> DEFINE L == Len(list)
<1>2. /\ L \in Nat /\ Len(list') = L + (num[c] - 1)
      /\ \A p \in 1 .. L : list'[p] = list[p]
      /\ \A p \in 1 .. Len(list') : p > L =>
            list'[p] = <<c, p - L>> /\ p - L \in 1 .. (num[c] - 1)
  <2>1. /\ list \in Seq(Jobs) /\ Chain(c) \in Seq(Jobs)
        /\ Len(Chain(c)) = num[c] - 1
        /\ \A i \in 1 .. (num[c] - 1) : Chain(c)[i] = <<c, i>>
    BY <1>1, ChainFacts DEF TypeOK
  <2>2. L \in Nat
    BY <2>1, LenProperties
  <2>3. /\ Len(list') = L + (num[c] - 1)
        /\ \A p \in 1 .. (L + (num[c] - 1)) :
              list'[p] = IF p <= L THEN list[p] ELSE Chain(c)[p - L]
    BY <1>0, <2>1, ConcatProperties
  <2> HIDE DEF L
  <2>4. \A p \in 1 .. L : list'[p] = list[p]
    BY <1>1, <2>2, <2>3
  <2>5. ASSUME NEW p \in 1 .. Len(list'), p > L
        PROVE  list'[p] = <<c, p - L>> /\ p - L \in 1 .. (num[c] - 1)
    <3>1. p - L \in 1 .. (num[c] - 1)
      BY <1>1, <2>2, <2>3, <2>5
    <3> QED BY <2>1, <2>2, <2>3, <2>5, <3>1
  <2> QED BY <2>2, <2>3, <2>4, <2>5
<1>3. \A i \in 1 .. (num[c] - 1) :
        i \in Indices /\ Pending(c, i)' /\ ~Pending(c, i) /\ job[c][i] = "todo"
  BY <1>0, <1>1 DEF Progress, ProgressOf, Done, Pending, Posted, Indices
<1>4. \A d \in Callers, i \in Indices : Pending(d, i) => d # c /\ Pending(d, i)'
  BY <1>0 DEF Pending, Posted
<1>5. \A p \in 1 .. L :
        /\ list[p][1] \in Callers \ {c} /\ list[p][2] \in Indices
        /\ Pending(list[p][1], list[p][2]) /\ job[list[p][1]][list[p][2]] = "todo"
  BY <1>4, ListElement DEF ListJobs
<1>6. ListJobs'
  <2>1. ASSUME NEW p \in 1 .. Len(list')
        PROVE  (Pending(list[p][1], list[p][2]) /\ job[list[p][1]][list[p][2]] = "todo")'
    <3>1. CASE p <= L
      <4>1. p \in 1 .. L /\ list'[p] = list[p]
        BY <1>2, <3>1
      <4>2. Pending(list[p][1], list[p][2]) /\ job[list[p][1]][list[p][2]] = "todo"
        BY <1>5, <4>1
      <4>3. list[p][1] \in Callers \ {c} /\ list[p][2] \in Indices
        BY <1>5, <4>1
      <4> QED BY <1>0, <4>1, <4>2, <4>3 DEF Pending
    <3>2. CASE p > L
      <4>1. PICK i \in 1 .. (num[c] - 1) : list'[p] = <<c, i>>
        BY <1>2, <3>2
      <4>2. list'[p][1] = c /\ list'[p][2] = i
        BY <4>1
      <4>3. Pending(c, i)' /\ job'[c][i] = "todo"
        BY <1>0, <1>3
      <4> QED BY <1>0, <4>2, <4>3 DEF Pending
    <3> QED BY <1>2, <3>1, <3>2
  <2>2. ASSUME NEW p \in 1 .. Len(list'), NEW q \in 1 .. Len(list'), list'[p] = list'[q]
        PROVE  p = q
    <3>0. \A r \in 1 .. Len(list') :
            IF r <= L THEN r \in 1 .. L /\ list'[r] = list[r] /\ list'[r][1] # c
                      ELSE list'[r] = <<c, r - L>> /\ list'[r][1] = c /\ list'[r][2] = r - L
      BY <1>2, <1>5
    <3>1. CASE p <= L /\ q <= L
      BY <2>2, <3>0, <3>1 DEF ListJobs
    <3>2. CASE p > L /\ q > L
      BY <1>2, <2>2, <3>0, <3>2
    <3>3. CASE (p <= L) # (q <= L)
      BY <2>2, <3>0, <3>3
    <3> QED BY <1>2, <3>1, <3>2, <3>3
  <2> QED BY <2>1, <2>2 DEF ListJobs
<1>7. BusyJobs'
  <2>1. ASSUME NEW s \in Servers, spc[s] \in Busy
        PROVE  /\ sjob[s] \in Jobs /\ sjob[s][1] \in Callers \ {c} /\ sjob[s][2] \in Indices
               /\ Pending(sjob[s][1], sjob[s][2])'
               /\ job[sjob[s][1]][sjob[s][2]] = StateOf(spc[s])
               /\ \A p \in 1 .. L : list[p] # sjob[s]
    <3>1. /\ sjob[s] \in Jobs /\ sjob[s][1] \in Callers /\ sjob[s][2] \in Indices
          /\ Pending(sjob[s][1], sjob[s][2])
      BY <2>1 DEF BusyJobs, Jobs
    <3>2. sjob[s][1] # c /\ Pending(sjob[s][1], sjob[s][2])'
      BY <1>0, <3>1 DEF Pending, Posted
    <3> QED BY <2>1, <3>1, <3>2 DEF BusyJobs
  <2>2. ASSUME NEW s \in Servers, spc[s] \in Busy, NEW p \in 1 .. Len(list')
        PROVE  list'[p] # sjob[s]
    <3>1. CASE p <= L
      BY <1>2, <2>1, <2>2, <3>1
    <3>2. CASE p > L
      <4>1. list'[p][1] = c
        BY <1>2, <3>2
      <4> QED BY <2>1, <2>2, <4>1
    <3> QED BY <1>2, <3>1, <3>2
  <2>3. \A s, t \in Servers :
          spc[s] \in Busy /\ spc[t] \in Busy /\ sjob[s] = sjob[t] => s = t
    BY DEF BusyJobs
  <2> QED BY <1>0, <2>1, <2>2, <2>3 DEF BusyJobs, StateOf
<1>8. Progress'
  <2>1. ASSUME NEW d \in Callers, d # c
        PROVE  ProgressOf(d)'
    BY <1>0, <2>1, ProgressKept
  <2>2. ProgressOf(c)'
    BY <1>0, <1>1 DEF Progress, ProgressOf, Done, Posted, ExecStates, Indices
  <2> QED BY <2>1, <2>2 DEF Progress
<1> QED BY <1>6, <1>7, <1>8

LEMMA JobsPosted ==
    ASSUME Inv, NEW c \in Callers, Fill(c) \/ StartOwn(c) \/ FinishOwn(c)
    PROVE  ListJobs' /\ BusyJobs' /\ Progress'
<1> USE DEF Inv, TypeOK, Go, Posted
<1>1. /\ UNCHANGED <<list, spc, sjob, num, finish>>
      /\ pc[c] \in {"fill", "own", "owning"}
      /\ \A d \in Callers : d # c => pc'[d] = pc[d] /\ k'[d] = k[d] /\ job'[d] = job[d]
      /\ \A i \in Indices : i # 0 => job'[c][i] = job[c][i]
      /\ \/ pc[c] = "fill" /\ pc'[c] = "own" /\ job'[c][0] = job[c][0]
         \/ pc[c] = "own" /\ pc'[c] = "owning" /\ job'[c][0] = "running"
         \/ pc[c] = "owning" /\ pc'[c] = "wait" /\ job'[c][0] = "done" /\ k'[c] = 1
  BY DEF Fill, StartOwn, FinishOwn, Indices, poolVars, listVars, serverVars, callerVars, jobVars
<1>2. num[c] \in 2 .. MaxThreads
  BY <1>1 DEF Ranges, ExecStates
<1>3. ASSUME NEW d \in Callers, NEW i \in Indices, Pending(d, i)
      PROVE  Pending(d, i)' /\ job'[d][i] = job[d][i]
  <2>1. CASE d # c
    BY <1>1, <1>3, <2>1 DEF Pending
  <2>2. CASE d = c
    <3>1. i \in 1 .. (num[c] - 1) /\ ~finish[c][i]
      BY <1>3, <2>2 DEF Pending
    <3>2. pc'[c] = "wait" => k'[c] <= i
      BY <1>1, <1>2, <3>1
    <3> QED BY <1>1, <1>2, <2>2, <3>1, <3>2 DEF Pending
  <2> QED BY <2>1, <2>2
<1>4. Progress'
  <2>1. ASSUME NEW d \in Callers, d # c
        PROVE  ProgressOf(d)'
    BY <1>1, <2>1, ProgressKept
  <2>2. ProgressOf(c)'
    <3>1. \A i \in Indices : finish'[c][i] => Done(c, i)'
      <4> SUFFICES ASSUME NEW i \in Indices, finish'[c][i] PROVE Done(c, i)' OBVIOUS
      <4>1. Done(c, i)
        BY <1>1 DEF Progress, ProgressOf
      <4>2. i # 0 /\ i \in 1 .. (num[c] - 1) /\ job'[c][i] = "done"
        BY <1>1, <4>1 DEF Done
      <4>3. pc'[c] \in Posted /\ num'[c] = num[c]
        BY <1>1
      <4> QED BY <4>2, <4>3 DEF Done
    <3>2. /\ pc[c] \in ExecStates
          /\ \A i \in Indices : i >= num[c] => i # 0 /\ job[c][i] = "none"
          /\ pc[c] = "fill" => job[c][0] = "todo"
      BY <1>1, <1>2 DEF Progress, ProgressOf, ExecStates, Indices
    <3>3. pc'[c] = "wait" => k'[c] - 1 = 0
      BY <1>1
    <3> QED BY <1>1, <1>2, <3>1, <3>2, <3>3 DEF ProgressOf, ExecStates
  <2> QED BY <2>1, <2>2 DEF Progress
<1> QED BY <1>1, <1>3, <1>4, KeepJobs

LEMMA JobsWait ==
    ASSUME Inv, NEW c \in Callers, Wait(c)
    PROVE  ListJobs' /\ BusyJobs' /\ Progress'
<1> USE DEF Inv, TypeOK, Go, Posted
<1>0. pc[c] = "wait" /\ finish[c][k[c]] /\ UNCHANGED <<list, spc, sjob>>
  BY DEF Wait, listVars, serverVars
<1>1. k[c] \in 1 .. (num[c] - 1) /\ num[c] \in 2 .. MaxThreads /\ k[c] \in Indices
  BY <1>0 DEF Ranges, ExecStates, Indices
<1>2. job[c][k[c]] = "done"
  BY <1>0, <1>1 DEF Progress, ProgressOf, Done
<1>3. CASE k[c] < num[c] - 1
  <2>1. /\ UNCHANGED <<pc, num, finish, job>> /\ k'[c] = k[c] + 1
        /\ \A d \in Callers : d # c => k'[d] = k[d]
    BY <1>3 DEF Wait, jobVars
  <2>2. \A d \in Callers, i \in Indices :
          Pending(d, i) => Pending(d, i)' /\ job'[d][i] = job[d][i]
    <3> SUFFICES ASSUME NEW d \in Callers, NEW i \in Indices, Pending(d, i)
                 PROVE  Pending(d, i)' /\ job'[d][i] = job[d][i]
      OBVIOUS
    <3>1. CASE d # c
      BY <2>1, <3>1 DEF Pending
    <3>2. CASE d = c
      <4>1. k[c] <= i /\ ~finish[c][i]
        BY <1>0, <3>2 DEF Pending
      <4>2. k[c] # i /\ k[c] + 1 <= i
        BY <1>0, <1>1, <4>1 DEF Indices
      <4> QED BY <2>1, <3>2, <4>2 DEF Pending
    <3> QED BY <3>1, <3>2
  <2>3. Progress'
    <3>1. ASSUME NEW d \in Callers, d # c
          PROVE  ProgressOf(d)'
      BY <2>1, <3>1, ProgressKept
    <3>2. ProgressOf(c)'
      <4>1. \A i \in 1 .. (k'[c] - 1) : job[c][i] = "done"
        BY <1>0, <1>1, <1>2, <2>1 DEF Progress, ProgressOf
      <4> QED BY <1>0, <1>1, <2>1, <4>1 DEF Progress, ProgressOf, Done
    <3> QED BY <3>1, <3>2 DEF Progress
  <2> QED BY <1>0, <2>2, <2>3, KeepJobs
<1>4. CASE ~(k[c] < num[c] - 1)
  <2>1. /\ pc'[c] = "idle" /\ job'[c] = NoJobs /\ finish'[c] = NoEvents
        /\ \A d \in Callers : d # c =>
              /\ pc'[d] = pc[d] /\ num'[d] = num[d] /\ k'[d] = k[d]
              /\ job'[d] = job[d] /\ finish'[d] = finish[d]
    BY <1>4 DEF Wait, Leave
  <2>2. \A i \in Indices : ~Pending(c, i)
    BY <1>0, <1>1, <1>4 DEF Pending
  <2>3. \A d \in Callers, i \in Indices :
          Pending(d, i) => Pending(d, i)' /\ job'[d][i] = job[d][i]
    BY <2>1, <2>2 DEF Pending
  <2>4. Progress'
    BY <2>1, ProgressKept DEF Progress, ProgressOf, ExecStates, NoEvents
  <2> QED BY <1>0, <2>3, <2>4, KeepJobs
<1> QED BY <1>3, <1>4

-----------------------------------------------------------------------------
(* The jobs, where a server acts.                                          *)

\* What a busy server holds.
LEMMA BusyFacts ==
    ASSUME Inv, NEW s \in Servers, spc[s] \in Busy
    PROVE  /\ sjob[s] \in Jobs /\ sjob[s] = <<sjob[s][1], sjob[s][2]>>
           /\ sjob[s][1] \in Callers /\ sjob[s][2] \in Indices
           /\ Pending(sjob[s][1], sjob[s][2])
           /\ job[sjob[s][1]][sjob[s][2]] = StateOf(spc[s])
           /\ \A p \in 1 .. Len(list) : list[p] # sjob[s]
           /\ \A t \in Servers : spc[t] \in Busy /\ sjob[t] = sjob[s] => t = s
BY DEF Inv, BusyJobs, Jobs

\* Waking, looking and passing the signal on concern no job.
LEMMA JobsServerKeeps ==
    ASSUME Inv, NEW s \in Servers, Awake(s) \/ Die(s) \/ Look(s) \/ Pass(s) \/ Status(s)
    PROVE  ListJobs' /\ BusyJobs' /\ Progress'
<1> USE DEF Inv, TypeOK
<1>1. /\ UNCHANGED <<list, sjob, pc, num, k, finish, job>>
      /\ \A t \in Servers : t # s => spc'[t] = spc[t]
      /\ spc'[s] \in Busy => spc[s] \in Busy /\ StateOf(spc'[s]) = StateOf(spc[s])
  BY DEF Awake, Die, Look, Pass, Status, Be, Busy, StateOf, listVars, callerVars, jobVars
<1>2. ListJobs'
  BY <1>1 DEF ListJobs, Pending
<1>3. BusyJobs'
  <2>1. ASSUME NEW t \in Servers, spc'[t] \in Busy
        PROVE  spc[t] \in Busy /\ StateOf(spc'[t]) = StateOf(spc[t])
    BY <1>1, <2>1
  <2>2. ASSUME NEW t \in Servers, spc'[t] \in Busy
        PROVE  /\ (sjob[t] \in Jobs)' /\ (Pending(sjob[t][1], sjob[t][2]))'
               /\ (job[sjob[t][1]][sjob[t][2]] = StateOf(spc[t]))'
               /\ (\A p \in 1 .. Len(list) : list[p] # sjob[t])'
    BY <1>1, <2>1, <2>2, BusyFacts DEF Pending
  <2>3. \A t, u \in Servers :
          spc'[t] \in Busy /\ spc'[u] \in Busy /\ sjob'[t] = sjob'[u] => t = u
    BY <1>1, <2>1, BusyFacts
  <2> QED BY <2>2, <2>3 DEF BusyJobs
<1>4. Progress'
  BY <1>1, ProgressKept DEF Progress
<1> QED BY <1>2, <1>3, <1>4

\* The first job of the list goes into the hands of the server.
LEMMA JobsTake ==
    ASSUME Inv, NEW s \in Servers, Take(s)
    PROVE  ListJobs' /\ BusyJobs' /\ Progress'
<1> USE DEF Inv
<1>0. UNCHANGED <<pc, num, k, finish, job>> /\ spc[s] = "take"
  BY DEF Take, callerVars, jobVars
<1>1. Progress'
  BY <1>0, ProgressKept DEF Progress
<1>2. CASE list = <<>>
  <2>1. UNCHANGED <<list, sjob>> /\ \A t \in Servers : spc'[t] \in Busy => spc'[t] = spc[t]
    BY <1>2 DEF Take, Be, Busy, TypeOK
  <2>2. \A d \in Callers, i \in Indices :
          Pending(d, i) => Pending(d, i)' /\ job'[d][i] = job[d][i]
    BY <1>0 DEF Pending
  <2> QED BY <1>1, <2>1, <2>2, KeepJobs
<1>3. CASE list # <<>>
  <2>1. /\ sjob' = [sjob EXCEPT ![s] = Head(list)] /\ list' = Tail(list)
        /\ spc' = [spc EXCEPT ![s] = "look"]
    BY <1>3 DEF Take, Be
  <2>2. /\ Len(list) \in Nat /\ Len(list) >= 1 /\ Len(list') = Len(list) - 1
        /\ Head(list) = list[1]
        /\ \A p \in 1 .. Len(list') : list'[p] = list[p + 1]
    BY <1>3, <2>1, HeadTailProperties, LenProperties, EmptySeq DEF TypeOK
  <2>3. /\ sjob'[s] = list[1] /\ spc'[s] = "look"
        /\ \A t \in Servers : t # s => sjob'[t] = sjob[t] /\ spc'[t] = spc[t]
    BY <2>1, <2>2 DEF TypeOK
  <2>4. \A p \in 1 .. Len(list') : p + 1 \in 1 .. Len(list) /\ p + 1 # 1
    BY <2>2
  <2>5. ListJobs'
    <3>1. ASSUME NEW p \in 1 .. Len(list')
          PROVE  (Pending(list[p][1], list[p][2]) /\ job[list[p][1]][list[p][2]] = "todo")'
      <4>1. PICK q \in 1 .. Len(list) : list'[p] = list[q]
        BY <2>2, <2>4
      <4>2. Pending(list[q][1], list[q][2]) /\ job[list[q][1]][list[q][2]] = "todo"
        BY DEF ListJobs
      <4> QED BY <1>0, <4>1, <4>2 DEF Pending
    <3>2. \A p, q \in 1 .. Len(list') : list'[p] = list'[q] => p = q
      <4> SUFFICES ASSUME NEW p \in 1 .. Len(list'), NEW q \in 1 .. Len(list'),
                          list'[p] = list'[q]
                   PROVE  p = q
        OBVIOUS
      <4>1. p + 1 = q + 1
        BY <2>2, <2>4 DEF ListJobs
      <4> QED BY <2>2, <4>1
    <3> QED BY <3>1, <3>2 DEF ListJobs
  <2>6. BusyJobs'
    <3>1. /\ list[1] \in Jobs /\ Pending(list[1][1], list[1][2])
          /\ job[list[1][1]][list[1][2]] = "todo"
      BY <2>2, ListElement DEF ListJobs
    <3>2. \A p \in 1 .. Len(list') : list'[p] # list[1]
      BY <2>2, <2>4 DEF ListJobs
    <3>3. ASSUME NEW t \in Servers, spc'[t] \in Busy
          PROVE  /\ (sjob[t] \in Jobs)' /\ (Pending(sjob[t][1], sjob[t][2]))'
                 /\ (job[sjob[t][1]][sjob[t][2]] = StateOf(spc[t]))'
                 /\ (\A p \in 1 .. Len(list) : list[p] # sjob[t])'
      <4>1. CASE t = s
        BY <1>0, <2>3, <3>1, <3>2, <4>1 DEF Pending, StateOf
      <4>2. CASE t # s
        <5>1. \A p \in 1 .. Len(list') : list'[p] # sjob[t]
          BY <2>2, <2>3, <2>4, <3>3, <4>2, BusyFacts
        <5> QED BY <1>0, <2>3, <3>3, <4>2, <5>1, BusyFacts DEF Pending
      <4> QED BY <4>1, <4>2
    <3>4. ASSUME NEW t \in Servers, NEW u \in Servers,
                 spc'[t] \in Busy, spc'[u] \in Busy, sjob'[t] = sjob'[u]
          PROVE  t = u
      <4>1. ASSUME NEW v \in Servers, v # s, spc'[v] \in Busy
            PROVE  sjob'[v] # sjob'[s]
        BY <2>2, <2>3, <4>1, BusyFacts
      <4>2. CASE t # s /\ u # s
        BY <2>3, <3>4, <4>2, BusyFacts
      <4> QED BY <3>4, <4>1, <4>2
    <3> QED BY <3>3, <3>4 DEF BusyJobs
  <2> QED BY <1>1, <2>5, <2>6
<1> QED BY <1>2, <1>3
\* A job in the hands of a server is begun or ends.
LEMMA JobsStartFinish ==
    ASSUME Inv, NEW s \in Servers, Start(s) \/ Finish(s)
    PROVE  ListJobs' /\ BusyJobs' /\ Progress'
<1> USE DEF Inv
<1>1. spc[s] \in Busy
  BY DEF Start, Finish, Busy
<1>0. PICK c \in Callers, i \in Indices : sjob[s] = <<c, i>>
  BY <1>1, BusyFacts
<1>2. /\ c \in Callers /\ i \in Indices /\ sjob[s] = <<c, i>> /\ Pending(c, i)
      /\ \A p \in 1 .. Len(list) : list[p] # <<c, i>>
      /\ \A t \in Servers : spc[t] \in Busy /\ t # s => sjob[t] # <<c, i>>
  BY <1>0, <1>1, BusyFacts
<1>3. /\ UNCHANGED <<list, sjob, pc, num, k, finish>>
      /\ \A t \in Servers : t # s => spc'[t] = spc[t]
      /\ \/ spc'[s] = "running" /\ job' = [job EXCEPT ![c][i] = "running"]
         \/ spc'[s] = "status" /\ job' = [job EXCEPT ![c][i] = "done"]
  BY <1>0 DEF Start, Finish, Be, Become, TypeOK, listVars, callerVars
<1>4. /\ job'[c][i] = StateOf(spc'[s])
      /\ \A d \in Callers, j \in Indices : <<d, j>> # <<c, i>> => job'[d][j] = job[d][j]
      /\ \A d \in Callers : d # c => job'[d] = job[d]
  BY <1>2, <1>3 DEF TypeOK, StateOf
<1>5. \A d \in Callers, j \in Indices : Pending(d, j)' <=> Pending(d, j)
  BY <1>3 DEF Pending
<1>6. ListJobs'
  <2>1. ASSUME NEW p \in 1 .. Len(list)
        PROVE  (Pending(list[p][1], list[p][2]) /\ job[list[p][1]][list[p][2]] = "todo")'
    <3>1. /\ list[p] = <<list[p][1], list[p][2]>> /\ list[p] # <<c, i>>
          /\ list[p][1] \in Callers /\ list[p][2] \in Indices
      BY <1>2, ListElement DEF Jobs
    <3>2. Pending(list[p][1], list[p][2]) /\ job[list[p][1]][list[p][2]] = "todo"
      BY DEF ListJobs
    <3>3. Pending(list[p][1], list[p][2])' /\ job'[list[p][1]][list[p][2]] = "todo"
      BY <1>3, <1>4, <1>5, <3>1, <3>2
    <3> QED BY <1>3, <3>3
  <2> QED BY <1>3, <2>1 DEF ListJobs
<1>7. BusyJobs'
  <2>1. ASSUME NEW t \in Servers, spc'[t] \in Busy
        PROVE  /\ (sjob[t] \in Jobs)' /\ (Pending(sjob[t][1], sjob[t][2]))'
               /\ (job[sjob[t][1]][sjob[t][2]] = StateOf(spc[t]))'
               /\ (\A p \in 1 .. Len(list) : list[p] # sjob[t])'
    <3>1. CASE t = s
      <4>1. sjob'[t][1] = c /\ sjob'[t][2] = i /\ sjob'[t] = sjob[s]
        BY <1>0, <1>3, <3>1
      <4> QED BY <1>1, <1>2, <1>3, <1>4, <1>5, <3>1, <4>1, BusyFacts
    <3>2. CASE t # s
      <4>1. spc[t] \in Busy /\ sjob[t] # <<c, i>>
        BY <1>2, <1>3, <2>1, <3>2
      <4>2. /\ sjob[t] \in Jobs /\ sjob[t] = <<sjob[t][1], sjob[t][2]>>
            /\ sjob[t][1] \in Callers /\ sjob[t][2] \in Indices
            /\ Pending(sjob[t][1], sjob[t][2])
            /\ job[sjob[t][1]][sjob[t][2]] = StateOf(spc[t])
            /\ \A p \in 1 .. Len(list) : list[p] # sjob[t]
        BY <4>1, BusyFacts
      <4>3. job'[sjob[t][1]][sjob[t][2]] = job[sjob[t][1]][sjob[t][2]]
        BY <1>4, <4>1, <4>2
      <4>4. Pending(sjob[t][1], sjob[t][2])'
        BY <1>3, <1>5, <4>2
      <4> QED BY <1>3, <3>2, <4>2, <4>3, <4>4
    <3> QED BY <3>1, <3>2
  <2>2. \A t, u \in Servers :
          spc'[t] \in Busy /\ spc'[u] \in Busy /\ sjob'[t] = sjob'[u] => t = u
    <3>1. \A t \in Servers : spc'[t] \in Busy => spc[t] \in Busy
      BY <1>1, <1>3
    <3> QED BY <1>3, <3>1, BusyFacts
  <2> QED BY <2>1, <2>2 DEF BusyJobs
<1>8. Progress'
  <2>1. ASSUME NEW d \in Callers, d # c
        PROVE  ProgressOf(d)'
    BY <1>3, <1>4, <2>1, ProgressKept
  <2>2. ProgressOf(c)'
    <3>1. /\ pc[c] \in Posted /\ i \in 1 .. (num[c] - 1) /\ ~finish[c][i]
          /\ pc[c] = "wait" => k[c] <= i
          /\ i # 0
      BY <1>2, <1>3 DEF Pending
    <3>2. \A j \in Indices : j # i => job'[c][j] = job[c][j]
      BY <1>2, <1>4
    <3>3. num[c] \in Nat /\ k[c] \in Nat /\ i \in Nat
      BY <1>2 DEF TypeOK, Indices
    <3>4. ProgressOf(c)
      BY <1>2 DEF Progress
    <3>5. \A j \in Indices : finish'[c][j] => Done(c, j)'
      BY <1>3, <3>1, <3>2, <3>4 DEF ProgressOf, Done
    <3>6. \A j \in Indices : j >= num[c] => j # i
      BY <3>1, <3>3 DEF Indices
    <3>7. pc[c] \in ExecStates /\ pc[c] \notin {"async", "exec_init", "post"}
      BY <3>1 DEF Posted, ExecStates
    <3>8. pc[c] = "wait" => \A j \in 1 .. (k[c] - 1) : job'[c][j] = "done"
      <4> SUFFICES ASSUME pc[c] = "wait", NEW j \in 1 .. (k[c] - 1)
                   PROVE  job'[c][j] = "done"
        OBVIOUS
      <4>1. j \in Indices /\ j # i
        BY <3>1, <3>3 DEF Indices, TypeOK
      <4> QED BY <3>2, <3>4, <4>1 DEF ProgressOf
    <3>9. 0 \in Indices
      BY DEF Indices
    <3>10. /\ pc[c] \in {"fill", "own"} => job'[c][0] = "todo"
           /\ pc[c] = "owning" => job'[c][0] = "running"
           /\ pc[c] = "wait" => job'[c][0] = "done"
      BY <3>1, <3>2, <3>4, <3>9 DEF ProgressOf
    <3>11. \A j \in Indices : j >= num[c] => job'[c][j] = "none"
      BY <3>2, <3>4, <3>6, <3>7 DEF ProgressOf
    <3> QED BY <1>3, <3>5, <3>7, <3>8, <3>10, <3>11 DEF ProgressOf
  <2> QED BY <2>1, <2>2 DEF Progress
<1> QED BY <1>6, <1>7, <1>8

\* The event of a job is set: the server lets go of it.
LEMMA JobsSignal ==
    ASSUME Inv, NEW s \in Servers, Signal(s)
    PROVE  ListJobs' /\ BusyJobs' /\ Progress'
<1> USE DEF Inv
<1>1. spc[s] = "signal" /\ spc[s] \in Busy
  BY DEF Signal, Busy
<1>0. PICK c \in Callers, i \in Indices : sjob[s] = <<c, i>>
  BY <1>1, BusyFacts
<1>2. /\ c \in Callers /\ i \in Indices /\ sjob[s] = <<c, i>> /\ Pending(c, i)
      /\ job[c][i] = "done"
      /\ \A p \in 1 .. Len(list) : list[p] # <<c, i>>
      /\ \A t \in Servers : spc[t] \in Busy /\ t # s => sjob[t] # <<c, i>>
  BY <1>0, <1>1, BusyFacts DEF StateOf
<1>3. /\ UNCHANGED <<list, pc, num, k, job>>
      /\ \A t \in Servers : t # s => spc'[t] = spc[t] /\ sjob'[t] = sjob[t]
      /\ spc'[s] = "wait" /\ spc'[s] \notin Busy
      /\ finish' = [finish EXCEPT ![c][i] = TRUE]
  BY <1>0 DEF Signal, Be, Busy, TypeOK, listVars, callerVars
<1>4. /\ \A d \in Callers, j \in Indices :
            <<d, j>> # <<c, i>> => finish'[d][j] = finish[d][j]
      /\ \A d \in Callers : d # c => finish'[d] = finish[d]
  BY <1>2, <1>3 DEF TypeOK
<1>5. \A d \in Callers, j \in Indices :
        Pending(d, j) /\ <<d, j>> # <<c, i>> => Pending(d, j)'
  BY <1>3, <1>4 DEF Pending
<1>6. ListJobs'
  <2>1. ASSUME NEW p \in 1 .. Len(list)
        PROVE  (Pending(list[p][1], list[p][2]) /\ job[list[p][1]][list[p][2]] = "todo")'
    <3>1. /\ list[p] = <<list[p][1], list[p][2]>> /\ list[p] # <<c, i>>
          /\ list[p][1] \in Callers /\ list[p][2] \in Indices
      BY <1>2, ListElement DEF Jobs
    <3>2. Pending(list[p][1], list[p][2]) /\ job[list[p][1]][list[p][2]] = "todo"
      BY DEF ListJobs
    <3>3. Pending(list[p][1], list[p][2])'
      BY <1>3, <1>5, <3>1, <3>2
    <3> QED BY <1>3, <3>2, <3>3
  <2> QED BY <1>3, <2>1 DEF ListJobs
<1>7. BusyJobs'
  <2>1. ASSUME NEW t \in Servers, spc'[t] \in Busy
        PROVE  /\ (sjob[t] \in Jobs)' /\ (Pending(sjob[t][1], sjob[t][2]))'
               /\ (job[sjob[t][1]][sjob[t][2]] = StateOf(spc[t]))'
               /\ (\A p \in 1 .. Len(list) : list[p] # sjob[t])'
    <3>1. t # s /\ spc[t] \in Busy /\ sjob[t] # <<c, i>>
      BY <1>2, <1>3, <2>1
    <3>2. /\ sjob[t] \in Jobs /\ sjob[t] = <<sjob[t][1], sjob[t][2]>>
          /\ sjob[t][1] \in Callers /\ sjob[t][2] \in Indices
          /\ Pending(sjob[t][1], sjob[t][2])
          /\ job[sjob[t][1]][sjob[t][2]] = StateOf(spc[t])
          /\ \A p \in 1 .. Len(list) : list[p] # sjob[t]
      BY <3>1, BusyFacts
    <3>3. Pending(sjob[t][1], sjob[t][2])'
      BY <1>3, <1>5, <3>1, <3>2
    <3> QED BY <1>3, <3>1, <3>2, <3>3
  <2>2. \A t, u \in Servers :
          spc'[t] \in Busy /\ spc'[u] \in Busy /\ sjob'[t] = sjob'[u] => t = u
    <3>1. \A t \in Servers : spc'[t] \in Busy => t # s /\ spc[t] \in Busy
      BY <1>3
    <3> QED BY <1>3, <3>1, BusyFacts
  <2> QED BY <2>1, <2>2 DEF BusyJobs
<1>8. Progress'
  <2>1. ASSUME NEW d \in Callers, d # c
        PROVE  ProgressOf(d)'
    BY <1>3, <1>4, <2>1, ProgressKept
  <2>2. ProgressOf(c)'
    <3>1. ProgressOf(c)
      BY <1>2 DEF Progress
    <3>2. Done(c, i)
      BY <1>2 DEF Pending, Done
    <3>3. \A j \in Indices : finish'[c][j] => Done(c, j)
      BY <1>2, <1>4, <3>1, <3>2 DEF ProgressOf
    <3> QED BY <1>3, <3>1, <3>3 DEF ProgressOf, Done
  <2> QED BY <2>1, <2>2 DEF Progress
<1> QED BY <1>6, <1>7, <1>8

LEMMA JobsStep == Inv /\ [Next]_vars => ListJobs' /\ BusyJobs' /\ Progress'
<1> SUFFICES ASSUME Inv, [Next]_vars PROVE ListJobs' /\ BusyJobs' /\ Progress' OBVIOUS
<1>1. ASSUME NEW c \in Callers, Caller(c) PROVE ListJobs' /\ BusyJobs' /\ Progress'
  BY <1>1, JobsCall, JobsPost, JobsPosted, JobsWait, JobsUnposted DEF Caller, ExecBlas
<1>2. ASSUME NEW s \in Servers, Server(s) PROVE ListJobs' /\ BusyJobs' /\ Progress'
  BY <1>2, JobsServerKeeps, JobsTake, JobsStartFinish, JobsSignal DEF Server
<1>3. CASE UNCHANGED vars
  BY <1>3 DEF vars, poolVars, listVars, serverVars, callerVars, jobVars, Inv,
              ListJobs, BusyJobs, Progress, ProgressOf, Pending, Done
<1> QED BY <1>1, <1>2, <1>3 DEF Next

LEMMA InvNext == SingleSetter /\ NeverSerial /\ Inv /\ [Next]_vars => Inv'
BY TypeStep, InvFits, RangesStep, StopAloneStep, PoolUpStep, JobsStep DEF Inv

LEMMA Invariance == ASSUME SingleSetter, NeverSerial PROVE Spec => []Inv
<1>1. Init => Inv
  BY InvInit
<1>2. Inv /\ [Next]_vars => Inv'
  BY InvNext
<1> QED BY <1>1, <1>2, PTL DEF Spec
-----------------------------------------------------------------------------
(* The theorems.                                                           *)

(* blas_thread_server touches a queue entry only while exec_blas_async_wait *)
(* still has to see its event: it lies on the stack of the caller.         *)
THEOREM JobAliveCorrect == ASSUME SingleSetter, NeverSerial PROVE Spec => []JobAlive
<1>1. Inv => JobAlive
  <2> SUFFICES ASSUME Inv PROVE JobAlive OBVIOUS
  <2> USE DEF Inv
  <2>1. ASSUME NEW c \in Callers, NEW i \in Indices, Pending(c, i)
        PROVE  Held(c, i)
    BY <2>1 DEF Pending, Held, Posted
  <2>2. \A s \in Servers : spc[s] \in Busy => Held(sjob[s][1], sjob[s][2])
    BY <2>1, BusyFacts
  <2>3. \A p \in 1 .. Len(list) : Held(list[p][1], list[p][2])
    BY <2>1, ListElement DEF ListJobs
  <2> QED BY <2>2, <2>3 DEF JobAlive
<1> QED BY <1>1, Invariance, PTL

\* A step that adds nothing to the list, takes no signal away and keeps those
\* who are about to give one.
LEMMA SignalKept ==
    ASSUME NoLostSignal, UNCHANGED <<avail, list>>, filled => filled',
           \A s \in Servers : spc[s] \in {"take", "look", "pass"} => spc'[s] = spc[s],
           \A c \in Callers : pc[c] = "fill" => pc'[c] = "fill"
    PROVE  NoLostSignal'
BY DEF NoLostSignal

LEMMA NoLostSignalStep == Inv /\ NoLostSignal /\ [Next]_vars => NoLostSignal'
<1> SUFFICES ASSUME Inv, NoLostSignal, [Next]_vars PROVE NoLostSignal' OBVIOUS
<1> USE DEF Inv, TypeOK, Go, Be, poolVars, listVars, serverVars, callerVars, jobVars
<1>1. ASSUME NEW c \in Callers, Caller(c) PROVE NoLostSignal'
  <2>1. CASE Call(c) \/ SetCall(c) \/ Stop(c)
    <3>1. /\ UNCHANGED <<avail, list, filled, spc>> /\ pc[c] = "idle"
          /\ \A d \in Callers : d # c => pc'[d] = pc[d]
      BY <2>1 DEF Call, SetCall, Stop, Quiet
    <3>2. \A d \in Callers : pc[d] = "fill" => pc'[d] = "fill"
      BY <3>1
    <3> QED BY <3>1, <3>2, SignalKept
  <2>2. CASE Async(c) \/ StartOwn(c) \/ FinishOwn(c) \/ Wait(c)
    BY <2>2, SignalKept DEF Async, StartOwn, FinishOwn, Wait, Leave
  <2>3. CASE Post(c)
    BY <2>3 DEF Post, NoLostSignal
  <2>4. CASE Fill(c)
    BY <2>4 DEF Fill, NoLostSignal
  <2>5. CASE ExecInit(c) \/ SetInit(c)
    <3>1. CASE avail
      BY <2>5, <3>1, SignalKept DEF ExecInit, SetInit, BlasThreadInit
    <3>2. CASE ~avail
      BY <2>5, <3>2 DEF ExecInit, SetInit, BlasThreadInit, NewPool, NoLostSignal
    <3> QED BY <3>1, <3>2
  <2>6. CASE SetEnter(c) \/ SetRead(c) \/ SetStore(c)
    BY <2>6, SignalKept DEF SetEnter, SetRead, SetStore, Leave
  <2>7. CASE SetGrow(c)
    <3>1. CASE avail
      <4>1. \A s \in Servers : spc[s] \in {"take", "look", "pass"} => spc'[s] = spc[s]
        BY <2>7 DEF SetGrow, Create, Ranges, Servers
      <4> QED BY <2>7, <3>1, <4>1, SignalKept DEF SetGrow
    <3>2. CASE ~avail
      BY <2>7, <3>2 DEF SetGrow, NewPool, NoLostSignal
    <3> QED BY <3>1, <3>2
  <2>8. CASE Shutdown(c)
    <3>1. CASE StopLock(c)
      BY <3>1, SignalKept DEF StopLock, Leave
    <3>2. CASE StopJoin(c)
      <4>1. list = <<>> /\ list' = list
        BY <3>2, NothingToDo DEF StopJoin, Stopping, StopStates
      <4> QED BY <4>1 DEF NoLostSignal
    <3>3. CASE StopEnd(c)
      BY <3>3 DEF StopEnd, NoLostSignal
    <3> QED BY <2>8, <3>1, <3>2, <3>3 DEF Shutdown
  <2> QED BY <1>1, <2>1, <2>2, <2>3, <2>4, <2>5, <2>6, <2>7, <2>8
          DEF Caller, ExecBlas, SetNumThreads
<1>2. ASSUME NEW s \in Servers, Server(s) PROVE NoLostSignal'
  <2>1. CASE Awake(s)
    BY <2>1 DEF Awake, NoLostSignal
  <2>2. CASE Take(s)
    BY <2>2 DEF Take, NoLostSignal
  <2>3. CASE Look(s)
    BY <2>3 DEF Look, NoLostSignal
  <2>4. CASE Pass(s)
    BY <2>4 DEF Pass, NoLostSignal
  <2>5. CASE Die(s) \/ Start(s) \/ Finish(s) \/ Status(s) \/ Signal(s)
    BY <2>5, SignalKept DEF Die, Start, Finish, Status, Signal
  <2> QED BY <1>2, <2>1, <2>2, <2>3, <2>4, <2>5 DEF Server
<1>3. CASE UNCHANGED vars
  BY <1>3 DEF vars, NoLostSignal
<1> QED BY <1>1, <1>2, <1>3 DEF Next

(* While a job waits in the work list the event pool.filled is set or      *)
(* somebody is bound to set it: one auto-reset event serves any number of  *)
(* jobs and servers (Fill and Pass, blas_server_win32.c).                  *)
THEOREM NoLostSignalCorrect ==
    ASSUME SingleSetter, NeverSerial PROVE Spec => []NoLostSignal
<1>1. Init => NoLostSignal
  BY DEF Init, NoLostSignal
<1>2. Inv /\ NoLostSignal /\ [Next]_vars => NoLostSignal'
  BY NoLostSignalStep
<1> QED BY <1>1, <1>2, Invariance, PTL DEF Spec

-----------------------------------------------------------------------------
(* The pool implements ForkJoin.                                           *)

LEMMA FJInit == Init => FJ!Init
<1> SUFFICES ASSUME Init PROVE FJ!Init OBVIOUS
<1>1. \A c \in Callers : Inside(c) = FALSE
  BY DEF Init, Inside, ExecStates
<1>2. [c \in Callers |-> Inside(c)] = [c \in Callers |-> FALSE]
  BY <1>1
<1>3. job = [c \in Callers |-> FJ!NoJobs]
  BY DEF Init, FJ!NoJobs, FJ!Indices, NoJobs, Indices
<1> QED BY <1>2, <1>3 DEF FJ!Init

\* What ForkJoin sees of a step of a server or of a caller.
Stutter == UNCHANGED job /\ \A c \in Callers : Inside(c)' = Inside(c)

LEMMA FJStutter == ASSUME Stutter PROVE UNCHANGED FJ!vars
BY DEF Stutter, FJ!vars

LEMMA OneLeaves ==
    ASSUME NEW c \in Callers, ~Inside(c)',
           \A d \in Callers : d # c => Inside(d)' = Inside(d)
    PROVE  [d \in Callers |-> Inside(d)]' = [[d \in Callers |-> Inside(d)] EXCEPT ![c] = FALSE]
<1> DEFINE f == [d \in Callers |-> Inside(d)]
           g == [d \in Callers |-> Inside(d)']
<1>1. f = [d \in Callers |-> f[d]] /\ g = [d \in Callers |-> g[d]]
  OBVIOUS
<1>2. g[c] = FALSE
  <2>1. Inside(c)' = FALSE
    BY DEF Inside
  <2>2. g[c] = Inside(c)'
    OBVIOUS
  <2> QED BY <2>1, <2>2
<1>3. \A d \in Callers : d # c => g[d] = f[d]
  OBVIOUS
<1> HIDE DEF f, g
<1>4. g = [f EXCEPT ![c] = FALSE]
  BY <1>1, <1>2, <1>3
<1> QED BY <1>4 DEF f, g

LEMMA FJCaller ==
    ASSUME Inv, NEW c \in Callers, Caller(c)
    PROVE  [FJ!Next]_(FJ!vars)
<1> USE DEF Inv, TypeOK, Go, ExecStates, poolVars, listVars, serverVars, callerVars, jobVars
<1>1. CASE Call(c)
  <2>1. PICK n \in 2 .. cpuNumber :
          job' = [job EXCEPT ![c] = [i \in Indices |-> IF i < n THEN "todo" ELSE "none"]]
    BY <1>1 DEF Call
  <2>2. n \in 1 .. MaxThreads
    OBVIOUS
  <2>3. /\ ~Inside(c)
        /\ [d \in Callers |-> Inside(d)]' = [[d \in Callers |-> Inside(d)] EXCEPT ![c] = TRUE]
    BY <1>1 DEF Call, Inside
  <2>4. FJ!Enter(c)
    BY <2>1, <2>2, <2>3 DEF FJ!Enter, FJ!Indices, Indices
  <2> QED BY <2>4 DEF FJ!Next
<1>2. CASE StartOwn(c)
  <2>1. /\ pc[c] = "own" /\ job[c][0] = "todo"
        /\ job' = [job EXCEPT ![c][0] = "running"]
    BY <1>2 DEF StartOwn, Progress, ProgressOf
  <2>2. \A d \in Callers : Inside(d)' = Inside(d)
    BY <1>2 DEF StartOwn, Inside
  <2>3. FJ!Start(c, 0) /\ 0 \in FJ!Indices
    BY <2>1, <2>2 DEF FJ!Start, FJ!Indices
  <2> QED BY <2>3 DEF FJ!Next
<1>3. CASE FinishOwn(c)
  <2>1. /\ job[c][0] = "running" /\ job' = [job EXCEPT ![c][0] = "done"]
    BY <1>3 DEF FinishOwn, Progress, ProgressOf
  <2>2. \A d \in Callers : Inside(d)' = Inside(d)
    BY <1>3 DEF FinishOwn, Inside
  <2>3. FJ!Finish(c, 0) /\ 0 \in FJ!Indices
    BY <2>1, <2>2 DEF FJ!Finish, FJ!Indices
  <2> QED BY <2>3 DEF FJ!Next
<1>4. CASE Wait(c)
  <2>1. CASE k[c] < num[c] - 1
    <3>1. Stutter
      BY <1>4, <2>1 DEF Wait, Stutter, Inside
    <3> QED BY <3>1, FJStutter
  <2>2. CASE ~(k[c] < num[c] - 1)
    <3>1. pc[c] = "wait" /\ finish[c][k[c]] /\ Leave(c)
      BY <1>4, <2>2 DEF Wait
    <3>2. k[c] = num[c] - 1 /\ k[c] \in Indices /\ num[c] \in 2 .. MaxThreads
      BY <2>2, <3>1 DEF Ranges, Indices
    <3>3. job[c][k[c]] = "done"
      BY <3>1, <3>2 DEF Progress, ProgressOf, Done
    <3>4. ASSUME NEW i \in Indices PROVE job[c][i] \in {"done", "none"}
      <4>1. i = 0 \/ i \in 1 .. (k[c] - 1) \/ i = k[c] \/ i >= num[c]
        BY <3>2 DEF Indices
      <4> QED BY <3>1, <3>3, <4>1 DEF Progress, ProgressOf
    <3>5. /\ Inside(c)
          /\ [d \in Callers |-> Inside(d)]' = [[d \in Callers |-> Inside(d)] EXCEPT ![c] = FALSE]
          /\ job' = [job EXCEPT ![c] = NoJobs]
      <4>1. Inside(c) /\ ~Inside(c)' /\ \A d \in Callers : d # c => Inside(d)' = Inside(d)
        BY <3>1 DEF Leave, Inside
      <4>2. [d \in Callers |-> Inside(d)]' = [[d \in Callers |-> Inside(d)] EXCEPT ![c] = FALSE]
        BY <4>1, OneLeaves
      <4>3. job' = [job EXCEPT ![c] = NoJobs]
        BY <3>1 DEF Leave
      <4> QED BY <4>1, <4>2, <4>3
    <3>6. FJ!Return(c)
      BY <3>4, <3>5 DEF FJ!Return, FJ!Indices, FJ!NoJobs, Indices, NoJobs
    <3> QED BY <3>6 DEF FJ!Next
  <2> QED BY <2>1, <2>2
<1>5. CASE Async(c) \/ ExecInit(c) \/ Post(c) \/ Fill(c)
  <2>1. Stutter
    BY <1>5 DEF Async, ExecInit, Post, Fill, Stutter, Inside
  <2> QED BY <2>1, FJStutter
<1>6. CASE SetCall(c) \/ SetEnter(c) \/ SetInit(c) \/ SetRead(c) \/ SetGrow(c) \/ Stop(c)
  <2>1. Stutter
    BY <1>6 DEF SetCall, SetEnter, SetInit, SetRead, SetGrow, Stop, Quiet, Stutter, Inside
  <2> QED BY <2>1, FJStutter
<1>7. CASE SetStore(c) \/ Shutdown(c)
  <2>1. pc[c] \notin ExecStates
    BY <1>7 DEF SetStore, Shutdown, StopLock, StopJoin, StopEnd
  <2>2. Leave(c) \/ StopJoin(c) \/ (Go(c, "joining") /\ UNCHANGED job)
    BY <1>7 DEF SetStore, Shutdown, StopLock, StopEnd
  <2>3. Stutter
    BY <2>1, <2>2, LeaveIdle DEF StopJoin, Stutter, Inside
  <2> QED BY <2>3, FJStutter
<1> QED BY <1>1, <1>2, <1>3, <1>4, <1>5, <1>6, <1>7 DEF Caller, ExecBlas, SetNumThreads

LEMMA FJServer ==
    ASSUME Inv, NEW s \in Servers, Server(s)
    PROVE  [FJ!Next]_(FJ!vars)
<1>1. \A c \in Callers : Inside(c)' = Inside(c)
  BY ServerFrame DEF Inside
<1>2. CASE Start(s) \/ Finish(s)
  <2>1. spc[s] \in Busy
    BY <1>2 DEF Start, Finish, Busy
  <2>2. PICK c \in Callers, i \in Indices : sjob[s] = <<c, i>>
    BY <2>1, BusyFacts
  <2>3. job[c][i] = StateOf(spc[s])
    BY <2>1, <2>2, BusyFacts
  <2>4. FJ!Start(c, i) \/ FJ!Finish(c, i)
    BY <1>1, <1>2, <2>2, <2>3 DEF Start, Finish, Become, StateOf, FJ!Start, FJ!Finish
  <2> QED BY <2>2, <2>4 DEF FJ!Next, FJ!Indices, Indices
<1>3. CASE ~(Start(s) \/ Finish(s))
  <2>1. UNCHANGED job
    BY <1>3 DEF Server, Awake, Die, Take, Look, Pass, Status, Signal, jobVars
  <2> QED BY <1>1, <2>1, FJStutter DEF Stutter
<1> QED BY <1>2, <1>3

(* exec_blas of the Windows server runs every job of a call exactly once   *)
(* and returns after the last of them.                                     *)
THEOREM Implementation ==
    ASSUME SingleSetter, NeverSerial PROVE Spec => RunsJobsOnce
<1>1. Init => FJ!Init
  BY FJInit
<1>2. Inv /\ [Next]_vars => [FJ!Next]_(FJ!vars)
  <2> SUFFICES ASSUME Inv, [Next]_vars PROVE [FJ!Next]_(FJ!vars) OBVIOUS
  <2>1. CASE UNCHANGED vars
    <3>1. Stutter
      BY <2>1 DEF vars, callerVars, jobVars, Stutter, Inside
    <3> QED BY <3>1, FJStutter
  <2> QED BY <2>1, FJCaller, FJServer DEF Next
<1> QED BY <1>1, <1>2, Invariance, PTL DEF Spec, RunsJobsOnce, FJ!Spec

-----------------------------------------------------------------------------
(* The pool covers the count.                                              *)

\* Either the pool is there all the time, or the number of threads is only ever
\* raised, and only once.
OnceRaised ==
    /\ Cygwin
    /\ \A n \in Settings \ {0} : n >= Initial
    /\ \A m, n \in Settings \ {0} : m = n \/ (m >= MaxThreads /\ n >= MaxThreads)
NeverLowered == (Loaded = {TRUE} /\ Stoppers = {}) \/ OnceRaised

\* The pool is always there.
Standing == avail /\ \A c \in Callers : pc[c] \notin StopStates

Clipped(n) == IF n > MaxThreads THEN MaxThreads ELSE n

\* Count and pool differ only while the setter is about to store the count.
Even ==
    /\ numThreads = Initial \/ \E n \in Settings \ {0} : numThreads = Clipped(n)
    /\ cpuNumber # numThreads => \E c \in Callers : pc[c] = "set_store"
    /\ \A c \in Callers :
          /\ pc[c] \in {"set", "set_init", "set_read"} => num[c] \in Settings
          /\ pc[c] = "set_grow" => \E n \in Settings \ {0} : num[c] = Clipped(n)
          /\ pc[c] \in {"set_read", "set_grow", "set_store"} => avail
          /\ pc[c] = "set_store" => num[c] = numThreads

\* The servers that blas_num_threads counts are there.
PoolWhole ==
    avail /\ (\A c \in Callers : pc[c] # "joining") =>
        /\ ~killed
        /\ \A s \in Servers : s <= numThreads - 2 => spc[s] \notin {"none", "dead"}

\* Where the pool is there from the start and nobody stops it, it stays.
LEMMA StandingStep ==
    ASSUME Stoppers = {}, Inv, Standing, [Next]_vars
    PROVE  Standing'
<1> USE DEF Inv, TypeOK, Standing, StopStates, Go, poolVars
<1>1. ASSUME NEW c \in Callers, Caller(c) PROVE Standing'
  <2>1. CASE Call(c) \/ SetCall(c) \/ Stop(c)
    BY <2>1 DEF Call, SetCall, Stop
  <2>2. CASE ExecBlas(c)
    BY <2>2 DEF ExecBlas, Async, ExecInit, Post, Fill, StartOwn, FinishOwn, Wait, Leave,
                BlasThreadInit
  <2>3. CASE SetNumThreads(c)
    BY <2>3 DEF SetNumThreads, SetEnter, SetInit, SetRead, SetGrow, SetStore, Leave,
                BlasThreadInit
  <2>4. CASE Shutdown(c)
    BY <2>4 DEF Shutdown, StopLock, StopJoin, StopEnd
  <2> QED BY <1>1, <2>1, <2>2, <2>3, <2>4 DEF Caller
<1>2. ASSUME NEW s \in Servers, Server(s) PROVE Standing'
  BY <1>2, ServerFrame
<1>3. CASE UNCHANGED vars
  BY <1>3 DEF vars, callerVars
<1> QED BY <1>1, <1>2, <1>3 DEF Next

\* Where the number is raised once, count and pool go together.
LEMMA EvenKept ==
    ASSUME Even, UNCHANGED <<avail, numThreads, cpuNumber>>,
           \A c \in Callers :
              /\ pc'[c] \in SetStates => pc'[c] = pc[c] /\ num'[c] = num[c]
              /\ pc[c] = "set_store" => pc'[c] = "set_store"
    PROVE  Even'
BY DEF Even, SetStates

LEMMA EvenSetters ==
    ASSUME OnceRaised, SingleSetter, NeverSerial, Inv, Even, NEW c \in Callers,
           SetCall(c) \/ SetNumThreads(c)
    PROVE  Even'
<1>0. /\ pc[c] \in SetStates => \A d \in Callers : d # c => pc[d] \notin SetStates
      /\ TypeOK /\ Ranges
      /\ \A d \in Callers : pc[d] \in SetStates => d \in Setters
  BY DEF Inv, Ranges, SingleSetter
<1> USE DEF TypeOK, Go, SetStates, poolVars
<1>1. CASE SetCall(c)
  <2>1. /\ pc'[c] = "set" /\ num'[c] \in Settings
        /\ \A d \in Callers : d # c => pc'[d] = pc[d] /\ num'[d] = num[d]
        /\ pc[c] = "idle"
        /\ UNCHANGED <<avail, numThreads, cpuNumber>>
    BY <1>0, <1>1 DEF SetCall
  <2> QED BY <2>1 DEF Even
<1>2. CASE SetEnter(c)
  <2>1. /\ pc[c] = "set" /\ UNCHANGED <<avail, numThreads, cpuNumber, num>>
        /\ pc'[c] = (IF Cygwin /\ NeedsInit THEN "set_init" ELSE "set_read")
        /\ \A d \in Callers : d # c => pc'[d] = pc[d]
    BY <1>0, <1>2 DEF SetEnter
  <2>2. pc'[c] = "set_read" => avail
    BY <1>0, <2>1 DEF OnceRaised, NeedsInit, Ranges
  <2> QED BY <2>1, <2>2 DEF Even
<1>3. CASE SetInit(c)
  <2>1. /\ pc[c] = "set_init" /\ UNCHANGED <<numThreads, cpuNumber, num>> /\ avail'
        /\ pc'[c] = "set_read"
        /\ \A d \in Callers : d # c => pc'[d] = pc[d]
    BY <1>0, <1>3 DEF SetInit, BlasThreadInit, NewPool
  <2> QED BY <1>0, <2>1 DEF Even
<1>4. CASE SetRead(c)
  <2> DEFINE n == num[c]
             w == Wanted(n)
  <2>1. /\ pc[c] = "set_read" /\ UNCHANGED <<avail, numThreads, cpuNumber>>
        /\ pc'[c] = (IF w > numThreads THEN "set_grow" ELSE "set_store")
        /\ num'[c] = w
        /\ \A d \in Callers : d # c => pc'[d] = pc[d] /\ num'[d] = num[d]
    BY <1>0, <1>4 DEF SetRead
  <2>2. n \in Settings /\ avail BY <2>1 DEF Even
  <2>3. cpuNumber = numThreads BY <1>0, <2>1 DEF Even
  <2>4. n \in Nat BY <1>0
  <2>7. numThreads \in Nat BY <1>0
  <2>8. \A d \in Callers : d # c => pc[d] \notin SetStates
    BY <1>0, <2>1
  <2>5. CASE n = 0
    <3>1. w = numThreads BY <2>3, <2>5 DEF Wanted
    <3>2. pc'[c] = "set_store" /\ num'[c] = numThreads BY <2>1, <2>7, <3>1
    <3> QED BY <2>1, <2>2, <2>3, <2>8, <3>2 DEF Even
  <2>6. CASE n # 0
    <3>1. w = Clipped(n) /\ n \in Settings \ {0}
      BY <2>2, <2>4, <2>6 DEF Wanted, Clipped
    <3>2. w <= numThreads => w = numThreads
      <4>1. CASE numThreads = Initial
        <5>1. n >= Initial BY <3>1 DEF OnceRaised
        <5> QED BY <2>4, <3>1, <4>1, <5>1 DEF Clipped
      <4>2. CASE \E m \in Settings \ {0} : numThreads = Clipped(m)
        <5>1. PICK m \in Settings \ {0} : numThreads = Clipped(m) BY <4>2
        <5>2. m = n \/ (m >= MaxThreads /\ n >= MaxThreads) BY <3>1 DEF OnceRaised
        <5>3. m \in Nat OBVIOUS
        <5> QED BY <2>4, <3>1, <5>1, <5>2, <5>3 DEF Clipped
      <4> QED BY <4>1, <4>2 DEF Even
    <3>3. w \in Nat BY <2>4, <3>1 DEF Clipped
    <3>4. CASE w > numThreads
      <4>1. pc'[c] = "set_grow" /\ num'[c] = Clipped(n) BY <2>1, <3>1, <3>4
      <4> QED BY <2>1, <2>2, <2>3, <2>8, <3>1, <4>1 DEF Even
    <3>5. CASE ~(w > numThreads)
      <4>1. w = numThreads BY <2>7, <3>2, <3>3, <3>5
      <4>2. pc'[c] = "set_store" /\ num'[c] = numThreads BY <2>1, <3>5, <4>1
      <4> QED BY <2>1, <2>2, <2>3, <2>8, <4>2 DEF Even
    <3> QED BY <3>4, <3>5
  <2> QED BY <2>5, <2>6
<1>5. CASE SetGrow(c)
  <2>1. /\ pc[c] = "set_grow" /\ avail' /\ numThreads' = num[c]
        /\ UNCHANGED <<cpuNumber, num>>
        /\ pc'[c] = "set_store"
        /\ \A d \in Callers : d # c => pc'[d] = pc[d]
    BY <1>0, <1>5 DEF SetGrow, NewPool
  <2> QED BY <1>0, <2>1 DEF Even
<1>6. CASE SetStore(c)
  <2>1. /\ pc[c] = "set_store" /\ cpuNumber' = num[c] /\ UNCHANGED <<avail, numThreads>>
        /\ pc'[c] = "idle"
        /\ \A d \in Callers : d # c => pc'[d] = pc[d] /\ num'[d] = num[d]
    BY <1>0, <1>6 DEF SetStore, Leave
  <2> QED BY <1>0, <2>1 DEF Even
<1> QED BY <1>1, <1>2, <1>3, <1>4, <1>5, <1>6 DEF SetNumThreads

LEMMA EvenStep ==
    ASSUME OnceRaised, SingleSetter, NeverSerial, Inv, Even, [Next]_vars
    PROVE  Even'
<1>0. TypeOK /\ StopAlone BY DEF Inv
<1> USE DEF Go, SetStates, poolVars
<1>1. ASSUME NEW c \in Callers, Caller(c) PROVE Even'
  <2>1. CASE Call(c) \/ Async(c) \/ Post(c) \/ Fill(c) \/ StartOwn(c) \/ FinishOwn(c) \/ Wait(c)
    BY <1>0, <2>1, EvenKept DEF TypeOK, Call, Async, Post, Fill, StartOwn, FinishOwn, Wait, Leave
  <2>2. CASE ExecInit(c)
    <3>1. /\ pc[c] = "exec_init" /\ pc'[c] = "post" /\ UNCHANGED <<numThreads, cpuNumber, num>>
          /\ avail' /\ \A d \in Callers : d # c => pc'[d] = pc[d]
      BY <1>0, <2>2 DEF TypeOK, ExecInit, BlasThreadInit, NewPool
    <3> QED BY <3>1 DEF Even
  <2>3. CASE Stop(c) \/ StopLock(c) \/ StopJoin(c)
    <3>1. /\ pc[c] \in {"idle", "stop", "joining"} /\ pc'[c] \in {"idle", "stop", "joining"}
          /\ UNCHANGED <<avail, numThreads, cpuNumber>>
          /\ \A d \in Callers : d # c => pc'[d] = pc[d] /\ num'[d] = num[d]
      <4>1. CASE Stop(c) BY <1>0, <4>1 DEF TypeOK, Stop, Quiet
      <4>2. CASE StopLock(c) BY <1>0, <4>2 DEF TypeOK, StopLock, Leave
      <4>3. CASE StopJoin(c) BY <1>0, <4>3 DEF TypeOK, StopJoin
      <4> QED BY <2>3, <4>1, <4>2, <4>3
    <3> QED BY <3>1, EvenKept
  <2>4. CASE StopEnd(c)
    <3>1. /\ pc[c] = "joining" /\ pc'[c] = "idle" /\ UNCHANGED <<numThreads, cpuNumber>>
          /\ \A d \in Callers : d # c => pc[d] = "idle" /\ pc'[d] = pc[d]
      BY <1>0, <2>4 DEF TypeOK, StopEnd, Leave, StopAlone, StopStates
    <3> QED BY <3>1 DEF Even
  <2> QED BY <1>1, <2>1, <2>2, <2>3, <2>4, EvenSetters
          DEF Caller, ExecBlas, SetNumThreads, Shutdown
<1>2. ASSUME NEW s \in Servers, Server(s) PROVE Even'
  BY <1>2, ServerFrame, EvenKept
<1>3. CASE UNCHANGED vars
  BY <1>3, EvenKept DEF vars, callerVars
<1> QED BY <1>1, <1>2, <1>3 DEF Next


\* What PoolWhole needs of the two cases of NeverLowered.
Steady ==
    /\ ~avail => cpuNumber = numThreads
    /\ \A c \in Callers : pc[c] = "set_grow" => avail

LEMMA SteadyCases == Standing \/ Even => Steady
BY DEF Standing, Even, Steady

LEMMA WholeKept ==
    ASSUME PoolWhole, UNCHANGED <<avail, killed, numThreads, spc>>,
           \A c \in Callers : pc[c] = "joining" => pc'[c] = "joining"
    PROVE  PoolWhole'
BY DEF PoolWhole

LEMMA WholeInit ==
    ASSUME Inv, Steady, PoolWhole, BlasThreadInit, UNCHANGED num,
           \A c \in Callers : pc[c] = "joining" => pc'[c] = "joining"
    PROVE  PoolWhole'
<1>0. TypeOK BY DEF Inv
<1>1. CASE avail
  BY <1>1, WholeKept DEF BlasThreadInit, listVars
<1>2. CASE ~avail
  <2>1. ~killed' /\ UNCHANGED numThreads /\ cpuNumber = numThreads
    BY <1>2 DEF BlasThreadInit, NewPool, Steady
  <2>2. \A s \in Servers : s <= numThreads - 2 => spc'[s] = "wait"
    <3>1. Create(0 .. (cpuNumber - 2)) BY <1>2 DEF BlasThreadInit
    <3>2. numThreads \in Nat BY <1>0 DEF TypeOK
    <3> QED BY <2>1, <3>1, <3>2 DEF Create, Servers
  <2> QED BY <2>1, <2>2 DEF PoolWhole
<1> QED BY <1>1, <1>2

LEMMA PoolWholeStep ==
    ASSUME Inv, Steady, PoolWhole, [Next]_vars
    PROVE  PoolWhole'
<1>0. TypeOK /\ StopAlone /\ Ranges BY DEF Inv
<1> USE DEF Go, poolVars, listVars, serverVars
<1>1. ASSUME NEW c \in Callers, Caller(c) PROVE PoolWhole'
  <2>1. CASE \/ Call(c) \/ Async(c) \/ Post(c) \/ Fill(c) \/ StartOwn(c) \/ FinishOwn(c) \/ Wait(c)
             \/ SetCall(c) \/ SetEnter(c) \/ SetRead(c)
    <3>1. UNCHANGED <<avail, killed, numThreads, spc>>
      BY <2>1 DEF Call, Async, Post, Fill, StartOwn, FinishOwn, Wait, SetCall, SetEnter, SetRead
    <3>2. \A d \in Callers : pc[d] = "joining" => pc'[d] = "joining"
      <4>1. pc[c] # "joining"
        BY <2>1 DEF Call, Async, Post, Fill, StartOwn, FinishOwn, Wait, SetCall, SetEnter, SetRead
      <4>2. \A d \in Callers : d # c => pc'[d] = pc[d]
        BY <1>0, <2>1 DEF TypeOK, Call, Async, Post, Fill, StartOwn, FinishOwn, Wait, Leave,
                          SetCall, SetEnter, SetRead
      <4> QED BY <4>1, <4>2
    <3> QED BY <3>1, <3>2, WholeKept
  <2>2. CASE ExecInit(c) \/ SetInit(c)
    <3>1. \A d \in Callers : pc[d] = "joining" => pc'[d] = "joining"
      BY <1>0, <2>2 DEF TypeOK, ExecInit, SetInit
    <3> QED BY <2>2, <3>1, WholeInit DEF ExecInit, SetInit
  <2>3. CASE SetGrow(c)
    <3>1. pc[c] = "set_grow" /\ avail
      BY <2>3 DEF SetGrow, Steady
    <3>2. \A d \in Callers : pc[d] # "joining"
      BY <1>0, <3>1 DEF StopAlone, StopStates
    <3>3. /\ ~killed /\ UNCHANGED <<avail, killed>>
          /\ \A s \in Servers : s <= numThreads - 2 => spc[s] \notin {"none", "dead"}
      BY <2>3, <3>1, <3>2 DEF PoolWhole, SetGrow
    <3>4. numThreads' = num[c] /\ num[c] \in Nat /\ numThreads \in Nat
      BY <1>0, <2>3 DEF TypeOK, SetGrow
    <3>5. \A s \in Servers : spc'[s] =
             IF s \in (numThreads - 1) .. (num[c] - 2) THEN "wait" ELSE spc[s]
      BY <2>3 DEF SetGrow, Create
    <3>6. \A s \in Servers : s <= numThreads' - 2 => spc'[s] \notin {"none", "dead"}
      BY <3>3, <3>4, <3>5 DEF Servers
    <3> QED BY <3>3, <3>6 DEF PoolWhole
  <2>4. CASE SetStore(c) \/ Stop(c)
    <3>1. UNCHANGED <<avail, killed, numThreads, spc>>
      BY <2>4 DEF SetStore, Stop
    <3>2. \A d \in Callers : pc[d] = "joining" => pc'[d] = "joining"
      BY <1>0, <2>4 DEF TypeOK, SetStore, Stop, Quiet, Leave
    <3> QED BY <3>1, <3>2, WholeKept
  <2>5. CASE StopLock(c)
    <3>1. CASE avail
      <4>1. pc'[c] = "joining" BY <1>0, <2>5, <3>1 DEF TypeOK, StopLock
      <4> QED BY <4>1 DEF PoolWhole
    <3>2. CASE ~avail
      BY <2>5, <3>2 DEF StopLock, PoolWhole
    <3> QED BY <3>1, <3>2
  <2>6. CASE StopJoin(c)
    <3>1. pc'[c] = "joining" BY <2>6 DEF StopJoin
    <3> QED BY <3>1 DEF PoolWhole
  <2>7. CASE StopEnd(c)
    BY <2>7 DEF StopEnd, PoolWhole
  <2> QED BY <1>1, <2>1, <2>2, <2>3, <2>4, <2>5, <2>6, <2>7
          DEF Caller, ExecBlas, SetNumThreads, Shutdown
<1>2. ASSUME NEW s \in Servers, Server(s) PROVE PoolWhole'
  <2>1. UNCHANGED <<avail, killed, numThreads, pc>> /\ spc[s] # "none"
    BY <1>2, ServerFrame
  <2>2. spc'[s] # "none" /\ (spc'[s] = "dead" => killed)
    <3> USE DEF Be
    <3>1. CASE Awake(s) \/ Die(s) \/ Look(s) \/ Pass(s)
      BY <1>0, <3>1 DEF TypeOK, Awake, Die, Look, Pass
    <3>2. CASE Take(s) \/ Start(s) \/ Finish(s) \/ Status(s) \/ Signal(s)
      BY <1>0, <3>2 DEF TypeOK, Take, Start, Finish, Status, Signal
    <3> QED BY <1>2, <3>1, <3>2 DEF Server
  <2>3. \A t \in Servers : t # s => spc'[t] = spc[t]
    BY <1>0, <1>2, ServerFrame DEF TypeOK
  <2> QED BY <2>1, <2>2, <2>3 DEF PoolWhole
<1>3. CASE UNCHANGED vars
  BY <1>3, WholeKept DEF vars, callerVars
<1> QED BY <1>1, <1>2, <1>3 DEF Next

LEMMA WholeCovers == Inv /\ PoolWhole => PoolCoversCount
<1> SUFFICES ASSUME Inv, PoolWhole, avail, ~Stopping
             PROVE  cpuNumber <= numThreads /\ cpuNumber - 1 <= Cardinality(Alive)
  BY DEF PoolCoversCount
<1>1. /\ numThreads \in 1 .. MaxThreads /\ cpuNumber \in 2 .. numThreads
      /\ \A c \in Callers : pc[c] # "joining"
  BY DEF Inv, TypeOK, Ranges, Stopping, StopStates
<1>2. 0 .. (numThreads - 2) \subseteq Alive
  BY <1>1 DEF PoolWhole, Alive, Servers
<1>3. IsFiniteSet(0 .. (MaxThreads - 2)) /\ Alive \subseteq 0 .. (MaxThreads - 2)
  BY FS_Interval DEF Alive, Servers
<1>4. IsFiniteSet(Alive)
  BY <1>3, FS_Subset
<1>5. Cardinality(0 .. (numThreads - 2)) <= Cardinality(Alive)
  BY <1>2, <1>4, FS_Subset
<1>6. Cardinality(0 .. (numThreads - 2)) = numThreads - 1
  BY <1>1, FS_Interval
<1>7. Cardinality(Alive) \in Nat
  BY <1>4, FS_CardinalityType
<1> QED BY <1>1, <1>5, <1>6, <1>7

LEMMA WholeFirst ==
    ASSUME NeverSerial, NeverLowered, Init
    PROVE  /\ PoolWhole
           /\ Even
           /\ Loaded = {TRUE} => Standing
<1>1. PoolWhole
  BY DEF Init, PoolWhole
<1>2. Even
  BY DEF Init, Even
<1>3. Loaded = {TRUE} => Standing
  BY DEF Init, Standing, StopStates
<1> QED BY <1>1, <1>2, <1>3

LEMMA PoolWholeCorrect ==
    ASSUME SingleSetter, NeverSerial, NeverLowered PROVE Spec => []PoolWhole
<1>1. CASE Loaded = {TRUE} /\ Stoppers = {}
  <2>1. Init => Standing /\ PoolWhole
    BY <1>1, WholeFirst
  <2>2. Inv /\ Standing /\ [Next]_vars => Standing'
    BY <1>1, StandingStep
  <2>3. Inv /\ Standing /\ PoolWhole /\ [Next]_vars => PoolWhole'
    BY PoolWholeStep, SteadyCases
  <2> QED BY <2>1, <2>2, <2>3, Invariance, PTL DEF Spec
<1>2. CASE OnceRaised
  <2>1. Init => Even /\ PoolWhole
    BY WholeFirst
  <2>2. Inv /\ Even /\ [Next]_vars => Even'
    BY <1>2, EvenStep
  <2>3. Inv /\ Even /\ PoolWhole /\ [Next]_vars => PoolWhole'
    BY PoolWholeStep, SteadyCases
  <2> QED BY <2>1, <2>2, <2>3, Invariance, PTL DEF Spec
<1> QED BY <1>1, <1>2 DEF NeverLowered

(* memory.c on blas_num_threads: the number of threads in the pool is at    *)
(* least blas_cpu_number; blas_server_win32.c keeps it so, and as many      *)
(* servers alive, as long as either the pool is never stopped, or (Cygwin)  *)
(* the number of threads is raised, and to one value.  After a smaller      *)
(* number a pool that is started again is smaller than the count says.      *)
THEOREM PoolCoversCountCorrect ==
    ASSUME SingleSetter, NeverSerial, NeverLowered PROVE Spec => []PoolCoversCount
<1>1. Inv /\ PoolWhole => PoolCoversCount
  BY WholeCovers
<1> QED BY <1>1, Invariance, PoolWholeCorrect, PTL

-----------------------------------------------------------------------------
(* Nobody waits for ever on everybody else.                                *)

Positions == 1 .. Len(list)

\* The jobs of a call lie together in the list, those of the call that came first
\* in front.
Contiguous ==
    \A p, q, r \in Positions :
        p <= q /\ q <= r /\ list[p][1] = list[r][1] => list[q][1] = list[p][1]

\* Only of the call in front has a server taken a job while others wait.
InTurn ==
    \A p \in Positions, s \in Servers :
        spc[s] \in Busy /\ list[p][1] # list[1][1] => sjob[s][1] # list[p][1]

\* A job whose event is to come is in the list or in the hands of a server.
Somewhere ==
    \A c \in Callers, i \in Indices :
        Pending(c, i) =>
            \/ \E p \in Positions : list[p] = <<c, i>>
            \/ \E s \in Servers : spc[s] \in Busy /\ sjob[s] = <<c, i>>

\* server_lock is kept from step to step by who stops the pool only.
LockHeld == \A c \in Callers : serverLock = c => pc[c] = "joining"

\* No call has more jobs than there are threads.
Sized == \A c \in Callers : pc[c] \in ExecStates => num[c] <= numThreads

Lined == LockHeld /\ Sized /\ Contiguous /\ InTurn /\ Somewhere

LEMMA LinedInit == Init => Lined
BY DEF Init, Lined, LockHeld, Sized, Contiguous, InTurn, Somewhere, Positions, Pending,
       Posted, ExecStates, Busy

LEMMA CountsStep ==
    ASSUME Inv, LockHeld, Sized, [Next]_vars
    PROVE  LockHeld' /\ Sized'
<1>0. TypeOK /\ Ranges BY DEF Inv
<1> USE DEF TypeOK, LockHeld, Sized, ExecStates, Go, poolVars, listVars, serverVars
<1>1. ASSUME NEW c \in Callers, Caller(c) PROVE LockHeld' /\ Sized'
  <2>1. CASE Call(c)
    <3>1. /\ UNCHANGED <<serverLock, numThreads>> /\ pc[c] = "idle" /\ pc'[c] = "async"
          /\ num'[c] <= numThreads
          /\ \A d \in Callers : d # c => pc'[d] = pc[d] /\ num'[d] = num[d]
      BY <1>0, <2>1 DEF Call, Ranges
    <3> QED BY <3>1
  <2>2. CASE Async(c) \/ ExecInit(c) \/ Post(c) \/ Fill(c) \/ StartOwn(c) \/ FinishOwn(c)
    <3>1. /\ UNCHANGED <<serverLock, numThreads, num>>
          /\ pc[c] \in ExecStates
          /\ \A d \in Callers : d # c => pc'[d] = pc[d]
      BY <1>0, <2>2 DEF Async, ExecInit, Post, Fill, StartOwn, FinishOwn, BlasThreadInit
    <3> QED BY <3>1
  <2>3. CASE Wait(c) \/ SetStore(c)
    <3>1. /\ UNCHANGED <<serverLock, numThreads>> /\ pc[c] \in {"wait", "set_store"}
          /\ pc'[c] = "idle" \/ (pc'[c] = pc[c] /\ num'[c] = num[c])
          /\ \A d \in Callers : d # c => pc'[d] = pc[d] /\ num'[d] = num[d]
      BY <1>0, <2>3 DEF Wait, SetStore, Leave
    <3> QED BY <3>1
  <2>4. CASE SetCall(c) \/ SetEnter(c) \/ SetInit(c) \/ SetRead(c) \/ Stop(c)
    <3>1. /\ UNCHANGED <<serverLock, numThreads>>
          /\ pc[c] # "joining" /\ pc'[c] \notin ExecStates
          /\ \A d \in Callers : d # c => pc'[d] = pc[d] /\ num'[d] = num[d]
      BY <1>0, <2>4 DEF SetCall, SetEnter, SetInit, SetRead, Stop, Quiet, BlasThreadInit
    <3> QED BY <3>1
  <2>5. CASE SetGrow(c)
    <3>1. /\ UNCHANGED <<serverLock, num>> /\ numThreads' = num[c]
          /\ pc[c] = "set_grow" /\ pc'[c] = "set_store"
          /\ \A d \in Callers : d # c => pc'[d] = pc[d]
      BY <1>0, <2>5 DEF SetGrow
    <3>2. num[c] > numThreads /\ num[c] \in Nat
      BY <1>0, <3>1 DEF Ranges
    <3> QED BY <1>0, <3>1, <3>2 DEF Ranges
  <2>6. CASE StopLock(c)
    <3>1. /\ UNCHANGED numThreads
          /\ \/ serverLock' = c /\ pc'[c] = "joining"
             \/ serverLock' = Nobody /\ pc'[c] = "idle"
          /\ \A d \in Callers : d # c => pc'[d] = pc[d] /\ num'[d] = num[d]
      BY <1>0, <2>6 DEF StopLock, Leave
    <3> QED BY <3>1
  <2>7. CASE StopJoin(c)
    BY <1>0, <2>7 DEF StopJoin
  <2>8. CASE StopEnd(c)
    <3>1. /\ UNCHANGED numThreads /\ serverLock' = Nobody /\ pc'[c] = "idle"
          /\ \A d \in Callers : d # c => pc'[d] = pc[d] /\ num'[d] = num[d]
      BY <1>0, <2>8 DEF StopEnd, Leave
    <3> QED BY <3>1
  <2> QED BY <1>1, <2>1, <2>2, <2>3, <2>4, <2>5, <2>6, <2>7, <2>8
          DEF Caller, ExecBlas, SetNumThreads, Shutdown
<1>2. ASSUME NEW s \in Servers, Server(s) PROVE LockHeld' /\ Sized'
  BY <1>2, ServerFrame
<1>3. CASE UNCHANGED vars
  BY <1>3 DEF vars, callerVars
<1> QED BY <1>1, <1>2, <1>3 DEF Next

\* What posting does to the list.
LEMMA PostedList ==
    ASSUME Inv, NEW c \in Callers, Post(c)
    PROVE  /\ Len(list) \in Nat /\ num[c] \in 2 .. MaxThreads
           /\ Len(list') = Len(list) + (num[c] - 1)
           /\ \A p \in 1 .. Len(list) : list'[p] = list[p]
           /\ \A i \in 1 .. (num[c] - 1) : list'[Len(list) + i] = <<c, i>>
           /\ \A p \in Positions' : p > Len(list) => list'[p][1] = c
           /\ \A p \in Positions : list[p][1] # c
<1>0. TypeOK BY DEF Inv
<1>1. num[c] \in 2 .. MaxThreads /\ pc[c] = "post"
  BY DEF Post, Inv, Ranges, ExecStates
<1>2. /\ list \in Seq(Jobs) /\ Chain(c) \in Seq(Jobs)
      /\ Len(Chain(c)) = num[c] - 1
      /\ \A i \in 1 .. (num[c] - 1) : Chain(c)[i] = <<c, i>>
  BY <1>0, <1>1, ChainFacts DEF TypeOK
<1>3. Len(list) \in Nat
  BY <1>2, LenProperties
<1> DEFINE L == Len(list)
           M == num[c] - 1
<1>4. /\ Len(list') = L + M
      /\ \A p \in 1 .. (L + M) : list'[p] = IF p <= L THEN list[p] ELSE Chain(c)[p - L]
  BY <1>2, ConcatProperties DEF Post
<1>5. \A p \in Positions : list[p][1] # c
  BY <1>1 DEF Inv, ListJobs, Pending, Posted, Positions
<1>6. L \in Nat /\ M \in Nat /\ \A i \in 1 .. M : Chain(c)[i] = <<c, i>>
  BY <1>1, <1>2, <1>3
<1> HIDE DEF L, M
<1>7. \A p \in 1 .. L : list'[p] = list[p]
  BY <1>4, <1>6
<1>8. \A i \in 1 .. M : list'[L + i] = <<c, i>>
  <2> SUFFICES ASSUME NEW i \in 1 .. M PROVE list'[L + i] = <<c, i>>
    OBVIOUS
  <2>1. L + i \in 1 .. (L + M) /\ ~(L + i <= L) /\ (L + i) - L = i
    BY <1>6
  <2> QED BY <1>4, <1>6, <2>1
<1>9. ASSUME NEW p \in 1 .. Len(list'), p > L PROVE list'[p][1] = c
  <2>1. p - L \in 1 .. M /\ L + (p - L) = p
    BY <1>4, <1>6, <1>9
  <2> QED BY <1>8, <2>1
<1> QED BY <1>1, <1>3, <1>4, <1>5, <1>7, <1>8, <1>9 DEF L, M, Positions

\* What taking a job does to it.
LEMMA TakenList ==
    ASSUME Inv, NEW s \in Servers, Take(s), list # <<>>
    PROVE  /\ Len(list) \in Nat /\ 1 \in Positions
           /\ Len(list') = Len(list) - 1
           /\ \A p \in Positions' : p + 1 \in Positions /\ list'[p] = list[p + 1]
           /\ spc[s] = "take" /\ spc'[s] = "look" /\ sjob'[s] = list[1]
           /\ \A t \in Servers : t # s => sjob'[t] = sjob[t] /\ spc'[t] = spc[t]
<1>0. TypeOK BY DEF Inv
<1>1. /\ sjob' = [sjob EXCEPT ![s] = Head(list)] /\ list' = Tail(list)
      /\ spc' = [spc EXCEPT ![s] = "look"] /\ spc[s] = "take"
  BY DEF Take, Be
<1>2. /\ Len(list) \in Nat /\ Len(list) >= 1 /\ Len(list') = Len(list) - 1
      /\ Head(list) = list[1]
      /\ \A p \in 1 .. Len(list') : list'[p] = list[p + 1]
  BY <1>0, <1>1, HeadTailProperties, LenProperties, EmptySeq DEF TypeOK
<1>3. 1 \in Positions /\ \A p \in Positions' : p + 1 \in Positions /\ list'[p] = list[p + 1]
  BY <1>2 DEF Positions
<1> QED BY <1>0, <1>1, <1>2, <1>3 DEF TypeOK

\* A caller that does not post leaves alone what servers have in hand.
LEMMA LineFrame ==
    ASSUME Inv, NEW c \in Callers, Caller(c), ~Post(c)
    PROVE  /\ UNCHANGED <<list, sjob>>
           /\ \A s \in Servers : spc[s] \in Busy \/ spc'[s] \in Busy => spc'[s] = spc[s]
<1>0. TypeOK /\ Ranges BY DEF Inv
<1> USE DEF poolVars, listVars, serverVars
<1>1. CASE Call(c) \/ SetCall(c) \/ Stop(c)
  BY <1>1 DEF Call, SetCall, Stop
<1>2. CASE Async(c) \/ Fill(c) \/ StartOwn(c) \/ FinishOwn(c) \/ Wait(c)
  BY <1>2 DEF Async, Fill, StartOwn, FinishOwn, Wait
<1>3. CASE ExecInit(c) \/ SetInit(c)
  <2>1. BlasThreadInit BY <1>3 DEF ExecInit, SetInit
  <2>2. UNCHANGED <<list, sjob>> /\ \A s \in Servers : spc'[s] \in Busy => spc'[s] = spc[s]
    BY <2>1, CreateKeeps
  <2>3. CASE avail BY <2>1, <2>2, <2>3 DEF BlasThreadInit
  <2>4. CASE ~avail BY <2>2, <2>4, NothingToDo
  <2> QED BY <2>3, <2>4
<1>4. CASE SetEnter(c) \/ SetRead(c) \/ SetStore(c)
  BY <1>4 DEF SetEnter, SetRead, SetStore
<1>5. CASE SetGrow(c)
  <2>1. UNCHANGED <<list, sjob>> /\ \A s \in Servers : spc'[s] \in Busy => spc'[s] = spc[s]
    BY <1>5, CreateKeeps
  <2>2. \A s \in Servers : spc[s] \in Busy => spc'[s] = spc[s]
    <3>1. \A s \in Servers : spc[s] \in Busy => s <= numThreads - 2
      BY <1>0 DEF Ranges, Busy
    <3>2. numThreads \in Nat BY <1>0 DEF TypeOK
    <3> QED BY <1>5, <3>1, <3>2 DEF SetGrow, Create, Servers
  <2> QED BY <2>1, <2>2
<1>6. CASE StopLock(c) \/ StopEnd(c)
  BY <1>6 DEF StopLock, StopEnd
<1>7. CASE StopJoin(c)
  <2>1. \A s \in Servers : spc[s] \notin Busy
    BY <1>7, NothingToDo DEF StopJoin, Stopping, StopStates
  <2>2. \A s \in Servers : spc'[s] \in {spc[s], "none"}
    BY <1>0, <1>7 DEF StopJoin, TypeOK
  <2> QED BY <1>7, <2>1, <2>2 DEF StopJoin, Busy
<1> QED BY <1>1, <1>2, <1>3, <1>4, <1>5, <1>6, <1>7
        DEF Caller, ExecBlas, SetNumThreads, Shutdown

LEMMA ContiguousPost ==
    ASSUME Inv, Contiguous, NEW c \in Callers, Post(c)
    PROVE  Contiguous'
<1>1. /\ Len(list) \in Nat
      /\ \A p \in 1 .. Len(list) : list'[p] = list[p]
      /\ \A p \in Positions' : p > Len(list) => list'[p][1] = c
      /\ \A p \in Positions : list[p][1] # c
  BY PostedList
<1> SUFFICES ASSUME NEW p \in Positions', NEW q \in Positions', NEW r \in Positions',
                    p <= q, q <= r, list'[p][1] = list'[r][1]
             PROVE  list'[q][1] = list'[p][1]
  BY DEF Contiguous, Positions
<1>2. p \in Nat /\ q \in Nat /\ r \in Nat /\ p >= 1
  BY DEF Positions
<1>3. CASE r <= Len(list)
  <2>1. p \in Positions /\ q \in Positions /\ r \in Positions
    BY <1>1, <1>2, <1>3 DEF Positions
  <2> QED BY <1>1, <2>1 DEF Contiguous, Positions
<1>4. CASE r > Len(list)
  <2>1. list'[p][1] = c BY <1>1, <1>4
  <2>2. p > Len(list)
    <3> SUFFICES ASSUME p <= Len(list) PROVE FALSE BY <1>1, <1>2
    <3>1. p \in Positions BY <1>1, <1>2 DEF Positions
    <3> QED BY <1>1, <2>1, <3>1 DEF Positions
  <2>3. q > Len(list) BY <1>1, <1>2, <2>2
  <2> QED BY <1>1, <2>1, <2>3
<1> QED BY <1>1, <1>2, <1>3, <1>4

LEMMA LineTake ==
    ASSUME Inv, Contiguous, InTurn, NEW s \in Servers, Take(s), list # <<>>
    PROVE  Contiguous' /\ InTurn'
<1>1. /\ Len(list) \in Nat /\ 1 \in Positions
      /\ \A p \in Positions' : p + 1 \in Positions /\ list'[p] = list[p + 1]
      /\ sjob'[s] = list[1]
      /\ \A t \in Servers : t # s => sjob'[t] = sjob[t] /\ spc'[t] = spc[t]
  BY TakenList
<1>2. Positions' \subseteq Nat /\ \A p \in Positions' : p >= 1
  BY DEF Positions
<1>3. Contiguous'
  <2> SUFFICES ASSUME NEW p \in Positions', NEW q \in Positions', NEW r \in Positions',
                      p <= q, q <= r, list'[p][1] = list'[r][1]
               PROVE  list'[q][1] = list'[p][1]
    BY DEF Contiguous, Positions
  <2>1. p + 1 <= q + 1 /\ q + 1 <= r + 1 BY <1>2
  <2> QED BY <1>1, <2>1 DEF Contiguous
<1>4. InTurn'
  <2> SUFFICES ASSUME NEW p \in Positions', NEW t \in Servers,
                      spc'[t] \in Busy, list'[p][1] # list'[1][1]
               PROVE  sjob'[t][1] # list'[p][1]
    BY DEF InTurn, Positions
  <2>1. 1 \in Positions'
    BY <1>2 DEF Positions
  <2>2. /\ list'[p] = list[p + 1] /\ list'[1] = list[2]
        /\ p + 1 \in Positions /\ 2 \in Positions
    BY <1>1, <2>1
  <2>3. list[p + 1][1] # list[1][1]
    <3> SUFFICES ASSUME list[p + 1][1] = list[1][1] PROVE FALSE OBVIOUS
    <3>1. 1 <= 2 /\ 2 <= p + 1 BY <1>2
    <3>2. list[2][1] = list[1][1] BY <1>1, <2>2, <3>1 DEF Contiguous
    <3> QED BY <2>2, <3>2
  <2>4. CASE t = s BY <1>1, <2>2, <2>3, <2>4
  <2>5. CASE t # s
    <3>1. sjob'[t] = sjob[t] /\ spc[t] \in Busy BY <1>1, <2>5
    <3> QED BY <2>2, <2>3, <3>1 DEF InTurn
  <2> QED BY <2>4, <2>5
<1> QED BY <1>3, <1>4

LEMMA InTurnPost ==
    ASSUME Inv, InTurn, NEW c \in Callers, Post(c)
    PROVE  InTurn'
<1>1. /\ Len(list) \in Nat
      /\ \A p \in 1 .. Len(list) : list'[p] = list[p]
      /\ \A p \in Positions' : p > Len(list) => list'[p][1] = c
  BY PostedList
<1>2. pc[c] = "post" /\ UNCHANGED <<spc, sjob>>
  BY DEF Post, serverVars
<1> SUFFICES ASSUME NEW p \in Positions', NEW t \in Servers,
                    spc[t] \in Busy, list'[p][1] # list'[1][1]
             PROVE  sjob[t][1] # list'[p][1]
  BY <1>2 DEF InTurn, Positions
<1>3. p \in Nat /\ p >= 1
  BY DEF Positions
<1>4. CASE p <= Len(list)
  <2>1. p \in Positions /\ 1 \in 1 .. Len(list) BY <1>1, <1>3, <1>4 DEF Positions
  <2>2. list'[p] = list[p] /\ list'[1] = list[1] BY <1>1, <2>1 DEF Positions
  <2> QED BY <2>1, <2>2 DEF InTurn
<1>5. CASE p > Len(list)
  <2>1. list'[p][1] = c BY <1>1, <1>5
  <2>2. sjob[t][1] # c BY <1>2, BusyFacts DEF Pending, Posted
  <2> QED BY <2>1, <2>2
<1> QED BY <1>1, <1>3, <1>4, <1>5

\* What the other steps of a server do to list and jobs.
LEMMA ServerLine ==
    ASSUME Inv, NEW s \in Servers, Server(s), ~Take(s)
    PROVE  /\ UNCHANGED list
           /\ \A t \in Servers : spc'[t] \in Busy => spc[t] \in Busy /\ sjob'[t] = sjob[t]
           /\ \A t \in Servers : spc[t] \in Busy /\ ~(t = s /\ Signal(s)) =>
                 spc'[t] \in Busy /\ sjob'[t] = sjob[t]
<1>0. TypeOK BY DEF Inv
<1> USE DEF Be, Busy, TypeOK
<1>1. CASE Awake(s) \/ Die(s)
  BY <1>0, <1>1 DEF Awake, Die, listVars
<1>2. CASE Look(s) \/ Pass(s) \/ Start(s) \/ Finish(s) \/ Status(s)
  BY <1>0, <1>2 DEF Look, Pass, Start, Finish, Status, listVars
<1>3. CASE Signal(s)
  <2>1. /\ spc' = [spc EXCEPT ![s] = "wait"] /\ sjob' = [sjob EXCEPT ![s] = Nobody]
        /\ UNCHANGED list
    BY <1>3 DEF Signal, listVars
  <2>2. \A t \in Servers : t # s => spc'[t] = spc[t] /\ sjob'[t] = sjob[t]
    BY <1>0, <2>1
  <2> QED BY <1>0, <1>3, <2>1, <2>2
<1> QED BY <1>1, <1>2, <1>3 DEF Server

LEMMA TakeNothing ==
    ASSUME Inv, NEW s \in Servers, Take(s), list = <<>>
    PROVE  /\ UNCHANGED <<list, sjob>> /\ list' = <<>>
           /\ \A t \in Servers : spc[t] \in Busy \/ spc'[t] \in Busy => spc'[t] = spc[t]
BY DEF Inv, TypeOK, Take, Be, Busy

LEMMA LineStep ==
    ASSUME Inv, Contiguous, InTurn, [Next]_vars
    PROVE  Contiguous' /\ InTurn'
<1>1. ASSUME UNCHANGED list,
             \A t \in Servers : spc'[t] \in Busy => spc[t] \in Busy /\ sjob'[t] = sjob[t]
      PROVE  Contiguous' /\ InTurn'
  BY <1>1 DEF Contiguous, InTurn, Positions
<1>2. ASSUME NEW c \in Callers, Caller(c) PROVE Contiguous' /\ InTurn'
  <2>1. CASE Post(c) BY <2>1, ContiguousPost, InTurnPost
  <2>2. CASE ~Post(c) BY <1>1, <1>2, <2>2, LineFrame
  <2> QED BY <2>1, <2>2
<1>3. ASSUME NEW s \in Servers, Server(s) PROVE Contiguous' /\ InTurn'
  <2>1. CASE Take(s) /\ list # <<>> BY <2>1, LineTake
  <2>2. CASE Take(s) /\ list = <<>> BY <1>1, <2>2, TakeNothing
  <2>3. CASE ~Take(s) BY <1>1, <1>3, <2>3, ServerLine
  <2> QED BY <2>1, <2>2, <2>3
<1>4. CASE UNCHANGED vars
  BY <1>1, <1>4 DEF vars, listVars, serverVars
<1> QED BY <1>2, <1>3, <1>4 DEF Next

\* No step but posting makes a job pending.
LEMMA PendingBefore ==
    ASSUME Inv, [Next]_vars, NEW d \in Callers, NEW i \in Indices,
           Pending(d, i)', ~Post(d)
    PROVE  Pending(d, i)
<1>0. TypeOK /\ Ranges BY DEF Inv
<1> USE DEF Go
<1>1. ASSUME UNCHANGED <<pc, num, k, finish>> PROVE Pending(d, i)
  BY <1>1 DEF Pending
<1>2. ASSUME NEW c \in Callers, Caller(c) PROVE Pending(d, i)
  <2>1. CASE c # d
    <3> SUFFICES pc'[d] = pc[d] /\ num'[d] = num[d] /\ k'[d] = k[d] /\ finish'[d] = finish[d]
      BY DEF Pending
    <3> USE DEF TypeOK, jobVars
    <3>1. CASE Call(c) \/ SetCall(c) \/ Stop(c)
      BY <1>0, <2>1, <3>1 DEF Call, SetCall, Stop
    <3>2. CASE ExecBlas(c)
      BY <1>0, <2>1, <3>2 DEF ExecBlas, Async, ExecInit, Post, Fill, StartOwn, FinishOwn, Wait, Leave
    <3>3. CASE SetNumThreads(c)
      BY <1>0, <2>1, <3>3 DEF SetNumThreads, SetEnter, SetInit, SetRead, SetGrow, SetStore, Leave
    <3>4. CASE Shutdown(c)
      BY <1>0, <2>1, <3>4 DEF Shutdown, StopLock, StopJoin, StopEnd, Leave
    <3> QED BY <1>2, <3>1, <3>2, <3>3, <3>4 DEF Caller
  <2>2. CASE c = d
    <3>1. CASE Fill(c) \/ StartOwn(c) \/ FinishOwn(c)
      <4>1. /\ UNCHANGED <<num, finish>> /\ pc[c] \in Posted \ {"wait"}
        BY <3>1 DEF Fill, StartOwn, FinishOwn, Posted, jobVars
      <4> QED BY <2>2, <4>1 DEF Pending
    <3>2. CASE Wait(c)
      <4>1. CASE k[c] < num[c] - 1
        <5>1. /\ UNCHANGED <<pc, num, finish>> /\ k'[c] = k[c] + 1 /\ k[c] \in Nat
          BY <1>0, <3>2, <4>1 DEF Wait, jobVars, TypeOK
        <5>2. k'[c] <= i => k[c] <= i
          BY <5>1 DEF Indices
        <5> QED BY <2>2, <5>1, <5>2 DEF Pending
      <4>2. CASE ~(k[c] < num[c] - 1)
        BY <1>0, <2>2, <3>2, <4>2 DEF Wait, Leave, Pending, Posted, TypeOK
      <4> QED BY <4>1, <4>2
    <3>3. CASE ~(Fill(c) \/ StartOwn(c) \/ FinishOwn(c) \/ Wait(c))
      <4>1. pc'[c] \notin Posted
        <5> USE DEF TypeOK, Posted
        <5>1. CASE Call(c) \/ SetCall(c) \/ Stop(c)
          BY <1>0, <5>1 DEF Call, SetCall, Stop
        <5>2. CASE Async(c) \/ ExecInit(c)
          BY <1>0, <5>2 DEF Async, ExecInit
        <5>3. CASE SetNumThreads(c)
          BY <1>0, <5>3 DEF SetNumThreads, SetEnter, SetInit, SetRead, SetGrow, SetStore, Leave
        <5>4. CASE Shutdown(c)
          BY <1>0, <5>4 DEF Shutdown, StopLock, StopJoin, StopEnd, Leave
        <5> QED BY <1>2, <2>2, <3>3, <5>1, <5>2, <5>3, <5>4 DEF Caller, ExecBlas
      <4> QED BY <2>2, <4>1 DEF Pending
    <3> QED BY <3>1, <3>2, <3>3
  <2> QED BY <2>1, <2>2
<1>3. ASSUME NEW s \in Servers, Server(s) PROVE Pending(d, i)
  <2>1. UNCHANGED <<pc, num, k>> BY <1>3, ServerFrame
  <2>2. CASE Signal(s)
    <3>1. finish[d][i] => finish'[d][i]
      BY <1>0, <2>2 DEF Signal, TypeOK
    <3> QED BY <2>1, <3>1 DEF Pending
  <2>3. CASE ~Signal(s)
    <3>1. UNCHANGED finish
      BY <1>3, <2>3 DEF Server, Awake, Die, Take, Look, Pass, Start, Finish, Status, jobVars
    <3> QED BY <2>1, <3>1 DEF Pending
  <2> QED BY <2>2, <2>3
<1>4. CASE UNCHANGED vars
  BY <1>1, <1>4 DEF vars, callerVars, jobVars
<1> QED BY <1>2, <1>3, <1>4 DEF Next

LEMMA SomewhereStep ==
    ASSUME Inv, Somewhere, [Next]_vars
    PROVE  Somewhere'
<1> DEFINE Found(d, i) ==
             \/ \E p \in Positions : list[p] = <<d, i>>
             \/ \E s \in Servers : spc[s] \in Busy /\ sjob[s] = <<d, i>>
<1> SUFFICES ASSUME NEW d \in Callers, NEW i \in Indices, Pending(d, i)'
             PROVE  Found(d, i)'
  BY DEF Somewhere
<1>0. TypeOK BY DEF Inv
<1>1. CASE Post(d)
  <2>1. /\ Len(list) \in Nat /\ num[d] \in 2 .. MaxThreads
        /\ Len(list') = Len(list) + (num[d] - 1)
        /\ \A j \in 1 .. (num[d] - 1) : list'[Len(list) + j] = <<d, j>>
    BY <1>1, PostedList
  <2>2. i \in 1 .. (num[d] - 1)
    <3>1. num' = num BY <1>1 DEF Post
    <3> QED BY <3>1 DEF Pending
  <2>3. Len(list) + i \in Positions'
    BY <2>1, <2>2 DEF Positions
  <2>4. list'[Len(list) + i] = <<d, i>>
    BY <2>1, <2>2
  <2> QED BY <2>3, <2>4
<1>2. CASE ~Post(d)
  <2>1. Found(d, i)
    BY <1>2, PendingBefore DEF Somewhere
  <2>2. ASSUME UNCHANGED list,
               \A t \in Servers : spc[t] \in Busy /\ sjob[t] = <<d, i>> =>
                  spc'[t] \in Busy /\ sjob'[t] = sjob[t]
        PROVE  Found(d, i)'
    BY <2>1, <2>2 DEF Positions
  <2>3. ASSUME NEW c \in Callers, Caller(c) PROVE Found(d, i)'
    <3>1. CASE Post(c)
      <4>1. /\ UNCHANGED <<spc, sjob>>
            /\ \A p \in Positions : p \in Positions' /\ list'[p] = list[p]
        <5>1. UNCHANGED <<spc, sjob>> BY <3>1 DEF Post, serverVars
        <5>2. /\ Len(list) \in Nat /\ num[c] \in 2 .. MaxThreads
              /\ Len(list') = Len(list) + (num[c] - 1)
              /\ \A p \in 1 .. Len(list) : list'[p] = list[p]
          BY <3>1, PostedList
        <5> QED BY <5>1, <5>2 DEF Positions
      <4> QED BY <2>1, <4>1
    <3>2. CASE ~Post(c)
      BY <2>2, <2>3, <3>2, LineFrame
    <3> QED BY <3>1, <3>2
  <2>4. ASSUME NEW s \in Servers, Server(s) PROVE Found(d, i)'
    <3>1. CASE Take(s) /\ list = <<>>
      BY <2>2, <3>1, TakeNothing
    <3>2. CASE Take(s) /\ list # <<>>
      <4>1. /\ Len(list) \in Nat /\ Len(list') = Len(list) - 1
            /\ \A p \in Positions' : p + 1 \in Positions /\ list'[p] = list[p + 1]
            /\ spc[s] = "take" /\ spc'[s] = "look" /\ sjob'[s] = list[1]
            /\ \A t \in Servers : t # s => sjob'[t] = sjob[t] /\ spc'[t] = spc[t]
        BY <3>2, TakenList
      <4>2. ASSUME NEW p \in Positions, list[p] = <<d, i>> PROVE Found(d, i)'
        <5>1. CASE p = 1 BY <4>1, <4>2, <5>1 DEF Busy
        <5>2. CASE p # 1
          <6>1. p - 1 \in Positions' /\ (p - 1) + 1 = p BY <4>1, <5>2 DEF Positions
          <6> QED BY <4>1, <4>2, <6>1
        <5> QED BY <5>1, <5>2
      <4>3. ASSUME NEW t \in Servers, spc[t] \in Busy, sjob[t] = <<d, i>> PROVE Found(d, i)'
        <5>1. t # s BY <4>1, <4>3 DEF Busy
        <5> QED BY <4>1, <4>3, <5>1
      <4> QED BY <2>1, <4>2, <4>3
    <3>3. CASE Signal(s)
      <4>1. sjob[s] # <<d, i>>
        <5> SUFFICES ASSUME sjob[s] = <<d, i>> PROVE FALSE OBVIOUS
        <5>1. finish'[d][i]
          BY <1>0, <3>3 DEF Signal, TypeOK
        <5> QED BY <5>1 DEF Pending
      <4>2. ~Take(s) BY <3>3 DEF Signal, Take
      <4> QED BY <2>2, <2>4, <4>1, <4>2, ServerLine
    <3>4. CASE ~Take(s) /\ ~Signal(s)
      BY <2>2, <2>4, <3>4, ServerLine
    <3> QED BY <3>1, <3>2, <3>3, <3>4
  <2>5. CASE UNCHANGED vars
    BY <2>2, <2>5 DEF vars, listVars, serverVars
  <2> QED BY <2>3, <2>4, <2>5 DEF Next
<1> QED BY <1>1, <1>2

LEMMA LinedStep == Inv /\ Lined /\ [Next]_vars => Lined'
BY CountsStep, LineStep, SomewhereStep DEF Lined

\* A caller has a step to take that does not wait for anybody.
CallerCanGo(c) ==
    /\ pc[c] # "idle"
    /\ pc[c] \in {"exec_init", "set_init", "set_grow", "stop"} => serverLock = Nobody
    /\ pc[c] = "owning" => CanFinish(c)
    /\ pc[c] = "wait" => finish[c][k[c]]

\* A server has.
ServerCanGo(s) ==
    /\ spc[s] \notin {"none", "dead"}
    /\ spc[s] = "wait" => filled \/ killed
    /\ spc[s] = "running" => CanFinish(sjob[s][1])

NoDeadlock ==
    (\E c \in Callers : pc[c] # "idle") =>
        \/ \E c \in Callers : CallerCanGo(c)
        \/ \E s \in Servers : ServerCanGo(s)

Stuck == (\A c \in Callers : ~CallerCanGo(c)) /\ (\A s \in Servers : ~ServerCanGo(s))

\* All wait for jobs, and if the list is not empty all servers are at work.
LEMMA StuckPlaces ==
    ASSUME Inv, Lined, NoLostSignal, PoolWhole, Stuck
    PROVE  /\ \A c \in Callers : pc[c] \in {"idle", "owning", "wait"}
           /\ \A s \in Servers : spc[s] \in {"none", "dead", "wait", "running"}
           /\ list # <<>> => \A s \in Servers : s <= numThreads - 2 => spc[s] = "running"
<1>0. TypeOK BY DEF Inv
<1>1. \A c \in Callers : pc[c] # "joining"
  BY DEF Stuck, CallerCanGo
<1>2. serverLock = Nobody
  BY <1>0, <1>1 DEF TypeOK, Lined, LockHeld
<1>3. ASSUME NEW c \in Callers PROVE pc[c] \in {"idle", "owning", "wait"}
  BY <1>2 DEF Stuck, CallerCanGo
<1>4. ASSUME NEW s \in Servers PROVE spc[s] \in {"none", "dead", "wait", "running"}
  BY DEF Stuck, ServerCanGo
<1>5. ASSUME list # <<>>, NEW s \in Servers, s <= numThreads - 2 PROVE spc[s] = "running"
  <2>1. 1 \in 1 .. Len(list)
    BY <1>0, <1>5, EmptySeq, LenProperties DEF TypeOK
  <2>2. list[1][1] \in Callers /\ Pending(list[1][1], list[1][2])
    BY <1>0, <2>1, ListElement DEF Inv, ListJobs
  <2>3. avail
    BY <2>2 DEF Inv, PoolUp, Pending
  <2>4. filled
    BY <1>3, <1>4, <1>5, <2>3 DEF NoLostSignal
  <2>5. spc[s] \notin {"none", "dead"}
    BY <1>1, <1>5, <2>3 DEF PoolWhole
  <2>6. spc[s] # "wait"
    BY <2>4 DEF Stuck, ServerCanGo
  <2> QED BY <1>4, <2>5, <2>6
<1> QED BY <1>3, <1>4, <1>5

\* A job that has not begun is in the list then.
LEMMA StuckTodo ==
    ASSUME Inv, Lined, NoLostSignal, PoolWhole, Stuck,
           NEW d \in Callers, pc[d] # "idle", NEW i \in Indices, job[d][i] = "todo"
    PROVE  \E p \in Positions : list[p] = <<d, i>>
<1>1. pc[d] \in {"owning", "wait"}
  BY StuckPlaces
<1>2. /\ ProgressOf(d) /\ num[d] \in 2 .. MaxThreads
      /\ pc[d] = "wait" => k[d] \in 1 .. (num[d] - 1)
  BY <1>1 DEF Inv, Progress, Ranges, ExecStates
<1>3. i \in Nat /\ i # 0
  BY <1>1, <1>2 DEF ProgressOf, Indices
<1>4. i < num[d]
  BY <1>1, <1>2, <1>3 DEF ProgressOf, ExecStates
<1>5. pc[d] = "wait" => k[d] <= i
  <2> SUFFICES ASSUME pc[d] = "wait", ~(k[d] <= i) PROVE FALSE OBVIOUS
  <2>1. i \in 1 .. (k[d] - 1) BY <1>2, <1>3
  <2> QED BY <1>2, <2>1 DEF ProgressOf
<1>6. ~finish[d][i]
  BY <1>2 DEF ProgressOf, Done
<1>7. Pending(d, i)
  <2>1. i \in 1 .. (num[d] - 1) BY <1>2, <1>3, <1>4
  <2> QED BY <1>1, <1>5, <1>6, <2>1 DEF Pending, Posted
<1>8. ASSUME NEW s \in Servers, spc[s] \in Busy, sjob[s] = <<d, i>> PROVE FALSE
  <2>1. spc[s] = "running" BY <1>8, StuckPlaces DEF Busy
  <2>2. job[d][i] = StateOf(spc[s]) BY <1>8, BusyFacts
  <2> QED BY <2>1, <2>2 DEF StateOf
<1> QED BY <1>7, <1>8 DEF Lined, Somewhere

\* With nothing in the list somebody's job can end, or has.
LEMMA StuckEmpty ==
    ASSUME Inv, Lined, NoLostSignal, PoolWhole, Stuck, list = <<>>,
           NEW c \in Callers, pc[c] # "idle"
    PROVE  FALSE
<1>1. CanFinish(c)
  <2>1. Positions = {}
    BY EmptySeq DEF Positions
  <2> QED BY <2>1, StuckTodo DEF CanFinish, Together
<1>2. pc[c] = "wait" /\ ~finish[c][k[c]]
  BY <1>1, StuckPlaces DEF Stuck, CallerCanGo
<1>3. Pending(c, k[c]) /\ k[c] \in Indices
  BY <1>2 DEF Inv, Ranges, ExecStates, Pending, Posted, Indices
<1>4. PICK s \in Servers : spc[s] \in Busy /\ sjob[s] = <<c, k[c]>>
  <2>1. Positions = {}
    BY EmptySeq DEF Positions
  <2> QED BY <1>3, <2>1 DEF Lined, Somewhere
<1>5. spc[s] = "running"
  BY <1>4, StuckPlaces DEF Busy
<1> QED BY <1>1, <1>4, <1>5 DEF Stuck, ServerCanGo

\* All servers at work with jobs of the call in front are more than that call has
\* jobs besides its first and the one that heads the list.
LEMMA StuckFull ==
    ASSUME Inv, Lined, NoLostSignal, PoolWhole, Stuck, list # <<>>
    PROVE  FALSE
<1>0. TypeOK BY DEF Inv
<1>1. 1 \in Positions
  BY <1>0, EmptySeq, LenProperties DEF TypeOK, Positions
<1> DEFINE c == list[1][1]
           h == list[1][2]
           S == 0 .. (numThreads - 2)
           T == (1 .. (num[c] - 1)) \ {h}
           f == [s \in S |-> sjob[s][2]]
<1>2. /\ c \in Callers /\ h \in Indices /\ list[1] = <<c, h>>
      /\ Pending(c, h)
  BY <1>0, <1>1, ListElement DEF Inv, ListJobs, Positions, Jobs
<1>3. numThreads \in 1 .. MaxThreads /\ num[c] \in 2 .. numThreads /\ h \in 1 .. (num[c] - 1)
  BY <1>0, <1>2 DEF TypeOK, Inv, Ranges, Lined, Sized, ExecStates, Pending, Posted
<1>4. ASSUME NEW s \in S
      PROVE  /\ s \in Servers /\ spc[s] = "running"
             /\ sjob[s] = <<c, sjob[s][2]>> /\ sjob[s][2] \in T
  <2>1. s \in Servers /\ s <= numThreads - 2
    BY <1>3 DEF Servers
  <2>2. spc[s] = "running" /\ spc[s] \in Busy
    BY <2>1, StuckPlaces DEF Busy
  <2> DEFINE d == sjob[s][1]
  <2>3. d \in Callers /\ Pending(d, sjob[s][2]) /\ sjob[s] = <<d, sjob[s][2]>>
    BY <2>1, <2>2, BusyFacts
  <2>4. PICK i \in Indices : job[d][i] = "todo"
    BY <2>1, <2>2 DEF Stuck, ServerCanGo, CanFinish, Together
  <2>5. pc[d] # "idle" BY <2>3 DEF Pending, Posted
  <2>6. PICK p \in Positions : list[p] = <<d, i>>
    BY <2>3, <2>4, <2>5, StuckTodo
  <2>7. list[p][1] = d BY <2>6
  <2>8. d = c
    BY <2>1, <2>2, <2>7 DEF Lined, InTurn
  <2>9. sjob[s][2] # h
    BY <1>1, <1>2, <2>1, <2>2, <2>3, <2>8, BusyFacts DEF Positions
  <2> QED BY <2>1, <2>2, <2>3, <2>8, <2>9 DEF Pending
<1>5. f \in [S -> T]
  BY <1>4
<1>6. IsFiniteSet(S) /\ IsFiniteSet(T) /\ Cardinality(T) < Cardinality(S)
  <2> DEFINE R == 1 .. (num[c] - 1)
  <2>1. 0 \in Int /\ 1 \in Int /\ numThreads - 2 \in Int /\ num[c] - 1 \in Int
    BY <1>3
  <2>2. /\ IsFiniteSet(S) /\ Cardinality(S) = IF 0 > numThreads - 2 THEN 0 ELSE numThreads - 2 - 0 + 1
        /\ IsFiniteSet(R) /\ Cardinality(R) = IF 1 > num[c] - 1 THEN 0 ELSE num[c] - 1 - 1 + 1
    BY <2>1, FS_Interval
  <2>3. h \in R BY <1>3
  <2>4. num[c] \in Int /\ numThreads \in Int /\ 2 <= num[c] /\ num[c] <= numThreads
    BY <1>3
  <2> HIDE DEF S, R, h, c
  <2>5. IsFiniteSet(R \ {h}) /\ Cardinality(R \ {h}) = Cardinality(R) - 1
    BY <2>2, <2>3, FS_RemoveElement
  <2>6. Cardinality(R \ {h}) < Cardinality(S)
    BY <2>2, <2>4, <2>5
  <2> QED BY <2>2, <2>5, <2>6 DEF R
<1>7. \A x \in S : f[x] = sjob[x][2]
  OBVIOUS
<1> HIDE DEF S, T, f
<1>8. PICK x, y \in S : x # y /\ f[x] = f[y]
  BY <1>5, <1>6, FS_PigeonHole
<1>9. sjob[x] = sjob[y] /\ spc[x] \in Busy /\ spc[y] \in Busy /\ x \in Servers /\ y \in Servers
  <2>1. sjob[x][2] = sjob[y][2] BY <1>7, <1>8
  <2> QED BY <1>4, <2>1 DEF Busy
<1> QED BY <1>8, <1>9, BusyFacts

\* The waits of blas_server_win32.c never close a circle.  Whenever some thread is
\* in the library one of them has a step to take, be it that callers wait for
\* server_lock or for the event of a job, that servers wait for work, or that the
\* jobs of a call wait for one another.  The last is safe because exec_blas_async
\* hangs all jobs of a call behind those that wait, so that servers which cannot end
\* are busy with the call in front, and there is a server for each of its jobs.
THEOREM NoDeadlockCorrect ==
    ASSUME SingleSetter, NeverSerial, NeverLowered PROVE Spec => []NoDeadlock
<1>1. Spec => []Lined
  BY LinedInit, LinedStep, Invariance, PTL DEF Spec
<1>2. Inv /\ Lined /\ NoLostSignal /\ PoolWhole => NoDeadlock
  BY StuckEmpty, StuckFull DEF NoDeadlock, Stuck
<1> QED BY <1>1, <1>2, Invariance, NoLostSignalCorrect, PoolWholeCorrect, PTL
=============================================================================
