-------------------------- MODULE OmpServerProofs --------------------------
(***************************************************************************)
(* Theorems about OmpServer, for every number of callers, sets, threads    *)
(* and calls.  The last one, that somebody can always go on, assumes that  *)
(* the regions of level-3 calls have a thread for every job.               *)
(***************************************************************************)
EXTENDS OmpServer, FiniteSetTheorems, NaturalsInduction, WellFoundedInduction, TLAPS

LEMMA Prefix ==
    ASSUME NEW R, NEW x \in Nat, NEW y \in Nat, x <= y, 1 .. y \subseteq R
    PROVE  1 .. x \in SUBSET R
OBVIOUS

USE OmpAssumption

-----------------------------------------------------------------------------
(* Arithmetic: the buffers of gotoblas_init, and schedule(static).         *)

LEMMA Rows ==
    ASSUME NEW L \in Nat, NEW s \in Nat, NEW t \in Nat, s < t
    PROVE  s * L + L <= t * L
<1>1. PICK d \in Nat : t = s + 1 + d
  <2>1. t - s - 1 \in Nat /\ t = s + 1 + (t - s - 1)
    OBVIOUS
  <2> QED BY <2>1
<1>2. t * L = s * L + L + d * L /\ d * L \in Nat /\ s * L \in Nat
  BY <1>1
<1> QED BY <1>2

LEMMA Quotient ==
    ASSUME NEW x \in Nat, NEW d \in Nat \ {0}
    PROVE  x \div d \in 0 .. x
OBVIOUS

\* gotoblas_init gives every cell a buffer of its own.
LEMMA FirstBuffers ==
    ASSUME NEW s \in Sets, NEW k \in Slots
    PROVE  /\ FirstBuffer(s, k) \in (1 .. (MaxSections * OwnTeam)) \cup {None}
           /\ FirstBuffer(s, k) \in Regions \cup {None}
<1>1. OwnTeam \in 1 .. MaxThreads
  BY DEF OwnTeam
<1>2. s * OwnTeam + OwnTeam <= MaxSections * OwnTeam
  BY <1>1, Rows DEF Sets
<1>3. MaxSections * OwnTeam <= MaxSections * MaxThreads
  BY <1>1
<1>4. /\ s * OwnTeam \in Nat
      /\ MaxSections * OwnTeam \in Nat
      /\ MaxSections * MaxThreads \in Nat
  BY <1>1 DEF Sets
<1> HIDE DEF OwnTeam
<1> QED BY <1>1, <1>2, <1>3, <1>4 DEF FirstBuffer, Slots, None

LEMMA FirstBuffersDiffer ==
    ASSUME NEW s \in Sets, NEW t \in Sets, NEW k \in Slots, NEW l \in Slots,
           FirstBuffer(s, k) = FirstBuffer(t, l), FirstBuffer(s, k) # None
    PROVE  s = t /\ k = l
<1>1. OwnTeam \in 1 .. MaxThreads
  BY DEF OwnTeam
<1>2. /\ s < t => s * OwnTeam + OwnTeam <= t * OwnTeam
      /\ t < s => t * OwnTeam + OwnTeam <= s * OwnTeam
  BY <1>1, Rows DEF Sets
<1>3. s * OwnTeam \in Nat /\ t * OwnTeam \in Nat
  BY <1>1 DEF Sets
<1>4. /\ k < OwnTeam /\ l < OwnTeam
      /\ s * OwnTeam + k = t * OwnTeam + l
  BY <1>3 DEF FirstBuffer, Slots, None
<1>5. s = t
  BY <1>1, <1>2, <1>3, <1>4 DEF Sets, Slots
<1> QED BY <1>3, <1>4, <1>5 DEF Slots

\* No thread of a team is given an iteration below its own number.
LEMMA RunnerRange ==
    ASSUME NEW c \in Threads, NEW k \in Slots, num[c] \in Nat, k < num[c]
    PROVE  Runner(c, k) \in 0 .. k
<1>1. CASE Adaptive \/ Team[c] >= num[c]
  BY <1>1 DEF Runner, Slots
<1>2. CASE ~(Adaptive \/ Team[c] >= num[c])
  <2> DEFINE share == num[c] \div Team[c]
             more == num[c] % Team[c]
             bound == more * (share + 1)
  <2>1. share \in Nat \ {0} /\ more \in Nat
    BY <1>2
  <2>2. bound \in Nat /\ bound >= more
    <3>1. bound = more * share + more /\ more * share \in Nat
      BY <2>1
    <3> QED BY <2>1, <3>1
  <2>3. Runner(c, k) = IF k < bound THEN k \div (share + 1)
                       ELSE more + (k - bound) \div share
    BY <1>2 DEF Runner
  <2> HIDE DEF share, more, bound
  <2>4. k \div (share + 1) \in 0 .. k
    BY <2>1, Quotient DEF Slots
  <2>5. CASE k < bound
    BY <2>3, <2>4, <2>5
  <2>6. CASE ~(k < bound)
    <3>1. k - bound \in Nat
      BY <2>2, <2>6 DEF Slots
    <3>2. (k - bound) \div share \in 0 .. (k - bound)
      BY <2>1, <3>1, Quotient
    <3> QED BY <2>1, <2>2, <2>3, <2>6, <3>1, <3>2 DEF Slots
  <2> QED BY <2>5, <2>6
<1> QED BY <1>1, <1>2

-----------------------------------------------------------------------------
(* What holds however the number of threads is changed.                    *)

\* Where a caller is, and what it has there.
WalkOf(c) ==
    /\ at[c] # "mark"
    /\ at[c] \in {"put", "null"} => col[c] < MaxThreads
    /\ at[c] = "put" <=> new[c] # None
    /\ at[c] = "size" \/ (at[c] \in Adjusts /\ back[c] = "size") => calls[c] < MaxCalls
    /\ at[c] \in {"door", "exec"} \/ InExec(c) => num[c] \in 2 .. MaxThreads
    /\ at[c] = "out" \/ (at[c] \in Adjusts /\ back[c] = "out") => mine[c] = None
    /\ at[c] \in {"door", "left"} => mine[c] # None

\* Jobs exist inside exec_blas, run inside the region, and of the jobs of one
\* thread the later ones begin when the earlier ones are done.
JobsOf(c) ==
    /\ ~InExec(c) => job[c] = NoJobs
    /\ at[c] # "run" => \A k \in Slots : job[c][k] \in {"none", "todo"}
    /\ \A k \in Slots : job[c][k] # "none" => k < num[c]
    /\ \A k, l \in Slots :
          job[c][k] = "running" /\ l < k /\ Runner(c, l) = Runner(c, k) => job[c][l] = "done"

Walk == \A c \in Threads : WalkOf(c) /\ JobsOf(c)

\* The sets that are marked are those of the callers in a region.
Claims ==
    /\ \A c \in Threads : at[c] = "run" => inuse[set[c]]
    /\ \A c, d \in Threads : at[c] = "run" /\ at[d] = "run" /\ set[c] = set[d] => c = d
    /\ \A s \in Sets : inuse[s] => \E c \in Threads : at[c] = "run" /\ set[c] = s

\* The semaphore counts the level-3 calls in exec_blas.
Doors ==
    /\ IsFiniteSet(inside) /\ left + Cardinality(inside) = MaxSections
    /\ \A c \in Threads :
          c \in inside <=> mine[c] # None /\ (at[c] \in {"exec", "left"} \/ InExec(c))

Inv == TypeOK /\ Walk /\ Claims /\ Doors

\* The steps of one caller and of its team.
Acts(c) ==
    \/ \E own \in BOOLEAN : Begin(c, own)
    \/ Serve(c)
    \/ \E k \in Slots : Runs(c, k)
    \/ \E n \in Settings : Set(c, n)
    \/ Shutdown(c)

LEMMA NextActs == Next => \E c \in Threads : Acts(c)
BY DEF Next, Acts

\* Nobody moves another caller.
Unmoved(d) ==
    UNCHANGED <<at[d], back[d], row[d], col[d], new[d], mine[d], num[d], calls[d], set[d],
                job[d], using[d]>>

LEMMA OthersUnmoved ==
    ASSUME TypeOK, NEW c \in Threads, Acts(c), NEW d \in Threads, d # c
    PROVE  Unmoved(d)
<1> USE DEF Unmoved, TypeOK, adjustVars, callVars, jobVars, Goes, StartAdjust, GotoSetNumThreads
<1>1. ASSUME NEW own \in BOOLEAN, Begin(c, own) PROVE Unmoved(d)
  BY <1>1 DEF Begin
<1>2. CASE Serial(c) \/ Size(c) \/ EnterLock(c) \/ ExecBlas(c)
  BY <1>2 DEF Serial, Size, EnterLock, ExecBlas
<1>3. CASE Adjust(c)
  BY <1>3 DEF Adjust, Grow, Put, Trim, Null, NextSet, Adjusted, NextCell
<1>4. CASE Claim(c) \/ Release(c) \/ Return(c)
  BY <1>4 DEF Claim, Release, Return
<1>5. ASSUME NEW k \in Slots, Runs(c, k) PROVE Unmoved(d)
  BY <1>5 DEF Runs, Start, Finish
<1>6. ASSUME NEW n \in Settings, Set(c, n) PROVE Unmoved(d)
  BY <1>6 DEF Set
<1>7. CASE Shutdown(c)
  BY <1>7 DEF Shutdown
<1> QED BY <1>1, <1>2, <1>3, <1>4, <1>5, <1>6, <1>7 DEF Acts, Serve

-----------------------------------------------------------------------------
(* Types.                                                                  *)

LEMMA WantedRange ==
    ASSUME TypeOK, NEW n \in Int
    PROVE  Wanted(n) \in 1 .. MaxThreads
BY DEF Wanted, TypeOK

LEMMA NumThreadsRange ==
    ASSUME TypeOK, NEW c \in Threads
    PROVE  NumThreads(c) \in 1 .. MaxThreads
BY DEF NumThreads, TypeOK

LEMMA StartType ==
    ASSUME TypeOK, NEW c \in Threads, NEW label \in {"out", "size", "claim"},
           StartAdjust(c, label)
    PROVE  /\ at' = [at EXCEPT ![c] = "grow"]
           /\ back' \in [Threads -> {"out", "size", "claim"}]
           /\ row' \in [Threads -> Sets] /\ col' \in [Threads -> 0 .. MaxThreads]
           /\ UNCHANGED new
BY DEF StartAdjust, Goes, TypeOK, Sets

LEMMA GotoType ==
    ASSUME TypeOK, NEW c \in Threads, NEW n \in Nat, NEW label \in {"out", "size"},
           GotoSetNumThreads(c, n, label)
    PROVE  /\ numThreads' \in 1 .. MaxThreads /\ cpuNumber' \in 1 .. MaxThreads
           /\ at' = [at EXCEPT ![c] = "grow"]
           /\ back' \in [Threads -> {"out", "size", "claim"}]
           /\ row' \in [Threads -> Sets] /\ col' \in [Threads -> 0 .. MaxThreads]
           /\ UNCHANGED <<new, avail, ompMax>>
<1>1. Wanted(n) \in 1 .. MaxThreads
  BY WantedRange
<1> QED BY <1>1 DEF GotoSetNumThreads, StartAdjust, Goes, TypeOK, Sets

\* What Store does to the cells.
CellStored(c, r) ==
    /\ buffer' \in [Sets -> [Slots -> Regions \cup {None}]]
    /\ \A s \in Sets, k \in Slots :
          buffer'[s][k] = IF s = row[c] /\ k = col[c] THEN r ELSE buffer[s][k]

LEMMA StoreType ==
    ASSUME TypeOK, NEW c \in Threads, WalkOf(c), at[c] \in {"put", "null"},
           NEW r \in Regions \cup {None}, Store(c, r)
    PROVE  CellStored(c, r)
<1>1. row[c] \in Sets /\ col[c] \in Slots
  BY DEF TypeOK, WalkOf, Slots
<1> QED BY <1>1 DEF TypeOK, Store, CellStored

LEMMA TypeStep ==
    ASSUME Inv, NEW c \in Threads, Acts(c)
    PROVE  TypeOK'
<1> USE DEF TypeOK, lockVars, sizeVars, adjustVars, callVars, jobVars, Goes, Adjusts
<1>0. TypeOK /\ WalkOf(c) /\ JobsOf(c)
  BY DEF Inv, Walk
<1>1. ASSUME NEW own \in BOOLEAN, Begin(c, own) PROVE TypeOK'
  <2>1. mine' \in [Threads -> Regions \cup {None}] /\ taken' \in SUBSET Regions
    <3>1. CASE own
      <4>1. PICK r \in Regions : mine' = [mine EXCEPT ![c] = r] /\ taken' = taken \cup {r}
        BY <1>1, <3>1 DEF Begin
      <4> QED BY <1>0, <4>1
    <3>2. CASE ~own
      BY <1>0, <1>1, <3>2 DEF Begin
    <3> QED BY <3>1, <3>2
  <2>2. CASE explicit \/ NumThreads(c) = cpuNumber
    BY <1>0, <1>1, <2>1, <2>2 DEF Begin
  <2>3. CASE ~(explicit \/ NumThreads(c) = cpuNumber)
    <3>1. NumThreads(c) \in Nat
      BY <1>0, NumThreadsRange
    <3>2. GotoSetNumThreads(c, NumThreads(c), "size") /\ UNCHANGED explicit
      BY <1>1, <2>3 DEF Begin
    <3> QED BY <1>0, <1>1, <2>1, <3>1, <3>2, GotoType DEF Begin
  <2> QED BY <2>2, <2>3
<1>2. CASE Serial(c)
  BY <1>0, <1>2 DEF Serial
<1>3. CASE Size(c)
  <2>1. calls[c] < MaxCalls
    BY <1>0, <1>3 DEF Size, WalkOf
  <2> QED BY <1>0, <1>3, <2>1 DEF Size
<1>4. CASE EnterLock(c)
  <2>1. left' \in 0 .. MaxSections /\ inside' \subseteq Threads
    BY <1>0, <1>4 DEF EnterLock, Door!Enter
  <2> QED BY <1>0, <1>4, <2>1 DEF EnterLock
<1>5. CASE ExecBlas(c)
  <2>1. job' \in [Threads -> [Slots -> {"none", "todo", "running", "done"}]]
    BY <1>0, <1>5 DEF ExecBlas
  <2>2. CASE avail
    BY <1>0, <1>5, <2>1, <2>2 DEF ExecBlas
  <2>3. CASE ~avail
    <3>1. ompMax' = Team[c] /\ StartAdjust(c, "claim")
      BY <1>5, <2>3 DEF ExecBlas
    <3>2. ompMax' \in 1 .. MaxThreads
      BY <3>1
    <3> QED BY <1>0, <1>5, <2>1, <3>1, <3>2, StartType DEF ExecBlas
  <2> QED BY <2>2, <2>3
<1>6. CASE Adjust(c)
  <2>1. CASE Grow(c)
    <3>1. CASE col[c] >= cpuNumber
      BY <1>0, <2>1, <3>1 DEF Grow
    <3>2. CASE col[c] < cpuNumber /\ Cell(c) # None
      <4>1. NextCell(c) /\ UNCHANGED <<at, taken, new>>
        BY <1>0, <2>1, <3>2 DEF Grow
      <4>2. col' \in [Threads -> 0 .. MaxThreads]
        BY <1>0, <3>2, <4>1 DEF NextCell
      <4> QED BY <1>0, <2>1, <4>1, <4>2 DEF Grow
    <3>3. CASE col[c] < cpuNumber /\ Cell(c) = None
      <4>1. PICK r \in Regions : taken' = taken \cup {r} /\ new' = [new EXCEPT ![c] = r]
        BY <1>0, <2>1, <3>3 DEF Grow
      <4>2. at' = [at EXCEPT ![c] = "put"] /\ UNCHANGED col
        BY <1>0, <2>1, <3>3 DEF Grow
      <4> QED BY <1>0, <2>1, <4>1, <4>2 DEF Grow
    <3> QED BY <1>0, <3>1, <3>2, <3>3
  <2>2. CASE Put(c)
    <3>1. CellStored(c, new[c])
      BY <1>0, <2>2, StoreType DEF Put
    <3>2. col' \in [Threads -> 0 .. MaxThreads] /\ new' \in [Threads -> Regions \cup {None}]
      BY <1>0, <2>2 DEF Put, NextCell, WalkOf
    <3> QED BY <1>0, <2>2, <3>1, <3>2 DEF Put, CellStored
  <2>3. CASE Trim(c)
    <3>1. CASE Cell(c) = None
      <4>0. NextCell(c) /\ col[c] < MaxThreads
        BY <2>3, <3>1 DEF Trim
      <4>1. col' \in [Threads -> 0 .. MaxThreads]
        BY <1>0, <4>0 DEF NextCell
      <4> QED BY <1>0, <2>3, <3>1, <4>1 DEF Trim
    <3>2. CASE Cell(c) # None
      BY <1>0, <2>3, <3>2 DEF Trim
    <3> QED BY <3>1, <3>2
  <2>4. CASE Null(c)
    <3>1. CellStored(c, None)
      BY <1>0, <2>4, StoreType DEF Null
    <3>2. col' \in [Threads -> 0 .. MaxThreads]
      BY <1>0, <2>4 DEF Null, NextCell, WalkOf
    <3> QED BY <1>0, <2>4, <3>1, <3>2 DEF Null, CellStored
  <2>5. CASE NextSet(c)
    <3>1. row' \in [Threads -> Sets] /\ col' \in [Threads -> 0 .. MaxThreads]
      BY <1>0, <2>5 DEF NextSet, Sets
    <3> QED BY <1>0, <2>5, <3>1 DEF NextSet
  <2>6. CASE Adjusted(c)
    <3>1. row' \in [Threads -> Sets] /\ col' \in [Threads -> 0 .. MaxThreads]
      BY <1>0, <2>6 DEF Adjusted, Sets
    <3>2. avail' \in BOOLEAN
      BY <1>0, <2>6 DEF Adjusted
    <3>3. at' \in [Threads -> {"out", "size", "door", "exec", "claim", "mark", "run", "left"}
                                \cup Adjusts]
      BY <1>0, <2>6 DEF Adjusted
    <3> QED BY <1>0, <2>6, <3>1, <3>2, <3>3 DEF Adjusted
  <2> QED BY <1>6, <2>1, <2>2, <2>3, <2>4, <2>5, <2>6 DEF Adjust
<1>7. CASE Claim(c)
  BY <1>0, <1>7 DEF Claim
<1>8. CASE Release(c)
  <2>1. /\ job' \in [Threads -> [Slots -> {"none", "todo", "running", "done"}]]
        /\ set' \in [Threads -> Sets] /\ num' \in [Threads -> 0 .. MaxThreads]
    BY <1>0, <1>8 DEF Release, NoJobs, Sets
  <2> QED BY <1>0, <1>8, <2>1 DEF Release
<1>9. CASE Return(c)
  <2>1. c \in inside
    BY <1>9 DEF Return, Door!Leave
  <2>2. left + 1 \in 0 .. MaxSections
    <3>1. inside \ {c} \subseteq inside /\ Cardinality(inside) >= 1
      BY <2>1, FS_EmptySet, FS_CardinalityType DEF Inv, Doors
    <3> QED BY <3>1, FS_CardinalityType DEF Inv, Doors
  <2> QED BY <1>0, <1>9, <2>2 DEF Return, Door!Leave
<1>10. ASSUME NEW k \in Slots, Runs(c, k) PROVE TypeOK'
  <2>1. CASE Start(c, k)
    <3>1. Runner(c, k) \in Slots
      <4>1. num[c] \in Nat /\ k < num[c]
        BY <1>0, <2>1 DEF Start, JobsOf
      <4> QED BY <4>1, RunnerRange DEF Slots
    <3>2. Place(c, k) \in Regions \cup {None}
      BY <1>0, <3>1 DEF Place
    <3>3. job' \in [Threads -> [Slots -> {"none", "todo", "running", "done"}]]
      BY <1>0, <2>1 DEF Start
    <3>4. PICK b \in Regions \cup {None} : using' = [using EXCEPT ![c][k] = b]
      BY <2>1, <3>2 DEF Start
    <3>5. using' \in [Threads -> [Slots -> Regions \cup {None}]]
      BY <1>0, <3>4
    <3>6. taken' \in SUBSET Regions /\ fallback' \subseteq Threads \X Slots
      <4>1. CASE Place(c, k) # None
        BY <1>0, <2>1, <4>1 DEF Start
      <4>2. CASE Place(c, k) = None
        <5>1. PICK r \in Regions :
                 taken' = taken \cup {r} /\ fallback' = fallback \cup {<<c, k>>}
          BY <2>1, <4>2 DEF Start
        <5>2. <<c, k>> \in Threads \X Slots
          OBVIOUS
        <5>3. fallback' \subseteq Threads \X Slots
          BY <1>0, <5>1, <5>2
        <5>4. taken' \in SUBSET Regions
          BY <1>0, <5>1
        <5> QED BY <5>3, <5>4
      <4> QED BY <4>1, <4>2
    <3> QED BY <1>0, <2>1, <3>3, <3>5, <3>6 DEF Start
  <2>2. CASE Finish(c, k)
    BY <1>0, <2>2 DEF Finish
  <2> QED BY <1>10, <2>1, <2>2 DEF Runs
<1>11. ASSUME NEW n \in Settings, Set(c, n) PROVE TypeOK'
  <2>1. GotoSetNumThreads(c, n, "out") /\ n \in Nat
    BY <1>11 DEF Set
  <2>2. calls' \in [Threads -> 0 .. MaxCalls]
    BY <1>0, <1>11 DEF Set
  <2>3. explicit' \in {explicit, TRUE}
    BY <1>11 DEF Set
  <2>4. explicit' \in BOOLEAN
    BY <1>0, <2>3, Zenon
  <2> QED BY <1>0, <1>11, <2>1, <2>2, <2>4, GotoType DEF Set
<1>12. CASE Shutdown(c)
  <2>1. buffer' \in [Sets -> [Slots -> Regions \cup {None}]]
    BY <1>12 DEF Shutdown, NoBuffers
  <2>2. calls' \in [Threads -> 0 .. MaxCalls]
    BY <1>0, <1>12 DEF Shutdown
  <2>3. taken' \in SUBSET Regions
    <3>1. taken' \subseteq taken
      BY <1>12 DEF Shutdown
    <3> QED BY <1>0, <3>1
  <2> QED BY <1>0, <1>12, <2>1, <2>2, <2>3 DEF Shutdown
<1> QED BY <1>1, <1>2, <1>3, <1>4, <1>5, <1>6, <1>7, <1>8, <1>9, <1>10, <1>11, <1>12
        DEF Acts, Serve

-----------------------------------------------------------------------------
(* Where the callers are.                                                  *)

LEMMA UnmovedWalk ==
    ASSUME NEW d \in Threads, WalkOf(d), JobsOf(d), Unmoved(d)
    PROVE  WalkOf(d)' /\ JobsOf(d)'
<1>1. InExec(d)' <=> InExec(d)
  BY DEF Unmoved, InExec
<1>2. \A k \in Slots : Runner(d, k)' = Runner(d, k)
  BY DEF Unmoved, Runner
<1>3. WalkOf(d)'
  BY <1>1 DEF Unmoved, WalkOf
<1>4. JobsOf(d)'
  BY <1>1, <1>2 DEF Unmoved, JobsOf
<1> QED BY <1>3, <1>4

\* A caller that moves on, its jobs untouched, outside of the region.
LEMMA JobsKept ==
    ASSUME NEW c \in Threads, JobsOf(c), job'[c] = job[c],
           at[c] # "run", at'[c] # "run",
           InExec(c)' <=> InExec(c), num'[c] = num[c] \/ ~InExec(c)
    PROVE  JobsOf(c)'
<1>1. \A k, l \in Slots : job'[c][k] # "running"
  BY DEF JobsOf
<1>2. \A k \in Slots : job'[c][k] # "none" => k < num'[c]
  BY DEF JobsOf, NoJobs
<1> QED BY <1>1, <1>2 DEF JobsOf

LEMMA WalkSelf ==
    ASSUME Inv, NEW c \in Threads, Acts(c)
    PROVE  WalkOf(c)' /\ JobsOf(c)'
<1> USE DEF Adjusts, Goes, InExec, lockVars, sizeVars, adjustVars, callVars, jobVars
<1>0. TypeOK /\ WalkOf(c) /\ JobsOf(c)
  BY DEF Inv, Walk
<1>1. ASSUME NEW own \in BOOLEAN, Begin(c, own) PROVE WalkOf(c)' /\ JobsOf(c)'
  <2>1. at[c] = "out" /\ calls[c] < MaxCalls
    BY <1>1 DEF Begin
  <2>2. /\ at'[c] = "size" \/ (at'[c] = "grow" /\ back'[c] = "size")
        /\ UNCHANGED <<new, num, calls, job>>
    BY <1>0, <1>1 DEF Begin, GotoSetNumThreads, StartAdjust, TypeOK
  <2>3. WalkOf(c)'
    BY <1>0, <2>1, <2>2 DEF WalkOf
  <2> QED BY <1>0, <2>1, <2>2, <2>3, JobsKept
<1>2. CASE Serial(c)
  <2>1. at[c] = "size" /\ at'[c] = "out" /\ mine'[c] = None /\ UNCHANGED <<new, num, job>>
    BY <1>0, <1>2 DEF Serial, TypeOK
  <2>2. WalkOf(c)'
    BY <1>0, <2>1 DEF WalkOf
  <2> QED BY <1>0, <2>1, <2>2, JobsKept
<1>3. CASE Size(c)
  <2>1. /\ at[c] = "size" /\ num'[c] \in 2 .. MaxThreads /\ UNCHANGED <<new, mine, job>>
        /\ at'[c] = IF mine[c] # None THEN "door" ELSE "exec"
    BY <1>0, <1>3 DEF Size, TypeOK
  <2>2. WalkOf(c)'
    BY <1>0, <2>1 DEF WalkOf
  <2> QED BY <1>0, <2>1, <2>2, JobsKept
<1>4. CASE EnterLock(c)
  <2>1. at[c] = "door" /\ at'[c] = "exec" /\ UNCHANGED <<new, mine, num, job>>
    BY <1>0, <1>4 DEF EnterLock, TypeOK
  <2>2. WalkOf(c)'
    BY <1>0, <2>1 DEF WalkOf
  <2> QED BY <1>0, <2>1, <2>2, JobsKept
<1>5. CASE ExecBlas(c)
  <2>1. /\ at[c] = "exec" /\ UNCHANGED <<new, mine, num>>
        /\ at'[c] = "claim" \/ (at'[c] = "grow" /\ back'[c] = "claim")
        /\ \A k \in Slots : job'[c][k] = IF k < num[c] THEN "todo" ELSE "none"
    BY <1>0, <1>5 DEF ExecBlas, StartAdjust, TypeOK
  <2>2. WalkOf(c)'
    BY <1>0, <2>1 DEF WalkOf
  <2> QED BY <2>1, <2>2 DEF JobsOf
<1>6. CASE Adjust(c)
  <2>0. UNCHANGED <<job, num, mine, calls>>
    BY <1>6 DEF Adjust, Grow, Put, Trim, Null, NextSet, Adjusted
  <2>1. /\ at[c] \in Adjusts
        /\ \/ at'[c] \in Adjusts /\ back'[c] = back[c]
           \/ at'[c] = back[c]
        /\ back[c] \in {"out", "size", "claim"}
    <3>1. CASE Grow(c) \/ Put(c)
      BY <1>0, <3>1 DEF Grow, Put, TypeOK
    <3>2. CASE Trim(c) \/ Null(c) \/ NextSet(c) \/ Adjusted(c)
      BY <1>0, <3>2 DEF Trim, Null, NextSet, Adjusted, TypeOK
    <3> QED BY <1>6, <3>1, <3>2 DEF Adjust
  <2>2. /\ at'[c] = "put" <=> new'[c] # None
        /\ at'[c] \in {"put", "null"} => col'[c] < MaxThreads
    <3>1. CASE Grow(c)
      <4>1. CASE col[c] < cpuNumber /\ Cell(c) = None
        <5>1. PICK r \in Regions : new' = [new EXCEPT ![c] = r]
          BY <1>0, <3>1, <4>1 DEF Grow, TypeOK
        <5>2. r # None
          BY DEF None
        <5>3. at'[c] = "put" /\ col'[c] = col[c] /\ col[c] < MaxThreads
          BY <1>0, <3>1, <4>1 DEF Grow, TypeOK
        <5> QED BY <1>0, <5>1, <5>2, <5>3 DEF TypeOK
      <4>2. CASE ~(col[c] < cpuNumber /\ Cell(c) = None)
        <5>1. at'[c] \in {"grow", "trim"} /\ UNCHANGED new /\ at[c] = "grow"
          BY <1>0, <3>1, <4>2 DEF Grow, TypeOK
        <5> QED BY <1>0, <5>1 DEF WalkOf
      <4> QED BY <4>1, <4>2
    <3>2. CASE Put(c)
      BY <1>0, <3>2 DEF Put, TypeOK
    <3>3. CASE Trim(c)
      BY <1>0, <3>3 DEF Trim, TypeOK, WalkOf
    <3>4. CASE Null(c) \/ NextSet(c) \/ Adjusted(c)
      BY <1>0, <3>4 DEF Null, NextSet, Adjusted, TypeOK, WalkOf
    <3> QED BY <1>6, <3>1, <3>2, <3>3, <3>4 DEF Adjust
  <2>3. WalkOf(c)'
    BY <1>0, <2>0, <2>1, <2>2 DEF WalkOf
  <2> QED BY <1>0, <2>0, <2>1, <2>3, JobsKept
<1>7. CASE Claim(c)
  <2>1. at[c] = "claim" /\ at'[c] = "run" /\ UNCHANGED <<new, mine, num, job>>
    BY <1>0, <1>7 DEF Claim, TypeOK
  <2>2. WalkOf(c)'
    BY <1>0, <2>1 DEF WalkOf
  <2>3. \A k \in Slots : job[c][k] # "running"
    BY <1>0, <2>1 DEF JobsOf
  <2> QED BY <1>0, <2>1, <2>2, <2>3 DEF JobsOf
<1>8. CASE Release(c)
  <2>1. /\ at[c] = "run" /\ job'[c] = NoJobs /\ UNCHANGED <<new, mine>>
        /\ at'[c] = IF mine[c] # None THEN "left" ELSE "out"
    BY <1>0, <1>8 DEF Release, TypeOK
  <2>2. WalkOf(c)'
    BY <1>0, <2>1 DEF WalkOf
  <2> QED BY <2>1, <2>2 DEF JobsOf, NoJobs
<1>9. CASE Return(c)
  <2>1. at[c] = "left" /\ at'[c] = "out" /\ mine'[c] = None /\ UNCHANGED <<new, num, job>>
    BY <1>0, <1>9 DEF Return, TypeOK
  <2>2. WalkOf(c)'
    BY <1>0, <2>1 DEF WalkOf
  <2> QED BY <1>0, <2>1, <2>2, JobsKept
<1>10. ASSUME NEW k \in Slots, Runs(c, k) PROVE WalkOf(c)' /\ JobsOf(c)'
  <2>1. /\ at[c] = "run" /\ UNCHANGED <<at, new, mine, num, calls>>
        /\ \E state \in {"running", "done"} : job' = [job EXCEPT ![c][k] = state]
    BY <1>0, <1>10 DEF Runs, Start, Finish, JobsOf
  <2>2. WalkOf(c)'
    BY <1>0, <2>1 DEF WalkOf
  <2>3. \A l \in Slots : Runner(c, l)' = Runner(c, l)
    BY <2>1 DEF Runner
  <2>4. job[c][k] # "none" /\ job'[c][k] # "none"
    BY <1>0, <1>10 DEF Runs, Start, Finish, TypeOK
  <2>5. \A l \in Slots : l # k => job'[c][l] = job[c][l]
    BY <1>0, <2>1 DEF TypeOK
  <2>6. ASSUME NEW l \in Slots, NEW m \in Slots, job'[c][l] = "running", m < l,
               Runner(c, m) = Runner(c, l)
        PROVE  job'[c][m] = "done"
    <3>1. CASE Start(c, k)
      <4>1. CASE l = k
        BY <1>0, <2>5, <2>6, <3>1, <4>1 DEF Start, Slots
      <4>2. CASE l # k
        BY <1>0, <2>5, <2>6, <3>1, <4>2 DEF Start, JobsOf
      <4> QED BY <4>1, <4>2
    <3>2. CASE Finish(c, k)
      <4>1. job'[c][k] = "done"
        BY <1>0, <3>2 DEF Finish, TypeOK
      <4> QED BY <1>0, <2>5, <2>6, <4>1 DEF JobsOf
    <3> QED BY <1>10, <3>1, <3>2 DEF Runs
  <2> QED BY <1>0, <2>1, <2>2, <2>3, <2>4, <2>5, <2>6 DEF JobsOf
<1>11. ASSUME NEW n \in Settings, Set(c, n) PROVE WalkOf(c)' /\ JobsOf(c)'
  <2>1. /\ at[c] = "out" /\ at'[c] = "grow" /\ back'[c] = "out"
        /\ UNCHANGED <<new, mine, num, job>>
    BY <1>0, <1>11 DEF Set, GotoSetNumThreads, StartAdjust, TypeOK
  <2>2. WalkOf(c)'
    BY <1>0, <2>1 DEF WalkOf
  <2> QED BY <1>0, <2>1, <2>2, JobsKept
<1>12. CASE Shutdown(c)
  <2>1. at[c] = "out" /\ UNCHANGED <<at, back, new, mine, num, job>>
    BY <1>12 DEF Shutdown, Out
  <2>2. WalkOf(c)'
    BY <1>0, <2>1 DEF WalkOf
  <2> QED BY <1>0, <2>1, <2>2, JobsKept
<1> QED BY <1>1, <1>2, <1>3, <1>4, <1>5, <1>6, <1>7, <1>8, <1>9, <1>10, <1>11, <1>12
        DEF Acts, Serve

LEMMA WalkStep ==
    ASSUME Inv, NEW c \in Threads, Acts(c)
    PROVE  Walk'
<1>1. \A d \in Threads : d # c => WalkOf(d)' /\ JobsOf(d)'
  BY OthersUnmoved, UnmovedWalk DEF Inv, Walk
<1> QED BY <1>1, WalkSelf DEF Walk

-----------------------------------------------------------------------------
(* Sets of buffers and the level-3 lock.                                   *)

\* All steps but these two leave the marks alone.
LEMMA OnlyClaims ==
    ASSUME Inv, NEW c \in Threads, Acts(c), ~Claim(c), ~Release(c)
    PROVE  UNCHANGED <<inuse, set>> /\ (at'[c] = "run" <=> at[c] = "run")
<1> USE DEF Goes, Adjusts, adjustVars, callVars, jobVars
<1>0. TypeOK /\ WalkOf(c)
  BY DEF Inv, Walk
<1>1. ASSUME NEW own \in BOOLEAN, Begin(c, own)
      PROVE  UNCHANGED <<inuse, set>> /\ at[c] = "out" /\ at'[c] \in {"size", "grow"}
  BY <1>0, <1>1 DEF Begin, GotoSetNumThreads, StartAdjust, TypeOK
<1>2. CASE Serial(c) \/ Size(c) \/ EnterLock(c)
  BY <1>0, <1>2 DEF Serial, Size, EnterLock, TypeOK
<1>3. CASE ExecBlas(c)
  BY <1>0, <1>3 DEF ExecBlas, StartAdjust, TypeOK
<1>4. CASE Adjust(c)
  <2>1. CASE Grow(c) \/ Put(c)
    BY <1>0, <2>1 DEF Grow, Put, TypeOK
  <2>2. CASE Trim(c) \/ Null(c) \/ NextSet(c) \/ Adjusted(c)
    BY <1>0, <2>2 DEF Trim, Null, NextSet, Adjusted, TypeOK
  <2> QED BY <1>4, <2>1, <2>2 DEF Adjust
<1>5. CASE Return(c)
  BY <1>0, <1>5 DEF Return, TypeOK
<1>6. ASSUME NEW k \in Slots, Runs(c, k) PROVE UNCHANGED <<inuse, set, at>>
  BY <1>6 DEF Runs, Start, Finish
<1>7. ASSUME NEW n \in Settings, Set(c, n)
      PROVE  UNCHANGED <<inuse, set>> /\ at[c] = "out" /\ at'[c] = "grow"
  BY <1>0, <1>7 DEF Set, GotoSetNumThreads, StartAdjust, TypeOK
<1>8. CASE Shutdown(c)
  BY <1>8 DEF Shutdown
<1> QED BY <1>1, <1>2, <1>3, <1>4, <1>5, <1>6, <1>7, <1>8 DEF Acts, Serve

LEMMA ClaimsStep ==
    ASSUME Inv, NEW c \in Threads, Acts(c)
    PROVE  Claims'
<1>0. TypeOK /\ Claims
  BY DEF Inv
<1>1. \A d \in Threads : d # c => at'[d] = at[d] /\ set'[d] = set[d]
  BY <1>0, OthersUnmoved DEF Unmoved
<1>2. CASE Claim(c)
  <2>1. PICK s \in Sets : /\ ~inuse[s]
                          /\ inuse' = [inuse EXCEPT ![s] = TRUE]
                          /\ set' = [set EXCEPT ![c] = s]
    BY <1>2 DEF Claim
  <2>2. at'[c] = "run" /\ at[c] # "run"
    BY <1>0, <1>2 DEF Claim, Goes, TypeOK
  <2>3. set'[c] = s /\ inuse'[s] /\ \A t \in Sets : t # s => inuse'[t] = inuse[t]
    BY <1>0, <2>1 DEF TypeOK
  <2>4. \A d \in Threads : at[d] = "run" => set[d] # s /\ set[d] \in Sets
    BY <1>0, <2>1 DEF Claims, TypeOK
  <2> QED BY <1>0, <1>1, <2>2, <2>3, <2>4 DEF Claims
<1>3. CASE Release(c)
  <2>1. at[c] = "run" /\ at'[c] # "run" /\ inuse' = [inuse EXCEPT ![set[c]] = FALSE]
    BY <1>0, <1>3 DEF Release, Goes, TypeOK
  <2>2. ~inuse'[set[c]] /\ \A t \in Sets : t # set[c] => inuse'[t] = inuse[t]
    BY <1>0, <2>1 DEF TypeOK
  <2>3. \A d \in Threads : d # c /\ at[d] = "run" => set[d] # set[c] /\ set[d] \in Sets
    BY <1>0, <2>1 DEF Claims, TypeOK
  <2> QED BY <1>0, <1>1, <2>1, <2>2, <2>3 DEF Claims
<1>4. CASE ~Claim(c) /\ ~Release(c)
  <2>1. UNCHANGED <<inuse, set>> /\ \A d \in Threads : at'[d] = "run" <=> at[d] = "run"
    BY <1>1, <1>4, OnlyClaims
  <2> QED BY <1>0, <2>1 DEF Claims
<1> QED BY <1>2, <1>3, <1>4

\* A level-3 call in exec_blas.
Level3Exec(c) == mine[c] # None /\ (at[c] \in {"exec", "left"} \/ InExec(c))

\* All steps but these two leave the semaphore alone.
LEMMA OnlyDoors ==
    ASSUME Inv, NEW c \in Threads, Acts(c), ~EnterLock(c), ~Return(c)
    PROVE  UNCHANGED <<left, inside>> /\ (Level3Exec(c)' <=> Level3Exec(c))
<1> USE DEF Goes, Adjusts, adjustVars, lockVars, callVars, jobVars, InExec, Level3Exec
<1>0. TypeOK /\ WalkOf(c)
  BY DEF Inv, Walk
<1>1. ASSUME NEW own \in BOOLEAN, Begin(c, own)
      PROVE  /\ UNCHANGED <<left, inside>> /\ at[c] = "out"
             /\ at'[c] = "size" \/ (at'[c] = "grow" /\ back'[c] = "size")
  BY <1>0, <1>1 DEF Begin, GotoSetNumThreads, StartAdjust, TypeOK
<1>2. CASE Serial(c) \/ Claim(c)
  BY <1>0, <1>2 DEF Serial, Claim, TypeOK
<1>3. CASE Size(c) \/ Release(c)
  BY <1>0, <1>3 DEF Size, Release, TypeOK
<1>4. CASE ExecBlas(c)
  <2>1. /\ UNCHANGED <<left, inside, mine>> /\ at[c] = "exec"
        /\ at'[c] = "claim" \/ (at'[c] = "grow" /\ back'[c] = "claim")
    BY <1>0, <1>4 DEF ExecBlas, StartAdjust, TypeOK
  <2> QED BY <2>1
<1>5. CASE Adjust(c)
  <2>1. CASE Grow(c) \/ Put(c)
    BY <1>0, <2>1 DEF Grow, Put, TypeOK
  <2>2. CASE Trim(c) \/ Null(c) \/ NextSet(c) \/ Adjusted(c)
    BY <1>0, <2>2 DEF Trim, Null, NextSet, Adjusted, TypeOK
  <2> QED BY <1>5, <2>1, <2>2 DEF Adjust
<1>6. ASSUME NEW k \in Slots, Runs(c, k) PROVE UNCHANGED <<left, inside, at, mine, back>>
  BY <1>6 DEF Runs, Start, Finish
<1>7. ASSUME NEW n \in Settings, Set(c, n)
      PROVE  /\ UNCHANGED <<left, inside>> /\ at[c] = "out"
             /\ at'[c] = "grow" /\ back'[c] = "out"
  BY <1>0, <1>7 DEF Set, GotoSetNumThreads, StartAdjust, TypeOK
<1>8. CASE Shutdown(c)
  BY <1>8 DEF Shutdown
<1> QED BY <1>1, <1>2, <1>3, <1>4, <1>5, <1>6, <1>7, <1>8 DEF Acts, Serve

LEMMA DoorsStep ==
    ASSUME Inv, NEW c \in Threads, Acts(c)
    PROVE  Doors'
<1> USE DEF Level3Exec
<1>0. TypeOK /\ WalkOf(c) /\ Doors
  BY DEF Inv, Walk
<1>1. \A d \in Threads : d # c => (Level3Exec(d)' <=> Level3Exec(d))
  BY <1>0, OthersUnmoved DEF Unmoved, InExec
<1>2. CASE EnterLock(c)
  <2>1. c \notin inside /\ inside' = inside \cup {c} /\ left' = left - 1
    BY <1>2 DEF EnterLock, Door!Enter
  <2>2. IsFiniteSet(inside') /\ Cardinality(inside') = Cardinality(inside) + 1
    BY <1>0, <2>1, FS_AddElement DEF Doors
  <2>3. Level3Exec(c)'
    BY <1>0, <1>2 DEF EnterLock, Goes, TypeOK, WalkOf, callVars
  <2>4. Cardinality(inside) \in Nat
    BY <1>0, FS_CardinalityType DEF Doors
  <2> QED BY <1>0, <1>1, <2>1, <2>2, <2>3, <2>4 DEF Doors, TypeOK
<1>3. CASE Return(c)
  <2>1. c \in inside /\ inside' = inside \ {c} /\ left' = left + 1
    BY <1>3 DEF Return, Door!Leave
  <2>2. IsFiniteSet(inside') /\ Cardinality(inside') = Cardinality(inside) - 1
    BY <1>0, <2>1, FS_RemoveElement DEF Doors
  <2>3. ~Level3Exec(c)'
    BY <1>0, <1>3 DEF Return, TypeOK
  <2>4. Cardinality(inside) \in Nat
    BY <1>0, FS_CardinalityType DEF Doors
  <2> QED BY <1>0, <1>1, <2>1, <2>2, <2>3, <2>4 DEF Doors, TypeOK
<1>4. CASE ~EnterLock(c) /\ ~Return(c)
  BY <1>0, <1>1, <1>4, OnlyDoors DEF Doors
<1> QED BY <1>2, <1>3, <1>4

LEMMA InvInit == Init => Inv
<1> SUFFICES ASSUME Init PROVE Inv OBVIOUS
<1> USE DEF Init
<1>1. OwnTeam \in 1 .. MaxThreads
  BY DEF OwnTeam
<1>2. MaxSections * OwnTeam \in Nat /\ MaxSections * OwnTeam <= MaxSections * MaxThreads
  BY <1>1
<1>3. TypeOK
  <2>1. taken \in SUBSET Regions
    <3> DEFINE x == MaxSections * OwnTeam
               y == MaxSections * MaxThreads
    <3>1. x \in Nat /\ x <= y /\ y \in Nat /\ 1 .. y \subseteq Regions
      BY <1>2
    <3>2. 1 .. x \in SUBSET Regions
      BY <3>1, Prefix
    <3> QED BY <3>2
  <2>2. buffer \in [Sets -> [Slots -> Regions \cup {None}]]
    BY FirstBuffers
  <2>3. left \in 0 .. MaxSections /\ inside \subseteq Threads
    BY DEF Door!Init
  <2>4. /\ avail \in BOOLEAN /\ explicit \in BOOLEAN
        /\ cpuNumber \in 1 .. MaxThreads /\ numThreads \in 1 .. MaxThreads
        /\ ompMax \in 1 .. MaxThreads /\ inuse \in [Sets -> BOOLEAN]
    BY <1>1
  <2>5. /\ row \in [Threads -> Sets] /\ col \in [Threads -> 0 .. MaxThreads]
        /\ num \in [Threads -> 0 .. MaxThreads] /\ calls \in [Threads -> 0 .. MaxCalls]
        /\ set \in [Threads -> Sets]
    BY DEF Sets
  <2>6. /\ job \in [Threads -> [Slots -> {"none", "todo", "running", "done"}]]
        /\ using \in [Threads -> [Slots -> Regions \cup {None}]]
    BY DEF NoJobs, NoBuffers
  <2> QED BY <2>1, <2>2, <2>3, <2>4, <2>5, <2>6 DEF TypeOK
<1>4. Walk
  BY DEF Walk, WalkOf, JobsOf, InExec, Adjusts, NoJobs
<1>5. Claims
  BY DEF Claims
<1>6. Doors
  BY FS_EmptySet DEF Doors, Door!Init, InExec, Adjusts
<1> QED BY <1>3, <1>4, <1>5, <1>6 DEF Inv

LEMMA InvStep == Inv /\ [Next]_vars => Inv'
<1> SUFFICES ASSUME Inv, [Next]_vars PROVE Inv' OBVIOUS
<1>1. CASE Next
  <2>1. PICK c \in Threads : Acts(c)
    BY <1>1, NextActs
  <2> QED BY <2>1, TypeStep, WalkStep, ClaimsStep, DoorsStep DEF Inv
<1>2. CASE UNCHANGED vars
  <2> USE <1>2 DEF vars, lockVars, sizeVars, adjustVars, callVars, jobVars
  <2>1. TypeOK'
    BY DEF Inv, TypeOK
  <2>2. \A c \in Threads : WalkOf(c)' /\ JobsOf(c)'
    BY UnmovedWalk DEF Inv, Walk, Unmoved
  <2>3. Claims' /\ Doors'
    BY DEF Inv, Claims, Doors, InExec
  <2> QED BY <2>1, <2>2, <2>3 DEF Inv, Walk
<1> QED BY <1>1, <1>2

LEMMA InvCorrect == Spec => []Inv
BY InvInit, InvStep, PTL DEF Spec

\* Every variable of blas_server_omp.c keeps its type: in particular no index
\* into the tables of buffers leaves them, however many jobs, threads and
\* settings there are.
THEOREM TypeCorrect == Spec => []TypeOK
<1>1. Inv => TypeOK
  BY DEF Inv
<1> QED BY <1>1, InvCorrect, PTL

\* A set that is in use by nobody but level-3 calls leaves one for each of
\* them that waits: there would be more of them inside than the lock lets in.
LEMMA SetsSufficeStatic == Inv => SetsSuffice
<1> SUFFICES ASSUME Inv,
                    NEW c \in Threads, at[c] = "claim", mine[c] # None,
                    \A s \in Sets : inuse[s],
                    \A d \in Threads : at[d] = "run" => mine[d] # None
             PROVE  FALSE
  BY DEF SetsSuffice
<1> DEFINE others == inside \ {c}
           user == [s \in Sets |-> CHOOSE d \in Threads : at[d] = "run" /\ set[d] = s]
<1>1. \A s \in Sets : user[s] \in Threads /\ at[user[s]] = "run" /\ set[user[s]] = s
  BY DEF Inv, Claims
<1>2. user \in [Sets -> others]
  BY <1>1 DEF Inv, Doors, InExec
<1>3. c \in inside
  BY DEF Inv, Doors, InExec
<1>4. IsFiniteSet(others) /\ Cardinality(others) = Cardinality(inside) - 1
  BY <1>3, FS_RemoveElement DEF Inv, Doors
<1>5. IsFiniteSet(Sets) /\ Cardinality(Sets) = MaxSections
  BY FS_Interval DEF Sets
<1>6. Cardinality(others) < Cardinality(Sets)
  BY <1>4, <1>5, FS_CardinalityType DEF Inv, Doors, TypeOK
<1> HIDE DEF user, others
<1>7. PICK s \in Sets, t \in Sets : s # t /\ user[s] = user[t]
  BY <1>2, <1>4, <1>5, <1>6, FS_PigeonHole
<1> QED BY <1>1, <1>7

\* A level-3 call waits for a set of buffers only while a routine that does
\* not take the lock has one (blas_level3_thread_enter before exec_blas).
THEOREM SetsSufficeCorrect == Spec => []SetsSuffice
BY InvCorrect, SetsSufficeStatic, PTL

-----------------------------------------------------------------------------
(* exec_blas implements ForkJoin.                                          *)

LEMMA FJInit == Init => FJ!Init
<1> SUFFICES ASSUME Init PROVE FJ!Init OBVIOUS
<1>1. [c \in Threads |-> InExec(c)] = [c \in Threads |-> FALSE]
  BY DEF Init, InExec, Adjusts
<1>2. job = [c \in Threads |-> FJ!NoJobs]
  BY DEF Init, FJ!NoJobs, FJ!Indices, NoJobs, Slots
<1> QED BY <1>1, <1>2 DEF FJ!Init

\* What ForkJoin sees of a step.
Stutter == UNCHANGED job /\ \A c \in Threads : InExec(c)' = InExec(c)

LEMMA FJStutter == ASSUME Stutter PROVE UNCHANGED FJ!vars
BY DEF Stutter, FJ!vars

\* One caller enters exec_blas or leaves it.
LEMMA OneCaller ==
    ASSUME NEW c \in Threads, NEW value \in BOOLEAN, InExec(c)' = value,
           \A d \in Threads : d # c => InExec(d)' = InExec(d)
    PROVE  [d \in Threads |-> InExec(d)]' = [[d \in Threads |-> InExec(d)] EXCEPT ![c] = value]
<1> DEFINE f == [d \in Threads |-> InExec(d)]
           g == [d \in Threads |-> InExec(d)']
<1>1. f = [d \in Threads |-> f[d]] /\ g = [d \in Threads |-> g[d]]
  OBVIOUS
<1>2. g[c] = value
  OBVIOUS
<1>3. \A d \in Threads : d # c => g[d] = f[d]
  OBVIOUS
<1> HIDE DEF f, g
<1>4. g = [f EXCEPT ![c] = value]
  BY <1>1, <1>2, <1>3
<1> QED BY <1>4 DEF f, g

LEMMA FJStep ==
    ASSUME Inv, NEW c \in Threads, Acts(c)
    PROVE  [FJ!Next]_(FJ!vars)
<1> USE DEF Goes, Adjusts, adjustVars, callVars, jobVars
<1>0. TypeOK /\ WalkOf(c) /\ JobsOf(c)
  BY DEF Inv, Walk
<1>1. \A d \in Threads : d # c => InExec(d)' = InExec(d)
  BY <1>0, OthersUnmoved DEF Unmoved, InExec
<1>2. CASE ExecBlas(c)
  <2>1. /\ at[c] = "exec"
        /\ at'[c] = "claim" \/ (at'[c] = "grow" /\ back'[c] = "claim")
    BY <1>0, <1>2 DEF ExecBlas, StartAdjust, TypeOK
  <2>2. num[c] \in 1 .. MaxThreads
    BY <1>0, <2>1 DEF WalkOf
  <2>3. job' = [job EXCEPT ![c] = [k \in Slots |-> IF k < num[c] THEN "todo" ELSE "none"]]
    BY <1>2 DEF ExecBlas
  <2>4. InExec(c) = FALSE /\ InExec(c)' = TRUE
    BY <2>1 DEF InExec
  <2>5. [d \in Threads |-> InExec(d)]' = [[d \in Threads |-> InExec(d)] EXCEPT ![c] = TRUE]
    BY <1>1, <2>4, OneCaller
  <2>6. FJ!Enter(c)
    BY <2>2, <2>3, <2>4, <2>5 DEF FJ!Enter, FJ!Indices, Slots
  <2> QED BY <2>6 DEF FJ!Next
<1>3. CASE Release(c)
  <2>1. /\ at[c] = "run" /\ at'[c] \in {"left", "out"}
        /\ \A k \in Slots : job[c][k] \in {"none", "done"}
        /\ job' = [job EXCEPT ![c] = NoJobs]
    BY <1>0, <1>3 DEF Release, TypeOK
  <2>2. InExec(c) = TRUE /\ InExec(c)' = FALSE
    BY <2>1 DEF InExec
  <2>3. [d \in Threads |-> InExec(d)]' = [[d \in Threads |-> InExec(d)] EXCEPT ![c] = FALSE]
    BY <1>1, <2>2, OneCaller
  <2>4. FJ!Return(c)
    BY <2>1, <2>2, <2>3 DEF FJ!Return, FJ!Indices, FJ!NoJobs, Slots, NoJobs
  <2> QED BY <2>4 DEF FJ!Next
<1>4. ASSUME NEW k \in Slots, Runs(c, k) PROVE [FJ!Next]_(FJ!vars)
  <2>1. \A d \in Threads : InExec(d)' = InExec(d)
    BY <1>4 DEF Runs, Start, Finish, InExec
  <2>2. FJ!Start(c, k) \/ FJ!Finish(c, k)
    BY <1>4, <2>1 DEF Runs, Start, Finish, FJ!Start, FJ!Finish
  <2> QED BY <2>2 DEF FJ!Next, FJ!Indices, Slots
<1>5. ASSUME UNCHANGED job, InExec(c)' = InExec(c) PROVE [FJ!Next]_(FJ!vars)
  BY <1>1, <1>5, FJStutter DEF Stutter
<1>6. ASSUME NEW own \in BOOLEAN, Begin(c, own) PROVE UNCHANGED job /\ InExec(c)' = InExec(c)
  <2>1. /\ at[c] = "out" /\ UNCHANGED job
        /\ at'[c] = "size" \/ (at'[c] = "grow" /\ back'[c] = "size")
    BY <1>0, <1>6 DEF Begin, GotoSetNumThreads, StartAdjust, TypeOK
  <2> QED BY <2>1 DEF InExec
<1>7. CASE Serial(c) \/ Size(c) \/ EnterLock(c) \/ Claim(c) \/ Return(c)
  <2>1. UNCHANGED job /\ InExec(c)' = InExec(c)
    BY <1>0, <1>7 DEF Serial, Size, EnterLock, Claim, Return, TypeOK, InExec
  <2> QED BY <1>5, <2>1
<1>8. CASE Adjust(c)
  <2>1. UNCHANGED job /\ InExec(c)' = InExec(c)
    <3>1. CASE Grow(c) \/ Put(c)
      BY <1>0, <3>1 DEF Grow, Put, TypeOK, InExec
    <3>2. CASE Trim(c) \/ Null(c) \/ NextSet(c) \/ Adjusted(c)
      BY <1>0, <3>2 DEF Trim, Null, NextSet, Adjusted, TypeOK, InExec
    <3> QED BY <1>8, <3>1, <3>2 DEF Adjust
  <2> QED BY <1>5, <2>1
<1>9. ASSUME NEW n \in Settings, Set(c, n) PROVE UNCHANGED job /\ InExec(c)' = InExec(c)
  BY <1>0, <1>9 DEF Set, GotoSetNumThreads, StartAdjust, TypeOK, InExec
<1>10. CASE Shutdown(c)
  BY <1>5, <1>10 DEF Shutdown, InExec
<1> QED BY <1>2, <1>3, <1>4, <1>5, <1>6, <1>7, <1>8, <1>9, <1>10 DEF Acts, Serve

\* exec_blas of the OpenMP server runs every job of a call exactly once and
\* returns after the last of them, however the number of threads changes.
THEOREM Implementation == Spec => RunsJobsOnce
<1>1. Inv /\ [Next]_vars => [FJ!Next]_(FJ!vars)
  <2> SUFFICES ASSUME Inv, [Next]_vars PROVE [FJ!Next]_(FJ!vars) OBVIOUS
  <2>1. CASE UNCHANGED vars
    <3>1. Stutter
      BY <2>1 DEF vars, adjustVars, callVars, jobVars, Stutter, InExec
    <3> QED BY <3>1, FJStutter
  <2> QED BY <2>1, NextActs, FJStep
<1> QED BY <1>1, FJInit, InvCorrect, PTL DEF Spec, RunsJobsOnce, FJ!Spec

-----------------------------------------------------------------------------
(* Who changes the number of threads, when nobody else is in the library.  *)

Changing(c) == at[c] \in Adjusts /\ back[c] # "claim"

Alone == \A c \in Threads : Changing(c) => OthersOut(c)

\* blas_cpu_number stays while somebody adjusts the buffers.
Column(c) ==
    /\ at[c] = "grow" => col[c] <= cpuNumber
    /\ at[c] = "put" => col[c] < cpuNumber
    /\ at[c] \in {"trim", "null"} => cpuNumber <= col[c]
    /\ at[c] = "null" => Changing(c) /\ Cell(c) # None

\* The cells beyond the count that who changes it has not come to yet.
Ahead(c, s, j) ==
    \/ row[c] < s
    \/ row[c] = s /\ (at[c] \in {"grow", "put"} \/ col[c] <= j)

Trimmed ==
    \A s \in Sets, j \in Slots :
        cpuNumber <= j /\ buffer[s][j] # None =>
            \E c \in Threads : Changing(c) /\ Ahead(c, s, j)

Order == Alone /\ (\A c \in Threads : Column(c)) /\ Trimmed

\* Who is inside and does not change the number of threads: nobody does.
LEMMA NoResize ==
    ASSUME Alone, NEW c \in Threads, at[c] # "out", ~Changing(c)
    PROVE  ~Resizing
BY DEF Alone, Resizing, Changing, OthersOut

LEMMA NoneBeyond ==
    ASSUME Trimmed, ~Resizing, NEW s \in Sets, NEW j \in Slots, cpuNumber <= j
    PROVE  buffer[s][j] = None
BY DEF Trimmed, Resizing, Changing

LEMMA ColumnUnmoved ==
    ASSUME NEW d \in Threads, Column(d), Unmoved(d), UNCHANGED cpuNumber,
           at[d] = "null" => UNCHANGED buffer
    PROVE  Column(d)'
<1>1. at[d] = "null" => Cell(d)' = Cell(d)
  BY DEF Unmoved, Cell
<1> QED BY <1>1 DEF Unmoved, Column, Changing

\* A step of a caller that does not adjust, while nobody changes the number.
LEMMA OrderQuiet ==
    ASSUME Inv, Order, NEW c \in Threads, Acts(c), ~Resizing,
           at[c] \notin Adjusts,
           at'[c] \notin Adjusts \/ (at'[c] = "grow" /\ back'[c] = "claim" /\ col'[c] = 0),
           UNCHANGED cpuNumber,
           \A s \in Sets, j \in Slots : buffer'[s][j] \in {buffer[s][j], None}
    PROVE  Order'
<1>0. cpuNumber \in Nat /\ TypeOK
  BY DEF Inv, TypeOK
<1>1. \A d \in Threads : d # c => Unmoved(d) /\ at[d] # "null"
  BY <1>0, OthersUnmoved DEF Order, Column, Changing, Resizing
<1>2. \A d \in Threads : ~Changing(d)'
  BY <1>1 DEF Changing, Resizing, Adjusts, Unmoved
<1>3. \A d \in Threads : Column(d)'
  <2>1. Column(c)'
    BY <1>0, <1>2 DEF Column, Adjusts
  <2>2. \A d \in Threads : d # c => Column(d)'
    BY <1>1, ColumnUnmoved DEF Order
  <2> QED BY <2>1, <2>2
<1>4. Trimmed'
  BY NoneBeyond DEF Order, Trimmed
<1> QED BY <1>2, <1>3, <1>4 DEF Order, Alone

\* The step that changes the number.
LEMMA OrderGoto ==
    ASSUME Careful, Inv, Order, NEW c \in Threads, Acts(c),
           NEW n \in Nat, NEW label \in {"out", "size"}, GotoSetNumThreads(c, n, label),
           UNCHANGED buffer
    PROVE  Order'
<1>0. TypeOK /\ cpuNumber' \in 1 .. MaxThreads /\ UNCHANGED new
  BY GotoType DEF Inv
<1>1. \A d \in Threads : d # c => at'[d] = "out"
  BY <1>0, OthersUnmoved DEF GotoSetNumThreads, OthersOut, Unmoved
<1>2. at'[c] = "grow" /\ back'[c] = label /\ row'[c] = 0 /\ col'[c] = 0
  BY <1>0 DEF GotoSetNumThreads, StartAdjust, Goes, TypeOK
<1>3. Alone'
  BY <1>1 DEF Alone, Changing, OthersOut, Adjusts
<1>4. \A d \in Threads : Column(d)'
  BY <1>0, <1>1, <1>2 DEF Column
<1>5. \A s \in Sets, j \in Slots : (Changing(c) /\ Ahead(c, s, j))'
  BY <1>2 DEF Changing, Ahead, Adjusts, Sets
<1>6. Trimmed'
  BY <1>5 DEF Trimmed
<1> QED BY <1>3, <1>4, <1>6 DEF Order

\* A step of adjust_thread_buffers.
LEMMA OrderAdjust ==
    ASSUME Inv, Order, NEW c \in Threads, Acts(c), Adjust(c)
    PROVE  Order'
<1> USE DEF Goes, Adjusts, sizeVars
<1>0. TypeOK /\ WalkOf(c) /\ Column(c) /\ cpuNumber \in 1 .. MaxThreads
  BY DEF Inv, Walk, TypeOK, Order
<1>1. at[c] \in Adjusts /\ UNCHANGED cpuNumber
  BY DEF Adjust, Grow, Put, Trim, Null, NextSet, Adjusted
<1>2. /\ \A d \in Threads : d # c => Unmoved(d)
      /\ \A d \in Threads : d # c => at[d] # "null"
  <2>1. \A d \in Threads : d # c => Unmoved(d)
    BY <1>0, OthersUnmoved
  <2>2. ASSUME NEW d \in Threads, d # c PROVE at[d] # "null"
    BY <1>1, <2>2 DEF Order, Alone, Column, OthersOut
  <2> QED BY <2>1, <2>2
<1>3. \A d \in Threads : d # c => Column(d)'
  BY <1>1, <1>2, ColumnUnmoved DEF Order
<1>4. /\ (at'[c] \in Adjusts /\ back'[c] = back[c]) \/ at'[c] \notin Adjusts
  <2>1. CASE Grow(c) \/ Put(c)
    BY <1>0, <2>1 DEF Grow, Put, TypeOK
  <2>2. CASE Trim(c) \/ Null(c) \/ NextSet(c) \/ Adjusted(c)
    BY <1>0, <2>2 DEF Trim, Null, NextSet, Adjusted, TypeOK
  <2> QED BY <2>1, <2>2 DEF Adjust
<1>5. Alone'
  <2>1. \A d \in Threads : Changing(d)' => Changing(d)
    BY <1>1, <1>2, <1>4 DEF Changing, Unmoved
  <2>2. \A d \in Threads : d # c => ~Changing(d)
    BY <1>1 DEF Order, Alone, OthersOut
  <2> QED BY <1>2, <2>1, <2>2 DEF Order, Alone, OthersOut, Unmoved
<1>6. CASE Grow(c)
  <2>1. /\ at[c] = "grow" /\ UNCHANGED <<buffer, row>>
        /\ \/ at'[c] = "trim" /\ col'[c] = col[c] /\ cpuNumber <= col[c]
           \/ at'[c] = "grow" /\ col'[c] = col[c] + 1 /\ col[c] < cpuNumber
           \/ at'[c] = "put" /\ col'[c] = col[c] /\ col[c] < cpuNumber
    BY <1>0, <1>6 DEF Grow, NextCell, TypeOK
  <2>2. Column(c)'
    BY <1>0, <1>1, <2>1 DEF Column, TypeOK
  <2>3. \A s \in Sets, j \in Slots : cpuNumber <= j /\ Ahead(c, s, j) => Ahead(c, s, j)'
    BY <1>0, <2>1 DEF Ahead, Column, TypeOK, Slots
  <2>4. \A d \in Threads, s \in Sets, j \in Slots :
            d # c /\ Changing(d) /\ Ahead(d, s, j) => (Changing(d) /\ Ahead(d, s, j))'
    BY <1>2 DEF Changing, Ahead, Unmoved
  <2>5. Changing(c) => Changing(c)'
    BY <1>4, <2>1 DEF Changing
  <2>6. Trimmed'
    BY <1>1, <2>1, <2>3, <2>4, <2>5 DEF Order, Trimmed
  <2> QED BY <1>3, <1>5, <2>2, <2>6 DEF Order
<1>7. CASE Put(c)
  <2>1. /\ at[c] = "put" /\ at'[c] = "grow" /\ UNCHANGED row /\ col'[c] = col[c] + 1
        /\ col[c] < cpuNumber
    BY <1>0, <1>7 DEF Put, NextCell, TypeOK, Column
  <2>2. Column(c)'
    BY <1>0, <1>1, <2>1 DEF Column, TypeOK
  <2>3. CellStored(c, new[c])
    BY <1>0, <1>7, <2>1, StoreType DEF Put, TypeOK
  <2>4. \A s \in Sets, j \in Slots : cpuNumber <= j => buffer'[s][j] = buffer[s][j]
    BY <1>0, <2>1, <2>3 DEF CellStored, TypeOK, Slots
  <2>5. \A s \in Sets, j \in Slots : Ahead(c, s, j) => Ahead(c, s, j)'
    BY <2>1 DEF Ahead
  <2>6. \A d \in Threads, s \in Sets, j \in Slots :
            d # c /\ Changing(d) /\ Ahead(d, s, j) => (Changing(d) /\ Ahead(d, s, j))'
    BY <1>2 DEF Changing, Ahead, Unmoved
  <2>7. Changing(c) => Changing(c)'
    BY <1>4, <2>1 DEF Changing
  <2>8. Trimmed'
    BY <1>1, <2>4, <2>5, <2>6, <2>7 DEF Order, Trimmed
  <2> QED BY <1>3, <1>5, <2>2, <2>8 DEF Order
<1>8. CASE Trim(c)
  <2>0. at[c] = "trim" /\ col[c] < MaxThreads /\ row[c] \in Sets /\ col[c] \in Slots
    BY <1>0, <1>8 DEF Trim, TypeOK, Slots
  <2>1. /\ UNCHANGED <<buffer, row, back>>
        /\ \/ at'[c] = "trim" /\ col'[c] = col[c] + 1 /\ Cell(c) = None
           \/ at'[c] = "null" /\ col'[c] = col[c] /\ Cell(c) # None
    BY <1>0, <1>8 DEF Trim, NextCell, TypeOK
  <2>2. Cell(c) # None => Changing(c)
    <3>1. CASE Resizing
      BY <1>1, <3>1 DEF Order, Alone, Resizing, Changing, OthersOut
    <3>2. CASE ~Resizing
      BY <1>0, <2>0, <3>2, NoneBeyond DEF Order, Cell, Column
    <3> QED BY <3>1, <3>2
  <2>3. Column(c)'
    <3>1. at'[c] = "null" => Cell(c)' = Cell(c)
      BY <2>1 DEF Cell
    <3> QED BY <1>0, <1>1, <2>0, <2>1, <2>2, <3>1 DEF Column, TypeOK, Changing
  <2>4. \A s \in Sets, j \in Slots :
           buffer[s][j] # None /\ Ahead(c, s, j) => Ahead(c, s, j)'
    BY <1>0, <2>0, <2>1 DEF Ahead, Cell, TypeOK, Slots
  <2>5. \A d \in Threads, s \in Sets, j \in Slots :
            d # c /\ Changing(d) /\ Ahead(d, s, j) => (Changing(d) /\ Ahead(d, s, j))'
    BY <1>2 DEF Changing, Ahead, Unmoved
  <2>6. Changing(c) => Changing(c)'
    BY <2>1 DEF Changing
  <2>7. Trimmed'
    BY <1>1, <2>1, <2>4, <2>5, <2>6 DEF Order, Trimmed
  <2> QED BY <1>3, <1>5, <2>3, <2>7 DEF Order
<1>9. CASE Null(c)
  <2>1. /\ at[c] = "null" /\ at'[c] = "trim" /\ UNCHANGED <<row, back>> /\ col'[c] = col[c] + 1
        /\ cpuNumber <= col[c]
    BY <1>0, <1>9 DEF Null, NextCell, TypeOK, Column
  <2>2. Column(c)'
    BY <1>0, <1>1, <2>1 DEF Column, TypeOK
  <2>3. CellStored(c, None)
    BY <1>0, <1>9, <2>1, StoreType DEF Null
  <2>4. \A s \in Sets, j \in Slots :
           buffer'[s][j] # None /\ Ahead(c, s, j) => Ahead(c, s, j)'
    BY <1>0, <2>1, <2>3 DEF Ahead, CellStored, TypeOK, Slots
  <2>5. \A d \in Threads, s \in Sets, j \in Slots :
            d # c /\ Changing(d) /\ Ahead(d, s, j) => (Changing(d) /\ Ahead(d, s, j))'
    BY <1>2 DEF Changing, Ahead, Unmoved
  <2>6. Changing(c) => Changing(c)'
    BY <2>1 DEF Changing
  <2>7. \A s \in Sets, j \in Slots : buffer'[s][j] \in {buffer[s][j], None}
    BY <2>3 DEF CellStored
  <2>8. Trimmed'
    BY <1>1, <2>4, <2>5, <2>6, <2>7 DEF Order, Trimmed
  <2> QED BY <1>3, <1>5, <2>2, <2>8 DEF Order
<1>10. CASE NextSet(c)
  <2>1. /\ at[c] = "trim" /\ at'[c] = "grow" /\ UNCHANGED <<buffer, back>>
        /\ col[c] = MaxThreads /\ col'[c] = 0 /\ row'[c] = row[c] + 1
    BY <1>0, <1>10 DEF NextSet, TypeOK
  <2>2. Column(c)'
    BY <1>0, <1>1, <2>1 DEF Column
  <2>3. \A s \in Sets, j \in Slots : Ahead(c, s, j) => Ahead(c, s, j)'
    BY <1>0, <2>1 DEF Ahead, TypeOK, Slots, Sets
  <2>4. \A d \in Threads, s \in Sets, j \in Slots :
            d # c /\ Changing(d) /\ Ahead(d, s, j) => (Changing(d) /\ Ahead(d, s, j))'
    BY <1>2 DEF Changing, Ahead, Unmoved
  <2>5. Changing(c) => Changing(c)'
    BY <2>1 DEF Changing
  <2>6. Trimmed'
    BY <1>1, <2>1, <2>3, <2>4, <2>5 DEF Order, Trimmed
  <2> QED BY <1>3, <1>5, <2>2, <2>6 DEF Order
<1>11. CASE Adjusted(c)
  <2>1. /\ at[c] = "trim" /\ at'[c] \notin Adjusts /\ UNCHANGED buffer
        /\ col[c] = MaxThreads /\ row[c] = MaxSections - 1
    BY <1>0, <1>11 DEF Adjusted, TypeOK
  <2>2. Column(c)'
    BY <2>1 DEF Column
  <2>3. \A s \in Sets, j \in Slots : ~Ahead(c, s, j)
    BY <1>0, <2>1 DEF Ahead, TypeOK, Slots, Sets
  <2>4. \A d \in Threads, s \in Sets, j \in Slots :
            d # c /\ Changing(d) /\ Ahead(d, s, j) => (Changing(d) /\ Ahead(d, s, j))'
    BY <1>2 DEF Changing, Ahead, Unmoved
  <2>5. Trimmed'
    BY <1>1, <2>1, <2>3, <2>4 DEF Order, Trimmed
  <2> QED BY <1>3, <1>5, <2>2, <2>5 DEF Order
<1> QED BY <1>6, <1>7, <1>8, <1>9, <1>10, <1>11 DEF Adjust

LEMMA OrderStep ==
    ASSUME Careful, Inv, Order, NEW c \in Threads, Acts(c)
    PROVE  Order'
<1> USE DEF Goes, Adjusts, sizeVars, adjustVars
<1>0. TypeOK /\ WalkOf(c)
  BY DEF Inv, Walk
<1>1. ASSUME NEW own \in BOOLEAN, Begin(c, own) PROVE Order'
  <2>1. CASE explicit \/ NumThreads(c) = cpuNumber
    <3>1. at[c] = "out" /\ at'[c] = "size" /\ ~Resizing /\ UNCHANGED <<cpuNumber, buffer>>
      BY <1>0, <1>1, <2>1 DEF Begin, TypeOK
    <3> QED BY <3>1, OrderQuiet
  <2>2. CASE ~(explicit \/ NumThreads(c) = cpuNumber)
    <3>1. GotoSetNumThreads(c, NumThreads(c), "size") /\ UNCHANGED buffer
      BY <1>1, <2>2 DEF Begin
    <3>2. NumThreads(c) \in Nat
      BY <1>0, NumThreadsRange
    <3> QED BY <3>1, <3>2, OrderGoto
  <2> QED BY <2>1, <2>2
<1>2. CASE Serial(c) \/ Size(c) \/ EnterLock(c) \/ Claim(c) \/ Release(c) \/ Return(c)
  <2>1. /\ at[c] \in {"size", "door", "claim", "run", "left"}
        /\ at'[c] \notin Adjusts /\ UNCHANGED <<cpuNumber, buffer>>
    BY <1>0, <1>2 DEF Serial, Size, EnterLock, Claim, Release, Return, TypeOK
  <2>2. ~Resizing
    BY <2>1, NoResize DEF Order, Changing
  <2> QED BY <2>1, <2>2, OrderQuiet
<1>3. CASE ExecBlas(c)
  <2>1. /\ at[c] = "exec" /\ UNCHANGED <<cpuNumber, buffer>>
        /\ at'[c] = "claim" \/ (at'[c] = "grow" /\ back'[c] = "claim" /\ col'[c] = 0)
    BY <1>0, <1>3 DEF ExecBlas, StartAdjust, TypeOK
  <2>2. ~Resizing
    BY <2>1, NoResize DEF Order, Changing
  <2> QED BY <2>1, <2>2, OrderQuiet
<1>4. CASE Adjust(c)
  BY <1>4, OrderAdjust
<1>5. ASSUME NEW k \in Slots, Runs(c, k) PROVE Order'
  <2>1. at[c] = "run" /\ at'[c] = "run" /\ UNCHANGED <<cpuNumber, buffer>>
    <3>1. CASE Start(c, k)
      BY <3>1 DEF Start
    <3>2. CASE Finish(c, k)
      BY <3>2 DEF Finish, Inv, Walk, JobsOf
    <3> QED BY <1>5, <3>1, <3>2 DEF Runs
  <2>2. ~Resizing
    BY <2>1, NoResize DEF Order, Changing
  <2> QED BY <2>1, <2>2, OrderQuiet
<1>6. ASSUME NEW n \in Settings, Set(c, n) PROVE Order'
  <2>1. GotoSetNumThreads(c, n, "out") /\ UNCHANGED buffer /\ n \in Nat
    BY <1>6 DEF Set
  <2> QED BY <2>1, OrderGoto
<1>7. CASE Shutdown(c)
  <2>1. ~Resizing /\ at[c] = "out" /\ UNCHANGED <<at, cpuNumber>>
    BY <1>7 DEF Shutdown, Out, Resizing
  <2>2. \A s \in Sets, j \in Slots : buffer'[s][j] = None
    BY <1>7 DEF Shutdown, NoBuffers
  <2> QED BY <2>1, <2>2, OrderQuiet
<1> QED BY <1>1, <1>2, <1>3, <1>4, <1>5, <1>6, <1>7 DEF Acts, Serve

-----------------------------------------------------------------------------
(* Who has which buffer.                                                   *)

\* Whatever somebody has was given out, but for the buffer being freed.
Freed(s, j) == \E c \in Threads : at[c] = "null" /\ row[c] = s /\ col[c] = j

Given ==
    /\ \A s \in Sets, j \in Slots : buffer[s][j] \in taken \cup {None} \/ Freed(s, j)
    /\ \A c \in Threads : new[c] \in taken \cup {None} /\ mine[c] \in taken \cup {None}
    /\ \A c \in Threads, k \in Slots : using[c][k] \in taken \cup {None}

CellsDiffer ==
    \A s, t \in Sets, j, l \in Slots :
        buffer[s][j] # None /\ buffer[s][j] = buffer[t][l] => s = t /\ j = l

\* The buffers of callers are in no cell, and differ.
OwnDiffer ==
    \A c \in Threads :
        /\ \A s \in Sets, j \in Slots :
              buffer[s][j] # None => buffer[s][j] # new[c] /\ buffer[s][j] # mine[c]
        /\ \A d \in Threads :
              /\ new[c] # None => new[c] # mine[d]
              /\ new[c] # None /\ new[c] = new[d] => c = d
              /\ mine[c] # None /\ mine[c] = mine[d] => c = d

\* A buffer a job works in is that of its caller, or that of its thread in the
\* set of the call, or nobody else's.
UseOf(c, k) ==
    /\ using[c][k] # None <=> job[c][k] = "running"
    /\ <<c, k>> \in fallback => using[c][k] # None
    /\ using[c][k] # None =>
          /\ \A d \in Threads : using[c][k] # new[d]
          /\ \A d \in Threads : using[c][k] = mine[d] => c = d /\ k = 0 /\ <<c, k>> \notin fallback
          /\ \A s \in Sets, j \in Slots :
                using[c][k] = buffer[s][j] =>
                    s = set[c] /\ j = Runner(c, k) /\ <<c, k>> \notin fallback

Uses == \A c \in Threads, k \in Slots : UseOf(c, k)

Owners == Given /\ CellsDiffer /\ OwnDiffer /\ Uses /\ NoSharedBuffer

\* A region that is free belongs to nobody.
Fresh(r) ==
    /\ r # None
    /\ \A s \in Sets, j \in Slots : buffer[s][j] # r
    /\ \A c \in Threads : new[c] # r /\ mine[c] # r
    /\ \A c \in Threads, k \in Slots : using[c][k] # r

LEMMA FreeIsFresh ==
    ASSUME Given, ~Resizing, \A c \in Threads : Column(c), NEW r \in Regions, r \notin taken
    PROVE  Fresh(r)
<1>1. \A s \in Sets, j \in Slots : ~Freed(s, j)
  BY DEF Freed, Column, Changing, Resizing
<1>2. r # None
  BY DEF None
<1> QED BY <1>1, <1>2 DEF Given, Fresh

\* Jobs run in the region only.
LEMMA UseInRun ==
    ASSUME Inv, Uses, NEW c \in Threads, NEW k \in Slots, using[c][k] # None
    PROVE  at[c] = "run" /\ job[c][k] = "running"
BY DEF Inv, Walk, JobsOf, Uses, UseOf

\* Steps that leave the buffers where they are.
LEMMA OwnersKept ==
    ASSUME Owners, UNCHANGED <<buffer, taken, new, mine, using, fallback>>,
           \A d \in Threads, k \in Slots : job'[d][k] = "running" <=> job[d][k] = "running",
           \A d \in Threads, k \in Slots :
               using[d][k] # None => set'[d] = set[d] /\ Runner(d, k)' = Runner(d, k),
           \A s \in Sets, j \in Slots : Freed(s, j) => Freed(s, j)'
    PROVE  Owners'
<1>1. Given'
  BY DEF Owners, Given
<1>2. CellsDiffer' /\ OwnDiffer' /\ NoSharedBuffer'
  BY DEF Owners, CellsDiffer, OwnDiffer, NoSharedBuffer
<1>3. ASSUME NEW d \in Threads, NEW k \in Slots PROVE UseOf(d, k)'
  <2>1. UseOf(d, k) /\ using'[d][k] = using[d][k]
    BY DEF Owners, Uses
  <2>2. using'[d][k] # None <=> job'[d][k] = "running"
    BY <2>1 DEF UseOf
  <2>3. CASE using[d][k] = None
    BY <2>1, <2>2, <2>3 DEF UseOf
  <2>4. CASE using[d][k] # None
    <3>1. set'[d] = set[d] /\ Runner(d, k)' = Runner(d, k)
      BY <2>4
    <3> QED BY <2>1, <2>2, <3>1 DEF UseOf
  <2> QED BY <2>3, <2>4
<1> QED BY <1>1, <1>2, <1>3 DEF Owners, Uses

\* Regions are freed that nobody has any more.
LEMMA OwnersDrop ==
    ASSUME Owners, UNCHANGED <<job, fallback, set, num>>,
           \A s \in Sets, j \in Slots : buffer'[s][j] \in {buffer[s][j], None},
           \A d \in Threads : new'[d] = new[d] /\ mine'[d] \in {mine[d], None},
           UNCHANGED using,
           \A s \in Sets, j \in Slots : buffer'[s][j] \in taken' \cup {None} \/ Freed(s, j)',
           \A d \in Threads : new[d] \in taken' \cup {None} /\ mine'[d] \in taken' \cup {None},
           \A d \in Threads, k \in Slots : using[d][k] \in taken' \cup {None}
    PROVE  Owners'
<1>1. Given'
  BY DEF Given
<1>2. CellsDiffer'
  BY DEF Owners, CellsDiffer
<1>3. OwnDiffer'
  BY DEF Owners, OwnDiffer
<1>4. NoSharedBuffer'
  BY DEF Owners, NoSharedBuffer
<1>5. ASSUME NEW d \in Threads, NEW k \in Slots PROVE UseOf(d, k)'
  <2>1. Runner(d, k)' = Runner(d, k)
    BY DEF Runner
  <2> QED BY <2>1 DEF Owners, Uses, UseOf
<1> QED BY <1>1, <1>2, <1>3, <1>4, <1>5 DEF Owners, Uses

LEMMA FreedUnmoved ==
    ASSUME TypeOK, NEW c \in Threads, Acts(c), at[c] # "null"
    PROVE  \A s \in Sets, j \in Slots : Freed(s, j) => Freed(s, j)'
<1>1. \A d \in Threads : d # c => Unmoved(d)
  BY OthersUnmoved
<1> QED BY <1>1 DEF Freed, Unmoved

LEMMA OwnersBegin ==
    ASSUME Careful, Inv, Order, Owners, NEW c \in Threads, NEW own \in BOOLEAN, Begin(c, own)
    PROVE  Owners'
<1> USE DEF Goes, jobVars
<1>0. TypeOK /\ WalkOf(c) /\ JobsOf(c) /\ Acts(c)
  BY DEF Inv, Walk, Acts
<1>1. /\ at[c] = "out" /\ ~Resizing /\ UNCHANGED <<buffer, new, num, set, job, using, fallback>>
      /\ mine[c] = None
  BY <1>0 DEF Begin, GotoSetNumThreads, StartAdjust, adjustVars, WalkOf
<1>2. \A s \in Sets, j \in Slots : Freed(s, j) => Freed(s, j)'
  BY <1>0, <1>1, FreedUnmoved
<1>3. CASE ~own
  <2>1. UNCHANGED <<mine, taken>>
    BY <1>3 DEF Begin
  <2>2. \A d \in Threads, k \in Slots : Runner(d, k)' = Runner(d, k)
    BY <1>1 DEF Runner
  <2> QED BY <1>1, <1>2, <2>1, <2>2, OwnersKept
<1>4. CASE own
  <2>1. PICK r \in Regions : /\ r \notin taken
                             /\ mine' = [mine EXCEPT ![c] = r]
                             /\ taken' = taken \cup {r}
    BY <1>4 DEF Begin, FirstFree
  <2>2. Fresh(r)
    BY <1>1, <2>1, FreeIsFresh DEF Owners, Order
  <2>3. mine'[c] = r /\ \A d \in Threads : d # c => mine'[d] = mine[d]
    BY <1>0, <2>1 DEF TypeOK
  <2>4. Given'
    BY <1>1, <1>2, <2>1, <2>3 DEF Owners, Given
  <2>5. CellsDiffer' /\ NoSharedBuffer'
    BY <1>1 DEF Owners, CellsDiffer, NoSharedBuffer
  <2>6. OwnDiffer'
    BY <1>1, <2>2, <2>3 DEF Owners, OwnDiffer, Fresh
  <2>7. ASSUME NEW d \in Threads, NEW k \in Slots PROVE UseOf(d, k)'
    <3>1. Runner(d, k)' = Runner(d, k)
      BY <1>1 DEF Runner
    <3>2. UseOf(d, k) /\ using[d][k] # r
      BY <2>2 DEF Owners, Uses, Fresh
    <3> QED BY <1>1, <2>3, <3>1, <3>2 DEF UseOf
  <2> QED BY <2>4, <2>5, <2>6, <2>7 DEF Owners, Uses
<1> QED BY <1>3, <1>4

\* Steps of a caller that has no job running, and that frees no buffer of a set.
LEMMA OwnersQuiet ==
    ASSUME Inv, Owners, NEW c \in Threads, Acts(c), at[c] \notin {"run", "null"},
           UNCHANGED <<buffer, taken, new, mine, using, fallback>>,
           \A k \in Slots : job'[c][k] # "running"
    PROVE  Owners'
<1>0. TypeOK
  BY DEF Inv
<1>1. \A k \in Slots : job[c][k] # "running" /\ using[c][k] = None
  BY UseInRun DEF Owners, Inv, Walk, JobsOf
<1>2. \A d \in Threads : d # c => Unmoved(d)
  BY <1>0, OthersUnmoved
<1>3. \A d \in Threads, k \in Slots : job'[d][k] = "running" <=> job[d][k] = "running"
  BY <1>1, <1>2 DEF Unmoved
<1>4. \A d \in Threads, k \in Slots :
          using[d][k] # None => set'[d] = set[d] /\ Runner(d, k)' = Runner(d, k)
  BY <1>1, <1>2 DEF Unmoved, Runner
<1>5. \A s \in Sets, j \in Slots : Freed(s, j) => Freed(s, j)'
  BY <1>0, FreedUnmoved
<1> QED BY <1>3, <1>4, <1>5, OwnersKept

\* A caller gives its own buffer back: none of its jobs runs.
LEMMA OwnersReturn ==
    ASSUME Inv, Owners, NEW c \in Threads, Serial(c) \/ Return(c)
    PROVE  Owners'
<1>0. TypeOK /\ Acts(c)
  BY DEF Inv, Acts, Serve
<1>1. /\ at[c] \in {"size", "left"}
      /\ taken' = taken \ {mine[c]}
      /\ mine'[c] = None /\ \A d \in Threads : d # c => mine'[d] = mine[d]
      /\ UNCHANGED <<buffer, new, num, set, job, using, fallback>>
  BY <1>0 DEF Serial, Return, TypeOK, adjustVars, jobVars
<1>2. \A s \in Sets, j \in Slots : Freed(s, j) => Freed(s, j)'
  BY <1>0, <1>1, FreedUnmoved
<1>3. \A s \in Sets, j \in Slots : buffer[s][j] \in taken' \cup {None} \/ Freed(s, j)'
  BY <1>1, <1>2 DEF Owners, Given, OwnDiffer
<1>4. \A d \in Threads : new[d] \in taken' \cup {None} /\ mine'[d] \in taken' \cup {None}
  BY <1>1 DEF Owners, Given, OwnDiffer
<1>5. ASSUME NEW d \in Threads, NEW k \in Slots PROVE using[d][k] \in taken' \cup {None}
  <2>1. UseOf(d, k) /\ (using[d][k] # None => at[d] = "run")
    BY UseInRun DEF Owners, Uses
  <2>2. using[d][k] # None => using[d][k] # mine[c]
    BY <1>1, <2>1 DEF UseOf
  <2> QED BY <1>1, <2>2 DEF Owners, Given
<1> QED BY <1>1, <1>3, <1>4, <1>5, OwnersDrop

\* A region that was free becomes that of an empty cell, on its way there.
LEMMA OwnersGrow ==
    ASSUME Careful, Inv, Order, Owners, NEW c \in Threads, Grow(c)
    PROVE  Owners'
<1>0. TypeOK /\ WalkOf(c) /\ Acts(c) /\ at[c] = "grow"
  BY DEF Inv, Walk, Acts, Serve, Adjust, Grow
<1>1. UNCHANGED <<buffer, mine, num, set, job, using, fallback>>
  BY DEF Grow, callVars, jobVars
<1>2. \A s \in Sets, j \in Slots : Freed(s, j) => Freed(s, j)'
  BY <1>0, FreedUnmoved
<1>3. \A d \in Threads, k \in Slots : Runner(d, k)' = Runner(d, k)
  BY <1>1 DEF Runner
<1>4. CASE UNCHANGED <<taken, new>>
  BY <1>1, <1>2, <1>3, <1>4, OwnersKept
<1>5. CASE ~UNCHANGED <<taken, new>>
  <2>1. PICK r \in Regions : /\ r \notin taken
                             /\ taken' = taken \cup {r}
                             /\ new' = [new EXCEPT ![c] = r]
    BY <1>5 DEF Grow, FirstFree
  <2>2. new[c] = None /\ new'[c] = r /\ \A d \in Threads : d # c => new'[d] = new[d]
    BY <1>0, <2>1 DEF TypeOK, WalkOf
  <2>3. \A d \in Threads : at[d] # "null"
    BY <1>0 DEF Order, Alone, Column, OthersOut
  <2>4. Fresh(r)
    BY <2>1, <2>3 DEF Owners, Given, Freed, Fresh, None
  <2>5. Given'
    BY <1>1, <1>2, <2>1, <2>2 DEF Owners, Given
  <2>6. CellsDiffer' /\ NoSharedBuffer'
    BY <1>1 DEF Owners, CellsDiffer, NoSharedBuffer
  <2>7. OwnDiffer'
    BY <1>1, <2>2, <2>4 DEF Owners, OwnDiffer, Fresh
  <2>8. ASSUME NEW d \in Threads, NEW k \in Slots PROVE UseOf(d, k)'
    <3>1. UseOf(d, k) /\ using[d][k] # r
      BY <2>4 DEF Owners, Uses, Fresh
    <3> QED BY <1>1, <1>3, <2>2, <3>1 DEF UseOf
  <2> QED BY <2>5, <2>6, <2>7, <2>8 DEF Owners, Uses
<1> QED BY <1>4, <1>5

\* Storing it makes it the buffer of that cell.
LEMMA OwnersPut ==
    ASSUME Careful, Inv, Order, Owners, NEW c \in Threads, Put(c)
    PROVE  Owners'
<1>0. TypeOK /\ WalkOf(c) /\ Acts(c) /\ at[c] = "put"
  BY DEF Inv, Walk, Acts, Serve, Adjust, Put
<1>1. UNCHANGED <<taken, mine, num, set, job, using, fallback>>
  BY DEF Put, callVars, jobVars
<1>2. row[c] \in Sets /\ col[c] \in Slots /\ new[c] # None
  BY <1>0 DEF TypeOK, WalkOf, Slots
<1>3. /\ buffer'[row[c]][col[c]] = new[c]
      /\ \A s \in Sets, j \in Slots :
            ~(s = row[c] /\ j = col[c]) => buffer'[s][j] = buffer[s][j]
  BY <1>0, <1>2 DEF Put, Store, TypeOK
<1>4. new'[c] = None /\ \A d \in Threads : d # c => new'[d] = new[d]
  BY <1>0 DEF Put, TypeOK
<1>5. \A s \in Sets, j \in Slots : Freed(s, j) => Freed(s, j)'
  BY <1>0, FreedUnmoved
<1>6. Given'
  BY <1>1, <1>2, <1>3, <1>4, <1>5 DEF Owners, Given
<1>7. CellsDiffer' /\ NoSharedBuffer'
  BY <1>1, <1>2, <1>3 DEF Owners, CellsDiffer, OwnDiffer, NoSharedBuffer
<1>8. OwnDiffer'
  BY <1>1, <1>2, <1>3, <1>4 DEF Owners, OwnDiffer
<1>9. ASSUME NEW d \in Threads, NEW k \in Slots PROVE UseOf(d, k)'
  <2>1. UseOf(d, k) /\ Runner(d, k)' = Runner(d, k)
    BY <1>1 DEF Owners, Uses, Runner
  <2>2. using[d][k] # None =>
          \A s \in Sets, j \in Slots :
              using[d][k] = buffer'[s][j] => using[d][k] = buffer[s][j]
    BY <1>3, <2>1 DEF UseOf
  <2> QED BY <1>1, <1>4, <2>1, <2>2 DEF UseOf
<1> QED BY <1>6, <1>7, <1>8, <1>9 DEF Owners, Uses

\* While somebody changes the number of threads no job runs and nobody else
\* has a buffer.
LEMMA NobodyElse ==
    ASSUME Inv, Order, Owners, NEW c \in Threads, Changing(c)
    PROVE  /\ \A d \in Threads : d # c => new[d] = None /\ mine[d] = None
           /\ \A d \in Threads, k \in Slots : using[d][k] = None
<1>1. \A d \in Threads : d # c => at[d] = "out"
  BY DEF Order, Alone, OthersOut
<1>2. \A d \in Threads : WalkOf(d) /\ new[d] \in Regions \cup {None}
  BY DEF Inv, Walk, TypeOK
<1>3. \A d \in Threads : d # c => new[d] = None /\ mine[d] = None
  BY <1>1, <1>2 DEF WalkOf, None
<1>4. \A d \in Threads : at[d] # "run"
  BY <1>1 DEF Changing, Adjusts
<1>5. \A d \in Threads, k \in Slots : using[d][k] = None
  BY <1>4, UseInRun DEF Owners
<1> QED BY <1>3, <1>5

\* A buffer is freed while its cell still has it ...
LEMMA OwnersTrim ==
    ASSUME Careful, Inv, Order, Owners, NEW c \in Threads, Trim(c)
    PROVE  Owners'
<1>0. TypeOK /\ Acts(c) /\ at[c] = "trim" /\ row[c] \in Sets /\ col[c] \in Slots
  BY DEF Inv, Acts, Serve, Adjust, Trim, TypeOK, Slots
<1>1. UNCHANGED <<buffer, new, mine, num, set, job, using, fallback, row>>
  BY DEF Trim, callVars, jobVars
<1>2. \A s \in Sets, j \in Slots : Freed(s, j) => Freed(s, j)'
  BY <1>0, FreedUnmoved
<1>3. CASE Cell(c) = None
  <2>1. UNCHANGED taken
    BY <1>3 DEF Trim
  <2>2. \A d \in Threads, k \in Slots : Runner(d, k)' = Runner(d, k)
    BY <1>1 DEF Runner
  <2> QED BY <1>1, <1>2, <2>1, <2>2, OwnersKept
<1>4. CASE Cell(c) # None
  <2>1. taken' = taken \ {Cell(c)} /\ at'[c] = "null" /\ UNCHANGED col
    BY <1>0, <1>4 DEF Trim, Goes, TypeOK
  <2>2. Changing(c)
    <3>1. cpuNumber <= col[c]
      BY <1>0 DEF Order, Column
    <3>2. PICK d \in Threads : Changing(d)
      BY <1>0, <1>4, <3>1 DEF Order, Trimmed, Cell
    <3> QED BY <1>0, <3>2 DEF Order, Alone, OthersOut
  <2>3. \A s \in Sets, j \in Slots : buffer[s][j] \in taken' \cup {None} \/ Freed(s, j)'
    <3>1. ASSUME NEW s \in Sets, NEW j \in Slots
          PROVE  buffer[s][j] \in taken' \cup {None} \/ Freed(s, j)'
      <4>1. CASE buffer[s][j] = Cell(c)
        <5>1. s = row[c] /\ j = col[c]
          BY <1>0, <1>4, <4>1 DEF Owners, CellsDiffer, Cell
        <5> QED BY <1>1, <2>1, <5>1 DEF Freed
      <4>2. CASE buffer[s][j] # Cell(c)
        BY <1>2, <2>1, <4>2 DEF Owners, Given
      <4> QED BY <4>1, <4>2
    <3> QED BY <3>1
  <2>4. \A d \in Threads : new[d] # Cell(c) /\ mine[d] # Cell(c)
    BY <1>0, <1>4 DEF Owners, OwnDiffer, Cell
  <2>5. \A d \in Threads : new[d] \in taken' \cup {None} /\ mine'[d] \in taken' \cup {None}
    BY <1>1, <2>1, <2>4 DEF Owners, Given
  <2>6. \A d \in Threads, k \in Slots : using[d][k] \in taken' \cup {None}
    BY <2>2, NobodyElse
  <2> QED BY <1>1, <2>3, <2>5, <2>6, OwnersDrop
<1> QED BY <1>3, <1>4

\* ... and then its cell is emptied.
LEMMA OwnersNull ==
    ASSUME Careful, Inv, Order, Owners, NEW c \in Threads, Null(c)
    PROVE  Owners'
<1>0. TypeOK /\ WalkOf(c) /\ at[c] = "null" /\ Changing(c)
  BY DEF Inv, Walk, Null, Order, Column
<1>1. UNCHANGED <<taken, new, mine, num, set, job, using, fallback>>
  BY DEF Null, callVars, jobVars
<1>2. row[c] \in Sets /\ col[c] \in Slots
  BY <1>0 DEF TypeOK, WalkOf, Slots
<1>3. /\ buffer'[row[c]][col[c]] = None
      /\ \A s \in Sets, j \in Slots :
            ~(s = row[c] /\ j = col[c]) => buffer'[s][j] = buffer[s][j]
  BY <1>0, <1>2 DEF Null, Store, TypeOK
<1>4. \A s \in Sets, j \in Slots : Freed(s, j) => s = row[c] /\ j = col[c]
  BY <1>0 DEF Freed, Order, Alone, OthersOut
<1>5. \A s \in Sets, j \in Slots : buffer'[s][j] \in taken' \cup {None} \/ Freed(s, j)'
  BY <1>1, <1>3, <1>4 DEF Owners, Given
<1>6. \A s \in Sets, j \in Slots : buffer'[s][j] \in {buffer[s][j], None}
  BY <1>3
<1> QED BY <1>1, <1>5, <1>6, OwnersDrop DEF Owners, Given

\* blas_thread_shutdown, when nobody is inside.
LEMMA OwnersShutdown ==
    ASSUME Inv, Owners, NEW c \in Threads, Shutdown(c)
    PROVE  Owners'
<1>1. UNCHANGED <<new, mine, num, set, job, using, fallback>>
  BY DEF Shutdown, adjustVars, jobVars
<1>2. \A s \in Sets, j \in Slots : buffer'[s][j] = None
  BY DEF Shutdown, NoBuffers
<1>3. \A d \in Threads : new[d] = None /\ mine[d] = None
  <2>1. \A d \in Threads : at[d] = "out" /\ WalkOf(d) /\ new[d] \in Regions \cup {None}
    BY DEF Shutdown, Out, Inv, Walk, TypeOK
  <2> QED BY <2>1 DEF WalkOf, None
<1>4. \A d \in Threads, k \in Slots : using[d][k] = None
  BY UseInRun DEF Owners, Shutdown, Out
<1> QED BY <1>1, <1>2, <1>3, <1>4, OwnersDrop

\* A job begins in a buffer that no job works in.
LEMMA PlaceIsFree ==
    ASSUME Inv, Owners, NEW c \in Threads, NEW k \in Slots, Start(c, k), Place(c, k) # None,
           NEW d \in Threads, NEW l \in Slots
    PROVE  using[d][l] # Place(c, k)
<1>1. SUFFICES ASSUME using[d][l] = Place(c, k) PROVE FALSE
  OBVIOUS
<1>2. UseOf(d, l) /\ using[d][l] # None /\ at[d] = "run" /\ job[d][l] = "running"
  BY <1>1, UseInRun DEF Owners, Uses
<1>3. at[c] = "run" /\ job[c][k] = "todo"
  BY DEF Start
<1>4. CASE k = 0 /\ mine[c] # None
  <2>1. d = c /\ l = 0
    BY <1>1, <1>2, <1>4 DEF Place, UseOf
  <2> QED BY <1>2, <1>3, <1>4, <2>1
<1>5. CASE ~(k = 0 /\ mine[c] # None)
  <2>1. using[d][l] = buffer[set[c]][Runner(c, k)] /\ set[c] \in Sets
    BY <1>1, <1>5 DEF Place, Inv, TypeOK
  <2>2. Runner(c, k) \in Slots
    <3>1. k < num[c] /\ num[c] \in Nat
      BY <1>3 DEF Inv, Walk, JobsOf, TypeOK
    <3> QED BY <3>1, RunnerRange DEF Slots
  <2>3. set[c] = set[d] /\ Runner(c, k) = Runner(d, l)
    BY <1>2, <2>1, <2>2 DEF UseOf
  <2>4. c = d
    BY <1>2, <1>3, <2>3 DEF Inv, Claims
  <2>5. l < k => job[c][l] = "done"
    BY <2>3, <2>4 DEF Start
  <2>6. k < l => job[c][k] = "done"
    BY <1>2, <2>3, <2>4 DEF Inv, Walk, JobsOf
  <2> QED BY <1>2, <1>3, <2>4, <2>5, <2>6 DEF Slots
<1> QED BY <1>4, <1>5

LEMMA OwnersStart ==
    ASSUME Careful, Inv, Order, Owners, NEW c \in Threads, NEW k \in Slots, Start(c, k)
    PROVE  Owners'
<1>0. TypeOK /\ Acts(c) /\ at[c] = "run" /\ job[c][k] = "todo" /\ ~Resizing
  <2>1. TypeOK /\ Acts(c) /\ at[c] = "run" /\ job[c][k] = "todo"
    BY DEF Inv, Acts, Runs, Start
  <2> QED BY <2>1, NoResize DEF Order, Changing, Adjusts
<1>1. UNCHANGED <<buffer, new, mine, num, set>>
  BY DEF Start, adjustVars
<1>2. \A s \in Sets, j \in Slots : Freed(s, j) => Freed(s, j)'
  BY <1>0, FreedUnmoved
<1>3. /\ job'[c][k] = "running"
      /\ \A d \in Threads, l \in Slots : ~(d = c /\ l = k) => job'[d][l] = job[d][l]
  BY <1>0 DEF Start, TypeOK
<1>4. PICK r \in Regions :
        /\ using' = [using EXCEPT ![c][k] = r]
        /\ \/ r = Place(c, k) /\ UNCHANGED <<taken, fallback>>
           \/ /\ Fresh(r)
              /\ taken' = taken \cup {r}
              /\ fallback' = fallback \cup {<<c, k>>}
  <2>1. CASE Place(c, k) # None
    <3>1. Place(c, k) \in Regions
      <4>1. Place(c, k) \in {mine[c], buffer[set[c]][Runner(c, k)]}
        BY DEF Place
      <4>2. k < num[c] /\ num[c] \in Nat
        BY <1>0 DEF Inv, Walk, JobsOf, TypeOK
      <4>3. Runner(c, k) \in Slots
        BY <4>2, RunnerRange DEF Slots
      <4> QED BY <1>0, <2>1, <4>1, <4>3 DEF TypeOK
    <3> QED BY <2>1, <3>1 DEF Start
  <2>2. CASE Place(c, k) = None
    <3>1. PICK r \in Regions : /\ r \notin taken
                               /\ using' = [using EXCEPT ![c][k] = r]
                               /\ taken' = taken \cup {r}
                               /\ fallback' = fallback \cup {<<c, k>>}
      BY <2>2 DEF Start, FirstFree
    <3>2. Fresh(r)
      BY <1>0, <3>1, FreeIsFresh DEF Owners, Order
    <3> QED BY <3>1, <3>2
  <2> QED BY <2>1, <2>2
<1>5. /\ r # None /\ using'[c][k] = r
      /\ \A d \in Threads, l \in Slots : ~(d = c /\ l = k) => using'[d][l] = using[d][l]
  BY <1>0, <1>4 DEF TypeOK, None
<1>6. \A d \in Threads, l \in Slots : using[d][l] # r
  BY <1>4, <1>5, PlaceIsFree DEF Fresh
<1>7. NoSharedBuffer'
  BY <1>5, <1>6 DEF Owners, NoSharedBuffer
<1>8. CellsDiffer' /\ OwnDiffer'
  BY <1>1 DEF Owners, CellsDiffer, OwnDiffer
<1>9. Given'
  <2>1. r \in taken'
    <3>1. CASE Fresh(r) /\ taken' = taken \cup {r}
      BY <3>1
    <3>2. CASE r = Place(c, k) /\ UNCHANGED taken
      <4>1. \A s \in Sets, j \in Slots : ~Freed(s, j)
        BY <1>0 DEF Freed, Order, Column, Changing, Resizing
      <4>2. k < num[c] /\ num[c] \in Nat
        BY <1>0 DEF Inv, Walk, JobsOf, TypeOK
      <4>3. Runner(c, k) \in Slots /\ set[c] \in Sets
        BY <1>0, <4>2, RunnerRange DEF Slots, TypeOK
      <4>4. r \in {mine[c], buffer[set[c]][Runner(c, k)]}
        BY <3>2 DEF Place
      <4> QED BY <1>5, <3>2, <4>1, <4>3, <4>4 DEF Owners, Given
    <3> QED BY <1>4, <3>1, <3>2
  <2>2. taken \subseteq taken'
    BY <1>4
  <2>3. \A d \in Threads, l \in Slots : using'[d][l] \in taken' \cup {None}
    BY <1>5, <2>1, <2>2 DEF Owners, Given
  <2> QED BY <1>1, <1>2, <2>2, <2>3 DEF Owners, Given
<1>10. ASSUME NEW d \in Threads, NEW l \in Slots PROVE UseOf(d, l)'
  <2>1. UseOf(d, l) /\ Runner(d, l)' = Runner(d, l)
    BY <1>1 DEF Owners, Uses, Runner
  <2>2. fallback' \in {fallback, fallback \cup {<<c, k>>}}
    BY <1>4
  <2>3. CASE ~(d = c /\ l = k)
    <3>1. <<d, l>> \in fallback' <=> <<d, l>> \in fallback
      BY <2>2, <2>3
    <3>2. using'[d][l] = using[d][l] /\ job'[d][l] = job[d][l]
      BY <1>3, <1>5, <2>3
    <3> QED BY <1>1, <2>1, <3>1, <3>2 DEF UseOf
  <2>4. CASE d = c /\ l = k
    <3>1. <<c, k>> \notin fallback
      BY <1>0, <2>1, <2>4 DEF UseOf
    <3>2. CASE r = Place(c, k) /\ UNCHANGED fallback
      <4>1. CASE k = 0 /\ mine[c] # None
        <5>1. r = mine[c]
          BY <3>2, <4>1 DEF Place
        <5>2. /\ \A e \in Threads : r # new[e] /\ (r = mine[e] => c = e)
              /\ \A s \in Sets, j \in Slots : r # buffer[s][j]
          BY <1>5, <5>1 DEF Owners, OwnDiffer
        <5> QED BY <1>1, <1>3, <1>5, <2>4, <3>1, <3>2, <4>1, <5>2 DEF UseOf
      <4>2. CASE ~(k = 0 /\ mine[c] # None)
        <5>1. k < num[c] /\ num[c] \in Nat
          BY <1>0 DEF Inv, Walk, JobsOf, TypeOK
        <5>2. Runner(c, k) \in Slots /\ set[c] \in Sets
          BY <1>0, <5>1, RunnerRange DEF Slots, TypeOK
        <5>3. r = buffer[set[c]][Runner(c, k)]
          BY <3>2, <4>2 DEF Place
        <5>4. /\ \A e \in Threads : r # new[e] /\ r # mine[e]
              /\ \A s \in Sets, j \in Slots :
                    r = buffer[s][j] => s = set[c] /\ j = Runner(c, k)
          BY <1>5, <5>2, <5>3 DEF Owners, OwnDiffer, CellsDiffer
        <5> QED BY <1>1, <1>3, <1>5, <2>1, <2>4, <3>1, <3>2, <5>4 DEF UseOf
      <4> QED BY <4>1, <4>2
    <3>3. CASE Fresh(r)
      BY <1>1, <1>3, <1>5, <2>4, <3>3 DEF UseOf, Fresh
    <3> QED BY <1>4, <3>2, <3>3
  <2> QED BY <2>3, <2>4
<1> QED BY <1>7, <1>8, <1>9, <1>10 DEF Owners, Uses

\* A buffer that exec_threads allocated is freed by the job it was for.
LEMMA OwnersFinish ==
    ASSUME Inv, Owners, NEW c \in Threads, NEW k \in Slots, Finish(c, k)
    PROVE  Owners'
<1>0. TypeOK /\ Acts(c) /\ UseOf(c, k) /\ using[c][k] # None /\ at[c] = "run"
  <2>1. TypeOK /\ Acts(c) /\ UseOf(c, k) /\ job[c][k] = "running"
    BY DEF Inv, Acts, Runs, Finish, Owners, Uses
  <2>2. using[c][k] # None
    BY <2>1 DEF UseOf
  <2> QED BY <2>1, <2>2, UseInRun DEF Owners
<1>1. UNCHANGED <<buffer, new, mine, num, set>>
  BY DEF Finish, adjustVars
<1>2. \A s \in Sets, j \in Slots : Freed(s, j) => Freed(s, j)'
  BY <1>0, FreedUnmoved
<1>3. /\ job'[c][k] = "done" /\ using'[c][k] = None
      /\ \A d \in Threads, l \in Slots :
            ~(d = c /\ l = k) => job'[d][l] = job[d][l] /\ using'[d][l] = using[d][l]
  BY <1>0 DEF Finish, TypeOK
<1>4. \/ <<c, k>> \notin fallback /\ UNCHANGED <<taken, fallback>>
      \/ /\ <<c, k>> \in fallback
         /\ taken' = taken \ {using[c][k]}
         /\ fallback' = fallback \ {<<c, k>>}
  BY DEF Finish
<1>5. CellsDiffer' /\ OwnDiffer' /\ NoSharedBuffer'
  BY <1>1, <1>3 DEF Owners, CellsDiffer, OwnDiffer, NoSharedBuffer
<1>6. Given'
  <2>1. \A d \in Threads, l \in Slots : using'[d][l] # None => using'[d][l] # using[c][k]
    BY <1>0, <1>3 DEF Owners, NoSharedBuffer
  <2>2. \A d \in Threads, l \in Slots : using'[d][l] \in taken' \cup {None}
    BY <1>3, <1>4, <2>1 DEF Owners, Given
  <2>3. CASE <<c, k>> \notin fallback
    BY <1>1, <1>2, <1>4, <2>2, <2>3 DEF Owners, Given
  <2>4. CASE <<c, k>> \in fallback
    <3>1. /\ \A d \in Threads : new[d] # using[c][k] /\ mine[d] # using[c][k]
          /\ \A s \in Sets, j \in Slots : buffer[s][j] # using[c][k]
      BY <1>0, <2>4 DEF UseOf
    <3> QED BY <1>1, <1>2, <1>4, <2>2, <2>4, <3>1 DEF Owners, Given
  <2> QED BY <2>3, <2>4
<1>7. ASSUME NEW d \in Threads, NEW l \in Slots PROVE UseOf(d, l)'
  <2>1. UseOf(d, l) /\ Runner(d, l)' = Runner(d, l)
    BY <1>1 DEF Owners, Uses, Runner
  <2>2. CASE ~(d = c /\ l = k)
    <3>1. <<d, l>> \in fallback' <=> <<d, l>> \in fallback
      BY <1>4, <2>2
    <3> QED BY <1>1, <1>3, <2>1, <2>2, <3>1 DEF UseOf
  <2>3. CASE d = c /\ l = k
    <3>1. <<d, l>> \notin fallback'
      BY <1>4, <2>3
    <3> QED BY <1>3, <2>3, <3>1 DEF UseOf
  <2> QED BY <2>2, <2>3
<1> QED BY <1>5, <1>6, <1>7 DEF Owners, Uses

LEMMA OwnersStep ==
    ASSUME Careful, Inv, Order, Owners, NEW c \in Threads, Acts(c)
    PROVE  Owners'
<1> USE DEF Goes, adjustVars, jobVars, callVars
<1>0. TypeOK /\ JobsOf(c)
  BY DEF Inv, Walk
<1>1. ASSUME NEW own \in BOOLEAN, Begin(c, own) PROVE Owners'
  BY <1>1, OwnersBegin
<1>2. CASE Serial(c) \/ Return(c)
  BY <1>2, OwnersReturn
<1>3. CASE Size(c) \/ EnterLock(c) \/ ExecBlas(c) \/ Claim(c) \/ NextSet(c) \/ Adjusted(c)
  <2>1. /\ at[c] \notin {"run", "null"}
        /\ UNCHANGED <<buffer, taken, new, mine, using, fallback>>
        /\ UNCHANGED job \/ ExecBlas(c)
    BY <1>3 DEF Size, EnterLock, ExecBlas, StartAdjust, Claim, NextSet, Adjusted
  <2>2. ExecBlas(c) => \A k \in Slots : job'[c][k] \in {"todo", "none"}
    BY <1>0 DEF ExecBlas, TypeOK
  <2>3. \A k \in Slots : job[c][k] # "running"
    BY <1>0, <2>1 DEF JobsOf
  <2> QED BY <2>1, <2>2, <2>3, OwnersQuiet DEF Owners
<1>4. CASE Release(c)
  <2>1. /\ UNCHANGED <<buffer, taken, new, mine, using, fallback>>
        /\ \A k \in Slots : job[c][k] # "running" /\ job'[c][k] = "none"
    BY <1>0, <1>4 DEF Release, NoJobs, TypeOK
  <2>2. \A k \in Slots : using[c][k] = None
    BY <2>1, UseInRun DEF Owners
  <2>3. \A d \in Threads : d # c => Unmoved(d)
    BY <1>0, OthersUnmoved
  <2>4. \A d \in Threads, k \in Slots : job'[d][k] = "running" <=> job[d][k] = "running"
    BY <2>1, <2>3 DEF Unmoved
  <2>5. \A d \in Threads, k \in Slots :
            using[d][k] # None => set'[d] = set[d] /\ Runner(d, k)' = Runner(d, k)
    BY <2>2, <2>3 DEF Unmoved, Runner
  <2>6. \A s \in Sets, j \in Slots : Freed(s, j) => Freed(s, j)'
    <3>1. at[c] # "null"
      BY <1>4 DEF Release
    <3> QED BY <1>0, <3>1, FreedUnmoved
  <2> QED BY <2>1, <2>4, <2>5, <2>6, OwnersKept
<1>5. CASE Grow(c)
  BY <1>5, OwnersGrow
<1>6. CASE Put(c)
  BY <1>6, OwnersPut
<1>7. CASE Trim(c)
  BY <1>7, OwnersTrim
<1>8. CASE Null(c)
  BY <1>8, OwnersNull
<1>9. ASSUME NEW k \in Slots, Runs(c, k) PROVE Owners'
  BY <1>9, OwnersStart, OwnersFinish DEF Runs
<1>10. ASSUME NEW n \in Settings, Set(c, n) PROVE Owners'
  <2>1. /\ at[c] = "out"
        /\ UNCHANGED <<buffer, taken, new, mine, job, using, fallback>>
    BY <1>10 DEF Set, GotoSetNumThreads, StartAdjust
  <2>2. \A k \in Slots : job[c][k] # "running"
    BY <1>0, <2>1 DEF JobsOf
  <2> QED BY <2>1, <2>2, OwnersQuiet
<1>11. CASE Shutdown(c)
  BY <1>11, OwnersShutdown
<1> QED BY <1>1, <1>2, <1>3, <1>4, <1>5, <1>6, <1>7, <1>8, <1>9, <1>10, <1>11
        DEF Acts, Serve, Adjust

LEMMA OwnersInit == Init => Order /\ Owners
<1> SUFFICES ASSUME Init PROVE Order /\ Owners
  OBVIOUS
<1>1. /\ \A c \in Threads : /\ at[c] = "out" /\ new[c] = None /\ mine[c] = None
                            /\ \A k \in Slots : job[c][k] = "none" /\ using[c][k] = None
      /\ \A s \in Sets, k \in Slots : buffer[s][k] = FirstBuffer(s, k)
      /\ cpuNumber = OwnTeam /\ fallback = {} /\ taken = 1 .. (MaxSections * OwnTeam)
  BY DEF Init, NoJobs, NoBuffers
<1>2. Order
  <2>1. Alone /\ \A c \in Threads : Column(c)
    BY <1>1 DEF Alone, Changing, Adjusts, Column
  <2>2. Trimmed
    BY <1>1 DEF Trimmed, FirstBuffer, Slots, OwnTeam
  <2> QED BY <2>1, <2>2 DEF Order
<1>3. Given
  BY <1>1, FirstBuffers DEF Given
<1>4. CellsDiffer
  BY <1>1, FirstBuffersDiffer DEF CellsDiffer
<1>5. OwnDiffer /\ NoSharedBuffer
  BY <1>1 DEF OwnDiffer, NoSharedBuffer
<1>6. Uses
  BY <1>1 DEF Uses, UseOf
<1> QED BY <1>2, <1>3, <1>4, <1>5, <1>6 DEF Owners

\* No two jobs work in the same buffer, when the number of threads changes
\* only while no other call is under way: with the sets of exec_blas, the
\* buffers callers bring along and those exec_threads makes up for, a region
\* of memory has one owner at a time, through every change of the number.
THEOREM NoSharedBufferCorrect ==
    ASSUME Careful
    PROVE  Spec => []NoSharedBuffer
<1>1. Inv /\ Order /\ Owners /\ [Next]_vars => (Order /\ Owners)'
  <2> SUFFICES ASSUME Inv, Order, Owners, [Next]_vars PROVE Order' /\ Owners'
    OBVIOUS
  <2>1. CASE Next
    BY <2>1, NextActs, OrderStep, OwnersStep
  <2>2. CASE UNCHANGED vars
    <3> USE <2>2 DEF vars, sizeVars, adjustVars, callVars, jobVars
    <3>1. Order'
      BY DEF Order, Alone, Changing, OthersOut, Column, Cell, Trimmed, Ahead
    <3>2. Owners'
      <4>1. \A d \in Threads, k \in Slots : Runner(d, k)' = Runner(d, k)
        BY DEF Runner
      <4>2. \A s \in Sets, j \in Slots : Freed(s, j) => Freed(s, j)'
        BY DEF Freed
      <4> QED BY <4>1, <4>2, OwnersKept
    <3> QED BY <3>1, <3>2
  <2> QED BY <2>1, <2>2
<1>2. Owners => NoSharedBuffer
  BY DEF Owners
<1> QED BY <1>1, <1>2, OwnersInit, InvCorrect, PTL DEF Spec



-----------------------------------------------------------------------------
(* Nobody waits for ever on everybody else.                                *)

\* The regions of level-3 calls have a thread for every job: they are sized by the
\* jobs, or no number of threads in use is above the teams of those who call.
WholeTeams ==
    \/ Adaptive
    \/ \A c \in Level3 :
          /\ \A d \in Threads : Team[d] <= Team[c]
          /\ \A n \in Settings : n <= Team[c] \/ Team[c] = MaxThreads

\* There is always memory.
Enough == ~IsFiniteSet(Regions)

Bounded ==
    \A t \in Level3 :
        /\ cpuNumber <= Team[t] /\ numThreads <= Team[t]
        /\ \A d \in Threads : num[d] <= Team[t]

Callers3 == \A c \in Threads : mine[c] # None => c \in Level3

Room == IsFiniteSet(taken)

LEMMA RoomStep ==
    ASSUME Inv, Room, NEW c \in Threads, Acts(c)
    PROVE  Room'
<1>1. CASE UNCHANGED taken
  BY <1>1 DEF Room
<1>2. ASSUME NEW r, taken' = taken \cup {r} PROVE Room'
  BY <1>2, FS_AddElement DEF Room
<1>3. ASSUME NEW R, taken' = taken \ R PROVE Room'
  BY <1>3, FS_Subset DEF Room
<1>4. ASSUME NEW own \in BOOLEAN, Begin(c, own) PROVE Room'
  BY <1>1, <1>2, <1>4 DEF Begin
<1>5. CASE Serve(c)
  <2>1. CASE Adjust(c)
    BY <1>1, <1>2, <1>3, <2>1 DEF Adjust, Grow, Put, Trim, Null, NextSet, Adjusted
  <2>2. CASE Serial(c) \/ Return(c)
    BY <1>3, <2>2 DEF Serial, Return
  <2>3. CASE Size(c) \/ EnterLock(c) \/ ExecBlas(c) \/ Claim(c) \/ Release(c)
    BY <1>1, <2>3 DEF Size, EnterLock, ExecBlas, Claim, Release
  <2> QED BY <1>5, <2>1, <2>2, <2>3 DEF Serve
<1>6. ASSUME NEW k \in Slots, Runs(c, k) PROVE Room'
  BY <1>1, <1>2, <1>3, <1>6 DEF Runs, Start, Finish
<1>7. ASSUME NEW n \in Settings, Set(c, n) PROVE Room'
  BY <1>1, <1>7 DEF Set
<1>8. CASE Shutdown(c)
  <2> DEFINE R == {buffer[s][k] : s \in Sets, k \in Slots}
  <2>1. taken' = taken \ R BY <1>8 DEF Shutdown
  <2> HIDE DEF R
  <2> QED BY <1>3, <2>1
<1> QED BY <1>4, <1>5, <1>6, <1>7, <1>8 DEF Acts

LEMMA RoomCorrect == Spec => []Room
<1>1. Init => Room
  <2>1. OwnTeam \in Nat /\ MaxSections * OwnTeam \in Nat
    BY DEF OwnTeam
  <2> HIDE DEF OwnTeam
  <2>2. IsFiniteSet(1 .. (MaxSections * OwnTeam))
    BY <2>1, FS_Interval
  <2> QED BY <2>2 DEF Init, Room
<1>2. Inv /\ Room /\ [Next]_vars => Room'
  <2> SUFFICES ASSUME Inv, Room, [Next]_vars PROVE Room' OBVIOUS
  <2>1. CASE UNCHANGED vars BY <2>1 DEF vars, Room
  <2> QED BY <2>1, RoomStep, NextActs
<1> QED BY <1>1, <1>2, InvCorrect, PTL DEF Spec

\* What the bounds on the number of threads allow goto_set_num_threads to store.
LEMMA GotoBounded ==
    ASSUME TypeOK, Bounded, NEW c \in Threads, NEW n \in Nat, NEW label,
           GotoSetNumThreads(c, n, label), NEW t \in Level3,
           n <= Team[t] \/ Team[t] = MaxThreads
    PROVE  cpuNumber' <= Team[t] /\ numThreads' <= Team[t]
<1>1. Wanted(n) <= Team[t]
  BY DEF Wanted, TypeOK, Bounded
<1> QED BY <1>1 DEF GotoSetNumThreads, Bounded

LEMMA BoundedStep ==
    ASSUME WholeTeams, ~Adaptive, Inv, Bounded, [Next]_vars
    PROVE  Bounded'
<1>0. TypeOK BY DEF Inv
<1> SUFFICES ASSUME NEW t \in Level3
             PROVE  /\ cpuNumber' <= Team[t] /\ numThreads' <= Team[t]
                    /\ \A d \in Threads : num'[d] <= Team[t]
  BY DEF Bounded
<1> USE DEF Bounded
<1>1. Team[t] \in 1 .. MaxThreads /\ cpuNumber \in Nat /\ cpuNumber <= Team[t]
  BY <1>0 DEF TypeOK
<1>2. CASE UNCHANGED <<cpuNumber, numThreads, num>>
  BY <1>2
<1>3. ASSUME NEW c \in Threads, NEW own \in BOOLEAN, Begin(c, own)
      PROVE  cpuNumber' <= Team[t] /\ numThreads' <= Team[t] /\ num' = num
  <2>1. NumThreads(c) \in Nat /\ NumThreads(c) <= Team[t]
    BY <1>0 DEF NumThreads, WholeTeams, TypeOK
  <2>2. CASE UNCHANGED sizeVars
    BY <1>3, <2>2 DEF Begin, sizeVars
  <2>3. CASE GotoSetNumThreads(c, NumThreads(c), "size")
    BY <1>0, <1>3, <2>1, <2>3, GotoBounded DEF Begin
  <2> QED BY <1>3, <2>2, <2>3 DEF Begin
<1>4. ASSUME NEW c \in Threads, NEW n \in Settings, Set(c, n)
      PROVE  cpuNumber' <= Team[t] /\ numThreads' <= Team[t] /\ num' = num
  <2>1. n \in Nat /\ (n <= Team[t] \/ Team[t] = MaxThreads)
    BY DEF WholeTeams
  <2> QED BY <1>0, <1>4, <2>1, GotoBounded DEF Set
<1>5. ASSUME NEW c \in Threads, Size(c) \/ Release(c)
      PROVE  UNCHANGED <<cpuNumber, numThreads>> /\ \A d \in Threads : num'[d] <= Team[t]
  <2>1. PICK m \in 0 .. cpuNumber : num' = [num EXCEPT ![c] = m]
    BY <1>1, <1>5 DEF Size, Release
  <2>2. num'[c] = m /\ \A d \in Threads : d # c => num'[d] = num[d]
    BY <1>0, <2>1 DEF TypeOK
  <2> QED BY <1>1, <1>5, <2>2 DEF Size, Release, sizeVars
<1>6. ASSUME NEW c \in Threads,
             \/ Serial(c) \/ EnterLock(c) \/ ExecBlas(c) \/ Adjust(c) \/ Claim(c) \/ Return(c)
             \/ \E k \in Slots : Runs(c, k)
             \/ Shutdown(c)
      PROVE  UNCHANGED <<cpuNumber, numThreads, num>>
  <2> USE DEF sizeVars, callVars
  <2>1. CASE Adjust(c)
    BY <2>1 DEF Adjust, Grow, Put, Trim, Null, NextSet, Adjusted
  <2>2. CASE Serial(c) \/ EnterLock(c) \/ ExecBlas(c) \/ Claim(c) \/ Return(c) \/ Shutdown(c)
    BY <2>2 DEF Serial, EnterLock, ExecBlas, Claim, Return, Shutdown
  <2>3. CASE \E k \in Slots : Runs(c, k)
    BY <2>3 DEF Runs, Start, Finish
  <2> QED BY <1>6, <2>1, <2>2, <2>3
<1>7. CASE UNCHANGED vars
  BY <1>7 DEF vars, sizeVars, callVars
<1>8. CASE Next
  <2>1. PICK c \in Threads : Acts(c) BY <1>8, NextActs
  <2> QED BY <2>1, <1>3, <1>4, <1>5, <1>6 DEF Acts, Serve
<1> QED BY <1>7, <1>8

LEMMA Callers3Step ==
    ASSUME Inv, Callers3, [Next]_vars
    PROVE  Callers3'
<1>0. TypeOK BY DEF Inv
<1>1. ASSUME \A d \in Threads : mine'[d] # None => mine[d] # None
      PROVE  Callers3'
  BY <1>1 DEF Callers3
<1>2. ASSUME NEW c \in Threads, NEW own \in BOOLEAN, Begin(c, own), own => c \in Level3
      PROVE  Callers3'
  BY <1>0, <1>2 DEF Begin, Callers3, TypeOK
<1>3. ASSUME NEW c \in Threads, Serve(c) \/ Shutdown(c) PROVE Callers3'
  <2> USE DEF callVars
  <2>1. CASE Adjust(c)
    BY <1>1, <2>1 DEF Adjust, Grow, Put, Trim, Null, NextSet, Adjusted
  <2>2. CASE Serial(c) \/ Return(c)
    BY <1>0, <1>1, <2>2 DEF Serial, Return, TypeOK
  <2>3. CASE Size(c) \/ EnterLock(c) \/ ExecBlas(c) \/ Claim(c) \/ Release(c) \/ Shutdown(c)
    BY <1>1, <2>3 DEF Size, EnterLock, ExecBlas, Claim, Release, Shutdown
  <2> QED BY <1>3, <2>1, <2>2, <2>3 DEF Serve
<1>4. ASSUME NEW c \in Threads, NEW k \in Slots, Runs(c, k) PROVE Callers3'
  BY <1>1, <1>4 DEF Runs, Start, Finish
<1>5. ASSUME NEW c \in Threads, NEW n \in Settings, Set(c, n) PROVE Callers3'
  BY <1>1, <1>5 DEF Set
<1>6. CASE UNCHANGED vars
  BY <1>6 DEF vars, callVars, Callers3
<1>7. CASE Next
  <2>1. CASE \E c \in Level3 : Begin(c, TRUE) BY <1>2, <2>1
  <2>2. CASE \E c \in Plain : Begin(c, FALSE) BY <1>2, <2>2
  <2>3. CASE \E c \in Setters, n \in Settings : Set(c, n) BY <1>5, <2>3
  <2> QED BY <1>7, <2>1, <2>2, <2>3, <1>3, <1>4 DEF Next
<1> QED BY <1>6, <1>7

\* A set of numbers that is not empty has a least one.
LEMMA Least ==
    ASSUME NEW S \in SUBSET Nat, S # {}
    PROVE  \E n \in S : \A m \in S : n <= m
<1>1. PICK n \in S : \A m \in S : ~(<<m, n>> \in OpToRel(<, Nat))
  BY NatLessThanWellFounded, WFMin
<1>2. n \in Nat /\ \A m \in S : m \in Nat /\ ~(m < n)
  BY <1>1 DEF OpToRel
<1> QED BY <1>2

FreeRegion == \E r \in Regions : FirstFree(r)

LEMMA MemoryThere == Enough /\ Room => FreeRegion
<1> SUFFICES ASSUME Enough, Room PROVE FreeRegion OBVIOUS
<1>1. Regions \ taken # {}
  <2> SUFFICES ASSUME Regions \subseteq taken PROVE FALSE OBVIOUS
  <2> QED BY FS_Subset DEF Enough, Room
<1>2. Regions \ taken \in SUBSET Nat
  OBVIOUS
<1>3. PICK r \in Regions \ taken : \A q \in Regions \ taken : r <= q
  BY <1>1, <1>2, Least
<1> QED BY <1>3 DEF FreeRegion, FirstFree

\* A caller has a step to take that does not wait for anybody.
CallerCanGo(c) ==
    /\ at[c] # "out"
    /\ at[c] = "grow" /\ col[c] < cpuNumber => Cell(c) # None \/ FreeRegion
    /\ at[c] = "door" => left > 0
    /\ at[c] = "claim" => \E s \in Sets : ~inuse[s]
    /\ at[c] = "run" => \A k \in Slots : job[c][k] \in {"none", "done"}

\* A thread of its team has, with job k.
TeamCanGo(c, k) ==
    \/ /\ at[c] = "run" /\ job[c][k] = "todo"
       /\ \A l \in Slots : l < k /\ Runner(c, l) = Runner(c, k) => job[c][l] = "done"
       /\ Place(c, k) # None \/ FreeRegion
    \/ /\ job[c][k] = "running"
       /\ mine[c] # None => \A l \in Slots : job[c][l] # "todo"

CanGo(c) == CallerCanGo(c) \/ \E k \in Slots : TeamCanGo(c, k)

NoDeadlock == (\E c \in Threads : at[c] # "out") => \E c \in Threads : CanGo(c)

\* The jobs of a call are there from the first to the last.
AllJobs == \A c \in Threads, k \in Slots : InExec(c) /\ k < num[c] => job[c][k] # "none"

\* Where a region has a thread for every job, or the jobs do not wait for one
\* another, it comes to its end.
LEMMA RegionGoes ==
    ASSUME Inv, FreeRegion, AllJobs, NEW c \in Threads, at[c] = "run",
           mine[c] # None => Adaptive \/ num[c] <= Team[c]
    PROVE  CanGo(c)
<1>0. TypeOK /\ JobsOf(c) BY DEF Inv, Walk
<1>1. num[c] \in Nat /\ \A k \in Slots : job[c][k] \in {"none", "todo", "running", "done"}
  BY <1>0 DEF TypeOK
<1> DEFINE S == {k \in Slots : job[c][k] = "todo"}
<1>2. CASE S = {}
  <2>1. CASE \E k \in Slots : job[c][k] = "running"
    <3>1. PICK k \in Slots : job[c][k] = "running" BY <2>1
    <3>2. TeamCanGo(c, k) BY <1>2, <3>1 DEF TeamCanGo
    <3> QED BY <3>2 DEF CanGo
  <2>2. CASE \A k \in Slots : job[c][k] # "running"
    <3>1. CallerCanGo(c) BY <1>1, <1>2, <2>2 DEF CallerCanGo
    <3> QED BY <3>1 DEF CanGo
  <2> QED BY <2>1, <2>2
<1>3. CASE S # {}
  <2>1. S \in SUBSET Nat BY DEF Slots
  <2>2. PICK k \in S : \A l \in S : k <= l
    <3> HIDE DEF S
    <3> QED BY <1>3, <2>1, Least
  <2>3. k \in Slots /\ job[c][k] = "todo" /\ k < num[c]
    BY <1>0 DEF JobsOf
  <2>4. ASSUME NEW l \in Slots, l < k, Runner(c, l) = Runner(c, k), job[c][l] # "done"
        PROVE  job[c][l] = "running" /\ mine[c] = None
    <3>1. l < num[c] BY <1>1, <2>3, <2>4 DEF Slots
    <3>2. job[c][l] # "none" BY <3>1 DEF AllJobs, InExec
    <3>3. job[c][l] # "todo" BY <2>2, <2>4 DEF Slots
    <3>4. ASSUME mine[c] # None PROVE FALSE
      <4>1. Runner(c, l) = l /\ Runner(c, k) = k BY <1>1, <3>4 DEF Runner
      <4>2. l = k BY <2>4, <4>1, Zenon
      <4>3. l \in Nat /\ l < k
        <5> HIDE DEF S
        <5> QED BY <2>4 DEF Slots
      <4> QED BY <4>2, <4>3
    <3> QED BY <1>1, <2>4, <3>2, <3>3, <3>4
  <2>5. CASE \E l \in Slots : l < k /\ Runner(c, l) = Runner(c, k) /\ job[c][l] # "done"
    <3>1. PICK l \in Slots : job[c][l] = "running" /\ mine[c] = None BY <2>4, <2>5
    <3>2. TeamCanGo(c, l) BY <3>1 DEF TeamCanGo
    <3> QED BY <3>2 DEF CanGo
  <2>6. CASE \A l \in Slots : l < k /\ Runner(c, l) = Runner(c, k) => job[c][l] = "done"
    <3>1. TeamCanGo(c, k) BY <2>3, <2>6 DEF TeamCanGo
    <3> QED BY <2>3, <3>1 DEF CanGo
  <2> QED BY <2>5, <2>6
<1> QED BY <1>2, <1>3

\* Whoever waits for a set waits for a region, whoever waits at the door for
\* somebody behind it.
LEMMA SomebodyGoes ==
    ASSUME Inv, FreeRegion, AllJobs, NEW a \in Threads, at[a] # "out",
           \A c \in Threads : at[c] = "run" /\ mine[c] # None => Adaptive \/ num[c] <= Team[c]
    PROVE  \E c \in Threads : CanGo(c)
<1> SUFFICES ASSUME \A c \in Threads : ~CanGo(c) PROVE FALSE
  OBVIOUS
<1>0. TypeOK /\ Claims /\ Doors BY DEF Inv
<1>1. \A c \in Threads : at[c] # "run"
  BY RegionGoes
<1>2. \A c \in Threads : at[c] # "claim"
  <2>1. 0 \in Sets /\ \A s \in Sets : ~inuse[s]
    BY <1>0, <1>1 DEF Claims, Sets
  <2> QED BY <2>1 DEF CanGo, CallerCanGo
<1>3. \A c \in Threads : at[c] \in {"out", "door"} /\ (at[c] = "door" => left = 0)
  BY <1>0, <1>1, <1>2 DEF CanGo, CallerCanGo, TypeOK
<1>4. left = MaxSections
  <2>1. inside = {}
    BY <1>0, <1>3 DEF Doors, TypeOK, InExec, Adjusts
  <2> QED BY <1>0, <2>1, FS_EmptySet DEF Doors, TypeOK
<1> QED BY <1>3, <1>4

LEMMA AllJobsStep ==
    ASSUME Inv, AllJobs, [Next]_vars
    PROVE  AllJobs'
<1>0. TypeOK BY DEF Inv
<1>1. ASSUME NEW c \in Threads, Acts(c) PROVE AllJobs'
  <2>0. \A d \in Threads : d # c => Unmoved(d)
    BY <1>0, <1>1, OthersUnmoved
  <2>1. ASSUME \A k \in Slots : InExec(c)' /\ k < num'[c] => job'[c][k] # "none"
        PROVE  AllJobs'
    BY <2>0, <2>1 DEF AllJobs, Unmoved, InExec
  <2>2. ASSUME InExec(c)' => InExec(c), num'[c] = num[c],
               \A k \in Slots : job[c][k] # "none" => job'[c][k] # "none"
        PROVE  AllJobs'
    BY <2>1, <2>2 DEF AllJobs
  <2> USE DEF Adjusts, Goes, InExec, adjustVars, callVars, jobVars
  <2>3. CASE \/ \E own \in BOOLEAN : Begin(c, own)
             \/ \E n \in Settings : Set(c, n)
    <3>1. /\ at'[c] = "size" \/ (at'[c] = "grow" /\ back'[c] \in {"size", "out"})
      BY <1>0, <2>3 DEF Begin, Set, GotoSetNumThreads, StartAdjust, TypeOK
    <3> QED BY <2>1, <3>1
  <2>4. CASE Serial(c) \/ Size(c) \/ EnterLock(c)
    BY <1>0, <2>1, <2>4 DEF Serial, Size, EnterLock, TypeOK
  <2>5. CASE Release(c) \/ Return(c) \/ Shutdown(c)
    <3>1. at'[c] \in {"out", "left"}
      BY <1>0, <2>5 DEF Release, Return, Shutdown, Out, TypeOK
    <3> QED BY <2>1, <3>1
  <2>6. CASE ExecBlas(c)
    BY <1>0, <2>1, <2>6 DEF ExecBlas, TypeOK
  <2>7. CASE Adjust(c)
    <3>1. UNCHANGED <<job, num>>
      BY <2>7 DEF Adjust, Grow, Put, Trim, Null, NextSet, Adjusted
    <3>2. /\ at[c] \in Adjusts
          /\ \/ at'[c] \in Adjusts /\ back'[c] = back[c]
             \/ at'[c] = back[c]
          /\ back[c] \in {"out", "size", "claim"}
      <4>1. CASE Grow(c) \/ Put(c)
        BY <1>0, <4>1 DEF Grow, Put, TypeOK
      <4>2. CASE Trim(c) \/ Null(c) \/ NextSet(c) \/ Adjusted(c)
        BY <1>0, <4>2 DEF Trim, Null, NextSet, Adjusted, TypeOK
      <4> QED BY <2>7, <4>1, <4>2 DEF Adjust
    <3> QED BY <2>2, <3>1, <3>2
  <2>8. CASE Claim(c)
    BY <1>0, <2>2, <2>8 DEF Claim, TypeOK
  <2>9. ASSUME NEW k \in Slots, Runs(c, k) PROVE AllJobs'
    <3>1. /\ UNCHANGED <<at, back, num>>
          /\ \E state \in {"running", "done"} : job' = [job EXCEPT ![c][k] = state]
      BY <2>9 DEF Runs, Start, Finish
    <3> QED BY <1>0, <2>2, <3>1 DEF TypeOK
  <2> QED BY <1>1, <2>3, <2>4, <2>5, <2>6, <2>7, <2>8, <2>9 DEF Acts, Serve
<1>2. CASE UNCHANGED vars
  BY <1>2 DEF vars, adjustVars, callVars, jobVars, AllJobs, InExec
<1> QED BY <1>1, <1>2, NextActs

LEMMA Bounds3 ==
    ASSUME WholeTeams, ~Adaptive PROVE Spec => [](Bounded /\ Callers3)
<1>1. Init => Bounded /\ Callers3
  BY DEF Init, OwnTeam, WholeTeams, Bounded, Callers3
<1>2. Inv /\ Bounded /\ Callers3 /\ [Next]_vars => Bounded' /\ Callers3'
  BY BoundedStep, Callers3Step
<1> QED BY <1>1, <1>2, InvCorrect, PTL DEF Spec

\* Nobody waits for ever on everybody else in blas_server_omp.c.  Whenever some thread
\* is in the library one of them has a step to take, be it that callers wait at
\* level3_lock or for a set of buffers, or that the jobs of a level-3 call wait for one
\* another.  That the last have a thread each is WholeTeams: the region is not sized
\* by the number of jobs unless OMP_ADAPTIVE is set.
THEOREM NoDeadlockCorrect ==
    ASSUME WholeTeams, Enough PROVE Spec => []NoDeadlock
<1>1. Spec => []AllJobs
  <2>1. Init => AllJobs
    BY DEF Init, AllJobs, InExec, Adjusts
  <2> QED BY <2>1, AllJobsStep, InvCorrect, PTL DEF Spec
<1>2. Room => FreeRegion
  BY MemoryThere
<1>3. CASE Adaptive
  <2>1. Inv /\ AllJobs /\ Room => NoDeadlock
    BY <1>2, <1>3, SomebodyGoes DEF NoDeadlock
  <2> QED BY <1>1, <2>1, InvCorrect, RoomCorrect, PTL
<1>4. CASE ~Adaptive
  <2>1. Inv /\ AllJobs /\ Room /\ Bounded /\ Callers3 => NoDeadlock
    BY <1>2, SomebodyGoes DEF NoDeadlock, Bounded, Callers3
  <2> QED BY <1>1, <1>4, <2>1, InvCorrect, RoomCorrect, Bounds3, PTL
<1> QED BY <1>3, <1>4
=============================================================================
