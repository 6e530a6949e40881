-------------------------- MODULE GemmThreadProofs --------------------------
(***************************************************************************)
(* Theorems about GemmThread, for every number of threads and groups,      *)
(* steps of k, blocks of m, panels and rounds, and cancellation at any     *)
(* moment.                                                                 *)
(***************************************************************************)
EXTENDS GemmThread, TLAPS

-----------------------------------------------------------------------------
(* The inductive invariant.                                                *)

\* The workers are at work only between exec_blas's call and return.
DriverShape ==
    \A t \in Threads :
        /\ driver = "exec" => pc[t] # "idle"
        /\ driver # "exec" => pc[t] \in {"idle", "returned"}
        /\ driver = "poll" => pc[t] = "returned"

Packing == {"step", "free", "packing", "publish"}
Visiting == {"visit", "reading", "clear"}

\* The loop variables stay within their loops.
ThreadShape(t) ==
    /\ blk[t] <= Blocks(t)
    /\ pc[t] \in Packing \cup {"start"} => blk[t] = 1
    /\ pc[t] \in {"start", "step"} => side[t] = 0
    /\ pc[t] = "free" => side[t] <= Panels(t)
    /\ pc[t] \in {"packing", "publish"} => side[t] < Panels(t)
    /\ pc[t] \in Visiting => current[t] \in Group(t) /\ side[t] <= Panels(current[t])
    /\ pc[t] \in {"reading", "clear"} => side[t] < Panels(current[t])
    /\ reader[t] \in Group(t)

WorkerShape == \A t \in Threads : ThreadShape(t)

\* When a thread visits a region in a walk over its group: the first walk ends
\* with its own region, the later ones begin with it.
Place(first, t, o) == IF o > t \/ (o = t /\ ~first) THEN o - t ELSE o - t + NM

\* The walk has passed panel s of o.
Passed(t, o, s) ==
    \/ Place(blk[t] = 1, t, o) < Place(blk[t] = 1, t, current[t])
    \/ o = current[t] /\ s < side[t]

\* The panels of others that thread t counts on: those it has waited for and
\* not cleared.
Held(t, o, s) ==
    \/ blk[t] = 1 /\ pc[t] \in {"reading", "clear"} /\ o = current[t] /\ s = side[t]
    \/ blk[t] = 1 /\ blk[t] < Blocks(t) /\ Passed(t, o, s)
    \/ blk[t] > 1 /\ (blk[t] = Blocks(t) => ~Passed(t, o, s))

\* Their flags are set.
HeldSet(t) ==
    pc[t] \in Visiting =>
        \A o \in Group(t) \ {t} : \A s \in Sides :
            s < Panels(o) /\ Held(t, o, s) => working[o][t][s]

AllHeldSet == \A t \in Threads : HeldSet(t)

\* A panel is packed only while no flag of it is set.
PackingFree ==
    \A o, r \in Threads : pc[o] = "packing" => ~working[o][r][side[o]]

\* A thread outside the loops has no flag set.
Closed ==
    \A o, r \in Threads : \A s \in Sides :
        pc[o] \in {"start", "returned"} => ~working[o][r][s]

Inv ==
    /\ TypeOK
    /\ DriverShape
    /\ WorkerShape
    /\ AllHeldSet
    /\ PackingFree
    /\ Closed

-----------------------------------------------------------------------------
(* Groups and walks.                                                       *)

LEMMA ConstantFacts ==
    /\ NM \in Nat /\ NN \in Nat /\ NM > 0 /\ NN > 0
    /\ DivideRate \in Nat /\ DivideRate > 0
    /\ KSteps \in Nat /\ KSteps > 0
    /\ Rounds \in Nat /\ Rounds > 0
    /\ \A t \in Threads : t \in Int
BY GemmAssumption DEF Rounds, Threads

LEMMA Monotone ==
    ASSUME NEW n \in Nat, NEW a \in Nat, NEW b \in Nat, a <= b
    PROVE  n * a <= n * b
<1>1. PICK d \in Nat : b = a + d OBVIOUS
<1>2. n * b = n * a + n * d BY <1>1
<1>3. n * d >= 0 OBVIOUS
<1> QED BY <1>2, <1>3

LEMMA Division ==
    ASSUME NEW t \in Nat, NEW n \in Nat, n > 0
    PROVE  /\ t \div n \in Nat
           /\ n * (t \div n) <= t
           /\ t < n * (t \div n) + n
OBVIOUS

LEMMA GroupFacts ==
    ASSUME NEW t \in Threads
    PROVE  /\ First(t) \in Nat
           /\ First(t) <= t /\ t < First(t) + NM
           /\ t \in Group(t)
           /\ Group(t) \subseteq Threads
           /\ First(t) \in Group(t)
<1> DEFINE q == t \div NM
<1>1. t \in Nat /\ t < NM * NN BY ConstantFacts DEF Threads
<1>2. q \in Nat /\ NM * q <= t /\ t < NM * q + NM
    BY <1>1, Division, ConstantFacts
<1>3. First(t) = NM * q /\ First(t) \in Nat
    BY <1>2, ConstantFacts DEF First
<1> HIDE DEF q
<1>4. q + 1 <= NN
    <2>1. SUFFICES ASSUME NN <= q PROVE FALSE BY <1>2, ConstantFacts
    <2>2. NM * NN <= NM * q BY <2>1, <1>2, ConstantFacts, Monotone
    <2> QED BY <2>2, <1>1, <1>2, <1>3, ConstantFacts
<1>5. First(t) + NM <= NM * NN
    <2>1. NM * (q + 1) <= NM * NN BY <1>4, <1>2, ConstantFacts, Monotone
    <2> QED BY <2>1, <1>2, <1>3, ConstantFacts
<1>6. First(t) <= t /\ t < First(t) + NM BY <1>2, <1>3
<1>7. \A u \in Group(t) : u \in Nat /\ u < NM * NN
    BY <1>3, <1>5, ConstantFacts DEF Group
<1>8. NM * NN \in Nat BY ConstantFacts
<1> QED BY <1>1, <1>3, <1>6, <1>7, <1>8, ConstantFacts DEF Group, Threads

LEMMA SuccessorFacts ==
    ASSUME NEW t \in Threads, NEW c \in Group(t)
    PROVE  Successor(t, c) \in Group(t)
BY GroupFacts, ConstantFacts DEF Successor, Group

LEMMA PlaceFacts ==
    ASSUME NEW t \in Threads, NEW o \in Group(t), NEW c \in Group(t), NEW first \in BOOLEAN
    PROVE  /\ Place(first, t, o) \in Int
           /\ Place(first, t, o) = Place(first, t, c) => o = c
           /\ o # t => Place(TRUE, t, o) < Place(TRUE, t, t)
           /\ ~(Place(TRUE, t, o) < Place(TRUE, t, Successor(t, t)))
BY GroupFacts, ConstantFacts DEF Place, Group, Successor

LEMMA PlaceStep ==
    ASSUME NEW t \in Threads, NEW c \in Group(t), NEW first \in BOOLEAN,
           IF first THEN c # t ELSE Successor(t, c) # t
    PROVE  Place(first, t, Successor(t, c)) = Place(first, t, c) + 1
BY GroupFacts, ConstantFacts DEF Place, Group, Successor

LEMMA PlaceEnds ==
    ASSUME NEW t \in Threads, NEW c \in Group(t), NEW o \in Group(t), NEW first \in BOOLEAN
    PROVE  /\ (IF first THEN c = t ELSE Successor(t, c) = t) /\ o # c
                 => Place(first, t, o) < Place(first, t, c)
           /\ ~(Place(FALSE, t, o) < Place(FALSE, t, t))
BY GroupFacts, ConstantFacts DEF Place, Group, Successor

\* What the constants say of a thread's loops.
LEMMA LoopFacts ==
    ASSUME TypeOK, NEW t \in Threads
    PROVE  /\ Blocks(t) \in Nat /\ Blocks(t) > 0
           /\ Panels(t) \in 0 .. DivideRate
           /\ \A l \in 1 .. KSteps : Step(l) \in Contents
<1>1. t % NM \in 0 .. (NM - 1) BY ConstantFacts DEF Threads
<1>2. Blocks(t) \in Nat \ {0} BY <1>1, GemmAssumption DEF Blocks
<1>3. Panels(t) \in 0 .. DivideRate
    BY GemmAssumption DEF TypeOK, Panels, Rounds
<1>4. ASSUME NEW l \in 1 .. KSteps
      PROVE  Step(l) \in Contents
    <2>1. round \in Nat /\ round >= 1 /\ round <= Rounds /\ l \in Nat
        BY <1>4, ConstantFacts DEF TypeOK
    <2>2. (round - 1) * KSteps = KSteps * round - KSteps /\ KSteps * round \in Nat
        BY <2>1, ConstantFacts
    <2>3. KSteps * round <= KSteps * Rounds BY <2>1, ConstantFacts, Monotone
    <2>4. KSteps * Rounds = Rounds * KSteps /\ Rounds * KSteps \in Nat BY ConstantFacts
    <2>5. KSteps * round >= KSteps
        <3>1. KSteps * 1 <= KSteps * round BY <2>1, ConstantFacts, Monotone
        <3> QED BY <3>1, ConstantFacts
    <2> QED BY <2>1, <2>2, <2>3, <2>4, <2>5, ConstantFacts DEF Step, Contents
<1> QED BY <1>2, <1>3, <1>4

-----------------------------------------------------------------------------
(* Type correctness.                                                       *)

\* Updates of functions of functions.
LEMMA Update2 ==
    ASSUME NEW A, NEW B, NEW C, NEW f \in [A -> [B -> C]],
           NEW a \in A, NEW b \in B, NEW c \in C
    PROVE  [f EXCEPT ![a][b] = c] \in [A -> [B -> C]]
OBVIOUS

LEMMA Update3 ==
    ASSUME NEW A, NEW B, NEW C, NEW D, NEW f \in [A -> [B -> [C -> D]]],
           NEW a \in A, NEW b \in B, NEW c \in C, NEW d \in D
    PROVE  [f EXCEPT ![a][b][c] = d] \in [A -> [B -> [C -> D]]]
<1>1. f[a] \in [B -> [C -> D]] OBVIOUS
<1>2. [f[a] EXCEPT ![b][c] = d] \in [B -> [C -> D]] BY <1>1, Update2
<1> QED BY <1>2

LEMMA UpdateFlag ==
    ASSUME TypeOK, NEW o \in Threads, NEW r \in Threads, NEW b \in Sides, NEW v \in BOOLEAN
    PROVE  [working EXCEPT ![o][r][b] = v] \in [Threads -> [Threads -> [Sides -> BOOLEAN]]]
<1> DEFINE Flag == BOOLEAN
<1>1. working \in [Threads -> [Threads -> [Sides -> Flag]]] /\ v \in Flag BY DEF TypeOK
<1> HIDE DEF Flag
<1>2. [working EXCEPT ![o][r][b] = v] \in [Threads -> [Threads -> [Sides -> Flag]]]
    BY <1>1, Update3
<1> QED BY <1>2, Zenon DEF Flag

\* The bufferside of a thread at work on a panel.
LEMMA SideFacts ==
    ASSUME TypeOK, WorkerShape, NEW t \in Threads,
           \/ pc[t] \in {"packing", "publish", "reading", "clear"}
           \/ pc[t] = "free" /\ side[t] < Panels(t)
    PROVE  side[t] \in Sides /\ side[t] + 1 \in 0 .. DivideRate
<1>1. side[t] \in 0 .. DivideRate /\ current[t] \in Threads BY DEF TypeOK
<1>2. Panels(t) \in 0 .. DivideRate /\ Panels(current[t]) \in 0 .. DivideRate
    BY <1>1, LoopFacts
<1>3. side[t] < DivideRate
    BY <1>1, <1>2, ConstantFacts DEF WorkerShape, ThreadShape
<1> QED BY <1>1, <1>3, ConstantFacts DEF Sides

LEMMA PollType ==
    ASSUME TypeOK, NEW t \in Threads, Poll(t)
    PROVE  cancelled' \in [Threads -> BOOLEAN]
<1>1. Polled(t) \in BOOLEAN BY Zenon DEF Polled
<1> QED BY <1>1 DEF TypeOK, Poll

LEMMA TypeInit == Init => TypeOK
<1> SUFFICES ASSUME Init PROVE TypeOK OBVIOUS
<1>1. 1 \in 1 .. Rounds /\ 1 \in 1 .. KSteps /\ 0 \in 0 .. DivideRate BY ConstantFacts
<1>2. 0 \in Contents BY ConstantFacts DEF Contents
<1>3. working \in [Threads -> [Threads -> [Sides -> BOOLEAN]]] BY DEF Init, Flags
<1>4. panel \in [Threads -> [Sides -> Contents]] /\ done \in [Threads -> SUBSET Kernels]
    BY <1>2 DEF Init
<1>5. /\ product \in BOOLEAN /\ superseded \in BOOLEAN /\ cancelled \in [Threads -> BOOLEAN]
      /\ driver \in {"clear", "exec", "poll", "finished"}
      /\ pc \in [Threads -> ThreadStates]
    BY DEF Init, ThreadStates
<1>6. /\ round \in 1 .. Rounds /\ ls \in [Threads -> 1 .. KSteps]
      /\ blk \in [Threads -> Nat \ {0}] /\ side \in [Threads -> 0 .. DivideRate]
      /\ current \in [Threads -> Threads] /\ reader \in [Threads -> Threads]
    BY <1>1 DEF Init
<1> QED BY <1>3, <1>4, <1>5, <1>6 DEF TypeOK

LEMMA TypeWorker ==
    ASSUME Inv, NEW t \in Threads, InnerThread(t)
    PROVE  TypeOK'
<1>0. TypeOK /\ WorkerShape BY DEF Inv
<1> USE DEF Go, driverVars, ThreadStates
<1>1. CASE Begin(t) BY <1>0, <1>1, PollType DEF Begin, TypeOK
<1>2. CASE NextStep(t) BY <1>0, <1>2, PollType DEF NextStep, TypeOK
<1>3. CASE AfterPack(t)
    <2>1. Successor(t, t) \in Threads /\ 0 \in 0 .. DivideRate
        BY GroupFacts, SuccessorFacts, ConstantFacts
    <2> QED BY <1>0, <1>3, <2>1 DEF AfterPack, TypeOK
<1>4. CASE BeginPack(t)
    <2>1. First(t) \in Threads BY GroupFacts
    <2>2. side[t] \in Sides BY <1>0, <1>4, SideFacts DEF BeginPack
    <2>3. 0 \in Contents BY ConstantFacts DEF Contents
    <2>4. [panel EXCEPT ![t][side[t]] = 0] \in [Threads -> [Sides -> Contents]]
        BY <1>0, <2>2, <2>3, Update2 DEF TypeOK
    <2> QED BY <1>0, <1>4, <2>1, <2>4, PollType DEF BeginPack, TypeOK
<1>5. CASE EndPack(t)
    <2>1. side[t] \in Sides BY <1>0, <1>5, SideFacts DEF EndPack
    <2>2. Step(ls[t]) \in Contents BY <1>0, LoopFacts DEF TypeOK
    <2>3. [panel EXCEPT ![t][side[t]] = Step(ls[t])] \in [Threads -> [Sides -> Contents]]
        BY <1>0, <2>1, <2>2, Update2 DEF TypeOK
    <2>4. <<ls[t], 1, t, side[t]>> \in Kernels
        BY <1>0, <2>1 DEF Kernels, TypeOK
    <2>5. [done EXCEPT ![t] = @ \cup {<<ls[t], 1, t, side[t]>>}] \in [Threads -> SUBSET Kernels]
        BY <1>0, <2>4 DEF TypeOK
    <2>6. panel' \in [Threads -> [Sides -> Contents]] /\ done' \in [Threads -> SUBSET Kernels]
        BY <1>0, <1>5, <2>3, <2>5 DEF EndPack, TypeOK
    <2>7. cancelled' \in [Threads -> BOOLEAN] BY <1>0, <1>5 DEF EndPack, TypeOK
    <2> QED BY <1>0, <1>5, <2>6, <2>7 DEF EndPack, TypeOK
<1>6. CASE Publish(t)
    <2>1. side[t] \in Sides /\ side[t] + 1 \in 0 .. DivideRate
        BY <1>0, <1>6, SideFacts DEF Publish
    <2>2. reader[t] + 1 \in Group(t) => reader[t] + 1 \in Threads BY GroupFacts
    <2>3. [working EXCEPT ![t][reader[t]][side[t]] = TRUE]
            \in [Threads -> [Threads -> [Sides -> BOOLEAN]]]
        <3>1. reader[t] \in Threads BY <1>0 DEF TypeOK
        <3>2. TRUE \in BOOLEAN OBVIOUS
        <3> QED BY <1>0, <2>1, <3>1, <3>2, UpdateFlag, Zenon
    <2>4. working' \in [Threads -> [Threads -> [Sides -> BOOLEAN]]]
        BY <1>6, <2>3 DEF Publish
    <2>5. pc' \in [Threads -> ThreadStates]
        BY <1>0, <1>6 DEF Publish, TypeOK
    <2>6. reader' \in [Threads -> Threads]
        BY <1>0, <1>6, <2>2 DEF Publish, TypeOK
    <2>7. side' \in [Threads -> 0 .. DivideRate]
        BY <1>0, <1>6, <2>1 DEF Publish, TypeOK
    <2> QED BY <1>0, <1>6, <2>4, <2>5, <2>6, <2>7 DEF Publish, TypeOK
<1>7. CASE Visit(t) BY <1>0, <1>7, PollType DEF Visit, TypeOK
<1>8. CASE Revisit(t) BY <1>0, <1>8 DEF Revisit, TypeOK
<1>9. CASE EndRead(t)
    <2>1. side[t] \in Sides BY <1>0, <1>9, SideFacts DEF EndRead
    <2>2. <<ls[t], blk[t], current[t], side[t]>> \in Kernels
        BY <1>0, <2>1 DEF Kernels, TypeOK
    <2> QED BY <1>0, <1>9, <2>2 DEF EndRead, TypeOK
<1>10. CASE Clear(t)
    <2>1. side[t] \in Sides /\ side[t] + 1 \in 0 .. DivideRate
        BY <1>0, <1>10, SideFacts DEF Clear
    <2>2. (working[current[t]][t][side[t]] /\ ~LastBlock(t)) \in BOOLEAN BY Zenon
    <2>3. working' = [working EXCEPT ![current[t]][t][side[t]] =
                        working[current[t]][t][side[t]] /\ ~LastBlock(t)]
        BY <1>10, Zenon DEF Clear
    <2>4. current[t] \in Threads BY <1>0 DEF TypeOK
    <2>5. working' \in [Threads -> [Threads -> [Sides -> BOOLEAN]]]
        BY <1>0, <2>1, <2>2, <2>3, <2>4, UpdateFlag, Zenon
    <2> QED BY <1>0, <1>10, <2>1, <2>5 DEF Clear, TypeOK
<1>11. CASE NextRegion(t)
    <2>1. current[t] \in Group(t)
        BY <1>0, <1>11 DEF NextRegion, WorkerShape, ThreadShape, Visiting
    <2>2. Successor(t, current[t]) \in Threads /\ 0 \in 0 .. DivideRate
        BY <2>1, GroupFacts, SuccessorFacts, ConstantFacts
    <2> QED BY <1>0, <1>11, <2>2 DEF NextRegion, TypeOK
<1>12. CASE NextBlock(t)
    <2>1. 0 \in 0 .. DivideRate /\ blk[t] + 1 \in Nat \ {0} /\ 1 \in Nat \ {0}
        BY <1>0, ConstantFacts DEF TypeOK
    <2>2. ls[t] < KSteps => ls[t] + 1 \in 1 .. KSteps
        BY <1>0, ConstantFacts DEF TypeOK
    <2>3. cancelled' \in [Threads -> BOOLEAN]
        BY <1>0, <1>12, PollType DEF NextBlock, TypeOK
    <2>4. blk' \in [Threads -> Nat \ {0}]
        BY <1>0, <1>12, <2>1 DEF NextBlock, TypeOK
    <2>6. ls' \in [Threads -> 1 .. KSteps]
        <3>1. CASE ls' = [ls EXCEPT ![t] = @ + 1] /\ ls[t] < KSteps
            BY <1>0, <2>2, <3>1 DEF TypeOK
        <3>2. CASE UNCHANGED ls BY <1>0, <3>2 DEF TypeOK
        <3> QED BY <1>12, <3>1, <3>2 DEF NextBlock
    <2>5. pc' \in [Threads -> ThreadStates]
        BY <1>0, <1>12 DEF NextBlock, TypeOK
    <2> QED BY <1>0, <1>12, <2>1, <2>3, <2>4, <2>5, <2>6 DEF NextBlock, TypeOK
<1>13. CASE Drain(t) BY <1>0, <1>13 DEF Drain, TypeOK
<1> QED BY <1>1, <1>2, <1>3, <1>4, <1>5, <1>6, <1>7, <1>8, <1>9, <1>10, <1>11, <1>12,
           <1>13 DEF InnerThread

LEMMA TypeDriver ==
    ASSUME Inv, GemmDriver \/ Supersede
    PROVE  TypeOK'
<1> USE DEF Inv, TypeOK, ThreadStates, threadVars
<1>1. CASE ClearFlags
    <2>1. 1 \in 1 .. KSteps /\ 0 \in 0 .. DivideRate BY ConstantFacts
    <2>2. working' \in [Threads -> [Threads -> [Sides -> BOOLEAN]]]
        BY <1>1 DEF ClearFlags, Cleared, Flags
    <2>3. done' \in [Threads -> SUBSET Kernels] /\ cancelled' \in [Threads -> BOOLEAN]
        BY <1>1 DEF ClearFlags
    <2>4. pc' \in [Threads -> ThreadStates] BY <1>1 DEF ClearFlags
    <2>5. /\ ls' \in [Threads -> 1 .. KSteps] /\ blk' \in [Threads -> Nat \ {0}]
          /\ side' \in [Threads -> 0 .. DivideRate]
        BY <1>1, <2>1 DEF ClearFlags
    <2>6. current' \in [Threads -> Threads] /\ reader' \in [Threads -> Threads]
        BY <1>1 DEF ClearFlags
    <2> QED BY <1>1, <2>2, <2>3, <2>4, <2>5, <2>6 DEF ClearFlags
<1>2. CASE Join BY <1>2 DEF Join
<1>3. CASE NextRound
    <2>1. round # Rounds => round + 1 \in 1 .. Rounds BY ConstantFacts
    <2> QED BY <1>3, <2>1 DEF NextRound, Stop
<1>4. CASE Supersede BY <1>4 DEF Supersede
<1> QED BY <1>1, <1>2, <1>3, <1>4 DEF GemmDriver

-----------------------------------------------------------------------------
(* What a step of one worker leaves alone.                                 *)

LEMMA Frame ==
    ASSUME TypeOK, NEW t \in Threads, InnerThread(t)
    PROVE  /\ driver' = driver /\ round' = round /\ product' = product
           /\ \A u \in Threads \ {t} :
                 /\ pc'[u] = pc[u] /\ blk'[u] = blk[u] /\ side'[u] = side[u]
                 /\ current'[u] = current[u] /\ reader'[u] = reader[u]
<1> USE DEF TypeOK, Go, driverVars
<1>1. CASE Begin(t) BY <1>1 DEF Begin
<1>2. CASE NextStep(t) BY <1>2 DEF NextStep
<1>3. CASE AfterPack(t) BY <1>3 DEF AfterPack
<1>4. CASE BeginPack(t) BY <1>4 DEF BeginPack
<1>5. CASE EndPack(t) BY <1>5 DEF EndPack
<1>6. CASE Publish(t) BY <1>6 DEF Publish
<1>7. CASE Visit(t) BY <1>7 DEF Visit
<1>8. CASE Revisit(t) BY <1>8 DEF Revisit
<1>9. CASE EndRead(t) BY <1>9 DEF EndRead
<1>10. CASE Clear(t) BY <1>10 DEF Clear
<1>11. CASE NextRegion(t) BY <1>11 DEF NextRegion
<1>12. CASE NextBlock(t) BY <1>12 DEF NextBlock
<1>13. CASE Drain(t) BY <1>13 DEF Drain
<1> QED BY <1>1, <1>2, <1>3, <1>4, <1>5, <1>6, <1>7, <1>8, <1>9, <1>10, <1>11, <1>12,
           <1>13 DEF InnerThread

\* A flag is set by the owner of the panel only, and cleared by its reader only.
LEMMA FlagFrame ==
    ASSUME TypeOK, NEW t \in Threads, InnerThread(t),
           NEW o \in Threads, NEW r \in Threads, NEW s \in Sides
    PROVE  /\ working'[o][r][s] =>
                 \/ working[o][r][s]
                 \/ o = t /\ pc[t] = "publish" /\ r = reader[t] /\ s = side[t]
           /\ working[o][r][s] =>
                 \/ working'[o][r][s]
                 \/ /\ r = t /\ pc[t] = "clear" /\ LastBlock(t)
                    /\ o = current[t] /\ s = side[t]
<1>1. CASE Publish(t)
    <2>1. /\ pc[t] = "publish"
          /\ working' = [working EXCEPT ![t][reader[t]][side[t]] = TRUE]
        BY <1>1 DEF Publish
    <2> QED BY <2>1 DEF TypeOK
<1>2. CASE Clear(t)
    <2>1. /\ pc[t] = "clear"
          /\ working' = [working EXCEPT ![current[t]][t][side[t]] = @ /\ ~LastBlock(t)]
        BY <1>2 DEF Clear
    <2> QED BY <2>1 DEF TypeOK
<1>3. CASE ~Publish(t) /\ ~Clear(t)
    <2>1. working' = working
        BY <1>3 DEF InnerThread, Begin, NextStep, AfterPack, BeginPack, EndPack, Visit,
                    Revisit, EndRead, NextRegion, NextBlock, Drain
    <2> QED BY <2>1
<1> QED BY <1>1, <1>2, <1>3

-----------------------------------------------------------------------------
(* The shape of driver and workers.                                        *)

LEMMA DriverShapeWorker ==
    ASSUME Inv, NEW t \in Threads, InnerThread(t)
    PROVE  DriverShape'
<1>0. TypeOK /\ DriverShape BY DEF Inv
<1>1. pc[t] \notin {"idle", "returned"}
    BY DEF InnerThread, Begin, NextStep, AfterPack, BeginPack, EndPack, Publish, Visit,
           Revisit, EndRead, Clear, NextRegion, NextBlock, Drain
<1>2. pc'[t] # "idle"
    BY <1>0, <1>1 DEF InnerThread, Begin, NextStep, AfterPack, BeginPack, EndPack, Publish,
           Visit, Revisit, EndRead, Clear, NextRegion, NextBlock, Drain, Go, TypeOK
<1> QED BY <1>0, <1>1, <1>2, Frame DEF DriverShape

LEMMA ThreadShapeWorker ==
    ASSUME Inv, NEW t \in Threads, InnerThread(t)
    PROVE  ThreadShape(t)'
<1>0. TypeOK /\ ThreadShape(t) /\ blk[t] \in Nat /\ side[t] \in Nat /\ current[t] \in Threads
    BY ConstantFacts DEF Inv, WorkerShape, TypeOK
<1>1. /\ Blocks(t) \in Nat /\ Blocks(t) > 0 /\ First(t) \in Group(t) /\ t \in Group(t)
      /\ \A o \in Threads : Panels(o) \in Nat /\ Panels(o)' = Panels(o)
      /\ Group(t) \subseteq Threads
    BY <1>0, LoopFacts, GroupFacts, Frame DEF Panels
<1> USE DEF ThreadShape, Packing, Visiting, Go, TypeOK
<1>2. CASE Begin(t) BY <1>0, <1>1, <1>2 DEF Begin
<1>3. CASE NextStep(t) BY <1>0, <1>1, <1>3 DEF NextStep
<1>4. CASE AfterPack(t)
    <2>1. Successor(t, t) \in Group(t) BY <1>1, SuccessorFacts
    <2> QED BY <1>0, <1>1, <1>4, <2>1 DEF AfterPack
<1>5. CASE BeginPack(t) BY <1>0, <1>1, <1>5 DEF BeginPack
<1>6. CASE EndPack(t) BY <1>0, <1>1, <1>6 DEF EndPack
<1>7. CASE Publish(t) BY <1>0, <1>1, <1>7 DEF Publish
<1>8. CASE Visit(t) BY <1>0, <1>1, <1>8 DEF Visit
<1>9. CASE Revisit(t) BY <1>0, <1>1, <1>9 DEF Revisit
<1>10. CASE EndRead(t) BY <1>0, <1>1, <1>10 DEF EndRead
<1>11. CASE Clear(t) BY <1>0, <1>1, <1>11 DEF Clear
<1>12. CASE NextRegion(t)
    <2>1. Successor(t, current[t]) \in Group(t)
        BY <1>0, <1>12, SuccessorFacts DEF NextRegion
    <2> QED BY <1>0, <1>1, <1>12, <2>1 DEF NextRegion
<1>13. CASE NextBlock(t) BY <1>0, <1>1, <1>13 DEF NextBlock
<1>14. CASE Drain(t) BY <1>0, <1>1, <1>14 DEF Drain
<1> QED BY <1>2, <1>3, <1>4, <1>5, <1>6, <1>7, <1>8, <1>9, <1>10, <1>11, <1>12, <1>13,
           <1>14 DEF InnerThread

LEMMA WorkerShapeWorker ==
    ASSUME Inv, NEW t \in Threads, InnerThread(t)
    PROVE  WorkerShape'
<1>0. TypeOK /\ WorkerShape BY DEF Inv
<1>1. ASSUME NEW u \in Threads, u # t
      PROVE  ThreadShape(u)'
    BY <1>0, <1>1, Frame DEF WorkerShape, ThreadShape, Panels
<1> QED BY <1>1, ThreadShapeWorker DEF WorkerShape

-----------------------------------------------------------------------------
(* Panels that are counted on.                                             *)

\* Another thread's step.
LEMMA HeldSetOthers ==
    ASSUME Inv, NEW t \in Threads, InnerThread(t), NEW u \in Threads \ {t}
    PROVE  HeldSet(u)'
<1>0. TypeOK /\ HeldSet(u) /\ Group(u) \subseteq Threads
    BY GroupFacts DEF Inv, AllHeldSet
<1>1. \A o \in Threads, s \in Sides : working[o][u][s] => working'[o][u][s]
    BY <1>0, FlagFrame
<1>2. /\ pc'[u] = pc[u] /\ blk'[u] = blk[u] /\ side'[u] = side[u]
      /\ current'[u] = current[u] /\ round' = round
    BY <1>0, Frame
<1> QED BY <1>0, <1>1, <1>2 DEF HeldSet, Held, Passed, Panels

\* What a step of the thread adds to the panels it has passed.
LEMMA PassedStep ==
    ASSUME Inv, NEW t \in Threads, NEW o \in Group(t), NEW s \in Sides, s < Panels(o)
    PROVE  /\ AfterPack(t) => ~Passed(t, o, s)'
           /\ Visit(t) \/ Revisit(t) \/ EndRead(t) \/ NextRegion(t)
                 => (Passed(t, o, s)' <=> Passed(t, o, s))
           /\ Clear(t) => (Passed(t, o, s)' <=>
                               Passed(t, o, s) \/ (o = current[t] /\ s = side[t]))
           /\ NextBlock(t) =>
                 /\ Passed(t, o, s)
                 /\ blk[t] < Blocks(t) => ~Passed(t, o, s)'
<1>0. /\ TypeOK /\ ThreadShape(t) /\ blk[t] \in Nat \ {0} /\ side[t] \in Nat
      /\ current[t] \in Threads /\ t \in Group(t) /\ t \in Int
    BY GroupFacts, ConstantFacts DEF Inv, WorkerShape, TypeOK
<1>1. o \in Threads /\ s \in Nat BY GroupFacts, ConstantFacts DEF Sides
<1>2. pc[t] \in Visiting => current[t] \in Group(t) BY <1>0 DEF ThreadShape
<1>3. ASSUME AfterPack(t) PROVE ~Passed(t, o, s)'
    <2>1. blk'[t] = 1 /\ current'[t] = Successor(t, t) /\ side'[t] = 0
        BY <1>0, <1>3 DEF AfterPack, TypeOK, ThreadShape, Packing
    <2>2. ~(Place(TRUE, t, o) < Place(TRUE, t, Successor(t, t)))
        BY <1>0, SuccessorFacts, PlaceFacts
    <2>3. \A r \in {o, Successor(t, t)} : Place(blk'[t] = 1, t, r) = Place(TRUE, t, r)
        BY <2>1 DEF Place
    <2>4. ~(s < side'[t]) BY <1>1, <2>1
    <2> QED BY <2>1, <2>2, <2>3, <2>4 DEF Passed
<1>4. ASSUME Visit(t) \/ Revisit(t) \/ EndRead(t) PROVE Passed(t, o, s)' <=> Passed(t, o, s)
    BY <1>4 DEF Visit, Revisit, EndRead, Passed
<1>5. ASSUME NextRegion(t) PROVE Passed(t, o, s)' <=> Passed(t, o, s)
    <2> DEFINE f == blk[t] = 1
               c == current[t]
    <2>1. /\ pc[t] = "visit" /\ blk' = blk /\ current'[t] = Successor(t, c) /\ side'[t] = 0
          /\ side[t] = Panels(c) /\ RegionsLeft(t)
        BY <1>0, <1>5 DEF NextRegion, TypeOK
    <2>2. c \in Group(t) /\ Successor(t, c) \in Group(t) /\ f \in BOOLEAN
        BY <1>2, <2>1, SuccessorFacts DEF Visiting
    <2>3. Place(f, t, Successor(t, c)) = Place(f, t, c) + 1
        BY <2>1, <2>2, PlaceStep DEF RegionsLeft
    <2>4. /\ Place(f, t, o) \in Int /\ Place(f, t, c) \in Int
          /\ Place(f, t, o) = Place(f, t, c) => o = c
        BY <2>2, PlaceFacts
    <2>5. Passed(t, o, s)' <=> Place(f, t, o) < Place(f, t, c) + 1
        BY <1>1, <2>1, <2>3 DEF Passed
    <2> QED BY <2>1, <2>4, <2>5 DEF Passed
<1>6. ASSUME Clear(t)
      PROVE  Passed(t, o, s)' <=> Passed(t, o, s) \/ (o = current[t] /\ s = side[t])
    <2>1. blk' = blk /\ current' = current /\ side'[t] = side[t] + 1
        BY <1>0, <1>6 DEF Clear, TypeOK
    <2> QED BY <1>0, <1>1, <2>1 DEF Passed
<1>7. ASSUME NextBlock(t)
      PROVE  Passed(t, o, s) /\ (blk[t] < Blocks(t) => ~Passed(t, o, s)')
    <2> DEFINE f == blk[t] = 1
               c == current[t]
    <2>1. /\ pc[t] = "visit" /\ side[t] = Panels(c) /\ ~RegionsLeft(t)
          /\ current'[t] = t /\ side'[t] = 0
          /\ blk[t] < Blocks(t) => blk'[t] = blk[t] + 1
        BY <1>0, <1>7 DEF NextBlock, TypeOK
    <2>2. c \in Group(t) /\ f \in BOOLEAN BY <1>2, <2>1 DEF Visiting
    <2>3. IF f THEN c = t ELSE Successor(t, c) = t BY <2>1 DEF RegionsLeft
    <2>4. o # c => Place(f, t, o) < Place(f, t, c) BY <2>2, <2>3, PlaceEnds
    <2>5. Passed(t, o, s) BY <2>1, <2>4 DEF Passed
    <2>6. ASSUME blk[t] < Blocks(t) PROVE ~Passed(t, o, s)'
        <3>1. ~(blk'[t] = 1) BY <1>0, <2>1, <2>6
        <3>2. \A r \in {o, t} : Place(blk'[t] = 1, t, r) = Place(FALSE, t, r)
            BY <3>1 DEF Place
        <3>3. ~(Place(FALSE, t, o) < Place(FALSE, t, t)) BY <1>0, PlaceEnds
        <3>4. ~(s < side'[t]) BY <1>1, <2>1
        <3> QED BY <2>1, <3>2, <3>3, <3>4 DEF Passed
    <2> QED BY <2>5, <2>6
<1> QED BY <1>3, <1>4, <1>5, <1>6, <1>7

\* The thread's own step: what it counts on afterwards it counted on before, or
\* has just waited for, and it clears only what it no longer counts on.
LEMMA HeldSetSelf ==
    ASSUME Inv, NEW t \in Threads, InnerThread(t)
    PROVE  HeldSet(t)'
<1>0. /\ TypeOK /\ ThreadShape(t) /\ HeldSet(t)
      /\ blk[t] \in Nat /\ side[t] \in Nat /\ current[t] \in Threads /\ t \in Group(t)
    BY GroupFacts, ConstantFacts DEF Inv, AllHeldSet, WorkerShape, TypeOK
<1>1. Blocks(t) \in Nat /\ Blocks(t)' = Blocks(t) /\ Group(t)' = Group(t)
      /\ \A o \in Threads : Panels(o)' = Panels(o)
    BY <1>0, LoopFacts, Frame DEF Panels, Blocks, Group, First
<1> SUFFICES ASSUME pc'[t] \in Visiting,
                    NEW o \in Group(t) \ {t}, NEW s \in Sides, s < Panels(o),
                    Held(t, o, s)'
             PROVE  working'[o][t][s]
    BY <1>0, <1>1, GroupFacts DEF HeldSet
<1>2. o \in Threads /\ s \in Nat BY GroupFacts, ConstantFacts DEF Sides
<1>3. pc[t] \in Visiting /\ Held(t, o, s) => working[o][t][s]
    BY <1>0 DEF HeldSet
<1>4. pc[t] \in Visiting => current[t] \in Group(t)
    BY <1>0 DEF ThreadShape
<1>5. CASE AfterPack(t)
    <2>1. /\ blk[t] = 1 /\ blk'[t] = 1 /\ pc'[t] = "visit"
        BY <1>0, <1>5 DEF AfterPack, Go, TypeOK, ThreadShape, Packing
    <2>2. ~Passed(t, o, s)' BY <1>5, PassedStep
    <2> QED BY <2>1, <2>2 DEF Held
<1>6. CASE Visit(t) \/ Revisit(t) \/ EndRead(t)
    <2>1. /\ blk' = blk /\ side' = side /\ current' = current /\ working' = working
          /\ pc[t] \in Visiting
        BY <1>6 DEF Visit, Revisit, EndRead, Visiting
    <2>2. Passed(t, o, s)' <=> Passed(t, o, s) BY <1>6, PassedStep
    <2>3. CASE blk[t] = 1 /\ o = current[t] /\ s = side[t] /\ Visit(t)
        BY <2>1, <2>3 DEF Visit
    <2>4. CASE ~(blk[t] = 1 /\ o = current[t] /\ s = side[t] /\ Visit(t))
        BY <1>0, <1>1, <1>3, <1>6, <2>1, <2>2, <2>4 DEF Held, Revisit, EndRead, Blocks
    <2> QED BY <2>3, <2>4
<1>7. CASE Clear(t)
    <2>1. /\ pc[t] = "clear" /\ pc'[t] = "visit" /\ blk' = blk /\ current' = current
          /\ side'[t] = side[t] + 1
        BY <1>0, <1>7 DEF Clear, Go, TypeOK
    <2>2. Passed(t, o, s)' <=> Passed(t, o, s) \/ (o = current[t] /\ s = side[t])
        BY <1>7, PassedStep
    <2>3. working[o][t][s] =>
             working'[o][t][s] \/ (LastBlock(t) /\ o = current[t] /\ s = side[t])
        BY <1>0, <1>2, FlagFrame
    <2>4. Held(t, o, s) /\ ~(LastBlock(t) /\ o = current[t] /\ s = side[t])
        BY <1>0, <1>1, <2>1, <2>2 DEF Held, LastBlock, Blocks
    <2> QED BY <1>3, <2>1, <2>3, <2>4 DEF Visiting
<1>8. CASE NextRegion(t)
    <2>1. pc[t] = "visit" /\ pc' = pc /\ blk' = blk /\ working' = working
        BY <1>8 DEF NextRegion
    <2>2. Passed(t, o, s)' <=> Passed(t, o, s) BY <1>8, PassedStep
    <2>3. Held(t, o, s) BY <1>1, <2>1, <2>2 DEF Held, Blocks
    <2> QED BY <1>3, <2>1, <2>3 DEF Visiting
<1>9. CASE NextBlock(t)
    <2>1. /\ pc[t] = "visit" /\ blk[t] < Blocks(t) /\ working' = working
          /\ ~RegionsLeft(t)
        BY <1>0, <1>9 DEF NextBlock, Go, TypeOK, Visiting
    <2>2. CASE blk[t] = 1
        <3>1. current[t] = t BY <2>1, <2>2 DEF RegionsLeft
        <3>2. Place(TRUE, t, o) < Place(TRUE, t, t) BY <1>0, PlaceFacts
        <3>3. Held(t, o, s) BY <2>1, <2>2, <3>1, <3>2 DEF Held, Passed
        <3> QED BY <1>3, <2>1, <3>3 DEF Visiting
    <2>3. CASE blk[t] > 1
        <3>1. Held(t, o, s) BY <1>0, <1>1, <2>1, <2>3 DEF Held
        <3> QED BY <1>3, <2>1, <3>1 DEF Visiting
    <2>4. blk[t] \in Nat \ {0} BY <1>0 DEF TypeOK
    <2>5. blk[t] = 1 \/ blk[t] > 1 BY <2>4
    <2> QED BY <2>2, <2>3, <2>5
<1>10. CASE \/ Begin(t) \/ NextStep(t) \/ BeginPack(t) \/ EndPack(t) \/ Publish(t)
            \/ Drain(t)
    BY <1>0, <1>10 DEF Begin, NextStep, BeginPack, EndPack, Publish, Drain, Go, TypeOK,
                       Visiting
<1> QED BY <1>5, <1>6, <1>7, <1>8, <1>9, <1>10 DEF InnerThread

LEMMA AllHeldSetWorker ==
    ASSUME Inv, NEW t \in Threads, InnerThread(t)
    PROVE  AllHeldSet'
BY HeldSetSelf, HeldSetOthers DEF AllHeldSet

\* The invariants about packing and about threads outside the loops.
LEMMA PackingFreeWorker ==
    ASSUME Inv, NEW t \in Threads, InnerThread(t)
    PROVE  PackingFree'
<1>0. TypeOK /\ WorkerShape /\ PackingFree BY DEF Inv
<1> SUFFICES ASSUME NEW o \in Threads, NEW r \in Threads, pc'[o] = "packing"
             PROVE  ~working'[o][r][side'[o]]
    BY DEF PackingFree
<1>1. CASE pc[o] = "packing" /\ side'[o] = side[o]
    <2>1. side[o] \in Sides /\ ~working[o][r][side[o]]
        BY <1>0, <1>1, SideFacts DEF PackingFree
    <2>2. pc[o] # "publish" BY <1>1
    <2> QED BY <1>0, <1>1, <2>1, <2>2, FlagFrame
<1>2. CASE o = t /\ BeginPack(t)
    <2>1. side'[t] = side[t] /\ working' = working BY <1>2 DEF BeginPack
    <2> QED BY <1>2, <2>1 DEF BeginPack, NobodyReads
<1>3. o = t => BeginPack(t)
    BY <1>0 DEF InnerThread, Begin, NextStep, AfterPack, EndPack, Publish, Visit,
           Revisit, EndRead, Clear, NextRegion, NextBlock, Drain, Go, TypeOK
<1> QED BY <1>0, <1>1, <1>2, <1>3, Frame

LEMMA ClosedWorker ==
    ASSUME Inv, NEW t \in Threads, InnerThread(t)
    PROVE  Closed'
<1>0. TypeOK /\ Closed BY DEF Inv
<1> SUFFICES ASSUME NEW o \in Threads, NEW r \in Threads, NEW s \in Sides,
                    pc'[o] \in {"start", "returned"}
             PROVE  ~working'[o][r][s]
    BY DEF Closed
<1>1. CASE pc[o] \in {"start", "returned"}
    BY <1>0, <1>1, FlagFrame DEF Closed
<1>2. CASE o = t /\ Drain(t)
    <2>1. ~working[o][r][s] BY <1>2 DEF Drain, Drained, NobodyReads
    <2>2. working' = working BY <1>2 DEF Drain
    <2> QED BY <2>1, <2>2
<1>3. o = t => pc[o] = "start" \/ Drain(t)
    BY <1>0 DEF InnerThread, Begin, NextStep, AfterPack, BeginPack, EndPack, Publish, Visit,
           Revisit, EndRead, Clear, NextRegion, NextBlock, Go, TypeOK
<1> QED BY <1>0, <1>1, <1>2, <1>3, Frame
-----------------------------------------------------------------------------
(* The driver's steps and the cancellation.                                *)

\* The panels of a round are changed only while no worker is in its loops.
LEMMA Unmoved ==
    ASSUME Inv, UNCHANGED <<working, threadVars>>,
           round' = round \/ \A t \in Threads : pc[t] \in {"idle", "returned"}
    PROVE  WorkerShape' /\ AllHeldSet' /\ PackingFree' /\ Closed'
<1>1. /\ UNCHANGED <<working, pc, blk, current, side, reader>>
      /\ WorkerShape /\ AllHeldSet /\ PackingFree /\ Closed
    BY DEF threadVars, Inv
<1>2. PackingFree' /\ Closed' BY <1>1 DEF PackingFree, Closed
<1>3. CASE round' = round
    BY <1>1, <1>2, <1>3 DEF WorkerShape, ThreadShape, AllHeldSet, HeldSet, Held, Passed,
                            Panels
<1>4. CASE \A t \in Threads : pc[t] \in {"idle", "returned"}
    BY <1>1, <1>2, <1>4 DEF WorkerShape, ThreadShape, AllHeldSet, HeldSet, Packing, Visiting
<1> QED BY <1>3, <1>4

LEMMA InvDriver ==
    ASSUME Inv, GemmDriver \/ Supersede \/ UNCHANGED vars
    PROVE  Inv'
<1>0. TypeOK /\ DriverShape BY DEF Inv
<1>1. CASE ClearFlags
    <2>0. TypeOK' BY <1>1, TypeDriver DEF GemmDriver
    <2>1. /\ driver' = "exec" /\ working' = Flags(FALSE)
          /\ \A t \in Threads : /\ pc'[t] = "start" /\ blk'[t] = 1 /\ side'[t] = 0
                                /\ reader'[t] = t
        BY <1>1 DEF ClearFlags, Cleared
    <2>2. DriverShape' BY <2>1 DEF DriverShape
    <2>3. ASSUME NEW t \in Threads PROVE ThreadShape(t)'
        <3>1. Blocks(t) \in Nat /\ Blocks(t) > 0 /\ t \in Group(t)
            BY <1>0, LoopFacts, GroupFacts
        <3> QED BY <2>1, <3>1 DEF ThreadShape, Packing, Visiting, Blocks, Group, First
    <2>4. AllHeldSet' BY <2>1 DEF AllHeldSet, HeldSet, Visiting
    <2>5. PackingFree' BY <2>1 DEF PackingFree
    <2>6. Closed' BY <2>1 DEF Closed, Flags
    <2> QED BY <2>0, <2>2, <2>3, <2>4, <2>5, <2>6 DEF Inv, WorkerShape
<1>2. CASE Join
    <2>0. TypeOK' BY <1>2, TypeDriver DEF GemmDriver
    <2>1. /\ \A t \in Threads : pc[t] = "returned"
          /\ driver' = "poll"
          /\ UNCHANGED <<round, working, threadVars>>
        BY <1>2 DEF Join
    <2>2. DriverShape' BY <2>1 DEF DriverShape, threadVars
    <2> QED BY <2>0, <2>1, <2>2, Unmoved DEF Inv
<1>3. CASE NextRound
    <2>0. TypeOK' BY <1>3, TypeDriver DEF GemmDriver
    <2>1. /\ driver # "exec" /\ driver' \notin {"exec", "poll"}
          /\ UNCHANGED <<working, threadVars>>
        BY <1>3 DEF NextRound
    <2>2. DriverShape' BY <1>0, <2>1 DEF DriverShape, threadVars
    <2>3. \A t \in Threads : pc[t] \in {"idle", "returned"} BY <1>0, <2>1 DEF DriverShape
    <2> QED BY <2>0, <2>1, <2>2, <2>3, Unmoved DEF Inv
<1>4. CASE Supersede \/ UNCHANGED vars
    <2>0. TypeOK'
        BY <1>0, <1>4, TypeDriver DEF TypeOK, vars, driverVars, threadVars
    <2>1. driver' = driver /\ UNCHANGED <<round, working, threadVars>>
        BY <1>4 DEF Supersede, vars, driverVars
    <2>2. DriverShape' BY <1>0, <2>1 DEF DriverShape, threadVars
    <2> QED BY <2>0, <2>1, <2>2, Unmoved DEF Inv
<1> QED BY <1>1, <1>2, <1>3, <1>4 DEF GemmDriver

LEMMA InvWorker ==
    ASSUME Inv, NEW t \in Threads, InnerThread(t)
    PROVE  Inv'
BY TypeWorker, DriverShapeWorker, WorkerShapeWorker, AllHeldSetWorker, PackingFreeWorker,
   ClosedWorker DEF Inv

LEMMA InvInit == Init => Inv
<1> SUFFICES ASSUME Init PROVE Inv OBVIOUS
<1>1. TypeOK BY TypeInit
<1>2. driver = "clear" /\ \A t \in Threads : /\ pc[t] = "idle" /\ blk[t] = 1
                                            /\ reader[t] = t
    BY DEF Init
<1>3. DriverShape BY <1>2 DEF DriverShape
<1>4. ASSUME NEW t \in Threads PROVE ThreadShape(t)
    <2>1. Blocks(t) \in Nat /\ Blocks(t) > 0 /\ t \in Group(t)
        BY <1>1, LoopFacts, GroupFacts
    <2> QED BY <1>2, <2>1 DEF ThreadShape, Packing, Visiting
<1>5. AllHeldSet /\ PackingFree /\ Closed
    BY <1>2 DEF AllHeldSet, HeldSet, Visiting, PackingFree, Closed
<1> QED BY <1>1, <1>3, <1>4, <1>5 DEF Inv, WorkerShape

-----------------------------------------------------------------------------
(* The theorems.                                                           *)

(* The invariant: at any moment every panel a thread of the group counts   *)
(* on -- has waited for and not yet given back (level3_thread.c, the flags *)
(* job[].working) -- has its flag set, a panel being packed has none, and  *)
(* a thread that has returned has none.                                    *)
THEOREM InvCorrect == Spec => []Inv
<1>1. Inv /\ [Next]_vars => Inv'
    <2> SUFFICES ASSUME Inv, [Next]_vars PROVE Inv' OBVIOUS
    <2>1. CASE GemmDriver \/ Supersede \/ UNCHANGED vars BY <2>1, InvDriver
    <2>2. CASE \E t \in Threads : InnerThread(t) BY <2>2, InvWorker
    <2> QED BY <2>1, <2>2 DEF Next, Finished
<1> QED BY <1>1, InvInit, PTL DEF Spec

(* The variables of gemm_driver and inner_thread have their types.         *)
THEOREM TypeCorrect == Spec => []TypeOK
<1>1. Inv => TypeOK BY DEF Inv
<1> QED BY <1>1, InvCorrect, PTL

\* The flag of a panel that is read is set.
LEMMA ReadSet ==
    ASSUME Inv, NEW t \in Threads, NEW o \in Threads, NEW s \in Sides,
           Reads(t, o, s), o # t
    PROVE  working[o][t][s]
<1>1. /\ pc[t] = "reading" /\ current[t] = o /\ side[t] = s
      /\ o \in Group(t) /\ s < Panels(o) /\ blk[t] \in Nat \ {0}
    BY DEF Inv, TypeOK, WorkerShape, ThreadShape, Reads, Visiting
<1>2. ~Passed(t, o, s)
    <2>1. Place(blk[t] = 1, t, o) \in Int BY <1>1, PlaceFacts
    <2> QED BY <1>1, <2>1, ConstantFacts DEF Passed, Sides
<1>3. Held(t, o, s) BY <1>1, <1>2 DEF Held
<1> QED BY <1>1, <1>3 DEF Inv, AllHeldSet, HeldSet, Visiting

(* level3_thread.c: no panel of B is packed anew while a kernel of another *)
(* thread still reads it.                                                  *)
THEOREM NoPanelRaceCorrect == Spec => []NoPanelRace
<1>1. Inv => NoPanelRace
    <2> SUFFICES ASSUME Inv, NEW t \in Threads, NEW o \in Threads, NEW s \in Sides,
                        Reads(t, o, s), pc[o] = "packing", side[o] = s
                 PROVE  FALSE
        BY DEF NoPanelRace
    <2>1. o # t BY DEF Reads
    <2> QED BY <2>1, ReadSet DEF Inv, PackingFree
<1> QED BY <1>1, InvCorrect, PTL

(* level3_thread.c: no kernel reads the work buffer of a thread whose      *)
(* inner_thread has returned.                                              *)
THEOREM NoUseAfterReturnCorrect == Spec => []NoUseAfterReturn
<1>1. Inv => NoUseAfterReturn
    <2> SUFFICES ASSUME Inv, NEW t \in Threads, NEW o \in Threads, NEW s \in Sides,
                        Reads(t, o, s), pc[o] = "returned"
                 PROVE  FALSE
        BY DEF NoUseAfterReturn
    <2>1. o # t BY DEF Reads
    <2> QED BY <2>1, ReadSet DEF Inv, Closed
<1> QED BY <1>1, InvCorrect, PTL

(* gemm_driver: a round, cancelled or not, ends with every flag cleared.   *)
THEOREM NoFlagLeftCorrect == Spec => []NoFlagLeft
<1>1. Inv => NoFlagLeft
    <2> SUFFICES ASSUME Inv, driver = "poll" PROVE working = Flags(FALSE)
        BY DEF NoFlagLeft
    <2>1. working \in [Threads -> [Threads -> [Sides -> BOOLEAN]]] BY DEF Inv, TypeOK
    <2>2. ASSUME NEW o \in Threads, NEW r \in Threads, NEW s \in Sides
          PROVE  working[o][r][s] = FALSE
        <3>1. ~working[o][r][s] BY DEF Inv, DriverShape, Closed
        <3>2. working[o][r][s] \in BOOLEAN BY <2>1
        <3> QED BY <3>1, <3>2
    <2>3. \A o \in Threads, r \in Threads : working[o][r] = [b \in Sides |-> FALSE]
        BY <2>1, <2>2
    <2>4. \A o \in Threads : working[o] = [r \in Threads |-> [b \in Sides |-> FALSE]]
        BY <2>1, <2>3
    <2> QED BY <2>1, <2>4 DEF Flags
<1> QED BY <1>1, InvCorrect, PTL
=============================================================================
