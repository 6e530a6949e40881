-------------------------- MODULE GemmPanelProofs --------------------------
(***************************************************************************)
(* What the panels and the kernels of GemmThread are worth, for every      *)
(* value of the constants: the right step's panel is read, and a round     *)
(* that nobody cancelled is whole.  And that a round comes to an end, as   *)
(* far as safety goes: its threads never wait for one another in a circle, *)
(* and none ever goes back.  Rests on the invariant Inv of                 *)
(* GemmThreadProofs.                                                       *)
(***************************************************************************)
EXTENDS GemmThreadProofs, WellFoundedInduction

-----------------------------------------------------------------------------
(* The strengthening.                                                      *)

Ended == {"drain", "returned"}
Loading == {"free", "packing", "publish"}

\* In its present step of k owner o is through with packing panel s.
Packed(o, s) ==
    \/ pc[o] \in Visiting \cup Ended
    \/ pc[o] \in Loading /\ s < side[o]
    \/ pc[o] = "publish" /\ s = side[o]

\* In its present step of k owner o has set the flag of reader r for panel s.
Published(o, r, s) ==
    \/ pc[o] \in Visiting \cup Ended
    \/ pc[o] \in Loading /\ s < side[o]
    \/ pc[o] = "publish" /\ s = side[o] /\ r < reader[o]

\* In its present step of k thread t has given panel s of o back.
GivenBack(t, o, s) ==
    \/ pc[t] \in Visiting /\ LastBlock(t) /\ Passed(t, o, s)
    \/ pc[t] \in Ended

\* How often something has happened that happens once a step.
Times(step, happened) == IF happened THEN step ELSE step - 1

\* A flag is set exactly when its panel was published once more than given back.
FlagCount(o, t, s) ==
    Times(ls[o], Published(o, t, s)) =
        Times(ls[t], GivenBack(t, o, s)) + (IF working[o][t][s] THEN 1 ELSE 0)

FlagCounts ==
    driver = "exec" /\ product =>
        \A o \in Threads : \A t \in Group(o) : \A s \in Sides :
            s < Panels(o) => FlagCount(o, t, s)

\* Publishing begins with the first reader, and a panel being published has no
\* flag for the readers it is still to go to.
PublishFree ==
    \A o \in Threads :
        /\ pc[o] = "packing" => reader[o] = First(o)
        /\ pc[o] = "publish" =>
              \A r \in Group(o) : r >= reader[o] => ~working[o][r][side[o]]

\* Uncancelled, a panel holds the present step's part of B once that is packed
\* and the last step's until the packing begins.
PanelStep(o, s) ==
    /\ Packed(o, s) => panel[o][s] = Step(ls[o])
    /\ ~Packed(o, s) /\ ls[o] > 1 /\ ~(pc[o] = "packing" /\ s = side[o])
          => panel[o][s] = Step(ls[o] - 1)

PanelSteps ==
    driver = "exec" /\ product /\ ~superseded =>
        \A o \in Threads : \A s \in Sides : s < Panels(o) => PanelStep(o, s)

\* A thread takes no cancellation for one that did not happen.
LocalCopy == \A t \in Threads : cancelled[t] => superseded

\* Without a product to add the threads return at once.
NoProduct == ~product => \A t \in Threads : pc[t] \in {"idle", "start", "returned"}

\* The kernel lies behind thread t in its loops.  The one on the own panel and
\* the first block is applied while the panel is packed.
Behind(t, kernel) ==
    \/ kernel[1] < ls[t]
    \/ kernel[1] = ls[t] /\ kernel[2] = 1 /\ kernel[3] = t /\ Packed(t, kernel[4])
    \/ kernel[1] = ls[t] /\ ~(kernel[2] = 1 /\ kernel[3] = t) /\ pc[t] \in Visiting
          /\ \/ kernel[2] < blk[t]
             \/ kernel[2] = blk[t] /\ Passed(t, kernel[3], kernel[4])
             \/ /\ pc[t] = "clear"
                /\ kernel[2] = blk[t] /\ kernel[3] = current[t] /\ kernel[4] = side[t]
    \/ pc[t] \in Ended

\* A thread that has skipped nothing has applied just the kernels behind it.
DoneRight(t) ==
    ~cancelled[t] => done[t] = {kernel \in AllKernels(t) : Behind(t, kernel)}

AllDoneRight == driver \in {"exec", "poll"} /\ product => \A t \in Threads : DoneRight(t)

\* What the threads have reached, and what they have made of it.
PanelInv ==
    /\ FlagCounts
    /\ PublishFree
    /\ PanelSteps
    /\ LocalCopy
    /\ NoProduct
    /\ AllDoneRight

-----------------------------------------------------------------------------
(* Groups and walks.                                                       *)

LEMMA GroupSame ==
    ASSUME NEW t \in Threads, NEW o \in Group(t)
    PROVE  o \in Threads /\ First(o) = First(t) /\ Group(o) = Group(t) /\ t \in Group(o)
<1> DEFINE p == o \div NM
           q == t \div NM
<1>1. o \in Threads /\ t \in Group(t) BY GroupFacts
<1>2. o \in Nat /\ t \in Nat BY <1>1, ConstantFacts DEF Threads
<1>3. p \in Nat /\ NM * p <= o /\ o < NM * p + NM BY <1>2, Division, ConstantFacts
<1>4. q \in Nat /\ NM * q <= t /\ t < NM * q + NM BY <1>2, Division, ConstantFacts
<1>5. First(o) = NM * p /\ First(t) = NM * q /\ NM * p \in Nat /\ NM * q \in Nat
    BY <1>3, <1>4, ConstantFacts DEF First
<1>6. NM * q <= o /\ o < NM * q + NM BY <1>2, <1>5, ConstantFacts DEF Group
<1> HIDE DEF p, q
<1>7. ~(p < q)
    <2>1. SUFFICES ASSUME p + 1 <= q PROVE FALSE BY <1>3, <1>4
    <2>2. NM * (p + 1) <= NM * q BY <2>1, <1>3, <1>4, ConstantFacts, Monotone
    <2>3. NM * (p + 1) = NM * p + NM BY <1>3, ConstantFacts
    <2> QED BY <1>2, <1>3, <1>5, <1>6, <2>2, <2>3, ConstantFacts
<1>8. ~(q < p)
    <2>1. SUFFICES ASSUME q + 1 <= p PROVE FALSE BY <1>3, <1>4
    <2>2. NM * (q + 1) <= NM * p BY <2>1, <1>3, <1>4, ConstantFacts, Monotone
    <2>3. NM * (q + 1) = NM * q + NM BY <1>4, ConstantFacts
    <2> QED BY <1>2, <1>3, <1>5, <1>6, <2>2, <2>3, ConstantFacts
<1>9. p = q BY <1>3, <1>4, <1>7, <1>8
<1>10. First(o) = First(t) BY <1>5, <1>9
<1> QED BY <1>1, <1>10 DEF Group

-----------------------------------------------------------------------------
(* What a step of one worker leaves alone, and what it adds.               *)

LEMMA StepFrame ==
    ASSUME TypeOK, NEW t \in Threads, InnerThread(t)
    PROVE  /\ superseded' = superseded
           /\ cancelled[t] => cancelled'[t]
           /\ cancelled'[t] => cancelled[t] \/ superseded
           /\ \A u \in Threads \ {t} :
                 /\ cancelled'[u] = cancelled[u] /\ ls'[u] = ls[u]
                 /\ panel'[u] = panel[u] /\ done'[u] = done[u]
<1> USE DEF TypeOK, Poll, Polled, driverVars
<1>1. CASE Begin(t) BY <1>1 DEF Begin
<1>2. CASE NextStep(t) BY <1>2 DEF NextStep
<1>3. CASE AfterPack(t) BY <1>3 DEF AfterPack
<1>4. CASE BeginPack(t) BY <1>4 DEF BeginPack
<1>5. CASE EndPack(t) BY <1>5 DEF EndPack
<1>6. CASE Publish(t) BY <1>6 DEF Publish
<1>7. CASE Visit(t) BY <1>7 DEF Visit
<1>8. CASE Revisit(t) BY <1>8 DEF Revisit
<1>9. CASE EndRead(t) BY <1>9 DEF EndRead
<1>10. CASE Clear(t) BY <1>10 DEF Clear
<1>11. CASE NextRegion(t) BY <1>11 DEF NextRegion
<1>12. CASE NextBlock(t) BY <1>12 DEF NextBlock
<1>13. CASE Drain(t) BY <1>13 DEF Drain
<1> QED BY <1>1, <1>2, <1>3, <1>4, <1>5, <1>6, <1>7, <1>8, <1>9, <1>10, <1>11, <1>12,
           <1>13 DEF InnerThread

\* Publishing is counted once a step.
LEMMA PublishedStep ==
    ASSUME Inv, PublishFree, product, NEW t \in Threads, InnerThread(t),
           NEW r \in Group(t), NEW s \in Sides, s < Panels(t)
    PROVE  Times(ls'[t], Published(t, r, s)') =
              Times(ls[t], Published(t, r, s))
                 + (IF pc[t] = "publish" /\ r = reader[t] /\ s = side[t] THEN 1 ELSE 0)
<1>0. TypeOK /\ ThreadShape(t) BY DEF Inv, WorkerShape
<1>1. side[t] \in Nat /\ s \in Nat /\ ls[t] \in Int
    BY <1>0, ConstantFacts DEF TypeOK, Sides
<1>2. reader[t] \in Group(t) /\ First(t) \in Nat
    BY <1>0, GroupFacts DEF ThreadShape
<1>3. /\ reader[t] \in Int /\ r \in Int /\ First(t) <= r
      /\ reader[t] + 1 \notin Group(t) => r <= reader[t]
    BY <1>2, ConstantFacts DEF Group
<1>4. CASE Begin(t)
    <2>1. pc[t] = "start" /\ pc'[t] = "step" /\ ls' = ls
        BY <1>0, <1>4 DEF Begin, Go, TypeOK
    <2> QED BY <1>1, <2>1 DEF Visiting, Ended, Loading, Published, Times
<1>5. CASE NextStep(t)
    <2>1. pc[t] = "step" /\ pc'[t] = "free" /\ ls' = ls /\ side'[t] = 0
        BY <1>0, <1>5 DEF NextStep, Go, TypeOK, ThreadShape
    <2> QED BY <1>1, <2>1 DEF Visiting, Ended, Loading, Published, Times
<1>6. CASE AfterPack(t)
    <2>1. pc[t] = "free" /\ pc'[t] = "visit" /\ ls' = ls /\ side[t] = Panels(t)
        BY <1>0, <1>6 DEF AfterPack, Go, TypeOK
    <2> QED BY <1>1, <2>1 DEF Visiting, Ended, Loading, Published, Times
<1>7. CASE BeginPack(t)
    <2>1. /\ pc[t] = "free" /\ pc'[t] \in {"packing", "publish"} /\ ls' = ls
          /\ side' = side /\ reader'[t] = First(t)
        BY <1>0, <1>7 DEF BeginPack, Go, TypeOK
    <2> QED BY <1>1, <1>2, <1>3, <2>1 DEF Visiting, Ended, Loading, Published, Times
<1>8. CASE EndPack(t)
    <2>1. /\ pc[t] = "packing" /\ pc'[t] = "publish" /\ ls' = ls
          /\ side' = side /\ reader' = reader
        BY <1>0, <1>8 DEF EndPack, Go, TypeOK
    <2>2. reader[t] = First(t) BY <2>1 DEF PublishFree
    <2> QED BY <1>1, <1>2, <1>3, <2>1, <2>2 DEF Visiting, Ended, Loading, Published, Times
<1>9. CASE Publish(t)
    <2>1. pc[t] = "publish" /\ ls' = ls BY <1>9 DEF Publish
    <2>2. CASE reader[t] + 1 \in Group(t)
        <3>1. pc'[t] = "publish" /\ side'[t] = side[t] /\ reader'[t] = reader[t] + 1
            BY <1>0, <1>9, <2>2 DEF Publish, TypeOK
        <3> QED BY <1>1, <1>3, <2>1, <3>1 DEF Visiting, Ended, Loading, Published, Times
    <2>3. CASE reader[t] + 1 \notin Group(t)
        <3>1. pc'[t] = "free" /\ side'[t] = side[t] + 1
            BY <1>0, <1>9, <2>3 DEF Publish, Go, TypeOK
        <3> QED BY <1>1, <1>3, <2>1, <2>3, <3>1
                DEF Visiting, Ended, Loading, Published, Times
    <2> QED BY <2>2, <2>3
<1>10. CASE \/ Visit(t) \/ Revisit(t) \/ EndRead(t) \/ Clear(t) \/ NextRegion(t)
            \/ NextBlock(t) \/ Drain(t)
    <2>1. pc[t] \in Visiting \cup {"drain"}
        BY <1>10 DEF Visit, Revisit, EndRead, Clear, NextRegion, NextBlock, Drain, Visiting
    <2>2. \/ pc'[t] \in Visiting \cup Ended /\ ls' = ls
          \/ pc'[t] = "step" /\ ls'[t] = ls[t] + 1
        <3>1. CASE NextBlock(t) BY <1>0, <3>1 DEF NextBlock, Visiting, Ended, Go, TypeOK
        <3>2. CASE ~NextBlock(t)
            BY <1>0, <1>10, <3>2 DEF Visit, Revisit, EndRead, Clear, NextRegion, Drain,
                                     Visiting, Ended, Go, TypeOK
        <3> QED BY <3>1, <3>2
    <2> QED BY <1>1, <2>1, <2>2 DEF Visiting, Ended, Loading, Published, Times
<1> QED BY <1>4, <1>5, <1>6, <1>7, <1>8, <1>9, <1>10 DEF InnerThread

\* So is giving back.
LEMMA GivenBackStep ==
    ASSUME Inv, product, NEW t \in Threads, InnerThread(t),
           NEW o \in Group(t), NEW s \in Sides, s < Panels(o)
    PROVE  Times(ls'[t], GivenBack(t, o, s)') =
              Times(ls[t], GivenBack(t, o, s))
                 + (IF /\ pc[t] = "clear" /\ LastBlock(t)
                       /\ o = current[t] /\ s = side[t] THEN 1 ELSE 0)
<1>8. TypeOK /\ ThreadShape(t) BY DEF Inv, WorkerShape
<1>9. blk[t] \in Nat \ {0} /\ side[t] \in Nat /\ ls[t] \in Nat /\ s \in Nat
    BY <1>8, ConstantFacts DEF TypeOK, Sides
<1>10. Blocks(t) \in Nat /\ o \in Threads BY <1>8, LoopFacts, GroupFacts
<1>0. /\ TypeOK /\ ThreadShape(t) /\ blk[t] \in Nat \ {0} /\ Blocks(t) \in Nat
      /\ o \in Threads /\ side[t] \in Nat /\ s \in Nat
    BY <1>8, <1>9, <1>10
<1>1. ls[t] \in Int BY <1>9
<1>2. CASE Begin(t) \/ NextStep(t) \/ BeginPack(t) \/ EndPack(t) \/ Publish(t)
    <2>1. /\ pc[t] \in Packing \cup {"start"} /\ pc'[t] \in Packing
          /\ ls' = ls
        BY <1>0, <1>2 DEF Begin, NextStep, BeginPack, EndPack, Publish, Packing, Go, TypeOK
    <2> QED BY <1>1, <2>1 DEF Packing, Visiting, Ended, GivenBack, Times
<1>3. CASE AfterPack(t)
    <2>1. pc[t] = "free" /\ pc'[t] = "visit" /\ ls' = ls
        BY <1>0, <1>3 DEF AfterPack, Go, TypeOK
    <2>2. ~Passed(t, o, s)' BY <1>3, PassedStep
    <2> QED BY <1>1, <2>1, <2>2 DEF Visiting, Ended, GivenBack, Times
<1>4. CASE Visit(t) \/ Revisit(t) \/ EndRead(t) \/ NextRegion(t)
    <2>1. /\ pc[t] \in {"visit", "reading"} /\ pc'[t] \in Visiting /\ ls' = ls
          /\ LastBlock(t)' <=> LastBlock(t)
        BY <1>0, <1>4 DEF Visit, Revisit, EndRead, NextRegion, Visiting, Go, TypeOK,
                          LastBlock, Blocks
    <2>2. Passed(t, o, s)' <=> Passed(t, o, s) BY <1>4, PassedStep
    <2> QED BY <1>1, <2>1, <2>2 DEF Visiting, Ended, GivenBack, Times
<1>5. CASE Clear(t)
    <2>1. /\ pc[t] = "clear" /\ pc'[t] = "visit" /\ ls' = ls
          /\ LastBlock(t)' <=> LastBlock(t)
        BY <1>0, <1>5 DEF Clear, Go, TypeOK, LastBlock, Blocks
    <2>2. Passed(t, o, s)' <=> Passed(t, o, s) \/ (o = current[t] /\ s = side[t])
        BY <1>5, PassedStep
    <2>3. ~(Passed(t, o, s) /\ o = current[t] /\ s = side[t])
        <3>1. Place(blk[t] = 1, t, o) \in Int BY PlaceFacts
        <3> QED BY <1>0, <3>1 DEF Passed
    <2> QED BY <1>1, <2>1, <2>2, <2>3 DEF Visiting, Ended, GivenBack, Times
<1>6. CASE NextBlock(t)
    <2>1. /\ Passed(t, o, s)
          /\ blk[t] < Blocks(t) => ~Passed(t, o, s)'
        BY <1>6, PassedStep
    <2>2. pc[t] = "visit" BY <1>6 DEF NextBlock
    <2>3. CASE blk[t] < Blocks(t)
        <3>1. pc'[t] = "visit" /\ ls' = ls BY <1>0, <1>6, <2>2, <2>3 DEF NextBlock
        <3>2. ~LastBlock(t) BY <1>0, <2>3 DEF LastBlock
        <3> QED BY <1>1, <2>1, <2>2, <2>3, <3>1, <3>2
                DEF Visiting, Ended, GivenBack, Times
    <2>4. CASE blk[t] = Blocks(t)
        <3>1. \/ pc'[t] = "step" /\ ls'[t] = ls[t] + 1
              \/ pc'[t] = "drain" /\ ls' = ls
            BY <1>0, <1>6, <2>4 DEF NextBlock, Go, TypeOK
        <3> QED BY <1>1, <2>1, <2>2, <2>4, <3>1
                DEF Visiting, Ended, GivenBack, Times, LastBlock
    <2>5. blk[t] < Blocks(t) \/ blk[t] = Blocks(t) BY <1>0 DEF ThreadShape
    <2> QED BY <2>3, <2>4, <2>5
<1>7. CASE Drain(t)
    <2>1. pc[t] = "drain" /\ pc'[t] = "returned" /\ ls' = ls
        BY <1>0, <1>7 DEF Drain, Go, TypeOK
    <2> QED BY <1>1, <2>1 DEF Visiting, Ended, GivenBack, Times
<1> QED BY <1>2, <1>3, <1>4, <1>5, <1>6, <1>7 DEF InnerThread

-----------------------------------------------------------------------------
(* The steps of the workers.                                               *)

\* The flag of a panel that its reader is about to give back is set.
LEMMA ClearSet ==
    ASSUME Inv, PanelInv, product, NEW t \in Threads, pc[t] = "clear", LastBlock(t),
           NEW s \in Sides, s = side[t]
    PROVE  working[current[t]][t][s]
<1> DEFINE o == current[t]
<1>1. /\ TypeOK /\ ThreadShape(t) /\ DriverShape /\ driver = "exec"
    BY DEF Inv, WorkerShape, DriverShape, TypeOK
<1>2. o \in Group(t) /\ s < Panels(o) BY <1>1 DEF ThreadShape, Visiting
<1>3. s \in Int /\ blk[t] \in Nat \ {0} /\ ls[t] \in Int
    BY <1>1, ConstantFacts DEF Sides, TypeOK
<1>4. ~Passed(t, o, s)
    <2>1. Place(blk[t] = 1, t, o) \in Int BY <1>2, PlaceFacts
    <2> QED BY <1>3, <2>1 DEF Passed
<1>5. CASE o # t
    <2>1. blk[t] = 1 \/ blk[t] > 1 BY <1>3
    <2>2. Held(t, o, s) BY <1>4, <2>1 DEF Held, LastBlock
    <2> QED BY <1>2, <1>5, <2>2 DEF Inv, AllHeldSet, HeldSet, Visiting
<1>6. CASE o = t
    <2>1. FlagCount(t, t, s) BY <1>1, <1>2, <1>6 DEF PanelInv, FlagCounts
    <2>2. Published(t, t, s) /\ ~GivenBack(t, t, s)
        BY <1>4, <1>6 DEF Published, GivenBack, Visiting, Ended
    <2> QED BY <1>3, <1>6, <2>1, <2>2 DEF FlagCount, Times
<1> QED BY <1>5, <1>6

\* What a step does to a flag of the group.
LEMMA FlagStep ==
    ASSUME Inv, PanelInv, product, NEW u \in Threads, InnerThread(u),
           NEW o \in Threads, NEW t \in Group(o), NEW s \in Sides
    PROVE  LET sets == u = o /\ pc[o] = "publish" /\ t = reader[o] /\ s = side[o]
               clears == /\ u = t /\ pc[t] = "clear" /\ LastBlock(t)
                         /\ o = current[t] /\ s = side[t]
           IN  /\ sets => ~working[o][t][s] /\ working'[o][t][s]
               /\ clears => working[o][t][s] /\ ~working'[o][t][s]
               /\ ~sets /\ ~clears => (working'[o][t][s] <=> working[o][t][s])
<1> DEFINE sets == u = o /\ pc[o] = "publish" /\ t = reader[o] /\ s = side[o]
           clears == /\ u = t /\ pc[t] = "clear" /\ LastBlock(t)
                     /\ o = current[t] /\ s = side[t]
<1>1. TypeOK /\ t \in Threads BY GroupFacts DEF Inv
<1>2. ASSUME sets PROVE ~working[o][t][s] /\ working'[o][t][s]
    <2>1. reader[o] \in Int BY <1>1, ConstantFacts DEF TypeOK
    <2>2. ~working[o][t][s] BY <1>2, <2>1 DEF PanelInv, PublishFree
    <2>3. Publish(o)
        BY <1>2 DEF InnerThread, Begin, NextStep, AfterPack, BeginPack, EndPack, Visit,
                    Revisit, EndRead, Clear, NextRegion, NextBlock, Drain
    <2>4. working' = [working EXCEPT ![o][t][s] = TRUE] BY <1>2, <2>3 DEF Publish
    <2>5. working'[o][t][s] BY <1>1, <2>4 DEF TypeOK
    <2> QED BY <2>2, <2>5
<1>3. ASSUME clears PROVE working[o][t][s] /\ ~working'[o][t][s]
    <2>1. working[o][t][s] BY <1>1, <1>3, ClearSet
    <2>3. Clear(t)
        BY <1>3 DEF InnerThread, Begin, NextStep, AfterPack, BeginPack, EndPack, Publish,
                    Visit, Revisit, EndRead, NextRegion, NextBlock, Drain
    <2>4. working' = [working EXCEPT ![o][t][s] = @ /\ ~LastBlock(t)]
        BY <1>3, <2>3 DEF Clear
    <2>5. working'[o][t][s] = (working[o][t][s] /\ ~LastBlock(t))
        BY <1>1, <2>4 DEF TypeOK
    <2> QED BY <1>3, <2>1, <2>5
<1>4. ASSUME ~sets, ~clears PROVE working'[o][t][s] <=> working[o][t][s]
    BY <1>1, <1>4, FlagFrame
<1> QED BY <1>2, <1>3, <1>4

LEMMA FlagCountsWorker ==
    ASSUME Inv, PanelInv, NEW u \in Threads, InnerThread(u)
    PROVE  FlagCounts'
<1>0. TypeOK BY DEF Inv
<1>1. driver' = driver /\ product' = product /\ round' = round BY <1>0, Frame
<1> SUFFICES ASSUME driver = "exec", product,
                    NEW o \in Threads, NEW t \in Group(o), NEW s \in Sides, s < Panels(o)
             PROVE  FlagCount(o, t, s)'
    BY <1>1 DEF FlagCounts, Panels, Group, First
<1>2. FlagCount(o, t, s) BY DEF PanelInv, FlagCounts
<1>3. t \in Threads /\ o \in Group(t) BY GroupSame
<1>4. ls[o] \in Int /\ ls[t] \in Int BY <1>0, <1>3, ConstantFacts DEF TypeOK
<1> DEFINE sets == u = o /\ pc[o] = "publish" /\ t = reader[o] /\ s = side[o]
           clears == /\ u = t /\ pc[t] = "clear" /\ LastBlock(t)
                     /\ o = current[t] /\ s = side[t]
           p == Times(ls[o], Published(o, t, s))
           g == Times(ls[t], GivenBack(t, o, s))
<1>5. Times(ls'[o], Published(o, t, s)') = p + (IF sets THEN 1 ELSE 0)
    <2>1. CASE u = o BY <2>1, PublishedStep DEF PanelInv
    <2>2. CASE u # o
        <3>1. /\ pc'[o] = pc[o] /\ side'[o] = side[o] /\ reader'[o] = reader[o]
              /\ ls'[o] = ls[o]
            BY <1>0, <2>2, Frame, StepFrame
        <3>2. Published(o, t, s)' <=> Published(o, t, s) BY <3>1 DEF Published
        <3> QED BY <1>4, <2>2, <3>1, <3>2 DEF Times
    <2> QED BY <2>1, <2>2
<1>6. Times(ls'[t], GivenBack(t, o, s)') = g + (IF clears THEN 1 ELSE 0)
    <2>1. CASE u = t BY <1>3, <2>1, GivenBackStep
    <2>2. CASE u # t
        <3>1. /\ pc'[t] = pc[t] /\ side'[t] = side[t] /\ current'[t] = current[t]
              /\ ls'[t] = ls[t] /\ blk'[t] = blk[t]
            BY <1>0, <1>3, <2>2, Frame, StepFrame
        <3>2. GivenBack(t, o, s)' <=> GivenBack(t, o, s)
            BY <3>1 DEF GivenBack, LastBlock, Blocks, Passed
        <3> QED BY <1>4, <2>2, <3>1, <3>2 DEF Times
    <2> QED BY <2>1, <2>2
<1>7. /\ sets => ~working[o][t][s] /\ working'[o][t][s]
      /\ clears => working[o][t][s] /\ ~working'[o][t][s]
      /\ ~sets /\ ~clears => (working'[o][t][s] <=> working[o][t][s])
    BY FlagStep
<1>8. ~(sets /\ clears) OBVIOUS
<1>9. p \in Int /\ g \in Int BY <1>4 DEF Times
<1>10. p = g + (IF working[o][t][s] THEN 1 ELSE 0) BY <1>2 DEF FlagCount
<1>11. Times(ls'[o], Published(o, t, s)')
          = Times(ls'[t], GivenBack(t, o, s)') + (IF working'[o][t][s] THEN 1 ELSE 0)
    <2> HIDE DEF p, g, sets, clears
    <2> QED BY <1>5, <1>6, <1>7, <1>8, <1>9, <1>10
<1> QED BY <1>11 DEF FlagCount

LEMMA PublishFreeWorker ==
    ASSUME Inv, PanelInv, NEW t \in Threads, InnerThread(t)
    PROVE  PublishFree'
<1>0. TypeOK /\ PublishFree BY DEF Inv, PanelInv
<1> SUFFICES ASSUME NEW o \in Threads
             PROVE  /\ pc'[o] = "packing" => reader'[o] = First(o)
                    /\ pc'[o] = "publish" =>
                          \A r \in Group(o) : r >= reader'[o] => ~working'[o][r][side'[o]]
    BY DEF PublishFree, Group, First
<1>1. CASE o # t
    <2>1. pc'[o] = pc[o] /\ reader'[o] = reader[o] /\ side'[o] = side[o]
        BY <1>0, <1>1, Frame
    <2>2. pc[o] = "publish" => side[o] \in Sides BY SideFacts DEF Inv
    <2>3. Group(o) \subseteq Threads BY GroupFacts
    <2> QED BY <1>0, <1>1, <2>1, <2>2, <2>3, FlagFrame DEF PublishFree
<1>2. CASE o = t
    <2>1. CASE BeginPack(t)
        <3>1. /\ working' = working /\ side' = side /\ reader'[t] = First(t)
              /\ \A r \in Threads : ~working[t][r][side[t]]
            BY <1>0, <2>1 DEF BeginPack, NobodyReads, TypeOK
        <3> QED BY <1>2, <3>1, GroupFacts
    <2>2. CASE EndPack(t)
        <3>1. /\ working' = working /\ side' = side /\ pc'[t] = "publish"
              /\ pc[t] = "packing"
            BY <1>0, <2>2 DEF EndPack, Go, TypeOK
        <3>2. \A r \in Threads : ~working[t][r][side[t]] BY <3>1 DEF Inv, PackingFree
        <3> QED BY <1>2, <3>1, <3>2, GroupFacts
    <2>3. CASE Publish(t)
        <3>1. pc'[t] # "packing" BY <1>0, <2>3 DEF Publish, Go, TypeOK
        <3>2. ASSUME pc'[t] = "publish", NEW r \in Group(t), r >= reader'[t]
              PROVE  ~working'[t][r][side'[t]]
            <4>1. side' = side /\ reader'[t] = reader[t] + 1 /\ pc[t] = "publish"
                BY <1>0, <2>3, <3>2 DEF Publish, Go, TypeOK
            <4>2. reader[t] \in Int /\ r \in Int /\ r \in Threads
                BY <1>0, GroupFacts, ConstantFacts DEF TypeOK
            <4>3. r >= reader[t] /\ r # reader[t] BY <3>2, <4>1, <4>2
            <4>4. side[t] \in Sides BY <4>1, SideFacts DEF Inv
            <4>5. ~working[t][r][side[t]] BY <1>0, <4>1, <4>3 DEF PublishFree
            <4>6. ~working'[t][r][side[t]] BY <1>0, <4>2, <4>3, <4>4, <4>5, FlagFrame
            <4> QED BY <4>1, <4>6
        <3> QED BY <1>2, <3>1, <3>2
    <2>4. CASE ~BeginPack(t) /\ ~EndPack(t) /\ ~Publish(t)
        <3>1. pc'[t] \notin {"packing", "publish"}
            BY <1>0, <2>4 DEF InnerThread, Begin, NextStep, AfterPack, Visit, Revisit, EndRead,
                              Clear, NextRegion, NextBlock, Drain, Go, TypeOK
        <3> QED BY <1>2, <3>1
    <2> QED BY <2>1, <2>2, <2>3, <2>4
<1> QED BY <1>1, <1>2

\* What a step does to the progress of packing.
LEMMA PackedStep ==
    ASSUME Inv, product, NEW t \in Threads, InnerThread(t), NEW s \in Sides, s < Panels(t)
    PROVE  /\ ls'[t] = ls[t] =>
                 (Packed(t, s)' <=>
                     Packed(t, s) \/ (pc[t] = "packing" /\ s = side[t])
                        \/ (pc[t] = "free" /\ pc'[t] = "publish" /\ s = side[t]))
           /\ ls'[t] # ls[t] =>
                 /\ ls'[t] = ls[t] + 1 /\ Packed(t, s) /\ ~Packed(t, s)'
                 /\ pc[t] = "visit" /\ pc'[t] = "step"
<1>0. TypeOK /\ ThreadShape(t) BY DEF Inv, WorkerShape
<1>1. side[t] \in Nat /\ s \in Nat /\ ls[t] \in Int
    BY <1>0, ConstantFacts DEF TypeOK, Sides
<1>4. CASE Begin(t)
    <2>1. pc[t] = "start" /\ pc'[t] = "step" /\ ls' = ls
        BY <1>0, <1>4 DEF Begin, Go, TypeOK
    <2> QED BY <1>1, <2>1 DEF Visiting, Ended, Loading, Packed
<1>5. CASE NextStep(t)
    <2>1. pc[t] = "step" /\ pc'[t] = "free" /\ ls' = ls /\ side'[t] = 0
        BY <1>0, <1>5 DEF NextStep, Go, TypeOK, ThreadShape
    <2> QED BY <1>1, <2>1 DEF Visiting, Ended, Loading, Packed
<1>6. CASE AfterPack(t)
    <2>1. pc[t] = "free" /\ pc'[t] = "visit" /\ ls' = ls /\ side[t] = Panels(t)
        BY <1>0, <1>6 DEF AfterPack, Go, TypeOK
    <2> QED BY <1>1, <2>1 DEF Visiting, Ended, Loading, Packed
<1>7. CASE BeginPack(t)
    <2>1. /\ pc[t] = "free" /\ pc'[t] \in {"packing", "publish"} /\ ls' = ls
          /\ side' = side
        BY <1>0, <1>7 DEF BeginPack, Go, TypeOK
    <2> QED BY <1>1, <2>1 DEF Visiting, Ended, Loading, Packed
<1>8. CASE EndPack(t)
    <2>1. /\ pc[t] = "packing" /\ pc'[t] = "publish" /\ ls' = ls /\ side' = side
        BY <1>0, <1>8 DEF EndPack, Go, TypeOK
    <2> QED BY <1>1, <2>1 DEF Visiting, Ended, Loading, Packed
<1>9. CASE Publish(t)
    <2>1. /\ pc[t] = "publish" /\ ls' = ls
          /\ \/ pc'[t] = "publish" /\ side'[t] = side[t]
             \/ pc'[t] = "free" /\ side'[t] = side[t] + 1
        BY <1>0, <1>9 DEF Publish, Go, TypeOK
    <2> QED BY <1>1, <2>1 DEF Visiting, Ended, Loading, Packed
<1>10. CASE \/ Visit(t) \/ Revisit(t) \/ EndRead(t) \/ Clear(t) \/ NextRegion(t)
            \/ NextBlock(t) \/ Drain(t)
    <2>1. pc[t] \in Visiting \cup {"drain"}
        BY <1>10 DEF Visit, Revisit, EndRead, Clear, NextRegion, NextBlock, Drain, Visiting
    <2>2. \/ pc'[t] \in Visiting \cup Ended /\ ls' = ls
          \/ pc[t] = "visit" /\ pc'[t] = "step" /\ ls'[t] = ls[t] + 1
        <3>1. CASE NextBlock(t) BY <1>0, <3>1 DEF NextBlock, Visiting, Ended, Go, TypeOK
        <3>2. CASE ~NextBlock(t)
            BY <1>0, <1>10, <3>2 DEF Visit, Revisit, EndRead, Clear, NextRegion, Drain,
                                     Visiting, Ended, Go, TypeOK
        <3> QED BY <3>1, <3>2
    <2> QED BY <1>1, <2>1, <2>2 DEF Visiting, Ended, Loading, Packed
<1> QED BY <1>4, <1>5, <1>6, <1>7, <1>8, <1>9, <1>10 DEF InnerThread

LEMMA PanelStepsWorker ==
    ASSUME Inv, PanelInv, NEW t \in Threads, InnerThread(t)
    PROVE  PanelSteps'
<1>0. TypeOK /\ ThreadShape(t) BY DEF Inv, WorkerShape
<1>1. /\ driver' = driver /\ product' = product /\ round' = round
      /\ superseded' = superseded
    BY <1>0, Frame, StepFrame
<1> SUFFICES ASSUME driver = "exec", product, ~superseded,
                    NEW o \in Threads, NEW s \in Sides, s < Panels(o)
             PROVE  PanelStep(o, s)'
    BY <1>1 DEF PanelSteps, Panels
<1>2. PanelStep(o, s) BY DEF PanelInv, PanelSteps
<1>3. \A l : Step(l)' = Step(l) BY <1>1 DEF Step
<1>4. CASE o # t
    <2>1. /\ pc'[o] = pc[o] /\ side'[o] = side[o] /\ ls'[o] = ls[o] /\ panel'[o] = panel[o]
        BY <1>0, <1>4, Frame, StepFrame
    <2>2. Packed(o, s)' <=> Packed(o, s) BY <2>1 DEF Packed
    <2> QED BY <1>2, <1>3, <2>1, <2>2 DEF PanelStep, Step
<1>5. CASE o = t
    <2>0. s < Panels(t) /\ PanelStep(t, s) BY <1>2, <1>5
    <2>1. CASE BeginPack(t)
        <3>1. ~Polled(t) BY DEF PanelInv, LocalCopy, Polled
        <3>2. /\ pc[t] = "free" /\ pc'[t] = "packing" /\ side' = side /\ ls' = ls
              /\ panel' = [panel EXCEPT ![t][side[t]] = 0]
            BY <1>0, <2>1, <3>1 DEF BeginPack, Go, TypeOK
        <3>3. Packed(t, s)' <=> Packed(t, s) BY <2>0, <3>2, PackedStep
        <3>4. s # side[t] => panel'[t][s] = panel[t][s] BY <1>0, <3>2 DEF TypeOK
        <3>5. side[t] \in Nat /\ s \in Nat BY <1>0, ConstantFacts DEF TypeOK, Sides
        <3>6. s = side[t] => ~Packed(t, s)
            BY <3>2, <3>5 DEF Packed, Visiting, Ended, Loading
        <3> QED BY <1>1, <1>5, <2>0, <3>2, <3>3, <3>4, <3>6 DEF PanelStep, Step
    <2>2. CASE EndPack(t)
        <3>1. /\ pc[t] = "packing" /\ pc'[t] = "publish" /\ side' = side /\ ls' = ls
              /\ panel' = [panel EXCEPT ![t][side[t]] = Step(ls[t])]
            BY <1>0, <2>2 DEF EndPack, Go, TypeOK
        <3>2. Packed(t, s)' <=> Packed(t, s) \/ s = side[t] BY <2>0, <3>1, PackedStep
        <3>3. /\ s # side[t] => panel'[t][s] = panel[t][s]
              /\ s = side[t] => panel'[t][s] = Step(ls[t])
            BY <1>0, <3>1 DEF TypeOK
        <3> QED BY <1>1, <1>5, <2>0, <3>1, <3>2, <3>3 DEF PanelStep, Step
    <2>3. CASE NextBlock(t)
        <3>1. panel' = panel /\ pc[t] = "visit" BY <2>3 DEF NextBlock
        <3>2. Packed(t, s) BY <3>1 DEF Packed, Visiting
        <3>3. panel[t][s] = Step(ls[t]) BY <2>0, <3>2 DEF PanelStep
        <3>4. ls[t] \in Int BY <1>0, ConstantFacts DEF TypeOK
        <3>5. CASE ls'[t] = ls[t]
            BY <1>1, <1>5, <2>0, <3>1, <3>2, <3>3, <3>5, PackedStep DEF PanelStep, Step
        <3>6. CASE ls'[t] # ls[t]
            <4>1. ls'[t] = ls[t] + 1 /\ ~Packed(t, s)' BY <2>0, <3>6, PackedStep
            <4>2. ls'[t] - 1 = ls[t] BY <3>4, <4>1
            <4> QED BY <1>1, <1>5, <3>1, <3>3, <4>1, <4>2 DEF PanelStep, Step
        <3> QED BY <3>5, <3>6
    <2>4. CASE ~BeginPack(t) /\ ~EndPack(t) /\ ~NextBlock(t)
        <3>1. /\ panel' = panel /\ ls' = ls
              /\ pc[t] # "packing" /\ pc'[t] # "packing"
              /\ ~(pc[t] = "free" /\ pc'[t] = "publish")
            BY <1>0, <2>4 DEF InnerThread, Begin, NextStep, AfterPack, Publish, Visit,
                   Revisit, EndRead, Clear, NextRegion, Drain, Go, TypeOK
        <3>2. Packed(t, s)' <=> Packed(t, s) BY <2>0, <3>1, PackedStep
        <3> QED BY <1>1, <1>5, <2>0, <3>1, <3>2 DEF PanelStep, Step
    <2> QED BY <2>1, <2>2, <2>3, <2>4
<1> QED BY <1>4, <1>5

LEMMA LocalWorker ==
    ASSUME Inv, PanelInv, NEW t \in Threads, InnerThread(t)
    PROVE  LocalCopy' /\ NoProduct'
<1>0. TypeOK BY DEF Inv
<1>1. LocalCopy' BY <1>0, StepFrame DEF PanelInv, LocalCopy
<1>2. ~product => pc[t] \in {"idle", "start", "returned"} BY DEF PanelInv, NoProduct
<1>3. ~product => Begin(t)
    BY <1>2 DEF InnerThread, NextStep, AfterPack, BeginPack, EndPack, Publish, Visit,
                Revisit, EndRead, Clear, NextRegion, NextBlock, Drain
<1>4. ~product => pc'[t] = "returned" BY <1>0, <1>3 DEF Begin, Go, TypeOK
<1>5. NoProduct' BY <1>0, <1>4, Frame DEF PanelInv, NoProduct
<1> QED BY <1>1, <1>5

\* The kernel a step applies: to the panel just packed, or just read.
Applies(t, kernel) ==
    \/ /\ pc[t] = "packing" /\ kernel = <<ls[t], 1, t, side[t]>>
    \/ /\ pc[t] = "reading" /\ kernel = <<ls[t], blk[t], current[t], side[t]>>

\* A step that skips nothing leaves behind the kernel it applies, and no other.
LEMMA BehindStep ==
    ASSUME Inv, product, NEW t \in Threads, InnerThread(t), ~cancelled'[t],
           NEW l \in 1 .. KSteps, NEW b \in 1 .. Blocks(t), NEW o \in Group(t),
           NEW s \in Sides, s < Panels(o)
    PROVE  Behind(t, <<l, b, o, s>>)' <=>
               Behind(t, <<l, b, o, s>>) \/ Applies(t, <<l, b, o, s>>)
<1> DEFINE own == b = 1 /\ o = t
           at == o = current[t] /\ s = side[t]
<1>0. TypeOK /\ ThreadShape(t) BY DEF Inv, WorkerShape
<1>1. Blocks(t) \in Nat /\ Blocks(t) > 0 BY <1>0, LoopFacts
<1>2. /\ l \in Int /\ b \in Int /\ ls[t] \in Int /\ blk[t] \in Nat \ {0} /\ l <= KSteps
      /\ 1 <= l /\ 1 <= b /\ b <= Blocks(t) /\ KSteps \in Int /\ ls[t] <= KSteps
    BY <1>0, <1>1, ConstantFacts DEF TypeOK
<1>3. \* what the definitions say of this kernel
      /\ Behind(t, <<l, b, o, s>>) <=>
            \/ l < ls[t]
            \/ l = ls[t] /\ own /\ Packed(t, s)
            \/ l = ls[t] /\ ~own /\ pc[t] \in Visiting
                  /\ (b < blk[t] \/ (b = blk[t] /\ (Passed(t, o, s) \/ (pc[t] = "clear" /\ at))))
            \/ pc[t] \in Ended
      /\ Behind(t, <<l, b, o, s>>)' <=>
            \/ l < ls'[t]
            \/ l = ls'[t] /\ own /\ Packed(t, s)'
            \/ l = ls'[t] /\ ~own /\ pc'[t] \in Visiting
                  /\ \/ b < blk'[t]
                     \/ b = blk'[t] /\ Passed(t, o, s)'
                     \/ b = blk'[t] /\ pc'[t] = "clear" /\ o = current'[t] /\ s = side'[t]
            \/ pc'[t] \in Ended
      /\ Applies(t, <<l, b, o, s>>) <=>
            \/ pc[t] = "packing" /\ l = ls[t] /\ own /\ s = side[t]
            \/ pc[t] = "reading" /\ l = ls[t] /\ b = blk[t] /\ at
    BY DEF Behind, Applies
<1>4. own => /\ ls'[t] = ls[t] =>
                   (Packed(t, s)' <=>
                       Packed(t, s) \/ (pc[t] = "packing" /\ s = side[t])
                          \/ (pc[t] = "free" /\ pc'[t] = "publish" /\ s = side[t]))
             /\ ls'[t] # ls[t] => Packed(t, s) /\ ~Packed(t, s)'
    BY PackedStep
<1> HIDE DEF own, at
<1>5. CASE Begin(t) \/ NextStep(t) \/ BeginPack(t) \/ EndPack(t) \/ Publish(t)
    <2>1. /\ pc[t] \in Packing \cup {"start"} /\ pc'[t] \in Packing
          /\ ls' = ls
        BY <1>0, <1>5 DEF Begin, NextStep, BeginPack, EndPack, Publish, Packing, Go, TypeOK
    <2>2. ~(pc[t] = "free" /\ pc'[t] = "publish")
        <3>1. CASE BeginPack(t)
            BY <1>0, <3>1 DEF BeginPack, Poll, Go, TypeOK
        <3>2. CASE ~BeginPack(t)
            BY <1>0, <1>5, <3>2 DEF Begin, NextStep, EndPack, Publish, Go, TypeOK
        <3> QED BY <3>1, <3>2
    <2> QED BY <1>3, <1>4, <2>1, <2>2 DEF Packing, Visiting, Ended
<1>6. CASE AfterPack(t)
    <2>1. pc[t] = "free" /\ pc'[t] = "visit" /\ ls' = ls /\ blk' = blk /\ blk[t] = 1
        BY <1>0, <1>6 DEF AfterPack, Go, TypeOK, ThreadShape, Packing
    <2>2. ~Passed(t, o, s)' BY <1>6, PassedStep
    <2> QED BY <1>2, <1>3, <1>4, <2>1, <2>2 DEF Visiting, Ended
<1>7. CASE Visit(t) \/ Revisit(t)
    <2>1. /\ pc[t] = "visit" /\ ls' = ls /\ blk' = blk /\ side' = side /\ current' = current
          /\ pc'[t] = "reading" \/ (pc'[t] = "clear" /\ blk[t] = 1 /\ current[t] = t)
        <3>1. CASE Visit(t) BY <1>0, <3>1 DEF Visit, Poll, Go, TypeOK
        <3>2. CASE Revisit(t) BY <1>0, <3>2 DEF Revisit, Go, TypeOK
        <3> QED BY <1>7, <3>1, <3>2
    <2>2. Passed(t, o, s)' <=> Passed(t, o, s) BY <1>7, PassedStep
    <2>3. pc'[t] = "clear" /\ b = blk[t] /\ o = current[t] => own BY <2>1 DEF own
    <2> QED BY <1>3, <1>4, <2>1, <2>2, <2>3 DEF Visiting, Ended
<1>8. CASE EndRead(t)
    <2>1. /\ pc[t] = "reading" /\ pc'[t] = "clear" /\ ls' = ls /\ blk' = blk
          /\ side' = side /\ current' = current
        BY <1>0, <1>8 DEF EndRead, Go, TypeOK
    <2>2. Passed(t, o, s)' <=> Passed(t, o, s) BY <1>8, PassedStep
    <2>3. own => Packed(t, s) BY <2>1 DEF Packed, Visiting
    <2> QED BY <1>2, <1>3, <1>4, <2>1, <2>2, <2>3 DEF Visiting, Ended, at
<1>9. CASE Clear(t)
    <2>1. pc[t] = "clear" /\ pc'[t] = "visit" /\ ls' = ls /\ blk' = blk
        BY <1>0, <1>9 DEF Clear, Go, TypeOK
    <2>2. Passed(t, o, s)' <=> Passed(t, o, s) \/ at BY <1>9, PassedStep DEF at
    <2> QED BY <1>3, <1>4, <2>1, <2>2 DEF Visiting, Ended
<1>10. CASE NextRegion(t)
    <2>1. pc[t] = "visit" /\ pc'[t] = "visit" /\ ls' = ls /\ blk' = blk
        BY <1>10 DEF NextRegion
    <2>2. Passed(t, o, s)' <=> Passed(t, o, s) BY <1>10, PassedStep
    <2> QED BY <1>3, <1>4, <2>1, <2>2 DEF Visiting, Ended
<1>11. CASE NextBlock(t)
    <2>1. /\ Passed(t, o, s)
          /\ blk[t] < Blocks(t) => ~Passed(t, o, s)'
        BY <1>11, PassedStep
    <2>2. pc[t] = "visit" BY <1>11 DEF NextBlock
    <2>3. own => Packed(t, s) BY <2>2 DEF Packed, Visiting
    <2>4. CASE blk[t] < Blocks(t)
        <3>1. pc'[t] = "visit" /\ ls' = ls /\ blk'[t] = blk[t] + 1
            BY <1>0, <1>1, <1>11, <2>2, <2>4 DEF NextBlock, TypeOK
        <3> QED BY <1>2, <1>3, <1>4, <2>1, <2>2, <2>3, <2>4, <3>1 DEF Visiting, Ended
    <2>5. CASE blk[t] = Blocks(t) /\ pc'[t] = "step"
        <3>1. ls'[t] = ls[t] + 1 BY <1>0, <1>11, <2>5 DEF NextBlock, Go, TypeOK
        <3>2. ls'[t] # ls[t] BY <1>2, <3>1
        <3> QED BY <1>2, <1>3, <1>4, <2>1, <2>2, <2>3, <2>5, <3>1, <3>2 DEF Visiting, Ended
    <2>6. CASE blk[t] = Blocks(t) /\ pc'[t] # "step"
        <3>1. pc'[t] = "drain" /\ ls[t] = KSteps /\ ls' = ls
            BY <1>0, <1>1, <1>11, <2>6 DEF NextBlock, Go, TypeOK
        <3> QED BY <1>2, <1>3, <2>1, <2>2, <2>3, <2>6, <3>1 DEF Visiting, Ended
    <2>7. blk[t] < Blocks(t) \/ blk[t] = Blocks(t) BY <1>0, <1>1, <1>2 DEF ThreadShape
    <2> QED BY <2>4, <2>5, <2>6, <2>7
<1>12. CASE Drain(t)
    <2>1. pc[t] = "drain" /\ pc'[t] = "returned"
        BY <1>0, <1>12 DEF Drain, Go, TypeOK
    <2> QED BY <1>3, <2>1 DEF Ended
<1> QED BY <1>5, <1>6, <1>7, <1>8, <1>9, <1>10, <1>11, <1>12 DEF InnerThread

LEMMA AppliesInRound ==
    ASSUME Inv, NEW t \in Threads, NEW kernel, Applies(t, kernel)
    PROVE  kernel \in AllKernels(t)
<1>0. TypeOK /\ ThreadShape(t) BY DEF Inv, WorkerShape
<1>1. ls[t] \in 1 .. KSteps /\ blk[t] \in Nat \ {0} BY <1>0 DEF TypeOK
<1>2. Blocks(t) \in Nat /\ Blocks(t) > 0 /\ t \in Group(t) BY <1>0, LoopFacts, GroupFacts
<1>3. 1 \in 1 .. Blocks(t) /\ blk[t] \in 1 .. Blocks(t) BY <1>0, <1>1, <1>2 DEF ThreadShape
<1>4. side[t] \in Sides BY <1>0, SideFacts DEF Inv, Applies
<1>5. CASE pc[t] = "packing"
    <2>1. kernel = <<ls[t], 1, t, side[t]>> BY <1>5 DEF Applies
    <2>2. side[t] < Panels(t) BY <1>0, <1>5 DEF ThreadShape
    <2> QED BY <1>1, <1>2, <1>3, <1>4, <2>1, <2>2 DEF AllKernels
<1>6. CASE pc[t] = "reading"
    <2>1. kernel = <<ls[t], blk[t], current[t], side[t]>> BY <1>6 DEF Applies
    <2>2. side[t] < Panels(current[t]) /\ current[t] \in Group(t)
        BY <1>0, <1>6 DEF ThreadShape, Visiting
    <2> QED BY <1>1, <1>2, <1>3, <1>4, <2>1, <2>2 DEF AllKernels
<1> QED BY <1>5, <1>6 DEF Applies

LEMMA DoneStep ==
    ASSUME Inv, NEW t \in Threads, InnerThread(t), ~cancelled'[t], NEW kernel
    PROVE  kernel \in done'[t] <=> kernel \in done[t] \/ Applies(t, kernel)
<1>0. TypeOK BY DEF Inv
<1>1. CASE EndPack(t)
    <2>1. pc[t] = "packing" /\ done'[t] = done[t] \cup {<<ls[t], 1, t, side[t]>>}
        BY <1>0, <1>1 DEF EndPack, TypeOK
    <2> QED BY <2>1 DEF Applies
<1>2. CASE EndRead(t)
    <2>1. pc[t] = "reading" /\ done'[t] = done[t] \cup {<<ls[t], blk[t], current[t], side[t]>>}
        BY <1>0, <1>2 DEF EndRead, TypeOK
    <2> QED BY <2>1 DEF Applies
<1>3. CASE ~EndPack(t) /\ ~EndRead(t)
    <2>1. pc[t] \notin {"packing", "reading"} /\ done' = done
        BY <1>3 DEF InnerThread, Begin, NextStep, AfterPack, BeginPack, Publish, Visit,
                    Revisit, Clear, NextRegion, NextBlock, Drain
    <2> QED BY <2>1 DEF Applies
<1> QED BY <1>1, <1>2, <1>3

LEMMA AllDoneRightWorker ==
    ASSUME Inv, PanelInv, NEW t \in Threads, InnerThread(t)
    PROVE  AllDoneRight'
<1>0. TypeOK BY DEF Inv
<1>1. driver' = driver /\ product' = product /\ round' = round BY <1>0, Frame
<1> SUFFICES ASSUME driver \in {"exec", "poll"}, product, NEW u \in Threads, ~cancelled'[u]
             PROVE  done'[u] = {kernel \in AllKernels(u) : Behind(u, kernel)'}
    BY <1>1 DEF AllDoneRight, DoneRight, AllKernels, Blocks, Group, First, Panels
<1>2. DoneRight(u) BY DEF PanelInv, AllDoneRight
<1>3. CASE u # t
    <2>1. /\ pc'[u] = pc[u] /\ blk'[u] = blk[u] /\ side'[u] = side[u]
          /\ current'[u] = current[u] /\ ls'[u] = ls[u] /\ done'[u] = done[u]
          /\ cancelled'[u] = cancelled[u]
        BY <1>0, <1>3, Frame, StepFrame
    <2>2. \A kernel : Behind(u, kernel)' <=> Behind(u, kernel)
        BY <2>1 DEF Behind, Packed, Passed
    <2> QED BY <1>2, <2>1, <2>2 DEF DoneRight
<1>4. CASE u = t
    <2>1. ~cancelled[t] BY <1>0, <1>4, StepFrame
    <2>2. done[t] = {kernel \in AllKernels(t) : Behind(t, kernel)}
        BY <1>2, <1>4, <2>1 DEF DoneRight
    <2>3. ASSUME NEW kernel \in AllKernels(t)
          PROVE  Behind(t, kernel)' <=> Behind(t, kernel) \/ Applies(t, kernel)
        <3>1. PICK l \in 1 .. KSteps, b \in 1 .. Blocks(t), o \in Group(t), s \in Sides :
                      kernel = <<l, b, o, s>> /\ s < Panels(o)
            BY DEF AllKernels
        <3> QED BY <1>4, <3>1, BehindStep
    <2>4. ASSUME NEW kernel
          PROVE  kernel \in done'[t] <=>
                    kernel \in AllKernels(t) /\ Behind(t, kernel)'
        BY <1>4, <2>2, <2>3, AppliesInRound, DoneStep
    <2> QED BY <1>4, <2>4
<1> QED BY <1>3, <1>4

LEMMA PanelInvWorker ==
    ASSUME Inv, PanelInv, NEW t \in Threads, InnerThread(t)
    PROVE  PanelInv'
BY FlagCountsWorker, PublishFreeWorker, PanelStepsWorker, LocalWorker, AllDoneRightWorker
   DEF PanelInv

-----------------------------------------------------------------------------
(* The driver's steps and the cancellation.                                *)

LEMMA PanelInvDriver ==
    ASSUME Inv, PanelInv, GemmDriver \/ Supersede \/ UNCHANGED vars
    PROVE  PanelInv'
<1>0. TypeOK /\ DriverShape BY DEF Inv
<1>1. CASE ClearFlags
    <2>1. /\ driver' = "exec" /\ product' = product /\ superseded' = superseded
          /\ round' = round /\ panel' = panel /\ working' = Flags(FALSE)
          /\ \A t \in Threads : /\ pc'[t] = "start" /\ blk'[t] = 1 /\ side'[t] = 0
                                /\ ls'[t] = 1 /\ ~cancelled'[t] /\ done'[t] = {}
        BY <1>1 DEF ClearFlags, Cleared
    <2>2. ASSUME NEW o \in Threads, NEW t \in Group(o), NEW s \in Sides
          PROVE  FlagCount(o, t, s)'
        <3>1. t \in Threads BY GroupFacts
        <3>2. ~Published(o, t, s)' /\ ~GivenBack(t, o, s)'
            BY <2>1, <3>1 DEF Published, GivenBack, Visiting, Ended, Loading
        <3>3. ~working'[o][t][s] BY <2>1, <3>1 DEF Flags
        <3> QED BY <2>1, <3>1, <3>2, <3>3 DEF FlagCount, Times
    <2>3. FlagCounts' BY <2>2 DEF FlagCounts, Group, First
    <2>4. PublishFree' BY <2>1 DEF PublishFree
    <2>5. PanelSteps'
        BY <2>1 DEF PanelSteps, PanelStep, Packed, Visiting, Ended, Loading
    <2>6. LocalCopy' /\ NoProduct' BY <2>1 DEF LocalCopy, NoProduct
    <2>7. ASSUME NEW t \in Threads PROVE DoneRight(t)'
        <3>1. ASSUME NEW kernel \in AllKernels(t)' PROVE ~Behind(t, kernel)'
            <4>1. kernel[1] \in 1 .. KSteps BY DEF AllKernels
            <4>2. ~(kernel[1] < ls'[t]) BY <2>1, <4>1, ConstantFacts
            <4> QED BY <2>1, <4>2 DEF Behind, Packed, Visiting, Ended, Loading
        <3> QED BY <2>1, <3>1 DEF DoneRight
    <2> QED BY <2>3, <2>4, <2>5, <2>6, <2>7 DEF PanelInv, AllDoneRight
<1>2. CASE Join
    <2>1. /\ driver = "exec" /\ driver' = "poll"
          /\ UNCHANGED <<product, superseded, round, working, panel, threadVars>>
        BY <1>2 DEF Join
    <2>2. FlagCounts' /\ PanelSteps' BY <2>1 DEF FlagCounts, PanelSteps
    <2>3. PublishFree' /\ LocalCopy' /\ NoProduct'
        BY <2>1 DEF PanelInv, PublishFree, LocalCopy, NoProduct, threadVars, Group, First
    <2>4. AllDoneRight'
        BY <2>1 DEF PanelInv, AllDoneRight, DoneRight, Behind, Packed, Passed, AllKernels,
                    Blocks, Group, First, Panels, threadVars
    <2> QED BY <2>2, <2>3, <2>4 DEF PanelInv
<1>3. CASE NextRound
    <2>1. /\ driver' \in {"clear", "finished"}
          /\ UNCHANGED <<product, superseded, working, panel, threadVars>>
        BY <1>3 DEF NextRound
    <2>2. FlagCounts' /\ PanelSteps' /\ AllDoneRight'
        BY <2>1 DEF FlagCounts, PanelSteps, AllDoneRight
    <2>3. PublishFree' /\ LocalCopy' /\ NoProduct'
        BY <2>1 DEF PanelInv, PublishFree, LocalCopy, NoProduct, threadVars, Group, First
    <2> QED BY <2>2, <2>3 DEF PanelInv
<1>4. CASE Supersede \/ UNCHANGED vars
    <2>1. /\ UNCHANGED <<product, driver, round, working, panel, threadVars>>
          /\ superseded => superseded'
          /\ ~superseded' => ~superseded
        BY <1>4 DEF Supersede, vars, driverVars
    <2>2. FlagCounts'
        <3>1. ASSUME NEW o \in Threads, NEW t \in Group(o), NEW s \in Sides, FlagCount(o, t, s)
              PROVE  FlagCount(o, t, s)'
            <4>1. Published(o, t, s)' <=> Published(o, t, s)
                BY <2>1 DEF Published, threadVars
            <4>2. GivenBack(t, o, s)' <=> GivenBack(t, o, s)
                BY <2>1 DEF GivenBack, Passed, LastBlock, Blocks, threadVars
            <4> QED BY <2>1, <3>1, <4>1, <4>2 DEF FlagCount, Times, threadVars
        <3> QED BY <2>1, <3>1 DEF PanelInv, FlagCounts, Panels, Group, First
    <2>3. PanelSteps'
        BY <2>1 DEF PanelInv, PanelSteps, PanelStep, Packed, Step, Panels, threadVars
    <2>4. PublishFree' /\ LocalCopy' /\ NoProduct'
        BY <2>1 DEF PanelInv, PublishFree, LocalCopy, NoProduct, threadVars, Group, First
    <2>5. AllDoneRight'
        BY <2>1 DEF PanelInv, AllDoneRight, DoneRight, Behind, Packed, Passed, AllKernels,
                    Blocks, Group, First, Panels, threadVars
    <2> QED BY <2>2, <2>3, <2>4, <2>5 DEF PanelInv
<1> QED BY <1>1, <1>2, <1>3, <1>4 DEF GemmDriver

LEMMA PanelInvInit == Init => PanelInv
<1> SUFFICES ASSUME Init PROVE PanelInv OBVIOUS
<1>1. /\ driver = "clear"
      /\ \A t \in Threads : pc[t] = "idle" /\ ~cancelled[t]
    BY DEF Init
<1> QED BY <1>1 DEF PanelInv, FlagCounts, PublishFree, PanelSteps, LocalCopy, NoProduct,
                    AllDoneRight

-----------------------------------------------------------------------------
(* The theorems.                                                           *)

(* The strengthened invariant: a flag job[].working is set exactly when    *)
(* its panel has been published once more than its reader gave it back.    *)
THEOREM PanelInvCorrect == Spec => []PanelInv
<1>1. Inv /\ PanelInv /\ [Next]_vars => PanelInv'
    <2> SUFFICES ASSUME Inv, PanelInv, [Next]_vars PROVE PanelInv' OBVIOUS
    <2>1. CASE GemmDriver \/ Supersede \/ UNCHANGED vars BY <2>1, PanelInvDriver
    <2>2. CASE \E t \in Threads : InnerThread(t) BY <2>2, PanelInvWorker
    <2> QED BY <2>1, <2>2 DEF Next, Finished
<1> QED BY <1>1, PanelInvInit, InvCorrect, PTL DEF Spec

(* level3_thread.c: the panel a kernel reads in an operation that nobody   *)
(* has cancelled is the one of its own step of k, completely packed.       *)
THEOREM RightPanelCorrect == Spec => []RightPanel
<1>1. Inv /\ PanelInv => RightPanel
    <2> SUFFICES ASSUME Inv, PanelInv, NEW t \in Threads, NEW o \in Threads, NEW s \in Sides,
                        Reads(t, o, s), ~superseded
                 PROVE  panel[o][s] = Step(ls[t])
        BY DEF RightPanel
    <2>1. pc[t] = "reading" /\ current[t] = o /\ side[t] = s BY DEF Reads
    <2>2. TypeOK /\ ThreadShape(t) BY DEF Inv, WorkerShape
    <2>3. o \in Group(t) /\ s < Panels(o) BY <2>1, <2>2 DEF ThreadShape, Visiting
    <2>4. driver = "exec" BY <2>1 DEF Inv, DriverShape, TypeOK
    <2>5. product BY <2>1 DEF PanelInv, NoProduct
    <2>6. PanelStep(o, s) BY <2>3, <2>4, <2>5 DEF PanelInv, PanelSteps
    <2>7. CASE o = t
        <3>1. Packed(o, s) BY <2>1, <2>7 DEF Packed, Visiting
        <3> QED BY <2>6, <2>7, <3>1 DEF PanelStep
    <2>8. CASE o # t
        <3>1. working[o][t][s] BY <2>8, ReadSet
        <3>2. t \in Group(o) BY <2>3, GroupSame
        <3>3. FlagCount(o, t, s) BY <2>3, <2>4, <2>5, <3>2 DEF PanelInv, FlagCounts
        <3>4. ~GivenBack(t, o, s)
            <4>1. s \in Int BY ConstantFacts DEF Sides
            <4>2. Place(blk[t] = 1, t, o) \in Int BY <2>3, PlaceFacts
            <4>3. ~Passed(t, o, s) BY <2>1, <4>1, <4>2 DEF Passed
            <4> QED BY <2>1, <4>3 DEF GivenBack, Ended
        <3>5. ls[t] \in Int /\ ls[t] >= 1 /\ ls[o] \in Int
            BY <2>2, ConstantFacts DEF TypeOK
        <3>6. Times(ls[o], Published(o, t, s)) = ls[t]
            BY <3>1, <3>3, <3>4, <3>5 DEF FlagCount, Times
        <3>7. CASE Published(o, t, s)
            <4>1. Packed(o, s) BY <3>7 DEF Published, Packed
            <4>2. ls[o] = ls[t] BY <3>6, <3>7 DEF Times
            <4> QED BY <2>6, <4>1, <4>2 DEF PanelStep
        <3>8. CASE ~Published(o, t, s)
            <4>1. ls[o] - 1 = ls[t] /\ ls[o] > 1 BY <3>5, <3>6, <3>8 DEF Times
            <4>2. ~(pc[o] = "packing" /\ s = side[o]) BY <3>1 DEF Inv, PackingFree
            <4>3. ~(pc[o] = "publish" /\ s = side[o])
                <5>1. SUFFICES ASSUME pc[o] = "publish", s = side[o] PROVE FALSE OBVIOUS
                <5>2. reader[o] \in Int /\ t \in Int BY <2>2, ConstantFacts DEF TypeOK
                <5>3. t >= reader[o] BY <3>8, <5>1, <5>2 DEF Published
                <5> QED BY <3>1, <3>2, <5>1, <5>3 DEF PanelInv, PublishFree
            <4>4. ~Packed(o, s) BY <3>8, <4>3 DEF Packed, Published
            <4> QED BY <2>6, <4>1, <4>2, <4>4 DEF PanelStep
        <3> QED BY <3>7, <3>8
    <2> QED BY <2>7, <2>8
<1> QED BY <1>1, InvCorrect, PanelInvCorrect, PTL

(* gemm_driver: it goes on to the next block of columns, or finishes an    *)
(* operation that nobody cancelled, only when every thread has applied     *)
(* every kernel of the round.                                              *)
THEOREM WholeUnlessCancelledCorrect == Spec => WholeUnlessCancelled
<1> DEFINE Whole == driver = "poll" /\ product
                       /\ (round' # round \/ (driver' = "finished" /\ ~superseded))
                    => \A t \in Threads : done[t] = AllKernels(t)
<1>1. Inv /\ PanelInv /\ [Next]_vars => [Whole]_vars
    <2> SUFFICES ASSUME Inv, PanelInv, [Next]_vars, driver = "poll", product,
                        round' # round \/ (driver' = "finished" /\ ~superseded),
                        NEW t \in Threads
                 PROVE  done[t] = AllKernels(t)
        OBVIOUS
    <2>1. pc[t] = "returned" BY DEF Inv, DriverShape
    <2>2. ~superseded
        <3>1. CASE round' = round BY <3>1
        <3>2. CASE round' # round
            <4>1. NextRound
                BY <3>2, Frame DEF Inv, Next, GemmDriver, ClearFlags, Join, Supersede, Finished,
                                   vars, driverVars
            <4> QED BY <3>2, <4>1 DEF NextRound, Stop
        <3> QED BY <3>1, <3>2
    <2>3. DoneRight(t) /\ ~cancelled[t] BY <2>2 DEF PanelInv, AllDoneRight, LocalCopy
    <2>4. \A kernel : Behind(t, kernel) BY <2>1 DEF Behind, Ended
    <2> QED BY <2>3, <2>4 DEF DoneRight, AllKernels
<1> QED BY <1>1, InvCorrect, PanelInvCorrect, PTL DEF Spec, WholeUnlessCancelled

-----------------------------------------------------------------------------
(* Deadlock.                                                               *)

\* A thread in its loops has a step to take: what it waits for, if it waits,
\* has come.  The waits are those of BeginPack, Visit and Drain.
CanGo(t) ==
    /\ pc[t] \notin {"idle", "returned"}
    /\ pc[t] = "free" => side[t] = Panels(t) \/ NobodyReads(t, side[t])
    /\ pc[t] = "visit" =>
          \/ side[t] = Panels(current[t])
          \/ blk[t] > 1
          \/ current[t] = t
          \/ working[current[t]][t][side[t]]
    /\ pc[t] = "drain" => Drained(t)

\* In every group that has not returned somebody can go on.
NoDeadlock ==
    driver = "exec" =>
        \A t \in Threads : pc[t] # "returned" => \E u \in Group(t) : CanGo(u)

\* Only panels that exist are lent, and only within the group.
FlagsLent ==
    driver = "exec" =>
        \A o, r \in Threads : \A s \in Sides :
            working[o][r][s] => r \in Group(o) /\ s < Panels(o)

\* The loop over k has been gone through at the end.
EndedLast == product => \A t \in Threads : pc[t] \in Ended => ls[t] = KSteps

LentInv == FlagsLent /\ EndedLast

LEMMA LentWorker ==
    ASSUME Inv, LentInv, NEW t \in Threads, InnerThread(t)
    PROVE  LentInv'
<1>0. TypeOK /\ ThreadShape(t) BY DEF Inv, WorkerShape
<1>1. driver' = driver /\ product' = product /\ round' = round BY <1>0, Frame
<1>2. FlagsLent'
    <2> SUFFICES ASSUME driver = "exec", NEW o \in Threads, NEW r \in Threads,
                        NEW s \in Sides, working'[o][r][s]
                 PROVE  r \in Group(o) /\ s < Panels(o)
        BY <1>1 DEF FlagsLent, Group, First, Panels
    <2>1. CASE working[o][r][s] BY <2>1 DEF LentInv, FlagsLent
    <2>2. CASE o = t /\ pc[t] = "publish" /\ r = reader[t] /\ s = side[t]
        BY <1>0, <2>2 DEF ThreadShape
    <2> QED BY <1>0, <2>1, <2>2, FlagFrame
<1>3. EndedLast'
    <2> SUFFICES ASSUME product, NEW u \in Threads, pc'[u] \in Ended
                 PROVE  ls'[u] = KSteps
        BY <1>1 DEF EndedLast
    <2>1. CASE u # t
        BY <1>0, <2>1, Frame, StepFrame DEF LentInv, EndedLast
    <2>2. CASE u = t
        <3>1. CASE NextBlock(t)
            BY <1>0, <2>2, <3>1 DEF NextBlock, Go, Ended, TypeOK
        <3>2. CASE Drain(t)
            BY <2>2, <3>2 DEF Drain, LentInv, EndedLast, Ended
        <3>3. CASE ~NextBlock(t) /\ ~Drain(t)
            BY <1>0, <2>2, <3>3 DEF InnerThread, Begin, NextStep, AfterPack, BeginPack, EndPack,
               Publish, Visit, Revisit, EndRead, Clear, NextRegion, Go, Ended, TypeOK
        <3> QED BY <3>1, <3>2, <3>3
    <2> QED BY <2>1, <2>2
<1> QED BY <1>2, <1>3 DEF LentInv

LEMMA LentDriver ==
    ASSUME Inv, LentInv, GemmDriver \/ Supersede \/ UNCHANGED vars
    PROVE  LentInv'
<1>1. CASE ClearFlags
    <2>1. /\ working' = Flags(FALSE) /\ \A t \in Threads : pc'[t] = "start"
        BY <1>1 DEF ClearFlags, Cleared
    <2> QED BY <2>1 DEF LentInv, FlagsLent, EndedLast, Flags, Ended
<1>2. CASE Join \/ NextRound
    <2>1. driver' # "exec" /\ UNCHANGED <<product, threadVars>>
        BY <1>2 DEF Join, NextRound
    <2> QED BY <2>1 DEF LentInv, FlagsLent, EndedLast, threadVars
<1>3. CASE Supersede \/ UNCHANGED vars
    <2>1. UNCHANGED <<product, driver, round, working, threadVars>>
        BY <1>3 DEF Supersede, vars, driverVars
    <2> QED BY <2>1 DEF LentInv, FlagsLent, EndedLast, Group, First, Panels, threadVars
<1> QED BY <1>1, <1>2, <1>3 DEF GemmDriver

LEMMA LentInit == Init => LentInv
BY DEF Init, LentInv, FlagsLent, EndedLast, Ended

\* A set of numbers that is not empty has a least one.
LEMMA Least ==
    ASSUME NEW S \in SUBSET Nat, S # {}
    PROVE  \E n \in S : \A m \in S : n <= m
<1>1. PICK n \in S : \A m \in S : ~(<<m, n>> \in OpToRel(<, Nat))
    BY NatLessThanWellFounded, WFMin
<1>2. n \in Nat /\ \A m \in S : m \in Nat /\ ~(m < n) BY <1>1 DEF OpToRel
<1>3. \A m \in S : n <= m BY <1>2
<1> QED BY <1>3

\* How far a thread that waits has come: a step of k has three waits.
Wait(t) == 3 * ls[t] + (IF pc[t] = "free" THEN 0 ELSE IF pc[t] = "visit" THEN 1 ELSE 2)

\* A thread that waits does so for one that has come less far.
LEMMA WaitsForEarlier ==
    ASSUME Inv, PanelInv, LentInv, product, driver = "exec",
           NEW t \in Threads, ~CanGo(t), pc[t] # "returned"
    PROVE  \E u \in Group(t) :
              pc[u] # "returned" /\ (~CanGo(u) => Wait(u) < Wait(t))
<1>0. TypeOK /\ ThreadShape(t) BY DEF Inv, WorkerShape
<1>1. \A u \in Threads : ls[u] \in 1 .. KSteps /\ KSteps \in Nat
    BY <1>0, ConstantFacts DEF TypeOK
<1>2. pc[t] \in {"free", "visit", "drain"}
    BY DEF CanGo, Inv, DriverShape
<1>3. \A u \in Threads : ~CanGo(u) /\ pc[u] # "returned" => pc[u] \in {"free", "visit", "drain"}
    BY DEF CanGo, Inv, DriverShape
<1>4. CASE pc[t] = "free" \/ pc[t] = "drain"
    <2>1. PICK r \in Threads, s \in Sides : working[t][r][s] /\ (pc[t] = "free" => s = side[t])
        <3>1. CASE pc[t] = "free"
            <4>1. side[t] \in 0 .. DivideRate /\ Panels(t) \in 0 .. DivideRate
                BY <1>0, LoopFacts DEF TypeOK
            <4>2. side[t] # Panels(t) /\ side[t] <= Panels(t)
                BY <1>0, <3>1 DEF CanGo, ThreadShape
            <4>3. side[t] < Panels(t) BY <4>1, <4>2, ConstantFacts
            <4>4. side[t] \in Sides BY <1>0, <3>1, <4>3, SideFacts DEF Inv
            <4> QED BY <3>1, <4>4 DEF CanGo, NobodyReads
        <3>2. CASE pc[t] = "drain"
            BY <3>2 DEF CanGo, Drained, NobodyReads
        <3> QED BY <1>4, <3>1, <3>2
    <2>2. r \in Group(t) /\ s < Panels(t) BY <2>1 DEF LentInv, FlagsLent
    <2>3. FlagCount(t, r, s) BY <2>2 DEF PanelInv, FlagCounts
    <2>4. s \in Int BY ConstantFacts DEF Sides
    <2>5. Published(t, r, s) <=> pc[t] = "drain"
        BY <1>4, <2>1, <2>4 DEF Published, Visiting, Ended, Loading
    <2>6. Times(ls[r], GivenBack(r, t, s)) < ls[t] /\ (pc[t] = "free" => ls[r] < ls[t])
        BY <1>1, <1>4, <2>1, <2>3, <2>5 DEF FlagCount, Times
    <2>7. pc[r] \notin Ended
        <3>1. SUFFICES ASSUME pc[r] \in Ended PROVE FALSE OBVIOUS
        <3>2. ls[r] = KSteps BY <3>1 DEF LentInv, EndedLast
        <3>3. GivenBack(r, t, s) BY <3>1 DEF GivenBack
        <3> QED BY <1>1, <2>6, <3>2, <3>3 DEF Times
    <2>8. ~CanGo(r) => pc[r] \in {"free", "visit"} BY <1>3, <2>7 DEF Ended
    <2>9. ls[r] <= ls[t] BY <1>1, <2>6 DEF Times
    <2> QED BY <1>1, <1>4, <2>2, <2>6, <2>7, <2>8, <2>9 DEF Wait, Ended
<1>5. CASE pc[t] = "visit"
    <2> DEFINE o == current[t]
               s == side[t]
    <2>1. /\ blk[t] = 1 /\ o # t /\ ~working[o][t][s]
          /\ o \in Group(t) /\ s < Panels(o)
        <3>1. o \in Threads /\ blk[t] \in Nat \ {0} /\ s \in 0 .. DivideRate
            BY <1>0 DEF TypeOK
        <3>2. Panels(o) \in 0 .. DivideRate BY <1>0, <3>1, LoopFacts
        <3> QED BY <1>0, <1>5, <3>1, <3>2, ConstantFacts DEF CanGo, ThreadShape, Visiting
    <2>2. s \in Sides /\ s \in Int /\ o \in Threads /\ t \in Group(o)
        <3>1. o \in Threads /\ s \in 0 .. DivideRate /\ t \in Group(o)
            BY <1>0, <2>1, GroupSame DEF TypeOK
        <3>2. Panels(o) \in 0 .. DivideRate BY <1>0, <3>1, LoopFacts
        <3> QED BY <2>1, <3>1, <3>2, ConstantFacts DEF Sides
    <2>3. FlagCount(o, t, s) BY <2>1, <2>2 DEF PanelInv, FlagCounts
    <2>4. ~GivenBack(t, o, s)
        <3>1. Place(blk[t] = 1, t, o) \in Int BY <2>1, PlaceFacts
        <3>2. ~Passed(t, o, s) BY <2>2, <3>1 DEF Passed
        <3> QED BY <1>5, <3>2 DEF GivenBack, Ended
    <2>5. Times(ls[o], Published(o, t, s)) = ls[t] - 1
        BY <1>1, <2>1, <2>3, <2>4 DEF FlagCount, Times
    <2>6. ls[o] < ls[t] \/ (ls[o] = ls[t] /\ ~Published(o, t, s))
        BY <1>1, <2>2, <2>5 DEF Times
    <2>7. pc[o] # "returned"
        <3>1. SUFFICES ASSUME pc[o] = "returned" PROVE FALSE OBVIOUS
        <3>2. ls[o] = KSteps BY <2>2, <3>1 DEF LentInv, EndedLast, Ended
        <3>3. Published(o, t, s) BY <3>1 DEF Published, Ended
        <3> QED BY <1>1, <2>2, <2>6, <3>2, <3>3
    <2>8. ~CanGo(o) /\ ~Published(o, t, s) => pc[o] = "free"
        BY <1>3, <2>2, <2>7 DEF Published, Visiting, Ended
    <2>9. ~CanGo(o) => Wait(o) < Wait(t)
        BY <1>1, <1>5, <2>2, <2>6, <2>8 DEF Wait
    <2> QED BY <2>1, <2>7, <2>9
<1> QED BY <1>2, <1>4, <1>5

LEMMA SomebodyCanGo == Inv /\ PanelInv /\ LentInv => NoDeadlock
<1> SUFFICES ASSUME Inv, PanelInv, LentInv, driver = "exec",
                    NEW t \in Threads, pc[t] # "returned",
                    \A u \in Group(t) : ~CanGo(u)
             PROVE  FALSE
    BY DEF NoDeadlock
<1>1. product
    <2>1. ~CanGo(t) BY GroupFacts
    <2>2. pc[t] \in {"free", "visit", "drain"} BY <2>1 DEF CanGo, Inv, DriverShape
    <2> QED BY <2>2 DEF PanelInv, NoProduct
<1> DEFINE Stuck == {u \in Group(t) : pc[u] # "returned"}
           S == {Wait(u) : u \in Stuck}
<1>2. t \in Stuck /\ Stuck \subseteq Threads BY GroupFacts
<1>3. S \in SUBSET Nat
    BY <1>2, ConstantFacts DEF Wait, Inv, TypeOK
<1>4. S # {} BY <1>2
<1>5. PICK n \in S : \A m \in S : n <= m
    <2> HIDE DEF S
    <2> QED BY <1>3, <1>4, Least
<1>6. PICK u \in Stuck : n = Wait(u) BY <1>5
<1>7. PICK v \in Group(u) : pc[v] # "returned" /\ (~CanGo(v) => Wait(v) < Wait(u))
    BY <1>1, <1>2, <1>6, WaitsForEarlier
<1>8. v \in Stuck BY <1>6, <1>7, GroupSame
<1>9. Wait(v) \in S /\ Wait(v) < n BY <1>6, <1>7, <1>8
<1> QED BY <1>3, <1>5, <1>9

(* level3_thread.c: the waits on job[].working never close a circle.  At   *)
(* any moment of a round, cancelled or not, some thread of each group that *)
(* has not returned has a step to take, for every number of threads,       *)
(* steps, blocks and panels: a thread only waits for one that is behind    *)
(* it, and the one furthest behind waits for nobody.                       *)
THEOREM NoDeadlockCorrect == Spec => []NoDeadlock
<1>1. Inv /\ LentInv /\ [Next]_vars => LentInv'
    <2> SUFFICES ASSUME Inv, LentInv, [Next]_vars PROVE LentInv' OBVIOUS
    <2>1. CASE GemmDriver \/ Supersede \/ UNCHANGED vars BY <2>1, LentDriver
    <2>2. CASE \E t \in Threads : InnerThread(t) BY <2>2, LentWorker
    <2> QED BY <2>1, <2>2 DEF Next, Finished
<1> QED BY <1>1, LentInit, SomebodyCanGo, InvCorrect, PanelInvCorrect, PTL DEF Spec

-----------------------------------------------------------------------------
(* Progress.                                                               *)

Stage(t) ==
    CASE pc[t] \in {"idle", "start"} -> 0
      [] pc[t] = "step"              -> 1
      [] pc[t] \in Loading           -> 2
      [] pc[t] \in Visiting          -> 3
      [] pc[t] = "drain"             -> 4
      [] pc[t] = "returned"          -> 5

Region(t) == IF pc[t] \in Visiting THEN Place(blk[t] = 1, t, current[t]) ELSE 0

Substep(t) ==
    CASE pc[t] \in {"packing", "reading"} -> 1
      [] pc[t] \in {"publish", "clear"}   -> 2
      [] OTHER                            -> 0

\* Where a thread is in its nested loops, the outermost first.
Position(t) ==
    <<ls[t], Stage(t), blk[t], Region(t), side[t], Substep(t), reader[t]>>

\* The lexicographic order of positions.
Before(p, q) ==
    \E i \in 1 .. 7 : p[i] < q[i] /\ \A j \in 1 .. 7 : j < i => p[j] = q[j]

\* The positions there are.
Positions(t) ==
    (1 .. KSteps) \X (0 .. 5) \X (1 .. Blocks(t)) \X (0 .. (2 * NM))
        \X (0 .. DivideRate) \X (0 .. 2) \X Group(t)

PositionsBounded == \A t \in Threads : Position(t) \in Positions(t)

StepsAdvance ==
    [][driver = "exec" /\ driver' = "exec" /\ superseded' = superseded =>
        \E t \in Threads :
            /\ Before(Position(t), Position(t)')
            /\ \A u \in Threads \ {t} : Position(u)' = Position(u)]_vars

LEMMA InRange == Inv => PositionsBounded
<1> SUFFICES ASSUME Inv, NEW t \in Threads PROVE Position(t) \in Positions(t)
    BY DEF PositionsBounded
<1>0. TypeOK /\ ThreadShape(t) BY DEF Inv, WorkerShape
<1>1. ls[t] \in 1 .. KSteps /\ side[t] \in 0 .. DivideRate /\ reader[t] \in Group(t)
    BY <1>0 DEF TypeOK, ThreadShape
<1>2. Stage(t) \in 0 .. 5
    <2>1. pc[t] \in ThreadStates BY <1>0 DEF TypeOK
    <2> QED BY <2>1 DEF ThreadStates, Stage, Loading, Visiting
<1>3. blk[t] \in 1 .. Blocks(t)
    <2>1. blk[t] \in Nat \ {0} /\ blk[t] <= Blocks(t) /\ Blocks(t) \in Nat
        BY <1>0, LoopFacts DEF TypeOK, ThreadShape
    <2> QED BY <2>1
<1>4. Region(t) \in 0 .. (2 * NM)
    <2>1. CASE pc[t] \in Visiting
        <3>1. current[t] \in Group(t) BY <1>0, <2>1 DEF ThreadShape
        <3>2. \A first \in BOOLEAN : Place(first, t, current[t]) \in 0 .. (2 * NM)
            BY <3>1, GroupFacts, ConstantFacts DEF Place, Group
        <3> QED BY <2>1, <3>2 DEF Region
    <2>2. CASE pc[t] \notin Visiting BY <2>2, ConstantFacts DEF Region
    <2> QED BY <2>1, <2>2
<1>5. Substep(t) \in 0 .. 2 BY DEF Substep
<1> QED BY <1>1, <1>2, <1>3, <1>4, <1>5 DEF Position, Positions

LEMMA InRangeNext == Inv' => PositionsBounded'
BY InRange, PTL

\* A later loop variable matters only where the earlier ones are equal.
LEMMA BeforeFacts ==
    ASSUME NEW p \in Int \X Int \X Int \X Int \X Int \X Int \X Int,
           NEW q \in Int \X Int \X Int \X Int \X Int \X Int \X Int,
           \/ p[1] < q[1]
           \/ p[1] = q[1] /\ p[2] < q[2]
           \/ p[1] = q[1] /\ p[2] = q[2] /\ p[3] < q[3]
           \/ p[1] = q[1] /\ p[2] = q[2] /\ p[3] = q[3] /\ p[4] < q[4]
           \/ p[1] = q[1] /\ p[2] = q[2] /\ p[3] = q[3] /\ p[4] = q[4] /\ p[5] < q[5]
           \/ /\ p[1] = q[1] /\ p[2] = q[2] /\ p[3] = q[3] /\ p[4] = q[4] /\ p[5] = q[5]
              /\ p[6] < q[6]
           \/ /\ p[1] = q[1] /\ p[2] = q[2] /\ p[3] = q[3] /\ p[4] = q[4] /\ p[5] = q[5]
              /\ p[6] = q[6] /\ p[7] < q[7]
    PROVE  Before(p, q)
<1>1. ASSUME NEW i \in 1 .. 7, p[i] < q[i], \A j \in 1 .. 7 : j < i => p[j] = q[j]
      PROVE  Before(p, q)
    BY <1>1 DEF Before
<1>2. \A j \in 1 .. 7 : j \in {1, 2, 3, 4, 5, 6, 7} OBVIOUS
<1>3. CASE p[1] < q[1] BY <1>1, <1>3
<1>4. CASE p[1] = q[1] /\ p[2] < q[2] BY <1>1, <1>2, <1>4
<1>5. CASE p[1] = q[1] /\ p[2] = q[2] /\ p[3] < q[3] BY <1>1, <1>2, <1>5
<1>6. CASE p[1] = q[1] /\ p[2] = q[2] /\ p[3] = q[3] /\ p[4] < q[4] BY <1>1, <1>2, <1>6
<1>7. CASE p[1] = q[1] /\ p[2] = q[2] /\ p[3] = q[3] /\ p[4] = q[4] /\ p[5] < q[5]
    BY <1>1, <1>2, <1>7
<1>8. CASE /\ p[1] = q[1] /\ p[2] = q[2] /\ p[3] = q[3] /\ p[4] = q[4] /\ p[5] = q[5]
           /\ p[6] < q[6]
    BY <1>1, <1>2, <1>8
<1>9. CASE /\ p[1] = q[1] /\ p[2] = q[2] /\ p[3] = q[3] /\ p[4] = q[4] /\ p[5] = q[5]
           /\ p[6] = q[6] /\ p[7] < q[7]
    BY <1>1, <1>2, <1>9
<1> QED BY <1>3, <1>4, <1>5, <1>6, <1>7, <1>8, <1>9


LEMMA StepAdvances ==
    ASSUME Inv, NEW t \in Threads, InnerThread(t)
    PROVE  Before(Position(t), Position(t)')
<1>0. TypeOK /\ ThreadShape(t) /\ TypeOK' /\ WorkerShape' /\ Inv'
    BY InvWorker DEF Inv, WorkerShape
<1> DEFINE p == Position(t)
           q == Position(t)'
<1>1. /\ p \in Int \X Int \X Int \X Int \X Int \X Int \X Int
      /\ q \in Int \X Int \X Int \X Int \X Int \X Int \X Int
    <2>1. Position(t) \in Positions(t) /\ Position(t)' \in Positions(t)'
        BY <1>0, InRange, InRangeNext DEF PositionsBounded
    <2>2. Group(t) \subseteq Int
        BY GroupFacts, ConstantFacts
    <2>3. /\ Positions(t) \subseteq Int \X Int \X Int \X Int \X Int \X Int \X Int
          /\ Positions(t)' = Positions(t)
        <3>1. Blocks(t) \in Int /\ KSteps \in Int /\ NM \in Int /\ DivideRate \in Int
            BY <1>0, LoopFacts, ConstantFacts
        <3> QED BY <2>2, <3>1 DEF Positions, Blocks, Group, First
    <2> QED BY <2>1, <2>3
<1>2. /\ p[1] = ls[t] /\ p[2] = Stage(t) /\ p[3] = blk[t] /\ p[4] = Region(t)
      /\ p[5] = side[t] /\ p[6] = Substep(t) /\ p[7] = reader[t]
      /\ q[1] = ls'[t] /\ q[2] = Stage(t)' /\ q[3] = blk'[t] /\ q[4] = Region(t)'
      /\ q[5] = side'[t] /\ q[6] = Substep(t)' /\ q[7] = reader'[t]
    BY DEF Position
<1> HIDE DEF p, q
<1>3. ASSUME \/ ls[t] < ls'[t]
             \/ ls[t] = ls'[t] /\ Stage(t) < Stage(t)'
             \/ ls[t] = ls'[t] /\ Stage(t) = Stage(t)' /\ blk[t] < blk'[t]
             \/ /\ ls[t] = ls'[t] /\ Stage(t) = Stage(t)' /\ blk[t] = blk'[t]
                /\ Region(t) < Region(t)'
             \/ /\ ls[t] = ls'[t] /\ Stage(t) = Stage(t)' /\ blk[t] = blk'[t]
                /\ Region(t) = Region(t)' /\ side[t] < side'[t]
             \/ /\ ls[t] = ls'[t] /\ Stage(t) = Stage(t)' /\ blk[t] = blk'[t]
                /\ Region(t) = Region(t)' /\ side[t] = side'[t] /\ Substep(t) < Substep(t)'
             \/ /\ ls[t] = ls'[t] /\ Stage(t) = Stage(t)' /\ blk[t] = blk'[t]
                /\ Region(t) = Region(t)' /\ side[t] = side'[t] /\ Substep(t) = Substep(t)'
                /\ reader[t] < reader'[t]
      PROVE  Before(p, q)
    BY <1>1, <1>2, <1>3, BeforeFacts
<1>4. /\ ls[t] \in Nat /\ blk[t] \in Nat /\ side[t] \in Nat /\ reader[t] \in Nat
      /\ side[t] + 1 > side[t] /\ reader[t] + 1 > reader[t]
    <2>1. ls[t] \in Nat /\ blk[t] \in Nat /\ side[t] \in Nat
        BY <1>0, ConstantFacts DEF TypeOK
    <2>2. reader[t] \in Nat BY <1>0, ConstantFacts DEF TypeOK, Threads
    <2> QED BY <2>1, <2>2
<1> USE DEF Go, Stage, Loading, Visiting
<1>5. CASE Begin(t)
    <2>1. pc[t] = "start" /\ pc'[t] \in {"step", "returned"} /\ ls' = ls
        BY <1>0, <1>5 DEF Begin, TypeOK
    <2>2. Stage(t) < Stage(t)' BY <2>1
    <2> QED BY <1>3, <2>1, <2>2 DEF p, q
<1>6. CASE NextStep(t)
    <2>1. pc[t] = "step" /\ pc'[t] = "free" /\ ls' = ls
        BY <1>0, <1>6 DEF NextStep, TypeOK
    <2>2. Stage(t) < Stage(t)' BY <2>1
    <2> QED BY <1>3, <2>1, <2>2 DEF p, q
<1>7. CASE AfterPack(t)
    <2>1. pc[t] = "free" /\ pc'[t] = "visit" /\ ls' = ls
        BY <1>0, <1>7 DEF AfterPack, TypeOK
    <2>2. Stage(t) < Stage(t)' BY <2>1
    <2> QED BY <1>3, <2>1, <2>2 DEF p, q
<1>8. CASE BeginPack(t) \/ EndPack(t)
    <2>1. /\ ls' = ls /\ blk' = blk /\ side' = side
          /\ \/ pc[t] = "free" /\ pc'[t] \in {"packing", "publish"}
             \/ pc[t] = "packing" /\ pc'[t] = "publish"
        BY <1>0, <1>8 DEF BeginPack, EndPack, TypeOK
    <2>2. Stage(t) = Stage(t)' /\ Region(t) = Region(t)' /\ Substep(t) < Substep(t)'
        BY <2>1 DEF Region, Substep
    <2> QED BY <1>3, <2>1, <2>2 DEF p, q
<1>9. CASE Publish(t)
    <2>1. pc[t] = "publish" /\ pc'[t] \in {"publish", "free"} /\ ls' = ls /\ blk' = blk
        BY <1>0, <1>9 DEF Publish, TypeOK
    <2>2. Stage(t) = Stage(t)' /\ Region(t) = Region(t)' BY <2>1 DEF Region
    <2>3. \/ pc'[t] = "publish" /\ side'[t] = side[t] /\ reader'[t] = reader[t] + 1
          \/ side'[t] = side[t] + 1
        BY <1>0, <1>9 DEF Publish, TypeOK
    <2>4. \/ Substep(t) = Substep(t)' /\ side[t] = side'[t] /\ reader[t] < reader'[t]
          \/ side[t] < side'[t]
        BY <1>4, <2>1, <2>3 DEF Substep
    <2> QED BY <1>3, <2>1, <2>2, <2>4 DEF p, q
<1>10. CASE Visit(t) \/ Revisit(t) \/ EndRead(t)
    <2>1. /\ ls' = ls /\ blk' = blk /\ side' = side /\ current' = current
          /\ \/ pc[t] = "visit" /\ pc'[t] \in {"reading", "clear"}
             \/ pc[t] = "reading" /\ pc'[t] = "clear"
        BY <1>0, <1>10 DEF Visit, Revisit, EndRead, TypeOK
    <2>2. Stage(t) = Stage(t)' /\ Region(t) = Region(t)' /\ Substep(t) < Substep(t)'
        BY <2>1 DEF Region, Substep
    <2> QED BY <1>3, <2>1, <2>2 DEF p, q
<1>11. CASE Clear(t)
    <2>1. /\ ls' = ls /\ blk' = blk /\ side'[t] = side[t] + 1 /\ current' = current
          /\ pc[t] = "clear" /\ pc'[t] = "visit"
        BY <1>0, <1>11 DEF Clear, TypeOK
    <2>2. Stage(t) = Stage(t)' /\ Region(t) = Region(t)' BY <2>1 DEF Region
    <2>3. side[t] < side'[t] BY <1>4, <2>1
    <2> QED BY <1>3, <2>1, <2>2, <2>3 DEF p, q
<1>12. CASE NextRegion(t)
    <2>1. /\ ls' = ls /\ blk' = blk /\ pc' = pc /\ pc[t] = "visit"
          /\ current'[t] = Successor(t, current[t]) /\ RegionsLeft(t)
        BY <1>0, <1>12 DEF NextRegion, TypeOK
    <2>2. current[t] \in Group(t) BY <1>0, <2>1 DEF ThreadShape
    <2>3. Place(blk[t] = 1, t, Successor(t, current[t])) = Place(blk[t] = 1, t, current[t]) + 1
        BY <2>1, <2>2, PlaceStep DEF RegionsLeft
    <2>4. Place(blk[t] = 1, t, current[t]) \in Int BY <2>2, PlaceFacts
    <2>5. Region(t) < Region(t)' BY <2>1, <2>3, <2>4 DEF Region
    <2>6. Stage(t) = Stage(t)' BY <2>1
    <2> QED BY <1>3, <2>1, <2>5, <2>6 DEF p, q
<1>13. CASE NextBlock(t)
    <2>1. pc[t] = "visit" BY <1>13 DEF NextBlock
    <2>2. \/ blk'[t] = blk[t] + 1 /\ pc' = pc /\ ls' = ls
          \/ ls'[t] = ls[t] + 1
          \/ pc'[t] = "drain" /\ ls' = ls
        BY <1>0, <1>13 DEF NextBlock, TypeOK
    <2>3. CASE blk'[t] = blk[t] + 1 /\ pc' = pc /\ ls' = ls
        <3>1. Stage(t) = Stage(t)' /\ blk[t] < blk'[t] BY <1>4, <2>3
        <3> QED BY <1>3, <2>3, <3>1 DEF p, q
    <2>4. CASE ls'[t] = ls[t] + 1
        <3>1. ls[t] < ls'[t] BY <1>4, <2>4
        <3> QED BY <1>3, <3>1 DEF p, q
    <2>5. CASE pc'[t] = "drain" /\ ls' = ls
        <3>1. Stage(t) < Stage(t)' BY <2>1, <2>5
        <3> QED BY <1>3, <2>5, <3>1 DEF p, q
    <2> QED BY <2>2, <2>3, <2>4, <2>5
<1>14. CASE Drain(t)
    <2>1. pc[t] = "drain" /\ pc'[t] = "returned" /\ ls' = ls
        BY <1>0, <1>14 DEF Drain, TypeOK
    <2>2. Stage(t) < Stage(t)' BY <2>1
    <2> QED BY <1>3, <2>1, <2>2 DEF p, q
<1> QED BY <1>5, <1>6, <1>7, <1>8, <1>9, <1>10, <1>11, <1>12, <1>13, <1>14 DEF InnerThread

(* level3_thread.c: a round of inner_thread is finite.  The loop variables *)
(* stay within their loops ...                                             *)
THEOREM PositionsBoundedCorrect == Spec => []PositionsBounded
BY InRange, InvCorrect, PTL

(* ... and every step takes some thread forward in them and leaves the     *)
(* others where they are: no loop goes back, cancelled or not, so that     *)
(* together with NoDeadlock each round ends if the threads go on.          *)
THEOREM StepsAdvanceCorrect == Spec => StepsAdvance
<1> DEFINE Forward ==
        driver = "exec" /\ driver' = "exec" /\ superseded' = superseded =>
            \E t \in Threads :
                /\ Before(Position(t), Position(t)')
                /\ \A u \in Threads \ {t} : Position(u)' = Position(u)
<1>1. Inv /\ [Next]_vars => [Forward]_vars
    <2> SUFFICES ASSUME Inv, [Next]_vars, driver = "exec", driver' = "exec",
                        superseded' = superseded, vars' # vars
                 PROVE  \E t \in Threads :
                            /\ Before(Position(t), Position(t)')
                            /\ \A u \in Threads \ {t} : Position(u)' = Position(u)
        OBVIOUS
    <2>1. PICK t \in Threads : InnerThread(t)
        BY DEF Next, GemmDriver, ClearFlags, Join, NextRound, Supersede, Finished
    <2>2. Before(Position(t), Position(t)') BY <2>1, StepAdvances
    <2>3. ASSUME NEW u \in Threads \ {t} PROVE Position(u)' = Position(u)
        <3>1. /\ pc'[u] = pc[u] /\ blk'[u] = blk[u] /\ side'[u] = side[u] /\ ls'[u] = ls[u]
              /\ current'[u] = current[u] /\ reader'[u] = reader[u]
            BY <2>1, Frame, StepFrame DEF Inv
        <3> QED BY <3>1 DEF Position, Stage, Region, Substep
    <2> QED BY <2>2, <2>3
<1> QED BY <1>1, InvCorrect, PTL DEF Spec, StepsAdvance
=============================================================================
