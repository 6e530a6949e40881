-------------------------- MODULE Level3LockProofs --------------------------
(***************************************************************************)
(* Theorems about Level3Lock, for every set of threads, every number of    *)
(* sections and every MaxCalls: the invariant and what follows from it,    *)
(* the refinement, and that somebody can always go on.                     *)
(***************************************************************************)
EXTENDS Level3Lock, FiniteSetTheorems, TLAPS

USE LockAssumption

-----------------------------------------------------------------------------
(* The inductive invariant.                                                *)

\* Each lock is held by the thread whose place says so.
InitLockHolder ==
    \A t \in Threads : initLock = t <=> pc[t] \in {"create", "flag", "unspin"}

CriticalHolder ==
    \A t \in Threads : critical = t <=> pc[t] \in {"take", "out", "back", "shut"}

\* The locks are made once, before they are used.
Making ==
    /\ \A t \in Threads :
          /\ pc[t] \in Using => initialized
          /\ pc[t] \in {"create", "flag"} => ~initialized
          /\ pc[t] = "flag" => level3 # Unmade /\ critical # Unmade
    /\ initialized => level3 # Unmade /\ critical # Unmade

\* Who is on the way in holds level3_lock and will find a section; when there
\* is none left, somebody keeps the lock who is not on the way in.
Door ==
    /\ \A t \in Threads :
          pc[t] \in {"critical", "take"} => level3 = t /\ left > 0
    /\ left = 0 => level3 \in Threads

\* Every section is free or somebody is in it.
Conservation == IsFiniteSet(Inside) /\ left + Cardinality(Inside) = MaxSections

Inv ==
    /\ TypeOK
    /\ InitLockHolder
    /\ CriticalHolder
    /\ Making
    /\ Door
    /\ Conservation

-----------------------------------------------------------------------------
(* How a step changes the set of threads inside.                           *)

Rooms == {"out", "inside", "leave", "back"}

LEMMA InsideSame ==
    ASSUME TypeOK, NEW t \in Threads, NEW from, NEW to, At(t, from, to),
           from \in Rooms <=> to \in Rooms
    PROVE  Inside' = Inside
BY DEF TypeOK, At, Inside, Rooms

LEMMA InsideGains ==
    ASSUME TypeOK, NEW t \in Threads, Take(t)
    PROVE  t \notin Inside /\ Inside' = Inside \cup {t}
BY DEF TypeOK, Take, At, Inside

LEMMA InsideLoses ==
    ASSUME TypeOK, NEW t \in Threads, Back(t)
    PROVE  t \in Inside /\ Inside' = Inside \ {t}
BY DEF TypeOK, Back, At, Inside

\* The steps that neither take nor give back a section.
Neutral(t) ==
    \/ Call(t) \/ Check(t) \/ Spin(t) \/ Create(t) \/ Flag(t) \/ Unspin(t)
    \/ LockLevel3(t) \/ LockCritical(t, "critical", "take")
    \/ UnlockCritical(t, "out", "inside") \/ Work(t)
    \/ LockCritical(t, "leave", "back") \/ UnlockCritical(t, "shut", "idle")

LEMMA NextCases ==
    ASSUME NEW t \in Threads, Call(t) \/ Thread(t)
    PROVE  Neutral(t) \/ Take(t) \/ Back(t)
BY DEF Thread, Enter, Leave, Neutral

LEMMA NeutralInside ==
    ASSUME TypeOK, NEW t \in Threads, Neutral(t)
    PROVE  Inside' = Inside /\ left' = left
<1>1. PICK from, to : At(t, from, to) /\ (from \in Rooms <=> to \in Rooms)
    BY DEF Neutral, Call, Check, Spin, Create, Flag, Unspin, LockLevel3, LockCritical,
           UnlockCritical, Work, At, Rooms
<1>2. left' = left
    BY DEF Neutral, Call, Check, Spin, Create, Flag, Unspin, LockLevel3, LockCritical,
           UnlockCritical, Work
<1> QED BY <1>1, <1>2, InsideSame

-----------------------------------------------------------------------------
(* Init => Inv and Inv /\ [Next]_vars => Inv'.                             *)

LEMMA InvInit == Init => Inv
<1> SUFFICES ASSUME Init PROVE Inv OBVIOUS
<1>1. Inside = {} BY DEF Init, Inside
<1>2. Conservation BY <1>1, FS_EmptySet DEF Conservation, Init
<1>3. TypeOK
    <2>1. MaxSections \in 0 .. MaxSections /\ 0 \in 0 .. MaxCalls OBVIOUS
    <2> QED BY <2>1 DEF Init, TypeOK
<1>4. InitLockHolder /\ CriticalHolder
    BY DEF Init, InitLockHolder, CriticalHolder
<1>5. Making /\ Door BY DEF Init, Making, Door, Using
<1> QED BY <1>2, <1>3, <1>4, <1>5 DEF Inv

LEMMA Counting ==
    ASSUME Inv, NEW t \in Threads, Call(t) \/ Thread(t)
    PROVE  Conservation' /\ left' \in 0 .. MaxSections
<1>1. Cardinality(Inside) \in Nat BY FS_CardinalityType DEF Inv, Conservation
<1>2. CASE Neutral(t)
    BY <1>2, NeutralInside DEF Inv, Conservation, TypeOK
<1>3. CASE Take(t)
    <2>1. IsFiniteSet(Inside') /\ Cardinality(Inside') = Cardinality(Inside) + 1
        BY <1>3, InsideGains, FS_AddElement DEF Inv, Conservation
    <2>2. left > 0 /\ left' = left - 1
        BY <1>3 DEF Inv, Door, Take, At
    <2> QED BY <1>1, <2>1, <2>2 DEF Inv, Conservation, TypeOK
<1>4. CASE Back(t)
    <2>1. IsFiniteSet(Inside') /\ Cardinality(Inside') = Cardinality(Inside) - 1
        BY <1>4, InsideLoses, FS_RemoveElement DEF Inv, Conservation
    <2>2. Cardinality(Inside') \in Nat BY <2>1, FS_CardinalityType
    <2>3. left' = left + 1 BY <1>4 DEF Back
    <2> QED BY <1>1, <2>1, <2>2, <2>3 DEF Inv, Conservation, TypeOK
<1> QED BY <1>2, <1>3, <1>4, NextCases

LEMMA InvStep == Inv /\ [Next]_vars => Inv'
<1> SUFFICES ASSUME Inv, [Next]_vars PROVE Inv' OBVIOUS
<1> USE DEF Inv, TypeOK, InitLockHolder, CriticalHolder, Making, Door, Using, At
<1>1. ASSUME NEW t \in Threads, Call(t) \/ Thread(t)
      PROVE  Inv'
    <2>1. Conservation' /\ left' \in 0 .. MaxSections BY <1>1, Counting
    <2>2. CASE Call(t) BY <2>1, <2>2 DEF Call
    <2>3. CASE Check(t) BY <2>1, <2>3 DEF Check
    <2>4. CASE Spin(t) BY <2>1, <2>4 DEF Spin
    <2>5. CASE Create(t)
        <3>1. TypeOK' BY <2>1, <2>5 DEF Create
        <3>2. InitLockHolder' BY <2>5 DEF Create
        <3>3. \A s \in Threads : pc[s] \notin Using BY <2>5 DEF Create
        <3>4. CriticalHolder' BY <2>5, <3>3 DEF Create
        <3>5. Making' BY <2>5, <3>3 DEF Create
        <3>6. left = MaxSections
            BY <3>3, FS_EmptySet DEF Conservation, Inside
        <3>7. Door' BY <2>5, <3>3, <3>6 DEF Create
        <3> QED BY <2>1, <3>1, <3>2, <3>4, <3>5, <3>7
    <2>6. CASE Flag(t) BY <2>1, <2>6 DEF Flag
    <2>7. CASE Unspin(t) BY <2>1, <2>7 DEF Unspin
    <2>8. CASE LockLevel3(t) BY <2>1, <2>8 DEF LockLevel3
    <2>9. CASE LockCritical(t, "critical", "take") BY <2>1, <2>9 DEF LockCritical
    <2>10. CASE Take(t) BY <2>1, <2>10 DEF Take
    <2>11. CASE UnlockCritical(t, "out", "inside") BY <2>1, <2>11 DEF UnlockCritical
    <2>12. CASE Work(t) BY <2>1, <2>12 DEF Work
    <2>13. CASE LockCritical(t, "leave", "back") BY <2>1, <2>13 DEF LockCritical
    <2>14. CASE Back(t) BY <2>1, <2>14 DEF Back
    <2>15. CASE UnlockCritical(t, "shut", "idle") BY <2>1, <2>15 DEF UnlockCritical
    <2> QED BY <1>1, <2>2, <2>3, <2>4, <2>5, <2>6, <2>7, <2>8, <2>9, <2>10, <2>11,
               <2>12, <2>13, <2>14, <2>15 DEF Thread, Enter, Leave
<1>2. CASE UNCHANGED vars
    <2>1. Inside' = Inside BY <1>2 DEF vars, Inside
    <2> QED BY <1>2, <2>1 DEF vars, Conservation
<1> QED BY <1>1, <1>2 DEF Next

THEOREM InvCorrect == Spec => []Inv
BY InvInit, InvStep, PTL DEF Spec

-----------------------------------------------------------------------------
(* What follows from the invariant.                                        *)

\* Every variable keeps its type; above all parallel_section_left stays in
\* 0 .. MAX_PARALLEL_NUMBER.
THEOREM TypeCorrect == Spec => []TypeOK
<1>1. Inv => TypeOK BY DEF Inv
<1> QED BY <1>1, InvCorrect, PTL

\* At most MAX_PARALLEL_NUMBER threads are between enter and leave.
THEOREM AtMostMaximumCorrect == Spec => []AtMostMaximum
<1>1. Inv => AtMostMaximum
    BY FS_CardinalityType DEF Inv, TypeOK, Conservation, AtMostMaximum
<1> QED BY <1>1, InvCorrect, PTL

\* level3_lock is only released while it is held, and not by a thread that
\* leaves while another one is on the way in with it.
THEOREM NeverUnlocksFreeCorrect == Spec => []NeverUnlocksFree
<1>1. Inv => NeverUnlocksFree BY DEF Inv, TypeOK, Door, NeverUnlocksFree
<1> QED BY <1>1, InvCorrect, PTL

\* Nobody uses a lock that is not made, and none is made a second time.
THEOREM LocksReadyCorrect == Spec => []LocksReady
<1>1. Inv => LocksReady BY DEF Inv, Making, LocksReady
<1> QED BY <1>1, InvCorrect, PTL

-----------------------------------------------------------------------------
(* The refinement: Take is the semaphore's Enter, Back its Leave.          *)

LEMMA SemStep == Inv /\ [Next]_vars => [Sem!Next]_<<left, Inside>>
<1> SUFFICES ASSUME Inv, [Next]_vars PROVE [Sem!Next]_<<left, Inside>> OBVIOUS
<1>1. ASSUME NEW t \in Threads, Neutral(t)
      PROVE  UNCHANGED <<left, Inside>>
    BY <1>1, NeutralInside DEF Inv
<1>2. ASSUME NEW t \in Threads, Take(t)
      PROVE  Sem!Enter(t)
    BY <1>2, InsideGains DEF Inv, Door, Take, At, Sem!Enter
<1>3. ASSUME NEW t \in Threads, Back(t)
      PROVE  Sem!Leave(t)
    BY <1>3, InsideLoses DEF Inv, Back, Sem!Leave
<1>4. CASE UNCHANGED vars
    BY <1>4 DEF vars, Inside
<1>5. CASE Next
    BY <1>5, <1>1, <1>2, <1>3, NextCases DEF Next, Sem!Next
<1> QED BY <1>4, <1>5

\* Two locks and a count implement a counting semaphore.
THEOREM Implementation == Spec => ImplementsSemaphore
<1>1. Init => Sem!Init BY DEF Init, Sem!Init, Inside
<1> QED BY <1>1, SemStep, InvCorrect, PTL DEF Spec, ImplementsSemaphore, Sem!Spec

-----------------------------------------------------------------------------
(* Nobody waits for ever on everybody else.                                *)

\* While sections are left, who holds level3_lock is on the way in.
Keeper ==
    \A t \in Threads : level3 = t /\ left > 0 => pc[t] \in {"critical", "take"}

\* A thread has a step to take that does not wait for anybody.
CanGo(t) ==
    /\ pc[t] # "idle"
    /\ pc[t] = "spin" => initLock = Nobody
    /\ pc[t] = "level3" => level3 = Nobody
    /\ pc[t] \in {"critical", "leave"} => critical = Nobody

NoDeadlock == (\E t \in Threads : pc[t] # "idle") => \E t \in Threads : CanGo(t)

LEMMA KeeperStep == Inv /\ Keeper /\ [Next]_vars => Keeper'
<1> SUFFICES ASSUME Inv, Keeper, [Next]_vars, NEW h \in Threads, level3' = h, left' > 0
             PROVE  pc'[h] \in {"critical", "take"}
  BY DEF Keeper
<1>0. TypeOK /\ Door BY DEF Inv
<1>1. ASSUME NEW t \in Threads, Neutral(t)
      PROVE  pc'[h] \in {"critical", "take"}
  <2>1. left' = left BY <1>0, <1>1, NeutralInside
  <2>2. CASE level3' = level3
    <3>1. pc[h] \in {"critical", "take"} BY <2>1, <2>2 DEF Keeper
    <3>2. pc' = pc \/ h # t \/ (pc[h] = "critical" /\ pc'[h] = "take")
      BY <1>0, <1>1, <3>1 DEF Neutral, Call, Check, Spin, Create, Flag, Unspin, LockLevel3,
         LockCritical, UnlockCritical, Work, At, TypeOK
    <3>3. h # t => pc'[h] = pc[h]
      BY <1>0, <1>1 DEF Neutral, Call, Check, Spin, Create, Flag, Unspin, LockLevel3,
         LockCritical, UnlockCritical, Work, At, TypeOK
    <3> QED BY <3>1, <3>2, <3>3
  <2>3. CASE level3' # level3
    <3>1. LockLevel3(t) /\ h = t
      BY <1>1, <2>3, LockAssumption DEF Neutral, Call, Check, Spin, Create, Flag, Unspin, LockLevel3,
         LockCritical, UnlockCritical, Work
    <3> QED BY <1>0, <3>1 DEF LockLevel3, At, TypeOK
  <2> QED BY <2>2, <2>3
<1>2. ASSUME NEW t \in Threads, Take(t)
      PROVE  FALSE
  <2>1. level3' = Nobody BY <1>0, <1>2 DEF Take, TypeOK
  <2> QED BY <2>1, LockAssumption
<1>3. ASSUME NEW t \in Threads, Back(t)
      PROVE  pc'[h] \in {"critical", "take"}
  <2>1. level3' = level3 /\ left > 0
    BY <1>0, <1>3, LockAssumption DEF Back, TypeOK
  <2>2. pc[h] \in {"critical", "take"} BY <2>1 DEF Keeper
  <2> QED BY <1>0, <1>3, <2>2 DEF Back, At, TypeOK
<1>4. CASE UNCHANGED vars
  BY <1>4 DEF vars, Keeper
<1> QED BY <1>1, <1>2, <1>3, <1>4, NextCases DEF Next

\* While a thread is on its way in, inside or on its way out, one of them has a
\* step to take: the three locks are taken in one order, and level3_lock, which
\* the taker of the last section keeps, is released by one who is inside.
THEOREM NoDeadlockCorrect == Spec => []NoDeadlock
<1>1. Init => Keeper
  BY LockAssumption DEF Init, Keeper
<1>2. Inv /\ Keeper => NoDeadlock
  <2> SUFFICES ASSUME Inv, Keeper, NEW a \in Threads, pc[a] # "idle",
                      \A t \in Threads : ~CanGo(t)
               PROVE  FALSE
    BY DEF NoDeadlock
  <2>0. TypeOK /\ InitLockHolder /\ CriticalHolder /\ Making /\ Conservation
    BY DEF Inv
  <2>1. \A t \in Threads : pc[t] \in {"idle", "spin", "level3", "critical", "leave"}
    BY <2>0 DEF CanGo, TypeOK, Using
  <2>2. \A t \in Threads : pc[t] # "spin"
    BY <2>0, <2>1 DEF CanGo, TypeOK, InitLockHolder
  <2>3. \A t \in Threads : pc[t] \notin {"critical", "leave"}
    BY <2>0, <2>1 DEF CanGo, TypeOK, CriticalHolder, Making, Using
  <2>4. Inside = {} /\ level3 \in Threads
    BY <2>0, <2>1, <2>2, <2>3 DEF CanGo, TypeOK, Making, Using, Inside
  <2>5. left > 0
    BY <2>0, <2>4, FS_EmptySet, LockAssumption DEF Conservation, TypeOK
  <2> QED BY <2>1, <2>3, <2>4, <2>5 DEF Keeper
<1> QED BY <1>1, <1>2, KeeperStep, InvCorrect, PTL DEF Spec
=============================================================================
