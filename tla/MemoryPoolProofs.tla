-------------------------- MODULE MemoryPoolProofs --------------------------
(***************************************************************************)
(* Theorems about MemoryPool, for every set of threads and regions, both   *)
(* table sizes and every limit on failures.                                *)
(***************************************************************************)
EXTENDS MemoryPool, TLAPS

USE PoolAssumption

-----------------------------------------------------------------------------
(* The inductive invariant.  It ties a slot to its owner by position, which *)
(* the owner forgets when it returns; the address takes its place.         *)

Owns(t, s) == pc[t] \in Owning /\ pos[t] = s

\* A slot is marked exactly while it has an owner, and has one owner.
Marks ==
    /\ \A t \in Threads : pc[t] \in Owning => used[pos[t]] /\ pos[t] \in Listed
    /\ \A s \in Slots : used[s] => \E t \in Threads : Owns(t, s)
    /\ \A t, u \in Threads :
          t # u /\ pc[t] \in Owning /\ pc[u] \in Owning => pos[t] # pos[u]

\* No two slots have the same region, and slots have regions that are mapped.
Addresses ==
    /\ \A s \in Slots : addr[s] # None => addr[s] \in mapped
    /\ \A s1, s2 \in Slots : addr[s1] # None /\ s1 # s2 => addr[s1] # addr[s2]

\* A region on its way to a slot is in no slot and on no other way.
Fresh ==
    /\ \A t \in Threads : pc[t] \in {"register", "publish"} =>
          map[t] \in mapped /\ \A s \in Slots : addr[s] # map[t]
    /\ \A t, u \in Threads :
          /\ t # u
          /\ pc[t] \in {"register", "publish"} /\ pc[u] \in {"register", "publish"}
          => map[t] # map[u]

\* A caller has the region of its slot.
Areas ==
    \A t \in Threads :
        /\ pc[t] = "return" => addr[pos[t]] # None
        /\ IF pc[t] = "held" THEN area[t] # None /\ area[t] = addr[pos[t]]
                             ELSE area[t] = None

Failures == ended = "no" => \A t \in Threads : failed[t] <= FailLimit

Inv ==
    /\ TypeOK
    /\ Marks
    /\ Addresses
    /\ Fresh
    /\ Areas
    /\ EveryRegionRegistered
    /\ Failures

LEMMA SlotsInt == Slots \subseteq Int
BY DEF Slots, Regular, Overflow

LEMMA InvInit == Init => Inv
<1> SUFFICES ASSUME Init PROVE Inv OBVIOUS
<1>1. TypeOK
    <2>1. 0 \in Slots /\ 0 \in 0 .. FailLimit + 1 BY DEF Slots, Regular
    <2>2. register \in Seq(Regions) BY DEF Init
    <2> QED BY <2>1, <2>2 DEF Init, TypeOK
<1>2. Marks /\ Addresses /\ Fresh /\ Areas
    BY DEF Init, Marks, Addresses, Fresh, Areas, Owning, Slots, Regular, Overflow
<1>3. EveryRegionRegistered BY DEF Init, EveryRegionRegistered, Range
<1>4. Failures BY DEF Init, Failures
<1> QED BY <1>1, <1>2, <1>3, <1>4 DEF Inv

LEMMA TypeStep == Inv /\ [Next]_vars => TypeOK'
<1> SUFFICES ASSUME Inv, [Next]_vars PROVE TypeOK' OBVIOUS
<1> USE DEF Inv, TypeOK, At
<1>1. ASSUME NEW t \in Threads, Claim(t) PROVE TypeOK'
    BY <1>1 DEF Claim, FirstOf, Unused, Listed, Slots
<1>2. ASSUME NEW t \in Threads, Full(t) \/ Refuse(t) \/ Look(t) \/ Retry(t) PROVE TypeOK'
    BY <1>2 DEF Full, Refuse, Look, Retry
<1>3. ASSUME NEW t \in Threads, Extend(t) PROVE TypeOK'
    BY <1>3 DEF Extend, Slots, Regular, Overflow
<1>4. ASSUME NEW t \in Threads, Map(t) PROVE TypeOK'
    BY <1>4 DEF Map
<1>5. ASSUME NEW t \in Threads, MapFails(t) PROVE TypeOK'
    <2>1. failed' \in [Threads -> 0 .. FailLimit + 1]
        <3>1. CASE failed' = failed BY <3>1
        <3>2. CASE failed' = [failed EXCEPT ![t] = @ + 1]
            <4>1. failed[t] + 1 \in 0 .. FailLimit + 1 BY <1>5 DEF MapFails, Failures
            <4> QED BY <3>2, <4>1
        <3> QED BY <1>5, <3>1, <3>2 DEF MapFails
    <2>2. ended' \in {"no", "exit", "wild"} BY <1>5 DEF MapFails
    <2> QED BY <1>5, <2>1, <2>2 DEF MapFails
<1>6. ASSUME NEW t \in Threads, Register(t) PROVE TypeOK'
    <2>1. map[t] \in Regions BY <1>6 DEF Register, Fresh
    <2>2. CASE Len(register) < Capacity
        <3>1. register' = Append(register, map[t]) BY <1>6, <2>2 DEF Register
        <3>2. register' \in Seq(Regions)
            <4> HIDE DEF Inv
            <4>1. register \in Seq(Regions) BY DEF Inv
            <4> QED BY <2>1, <3>1, <4>1
        <3> QED BY <1>6, <2>2, <3>2 DEF Register
    <2>3. CASE ~(Len(register) < Capacity) BY <1>6, <2>3 DEF Register
    <2> QED BY <2>2, <2>3
<1>7. ASSUME NEW t \in Threads, Publish(t) \/ Return(t) \/ Free(t) PROVE TypeOK'
    BY <1>7 DEF Publish, Return, Free
<1>8. CASE Shutdown
    <2>1. register' \in Seq(Regions) BY <1>8 DEF Shutdown
    <2> QED BY <1>8, <2>1 DEF Shutdown
<1>9. CASE UNCHANGED vars BY <1>9 DEF vars
<1> QED BY <1>1, <1>2, <1>3, <1>4, <1>5, <1>6, <1>7, <1>8, <1>9 DEF Next, Proceed

\* Most steps leave alone what Marks speaks of.
LEMMA MarksSame ==
    ASSUME Marks, used' = used, pos' = pos, overflowed' = overflowed,
           \A t \in Threads : pc'[t] \in Owning <=> pc[t] \in Owning
    PROVE  Marks'
BY DEF Marks, Owns, Listed

LEMMA MarksStep == Inv /\ [Next]_vars => Marks'
<1> SUFFICES ASSUME Inv, [Next]_vars PROVE Marks' OBVIOUS
<1> USE DEF Inv, TypeOK, At
<1>1. ASSUME NEW t \in Threads, Claim(t) PROVE Marks'
    <2>1. PICK s \in FirstOf(Unused) :
              /\ used' = [used EXCEPT ![s] = TRUE]
              /\ pos' = [pos EXCEPT ![t] = s]
        BY <1>1 DEF Claim
    <2>2. s \in Slots /\ s \in Listed /\ ~used[s]
        BY <2>1 DEF FirstOf, Unused, Listed, Slots
    <2>3. Listed' = Listed BY <1>1 DEF Claim, Listed
    <2>4. pc[t] \notin Owning /\ pc'[t] \in Owning
        BY <1>1 DEF Claim, Owning
    <2>5. \A u \in Threads : u # t => pc'[u] = pc[u] /\ pos'[u] = pos[u]
        BY <1>1, <2>1 DEF Claim
    <2>6. pos'[t] = s BY <2>1
    <2>7. used'[s] /\ \A r \in Slots : r # s => used'[r] = used[r]
        BY <2>1, <2>2
    <2>8. \A u \in Threads : pc[u] \in Owning => pos[u] # s BY <2>2 DEF Marks
    <2>9. \A u \in Threads : pc'[u] \in Owning => used'[pos'[u]] /\ pos'[u] \in Listed'
        BY <2>2, <2>3, <2>5, <2>6, <2>7, <2>8 DEF Marks
    <2>10. \A r \in Slots : used'[r] => \E u \in Threads : Owns(u, r)'
        <3> SUFFICES ASSUME NEW r \in Slots, used'[r]
                     PROVE  \E u \in Threads : Owns(u, r)'
            OBVIOUS
        <3>1. CASE r = s BY <2>4, <2>6, <3>1 DEF Owns
        <3>2. CASE r # s
            <4>1. PICK u \in Threads : Owns(u, r) BY <2>7, <3>2 DEF Marks
            <4>2. u # t BY <2>4, <4>1 DEF Owns
            <4> QED BY <2>5, <4>1, <4>2 DEF Owns
        <3> QED BY <3>1, <3>2
    <2>11. \A u, v \in Threads :
              u # v /\ pc'[u] \in Owning /\ pc'[v] \in Owning => pos'[u] # pos'[v]
        BY <2>5, <2>6, <2>8 DEF Marks
    <2> QED BY <2>9, <2>10, <2>11 DEF Marks
<1>2. ASSUME NEW t \in Threads,
             Full(t) \/ Refuse(t) \/ Look(t) \/ Retry(t) \/ Map(t) \/ MapFails(t)
                \/ Register(t) \/ Publish(t) \/ Return(t)
      PROVE  Marks'
    <2>1. \A u \in Threads : pc'[u] \in Owning <=> pc[u] \in Owning
        BY <1>2 DEF Full, Refuse, Look, Retry, Map, MapFails, Register, Publish, Return, Owning
    <2>2. used' = used /\ pos' = pos /\ overflowed' = overflowed
        BY <1>2 DEF Full, Refuse, Look, Retry, Map, MapFails, Register, Publish, Return
    <2> QED BY <2>1, <2>2, MarksSame
<1>3. ASSUME NEW t \in Threads, Extend(t) PROVE Marks'
    <2>1. NumBuffers \in Slots /\ NumBuffers \notin Regular /\ Regular \subseteq Slots
        BY DEF Slots, Regular, Overflow
    <2>2. Listed = Regular /\ Listed' = Slots BY <1>3 DEF Extend, Listed
    <2>3. pc[t] \notin Owning /\ pc'[t] \in Owning BY <1>3 DEF Extend, Owning
    <2>4. \A u \in Threads : u # t => pc'[u] = pc[u] /\ pos'[u] = pos[u]
        BY <1>3 DEF Extend
    <2>5. pos'[t] = NumBuffers BY <1>3 DEF Extend
    <2>6. used'[NumBuffers] /\ \A r \in Slots : r # NumBuffers => used'[r] = used[r]
        BY <1>3, <2>1 DEF Extend
    <2>7. \A u \in Threads : pc[u] \in Owning => pos[u] # NumBuffers
        BY <2>1, <2>2 DEF Marks
    <2>8. \A u \in Threads : pc'[u] \in Owning => used'[pos'[u]] /\ pos'[u] \in Listed'
        BY <2>1, <2>2, <2>4, <2>5, <2>6, <2>7 DEF Marks
    <2>9. \A r \in Slots : used'[r] => \E u \in Threads : Owns(u, r)'
        <3> SUFFICES ASSUME NEW r \in Slots, used'[r]
                     PROVE  \E u \in Threads : Owns(u, r)'
            OBVIOUS
        <3>1. CASE r = NumBuffers BY <2>3, <2>5, <3>1 DEF Owns
        <3>2. CASE r # NumBuffers
            <4>1. PICK u \in Threads : Owns(u, r) BY <2>6, <3>2 DEF Marks
            <4>2. u # t BY <2>3, <4>1 DEF Owns
            <4> QED BY <2>4, <4>1, <4>2 DEF Owns
        <3> QED BY <3>1, <3>2
    <2>10. \A u, v \in Threads :
              u # v /\ pc'[u] \in Owning /\ pc'[v] \in Owning => pos'[u] # pos'[v]
        BY <2>4, <2>5, <2>7 DEF Marks
    <2> QED BY <2>8, <2>9, <2>10 DEF Marks
<1>4. ASSUME NEW t \in Threads, Free(t) PROVE Marks'
    <2>1. pos[t] \in Listed /\ area[t] # None /\ area[t] = addr[pos[t]]
        BY <1>4 DEF Free, Areas, Marks, Owning
    <2>2. {s \in Listed : addr[s] = area[t]} = {pos[t]}
        BY <2>1 DEF Addresses, Listed, Slots
    <2>3. pos[t] <= pos[t]
        <3>1. pos[t] \in Int BY SlotsInt DEF Slots
        <3> QED BY <3>1
    <2>4. FirstOf({pos[t]}) = {pos[t]} BY <2>3 DEF FirstOf
    <2>5. used' = [s \in Slots |-> used[s] /\ s # pos[t]]
        BY <1>4, <2>2, <2>4 DEF Free
    <2>6. pc[t] \in Owning /\ pc'[t] \notin Owning /\ pos' = pos
        BY <1>4 DEF Free, Owning
    <2>7. \A u \in Threads : u # t => pc'[u] = pc[u]
        BY <1>4 DEF Free
    <2>8. Listed' = Listed BY <1>4 DEF Free, Listed
    <2> QED BY <2>5, <2>6, <2>7, <2>8 DEF Marks, Owns
<1>5. CASE Shutdown BY <1>5 DEF Shutdown, Marks, Owns, Owning
<1>6. CASE UNCHANGED vars BY <1>6, MarksSame DEF vars
<1> QED BY <1>1, <1>2, <1>3, <1>4, <1>5, <1>6 DEF Next, Proceed

\* Steps that leave alone what Addresses, Fresh and Areas speak of.
Quiet(t) ==
    Claim(t) \/ Full(t) \/ Extend(t) \/ Refuse(t) \/ Retry(t) \/ Look(t) \/ MapFails(t)

LEMMA AddressesStep == Inv /\ [Next]_vars => Addresses'
<1> SUFFICES ASSUME Inv, [Next]_vars PROVE Addresses' OBVIOUS
<1> USE DEF Inv, TypeOK, At, Addresses
<1>1. ASSUME NEW t \in Threads, Quiet(t) PROVE Addresses'
    <2>1. addr' = addr /\ mapped' = mapped
        BY <1>1 DEF Quiet, Claim, Full, Extend, Refuse, Retry, Look, MapFails
    <2> QED BY <2>1
<1>2. ASSUME NEW t \in Threads, Map(t) PROVE Addresses' BY <1>2 DEF Map
<1>3. ASSUME NEW t \in Threads, Register(t) \/ Return(t) \/ Free(t) PROVE Addresses'
    <2>1. addr' = addr /\ mapped' = mapped BY <1>3 DEF Register, Return, Free
    <2> QED BY <2>1
<1>4. ASSUME NEW t \in Threads, Publish(t) PROVE Addresses'
    <2>1. map[t] \in mapped /\ \A s \in Slots : addr[s] # map[t]
        BY <1>4 DEF Publish, Fresh
    <2>2. addr' = [addr EXCEPT ![pos[t]] = map[t]] /\ mapped' = mapped
        BY <1>4 DEF Publish
    <2> QED BY <2>1, <2>2
<1>5. CASE Shutdown BY <1>5 DEF Shutdown
<1>6. CASE UNCHANGED vars BY <1>6 DEF vars
<1> QED BY <1>1, <1>2, <1>3, <1>4, <1>5, <1>6 DEF Next, Proceed, Quiet

LEMMA FreshStep == Inv /\ [Next]_vars => Fresh'
<1> SUFFICES ASSUME Inv, [Next]_vars PROVE Fresh' OBVIOUS
<1> USE DEF Inv, TypeOK, At, Fresh
<1>1. ASSUME NEW t \in Threads, Quiet(t) \/ Register(t) \/ Return(t) \/ Free(t)
      PROVE  Fresh'
    <2>1. addr' = addr /\ mapped' = mapped /\ map' = map
        BY <1>1 DEF Quiet, Claim, Full, Extend, Refuse, Retry, Look, MapFails, Register,
                    Return, Free
    <2>2. \A u \in Threads :
              pc'[u] \in {"register", "publish"} => pc[u] \in {"register", "publish"}
        BY <1>1 DEF Quiet, Claim, Full, Extend, Refuse, Retry, Look, MapFails, Register,
                    Return, Free
    <2> QED BY <2>1, <2>2
<1>2. ASSUME NEW t \in Threads, Map(t) PROVE Fresh'
    <2>1. PICK r \in Regions \ mapped :
              mapped' = mapped \cup {r} /\ map' = [map EXCEPT ![t] = r]
        BY <1>2 DEF Map
    <2>2. \A s \in Slots : addr[s] # r BY <2>1 DEF Addresses
    <2>3. addr' = addr /\ pc' = [pc EXCEPT ![t] = "register"] BY <1>2 DEF Map
    <2> QED BY <2>1, <2>2, <2>3
<1>3. ASSUME NEW t \in Threads, Publish(t) PROVE Fresh'
    <2>1. /\ addr' = [addr EXCEPT ![pos[t]] = map[t]] /\ mapped' = mapped
          /\ map' = [map EXCEPT ![t] = None] /\ pc' = [pc EXCEPT ![t] = "return"]
          /\ pc[t] = "publish"
        BY <1>3 DEF Publish
    <2> QED BY <2>1
<1>4. CASE Shutdown BY <1>4 DEF Shutdown
<1>5. CASE UNCHANGED vars BY <1>5 DEF vars
<1> QED BY <1>1, <1>2, <1>3, <1>4, <1>5 DEF Next, Proceed, Quiet

LEMMA AreasStep == Inv /\ [Next]_vars => Areas'
<1> SUFFICES ASSUME Inv, [Next]_vars PROVE Areas' OBVIOUS
<1> USE DEF Inv, TypeOK, At, Areas
<1>1. ASSUME NEW t \in Threads, Quiet(t) \/ Map(t) \/ Register(t) PROVE Areas'
    <2>1. addr' = addr /\ area' = area
        BY <1>1 DEF Quiet, Claim, Full, Extend, Refuse, Retry, Look, MapFails, Map, Register
    <2>2. \A u \in Threads : u # t => pc'[u] = pc[u] /\ pos'[u] = pos[u]
        BY <1>1 DEF Quiet, Claim, Full, Extend, Refuse, Retry, Look, MapFails, Map, Register
    <2>3. pc[t] # "held" /\ pc'[t] # "held"
        BY <1>1 DEF Quiet, Claim, Full, Extend, Refuse, Retry, Look, MapFails, Map, Register
    <2>4. pc'[t] = "return" => addr[pos'[t]] # None
        BY <1>1 DEF Quiet, Claim, Full, Extend, Refuse, Retry, Look, MapFails, Map, Register
    <2> QED BY <2>1, <2>2, <2>3, <2>4
<1>2. ASSUME NEW t \in Threads, Publish(t) PROVE Areas'
    <2>1. /\ addr' = [addr EXCEPT ![pos[t]] = map[t]] /\ pos' = pos /\ area' = area
          /\ pc' = [pc EXCEPT ![t] = "return"] /\ pc[t] = "publish"
        BY <1>2 DEF Publish
    <2>2. map[t] # None BY <2>1 DEF Fresh
    <2>3. \A u \in Threads : u # t /\ pc[u] \in Owning => pos[u] # pos[t]
        BY <2>1 DEF Marks, Owning
    <2> QED BY <2>1, <2>2, <2>3 DEF Owning
<1>3. ASSUME NEW t \in Threads, Return(t) PROVE Areas' BY <1>3 DEF Return
<1>4. ASSUME NEW t \in Threads, Free(t) PROVE Areas' BY <1>4 DEF Free
<1>5. CASE Shutdown BY <1>5 DEF Shutdown
<1>6. CASE UNCHANGED vars BY <1>6 DEF vars
<1> QED BY <1>1, <1>2, <1>3, <1>4, <1>5, <1>6 DEF Next, Proceed, Quiet

LEMMA FailuresStep == Inv /\ [Next]_vars => Failures'
<1> SUFFICES ASSUME Inv, [Next]_vars PROVE Failures' OBVIOUS
<1> USE DEF Inv, TypeOK, At, Failures
<1>1. ASSUME NEW t \in Threads, MapFails(t) PROVE Failures'
    <2>1. CASE pos[t] \notin Regular BY <1>1, <2>1 DEF MapFails
    <2>2. CASE pos[t] \in Regular
        <3>1. failed' = [failed EXCEPT ![t] = @ + 1] BY <1>1, <2>2 DEF MapFails
        <3>2. ended' = "no" => failed[t] # FailLimit BY <1>1, <2>2 DEF MapFails
        <3>3. ended = "no" BY <1>1 DEF MapFails
        <3> QED BY <3>1, <3>2, <3>3
    <2> QED BY <2>1, <2>2
<1>2. ASSUME NEW t \in Threads, Map(t) PROVE Failures' BY <1>2 DEF Map
<1>3. ASSUME NEW t \in Threads,
             Claim(t) \/ Full(t) \/ Extend(t) \/ Refuse(t) \/ Retry(t) \/ Look(t)
                \/ Register(t) \/ Publish(t) \/ Return(t) \/ Free(t)
      PROVE  Failures'
    <2>1. failed' = failed /\ ended = "no"
        BY <1>3 DEF Claim, Full, Extend, Refuse, Retry, Look, Register, Publish, Return, Free
    <2> QED BY <2>1
<1>4. CASE Shutdown \/ UNCHANGED vars BY <1>4 DEF Shutdown, vars
<1> QED BY <1>1, <1>2, <1>3, <1>4 DEF Next, Proceed

\* Regions whose owner is about to register them.
Late == {map[t] : t \in {u \in Threads : pc[u] = "register"}}

LEMMA RegisteredMeans ==
    EveryRegionRegistered <=>
        /\ mapped = Range(register) \cup Late
        /\ Range(register) \cap Late = {}
        /\ \A i, j \in DOMAIN register : register[i] = register[j] => i = j
BY DEF EveryRegionRegistered, Late

LEMMA RegisteredSame ==
    ASSUME EveryRegionRegistered, mapped' = mapped, register' = register, Late' = Late
    PROVE  EveryRegionRegistered'
BY DEF EveryRegionRegistered, Late, Range

\* What registering one more region does to the table.
LEMMA AppendRange ==
    ASSUME NEW S, NEW q \in Seq(S), NEW x \in S, x \notin Range(q),
           \A i, j \in DOMAIN q : q[i] = q[j] => i = j
    PROVE  /\ Range(Append(q, x)) = Range(q) \cup {x}
           /\ \A i, j \in DOMAIN Append(q, x) :
                  Append(q, x)[i] = Append(q, x)[j] => i = j
<1>1. /\ DOMAIN q = 1 .. Len(q) /\ Len(q) \in Nat
      /\ DOMAIN Append(q, x) = 1 .. Len(q) + 1
    OBVIOUS
<1>2. /\ \A i \in 1 .. Len(q) : Append(q, x)[i] = q[i]
      /\ Append(q, x)[Len(q) + 1] = x
    OBVIOUS
<1>3. 1 .. Len(q) + 1 = (1 .. Len(q)) \cup {Len(q) + 1} BY <1>1
<1>4. Range(Append(q, x)) = Range(q) \cup {x} BY <1>1, <1>2, <1>3 DEF Range
<1>5. \A i \in 1 .. Len(q) : q[i] # x BY <1>1 DEF Range
<1> QED BY <1>1, <1>2, <1>3, <1>4, <1>5

LEMMA RegisteredStep == Inv /\ [Next]_vars => EveryRegionRegistered'
<1> SUFFICES ASSUME Inv, [Next]_vars PROVE EveryRegionRegistered' OBVIOUS
<1> USE DEF Inv, TypeOK, At
<1>1. ASSUME NEW t \in Threads, Quiet(t) \/ Publish(t) \/ Return(t) \/ Free(t)
      PROVE  EveryRegionRegistered'
    <2>1. mapped' = mapped /\ register' = register
        BY <1>1 DEF Quiet, Claim, Full, Extend, Refuse, Retry, Look, MapFails, Publish,
                    Return, Free
    <2>2. \A u \in Threads :
              /\ pc'[u] = "register" <=> pc[u] = "register"
              /\ pc[u] = "register" => map'[u] = map[u]
        BY <1>1 DEF Quiet, Claim, Full, Extend, Refuse, Retry, Look, MapFails, Publish,
                    Return, Free
    <2>3. Late' = Late BY <2>2 DEF Late
    <2> QED BY <2>1, <2>3, RegisteredSame
<1>2. ASSUME NEW t \in Threads, Map(t) PROVE EveryRegionRegistered'
    <2>1. PICK r \in Regions \ mapped :
              mapped' = mapped \cup {r} /\ map' = [map EXCEPT ![t] = r]
        BY <1>2 DEF Map
    <2>2. register' = register /\ pc' = [pc EXCEPT ![t] = "register"] /\ pc[t] # "register"
        BY <1>2 DEF Map
    <2>3. Late' = Late \cup {r} BY <2>1, <2>2 DEF Late
    <2>4. Range(register)' = Range(register) BY <2>2 DEF Range
    <2>5. r \notin Range(register) BY <2>1, RegisteredMeans
    <2> QED BY <2>1, <2>2, <2>3, <2>4, <2>5 DEF EveryRegionRegistered, Late
<1>3. ASSUME NEW t \in Threads, Register(t) PROVE EveryRegionRegistered'
    <2>1. CASE Len(register) < Capacity
        <3>1. /\ register' = Append(register, map[t]) /\ mapped' = mapped /\ map' = map
              /\ pc' = [pc EXCEPT ![t] = "publish"] /\ pc[t] = "register"
            BY <1>3, <2>1 DEF Register
        <3>2. map[t] \in Late BY <3>1 DEF Late
        <3>3. Late' = Late \ {map[t]} BY <3>1 DEF Late, Fresh
        <3>4. map[t] \in Regions /\ map[t] \notin Range(register)
            BY <3>1, <3>2, RegisteredMeans DEF Fresh
        <3>5. /\ Range(register') = Range(register) \cup {map[t]}
              /\ \A i, j \in DOMAIN register' : register'[i] = register'[j] => i = j
            BY <3>1, <3>4, AppendRange, RegisteredMeans
        <3>6. /\ mapped' = Range(register') \cup Late'
              /\ Range(register') \cap Late' = {}
            BY <3>1, <3>2, <3>3, <3>5, RegisteredMeans
        <3> QED BY <3>5, <3>6 DEF EveryRegionRegistered, Late
    <2>2. CASE ~(Len(register) < Capacity)
        <3>1. mapped' = mapped /\ register' = register /\ pc' = pc /\ map' = map
            BY <1>3, <2>2 DEF Register
        <3> QED BY <3>1, RegisteredSame DEF Late
    <2> QED BY <2>1, <2>2
<1>4. CASE Shutdown
    <2>1. Late = {} BY <1>4 DEF Shutdown, Late
    <2>2. mapped' = {} /\ register' = <<>> /\ pc' = pc
        BY <1>4, <2>1, RegisteredMeans DEF Shutdown
    <2>3. Late' = {} /\ Range(register') = {}
        BY <1>4, <2>2 DEF Shutdown, Late, Range
    <2>4. DOMAIN register' = {} BY <2>2
    <2>5. {map[t] : t \in {u \in Threads : pc[u] = "register"}}' = {} BY <2>3 DEF Late
    <2> QED BY <2>2, <2>3, <2>4, <2>5 DEF EveryRegionRegistered
<1>5. CASE UNCHANGED vars BY <1>5, RegisteredSame DEF vars, Late
<1> QED BY <1>1, <1>2, <1>3, <1>4, <1>5 DEF Next, Proceed, Quiet

-----------------------------------------------------------------------------
(* The theorems.                                                           *)

\* The invariant holds in every state.
THEOREM InvCorrect == Spec => []Inv
<1>1. Inv /\ [Next]_vars => Inv'
    BY TypeStep, MarksStep, AddressesStep, FreshStep, AreasStep, RegisteredStep,
       FailuresStep DEF Inv
<1> QED BY InvInit, <1>1, PTL DEF Spec

\* Positions stay within the tables, and the count of failed mappings never
\* exceeds the limit by more than one.
THEOREM TypeCorrect == Spec => []TypeOK
<1>1. Inv => TypeOK BY DEF Inv
<1> QED BY InvCorrect, <1>1, PTL

\* What shutdown finds in the register is what there is to give back.
THEOREM RegisteredCorrect == Spec => []EveryRegionRegistered
<1>1. Inv => EveryRegionRegistered BY DEF Inv
<1> QED BY InvCorrect, <1>1, PTL

\* The address of a caller's buffer stands for the slot it was taken from.
LEMMA OwnedByPosition ==
    ASSUME Inv, NEW t \in Threads
    PROVE  Owned(t) = IF pc[t] \in Owning THEN {pos[t]} ELSE {}
<1>1. pos[t] \in Slots BY DEF Inv, TypeOK
<1>2. CASE pc[t] = "held"
    BY <1>1, <1>2 DEF Inv, Areas, Addresses, Owned, Owning
<1>3. CASE pc[t] # "held" BY <1>1, <1>3 DEF Owned
<1> QED BY <1>2, <1>3

\* A slot in use has exactly one owner, and every owner's slot is in use.
THEOREM NoSlotLostCorrect == Spec => []NoSlotLost
<1>1. Inv => NoSlotLost
    <2> SUFFICES ASSUME Inv PROVE NoSlotLost OBVIOUS
    <2>1. \A t \in Threads : Owned(t) = IF pc[t] \in Owning THEN {pos[t]} ELSE {}
        BY OwnedByPosition
    <2>2. Marks BY DEF Inv
    <2>3. ASSUME NEW s \in Slots PROVE used[s] <=> \E t \in Threads : s \in Owned(t)
        BY <2>1, <2>2 DEF Marks, Owns
    <2>4. \A t, u \in Threads : t # u => Owned(t) \cap Owned(u) = {}
        BY <2>1, <2>2 DEF Marks
    <2>5. \A t \in Threads : \A s1, s2 \in Owned(t) : s1 = s2 BY <2>1
    <2> QED BY <2>3, <2>4, <2>5 DEF NoSlotLost
<1> QED BY InvCorrect, <1>1, PTL

\* The tables, the register and the two separate critical sections of an
\* allocation refine a pool whose buffers have one holder each.
THEOREM Implementation == Spec => ImplementsBufferPool
<1>1. Init => Pool!Init BY DEF Init, Pool!Init
<1>2. Inv /\ [Next]_vars => [Pool!Next]_<<mapped, area>>
    <2> SUFFICES ASSUME Inv, [Next]_vars PROVE [Pool!Next]_<<mapped, area>> OBVIOUS
    <2> USE DEF At
    <2>1. ASSUME NEW t \in Threads, Quiet(t) \/ Register(t) \/ Publish(t)
          PROVE  UNCHANGED <<mapped, area>>
        BY <2>1 DEF Quiet, Claim, Full, Extend, Refuse, Retry, Look, MapFails, Register,
                    Publish
    <2>2. ASSUME NEW t \in Threads, Map(t) PROVE Pool!Grow
        BY <2>2 DEF Map, Pool!Grow, Inv, TypeOK
    <2>3. ASSUME NEW t \in Threads, Return(t) PROVE Pool!Acquire(t)
        <3> DEFINE r == addr[pos[t]]
        <3>1. pc[t] = "return" /\ pos[t] \in Slots BY <2>3 DEF Return, Inv, TypeOK
        <3>2. area[t] = None /\ r # None /\ r \in mapped
            BY <3>1 DEF Inv, Areas, Addresses
        <3>3. ASSUME NEW u \in Threads PROVE area[u] # r
            <4>1. CASE pc[u] # "held" BY <3>2, <4>1 DEF Inv, Areas
            <4>2. CASE pc[u] = "held"
                <5>1. pos[u] # pos[t] /\ pos[u] \in Slots
                    BY <3>1, <4>2 DEF Inv, Marks, Owning, TypeOK
                <5> QED BY <3>1, <3>2, <4>2, <5>1 DEF Inv, Areas, Addresses
            <4> QED BY <4>1, <4>2
        <3>4. area' = [area EXCEPT ![t] = r] /\ mapped' = mapped BY <2>3 DEF Return
        <3> QED BY <3>2, <3>3, <3>4 DEF Pool!Acquire
    <2>4. ASSUME NEW t \in Threads, Free(t) PROVE Pool!Release(t)
        BY <2>4 DEF Free, Pool!Release, Inv, Areas
    <2>5. CASE Shutdown
        <3>1. Late = {} BY <2>5 DEF Shutdown, Late
        <3>2. mapped' = {} BY <2>5, <3>1, RegisteredMeans DEF Shutdown, Inv
        <3>3. \A t \in Threads : area[t] = None BY <2>5 DEF Shutdown, Inv, Areas
        <3>4. area' = area BY <2>5 DEF Shutdown
        <3> QED BY <3>2, <3>3, <3>4 DEF Pool!Close, Pool!Next
    <2>6. CASE UNCHANGED vars BY <2>6 DEF vars
    <2> QED BY <2>1, <2>2, <2>3, <2>4, <2>5, <2>6 DEF Next, Proceed, Quiet, Pool!Next
<1> QED BY <1>1, <1>2, InvCorrect, PTL DEF Spec, ImplementsBufferPool, Pool!Spec
=============================================================================
