----------------------------- MODULE MemoryPool -----------------------------
(***************************************************************************)
(* driver/others/memory.c, the default pool (no USE_TLS) of a pthread      *)
(* build: blas_memory_alloc, blas_memory_free, blas_release_register and   *)
(* blas_shutdown.  The pool is a table of slots; when all of them are in   *)
(* use, an auxiliary table is added.  A section under alloc_lock is one    *)
(* step.  base_address is 0 throughout (SEEK_ADDRESS).                     *)
(*                                                                         *)
(* NumBuffers  NUM_BUFFERS, slots of memory[]                              *)
(* NewBuffers  NEW_BUFFERS, slots of newmemory[]                           *)
(* FailLimit   failed mappings in a row after which the process gives up   *)
(* Regions     what mmap and malloc can hand out before memory runs out    *)
(* None        no region                                                   *)
(***************************************************************************)
EXTENDS Integers, Sequences, Functions

CONSTANTS Threads, NumBuffers, NewBuffers, FailLimit, Regions, None

ASSUME PoolAssumption ==
    /\ NumBuffers \in Nat \ {0} /\ NewBuffers \in Nat \ {0}
    /\ FailLimit \in Nat
    /\ None \notin Regions

VARIABLES
    used,        \* slot -> used; slots of memory[] come first
    addr,        \* slot -> addr
    overflowed,  \* memory_overflowed
    register,    \* release_info and new_release_info up to release_pos
    mapped,      \* regions the system has handed out
    pc,          \* thread -> where it is in its call
    pos,         \* thread -> position
    map,         \* thread -> map_address
    area,        \* thread -> the buffer its caller has
    failed,      \* thread -> failcount
    ended        \* "no", "exit" (gave up) or "wild" (undefined from here on)

vars == <<used, addr, overflowed, register, mapped, pc, pos, map, area, failed, ended>>

Regular == 0 .. NumBuffers - 1
Overflow == NumBuffers .. NumBuffers + NewBuffers - 1
Slots == Regular \cup Overflow

\* Slots that blas_memory_alloc and blas_memory_free search, and the entries
\* that the release tables have room for.
Listed == IF overflowed THEN Slots ELSE Regular
Capacity == IF overflowed THEN NumBuffers + NewBuffers ELSE NumBuffers

FirstOf(S) == {s \in S : \A u \in S : s <= u}

TypeOK ==
    /\ used \in [Slots -> BOOLEAN]
    /\ addr \in [Slots -> Regions \cup {None}]
    /\ overflowed \in BOOLEAN
    /\ register \in Seq(Regions)
    /\ mapped \in SUBSET Regions
    /\ pc \in [Threads -> {"idle", "error", "look", "map", "register", "publish",
                           "return", "held", "refused"}]
    /\ pos \in [Threads -> Slots]
    /\ map \in [Threads -> Regions \cup {None}]
    /\ area \in [Threads -> Regions \cup {None}]
    /\ failed \in [Threads -> 0 .. FailLimit + 1]
    /\ ended \in {"no", "exit", "wild"}

Init ==
    /\ used = [s \in Slots |-> FALSE]
    /\ addr = [s \in Slots |-> None]
    /\ overflowed = FALSE
    /\ register = <<>>
    /\ mapped = {}
    /\ pc = [t \in Threads |-> "idle"]
    /\ pos = [t \in Threads |-> 0]
    /\ map = [t \in Threads |-> None]
    /\ area = [t \in Threads |-> None]
    /\ failed = [t \in Threads |-> 0]
    /\ ended = "no"

At(t, from, to) == ended = "no" /\ pc[t] = from /\ pc' = [pc EXCEPT ![t] = to]

-----------------------------------------------------------------------------
(* blas_memory_alloc: finding a slot                                       *)

Unused == {s \in Listed : ~used[s]}

\* The first slot that is free is marked; one of the auxiliary table is
\* mapped again whatever it held before.
Claim(t) ==
    /\ \E s \in FirstOf(Unused) :
          /\ used' = [used EXCEPT ![s] = TRUE]
          /\ pos' = [pos EXCEPT ![t] = s]
          /\ At(t, "idle", IF s \in Regular THEN "look" ELSE "map")
    /\ UNCHANGED <<addr, overflowed, register, mapped, map, area, failed, ended>>

\* No slot is free: the lock is released on the way to the label error.
Full(t) ==
    /\ Unused = {}
    /\ At(t, "idle", "error")
    /\ UNCHANGED <<used, addr, overflowed, register, mapped, pos, map, area, failed, ended>>

\* The auxiliary table is made and its first slot taken.
Extend(t) ==
    /\ ~overflowed
    /\ At(t, "error", "map")
    /\ overflowed' = TRUE
    /\ used' = [used EXCEPT ![NumBuffers] = TRUE]
    /\ pos' = [pos EXCEPT ![t] = NumBuffers]
    /\ UNCHANGED <<addr, register, mapped, map, area, failed, ended>>

\* A slip: the caller waits for a slot to come free.
Refuse_Waits(t) ==
    /\ overflowed
    /\ At(t, "error", "error")
    /\ UNCHANGED <<used, addr, overflowed, register, mapped, pos, map, area, failed, ended>>

\* The label terminate: the caller gets NULL.
Refuse(t) ==
    /\ overflowed
    /\ At(t, "error", "refused")
    /\ UNCHANGED <<used, addr, overflowed, register, mapped, pos, map, area, failed, ended>>

\* A caller that was refused comes back for another buffer.
Retry(t) ==
    /\ At(t, "refused", "idle")
    /\ UNCHANGED <<used, addr, overflowed, register, mapped, pos, map, area, failed, ended>>

-----------------------------------------------------------------------------
(* blas_memory_alloc: giving the slot a region                             *)

\* A regular slot keeps its region from one use to the next.
Look(t) ==
    /\ At(t, "look", IF addr[pos[t]] = None THEN "map" ELSE "return")
    /\ UNCHANGED <<used, addr, overflowed, register, mapped, pos, map, area, failed, ended>>

\* alloc_mmap and alloc_malloc get any region that is not mapped.
Map(t) ==
    /\ At(t, "map", "register")
    /\ \E r \in Regions \ mapped :
          /\ mapped' = mapped \cup {r}
          /\ map' = [map EXCEPT ![t] = r]
    /\ failed' = [failed EXCEPT ![t] = 0]
    /\ UNCHANGED <<used, addr, overflowed, register, pos, area, ended>>

\* A slip: one failure too many is allowed.
MapFails_OneMore(t) ==
    /\ ended = "no" /\ pc[t] = "map" /\ mapped = Regions
    /\ IF pos[t] \in Regular
         THEN /\ failed' = [failed EXCEPT ![t] = @ + 1]
              /\ ended' = IF failed[t] > FailLimit THEN "exit" ELSE "no"
         ELSE UNCHANGED <<failed, ended>>
    /\ UNCHANGED <<used, addr, overflowed, register, mapped, pc, pos, map, area>>

\* There is none left.  Only the loop over a regular slot counts failures.
MapFails(t) ==
    /\ ended = "no" /\ pc[t] = "map" /\ mapped = Regions
    /\ IF pos[t] \in Regular
         THEN /\ failed' = [failed EXCEPT ![t] = @ + 1]
              /\ ended' = IF failed[t] = FailLimit THEN "exit" ELSE "no"
         ELSE UNCHANGED <<failed, ended>>
    /\ UNCHANGED <<used, addr, overflowed, register, mapped, pc, pos, map, area>>

\* blas_release_register.  Nothing checks that the tables have room: what a
\* write behind them does is undefined, and the model stops there.
Register(t) ==
    /\ ended = "no" /\ pc[t] = "register"
    /\ IF Len(register) < Capacity
         THEN /\ register' = Append(register, map[t])
              /\ At(t, "register", "publish")
              /\ UNCHANGED ended
         ELSE ended' = "wild" /\ UNCHANGED <<register, pc>>
    /\ UNCHANGED <<used, addr, overflowed, mapped, pos, map, area, failed>>

Publish(t) ==
    /\ At(t, "publish", "return")
    /\ addr' = [addr EXCEPT ![pos[t]] = map[t]]
    /\ map' = [map EXCEPT ![t] = None]
    /\ UNCHANGED <<used, overflowed, register, mapped, pos, area, failed, ended>>

Return(t) ==
    /\ At(t, "return", "held")
    /\ area' = [area EXCEPT ![t] = addr[pos[t]]]
    /\ UNCHANGED <<used, addr, overflowed, register, mapped, pos, map, failed, ended>>

-----------------------------------------------------------------------------
(* blas_memory_free and blas_shutdown                                      *)

\* A slip: only memory[] is searched.
Free_Regular(t) ==
    /\ At(t, "held", "idle")
    /\ LET found == FirstOf({s \in Regular : addr[s] = area[t]})
       IN used' = [s \in Slots |-> used[s] /\ s \notin found]
    /\ area' = [area EXCEPT ![t] = None]
    /\ UNCHANGED <<addr, overflowed, register, mapped, pos, map, failed, ended>>

\* The first slot with this address is free again; if there is none, the
\* call only complains.
Free(t) ==
    /\ At(t, "held", "idle")
    /\ LET found == FirstOf({s \in Listed : addr[s] = area[t]})
       IN used' = [s \in Slots |-> used[s] /\ s \notin found]
    /\ area' = [area EXCEPT ![t] = None]
    /\ UNCHANGED <<addr, overflowed, register, mapped, pos, map, failed, ended>>

\* A slip: release_pos is not reset.
Shutdown_KeepsRegister ==
    /\ ended = "no" /\ \A t \in Threads : pc[t] = "idle"
    /\ mapped' = mapped \ Range(register)
    /\ addr' = [s \in Slots |-> None]
    /\ used' = [s \in Slots |-> FALSE]
    /\ overflowed' = FALSE
    /\ UNCHANGED <<register, pc, pos, map, area, failed, ended>>

\* A slip: the slots keep the addresses of what was given back.
Shutdown_KeepsAddr ==
    /\ ended = "no" /\ \A t \in Threads : pc[t] = "idle"
    /\ mapped' = mapped \ Range(register)
    /\ register' = <<>>
    /\ used' = [s \in Slots |-> FALSE]
    /\ overflowed' = FALSE
    /\ UNCHANGED <<addr, pc, pos, map, area, failed, ended>>

\* Every registered region is given back and both tables are cleared.  The
\* library may be shut down only when no call is under way.
Shutdown ==
    /\ ended = "no" /\ \A t \in Threads : pc[t] = "idle"
    /\ mapped' = mapped \ Range(register)
    /\ register' = <<>>
    /\ addr' = [s \in Slots |-> None]
    /\ used' = [s \in Slots |-> FALSE]
    /\ overflowed' = FALSE
    /\ UNCHANGED <<pc, pos, map, area, failed, ended>>

\* What a call of blas_memory_alloc does once it has started.
Proceed(t) ==
    \/ Extend(t) \/ Refuse(t) \/ Look(t) \/ Map(t) \/ MapFails(t)
    \/ Register(t) \/ Publish(t) \/ Return(t)

Next ==
    \/ \E t \in Threads : Claim(t) \/ Full(t) \/ Proceed(t) \/ Retry(t) \/ Free(t)
    \/ Shutdown

Spec == Init /\ [][Next]_vars

FairSpec == Spec /\ \A t \in Threads : WF_vars(Proceed(t))

-----------------------------------------------------------------------------
(* Properties                                                              *)

\* Places between taking a slot and giving it back.
Owning == {"look", "map", "register", "publish", "return", "held"}

\* No slot is lost and none has two owners: the slots in use are those that
\* a call is filling or a caller's buffer lies in, each with one owner.  The
\* mark is set under one lock, the address under a second, and free finds
\* the slot by address alone.
Owned(t) ==
    {s \in Slots : IF pc[t] = "held" THEN addr[s] = area[t]
                   ELSE pc[t] \in Owning /\ pos[t] = s}
NoSlotLost ==
    /\ \A s \in Slots : used[s] <=> \E t \in Threads : s \in Owned(t)
    /\ \A t, u \in Threads : t # u => Owned(t) \cap Owned(u) = {}
    /\ \A t \in Threads : \A s1, s2 \in Owned(t) : s1 = s2

\* blas_shutdown can give everything back: each mapped region is registered
\* exactly once, but for those whose owner is on the way to register them.
EveryRegionRegistered ==
    LET late == {map[t] : t \in {u \in Threads : pc[u] = "register"}}
    IN /\ mapped = Range(register) \cup late
       /\ Range(register) \cap late = {}
       /\ \A i, j \in DOMAIN register : register[i] = register[j] => i = j

\* The pool keeps the promise of BufferPool: no buffer has two holders, and
\* no buffer is unmapped while it is held or handed out after it was.
Pool == INSTANCE BufferPool WITH live <- mapped, held <- area
ImplementsBufferPool == Pool!Spec

\* The loop over a slot of newmemory[] has no limit when there is no memory.
Starved(t) == pc[t] = "map" /\ pos[t] \in Overflow /\ mapped = Regions

\* A call of blas_memory_alloc that is not starved comes to an end, with a
\* buffer, with NULL or with the process: nobody waits for another caller,
\* and the retries over a slot of memory[] are limited (memory.c:2937).
AllocEnds ==
    \A t \in Threads :
        (pc[t] \in {"look", "map", "register", "publish", "return", "error"})
            ~> (pc[t] \in {"held", "refused"} \/ Starved(t) \/ ended # "no")

\* Changelog.txt:1271: with more callers than slots the library allocates "an
\* auxiliary control structure for up to 512 additional threads instead of
\* aborting".  A caller is refused only while all slots are in use.
RefusedOnlyWhenFull ==
    [][\A t \in Threads : (pc[t] = "error" /\ pc'[t] = "refused")
            => \A s \in Slots : used[s]]_vars

\* The same line promises the auxiliary structure "for up to 512 additional
\* threads": with no more callers than that no registration falls outside of
\* the release tables, to which it belongs.
RegisterFits == ended # "wild"
=============================================================================
