----------------------------- MODULE Level3Lock -----------------------------
(***************************************************************************)
(* driver/level3/level3_thread_lock.c, the OpenMP build: the lock around   *)
(* the threaded level-3 drivers lets MAX_PARALLEL_NUMBER of them in.  The  *)
(* thread that takes the last section keeps level3_lock, whoever leaves    *)
(* first opens it again; both locks are created on first use.              *)
(*                                                                         *)
(* MaxSections  MAX_PARALLEL_NUMBER                                        *)
(* Nobody       an OpenMP lock that is free                                *)
(* Unmade       an OpenMP lock before omp_init_lock                        *)
(* MaxCalls     bound: calls made by one thread                            *)
(***************************************************************************)
EXTENDS Integers, FiniteSets

CONSTANTS Threads, MaxSections, Nobody, Unmade, MaxCalls

ASSUME LockAssumption ==
    /\ MaxSections \in Nat \ {0}
    /\ MaxCalls \in Nat
    /\ Nobody \notin Threads /\ Unmade \notin Threads /\ Nobody # Unmade

VARIABLES
    initLock,     \* holder of init_lock
    initialized,  \* omp_lock_initialized
    level3,       \* holder of level3_lock
    critical,     \* holder of critical_section_lock
    left,         \* parallel_section_left
    pc,           \* thread -> where it is
    calls         \* thread -> calls made

vars == <<initLock, initialized, level3, critical, left, pc, calls>>

\* Places where a thread has gone through the lazy initialisation.
Using == {"level3", "critical", "take", "out", "inside", "leave", "back", "shut"}

TypeOK ==
    /\ initLock \in Threads \cup {Nobody}
    /\ initialized \in BOOLEAN
    /\ level3 \in Threads \cup {Nobody, Unmade}
    /\ critical \in Threads \cup {Nobody, Unmade}
    /\ left \in 0 .. MaxSections
    /\ pc \in [Threads -> {"idle", "check", "spin", "create", "flag", "unspin"} \cup Using]
    /\ calls \in [Threads -> 0 .. MaxCalls]

Init ==
    /\ initLock = Nobody
    /\ initialized = FALSE
    /\ level3 = Unmade
    /\ critical = Unmade
    /\ left = MaxSections
    /\ pc = [t \in Threads |-> "idle"]
    /\ calls = [t \in Threads |-> 0]

At(t, from, to) == pc[t] = from /\ pc' = [pc EXCEPT ![t] = to]

-----------------------------------------------------------------------------
(* blas_level3_thread_lock_init                                            *)

Call(t) ==
    /\ calls[t] < MaxCalls
    /\ At(t, "idle", "check")
    /\ calls' = [calls EXCEPT ![t] = @ + 1]
    /\ UNCHANGED <<initLock, initialized, level3, critical, left>>

Check(t) ==
    /\ At(t, "check", IF initialized THEN "level3" ELSE "spin")
    /\ UNCHANGED <<initLock, initialized, level3, critical, left, calls>>

\* A slip: the flag is not looked at again under init_lock.
Spin_Blindly(t) ==
    /\ initLock = Nobody
    /\ initLock' = t
    /\ At(t, "spin", "create")
    /\ UNCHANGED <<initialized, level3, critical, left, calls>>

\* A slip: the flag is set before the locks are created.
Spin_FlagsFirst(t) ==
    /\ initLock = Nobody
    /\ initLock' = t
    /\ At(t, "spin", IF initialized THEN "unspin" ELSE "create")
    /\ initialized' = TRUE
    /\ UNCHANGED <<level3, critical, left, calls>>

\* blas_lock(&init_lock) and the second look at the flag.
Spin(t) ==
    /\ initLock = Nobody
    /\ initLock' = t
    /\ At(t, "spin", IF initialized THEN "unspin" ELSE "create")
    /\ UNCHANGED <<initialized, level3, critical, left, calls>>

\* omp_init_lock makes a lock that is free.
Create(t) ==
    /\ At(t, "create", "flag")
    /\ level3' = Nobody /\ critical' = Nobody
    /\ UNCHANGED <<initLock, initialized, left, calls>>

Flag(t) ==
    /\ At(t, "flag", "unspin")
    /\ initialized' = TRUE
    /\ UNCHANGED <<initLock, level3, critical, left, calls>>

Unspin(t) ==
    /\ At(t, "unspin", "check")
    /\ initLock' = Nobody
    /\ UNCHANGED <<initialized, level3, critical, left, calls>>
-----------------------------------------------------------------------------
(* blas_level3_thread_enter                                                *)

LockLevel3(t) ==
    /\ At(t, "level3", "critical")
    /\ level3 = Nobody
    /\ level3' = t
    /\ UNCHANGED <<initLock, initialized, critical, left, calls>>

LockCritical(t, from, to) ==
    /\ At(t, from, to)
    /\ critical = Nobody
    /\ critical' = t
    /\ UNCHANGED <<initLock, initialized, level3, left, calls>>

\* A slip: the count is tested before it is decremented.
Take_TestsFirst(t) ==
    /\ At(t, "take", "out")
    /\ left' = left - 1
    /\ level3' = IF left # 0 THEN Nobody ELSE level3
    /\ UNCHANGED <<initLock, initialized, critical, calls>>

\* Take a section; only the thread that takes the last one keeps level3_lock.
Take(t) ==
    /\ At(t, "take", "out")
    /\ left' = left - 1
    /\ level3' = IF left' # 0 THEN Nobody ELSE level3
    /\ UNCHANGED <<initLock, initialized, critical, calls>>

UnlockCritical(t, from, to) ==
    /\ At(t, from, to)
    /\ critical' = Nobody
    /\ UNCHANGED <<initLock, initialized, level3, left, calls>>

Enter(t) ==
    \/ LockLevel3(t) \/ LockCritical(t, "critical", "take")
    \/ Take(t) \/ UnlockCritical(t, "out", "inside")

-----------------------------------------------------------------------------
(* blas_level3_thread_leave                                                *)

\* The driver has done its work.
Work(t) ==
    /\ At(t, "inside", "leave")
    /\ UNCHANGED <<initLock, initialized, level3, critical, left, calls>>

\* A slip: level3_lock is released whenever a section is given back.
Back_Always(t) ==
    /\ At(t, "back", "shut")
    /\ left' = left + 1
    /\ level3' = Nobody
    /\ UNCHANGED <<initLock, initialized, critical, calls>>

\* A slip: leave makes the same test as enter does, against zero.
Back_AtZero(t) ==
    /\ At(t, "back", "shut")
    /\ left' = left + 1
    /\ level3' = IF left' = 0 THEN Nobody ELSE level3
    /\ UNCHANGED <<initLock, initialized, critical, calls>>

\* Give the section back; if there was none left, open level3_lock.
Back(t) ==
    /\ At(t, "back", "shut")
    /\ left' = left + 1
    /\ level3' = IF left' = 1 THEN Nobody ELSE level3
    /\ UNCHANGED <<initLock, initialized, critical, calls>>

Leave(t) ==
    LockCritical(t, "leave", "back") \/ Back(t) \/ UnlockCritical(t, "shut", "idle")

-----------------------------------------------------------------------------
Thread(t) ==
    \/ Check(t) \/ Spin(t) \/ Create(t) \/ Flag(t) \/ Unspin(t)
    \/ Enter(t) \/ Work(t) \/ Leave(t)

Next == \E t \in Threads : Call(t) \/ Thread(t)

Spec == Init /\ [][Next]_vars

\* A thread that can go on does; a lock has to be granted only if it stays
\* free.
Fairness == \A t \in Threads : WF_vars(Thread(t))
FairSpec == Spec /\ Fairness

-----------------------------------------------------------------------------
Inside == {t \in Threads : pc[t] \in {"out", "inside", "leave", "back"}}

(* Never more than MAX_PARALLEL_NUMBER threads are between enter and leave. *)
AtMostMaximum == Cardinality(Inside) <= MaxSections

(* level3_lock is released only while it is held: by the entering thread   *)
(* that holds it itself, or by a leaving thread that finds it kept by the  *)
(* taker of the last section, never while another thread is between the    *)
(* two locks.                                                              *)
NeverUnlocksFree ==
    \A t \in Threads :
        /\ pc[t] = "take" => level3 = t
        /\ pc[t] = "back" /\ left = 0 =>
              /\ level3 \in Threads
              /\ pc[level3] \notin {"critical", "take"}

(* A thread that has gone through the initialisation finds both locks made, *)
(* and they are not made again.                                            *)
LocksReady ==
    \A t \in Threads :
        pc[t] \in Using =>
            /\ level3 # Unmade /\ critical # Unmade
            /\ \A s \in Threads : pc[s] \notin {"create", "flag"}

(* Two locks and a count keep the promise of a counting semaphore.         *)
Sem == INSTANCE Semaphore WITH inside <- Inside
ImplementsSemaphore == Sem!Spec

(* Every call of enter is let in and comes out again: the door is never    *)
(* left locked with nobody in the room.                                    *)
EntersEventually == \A t \in Threads : pc[t] # "idle" ~> pc[t] = "idle"
=============================================================================
