------------------------------- MODULE Cancel -------------------------------
(***************************************************************************)
(* driver/others/openblas_cancel.c: threads issue cancellable operations   *)
(* one after the other, cancellers load a thread's slot and later ask for  *)
(* the cancellation of the operation they saw.                             *)
(*                                                                         *)
(* TLS       the build has compiler-emitted thread-local storage; without  *)
(*           it a slot is allocated on first use and that may fail         *)
(* Builds    which builds: with the GNU atomics (TRUE), and without them,  *)
(*           where openblas_cancel is openblas_cancel_cas_fallback, a      *)
(*           check and then a store                                        *)
(* MaxOps    bound: generations a thread begins                            *)
(* MaxAge    a canceller does not use a value it loaded more than MaxAge   *)
(*           generations ago (2^(w-1) generations reuse the same values)   *)
(***************************************************************************)
EXTENDS CancelSlot

CONSTANTS Threads, Cancellers, TLS, Builds, MaxOps, MaxAge, NoToken

ASSUME CancelAssumption ==
    /\ TLS \in BOOLEAN
    /\ Builds \subseteq BOOLEAN
    /\ MaxOps \in Nat
    /\ MaxAge \in Nat
    /\ 2 * MaxAge < Modulus
    /\ NoToken \notin Threads

VARIABLES
    atomicCAS,  \* the build has the GNU atomics; it never changes
    allocated,  \* thread -> openblas_cancel_slot_addr no longer returns NULL
    slot,       \* thread -> value of its generation slot
    pc,         \* thread -> where it is in an operation
    gen,        \* thread -> cancel_gen of the current operation
    tracked,    \* thread -> cancel_slot of the current operation is not NULL
    seen,       \* thread -> some poll of the current operation was nonzero
    op,         \* thread -> number of generations begun (history)
    stage,      \* canceller -> what it is doing
    token,      \* canceller -> the thread whose slot it loaded
    loaded,     \* canceller -> loaded_token
    target,     \* canceller -> generation number in flight at the load (history)
    asked       \* thread -> its latest generation was asked to stop (history)

threadVars == <<allocated, slot, pc, gen, tracked, seen, op>>
cancellerVars == <<stage, token, loaded, target>>
vars == <<atomicCAS, threadVars, cancellerVars, asked>>

TypeOK ==
    /\ atomicCAS \in BOOLEAN
    /\ allocated \in [Threads -> BOOLEAN]
    /\ slot \in [Threads -> SlotValues]
    /\ pc \in [Threads -> {"idle", "storing", "begun", "running"}]
    /\ gen \in [Threads -> SlotValues]
    /\ tracked \in [Threads -> BOOLEAN]
    /\ seen \in [Threads -> BOOLEAN]
    /\ op \in [Threads -> Nat]
    /\ stage \in [Cancellers -> {"idle", "holding", "storing"}]
    /\ token \in [Cancellers -> Threads \cup {NoToken}]
    /\ loaded \in [Cancellers -> SlotValues]
    /\ target \in [Cancellers -> Nat]
    /\ asked \in [Threads -> BOOLEAN]

Init ==
    /\ atomicCAS \in Builds
    /\ allocated = [t \in Threads |-> TLS]
    /\ slot = [t \in Threads |-> 0]
    /\ pc = [t \in Threads |-> "idle"]
    /\ gen = [t \in Threads |-> 0]
    /\ tracked = [t \in Threads |-> FALSE]
    /\ seen = [t \in Threads |-> FALSE]
    /\ op = [t \in Threads |-> 0]
    /\ stage = [c \in Cancellers |-> "idle"]
    /\ token = [c \in Cancellers |-> NoToken]
    /\ loaded = [c \in Cancellers |-> 0]
    /\ target = [c \in Cancellers |-> 0]
    /\ asked = [t \in Threads |-> FALSE]

-----------------------------------------------------------------------------
(* The issuing thread.                                                     *)

\* openblas_cancel_token on a thread without a slot; its slot starts at 0.
Token(t) ==
    /\ pc[t] = "idle"
    /\ ~allocated[t]
    /\ allocated' = [allocated EXCEPT ![t] = TRUE]
    /\ UNCHANGED <<atomicCAS, slot, pc, gen, tracked, seen, op, cancellerVars, asked>>

\* openblas_cancel_begin: the slot is read and the next generation computed ...
BeginLoad(t) ==
    /\ pc[t] = "idle"
    /\ op[t] < MaxOps
    /\ allocated' = [allocated EXCEPT ![t] = TRUE]
    /\ gen' = [gen EXCEPT ![t] = FreshGeneration(slot[t])]
    /\ pc' = [pc EXCEPT ![t] = "storing"]
    /\ UNCHANGED <<atomicCAS, slot, tracked, seen, op, cancellerVars, asked>>

\* ... and stored: from here on the new generation is the live one.
BeginStore(t) ==
    /\ pc[t] = "storing"
    /\ slot' = [slot EXCEPT ![t] = gen[t]]
    /\ op' = [op EXCEPT ![t] = @ + 1]
    /\ asked' = [asked EXCEPT ![t] = FALSE]
    /\ pc' = [pc EXCEPT ![t] = "begun"]
    /\ UNCHANGED <<atomicCAS, allocated, gen, tracked, seen, cancellerVars>>

\* openblas_cancel_begin on a thread whose slot cannot be allocated.
BeginNull(t) ==
    /\ pc[t] = "idle"
    /\ ~allocated[t]
    /\ gen' = [gen EXCEPT ![t] = 0]
    /\ pc' = [pc EXCEPT ![t] = "begun"]
    /\ UNCHANGED <<atomicCAS, allocated, slot, tracked, seen, op, cancellerVars, asked>>

\* openblas_cancel_self: a second look-up, which may allocate when the first
\* one could not (the slot is then 0, the generation BeginNull returned).
Self(t) ==
    /\ pc[t] = "begun"
    /\ \E got \in {allocated[t], TRUE} :
          /\ allocated' = [allocated EXCEPT ![t] = got]
          /\ tracked' = [tracked EXCEPT ![t] = got]
    /\ pc' = [pc EXCEPT ![t] = "running"]
    /\ UNCHANGED <<atomicCAS, slot, gen, seen, op, cancellerVars, asked>>

\* openblas_cancel_poll, by the issuing thread or by a worker of its operation.
Poll(t) ==
    /\ pc[t] = "running"
    /\ seen' = [seen EXCEPT ![t] = @ \/ (tracked[t] /\ Superseded(slot[t], gen[t]))]
    /\ UNCHANGED <<atomicCAS, allocated, slot, pc, gen, tracked, op, cancellerVars, asked>>

\* The operation returns, early or not.
End(t) ==
    /\ pc[t] = "running"
    /\ pc' = [pc EXCEPT ![t] = "idle"]
    /\ tracked' = [tracked EXCEPT ![t] = FALSE]
    /\ seen' = [seen EXCEPT ![t] = FALSE]
    /\ UNCHANGED <<atomicCAS, allocated, slot, gen, op, cancellerVars, asked>>

-----------------------------------------------------------------------------
(* The cancellers.                                                         *)

\* The caller of openblas_cancel loads *token.
Load(c, t) ==
    /\ stage[c] = "idle"
    /\ allocated[t]
    /\ stage' = [stage EXCEPT ![c] = "holding"]
    /\ token' = [token EXCEPT ![c] = t]
    /\ loaded' = [loaded EXCEPT ![c] = slot[t]]
    /\ target' = [target EXCEPT ![c] = op[t]]
    /\ UNCHANGED <<atomicCAS, threadVars, asked>>

\* The call returns and the caller's copies of token and value are dead.
Release(c) ==
    /\ stage' = [stage EXCEPT ![c] = "idle"]
    /\ token' = [token EXCEPT ![c] = NoToken]
    /\ loaded' = [loaded EXCEPT ![c] = 0]
    /\ target' = [target EXCEPT ![c] = 0]

Fresh(c) == op[token[c]] - target[c] <= MaxAge

Request(c) ==
    /\ stage[c] = "holding"
    /\ Fresh(c)
    /\ asked' = [asked EXCEPT ![token[c]] = @ \/ target[c] = op[token[c]]]

\* A slip in openblas_cancel: the bit is set in whatever the slot holds now.
Cancel_Unconditional(c) ==
    /\ atomicCAS
    /\ Request(c)
    /\ slot' = [slot EXCEPT ![token[c]] = SetBit(@)]
    /\ Release(c)
    /\ UNCHANGED <<atomicCAS, allocated, pc, gen, tracked, seen, op>>

\* openblas_cancel with an atomic compare-exchange.
Cancel(c) ==
    /\ atomicCAS
    /\ Request(c)
    /\ slot' = [slot EXCEPT ![token[c]] = IF @ = loaded[c] THEN SetBit(loaded[c]) ELSE @]
    /\ Release(c)
    /\ UNCHANGED <<atomicCAS, allocated, pc, gen, tracked, seen, op>>

\* openblas_cancel_cas_fallback: the comparison ...
CancelCheck(c) ==
    /\ ~atomicCAS
    /\ Request(c)
    /\ IF slot[token[c]] = loaded[c]
       THEN stage' = [stage EXCEPT ![c] = "storing"] /\ UNCHANGED <<token, loaded, target>>
       ELSE Release(c)
    /\ UNCHANGED <<atomicCAS, threadVars>>

\* ... and the store, some time later.
CancelStore(c) ==
    /\ stage[c] = "storing"
    /\ slot' = [slot EXCEPT ![token[c]] = SetBit(loaded[c])]
    /\ Release(c)
    /\ UNCHANGED <<atomicCAS, allocated, pc, gen, tracked, seen, op, asked>>

\* The caller finds that the operation it meant is no longer the current one.
Drop(c) ==
    /\ stage[c] = "holding"
    /\ Release(c)
    /\ UNCHANGED <<atomicCAS, threadVars, asked>>

-----------------------------------------------------------------------------
Thread(t) ==
    \/ Token(t) \/ BeginLoad(t) \/ BeginStore(t) \/ BeginNull(t)
    \/ Self(t) \/ Poll(t) \/ End(t)

Canceller(c) ==
    \/ \E t \in Threads : Load(c, t)
    \/ Cancel(c) \/ CancelCheck(c) \/ CancelStore(c) \/ Drop(c)

Next == (\E t \in Threads : Thread(t)) \/ (\E c \in Cancellers : Canceller(c))

Spec == Init /\ [][Next]_vars

-----------------------------------------------------------------------------
Live(t) == pc[t] = "running" /\ tracked[t]

(* An operation abandons its work only if somebody asked for the           *)
(* cancellation of that very operation: a stale request never reaches a    *)
(* later one (cblas.h, "stale requests cannot affect later operations").   *)
NoStrayCancel == \A t \in Threads : seen[t] => asked[t]

(* openblas_cancel.c claims that promise for the build with the atomic     *)
(* compare-exchange only.                                                  *)
NoStrayCancelAtomic == atomicCAS => NoStrayCancel

(* A request for the operation in flight is not lost: from the moment      *)
(* openblas_cancel returns, every poll of that operation reports it.       *)
RequestHonoured ==
    atomicCAS => \A t \in Threads :
        Live(t) /\ asked[t] => Superseded(slot[t], gen[t])

(* A cancelled operation never looks alive again.  The GEMM driver relies  *)
(* on it: a worker that skipped work leaves it to the driver's own, later  *)
(* poll to notice.                                                         *)
CancelSticky ==
    [][\A t \in Threads :
          Live(t) /\ Superseded(slot[t], gen[t]) /\ pc'[t] = "running"
             => Superseded(slot'[t], gen'[t])]_vars
=============================================================================
