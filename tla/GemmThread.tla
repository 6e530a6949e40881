----------------------------- MODULE GemmThread -----------------------------
(***************************************************************************)
(* driver/level3/level3_thread.c: gemm_driver runs inner_thread on all     *)
(* threads, one round per block of columns.  In a round every thread packs *)
(* its part of B once per step of k and lends the packed panels to the     *)
(* threads of its group through the flags job[].working; openblas_cancel   *)
(* may strike at any moment.                                               *)
(*                                                                         *)
(* NM, NN   nthreads_m, nthreads_n                                         *)
(* KSteps   steps of the loop over k (ls)                                  *)
(* MBlocks  mypos_m -> blocks of rows of the thread's part of m, at least  *)
(*          one: an empty part is one block with min_i = 0                 *)
(* Columns  round -> thread -> panels its part of n is divided into, at    *)
(*          most divide_rate, none when the part is empty                  *)
(*                                                                         *)
(* Memory is sequentially consistent: the code puts a WMB or MB between    *)
(* panel accesses and flag accesses.  The packed A is private to a thread. *)
(***************************************************************************)
EXTENDS Integers, FiniteSets, Sequences

CONSTANTS NM, NN, DivideRate, KSteps, MBlocks, Columns

Rounds == Len(Columns)
Threads == 0 .. (NM * NN - 1)
Sides == 0 .. (DivideRate - 1)

ASSUME GemmAssumption ==
    /\ NM \in Nat \ {0} /\ NN \in Nat \ {0}
    /\ DivideRate \in Nat \ {0}
    /\ KSteps \in Nat \ {0}
    /\ MBlocks \in [0 .. (NM - 1) -> Nat \ {0}]
    /\ Columns \in Seq([Threads -> 0 .. DivideRate]) /\ Columns # <<>>

VARIABLES
    product,    \* k > 0 and alpha is not zero
    superseded, \* openblas_cancel_poll would be nonzero
    driver,     \* where gemm_driver is
    round,      \* its iteration over js, from 1
    working,    \* owner -> reader -> bufferside -> the flag is set
    panel,      \* owner -> bufferside -> the step whose part of B it holds
    pc,         \* thread -> where inner_thread is
    cancelled,  \* thread -> its local copy of the poll
    ls,         \* thread -> step of k, from 1
    blk,        \* thread -> block of m, from 1
    current,    \* thread -> owner of the region it deals with
    side,       \* thread -> bufferside
    reader,     \* thread -> reader it publishes to
    done        \* thread -> kernels applied this round (history)

driverVars == <<product, superseded, driver, round>>
threadVars == <<pc, cancelled, ls, blk, current, side, reader, done>>
vars == <<driverVars, working, panel, threadVars>>

ThreadStates == {"idle", "start", "step", "free", "packing", "publish",
                 "visit", "reading", "clear", "drain", "returned"}

\* What a panel can hold (0: nothing complete), and a kernel: step of k, block
\* of m, owner of the panel, bufferside.
Contents == 0 .. (Rounds * KSteps)
Kernels == (1 .. KSteps) \X Nat \X Threads \X Sides

TypeOK ==
    /\ product \in BOOLEAN
    /\ superseded \in BOOLEAN
    /\ driver \in {"clear", "exec", "poll", "finished"}
    /\ round \in 1 .. Rounds
    /\ working \in [Threads -> [Threads -> [Sides -> BOOLEAN]]]
    /\ panel \in [Threads -> [Sides -> Contents]]
    /\ pc \in [Threads -> ThreadStates]
    /\ cancelled \in [Threads -> BOOLEAN]
    /\ ls \in [Threads -> 1 .. KSteps]
    /\ blk \in [Threads -> Nat \ {0}]
    /\ current \in [Threads -> Threads]
    /\ side \in [Threads -> 0 .. DivideRate]
    /\ reader \in [Threads -> Threads]
    /\ done \in [Threads -> SUBSET Kernels]

Flags(v) == [o \in Threads |-> [r \in Threads |-> [b \in Sides |-> v]]]

Init ==
    /\ product \in BOOLEAN
    /\ superseded = FALSE
    /\ driver = "clear"
    /\ round = 1
    /\ \E garbage \in BOOLEAN : working = Flags(garbage)
    /\ panel = [t \in Threads |-> [b \in Sides |-> 0]]
    /\ pc = [t \in Threads |-> "idle"]
    /\ cancelled = [t \in Threads |-> FALSE]
    /\ ls = [t \in Threads |-> 1]
    /\ blk = [t \in Threads |-> 1]
    /\ current = [t \in Threads |-> t]
    /\ side = [t \in Threads |-> 0]
    /\ reader = [t \in Threads |-> t]
    /\ done = [t \in Threads |-> {}]

-----------------------------------------------------------------------------
\* Threads mypos_n * nthreads_m .. (mypos_n + 1) * nthreads_m - 1.
First(t) == (t \div NM) * NM
Group(t) == First(t) .. (First(t) + NM - 1)

\* A slip: the group is not gone round.
Successor_NoWrap(t, c) == c + 1

Successor(t, c) == IF c + 1 >= First(t) + NM THEN First(t) ELSE c + 1

Blocks(t) == MBlocks[t % NM]
Panels(o) == Columns[round][o]

\* What a panel packed in this round's step l holds.
Step(l) == (round - 1) * KSteps + l

\* The kernels thread t applies in a whole round.
AllKernels(t) ==
    {kernel \in (1 .. KSteps) \X (1 .. Blocks(t)) \X Group(t) \X Sides :
        kernel[4] < Panels(kernel[3])}

Polled(t) == cancelled[t] \/ superseded
Poll(t) == cancelled' = [cancelled EXCEPT ![t] = Polled(t)]

Go(t, label) == pc' = [pc EXCEPT ![t] = label]

-----------------------------------------------------------------------------
(* inner_thread, by thread t.                                              *)

\* The first poll and the scaling by beta; if there is no product to add the
\* thread returns early.
Begin(t) ==
    /\ pc[t] = "start"
    /\ Poll(t)
    /\ Go(t, IF product THEN "step" ELSE "returned")
    /\ UNCHANGED <<driverVars, working, panel, ls, blk, current, side, reader, done>>

\* Next step of k: poll, copy the first block of A.
NextStep(t) ==
    /\ pc[t] = "step"
    /\ Poll(t)
    /\ Go(t, "free")
    /\ UNCHANGED <<driverVars, working, panel, ls, blk, current, side, reader, done>>

\* A slip: the owner waits for the flags of its own group's first reader only.
NobodyReads_FirstOnly(t, s) == ~working[t][First(t)][s]

\* Make sure no one is using the workspace.  The flags are looked at one by
\* one; only their owner sets them, so the order makes no difference.
NobodyReads(t, s) == \A r \in Threads : ~working[t][r][s]

\* All panels of the own region are out: on to the regions of the group.
AfterPack(t) ==
    /\ pc[t] = "free"
    /\ side[t] = Panels(t)
    /\ current' = [current EXCEPT ![t] = Successor(t, t)]
    /\ side' = [side EXCEPT ![t] = 0]
    /\ Go(t, "visit")
    /\ UNCHANGED <<driverVars, working, panel, cancelled, ls, blk, reader, done>>

\* Copying B into the workspace begins, unless cancelled.
BeginPack(t) ==
    /\ pc[t] = "free"
    /\ side[t] < Panels(t)
    /\ NobodyReads(t, side[t])
    /\ Poll(t)
    /\ IF Polled(t)
       THEN Go(t, "publish") /\ UNCHANGED panel
       ELSE Go(t, "packing") /\ panel' = [panel EXCEPT ![t][side[t]] = 0]
    /\ reader' = [reader EXCEPT ![t] = First(t)]
    /\ UNCHANGED <<driverVars, working, ls, blk, current, side, done>>

\* The pieces of the panel are copied and multiplied; a poll between two of
\* them may leave it incomplete.
EndPack(t) ==
    /\ pc[t] = "packing"
    /\ \E whole \in {TRUE} \cup {~superseded} :
          IF whole
          THEN /\ panel' = [panel EXCEPT ![t][side[t]] = Step(ls[t])]
               /\ done' = [done EXCEPT ![t] = @ \cup {<<ls[t], 1, t, side[t]>>}]
               /\ UNCHANGED cancelled
          ELSE cancelled' = [cancelled EXCEPT ![t] = TRUE] /\ UNCHANGED <<panel, done>>
    /\ Go(t, "publish")
    /\ UNCHANGED <<driverVars, working, ls, blk, current, side, reader>>

\* A slip: a cancelled thread returns from the block without publishing it.
Publish_IfWhole(t) ==
    /\ pc[t] = "publish"
    /\ working' = [working EXCEPT ![t][reader[t]][side[t]] = ~cancelled[t]]
    /\ IF reader[t] + 1 \in Group(t)
       THEN reader' = [reader EXCEPT ![t] = @ + 1] /\ UNCHANGED <<pc, side>>
       ELSE /\ reader' = [reader EXCEPT ![t] = t]
            /\ side' = [side EXCEPT ![t] = @ + 1]
            /\ Go(t, "free")
    /\ UNCHANGED <<driverVars, panel, cancelled, ls, blk, current, done>>

\* Set the flag of one reader; after the last one the next panel follows.
Publish(t) ==
    /\ pc[t] = "publish"
    /\ working' = [working EXCEPT ![t][reader[t]][side[t]] = TRUE]
    /\ IF reader[t] + 1 \in Group(t)
       THEN reader' = [reader EXCEPT ![t] = @ + 1] /\ UNCHANGED <<pc, side>>
       ELSE /\ reader' = [reader EXCEPT ![t] = t]
            /\ side' = [side EXCEPT ![t] = @ + 1]
            /\ Go(t, "free")
    /\ UNCHANGED <<driverVars, panel, cancelled, ls, blk, current, done>>

\* The first block of m: a panel of another thread is waited for and polled
\* before the kernel; the own panel was dealt with while it was packed.
Visit(t) ==
    /\ pc[t] = "visit"
    /\ blk[t] = 1
    /\ side[t] < Panels(current[t])
    /\ IF current[t] = t
       THEN Go(t, "clear") /\ UNCHANGED cancelled
       ELSE /\ working[current[t]][t][side[t]]
            /\ Poll(t)
            /\ Go(t, IF Polled(t) THEN "clear" ELSE "reading")
    /\ UNCHANGED <<driverVars, working, panel, ls, blk, current, side, reader, done>>

\* A later block of m: neither waiting nor polling.
Revisit(t) ==
    /\ pc[t] = "visit"
    /\ blk[t] > 1
    /\ side[t] < Panels(current[t])
    /\ Go(t, IF cancelled[t] THEN "clear" ELSE "reading")
    /\ UNCHANGED <<driverVars, working, panel, cancelled, ls, blk, current, side, reader, done>>

\* The kernel has been applied to the panel.
EndRead(t) ==
    /\ pc[t] = "reading"
    /\ done' = [done EXCEPT ![t] = @ \cup {<<ls[t], blk[t], current[t], side[t]>>}]
    /\ Go(t, "clear")
    /\ UNCHANGED <<driverVars, working, panel, cancelled, ls, blk, current, side, reader>>

\* A slip: a panel is given back after the first block of m.
LastBlock_Always(t) == TRUE

LastBlock(t) == blk[t] = Blocks(t)

\* Clear the flag if this thread is done with the panel.
Clear(t) ==
    /\ pc[t] = "clear"
    /\ working' = [working EXCEPT ![current[t]][t][side[t]] = @ /\ ~LastBlock(t)]
    /\ side' = [side EXCEPT ![t] = @ + 1]
    /\ Go(t, "visit")
    /\ UNCHANGED <<driverVars, panel, cancelled, ls, blk, current, reader, done>>

\* The first block goes round the group from the thread's successor to the
\* thread itself, the later ones from the thread to its predecessor.
RegionsLeft(t) == IF blk[t] = 1 THEN current[t] # t ELSE Successor(t, current[t]) # t

NextRegion(t) ==
    /\ pc[t] = "visit"
    /\ side[t] = Panels(current[t])
    /\ RegionsLeft(t)
    /\ current' = [current EXCEPT ![t] = Successor(t, @)]
    /\ side' = [side EXCEPT ![t] = 0]
    /\ UNCHANGED <<driverVars, working, panel, pc, cancelled, ls, blk, reader, done>>

\* All regions have been visited for this block of m: the next block, the next
\* step of k, or the end.
NextBlock(t) ==
    /\ pc[t] = "visit"
    /\ side[t] = Panels(current[t])
    /\ ~RegionsLeft(t)
    /\ current' = [current EXCEPT ![t] = t]
    /\ side' = [side EXCEPT ![t] = 0]
    /\ \/ /\ blk[t] < Blocks(t)
          /\ blk' = [blk EXCEPT ![t] = @ + 1]
          /\ Poll(t)
          /\ UNCHANGED <<pc, ls>>
       \/ /\ blk[t] = Blocks(t) /\ ls[t] < KSteps
          /\ blk' = [blk EXCEPT ![t] = 1]
          /\ ls' = [ls EXCEPT ![t] = @ + 1]
          /\ Go(t, "step")
          /\ UNCHANGED cancelled
       \/ /\ blk[t] = Blocks(t) /\ ls[t] = KSteps
          /\ Go(t, "drain")
          /\ UNCHANGED <<blk, ls, cancelled>>
    /\ UNCHANGED <<driverVars, working, panel, reader, done>>

\* A slip: a cancelled thread returns without waiting for its readers.
Drained_UnlessCancelled(t) == cancelled[t] \/ \A s \in Sides : NobodyReads(t, s)

Drained(t) == \A s \in Sides : NobodyReads(t, s)

\* Wait until all other threads are done with the local region of B.
Drain(t) ==
    /\ pc[t] = "drain"
    /\ Drained(t)
    /\ Go(t, "returned")
    /\ UNCHANGED <<driverVars, working, panel, cancelled, ls, blk, current, side, reader, done>>

InnerThread(t) ==
    \/ Begin(t) \/ NextStep(t) \/ AfterPack(t) \/ BeginPack(t) \/ EndPack(t)
    \/ Publish(t) \/ Visit(t) \/ Revisit(t) \/ EndRead(t) \/ Clear(t)
    \/ NextRegion(t) \/ NextBlock(t) \/ Drain(t)

-----------------------------------------------------------------------------
(* gemm_driver.                                                            *)

\* A slip: the loop over the buffersides ends one too early.
Cleared_ButLast ==
    [o \in Threads |-> [r \in Threads |-> [b \in Sides |->
        b = DivideRate - 1 /\ working[o][r][b]]]]

Cleared == Flags(FALSE)

\* Clear the flags (job is an uninitialised array on the stack) and hand one
\* job per thread to exec_blas: from here on each thread may begin.
ClearFlags ==
    /\ driver = "clear"
    /\ driver' = "exec"
    /\ working' = Cleared
    /\ pc' = [t \in Threads |-> "start"]
    /\ cancelled' = [t \in Threads |-> FALSE]
    /\ ls' = [t \in Threads |-> 1]
    /\ blk' = [t \in Threads |-> 1]
    /\ current' = [t \in Threads |-> t]
    /\ side' = [t \in Threads |-> 0]
    /\ reader' = [t \in Threads |-> t]
    /\ done' = [t \in Threads |-> {}]
    /\ UNCHANGED <<product, superseded, round, panel>>

\* exec_blas returns when all jobs have (ForkJoin).
Join ==
    /\ driver = "exec"
    /\ \A t \in Threads : pc[t] = "returned"
    /\ driver' = "poll"
    /\ UNCHANGED <<product, superseded, round, working, panel, threadVars>>

\* A slip: the driver does not poll between rounds.
Stop_AtEnd == round = Rounds

Stop == superseded \/ round = Rounds

NextRound ==
    /\ driver = "poll"
    /\ IF Stop
       THEN driver' = "finished" /\ UNCHANGED round
       ELSE driver' = "clear" /\ round' = round + 1
    /\ UNCHANGED <<product, superseded, working, panel, threadVars>>

GemmDriver == ClearFlags \/ Join \/ NextRound

\* openblas_cancel reaches the operation; it stays cancelled (Cancel module,
\* CancelSticky).
Supersede ==
    /\ ~superseded /\ driver # "finished"
    /\ superseded' = TRUE
    /\ UNCHANGED <<product, driver, round, working, panel, threadVars>>

Finished == driver = "finished" /\ UNCHANGED vars

Next == GemmDriver \/ Supersede \/ Finished \/ \E t \in Threads : InnerThread(t)

Spec == Init /\ [][Next]_vars

\* Every thread of the round is running (exec_blas's gang of jobs).
Fairness == WF_vars(GemmDriver) /\ \A t \in Threads : WF_vars(InnerThread(t))
FairSpec == Spec /\ Fairness

-----------------------------------------------------------------------------
Reads(t, o, s) == pc[t] = "reading" /\ current[t] = o /\ side[t] = s

(* A panel is never packed anew while a kernel of another thread reads it, *)
(* whatever the interleaving of publishing, clearing and packing.          *)
NoPanelRace ==
    \A t, o \in Threads : \A s \in Sides :
        Reads(t, o, s) => ~(pc[o] = "packing" /\ side[o] = s)

(* As long as the operation is not cancelled a kernel reads the panel of   *)
(* the very step of k it is about, completely packed: a thread that was    *)
(* told to skip work is never ahead of one that was not.                   *)
RightPanel ==
    \A t, o \in Threads : \A s \in Sides :
        Reads(t, o, s) /\ ~superseded => panel[o][s] = Step(ls[t])

(* The work buffer of a thread whose inner_thread has returned belongs to  *)
(* the next call of anybody: no sibling still reads from it.               *)
NoUseAfterReturn ==
    \A t, o \in Threads : \A s \in Sides :
        Reads(t, o, s) => pc[o] # "returned"

(* A round that ends leaves no flag behind, cancelled or not (gemm_driver: *)
(* "bailing out between rounds leaves the library in a consistent state"). *)
NoFlagLeft == driver = "poll" => working = Flags(FALSE)

(* If the driver goes on to the next block of columns, or returns from an  *)
(* operation that nobody cancelled, every thread has applied every kernel  *)
(* of the round: skipped work is never taken for a result.                 *)
WholeUnlessCancelled ==
    [][driver = "poll" /\ product /\ (round' # round \/ (driver' = "finished" /\ ~superseded))
         => \A t \in Threads : done[t] = AllKernels(t)]_vars

(* The operation ends, and a cancelled one too: skipping the work skips no *)
(* publication and no clearing of a flag that a sibling waits for.         *)
Termination == <>(driver = "finished")
=============================================================================
