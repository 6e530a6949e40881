------------------------------ MODULE ForkJoin ------------------------------
(***************************************************************************)
(* What exec_blas promises its callers: a call hands over a number of      *)
(* jobs, every one of them is run exactly once, and the call returns only  *)
(* after all of them have finished.  How many threads there are and which  *)
(* of them runs a job is not part of the promise.                          *)
(***************************************************************************)
EXTENDS Integers

CONSTANTS Callers, MaxJobs

Indices == 0 .. (MaxJobs - 1)

VARIABLES
    inside,  \* caller -> it is inside exec_blas
    job      \* caller -> job index -> what has become of the job

vars == <<inside, job>>

NoJobs == [k \in Indices |-> "none"]

TypeOK ==
    /\ inside \in [Callers -> BOOLEAN]
    /\ job \in [Callers -> [Indices -> {"none", "todo", "running", "done"}]]

Init ==
    /\ inside = [c \in Callers |-> FALSE]
    /\ job = [c \in Callers |-> NoJobs]

Enter(c) ==
    /\ ~inside[c]
    /\ inside' = [inside EXCEPT ![c] = TRUE]
    /\ \E n \in 1 .. MaxJobs :
          job' = [job EXCEPT ![c] = [k \in Indices |-> IF k < n THEN "todo" ELSE "none"]]

Start(c, k) ==
    /\ job[c][k] = "todo"
    /\ job' = [job EXCEPT ![c][k] = "running"]
    /\ UNCHANGED inside

Finish(c, k) ==
    /\ job[c][k] = "running"
    /\ job' = [job EXCEPT ![c][k] = "done"]
    /\ UNCHANGED inside

Return(c) ==
    /\ inside[c]
    /\ \A k \in Indices : job[c][k] \in {"done", "none"}
    /\ inside' = [inside EXCEPT ![c] = FALSE]
    /\ job' = [job EXCEPT ![c] = NoJobs]

Next ==
    \E c \in Callers :
        \/ Enter(c) \/ Return(c)
        \/ \E k \in Indices : Start(c, k) \/ Finish(c, k)

Spec == Init /\ [][Next]_vars
=============================================================================
