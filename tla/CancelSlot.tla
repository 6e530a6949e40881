----------------------------- MODULE CancelSlot -----------------------------
(***************************************************************************)
(* The arithmetic of a generation slot of driver/others/openblas_cancel.c: *)
(* a size_t whose bit 0 is the cancel flag and whose other bits count the  *)
(* operations issued by the owning thread.  Modulus is 2^w for a w-bit     *)
(* size_t; all that matters is that it is even and holds two generations.  *)
(***************************************************************************)
EXTENDS Integers

CONSTANT Modulus

ASSUME ModulusAssumption ==
    /\ Modulus \in Nat
    /\ Modulus % 2 = 0
    /\ Modulus >= 4

SlotValues == 0 .. (Modulus - 1)

\* A slip in openblas_cancel: the request flips the bit instead of setting it.
SetBit_Flips(v) == IF v % 2 = 0 THEN v + 1 ELSE v - 1

\* loaded_token | 1
SetBit(v) == IF v % 2 = 0 THEN v + 1 ELSE v

\* A slip in openblas_cancel_begin: v + 2 keeps a stale cancel bit.
FreshGeneration_KeepsBit(v) == (v + 2) % Modulus

\* A width slip: the generation does not wrap at w bits.
FreshGeneration_NoWrap(v) == (IF v % 2 = 0 THEN v + 1 ELSE v) + 1

\* A slip in openblas_cancel_begin: only the bit is cleared, so the generation
\* of the previous operation is used again.
FreshGeneration_ClearsBit(v) == v - (v % 2)

\* (v | 1) + 1 in w-bit arithmetic: the next even value, 0 after the last.
FreshGeneration(v) ==
    LET odd == IF v % 2 = 0 THEN v + 1 ELSE v
    IN IF odd + 1 = Modulus THEN 0 ELSE odd + 1

\* openblas_cancel_poll on a slot that is not NULL.
Superseded(v, generation) == v # generation
=============================================================================
