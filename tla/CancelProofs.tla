---------------------------- MODULE CancelProofs ----------------------------
(***************************************************************************)
(* Theorems about Cancel, for every word width, number of threads and      *)
(* cancellers and every MaxOps.                                            *)
(***************************************************************************)
EXTENDS Cancel, TLAPS

USE ModulusAssumption, CancelAssumption

-----------------------------------------------------------------------------
(* Arithmetic of the slot.                                                 *)

\* The generation a slot value belongs to.
Even(v) == IF v % 2 = 0 THEN v ELSE v - 1

\* The even part of a slot d generations after it held v.
After(v, d) == IF Even(v) + 2 * d < Modulus THEN Even(v) + 2 * d
                                            ELSE Even(v) + 2 * d - Modulus

\* SetBit (loaded_token | 1) sets bit 0 and stays in the generation.
LEMMA SetBitFacts ==
    ASSUME NEW v \in SlotValues
    PROVE  /\ SetBit(v) \in SlotValues
           /\ SetBit(v) % 2 = 1
           /\ SetBit(v) >= v
           /\ Even(SetBit(v)) = Even(v)
BY DEF SetBit, SlotValues, Even

\* FreshGeneration ((v | 1) + 1) is even, and the same for v and v | 1.
LEMMA FreshFacts ==
    ASSUME NEW v \in SlotValues
    PROVE  /\ FreshGeneration(v) \in SlotValues
           /\ FreshGeneration(v) % 2 = 0
           /\ FreshGeneration(v) = After(v, 1)
BY DEF FreshGeneration, SlotValues, After, Even

\* One more generation is one more step around the ring of even values.
LEMMA AfterStep ==
    ASSUME NEW v \in SlotValues, NEW s \in SlotValues, NEW d \in Nat,
           2 * (d + 1) < Modulus, Even(s) = After(v, d)
    PROVE  Even(FreshGeneration(s)) = After(v, d + 1)
BY DEF FreshGeneration, SlotValues, After, Even

\* Within half a turn a generation does not come back: no ABA.
LEMMA AfterInjective ==
    ASSUME NEW v \in SlotValues, NEW d \in Nat, 2 * d < Modulus,
           Even(v) = After(v, d)
    PROVE  d = 0
BY DEF SlotValues, After, Even

\* An update keeps the type, also at an argument outside the domain.
LEMMA ExceptType ==
    ASSUME NEW S, NEW T, NEW f \in [S -> T], NEW x, NEW e, x \in S => e \in T
    PROVE  [f EXCEPT ![x] = e] \in [S -> T]
OBVIOUS

-----------------------------------------------------------------------------
(* Type correctness.                                                       *)

LEMMA TypeInit == Init => TypeOK
BY DEF Init, TypeOK, SlotValues

LEMMA TypeNext == TypeOK /\ [Next]_vars => TypeOK'
<1> SUFFICES ASSUME TypeOK, [Next]_vars
             PROVE  TypeOK'
    OBVIOUS
<1> USE DEF TypeOK, threadVars, cancellerVars
<1>1. ASSUME NEW t \in Threads, Thread(t)
      PROVE  TypeOK'
  <2>1. CASE Token(t)      BY <2>1 DEF Token
  <2>2. CASE BeginLoad(t)  BY <2>2, FreshFacts DEF BeginLoad
  <2>3. CASE BeginStore(t) BY <2>3 DEF BeginStore
  <2>4. CASE BeginNull(t)  BY <2>4 DEF BeginNull, SlotValues
  <2>5. CASE Self(t)       BY <2>5 DEF Self
  <2>6. CASE Poll(t)
    <3>1. (tracked[t] /\ Superseded(slot[t], gen[t])) \in BOOLEAN
      BY DEF Superseded
    <3> QED BY <2>6, <3>1 DEF Poll
  <2>7. CASE End(t)        BY <2>7 DEF End
  <2> QED BY <1>1, <2>1, <2>2, <2>3, <2>4, <2>5, <2>6, <2>7 DEF Thread
<1>2. ASSUME NEW c \in Cancellers, Canceller(c)
      PROVE  TypeOK'
  <2>a. ASSUME Release(c)
        PROVE  /\ stage' \in [Cancellers -> {"idle", "holding", "storing"}]
               /\ token' \in [Cancellers -> Threads \cup {NoToken}]
               /\ loaded' \in [Cancellers -> SlotValues]
               /\ target' \in [Cancellers -> Nat]
    BY <2>a DEF Release, SlotValues
  <2>b. ASSUME Request(c)
        PROVE  asked' \in [Threads -> BOOLEAN]
    <3>1. (asked[token[c]] \/ target[c] = op[token[c]]) \in BOOLEAN
      OBVIOUS
    <3> QED BY <2>b, <3>1, ExceptType, Zenon DEF Request
  <2>c. SetBit(loaded[c]) \in SlotValues
    BY SetBitFacts
  <2>1. CASE \E t \in Threads : Load(c, t)
    BY <2>1 DEF Load
  <2>2. CASE Cancel(c)
    <3>1. slot' \in [Threads -> SlotValues]
      BY <2>2, <2>c DEF Cancel
    <3> QED BY <2>2, <2>a, <2>b, <3>1 DEF Cancel
  <2>3. CASE CancelCheck(c)
    <3>1. Request(c) /\ UNCHANGED threadVars
      BY <2>3 DEF CancelCheck
    <3>2. CASE slot[token[c]] = loaded[c]
      BY <2>3, <2>b, <3>1, <3>2 DEF CancelCheck
    <3>3. CASE slot[token[c]] # loaded[c]
      BY <2>3, <2>a, <2>b, <3>1, <3>3 DEF CancelCheck
    <3> QED BY <3>2, <3>3
  <2>4. CASE CancelStore(c)
    BY <2>4, <2>a, <2>c DEF CancelStore
  <2>5. CASE Drop(c)
    BY <2>5, <2>a DEF Drop
  <2> QED BY <1>2, <2>1, <2>2, <2>3, <2>4, <2>5 DEF Canceller
<1>3. CASE UNCHANGED vars
  BY <1>3 DEF vars
<1> QED BY <1>1, <1>2, <1>3 DEF Next

\* Every variable of the slots and of their users keeps its type; in
\* particular a generation always fits the word (openblas_cancel_begin wraps).
THEOREM TypeCorrect == Spec => []TypeOK
<1>1. Init => TypeOK BY TypeInit
<1>2. TypeOK /\ [Next]_vars => TypeOK' BY TypeNext
<1> QED BY <1>1, <1>2, PTL DEF Spec

-----------------------------------------------------------------------------
(* A cancelled operation stays cancelled, with either form of the request. *)

\* What a driver polls against is even, what a canceller stores is odd.
GenerationEven == \A t \in Threads : pc[t] # "idle" => gen[t] % 2 = 0

LEMMA GenerationEvenNext ==
    TypeOK /\ GenerationEven /\ [Next]_vars => GenerationEven'
<1> SUFFICES ASSUME TypeOK, GenerationEven, [Next]_vars
             PROVE  GenerationEven'
    OBVIOUS
<1> USE DEF TypeOK, GenerationEven
<1>1. ASSUME NEW t \in Threads, Thread(t)
      PROVE  GenerationEven'
  <2>1. CASE BeginLoad(t)
    BY <2>1, FreshFacts DEF BeginLoad
  <2>2. CASE BeginNull(t)
    BY <2>2 DEF BeginNull
  <2>3. CASE Token(t) \/ BeginStore(t) \/ Self(t) \/ Poll(t) \/ End(t)
    BY <2>3 DEF Token, BeginStore, Self, Poll, End
  <2> QED BY <1>1, <2>1, <2>2, <2>3 DEF Thread
<1>2. ASSUME NEW c \in Cancellers, Canceller(c)
      PROVE  GenerationEven'
  <2>1. UNCHANGED <<pc, gen>>
    BY <1>2 DEF Canceller, Load, Cancel, CancelCheck, CancelStore, Drop, threadVars
  <2> QED BY <2>1
<1>3. CASE UNCHANGED vars
  BY <1>3 DEF vars, threadVars
<1> QED BY <1>1, <1>2, <1>3 DEF Next

LEMMA StickyStep ==
    ASSUME TypeOK, GenerationEven, [Next]_vars,
           NEW t \in Threads, Live(t), Superseded(slot[t], gen[t]), pc'[t] = "running"
    PROVE  Superseded(slot'[t], gen'[t])
<1> USE DEF TypeOK, Live, Superseded
<1>1. ASSUME NEW u \in Threads, Thread(u)
      PROVE  slot'[t] # gen'[t]
  BY <1>1 DEF Thread, Token, BeginLoad, BeginStore, BeginNull, Self, Poll, End
<1>2. ASSUME NEW c \in Cancellers, Canceller(c)
      PROVE  slot'[t] # gen'[t]
  <2>1. gen'[t] = gen[t] /\ gen[t] % 2 = 0
    BY <1>2 DEF Canceller, Load, Cancel, CancelCheck, CancelStore, Drop,
                threadVars, GenerationEven
  <2>2. slot'[t] = slot[t] \/ slot'[t] = SetBit(loaded[c])
    BY <1>2 DEF Canceller, Load, Cancel, CancelCheck, CancelStore, Drop, threadVars
  <2>3. SetBit(loaded[c]) % 2 = 1
    BY SetBitFacts
  <2> QED BY <2>1, <2>2, <2>3
<1>3. CASE UNCHANGED vars
  BY <1>3 DEF vars, threadVars
<1> QED BY <1>1, <1>2, <1>3 DEF Next

\* Once a poll of an operation could report its cancellation, every later
\* poll does (openblas_cancel_poll; the GEMM driver's workers rely on it).
THEOREM StickyCorrect == Spec => CancelSticky
<1>1. Init => TypeOK /\ GenerationEven
  BY TypeInit DEF Init, GenerationEven
<1>2. TypeOK /\ GenerationEven /\ [Next]_vars => TypeOK' /\ GenerationEven'
  BY TypeNext, GenerationEvenNext
<1>3. TypeOK /\ GenerationEven /\ [Next]_vars
        => [\A t \in Threads :
              Live(t) /\ Superseded(slot[t], gen[t]) /\ pc'[t] = "running"
                 => Superseded(slot'[t], gen'[t])]_vars
  BY StickyStep
<1> QED BY <1>1, <1>2, <1>3, PTL DEF Spec, CancelSticky

-----------------------------------------------------------------------------
(* With the atomic compare-exchange the cancel bit says exactly whether    *)
(* the generation in the slot was asked to stop.                           *)

\* The generation of the operation is the one in the slot.
GenerationInSlot ==
    \A t \in Threads :
        /\ ~allocated[t] => slot[t] = 0
        /\ pc[t] = "storing" => allocated[t] /\ gen[t] = FreshGeneration(slot[t])
        /\ pc[t] \in {"begun", "running"} => gen[t] = Even(slot[t])

BitIsRequest == \A t \in Threads : asked[t] <=> slot[t] % 2 = 1

SeenIsRequest ==
    \A t \in Threads : seen[t] => pc[t] = "running" /\ asked[t]

\* A held value is as many generations old as the history says, and a value
\* of the current generation differs from the slot by the bit at most.
HeldIsAged ==
    \A c \in Cancellers :
        stage[c] # "idle" =>
            /\ token[c] \in Threads /\ allocated[token[c]]
            /\ target[c] <= op[token[c]]
            /\ Fresh(c) => Even(slot[token[c]]) = After(loaded[c], op[token[c]] - target[c])
            /\ target[c] = op[token[c]] => loaded[c] <= slot[token[c]]

CancelInv ==
    /\ atomicCAS
    /\ TypeOK
    /\ GenerationInSlot
    /\ BitIsRequest
    /\ SeenIsRequest
    /\ HeldIsAged
    /\ \A c \in Cancellers : stage[c] # "storing"

LEMMA CancelInvInit == Init /\ atomicCAS => CancelInv
BY TypeInit DEF Init, CancelInv, GenerationInSlot, BitIsRequest, SeenIsRequest,
                HeldIsAged, TypeOK

\* The actions of the issuing thread that leave the slot alone.
LEMMA QuietStep ==
    ASSUME CancelInv, NEW t \in Threads,
           Token(t) \/ BeginLoad(t) \/ BeginNull(t) \/ Self(t) \/ Poll(t) \/ End(t)
    PROVE  CancelInv'
<1> USE DEF CancelInv
<1>0. UNCHANGED <<atomicCAS, slot, op, cancellerVars, asked>>
  BY DEF Token, BeginLoad, BeginNull, Self, Poll, End
<1>1. TypeOK'
  BY TypeNext DEF Next, Thread
<1>2. GenerationInSlot'
  BY <1>0, FreshFacts
     DEF GenerationInSlot, TypeOK, Token, BeginLoad, BeginNull, Self, Poll, End, Even
<1>3. BitIsRequest'
  BY <1>0 DEF BitIsRequest
<1>4. SeenIsRequest'
  <2>1. CASE Poll(t)
    <3>1. Superseded(slot[t], gen[t]) => asked[t]
      BY <2>1 DEF Poll, Superseded, GenerationInSlot, BitIsRequest, Even, TypeOK, SlotValues
    <3>2. pc[t] = "running" /\ UNCHANGED <<pc, asked>>
      BY <2>1 DEF Poll
    <3>3. seen'[t] => seen[t] \/ Superseded(slot[t], gen[t])
      BY <2>1 DEF Poll, TypeOK
    <3>4. \A u \in Threads \ {t} : seen'[u] = seen[u]
      BY <2>1 DEF Poll, TypeOK
    <3> QED BY <3>1, <3>2, <3>3, <3>4 DEF SeenIsRequest
  <2>2. CASE ~Poll(t)
    BY <1>0, <2>2 DEF SeenIsRequest, TypeOK, Token, BeginLoad, BeginNull, Self, End
  <2> QED BY <2>1, <2>2
<1>5. HeldIsAged' /\ \A c \in Cancellers : stage'[c] # "storing"
  <2>1. \A u \in Threads : allocated[u] => allocated'[u]
    BY DEF TypeOK, Token, BeginLoad, BeginNull, Self, Poll, End
  <2> QED BY <1>0, <2>1 DEF HeldIsAged, Fresh, cancellerVars
<1> QED BY <1>0, <1>1, <1>2, <1>3, <1>4, <1>5

\* A new generation goes live.
LEMMA BeginStoreStep ==
    ASSUME CancelInv, NEW t \in Threads, BeginStore(t)
    PROVE  CancelInv'
<1> USE DEF CancelInv, BeginStore
<1>1. TypeOK'
  BY TypeNext DEF Next, Thread
<1>2. /\ slot[t] \in SlotValues
      /\ slot'[t] = FreshGeneration(slot[t])
      /\ slot'[t] % 2 = 0
      /\ \A u \in Threads \ {t} : slot'[u] = slot[u]
  BY FreshFacts DEF TypeOK, GenerationInSlot
<1>3. GenerationInSlot'
  <2>1. allocated'[t]
    BY DEF GenerationInSlot, TypeOK
  <2> QED BY <1>2, <2>1 DEF GenerationInSlot, TypeOK, Even
<1>4. BitIsRequest'
  BY <1>2 DEF BitIsRequest, TypeOK
<1>5. SeenIsRequest'
  BY DEF SeenIsRequest, TypeOK
<1>6. HeldIsAged'
  <2> SUFFICES ASSUME NEW c \in Cancellers, stage[c] # "idle"
               PROVE  /\ token[c] \in Threads
                      /\ target[c] <= op'[token[c]]
                      /\ op'[token[c]] - target[c] <= MaxAge
                            => Even(slot'[token[c]]) = After(loaded[c], op'[token[c]] - target[c])
                      /\ target[c] = op'[token[c]] => loaded[c] <= slot'[token[c]]
    BY DEF HeldIsAged, Fresh, cancellerVars
  <2>1. CASE token[c] # t
    BY <1>2, <2>1 DEF HeldIsAged, Fresh, TypeOK
  <2>2. CASE token[c] = t
    <3>1. op'[t] = op[t] + 1 /\ target[c] <= op[t] /\ op[t] \in Nat /\ target[c] \in Nat
      BY <2>2 DEF HeldIsAged, TypeOK
    <3>2. ASSUME op'[t] - target[c] <= MaxAge
          PROVE  Even(slot'[t]) = After(loaded[c], op'[t] - target[c])
      <4> DEFINE d == op[t] - target[c]
      <4>1. d \in Nat /\ 2 * (d + 1) < Modulus /\ op'[t] - target[c] = d + 1
        BY <3>1, <3>2
      <4>2. Even(slot[t]) = After(loaded[c], d)
        BY <2>2, <3>1, <3>2 DEF HeldIsAged, Fresh
      <4>3. loaded[c] \in SlotValues
        BY DEF TypeOK
      <4> HIDE DEF d
      <4> QED BY <1>2, <4>1, <4>2, <4>3, AfterStep
    <3> QED BY <2>2, <3>1, <3>2
  <2> QED BY <2>1, <2>2
<1> QED BY <1>1, <1>3, <1>4, <1>5, <1>6 DEF cancellerVars

\* openblas_cancel with the atomic compare-exchange.
LEMMA CancelStep ==
    ASSUME CancelInv, NEW c \in Cancellers, Cancel(c)
    PROVE  CancelInv'
<1> USE DEF CancelInv, Cancel, Request
<1> DEFINE t == token[c]
<1>1. TypeOK'
  BY TypeNext DEF Next, Canceller
<1>2. t \in Threads /\ slot[t] \in SlotValues /\ loaded[c] \in SlotValues
  BY DEF HeldIsAged, TypeOK
<1>3. slot[t] = loaded[c] => target[c] = op[t]
  <2> DEFINE d == op[t] - target[c]
  <2>1. d \in Nat /\ 2 * d < Modulus /\ Even(slot[t]) = After(loaded[c], d)
    BY <1>2 DEF HeldIsAged, Fresh, TypeOK
  <2> SUFFICES ASSUME slot[t] = loaded[c] PROVE d = 0
    BY <1>2 DEF TypeOK
  <2> HIDE DEF d
  <2> QED BY <1>2, <2>1, AfterInjective
<1>4. target[c] = op[t] => Even(slot[t]) = Even(loaded[c]) /\ loaded[c] <= slot[t]
  BY <1>2 DEF HeldIsAged, Fresh, TypeOK, After, Even, SlotValues
<1>5. /\ slot'[t] \in SlotValues
      /\ Even(slot'[t]) = Even(slot[t])
      /\ slot'[t] >= slot[t]
      /\ slot[t] = loaded[c] => slot'[t] % 2 = 1
      /\ slot[t] # loaded[c] => slot'[t] = slot[t]
      /\ \A u \in Threads \ {t} : slot'[u] = slot[u]
  BY <1>1, <1>2, SetBitFacts DEF TypeOK, SlotValues
<1>6. GenerationInSlot'
  <2>1. \A v, w \in SlotValues : Even(v) = Even(w) => FreshGeneration(v) = FreshGeneration(w)
    BY DEF Even, FreshGeneration, SlotValues
  <2>2. allocated[t] /\ UNCHANGED <<allocated, pc, gen>>
    BY DEF HeldIsAged
  <2> QED BY <1>2, <1>5, <2>1, <2>2 DEF GenerationInSlot, TypeOK
<1>7. asked'[t] <=> asked[t] \/ target[c] = op[t]
  BY <1>2 DEF TypeOK
<1>8. BitIsRequest'
  <2>1. asked'[t] <=> slot'[t] % 2 = 1
    BY <1>2, <1>3, <1>4, <1>5, <1>7 DEF BitIsRequest, Even, SlotValues
  <2>2. \A u \in Threads \ {t} : asked'[u] = asked[u]
    BY <1>2 DEF TypeOK
  <2> QED BY <1>5, <2>1, <2>2 DEF BitIsRequest
<1>9. SeenIsRequest'
  BY <1>2, <1>7 DEF SeenIsRequest, TypeOK
<1>10. HeldIsAged' /\ \A e \in Cancellers : stage'[e] # "storing"
  <2>1. \A u \in Threads : Even(slot'[u]) = Even(slot[u]) /\ slot'[u] >= slot[u]
    BY <1>5 DEF TypeOK, SlotValues
  <2>2. stage'[c] = "idle" /\ UNCHANGED <<allocated, op>>
    BY DEF Release, TypeOK
  <2>3. ASSUME NEW e \in Cancellers \ {c}
        PROVE  /\ stage'[e] = stage[e] /\ token'[e] = token[e]
               /\ loaded'[e] = loaded[e] /\ target'[e] = target[e]
    BY DEF Release, TypeOK
  <2>4. ASSUME NEW e \in Cancellers \ {c}, stage[e] # "idle"
        PROVE  loaded[e] \in SlotValues /\ token[e] \in Threads /\ slot[token[e]] \in SlotValues
               /\ slot'[token[e]] \in SlotValues
    BY <1>1, <2>4 DEF HeldIsAged, TypeOK
  <2>5. HeldIsAged'
    BY <2>1, <2>2, <2>3, <2>4 DEF HeldIsAged, Fresh, SlotValues
  <2> QED BY <2>2, <2>3, <2>5
<1> QED BY <1>1, <1>6, <1>8, <1>9, <1>10

\* Loading a slot and forgetting what was loaded.
LEMMA HoldStep ==
    ASSUME CancelInv, NEW c \in Cancellers, (\E t \in Threads : Load(c, t)) \/ Drop(c)
    PROVE  CancelInv'
<1> USE DEF CancelInv
<1>0. UNCHANGED <<atomicCAS, threadVars, asked>>
  BY DEF Load, Drop
<1>1. TypeOK'
  BY TypeNext DEF Next, Canceller
<1>2. GenerationInSlot' /\ BitIsRequest' /\ SeenIsRequest'
  BY <1>0 DEF GenerationInSlot, BitIsRequest, SeenIsRequest, threadVars
<1>3. HeldIsAged' /\ \A e \in Cancellers : stage'[e] # "storing"
  <2>1. ASSUME NEW t \in Threads, Load(c, t)
        PROVE  HeldIsAged' /\ \A e \in Cancellers : stage'[e] # "storing"
    <3>1. Even(slot[t]) = After(slot[t], 0)
      BY DEF TypeOK, After, Even, SlotValues
    <3> QED BY <1>0, <2>1, <3>1 DEF Load, HeldIsAged, Fresh, TypeOK, SlotValues, threadVars
  <2>2. CASE Drop(c)
    BY <1>0, <2>2 DEF Drop, Release, HeldIsAged, Fresh, TypeOK, threadVars
  <2> QED BY <2>1, <2>2
<1> QED BY <1>0, <1>1, <1>2, <1>3

LEMMA CancelInvNext ==
    ASSUME CancelInv, [Next]_vars
    PROVE  CancelInv'
<1>1. ASSUME NEW t \in Threads, Thread(t)
      PROVE  CancelInv'
  BY <1>1, QuietStep, BeginStoreStep DEF Thread
<1>2. ASSUME NEW c \in Cancellers, Canceller(c)
      PROVE  CancelInv'
  <2>1. ~CancelCheck(c) /\ ~CancelStore(c)
    BY DEF CancelCheck, CancelStore, CancelInv
  <2> QED BY <1>2, <2>1, CancelStep, HoldStep DEF Canceller
<1>3. CASE UNCHANGED vars
  BY <1>3 DEF vars, threadVars, cancellerVars, CancelInv, TypeOK, GenerationInSlot,
              BitIsRequest, SeenIsRequest, HeldIsAged, Fresh
<1> QED BY <1>1, <1>2, <1>3 DEF Next

LEMMA CancelInvImplies == CancelInv => NoStrayCancel /\ RequestHonoured
BY DEF CancelInv, NoStrayCancel, RequestHonoured, SeenIsRequest, BitIsRequest,
       GenerationInSlot, Live, Superseded, Even, TypeOK, SlotValues

\* A build stays what it is.
LEMMA BuildKept == TypeOK /\ [Next]_vars => atomicCAS' = atomicCAS
BY DEF Next, vars, Thread, Token, BeginLoad, BeginStore, BeginNull, Self, Poll, End,
       Canceller, Load, Cancel, CancelCheck, CancelStore, Drop

LEMMA CancelInvAlways == Spec => [](atomicCAS => CancelInv)
<1> DEFINE Inv == TypeOK /\ (atomicCAS => CancelInv)
<1>1. Init => Inv
  BY TypeInit, CancelInvInit
<1>2. Inv /\ [Next]_vars => Inv'
  BY TypeNext, BuildKept, CancelInvNext
<1>3. Inv => (atomicCAS => CancelInv)
  OBVIOUS
<1> QED BY <1>1, <1>2, <1>3, PTL DEF Spec

\* openblas_cancel with the GNU atomics: a request never reaches an operation
\* other than the one in flight when its token value was loaded.
THEOREM NoStrayCancelCorrect == Spec => []NoStrayCancelAtomic
<1>1. (atomicCAS => CancelInv) => NoStrayCancelAtomic
  BY CancelInvImplies DEF NoStrayCancelAtomic
<1> QED BY <1>1, CancelInvAlways, PTL

\* ... and it always reaches that one, if it still runs.
THEOREM RequestHonouredCorrect == Spec => []RequestHonoured
<1>1. (atomicCAS => CancelInv) => RequestHonoured
  BY CancelInvImplies DEF RequestHonoured
<1> QED BY <1>1, CancelInvAlways, PTL
=============================================================================
