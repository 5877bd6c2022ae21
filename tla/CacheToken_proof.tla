-------------------------- MODULE CacheToken_proof --------------------------
(***************************************************************************)
(* Proofs about the lock token, for any number of caches and any lines, of *)
(* a token that carries one lock per other cache: Slots = N - 1, which is  *)
(* the shipped configuration (four caches; e0, e1 and e2).                 *)
(*                                                                         *)
(* The argument: the lock of a cache that may act on its line moves one    *)
(* slot further in the token with every cycle, and falls out of the last   *)
(* slot in the very cycle in which the token is back at its owner.  There  *)
(* the owner puts it in again, because no other cache could add a lock on  *)
(* the same line while this one was in the token (LocksDistinct).          *)
(***************************************************************************)
EXTENDS CacheToken, TLAPS

\* The token starts empty and nobody waits, so TokenInv holds at reset.
LEMMA InitInv ==
  ASSUME Slots = N - 1
  PROVE  Init => TokenInv
  BY TokenAssumption, SMT
  DEF Init, ResetHolder, TokenInv, TypeOK, HasLine, WaitLocked, EntitledClaims, LocksDistinct,
      Entitled, Node, Slot

\* How the place of a cache's lock in the token moves with the token.
LEMMA SlotMoves ==
  ASSUME Slots = N - 1, pos \in Node, NEW n \in Node, pos' = NextNode(pos)
  PROVE  /\ NextNode(pos) \in Node
         /\ n # NextNode(pos) => SlotOf(n) \in Slot /\ SlotOf(n)' = SlotOf(n) + 1
         /\ n = NextNode(pos) => SlotOf(n)' = 0 /\ n # NextNode(pos')
         /\ n = NextNode(pos') /\ n # NextNode(pos) => SlotOf(n) = Slots - 1
         /\ n # NextNode(pos') => SlotOf(n)' \in Slot
  BY TokenAssumption, SMT DEF NextNode, SlotOf, Node, Slot

-----------------------------------------------------------------------------
\* A cycle keeps TokenInv.  The choices of Tick are named first; `sending' and
\* `holder' are those of its LET.
LEMMA StepInv ==
  ASSUME Slots = N - 1, TokenInv, [Tick]_vars
  PROVE  /\ TokenInv'
         /\ \A n \in Node : Claimed(n) /\ locked'[n] => Claimed(n)'
<1>1. CASE Tick
  <2>0. PICK entering \in SUBSET {n \in Node : MayEnter(n)},
             wanting \in SUBSET InCore, answered \in SUBSET {n \in Node : waitReply[n]} :
          \E finishing \in SUBSET (InCore \ wanting) :
          \E next \in [{n \in Node : line[n] = None} \cup finishing -> Line \cup {None}] :
            Cycle(entering, wanting, finishing, answered, next)
    BY <1>1 DEF Tick
  <2>1a. PICK finishing \in SUBSET (InCore \ wanting) :
          \E next \in [{n \in Node : line[n] = None} \cup finishing -> Line \cup {None}] :
            Cycle(entering, wanting, finishing, answered, next)
    BY <2>0
  <2>1b. PICK next \in [{n \in Node : line[n] = None} \cup finishing -> Line \cup {None}] :
            Cycle(entering, wanting, finishing, answered, next)
    BY <2>1a
  <2> DEFINE holder == NextNode(pos)
             sending == {n \in wanting : MaySend(n) \/ locked[n]}
             lock == Post(holder, holder \in sending, holder \in finishing)
  <2>1. /\ pos' = holder
        /\ token' = [k \in Slot |-> IF k = 0 THEN lock ELSE token[k - 1]]
        /\ line' = [n \in Node |-> IF n \in DOMAIN next THEN next[n] ELSE line[n]]
        /\ locked' = [n \in Node |-> n \notin finishing /\ (n \in wanting \/ locked[n])]
        /\ phase' = [n \in Node |-> IF n \in entering THEN "CORE" ELSE "ACCEPT"]
        /\ waitReply' = [n \in Node |-> n \in sending \/ (waitReply[n] /\ n \notin answered)]
    BY <2>1b DEF Cycle
  <2> HIDE DEF holder, sending, lock
  <2>2. pos \in Node /\ holder \in Node /\ pos' = holder
    BY <2>1, TokenAssumption, SMT DEF holder, TokenInv, TypeOK, Node, NextNode
  <2>3. /\ lock \in Line \cup {None}
        /\ lock # None => Free(holder) /\ lock = line[holder]
    BY <2>2 DEF lock, Post, TokenInv, TypeOK
  <2>4. /\ 0 \in Slot
        /\ token' \in [Slot -> Line \cup {None}]
        /\ token'[0] = lock
        /\ \A k \in Slot : k # 0 => k - 1 \in Slot /\ token'[k] = token[k - 1]
    <3>1. 0 \in Slot /\ \A k \in Slot : k # 0 => k - 1 \in Slot
      BY TokenAssumption, SMT DEF Slot
    <3> QED
      BY <2>1, <2>3, <3>1 DEF TokenInv, TypeOK
  <2>5. TypeOK'
    <3>1. line' \in [Node -> Line \cup {None}]
      <4>1. \A n \in Node : n \in DOMAIN next => next[n] \in Line \cup {None}
        BY <2>1
      <4> QED
        BY <2>1, <4>1 DEF TokenInv, TypeOK
    <3>2. locked' \in [Node -> BOOLEAN] /\ phase' \in [Node -> {"ACCEPT", "CORE"}]
      BY <2>1
    <3>3. waitReply' \in [Node -> BOOLEAN]
      BY <2>1
    <3> QED
      BY <2>2, <2>4, <3>1, <3>2, <3>3 DEF TypeOK
  <2>6. ASSUME NEW n \in Node, locked'[n] \/ phase'[n] = "CORE"
        PROVE  line'[n] = line[n] /\ line[n] # None
    <3>1. line[n] # None /\ n \notin finishing
      BY <2>1, <2>6, Zenon DEF TokenInv, HasLine, InCore, MayEnter
    <3> QED
      BY <2>1, <3>1
  <2>7. HasLine'
    BY <2>6 DEF HasLine
  <2>8. WaitLocked'
    <3> SUFFICES ASSUME NEW n \in Node, waitReply'[n]
                 PROVE  locked'[n] /\ phase'[n] = "ACCEPT"
      BY DEF WaitLocked
    <3>1. CASE n \in sending
      BY <2>1, <3>1 DEF sending, InCore, MayEnter
    <3>2. CASE waitReply[n]
      BY <2>1, <3>2 DEF TokenInv, WaitLocked, InCore, MayEnter
    <3> QED
      BY <2>1, <3>1, <3>2
  \* No two slots get the same lock: the new one is put in only if Free.
  <2>9. LocksDistinct'
    <3> SUFFICES ASSUME NEW j \in Slot, NEW k \in Slot, token'[j] = token'[k],
                        token'[j] # None, j # k
                 PROVE  FALSE
      BY DEF LocksDistinct
    <3>1. CASE j = 0
      BY <2>3, <2>4, <3>1 DEF Free
    <3>2. CASE k = 0
      BY <2>3, <2>4, <3>2 DEF Free
    <3>3. CASE j # 0 /\ k # 0
      <4>1. j - 1 = k - 1
        BY <2>4, <3>3 DEF TokenInv, LocksDistinct
      <4> QED
        BY <4>1, SMT DEF Slot
    <3> QED
      BY <3>1, <3>2, <3>3
  <2>10. ASSUME NEW n \in Node, locked'[n], Claimed(n) \/ Entitled(n)'
         PROVE  Claimed(n)'
    <3>1. locked'[n] /\ line'[n] = line[n] /\ line[n] # None
      BY <2>6, <2>10
    \* Away from the holder nobody becomes entitled.
    <3>2. n # holder => Claimed(n)
      <4>1. n # holder /\ Entitled(n)' => Entitled(n)
        BY <2>1, Zenon DEF holder, sending, Entitled, InCore, MayEnter, MaySend
      <4> QED
        BY <2>10, <4>1 DEF TokenInv, EntitledClaims
    <3>3. n = holder => token'[0] = line[n]
      <4> SUFFICES ASSUME n = holder
                   PROVE  token'[0] = line[n]
        OBVIOUS
      <4>1. Free(n)
        <5>1. CASE Claimed(n)
          BY <5>1 DEF holder, Claimed
        <5>2. CASE ~Claimed(n)
          <6>1. ~Entitled(n) /\ Entitled(n)'
            BY <5>2, <2>10 DEF TokenInv, EntitledClaims
          <6> QED
            BY <6>1, <2>1, Zenon DEF holder, sending, Entitled, InCore, MayEnter, MaySend
        <5> QED
          BY <5>1, <5>2
      <4>2. (n \in sending \/ locked[n]) /\ n \notin finishing
        <5>1. CASE Claimed(n)
          BY <2>1, <3>1, <5>1 DEF Claimed
        <5>2. CASE ~Claimed(n)
          <6>1. Entitled(n)'
            BY <5>2, <2>10
          <6> QED
            BY <2>1, <3>1, <6>1, Zenon DEF sending, Entitled, InCore, MayEnter, MaySend,
                                            TokenInv, WaitLocked
        <5> QED
          BY <5>1, <5>2
      <4> QED
        BY <2>4, <4>1, <4>2 DEF lock, Post
    <3>4. CASE n = holder
      <4>1. n # NextNode(pos') /\ SlotOf(n)' = 0
        BY <2>2, <3>4, SlotMoves DEF holder
      <4> QED
        BY <3>1, <3>3, <3>4, <4>1 DEF Claimed
    <3>5. CASE n # holder
      <4>1. SlotOf(n) \in Slot /\ token[SlotOf(n)] = line[n]
        BY <2>2, <3>2, <3>5, SlotMoves DEF holder, Claimed
      <4>2. CASE n = NextNode(pos')
        \* Its lock was in the last slot, and the others are different.
        <5>1. SlotOf(n) = Slots - 1
          BY <2>2, <3>5, <4>2, SlotMoves DEF holder
        <5>2. \A k \in Slot : k # 0 => k - 1 # SlotOf(n)
          BY <5>1, TokenAssumption, SMT DEF Slot
        <5>3. \A k \in Slot : token'[k] # line[n]
          BY <2>3, <2>4, <3>1, <4>1, <5>2 DEF Free, TokenInv, LocksDistinct
        <5> QED
          BY <3>1, <4>2, <5>3 DEF Claimed, Free
      <4>3. CASE n # NextNode(pos')
        <5>1. SlotOf(n)' \in Slot /\ SlotOf(n)' = SlotOf(n) + 1
          BY <2>2, <3>5, <4>3, SlotMoves DEF holder
        <5>2. SlotOf(n)' # 0 /\ SlotOf(n)' - 1 = SlotOf(n)
          BY <4>1, <5>1, SMT DEF Slot
        <5>3. token'[SlotOf(n)'] = line[n]
          BY <2>4, <4>1, <5>1, <5>2
        <5> QED
          BY <3>1, <4>3, <5>3 DEF Claimed
      <4> QED
        BY <4>2, <4>3
    <3> QED
      BY <3>4, <3>5
  <2>11. EntitledClaims'
    BY <2>8, <2>10 DEF EntitledClaims, Entitled, WaitLocked
  <2> QED
    BY <2>5, <2>7, <2>8, <2>9, <2>10, <2>11 DEF TokenInv
<1>2. CASE UNCHANGED vars
  BY <1>2 DEF vars, TokenInv, TypeOK, HasLine, WaitLocked, EntitledClaims, LocksDistinct,
              Entitled, Claimed, Free, SlotOf, NextNode
<1> QED
  BY <1>1, <1>2

\* Every cache's registers keep their types, and the strengthening of
\* MutualExclusion holds in every cycle.
THEOREM InvHolds == Slots = N - 1 => (Spec => []TokenInv)
<1> SUFFICES ASSUME Slots = N - 1
             PROVE  Spec => []TokenInv
  OBVIOUS
<1>1. Init => TokenInv
  BY InitInv
<1>2. TokenInv /\ [Tick]_vars => TokenInv'
  BY StepInv
<1> QED
  BY <1>1, <1>2, PTL DEF Spec

\* The type invariant.
THEOREM TypeCorrect == Slots = N - 1 => (Spec => []TypeOK)
<1> SUFFICES ASSUME Slots = N - 1
             PROVE  Spec => []TypeOK
  OBVIOUS
<1>1. TokenInv => TypeOK
  BY DEF TokenInv
<1> QED
  BY <1>1, InvHolds, PTL

\* Two caches that have claimed a line have claimed different lines: their
\* locks are in different slots of the token.
LEMMA ClaimsDiffer ==
  ASSUME Slots = N - 1, TokenInv, NEW n \in Node, NEW m \in Node, n # m,
         Claimed(n), Claimed(m)
  PROVE  line[n] # line[m]
<1>1. pos \in Node /\ line[n] # None /\ line[m] # None
  BY DEF TokenInv, TypeOK, HasLine, Claimed
<1>2. /\ n # NextNode(pos) => SlotOf(n) \in Slot
      /\ m # NextNode(pos) => SlotOf(m) \in Slot
      /\ SlotOf(n) # SlotOf(m)
  BY <1>1, TokenAssumption, SMT DEF NextNode, SlotOf, Node, Slot
<1> QED
  BY <1>1, <1>2 DEF Claimed, Free, TokenInv, LocksDistinct

\* No two caches have a request for the same line under way, for any number of
\* caches: may_send and the locks in the token keep them apart.
THEOREM Exclusion == Slots = N - 1 => (Spec => []MutualExclusion)
<1> SUFFICES ASSUME Slots = N - 1
             PROVE  Spec => []MutualExclusion
  OBVIOUS
<1>1. TokenInv => MutualExclusion
  BY ClaimsDiffer DEF MutualExclusion, TokenInv, EntitledClaims, Entitled
<1> QED
  BY <1>1, InvHolds, PTL

\* A cache that has claimed its line loses it in no step but the one in which
\* its core's request is done.
THEOREM ClaimIsKept == Slots = N - 1 => (Spec => ClaimKept)
<1> SUFFICES ASSUME Slots = N - 1
             PROVE  Spec => ClaimKept
  OBVIOUS
<1>1. TokenInv /\ [Tick]_vars
        => [\A n \in Node : Claimed(n) /\ locked'[n] => Claimed(n)']_vars
  BY StepInv
<1> QED
  BY <1>1, InvHolds, PTL DEF Spec, ClaimKept

=============================================================================
