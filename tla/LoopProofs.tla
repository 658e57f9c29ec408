----------------------------- MODULE LoopProofs -----------------------------
(***************************************************************************)
(* Proofs about the two loops that other modules take as one step: the     *)
(* rounds of HealthCheck, for any number of packet sizes and any           *)
(* threshold, and the address search of AllocLoop, for every pool, usage   *)
(* and set of claims.                                                      *)
(***************************************************************************)
EXTENDS AllocLoop, HealthCheck, WellFoundedInduction, TLAPS

(* Most leaves are first-order: each is tried with Zenon before SMT.       *)
USE ZenonT(4), SMTT(20), ZenonT(20), SMTT(40)

(* How the loop's counter follows the trail of failed rounds: it is the    *)
(* trail, starts again at the threshold, and again at twice that.          *)
Counted(n) ==
    IF trail < n THEN failures = trail
    ELSE IF trail < 2 * n THEN failures = trail - n
    ELSE failures = 0

(* The strengthening of TypeOK and ActsOnThreshold that a step preserves.  *)
Inv ==
    /\ TypeOK
    /\ pc = "pause" => i < cfg.sizes
    /\ pc # "returned" => Counted(cfg.failures)
    /\ pc \in {"loop", "select", "returned"} =>
          (acted <=> trail \in {cfg.failures, 2 * cfg.failures})

(* The numbers of a configuration.                                         *)
LEMMA ConfigNumbers ==
    ASSUME TypeOK
    PROVE  /\ cfg.sizes \in Nat \ {0} /\ cfg.failures \in Nat \ {0}
           /\ i \in Nat /\ failures \in Nat /\ trail \in Nat
<1>1. cfg.sizes \in 1..MaxSizes /\ cfg.failures \in 1..MaxThreshold
  BY DEF TypeOK, Configs
<1> QED BY <1>1, HealthAssumption DEF TypeOK

(* A failed round: the trail grows by one, and the counter reaches the     *)
(* threshold exactly where the trail completes it.                         *)
LEMMA FailedRound ==
    ASSUME Inv, pc # "returned"
    PROVE  /\ Longer \in 1..(2 * cfg.failures)
           /\ failures + 1 <= cfg.failures
           /\ failures + 1 = cfg.failures <=> Longer \in {cfg.failures, 2 * cfg.failures}
           /\ failures + 1 < cfg.failures =>
                 failures + 1 = IF Longer < cfg.failures THEN Longer ELSE Longer - cfg.failures
<1>1. cfg.failures \in Nat \ {0} /\ failures \in Nat /\ trail \in Nat /\ trail <= 2 * cfg.failures
  BY ConfigNumbers DEF Inv, TypeOK
<1>2. CASE trail < cfg.failures
  <2>1. failures = trail
    BY <1>2 DEF Inv, Counted
  <2>2. Longer = trail + 1
    BY <1>1, <1>2 DEF Longer
  <2> QED BY <1>1, <1>2, <2>1, <2>2
<1>3. CASE ~(trail < cfg.failures) /\ trail < 2 * cfg.failures
  <2>1. failures = trail - cfg.failures
    BY <1>3 DEF Inv, Counted
  <2>2. Longer = trail + 1
    BY <1>1, <1>3 DEF Longer
  <2> QED BY <1>1, <1>3, <2>1, <2>2
<1>4. CASE trail = 2 * cfg.failures
  <2>1. failures = 0
    BY <1>1, <1>4 DEF Inv, Counted
  <2>2. Longer = 1
    BY <1>4 DEF Longer
  <2> QED BY <1>1, <1>4, <2>1, <2>2
<1> QED BY <1>1, <1>2, <1>3, <1>4

(* Every step keeps the invariant.                                         *)
LEMMA InvStep == Inv /\ [Next]_vars => Inv'
<1> SUFFICES ASSUME Inv, [Next]_vars PROVE Inv'
  OBVIOUS
<1> USE HealthAssumption DEF Inv
<1>0. /\ cfg.sizes \in Nat \ {0} /\ cfg.failures \in Nat \ {0}
      /\ i \in Nat /\ failures \in Nat /\ trail \in Nat
  BY ConfigNumbers
<1>1. CASE Returned \/ UNCHANGED vars
  BY <1>1 DEF Returned, vars, TypeOK, Counted
<1>2. CASE Cancel
  BY <1>2 DEF Cancel, TypeOK, Counted
<1>3. CASE Disabled \/ BadTarget \/ Done
  BY <1>3 DEF Disabled, BadTarget, Done, Return, TypeOK
<1>4. CASE StartRound
  <2>1. i' \in 1..cfg.sizes
    BY <1>0, <1>4 DEF StartRound
  <2> QED BY <1>4, <2>1 DEF StartRound, TypeOK, Counted
<1>5. CASE pingOK
  <2>1. i' \in 1..cfg.sizes /\ (pc' = "pause" => i' < cfg.sizes)
    BY <1>0, <1>5 DEF pingOK, TypeOK
  <2>2. pc' \in {"ok", "pause", "ping"}
        /\ UNCHANGED <<cfg, failures, result, cancelled, trail, acted>> /\ pc = "ping"
    BY <1>5 DEF pingOK
  <2> QED BY <2>1, <2>2 DEF TypeOK, Counted
<1>6. CASE pingFails
  BY <1>6 DEF pingFails, TypeOK, Counted
<1>7. CASE waitBetweenProbes
  <2>1. i' \in 1..cfg.sizes
    BY <1>0, <1>7 DEF waitBetweenProbes, TypeOK
  <2>2. pc' \in {"bad", "ping"}
        /\ UNCHANGED <<cfg, failures, result, cancelled, trail, acted>> /\ pc = "pause"
    BY <1>7 DEF waitBetweenProbes
  <2> QED BY <2>1, <2>2 DEF TypeOK, Counted
<1>8. CASE RoundOK
  <2>1. /\ failures' = 0 /\ trail' = 0 /\ acted' = FALSE /\ pc' = "select"
        /\ UNCHANGED <<cfg, i, result, cancelled>>
    BY <1>8 DEF RoundOK
  <2>2. /\ failures' \in 0..cfg.failures /\ trail' \in 0..(2 * cfg.failures)
        /\ trail' \notin {cfg.failures, 2 * cfg.failures} /\ trail' < cfg.failures
    BY <1>0, <2>1
  <2>3. Counted(cfg.failures)'
    BY <2>1, <2>2 DEF Counted
  <2> QED BY <2>1, <2>2, <2>3 DEF TypeOK
<1>9. CASE RoundBad
  <2>1. /\ pc = "bad" /\ trail' = Longer /\ UNCHANGED <<cfg, i, cancelled>>
    BY <1>9 DEF RoundBad
  <2>2. /\ Longer \in 1..(2 * cfg.failures)
        /\ failures + 1 <= cfg.failures
        /\ failures + 1 = cfg.failures <=> Longer \in {cfg.failures, 2 * cfg.failures}
        /\ failures + 1 < cfg.failures =>
              failures + 1 = IF Longer < cfg.failures THEN Longer ELSE Longer - cfg.failures
    BY <2>1, FailedRound
  <2>3. trail' \in 0..(2 * cfg.failures)
    BY <1>0, <2>1, <2>2
  <2>4. CASE failures + 1 < cfg.failures
    <3>1. failures' = failures + 1 /\ pc' = "select" /\ acted' = FALSE /\ result' = result
      BY <1>0, <1>9, <2>4 DEF RoundBad
    <3>2. failures' \in 0..cfg.failures /\ Longer \notin {cfg.failures, 2 * cfg.failures}
      BY <1>0, <2>2, <2>4, <3>1
    <3>3. Longer < 2 * cfg.failures
      BY <1>0, <2>2, <3>2
    <3>4. Counted(cfg.failures)'
      BY <1>0, <2>1, <2>2, <2>4, <3>1, <3>3 DEF Counted
    <3> QED BY <2>1, <2>3, <3>1, <3>2, <3>4 DEF TypeOK
  <2>5. CASE failures + 1 >= cfg.failures
    <3>1. Longer \in {cfg.failures, 2 * cfg.failures}
      BY <1>0, <2>2, <2>5
    <3>2. /\ acted' = TRUE
          /\ \/ failures' = failures + 1 /\ pc' = "returned" /\ result' = "error"
             \/ failures' = 0 /\ pc' = "select" /\ result' = result
      BY <1>0, <1>9, <2>5 DEF RoundBad, Return
    <3>3. failures' \in 0..cfg.failures
      BY <1>0, <2>2, <3>2
    <3>4. pc' = "select" => Counted(cfg.failures)'
      BY <1>0, <2>1, <3>1, <3>2 DEF Counted
    <3> QED BY <2>1, <2>3, <3>1, <3>2, <3>3, <3>4 DEF TypeOK
  <2> QED BY <1>0, <2>4, <2>5
<1>10. CASE Tick
  BY <1>10 DEF Tick, TypeOK, Counted
<1> QED
  BY <1>1, <1>2, <1>3, <1>4, <1>5, <1>6, <1>7, <1>8, <1>9, <1>10 DEF Next, Step

(* The invariant holds from the start.                                     *)
LEMMA InvInit == Init => Inv
<1> SUFFICES ASSUME Init PROVE Inv
  OBVIOUS
<1>1. cfg.sizes \in 1..MaxSizes /\ cfg.failures \in 1..MaxThreshold /\ cfg \in Configs
  BY DEF Init, Configs
<1>2. cfg.sizes \in Nat \ {0} /\ cfg.failures \in Nat \ {0}
  BY <1>1, HealthAssumption
<1>3. /\ i \in 1..cfg.sizes /\ failures \in 0..cfg.failures /\ trail \in 0..(2 * cfg.failures)
      /\ trail \notin {cfg.failures, 2 * cfg.failures} /\ trail < cfg.failures
  BY <1>2 DEF Init
<1> QED BY <1>1, <1>3 DEF Init, Inv, TypeOK, Counted

(* The counter of healthcheck.Loop and the index of its packet sizes stay  *)
(* in range.                                                               *)
THEOREM HealthTypeCorrect == Spec => []TypeOK
<1>1. Inv => TypeOK
  BY DEF Inv
<1> QED BY <1>1, InvInit, InvStep, PTL DEF Spec

(* For every threshold the failure actions run in exactly the rounds that  *)
(* complete a multiple of it.                                              *)
THEOREM ActsExactlyAtThreshold == Spec => []ActsOnThreshold
<1>1. Inv => ActsOnThreshold
  BY DEF Inv, ActsOnThreshold, Judged
<1> QED BY <1>1, InvInit, InvStep, PTL DEF Spec

(* Loop returns only when cancelled, after failure actions that reconnect, *)
(* or without a target.                                                    *)
THEOREM ReturnsOnlyForCause == Spec => []EndsForCause
<1>1. Init => EndsForCause
  BY DEF Init, EndsForCause
<1>2. EndsForCause /\ [Next]_vars => EndsForCause'
  <2> SUFFICES ASSUME EndsForCause, [Next]_vars PROVE EndsForCause'
    OBVIOUS
  <2> USE DEF EndsForCause, reconnect
  <2>1. CASE Cancel \/ Returned \/ UNCHANGED vars
    BY <2>1 DEF Cancel, Returned, vars
  <2>2. CASE Disabled \/ BadTarget \/ Done
    BY <2>2 DEF Disabled, BadTarget, Done, Return
  <2>3. CASE StartRound \/ pingOK \/ pingFails \/ waitBetweenProbes
    BY <2>3 DEF StartRound, pingOK, pingFails, waitBetweenProbes
  <2>4. CASE RoundOK \/ Tick
    BY <2>4 DEF RoundOK, Tick
  <2>5. CASE RoundBad
    BY <2>5 DEF RoundBad, Return
  <2> QED BY <2>1, <2>2, <2>3, <2>4, <2>5 DEF Next, Step
<1> QED BY <1>1, <1>2, PTL DEF Spec

-----------------------------------------------------------------------------
(* Pool.Allocate fails only when no address is free.                       *)
LEMMA AllocateEmpty ==
    ASSUME NEW P, NEW U, Allocate(P, U) = {}
    PROVE  Prefix \ ({NetworkAddr} \cup Reserved \cup P \cup U) = {}
<1> DEFINE free == Prefix \ ({NetworkAddr} \cup Reserved \cup P \cup U)
<1> SUFFICES ASSUME free # {} PROVE FALSE
  OBVIOUS
<1> DEFINE R == OpToRel(<, Nat)
<1>1. free \subseteq Nat
  BY PoolAssumption
<1>2. IsWellFoundedOn(R, Nat)
  BY NatLessThanWellFounded
<1>3. \A a, b \in Nat : b < a => <<b, a>> \in R
  BY DEF OpToRel
<1> HIDE DEF R, free
<1>4. PICK a \in free : \A b \in free : ~ (<<b, a>> \in R)
  BY <1>1, <1>2, WFMin
<1>5. \A b \in free : a <= b
  <2> SUFFICES ASSUME NEW b \in free PROVE a <= b
    OBVIOUS
  <2>1. a \in Nat /\ b \in Nat
    BY <1>1
  <2>2. ~(b < a)
    BY <1>3, <1>4, <2>1
  <2> QED BY <2>1, <2>2
<1> QED BY <1>5 DEF Allocate, free

(* Between rounds the pool holds what it held at the call and the skipped  *)
(* addresses, which were free then and are claimed.                        *)
LoopInv == /\ skipped \subseteq claimed /\ skipped \cap start = {}
           /\ status = "loop" => used = start \cup skipped

LEMMA FoundStep ==
    ASSUME LoopTypeOK, LoopInv, Found
    PROVE  LoopTypeOK' /\ LoopInv' /\ LoopReturnsLowestUnclaimed'
<1>1. PICK a \in Allocate(Pinned, used) \ claimed :
         addr' = a /\ used' = (used \cup {a}) \ skipped
  BY DEF Found, PutBack
<1>2. used = start \cup skipped /\ UNCHANGED <<skipped, start, claimed>> /\ status' = "ok"
  BY DEF Found, LoopInv
<1>3. a \in Prefix /\ a \notin skipped
  BY <1>1 DEF Allocate, LoopInv
<1>4. LoopTypeOK' /\ LoopInv'
  BY <1>1, <1>2, <1>3 DEF LoopTypeOK, LoopInv
<1>5. Allocate(Pinned, start \cup claimed) = {a}
  <2>1. a \in Allocate(Pinned, start \cup claimed)
    <3>1. a \notin start \cup claimed
      BY <1>1, <1>2 DEF Allocate
    <3>2. \A b : b \notin start \cup claimed => b \notin used
      BY <1>2 DEF LoopInv
    <3> QED BY <1>1, <3>1, <3>2 DEF Allocate
  <2>2. \A b \in Allocate(Pinned, start \cup claimed) : b = a
    <3> SUFFICES ASSUME NEW b \in Allocate(Pinned, start \cup claimed) PROVE b = a
      OBVIOUS
    <3>1. a \in Nat /\ b \in Nat
      BY <1>3, PoolAssumption DEF Allocate
    <3>2. a <= b /\ b <= a
      BY <2>1 DEF Allocate
    <3> QED BY <3>1, <3>2
  <2> QED BY <2>1, <2>2
<1>6. used' = start \cup {a}
  BY <1>1, <1>2, <1>3 DEF LoopInv
<1> QED BY <1>1, <1>2, <1>4, <1>5, <1>6 DEF LoopReturnsLowestUnclaimed

LEMMA ExhaustedStep ==
    ASSUME LoopTypeOK, LoopInv, Exhausted
    PROVE  LoopTypeOK' /\ LoopInv' /\ LoopReturnsLowestUnclaimed'
<1>1. /\ Allocate(Pinned, used) = {} /\ used' = used \ skipped /\ status' = "exhausted"
      /\ used = start \cup skipped /\ UNCHANGED <<addr, skipped, start, claimed>>
  BY DEF Exhausted, PutBack, LoopInv
<1>2. LoopTypeOK' /\ LoopInv' /\ used' = start
  BY <1>1 DEF LoopTypeOK, LoopInv
<1>3. Prefix \ ({NetworkAddr} \cup Reserved \cup Pinned \cup used) = {}
  BY <1>1, AllocateEmpty
<1>4. Allocate(Pinned, start \cup claimed) = {}
  BY <1>1, <1>3 DEF Allocate, LoopInv
<1> QED BY <1>1, <1>2, <1>4 DEF LoopReturnsLowestUnclaimed

(* allocInnerLocked's loop returns Allocate of the unclaimed addresses and *)
(* leaves the pool with that one address more, for any pool, any addresses *)
(* in use and any claims.                                                  *)
THEOREM LoopCorrect == LoopSpec => []LoopReturnsLowestUnclaimed
<1> DEFINE I == LoopTypeOK /\ LoopInv /\ LoopReturnsLowestUnclaimed
<1>1. LoopInit => I
  BY DEF LoopInit, LoopTypeOK, LoopInv, LoopReturnsLowestUnclaimed
<1>2. I /\ [LoopNext]_loopVars => I'
  <2> SUFFICES ASSUME I, [LoopNext]_loopVars PROVE I'
    OBVIOUS
  <2>1. CASE Skip
    BY <2>1 DEF Skip, Allocate, LoopTypeOK, LoopInv, LoopReturnsLowestUnclaimed
  <2>2. CASE UNCHANGED loopVars
    BY <2>2 DEF loopVars, LoopTypeOK, LoopInv, LoopReturnsLowestUnclaimed
  <2> QED BY <2>1, <2>2, FoundStep, ExhaustedStep DEF LoopNext
<1> QED BY <1>1, <1>2, PTL DEF LoopSpec

=============================================================================
