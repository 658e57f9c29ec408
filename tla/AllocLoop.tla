------------------------------ MODULE AllocLoop ------------------------------
(***************************************************************************)
(* The last resort of allocInnerLocked (internal/session/manager.go): take *)
(* addresses from the pool until one is free of other clients' claims,     *)
(* holding on to the claimed ones meanwhile so that Pool.Allocate moves    *)
(* on, and give those back before returning.  SessionManager's allocInner  *)
(* takes the outcome as one step; this module shows that it may.           *)
(***************************************************************************)
EXTENDS IPPool

CONSTANT Pinned         \* the static leases the pool was told to skip

VARIABLES status,       \* "loop", "ok" or "exhausted"
          addr,         \* the address returned
          used,         \* the pool's used set
          skipped,      \* addresses taken and found claimed
          start,        \* used at the call
          claimed       \* what leaseAvailableToLocked refuses this client

loopVars == <<status, addr, used, skipped, start, claimed>>

LoopTypeOK == /\ status \in {"loop", "ok", "exhausted"}
              /\ addr \in Prefix \cup {NoAddr}
              /\ used \subseteq Prefix /\ skipped \subseteq Prefix
              /\ start \subseteq Prefix /\ claimed \subseteq Prefix

LoopInit == /\ start \in SUBSET Prefix /\ claimed \in SUBSET Prefix
            /\ used = start /\ skipped = {}
            /\ status = "loop" /\ addr = NoAddr

PutBack_(U) == U

(* Release of every skipped address.                                       *)
PutBack(U) == U \ skipped

Exhausted ==
    /\ status = "loop" /\ Allocate(Pinned, used) = {}
    /\ status' = "exhausted" /\ used' = PutBack(used)
    /\ UNCHANGED <<addr, skipped, start, claimed>>

Skip_ ==
    /\ status = "loop"
    /\ \E a \in Allocate(Pinned, used) \cap claimed : skipped' = skipped \cup {a}
    /\ UNCHANGED <<status, addr, used, start, claimed>>

Skip ==
    /\ status = "loop"
    /\ \E a \in Allocate(Pinned, used) \cap claimed :
          used' = used \cup {a} /\ skipped' = skipped \cup {a}
    /\ UNCHANGED <<status, addr, start, claimed>>

Found ==
    /\ status = "loop"
    /\ \E a \in Allocate(Pinned, used) \ claimed :
          addr' = a /\ used' = PutBack(used \cup {a})
    /\ status' = "ok"
    /\ UNCHANGED <<skipped, start, claimed>>

LoopNext == Exhausted \/ Skip \/ Found

LoopSpec == LoopInit /\ [][LoopNext]_loopVars
LoopFairSpec == LoopSpec /\ WF_loopVars(LoopNext)

-----------------------------------------------------------------------------
(* The loop returns the lowest address that is neither used nor claimed,   *)
(* or an error only if there is none, and either way the pool has gained   *)
(* the returned address and nothing else: no skipped address stays         *)
(* allocated, and none that was in use is released.                        *)
LoopReturnsLowestUnclaimed ==
    /\ status = "ok" => /\ Allocate(Pinned, start \cup claimed) = {addr}
                        /\ used = start \cup {addr}
    /\ status = "exhausted" => /\ Allocate(Pinned, start \cup claimed) = {}
                               /\ used = start

(* The loop ends, because every round takes an address out of the pool.    *)
LoopEnds == <>(status # "loop")

==============================================================================
