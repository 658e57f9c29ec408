------------------------------- MODULE IPPool -------------------------------
(***************************************************************************)
(* internal/ippool/pool.go: the inner addresses a server hands out.        *)
(* An address is a positive integer, so that Addr.Next is + 1 and the scan *)
(* order of Allocate is <=; the invalid netip.Addr is NoAddr.  A pool's    *)
(* state is the set used; every operation takes it as an argument, because *)
(* the session manager is its only user and calls it under its own mutex.  *)
(***************************************************************************)
EXTENDS Integers

CONSTANTS Prefix,       \* the addresses of the configured inner_pool
          NetworkAddr,  \* its lowest address, which Allocate never returns
          Reserved      \* the server's own inner address

NoAddr == 0

ASSUME PoolAssumption ==
    /\ Prefix \subseteq Nat \ {NoAddr}
    /\ NetworkAddr \in Prefix /\ \A a \in Prefix : NetworkAddr <= a
    /\ Reserved \subseteq Prefix

(* Pin succeeds for an address of the prefix that is not reserved.         *)
Pinnable(a) == a \in Prefix \ Reserved

(* Allocate returns the lowest address above the network address that is   *)
(* neither reserved, pinned nor used: a singleton, or {} for ErrExhausted. *)
Allocate(pinned, used) ==
    LET free == Prefix \ ({NetworkAddr} \cup Reserved \cup pinned \cup used)
    IN  {a \in free : \A b \in free : a <= b}

(* AllocateSpecific succeeds for an address in range and free; it may be   *)
(* pinned, and it may be the network address.                              *)
AllocateSpecificOK(a, used) == a \in Prefix \ (Reserved \cup used)

=============================================================================
