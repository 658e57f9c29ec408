------------------------- MODULE MCProvisionBroker -------------------------
(* A small instance of ProvisionBroker: the calls are interchangeable, and  *)
(* so is nothing else.  Calls on the pinned name overlap, as those of a     *)
(* reconnecting client do; calls on the generated name are made in turn.    *)
(* Of the two names the broker refuses one begins with "grem".              *)
EXTENDS ProvisionBroker, TLC

CONSTANTS c1, c2, c3, grem0, wg0, eth0, gremlin0

ThreeCalls == {c1, c2, c3}
GremNames == {grem0}
PinnedNames == {wg0}
OtherNames == {eth0, gremlin0}
PrefixedNames == {grem0, gremlin0}

CallSymmetry == Permutations(Calls)

============================================================================
