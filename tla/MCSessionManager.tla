------------------------- MODULE MCSessionManager -------------------------
(* Small instances of SessionManager.  Address 1 is the network address, 2 *)
(* the server's; NoAddr (0) in a request means no preference.              *)
EXTENDS SessionManager, TLC

CONSTANTS alice, bob, carol

MCPrefix    == 1..4
MCReserved  == {2}
NoStatics   == [x \in Clients |-> NoAddr]
AliceStatic == [x \in Clients |-> IF x = alice THEN 3 ELSE NoAddr]
NoPins      == [x \in Clients |-> NoName]
Symmetry    == Permutations(Conns) \cup Permutations(Keys) \cup Permutations({bob, carol})
===========================================================================
