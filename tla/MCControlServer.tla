-------------------------- MODULE MCControlServer --------------------------
(* Instances of ControlServer for TLC.                                     *)
EXTENDS ControlServer, TLC

CONSTANTS c1, c2, c3, near, far

\* Two connections from one source address and one from another.
ThreeConns == (c1 :> near) @@ (c2 :> near) @@ (c3 :> far)
TwoConns == (c1 :> near) @@ (c2 :> far)
============================================================================
