---------------------------- MODULE MCTunnelMTU ----------------------------
(* MTUs around every threshold of the negotiation: tiny, the two floors     *)
(* with and without the largest overhead, common links, 16 bits and one     *)
(* more.                                                                    *)
EXTENDS TunnelMTU

Underlays == {1, 68, 600, 624, 1280, 1332, 1333, 9000, 65535, 65536}
SomeCaps == {0, 400, 1000, 1300, 70000}

============================================================================
