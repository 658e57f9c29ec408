----------------------------- MODULE MCMssClamp -----------------------------
(* Small instances of MssClamp: a session beside a settled one with rules   *)
(* in one direction, and a session alone with rules in both, in a table of  *)
(* the daemon's or of the administrator's.                                  *)
EXTENDS MssClamp

CONSTANTS s1, s2

BesideAnother == [directions |-> <<"out">>, manage |-> TRUE, settled |-> {s2}, fresh |-> {s1},
                  installed |-> <<marker(s2, "out", "v4"), marker(s2, "out", "v6")>>,
                  maxReloads |-> 1]
Alone(manage) == [directions |-> <<"out", "in">>, manage |-> manage, settled |-> {}, fresh |-> {s1},
                  installed |-> <<>>, maxReloads |-> IF manage THEN 1 ELSE 2]
SmallSetups == {BesideAnother, Alone(TRUE), Alone(FALSE)}
=============================================================================
