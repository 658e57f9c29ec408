-------------------------- MODULE MCServerSystem --------------------------
(* A small instance of ServerSystem: address 1 is the network address, 2   *)
(* the server's, 3 the only one to hand out.  The configurations on which  *)
(* ValidateServer is checked give up to two of three client IDs any names  *)
(* and any addresses in and around a pool.                                 *)
EXTENDS ServerSystem, ServerConfig, TLC

CONSTANTS c1, c2, k1, k2, alice, bob, tun0, near, far

TwoConns    == (c1 :> near) @@ (c2 :> far)
TinyPrefix  == 1..3
MCReserved  == {2}
NoStatics   == [x \in Clients |-> 0]
AlicePin    == [x \in Clients |-> IF x = alice THEN tun0 ELSE NoName]

Names == {"grem", ""} \X (UNION {[1..n -> Chars] : n \in 0..2}
                           \cup {[i \in 1..n |-> "q"] : n \in 3..7})
ShortNames == {name \in Names : Len(name[2]) <= 1}
Addrs == {<<4, n>> : n \in 0..4} \cup {<<6, 2>>}
Ids   == {"a", "b", ""}
ForOne(range) == UNION {[{id} -> range] : id \in Ids}
ForTwo(range) == UNION {[Ids \ {id} -> range] : id \in Ids}

Configs == [greLocal : {Unset, <<4, 9>>}, innerPool : {{}, {<<4, n>> : n \in 1..3}},
            serverInner : {Unset, <<4, 1>>, <<4, 4>>},
            psk : {0, 31, 32}, clients : {<< >>, "a" :> 31, "a" :> 32, "" :> 32},
            interfaces : {<< >>}, leases : {<< >>, "a" :> <<4, 2>>}]
Sound   == {c \in Configs : DOMAIN c.leases = {} /\ c.psk = 32 /\ ValidateServer(c)}
AllConfigs == Configs \cup {[c EXCEPT !.interfaces = f] : c \in Sound, f \in ForOne(Names) \cup ForTwo(ShortNames)}
                      \cup {[c EXCEPT !.leases = f] : c \in Sound, f \in ForOne(Addrs) \cup ForTwo(Addrs)}

(* A server whose configuration ValidateServer accepted starts (no Pin     *)
(* fails) and has what the session manager is proved correct under.        *)
AcceptedConfigsUsable ==
    SystemInit => \A c \in AllConfigs : ValidateServer(c) => Promised(c)
===========================================================================
