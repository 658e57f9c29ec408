----------------------------- MODULE TunnelMTU -----------------------------
(***************************************************************************)
(* How the two ends of a tunnel come to its MTU: the dialer detects the    *)
(* MTU of its path and sends it in 16 bits, the server takes the smaller   *)
(* of that and its own, subtracts the encapsulation, applies the cap and   *)
(* the floor, configures its interface and returns the value in 16 bits,   *)
(* and the dialer configures its own.  The dialer may redial over another  *)
(* path.  The MSS values that the clamp rules derive from the MTU are      *)
(* operators.  Definitions whose names end in "_" are altered forms of the *)
(* definition that follows them; the properties are shown to reject them.  *)
(***************************************************************************)
EXTENDS Integers

CONSTANTS
    OuterMTUs,      \* MTUs a route or link of the underlay may have
    Caps            \* values of the configured cap (config.MTU); 0 = no cap

ASSUME MTUAssumption ==
    /\ \A m \in OuterMTUs : m \in Nat /\ 0 < m /\ m <= 65536   \* the loopback's
    /\ Caps \subseteq Nat

VARIABLES
    conf,           \* server: v6, key, seq, fou, cap, base (Manager.outerMTU)
    stage,          \* "idle", "asked", "granted" or "up"
    clientOuter,    \* dialer: the MTU it detected
    sent,           \* SessionRequest.OuterMTU as it is on the wire
    serverOuter,    \* server: the MTU it uses for the path to this client
    serverMTU,      \* MTU of the server's tunnel interface
    clientMTU       \* MTU of the dialer's tunnel interface

mtuVars == <<conf, stage, clientOuter, sent, serverOuter, serverMTU, clientMTU>>

(* Assumed where the MTU cannot be detected.                                *)
DefaultMTU == 1500

Detected == OuterMTUs \cup {DefaultMTU}

Word16 == {n \in Nat : n < 65536}

uint16(n) == n % 65536

If(present, bytes) == IF present THEN bytes ELSE 0

OverheadWithFOU_(v6, key, seq, fou) ==
    4 + If(key, 4) + If(seq, 4) + (IF v6 THEN 40 ELSE 20)

OverheadWithFOU(v6, key, seq, fou) ==
    4 + If(key, 4) + If(seq, 4) + (IF v6 THEN 40 ELSE 20) + If(fou, 8)

minimumTunnelMTU(v6) == IF v6 THEN 1280 ELSE 576

negotiateMTU_(server, client) ==
    LET own == IF server <= 0 THEN conf.base ELSE server
        outer == IF client > 0 /\ client < own THEN client ELSE own
        bare == outer - OverheadWithFOU(conf.v6, conf.key, conf.seq, conf.fou)
    IN  IF conf.cap > 0 /\ conf.cap < bare THEN conf.cap ELSE bare

(* negotiateMTUWithServerOuter; a reported MTU of 0 is "unknown".           *)
negotiateMTU(server, client) ==
    LET own == IF server <= 0 THEN conf.base ELSE server
        outer == IF client > 0 /\ client < own THEN client ELSE own
        bare == outer - OverheadWithFOU(conf.v6, conf.key, conf.seq, conf.fou)
        capped == IF conf.cap > 0 /\ conf.cap < bare THEN conf.cap ELSE bare
        floor == minimumTunnelMTU(conf.v6)
    IN  IF capped < floor THEN floor ELSE capped

(* The MSS of the clamp rules in mode tunnel_mtu with no explicit value;    *)
(* 0 leaves the choice to the kernel.                                       *)
mss4(mtu) == IF mtu > 40 THEN mtu - 40 ELSE 0

mss6_(mtu) == IF mtu > 60 THEN mtu - 40 ELSE 0

mss6(mtu) == IF mtu > 60 THEN mtu - 60 ELSE 0

(* With Foo-over-UDP the manager turns GRE key and sequence fields off.     *)
Configs == {k \in [v6 : BOOLEAN, key : BOOLEAN, seq : BOOLEAN, fou : BOOLEAN,
                   cap : Caps, base : Detected] : k.fou => ~k.key /\ ~k.seq}

MTUTypeOK ==
    /\ conf \in Configs
    /\ stage \in {"idle", "asked", "granted", "up"}
    /\ clientOuter \in Detected
    /\ sent \in Word16
    /\ serverOuter \in Detected
    /\ serverMTU \in Int
    /\ clientMTU \in Word16

MTUInit ==
    /\ conf \in Configs
    /\ stage = "idle"
    /\ clientOuter = DefaultMTU /\ sent = 0 /\ serverOuter = DefaultMTU
    /\ serverMTU = 0 /\ clientMTU = 0

(* dialOnce: the MTU of the route to the server, else of the link that has  *)
(* the local address, else the default.                                     *)
Ask ==
    /\ stage \in {"idle", "up"}
    /\ \E m \in Detected : clientOuter' = m /\ sent' = uint16(m)
    /\ stage' = "asked"
    /\ UNCHANGED <<conf, serverOuter, serverMTU, clientMTU>>

(* Establish: the MTU of the route to this client, else the base value.     *)
Grant ==
    /\ stage = "asked"
    /\ \E m \in OuterMTUs \cup {conf.base} :
         serverOuter' = m /\ serverMTU' = negotiateMTU(m, sent)
    /\ stage' = "granted"
    /\ UNCHANGED <<conf, clientOuter, sent, clientMTU>>

(* The grant carries 16 bits; the dialer configures what it received.       *)
Configure ==
    /\ stage = "granted"
    /\ clientMTU' = uint16(serverMTU)
    /\ stage' = "up"
    /\ UNCHANGED <<conf, clientOuter, sent, serverOuter, serverMTU>>

MTUNext == Ask \/ Grant \/ Configure

MTUSpec == MTUInit /\ [][MTUNext]_mtuVars

-----------------------------------------------------------------------------
(* The headers a packet really gets in front of it on the underlay: outer   *)
(* IP, UDP if wrapped, GRE with the fields that createGRE turned on.        *)
WireHeaders ==
    (IF conf.v6 THEN 40 ELSE 20) + (IF conf.fou THEN 8 ELSE 0)
      + (IF conf.key /\ conf.seq THEN 12 ELSE IF conf.key \/ conf.seq THEN 8 ELSE 4)

AtFloor == serverMTU = (IF conf.v6 THEN 1280 ELSE 576)

(* Both ends configure the same MTU, and one the broker accepts: neither of *)
(* the two 16-bit fields wraps, not even for a loopback path of 65536 or a  *)
(* peer that reports a tiny MTU.                                            *)
EndsAgree ==
    stage = "up" => clientMTU = serverMTU /\ 576 <= serverMTU /\ serverMTU <= 65535

(* A full-sized packet fits the underlay of both ends with everything the   *)
(* tunnel puts in front of it, whichever side has the smaller MTU and even  *)
(* where the reported value was 0 because 65536 does not fit the field;     *)
(* only the floor may exceed it.                                            *)
FitsBothPaths ==
    stage \in {"granted", "up"} =>
        \/ AtFloor
        \/ /\ serverMTU + WireHeaders <= serverOuter
           /\ serverMTU + WireHeaders <= clientOuter

(* A clamped TCP segment fits too: the MSS derived from the tunnel MTU is   *)
(* never 0, and with the headers of TCP over IPv4 or IPv6 and those of the  *)
(* tunnel it stays within the MTU of both underlays.                        *)
SegmentsFit ==
    stage = "up" =>
        /\ mss4(clientMTU) > 0 /\ mss6(clientMTU) > 0
        /\ \/ AtFloor
           \/ \A o \in {serverOuter, clientOuter} :
                /\ mss4(clientMTU) + 20 + 20 + WireHeaders <= o
                /\ mss6(clientMTU) + 40 + 20 + WireHeaders <= o

============================================================================
