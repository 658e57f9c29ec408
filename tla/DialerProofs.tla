---------------------------- MODULE DialerProofs ----------------------------
(***************************************************************************)
(* Proofs about Dialer for any number of attempts, any addresses, any      *)
(* back-off bounds and any of the configured features; about TunnelMTU,    *)
(* what an attempt agrees on with the server, for every set of underlay    *)
(* MTUs up to 65536 and every set of caps; and about SourceAddress, where  *)
(* an attempt dials from, for every host, list of rules and set of servers. *)
(***************************************************************************)
EXTENDS MCDialer, TunnelMTU, WellFoundedInduction, SequenceTheorems, TLAPS

-----------------------------------------------------------------------------
(* TunnelMTU.  What each stage fixes (MTUInv) is inductive; the three      *)
(* properties then follow from one lemma about negotiateMTU.               *)

(* What the fields hold, stage by stage.                                    *)
Fixed ==
    /\ stage # "idle" => sent = uint16(clientOuter)
    /\ stage \in {"granted", "up"} => serverMTU = negotiateMTU(serverOuter, sent)
    /\ stage = "up" => clientMTU = uint16(serverMTU)

MTUInv == MTUTypeOK /\ Fixed

(* The tunnel's own account of its encapsulation is what the wire shows,    *)
(* between 24 and 52 bytes.                                                 *)
LEMMA OverheadIsWireHeaders ==
    ASSUME MTUTypeOK
    PROVE  /\ OverheadWithFOU(conf.v6, conf.key, conf.seq, conf.fou) = WireHeaders
           /\ WireHeaders \in 24..52
  <1>1. /\ conf.v6 \in BOOLEAN /\ conf.key \in BOOLEAN
        /\ conf.seq \in BOOLEAN /\ conf.fou \in BOOLEAN
        /\ conf.fou => ~conf.key /\ ~conf.seq
    BY DEF MTUTypeOK, Configs
  <1>2. CASE conf.fou
    <2>1. conf.v6 \/ ~conf.v6
      OBVIOUS
    <2>2. CASE conf.v6
      BY <1>1, <1>2, <2>2 DEF OverheadWithFOU, WireHeaders, If
    <2>3. CASE ~conf.v6
      BY <1>1, <1>2, <2>3 DEF OverheadWithFOU, WireHeaders, If
    <2>4. QED
      BY <2>1, <2>2, <2>3
  <1>3. CASE ~conf.fou
    <2>1. CASE conf.v6 /\ conf.key
      BY <1>1, <1>3, <2>1 DEF OverheadWithFOU, WireHeaders, If
    <2>2. CASE conf.v6 /\ ~conf.key
      BY <1>1, <1>3, <2>2 DEF OverheadWithFOU, WireHeaders, If
    <2>3. CASE ~conf.v6 /\ conf.key
      BY <1>1, <1>3, <2>3 DEF OverheadWithFOU, WireHeaders, If
    <2>4. CASE ~conf.v6 /\ ~conf.key
      BY <1>1, <1>3, <2>4 DEF OverheadWithFOU, WireHeaders, If
    <2>5. QED
      BY <2>1, <2>2, <2>3, <2>4
  <1>4. QED
    BY <1>2, <1>3

(* negotiateMTU returns at least 576 and at most 65535 - 23, and unless it  *)
(* returns the floor, the result plus the encapsulation fits the server's   *)
(* path and the client's, if the client reported one.                       *)
LEMMA NegotiatedRange ==
    ASSUME MTUTypeOK, NEW m \in Detected, NEW r \in Word16
    PROVE  LET mtu == negotiateMTU(m, r)
           IN  /\ mtu \in Nat /\ 576 <= mtu /\ mtu <= 65512
               /\ \/ mtu = minimumTunnelMTU(conf.v6)
                  \/ mtu + WireHeaders <= m /\ (r > 0 => mtu + WireHeaders <= r)
  <1>1. /\ m \in Nat /\ 0 < m /\ m <= 65536
        /\ conf.cap \in Nat
    <2>1. m \in Nat /\ 0 < m /\ m <= 65536
      BY MTUAssumption, SMT DEF Detected, DefaultMTU
    <2>2. conf.cap \in Caps
      BY SMT DEF MTUTypeOK, Configs
    <2>3. Caps \subseteq Nat
      BY MTUAssumption, SMT
    <2>4. conf.cap \in Nat
      BY <2>2, <2>3, Zenon
    <2>5. QED
      BY <2>1, <2>4, SMT
  <1>2. /\ OverheadWithFOU(conf.v6, conf.key, conf.seq, conf.fou) = WireHeaders
        /\ WireHeaders \in 24..52
    BY OverheadIsWireHeaders
  <1>3. minimumTunnelMTU(conf.v6) \in {576, 1280}
    BY DEF minimumTunnelMTU
  <1> DEFINE own == IF m <= 0 THEN conf.base ELSE m
             outer == IF r > 0 /\ r < own THEN r ELSE own
             bare == outer - OverheadWithFOU(conf.v6, conf.key, conf.seq, conf.fou)
             capped == IF conf.cap > 0 /\ conf.cap < bare THEN conf.cap ELSE bare
             floor == minimumTunnelMTU(conf.v6)
  <1>4. negotiateMTU(m, r) = IF capped < floor THEN floor ELSE capped
    BY Zenon DEF negotiateMTU
  <1>5. own = m
    BY <1>1, SMT
  <1> HIDE DEF own
  <1>6. outer \in Nat /\ outer <= m /\ (r > 0 => outer <= r)
    BY <1>1, <1>5, SMT DEF Word16
  <1> HIDE DEF outer
  <1>7. bare = outer - WireHeaders
    BY <1>2
  <1> HIDE DEF bare
  <1>8. capped \in Int /\ capped <= bare
    BY <1>1, <1>2, <1>6, <1>7, SMT
  <1> HIDE DEF capped, floor
  <1>9. floor \in {576, 1280}
    BY <1>3 DEF floor
  <1>10. r \in Nat
    BY SMT DEF Word16
  <1>11. CASE capped < floor
    <2>1. negotiateMTU(m, r) = floor
      BY <1>4, <1>11, Zenon
    <2>2. QED
      BY <1>9, <2>1, SMT DEF floor
  <1>12. CASE ~(capped < floor)
    <2>1. negotiateMTU(m, r) = capped
      BY <1>4, <1>12, Zenon
    <2>2. QED
      BY <1>1, <1>2, <1>6, <1>7, <1>8, <1>9, <1>10, <1>12, <2>1, SMT
  <1>13. QED
    BY <1>11, <1>12, SMT

(* What each stage of the negotiation fixes stays fixed.                    *)
LEMMA MTUInvariant == MTUSpec => []MTUInv
  <1>1. MTUInit => MTUInv
    BY MTUAssumption, SMT DEF MTUInit, MTUInv, Word16, MTUTypeOK, Fixed, Detected, DefaultMTU
  <1>2. MTUInv /\ [MTUNext]_mtuVars => MTUInv'
    <2> SUFFICES ASSUME MTUInv, [MTUNext]_mtuVars PROVE MTUInv'
      OBVIOUS
    <2>1. CASE Ask
      <3>1. PICK m \in Detected : clientOuter' = m /\ sent' = uint16(m)
        BY <2>1 DEF Ask
      <3>2. uint16(m) \in Word16
        BY MTUAssumption, SMT DEF uint16, Word16, Detected, DefaultMTU
      <3>3. QED
        BY <2>1, <3>1, <3>2 DEF Ask, MTUInv, MTUTypeOK, Fixed
    <2>2. CASE Grant
      <3>1. PICK m \in OuterMTUs \cup {conf.base} :
              serverOuter' = m /\ serverMTU' = negotiateMTU(m, sent)
        BY <2>2 DEF Grant
      <3>2. m \in Detected
        BY DEF MTUInv, MTUTypeOK, Configs, Detected
      <3>3. negotiateMTU(m, sent) \in Int
        BY <3>2, NegotiatedRange DEF MTUInv, MTUTypeOK
      <3>4. negotiateMTU(serverOuter, sent)' = negotiateMTU(m, sent)
        BY <2>2, <3>1 DEF Grant, negotiateMTU
      <3>5. QED
        BY <2>2, <3>1, <3>2, <3>3, <3>4 DEF Grant, MTUInv, MTUTypeOK, Fixed
    <2>3. CASE Configure
      <3>1. uint16(serverMTU) \in Word16
        BY SMT DEF uint16, Word16, MTUInv, MTUTypeOK
      <3>2. negotiateMTU(serverOuter, sent)' = negotiateMTU(serverOuter, sent)
        BY <2>3 DEF Configure, negotiateMTU
      <3>3. QED
        BY <2>3, <3>1, <3>2 DEF Configure, MTUInv, MTUTypeOK, Fixed
    <2>4. CASE UNCHANGED mtuVars
      <3>1. negotiateMTU(serverOuter, sent)' = negotiateMTU(serverOuter, sent)
        BY <2>4 DEF mtuVars, negotiateMTU
      <3>2. QED
        BY <2>4, <3>1 DEF mtuVars, MTUInv, MTUTypeOK, Fixed
    <2>5. QED
      BY <2>1, <2>2, <2>3, <2>4 DEF MTUNext
  <1>3. QED
    BY <1>1, <1>2, PTL DEF MTUSpec

(* Every value the negotiation computes or sends is in its range: what is  *)
(* sent and what the dialer configures fit 16 bits (manager.go, Establish;  *)
(* main.go, dialOnce).                                                      *)
THEOREM MTUTypeCorrect == MTUSpec => []MTUTypeOK
  <1>1. MTUInv => MTUTypeOK
    BY DEF MTUInv
  <1>2. QED
    BY <1>1, MTUInvariant, PTL

(* What the invariant says of a tunnel whose MTU has been granted.          *)
LEMMA GrantedMTU ==
    ASSUME MTUInv, stage \in {"granted", "up"}
    PROVE  /\ serverMTU \in Nat /\ 576 <= serverMTU /\ serverMTU <= 65512
           /\ \/ AtFloor
              \/ /\ serverMTU + WireHeaders <= serverOuter
                 /\ serverMTU + WireHeaders <= clientOuter
  <1>1. /\ serverMTU \in Nat /\ 576 <= serverMTU /\ serverMTU <= 65512
        /\ \/ serverMTU = minimumTunnelMTU(conf.v6)
           \/ /\ serverMTU + WireHeaders <= serverOuter
              /\ sent > 0 => serverMTU + WireHeaders <= sent
    BY NegotiatedRange DEF MTUInv, MTUTypeOK, Fixed
  <1>2. WireHeaders \in 24..52
    BY OverheadIsWireHeaders DEF MTUInv
  <1>3. /\ serverOuter \in Nat /\ 0 < serverOuter /\ serverOuter <= 65536
        /\ clientOuter \in Nat /\ 0 < clientOuter /\ clientOuter <= 65536
    BY MTUAssumption, SMT DEF MTUInv, MTUTypeOK, Detected, DefaultMTU
  <1>4. sent = clientOuter \/ (sent = 0 /\ clientOuter = 65536)
    BY <1>3, SMT DEF MTUInv, Fixed, uint16
  <1>5. QED
    BY <1>1, <1>2, <1>3, <1>4, SMT DEF AtFloor, minimumTunnelMTU

(* Both ends configure the same MTU, inside the range the broker accepts,   *)
(* for every underlay up to the loopback's 65536 (manager.go, negotiateMTU  *)
(* and the two 16-bit fields).                                              *)
THEOREM EndsAlwaysAgree == MTUSpec => []EndsAgree
  <1>1. MTUInv => EndsAgree
    <2> SUFFICES ASSUME MTUInv, stage = "up" PROVE clientMTU = serverMTU /\ 576 <= serverMTU /\ serverMTU <= 65535
      BY DEF EndsAgree
    <2>1. serverMTU \in Nat /\ 576 <= serverMTU /\ serverMTU <= 65512
      BY GrantedMTU
    <2>2. clientMTU = serverMTU % 65536
      BY DEF MTUInv, Fixed, uint16
    <2>3. QED
      BY <2>1, <2>2, SMT
  <1>2. QED
    BY <1>1, MTUInvariant, PTL

(* A full packet fits both underlays with its encapsulation unless the MTU  *)
(* is the floor (negotiateMTU against OverheadWithFOU).                     *)
THEOREM PacketsFit == MTUSpec => []FitsBothPaths
  <1>1. MTUInv => FitsBothPaths
    BY GrantedMTU DEF FitsBothPaths
  <1>2. QED
    BY <1>1, MTUInvariant, PTL

(* A TCP segment clamped to the derived MSS fits both underlays unless the  *)
(* MTU is the floor (mssclamp.go, protocolSpecs).                           *)
THEOREM ClampedSegmentsFit == MTUSpec => []SegmentsFit
  <1>1. MTUInv => SegmentsFit
    <2> SUFFICES ASSUME MTUInv, stage = "up" PROVE SegmentsFit
      BY DEF SegmentsFit
    <2>1. /\ serverMTU \in Nat /\ 576 <= serverMTU /\ serverMTU <= 65512
          /\ \/ AtFloor
             \/ /\ serverMTU + WireHeaders <= serverOuter
                /\ serverMTU + WireHeaders <= clientOuter
      BY GrantedMTU
    <2>2. clientMTU = serverMTU
      BY <2>1, SMT DEF MTUInv, Fixed, uint16
    <2>3. mss4(clientMTU) = serverMTU - 40 /\ mss6(clientMTU) = serverMTU - 60
      BY <2>1, <2>2, SMT DEF mss4, mss6
    <2>4. WireHeaders \in 24..52
      BY OverheadIsWireHeaders DEF MTUInv
    <2>5. serverOuter \in Int /\ clientOuter \in Int
      BY MTUAssumption, SMT DEF MTUInv, MTUTypeOK, Detected, DefaultMTU
    <2>6. QED
      BY <2>1, <2>3, <2>4, <2>5, SMT DEF SegmentsFit
  <1>2. QED
    BY <1>1, MTUInvariant, PTL

-----------------------------------------------------------------------------
(* Dialer.  Most leaves are first-order: each is tried with Zenon before   *)
(* SMT.                                                                    *)
USE ZenonT(2), SMTT(20), ZenonT(20), SMTT(40)

(* Outside the loop test an attempt is under way.                          *)
Underway == pc \notin {"check", "returned"} => attempt \in Attempts

(* Where the address of the latest grant is.  From the grant to the loop's *)
(* decision it is the attempt's own, and before that runDialer's.          *)
Remembered ==
    /\ pc \in {"check", "backoff"} => lastInner = grant
    /\ pc \in {"dial", "challenge", "reply"} =>
          lastInner = grant /\ asked = grant /\ inner = NoInner
    /\ pc \notin {"check", "backoff", "dial", "challenge", "reply", "returned"} =>
          IF inner = NoInner THEN lastInner = grant ELSE inner = grant

(* What is left of the tunnel at each point of dialOnce.                   *)
Plane ==
    /\ pc \notin {"session", "unclamp", "unplumb", "down"} => hook = "down"
    /\ pc \notin {"up", "session", "unclamp"} => ~monitor
    /\ pc \in Connecting \cup {"ensure", "down"} => (iface => failed)

(* The steps of the goroutines and the environment.                        *)
Background == Cancel \/ \E a \in Attempts : PathDies(a) \/ Goroutine(a)

(* They leave dialOnce, the addresses and the tunnel alone.                *)
LEMMA BackgroundFrame ==
    ASSUME Background \/ UNCHANGED vars
    PROVE  UNCHANGED <<pc, attempt, run, wire, plane>>
<1>1. CASE UNCHANGED vars
  BY <1>1 DEF vars
<1>2. CASE Cancel
  BY <1>2 DEF Cancel
<1>3. ASSUME NEW a \in Attempts, PathDies(a) PROVE UNCHANGED <<pc, attempt, run, wire, plane>>
  BY <1>3 DEF PathDies
<1>4. ASSUME NEW a \in Attempts, ReaderReturns(a) PROVE UNCHANGED <<pc, attempt, run, wire, plane>>
  BY <1>4 DEF ReaderReturns
<1>5. ASSUME NEW a \in Attempts, SendFails(a) PROVE UNCHANGED <<pc, attempt, run, wire, plane>>
  BY <1>5 DEF SendFails
<1>6. ASSUME NEW a \in Attempts, SenderStops(a) PROVE UNCHANGED <<pc, attempt, run, wire, plane>>
  BY <1>6 DEF SenderStops
<1>7. ASSUME NEW a \in Attempts, CloserCloses(a) PROVE UNCHANGED <<pc, attempt, run, wire, plane>>
  BY <1>7 DEF CloserCloses
<1>8. ASSUME NEW a \in Attempts, HealthReturns(a) PROVE UNCHANGED <<pc, attempt, run, wire, plane>>
  BY <1>8 DEF HealthReturns
<1> QED BY <1>1, <1>2, <1>3, <1>4, <1>5, <1>6, <1>7, <1>8 DEF Background, Goroutine

(* The goroutines keep the types of what they share.                       *)
LEMMA BackgroundTypes ==
    ASSUME TypeOK, Background
    PROVE  /\ cancelled' \in BOOLEAN
           /\ open' \subseteq Attempts /\ dead' \subseteq open'
           /\ reader' \subseteq Attempts /\ sender' \subseteq Attempts
           /\ closer' \subseteq Attempts /\ health' \subseteq Attempts
           /\ sendErr' \subseteq Attempts
           /\ result' \in {"none", "nil", "transient"}
<1> USE DEF TypeOK
<1>1. CASE Cancel
  BY <1>1 DEF Cancel, loops
<1>2. ASSUME NEW a \in Attempts, PathDies(a) \/ Goroutine(a)
      PROVE  cancelled' \in BOOLEAN
  BY <1>2 DEF PathDies, Goroutine, ReaderReturns, SendFails, SenderStops, CloserCloses,
              HealthReturns
<1>3. ASSUME NEW a \in Attempts, PathDies(a) \/ Goroutine(a)
      PROVE  /\ open' \subseteq Attempts /\ dead' \subseteq open'
             /\ reader' \subseteq Attempts /\ sender' \subseteq Attempts
             /\ closer' \subseteq Attempts /\ health' \subseteq Attempts
             /\ sendErr' \subseteq Attempts
  <2>1. CASE PathDies(a)
    BY <1>3, <2>1 DEF PathDies
  <2>2. CASE ReaderReturns(a)
    BY <2>2 DEF ReaderReturns
  <2>3. CASE SendFails(a)
    BY <1>3, <2>3 DEF SendFails
  <2>4. CASE SenderStops(a)
    BY <2>4 DEF SenderStops
  <2>5. CASE CloserCloses(a)
    BY <2>5 DEF CloserCloses, CloseConn
  <2>6. CASE HealthReturns(a)
    BY <2>6 DEF HealthReturns
  <2> QED BY <1>3, <2>1, <2>2, <2>3, <2>4, <2>5, <2>6 DEF Goroutine
<1>4. ASSUME NEW a \in Attempts, PathDies(a) \/ Goroutine(a)
      PROVE  result' \in {"none", "nil", "transient"}
  BY <1>4 DEF PathDies, Goroutine, ReaderReturns, SendFails, SenderStops, CloserCloses,
              HealthReturns, Report
<1> QED BY <1>1, <1>2, <1>3, <1>4 DEF Background

(* Every step of Dialer keeps its types, and an attempt under way where    *)
(* there must be one.                                                      *)
LEMMA TypeStep == TypeOK /\ Underway /\ [Next]_vars => TypeOK' /\ Underway'
<1> SUFFICES ASSUME TypeOK, Underway, [Next]_vars PROVE TypeOK' /\ Underway'
  OBVIOUS
<1> USE DialerAssumption
<1>1. CASE UNCHANGED vars
  BY <1>1 DEF vars, run, wire, plane, loops, TypeOK, Underway
<1>2. CASE Background
  BY <1>2, BackgroundFrame, BackgroundTypes DEF run, wire, plane, TypeOK, Underway
<1>3. CASE Check
  <2>1. attempt' \in 0..MaxAttempts /\ dry' \in 0..attempt'
    BY <1>3 DEF Check, TypeOK
  <2>2. pc' \in PCs /\ (pc' # "returned" => attempt' \in Attempts)
    BY <1>3 DEF Check, TypeOK, PCs, Attempts
  <2>3. /\ asked' \in Inners \cup {NoInner} /\ inner' \in Inners \cup {NoInner}
        /\ established' \in BOOLEAN /\ err' \in {"nil", "transient", "rejected"}
        /\ verdict' \in {"none", "granted", "busy", "refused"}
    BY <1>3 DEF Check, TypeOK
  <2>4. UNCHANGED <<cancelled, backoff, lastInner, grant, plane, loops>>
    BY <1>3 DEF Check
  <2> QED BY <2>1, <2>2, <2>3, <2>4 DEF plane, loops, TypeOK, Underway
<1>4. CASE Decide
  BY <1>4 DEF Decide, wire, plane, loops, TypeOK, Underway, PCs
<1>5. CASE Wait
  <2>1. backoff' \in MinBackoff..MaxBackoff
    BY <1>5 DEF Wait, TypeOK
  <2>2. pc' \in PCs
    BY <1>5 DEF Wait, PCs
  <2> QED BY <1>5, <2>1, <2>2 DEF Wait, wire, plane, loops, TypeOK, Underway
<1>6. CASE DialFail \/ Refused \/ Busy \/ HandshakeLost
  BY <1>6 DEF DialFail, Refused, Busy, HandshakeLost, Fail, wire, plane, loops, TypeOK,
              Underway, PCs
<1>7. CASE Dial
  BY <1>7 DEF Dial, run, wire, plane, TypeOK, Underway, PCs
<1>8. CASE Challenge \/ Granted
  <2>1. CASE Challenge
    BY <2>1 DEF Challenge, run, wire, plane, loops, TypeOK, Underway, PCs
  <2>2. CASE Granted
    <3>1. dry' \in 0..attempt'
      BY <2>2 DEF Granted, TypeOK
    <3>2. inner' \in Inners \cup {NoInner} /\ grant' \in Inners \cup {NoInner}
      BY <2>2 DEF Granted
    <3> QED BY <2>2, <3>1, <3>2 DEF Granted, plane, loops, TypeOK, Underway, PCs
  <2> QED BY <1>8, <2>1, <2>2
<1>9. CASE Ensure \/ EnsureFail
  <2>1. iface' \in BOOLEAN /\ failed' \in BOOLEAN
    BY <1>9 DEF Ensure, EnsureFail
  <2>2. CASE Ensure
    BY <2>1, <2>2 DEF Ensure, run, wire, loops, TypeOK, Underway, PCs
  <2>3. CASE EnsureFail
    BY <2>1, <2>3 DEF EnsureFail, Fail, wire, loops, TypeOK, Underway, PCs
  <2> QED BY <1>9, <2>2, <2>3
<1>10. CASE Apply \/ ApplyFail
  <2>1. CASE Apply
    <3>1. monitor' \in BOOLEAN
      BY <2>1 DEF Apply
    <3> QED BY <2>1, <3>1 DEF Apply, run, wire, loops, TypeOK, Underway, PCs
  <2>2. CASE ApplyFail
    BY <2>2 DEF ApplyFail, Fail, wire, plane, loops, TypeOK, Underway, PCs
  <2> QED BY <1>10, <2>1, <2>2
<1>11. CASE Unwind \/ Unplumb
  <2>1. iface' \in BOOLEAN /\ failed' \in BOOLEAN
    BY <1>11 DEF Unwind, Unplumb, RemoveInterface, TypeOK
  <2>2. CASE Unwind
    BY <2>1, <2>2 DEF Unwind, run, wire, loops, TypeOK, Underway, PCs
  <2>3. CASE Unplumb
    BY <2>1, <2>3 DEF Unplumb, run, wire, loops, TypeOK, Underway, PCs
  <2> QED BY <1>11, <2>2, <2>3
<1>12. CASE UpHook
  BY <1>12 DEF UpHook, runHook, run, wire, TypeOK, Underway, PCs
<1>13. CASE SessionEnds
  BY <1>13 DEF SessionEnds, wire, plane, TypeOK, Underway, PCs
<1>14. CASE Unclamp \/ DownHook
  <2>1. CASE Unclamp
    <3>1. pc' \in PCs /\ monitor' \in BOOLEAN /\ pc \notin {"check", "returned"}
      BY <2>1 DEF Unclamp, PCs
    <3>2. UNCHANGED <<cancelled, attempt, run, wire, iface, hook, failed, loops>>
      BY <2>1 DEF Unclamp
    <3> QED BY <3>1, <3>2 DEF run, wire, loops, TypeOK, Underway
  <2>2. CASE DownHook
    <3>1. pc' \in PCs /\ hook' \in {"up", "down"} /\ pc \notin {"check", "returned"}
      BY <2>2 DEF DownHook, runHook, PCs
    <3>2. UNCHANGED <<cancelled, attempt, run, wire, iface, monitor, failed, loops>>
      BY <2>2 DEF DownHook
    <3> QED BY <3>1, <3>2 DEF run, wire, loops, TypeOK, Underway
  <2> QED BY <1>14, <2>1, <2>2
<1>15. CASE Hangup
  BY <1>15 DEF Hangup, CloseConn, run, wire, plane, TypeOK, Underway, PCs
<1> QED
  BY <1>1, <1>2, <1>3, <1>4, <1>5, <1>6, <1>7, <1>8, <1>9, <1>10, <1>11, <1>12, <1>13,
     <1>14, <1>15 DEF Next, Step, Handshake, Setup, Cleanup, Background

(* Every step keeps the latest grant's address where the next attempt      *)
(* finds it.                                                               *)
LEMMA RememberedStep == TypeOK /\ Remembered /\ [Next]_vars => Remembered'
<1> SUFFICES ASSUME TypeOK, Remembered, [Next]_vars PROVE Remembered'
  OBVIOUS
<1> USE DialerAssumption DEF Remembered
<1>1. CASE Background \/ UNCHANGED vars
  BY <1>1, BackgroundFrame DEF run, wire
<1>2. CASE Check
  BY <1>2 DEF Check
<1>3. CASE Decide
  BY <1>3 DEF Decide, wire
<1>4. CASE Wait
  BY <1>4 DEF Wait, wire
<1>5. CASE DialFail \/ Refused \/ Busy \/ HandshakeLost
  BY <1>5 DEF DialFail, Refused, Busy, HandshakeLost, Fail, wire
<1>6. CASE Dial \/ Challenge
  BY <1>6 DEF Dial, Challenge, run, wire
<1>7. CASE Granted
  BY <1>7 DEF Granted
<1>8. CASE Ensure \/ EnsureFail \/ Apply \/ ApplyFail
  BY <1>8 DEF Ensure, EnsureFail, Apply, ApplyFail, Fail, run, wire
<1>9. CASE Unwind \/ UpHook \/ SessionEnds
  BY <1>9 DEF Unwind, UpHook, SessionEnds, run, wire
<1>10. CASE Unclamp \/ Unplumb \/ DownHook \/ Hangup
  BY <1>10 DEF Unclamp, Unplumb, DownHook, Hangup, run, wire
<1> QED
  BY <1>1, <1>2, <1>3, <1>4, <1>5, <1>6, <1>7, <1>8, <1>9, <1>10
     DEF Next, Step, Handshake, Setup, Cleanup, Background

(* Every step keeps what the point of dialOnce says about the tunnel.      *)
LEMMA PlaneStep == TypeOK /\ Plane /\ [Next]_vars => Plane'
<1> SUFFICES ASSUME TypeOK, Plane, [Next]_vars PROVE Plane'
  OBVIOUS
<1> USE DialerAssumption DEF Plane, Connecting
<1>1. CASE Background \/ UNCHANGED vars
  BY <1>1, BackgroundFrame DEF plane
<1>2. CASE Check \/ Decide \/ Wait
  BY <1>2 DEF Check, Decide, Wait, plane
<1>3. CASE DialFail \/ Refused \/ Busy \/ HandshakeLost
  BY <1>3 DEF DialFail, Refused, Busy, HandshakeLost, Fail, plane
<1>4. CASE Dial \/ Challenge \/ Granted
  BY <1>4 DEF Dial, Challenge, Granted, plane
<1>5. CASE Ensure \/ EnsureFail
  <2>1. CASE Ensure
    BY <2>1 DEF Ensure
  <2>2. CASE EnsureFail
    <3>1. pc' = "hangup" /\ hook' = hook /\ monitor' = monitor /\ (iface' => failed')
      BY <2>2 DEF EnsureFail, Fail
    <3>2. hook = "down" /\ ~monitor
      BY <2>2 DEF EnsureFail
    <3> QED BY <3>1, <3>2
  <2> QED BY <1>5, <2>1, <2>2
<1>6. CASE Apply \/ ApplyFail
  BY <1>6 DEF Apply, ApplyFail, Fail, plane
<1>7. CASE Unwind \/ Unplumb
  BY <1>7 DEF Unwind, Unplumb, RemoveInterface
<1>8. CASE UpHook \/ SessionEnds
  BY <1>8 DEF UpHook, SessionEnds, plane
<1>9. CASE Unclamp \/ DownHook
  BY <1>9 DEF Unclamp, DownHook, runHook
<1>10. CASE Hangup
  BY <1>10 DEF Hangup, plane
<1> QED
  BY <1>1, <1>2, <1>3, <1>4, <1>5, <1>6, <1>7, <1>8, <1>9, <1>10
     DEF Next, Step, Handshake, Setup, Cleanup, Background

(* runDialer starts with no attempt made.                                  *)
LEMMA DialerInit == Init => TypeOK /\ Underway
<1> SUFFICES ASSUME Init PROVE TypeOK /\ Underway
  OBVIOUS
<1>1. attempt \in 0..MaxAttempts /\ dry \in 0..attempt /\ backoff \in MinBackoff..MaxBackoff
  BY DialerAssumption DEF Init
<1>2. /\ pc \in PCs /\ cancelled \in BOOLEAN /\ established \in BOOLEAN
      /\ iface \in BOOLEAN /\ monitor \in BOOLEAN /\ failed \in BOOLEAN
  BY DEF Init, PCs
<1> QED BY <1>1, <1>2 DEF Init, TypeOK, Underway

(* runDialer and dialOnce never use an attempt, a back-off or an address   *)
(* out of its range, however their goroutines interleave.                  *)
THEOREM DialerTypeCorrect == Spec => []TypeOK
BY DialerInit, TypeStep, PTL DEF Spec

(* Every attempt asks for the address of the most recent grant, however    *)
(* many attempts failed since and wherever they failed.                    *)
THEOREM LastAddressAsked == Spec => []AsksForLastAddress
<1>1. Init => Remembered
  BY DEF Init, Remembered
<1>2. Remembered => AsksForLastAddress
  BY DEF Remembered, AsksForLastAddress
<1> QED BY <1>1, <1>2, DialerTypeCorrect, RememberedStep, PTL DEF Spec

(* Between sessions, and after the last, nothing of the tunnel is left     *)
(* unless a removal failed.                                                *)
THEOREM TunnelGone == Spec => []TunnelOnlyInSession
<1>1. Init => Plane
  BY DEF Init, Plane, Connecting
<1>2. Plane => TunnelOnlyInSession
  BY DEF Plane, TunnelOnlyInSession, Connecting
<1> QED BY <1>1, <1>2, DialerTypeCorrect, PlaneStep, PTL DEF Spec

-----------------------------------------------------------------------------
(* The back-off.  The numbers of the waits are proved by induction: the    *)
(* library gives every non-empty set of numbers a least element.           *)

(* Every non-empty set of natural numbers has a least element.             *)
LEMMA LeastNumber ==
    ASSUME NEW T \in SUBSET Nat, T # {}
    PROVE  \E a \in T : \A b \in T : a <= b
<1> DEFINE R == OpToRel(<, Nat)
<1>1. IsWellFoundedOn(R, Nat)
  BY NatLessThanWellFounded
<1>2. \A a, b \in Nat : b < a => <<b, a>> \in R
  BY DEF OpToRel
<1> HIDE DEF R
<1>3. PICK a \in T : \A b \in T : ~ (<<b, a>> \in R)
  BY <1>1, WFMin
<1>4. ASSUME NEW b \in T PROVE a <= b
  <2>1. a \in Nat /\ b \in Nat
    OBVIOUS
  <2>2. ~(b < a)
    BY <1>2, <1>3, <2>1
  <2> QED BY <2>1, <2>2
<1> QED BY <1>4

(* Induction, for a set.                                                   *)
LEMMA Induction ==
    ASSUME NEW S, 0 \in S, \A n \in Nat : n \in S => n + 1 \in S
    PROVE  Nat \subseteq S
<1> DEFINE T == Nat \ S
<1> SUFFICES ASSUME T # {} PROVE FALSE
  OBVIOUS
<1>1. PICK a \in T : \A b \in T : a <= b
  BY LeastNumber
<1>2. a # 0 /\ a \in Nat
  OBVIOUS
<1>3. a - 1 \in Nat /\ a - 1 + 1 = a /\ ~(a <= a - 1)
  BY <1>2
<1>4. a - 1 \in S
  BY <1>1, <1>3
<1>5. a - 1 + 1 \in S
  BY <1>3, <1>4
<1> QED BY <1>3, <1>5

(* f doubles from one up to n.                                             *)
Doubles(f, n) == f[0] = 1 /\ \A k \in 1..n : f[k] = 2 * f[k - 1]

(* Such a function exists, of any length.                                  *)
LEMMA DoublingExists == \A n \in Nat : \E f \in [0..n -> Nat] : Doubles(f, n)
<1> DEFINE S == {n \in Nat : \E f \in [0..n -> Nat] : Doubles(f, n)}
<1>1. 0 \in S
  <2> DEFINE f == [k \in 0..0 |-> 1]
  <2>1. f \in [0..0 -> Nat] /\ f[0] = 1 /\ 1..0 = {}
    OBVIOUS
  <2>2. Doubles(f, 0)
    BY <2>1 DEF Doubles
  <2> QED BY <2>1, <2>2
<1>2. ASSUME NEW n \in Nat, n \in S PROVE n + 1 \in S
  <2>1. PICK f \in [0..n -> Nat] : Doubles(f, n)
    BY <1>2
  <2> DEFINE g == [k \in 0..(n + 1) |-> IF k = n + 1 THEN 2 * f[n] ELSE f[k]]
  <2>2. \A k \in 0..n : g[k] = f[k] /\ f[k] \in Nat
    OBVIOUS
  <2>3. g[n + 1] = 2 * f[n] /\ f[n] \in Nat
    OBVIOUS
  <2>4. g \in [0..(n + 1) -> Nat]
    BY <2>3
  <2>5. g[0] = 1
    BY <2>1, <2>2 DEF Doubles
  <2>6. ASSUME NEW k \in 1..(n + 1) PROVE g[k] = 2 * g[k - 1]
    <3>1. CASE k = n + 1
      <4>1. g[n] = f[n] /\ k - 1 = n
        BY <2>2, <3>1
      <4> HIDE DEF g
      <4> QED BY <2>3, <3>1, <4>1
    <3>2. CASE k # n + 1
      <4>1. k \in 1..n /\ k \in 0..n /\ k - 1 \in 0..n
        BY <3>2
      <4>2. g[k] = f[k] /\ g[k - 1] = f[k - 1]
        BY <2>2, <4>1
      <4> HIDE DEF g
      <4> QED BY <2>1, <4>1, <4>2 DEF Doubles
    <3> QED BY <3>1, <3>2
  <2> HIDE DEF g
  <2>7. Doubles(g, n + 1)
    BY <2>5, <2>6 DEF Doubles
  <2> QED BY <2>4, <2>7
<1> HIDE DEF S
<1>3. Nat \subseteq S
  BY <1>1, <1>2, Induction
<1> QED BY <1>3 DEF S

(* Pow2 is what its equation says, for every number of attempts.           *)
LEMMA Pow2Equation == Pow2 = [n \in 0..MaxAttempts |-> IF n = 0 THEN 1 ELSE 2 * Pow2[n - 1]]
<1>1. PICK f \in [0..MaxAttempts -> Nat] : Doubles(f, MaxAttempts)
  BY DoublingExists, DialerAssumption
<1> DEFINE g == [n \in 0..MaxAttempts |-> IF n = 0 THEN 1 ELSE 2 * f[n - 1]]
<1>2. ASSUME NEW n \in 0..MaxAttempts PROVE f[n] = g[n]
  <2>1. n = 0 \/ n \in 1..MaxAttempts
    BY DialerAssumption
  <2> QED BY <1>1, <2>1 DEF Doubles
<1>3. f = g
  <2>1. f = [n \in 0..MaxAttempts |-> f[n]]
    OBVIOUS
  <2> QED BY <1>2, <2>1
<1> QED BY <1>3 DEF Pow2

(* The powers of two.                                                      *)
LEMMA Pow2Values ==
    /\ Pow2[0] = 1
    /\ \A n \in Nat : n + 1 \in 0..MaxAttempts => Pow2[n + 1] = 2 * Pow2[n]
    /\ \A n \in 0..MaxAttempts : Pow2[n] \in Nat
<1>1. Pow2[0] = 1 /\ 0 \in 0..MaxAttempts
  BY Pow2Equation, DialerAssumption
<1>2. ASSUME NEW n \in Nat, n + 1 \in 0..MaxAttempts PROVE Pow2[n + 1] = 2 * Pow2[n]
  <2> DEFINE m == n + 1
  <2>1. m # 0 /\ m - 1 = n
    OBVIOUS
  <2> HIDE DEF m
  <2>2. m \in 0..MaxAttempts
    BY <1>2 DEF m
  <2>3. Pow2[m] = IF m = 0 THEN 1 ELSE 2 * Pow2[m - 1]
    BY <2>2, Pow2Equation, Zenon
  <2>4. Pow2[m] = 2 * Pow2[n]
    BY <2>1, <2>3
  <2> QED BY <2>4 DEF m
<1>3. \A n \in 0..MaxAttempts : Pow2[n] \in Nat
  <2> DEFINE S == {n \in Nat : n \in 0..MaxAttempts => Pow2[n] \in Nat}
  <2>1. 0 \in S
    BY <1>1
  <2>2. ASSUME NEW n \in Nat, n \in S PROVE n + 1 \in S
    <3> SUFFICES ASSUME n + 1 \in 0..MaxAttempts PROVE Pow2[n + 1] \in Nat
      OBVIOUS
    <3>1. n \in 0..MaxAttempts
      BY DialerAssumption
    <3>2. Pow2[n] \in Nat
      BY <2>2, <3>1
    <3> QED BY <1>2, <3>2
  <2> HIDE DEF S
  <2>3. Nat \subseteq S
    BY <2>1, <2>2, Induction
  <2> QED BY <2>3, DialerAssumption DEF S
<1> QED BY <1>1, <1>2, <1>3

(* How long the wait after n waits in a row is.                            *)
Delay(n) == LET w == MinBackoff * Pow2[n] IN IF w < MaxBackoff THEN w ELSE MaxBackoff

(* Doubling a wait, up to MaxBackoff, gives the next.                      *)
LEMMA DelayGrows ==
    /\ Delay(0) = MinBackoff
    /\ \A n \in Nat : n + 1 \in 0..MaxAttempts =>
          Delay(n + 1) = IF 2 * Delay(n) < MaxBackoff THEN 2 * Delay(n) ELSE MaxBackoff
<1>1. Delay(0) = MinBackoff
  <2>1. MinBackoff * 1 = MinBackoff
    BY DialerAssumption
  <2> QED BY <2>1, Pow2Values, DialerAssumption DEF Delay
<1>2. ASSUME NEW n \in Nat, n + 1 \in 0..MaxAttempts
      PROVE  Delay(n + 1) = IF 2 * Delay(n) < MaxBackoff THEN 2 * Delay(n) ELSE MaxBackoff
  <2>1. n \in 0..MaxAttempts
    BY <1>2, DialerAssumption
  <2> DEFINE p == Pow2[n]  w == MinBackoff * p
  <2>2. p \in Nat /\ Pow2[n + 1] = 2 * p
    BY <1>2, <2>1, Pow2Values
  <2> HIDE DEF p
  <2>3. w \in Nat /\ MinBackoff * (2 * p) = 2 * w
    BY <2>2, DialerAssumption
  <2>4. Delay(n) = IF w < MaxBackoff THEN w ELSE MaxBackoff
    BY DEF Delay, p
  <2>5. Delay(n + 1) = IF 2 * w < MaxBackoff THEN 2 * w ELSE MaxBackoff
    BY <2>2, <2>3 DEF Delay
  <2> HIDE DEF w
  <2> QED BY <2>3, <2>4, <2>5, DialerAssumption
<1> QED BY <1>1, <1>2

(* The waits in a row that are due once the attempt under way has failed.  *)
Row == IF grant = NoInner THEN dry ELSE dry + 1

(* Where the length of the next wait is.                                   *)
Waits ==
    /\ Row <= attempt
    /\ pc = "check" => backoff = Delay(Row)
    /\ pc \notin {"check", "returned"} => Row > 0
    /\ pc = "backoff" => backoff = Delay(Row - 1)
    /\ pc \notin {"check", "backoff", "returned"} =>
          IF established THEN Row = 1 ELSE backoff = Delay(Row - 1)

(* Every step keeps the next wait as long as the waits in a row demand.     *)
LEMMA WaitsStep == TypeOK /\ Waits /\ Underway /\ [Next]_vars => Waits'
<1> SUFFICES ASSUME TypeOK, Waits, Underway, [Next]_vars PROVE Waits'
  OBVIOUS
<1>a. /\ attempt \in 0..MaxAttempts /\ MaxAttempts \in Nat /\ attempt \in Nat
      /\ dry \in Nat /\ Row \in Nat /\ NoInner \notin Inners /\ grant \in Inners \cup {NoInner}
  BY DialerAssumption DEF TypeOK, Row
<1>b. UNCHANGED <<grant, dry>> => Row' = Row
  BY DEF Row
<1>c. \A n : (Delay(n))' = Delay(n)
  BY DEF Delay
<1>1. CASE Background \/ UNCHANGED vars
  <2>1. UNCHANGED <<pc, attempt, backoff, established, grant, dry>>
    BY <1>1, BackgroundFrame DEF run, wire
  <2> QED BY <2>1, <1>b DEF Waits
<1>2. CASE Check
  <2>1. CASE pc' = "returned"
    <3>1. UNCHANGED <<attempt, grant, dry>>
      BY <1>2, <2>1 DEF Check
    <3> QED BY <2>1, <3>1, <1>b DEF Waits
  <2>2. CASE pc' # "returned"
    <3>1. /\ pc = "check" /\ pc' = "dial" /\ attempt' = attempt + 1 /\ dry' = dry + 1
          /\ established' = FALSE /\ UNCHANGED <<backoff, grant>>
      BY <1>2, <2>2 DEF Check
    <3>2. Row' = Row + 1
      BY <1>a, <3>1 DEF Row
    <3>3. Row' <= attempt' /\ Row' > 0 /\ Row' - 1 = Row
      BY <1>a, <3>1, <3>2 DEF Waits
    <3> QED BY <3>1, <3>3 DEF Waits
  <2> QED BY <2>1, <2>2
<1>3. CASE Decide
  <2>1. pc = "decide" /\ UNCHANGED <<attempt, established, grant, dry>>
    BY <1>3 DEF Decide, wire
  <2>2. CASE pc' = "returned"
    BY <2>1, <2>2, <1>b DEF Waits
  <2>3. CASE pc' # "returned"
    <3>1. pc' = "backoff" /\ backoff' = IF established THEN MinBackoff ELSE backoff
      BY <1>3, <2>3 DEF Decide
    <3>2. backoff' = Delay(Row - 1)
      <4>1. CASE established
        <5>1. Row - 1 = 0
          BY <2>1, <4>1 DEF Waits
        <5> QED BY <3>1, <4>1, <5>1, DelayGrows
      <4>2. CASE ~established
        BY <2>1, <3>1, <4>2 DEF Waits
      <4> QED BY <4>1, <4>2
    <3> QED BY <2>1, <3>1, <3>2, <1>b DEF Waits
  <2> QED BY <2>2, <2>3
<1>4. CASE Wait
  <2>1. pc = "backoff" /\ UNCHANGED <<attempt, established, grant, dry>>
    BY <1>4 DEF Wait, wire
  <2>2. CASE pc' = "returned"
    BY <2>1, <2>2, <1>b DEF Waits
  <2>3. CASE pc' # "returned"
    <3>1. /\ pc' = "check"
          /\ backoff' = IF 2 * backoff < MaxBackoff THEN 2 * backoff ELSE MaxBackoff
      BY <1>4, <2>3 DEF Wait
    <3>2. Row - 1 \in Nat /\ Row - 1 + 1 = Row /\ Row \in 0..MaxAttempts
      BY <1>a, <2>1 DEF Waits
    <3>3. backoff = Delay(Row - 1)
      BY <2>1 DEF Waits
    <3>4. Delay(Row - 1 + 1) = IF 2 * Delay(Row - 1) < MaxBackoff THEN 2 * Delay(Row - 1) ELSE MaxBackoff
      BY <3>2, DelayGrows
    <3>5. backoff' = Delay(Row)
      BY <3>1, <3>2, <3>3, <3>4
    <3> QED BY <2>1, <3>1, <3>5, <1>b DEF Waits
  <2> QED BY <2>2, <2>3
<1>5. CASE Granted
  <2>1. /\ pc = "reply" /\ pc' = "ensure" /\ dry' = 0 /\ established' = TRUE
        /\ UNCHANGED attempt /\ grant' \in Inners
    BY <1>5 DEF Granted
  <2>2. Row' = 1 /\ grant' # NoInner
    BY <2>1, <1>a DEF Row
  <2>3. attempt \in Attempts
    BY <2>1 DEF Underway
  <2>4. 1 <= attempt'
    BY <2>1, <2>3 DEF Attempts
  <2> QED BY <2>1, <2>2, <2>4 DEF Waits
<1>6. CASE /\ UNCHANGED <<attempt, backoff, established, grant, dry>>
           /\ pc \notin {"check", "backoff", "returned"}
           /\ pc' \notin {"check", "backoff", "returned"}
  BY <1>6, <1>b DEF Waits
<1>7. CASE DialFail \/ Refused \/ Busy \/ HandshakeLost
  BY <1>6, <1>7 DEF DialFail, Refused, Busy, HandshakeLost, Fail, wire
<1>8. CASE Dial \/ Challenge \/ Ensure \/ EnsureFail \/ Apply \/ ApplyFail
  BY <1>6, <1>8 DEF Dial, Challenge, Ensure, EnsureFail, Apply, ApplyFail, Fail, run, wire
<1>9. CASE Unwind \/ UpHook \/ SessionEnds
  BY <1>6, <1>9 DEF Unwind, UpHook, SessionEnds, run, wire
<1>10. CASE Unclamp \/ Unplumb \/ DownHook \/ Hangup
  BY <1>6, <1>10 DEF Unclamp, Unplumb, DownHook, Hangup, run, wire
<1> QED
  BY <1>1, <1>2, <1>3, <1>4, <1>5, <1>7, <1>8, <1>9, <1>10
     DEF Next, Step, Handshake, Setup, Cleanup, Background

(* runDialer, main.go:378-408: the wait before an attempt is MinBackoff,   *)
(* doubled for every attempt in a row that failed before it and capped at  *)
(* MaxBackoff; a grant starts again at MinBackoff.                         *)
THEOREM BackoffFollowsFailures == Spec => []BackoffGrowsAndResets
<1>1. Init => Waits
  <2> SUFFICES ASSUME Init PROVE Waits
    OBVIOUS
  <2>1. Row = 0 /\ attempt = 0 /\ pc = "check" /\ backoff = MinBackoff
    BY DEF Init, Row
  <2> QED BY <2>1, DelayGrows DEF Waits
<1>2. TypeOK /\ Waits => BackoffGrowsAndResets
  <2> SUFFICES ASSUME TypeOK, Waits, pc = "backoff"
               PROVE  BackoffGrowsAndResets
    BY DEF BackoffGrowsAndResets
  <2>1. dry \in Nat
    BY DialerAssumption DEF TypeOK
  <2>2. Row - 1 = IF grant = NoInner THEN dry - 1 ELSE dry
    BY <2>1 DEF Row
  <2>3. backoff = Delay(Row - 1)
    BY DEF Waits
  <2> QED BY <2>2, <2>3 DEF BackoffGrowsAndResets, Delay
<1>3. Init => TypeOK /\ Underway
  BY DialerInit
<1> QED BY <1>1, <1>2, <1>3, TypeStep, WaitsStep, PTL DEF Spec

-----------------------------------------------------------------------------
(* Where an attempt dials from.                                            *)

(* Min gives it.                                                           *)
LEMMA MinOf ==
    ASSUME NEW T \in SUBSET Nat, T # {}
    PROVE  Min(T) \in T /\ \A b \in T : Min(T) <= b
BY LeastNumber DEF Min

(* An interface of a host.                                                 *)
Iface(N) == [name : N, up : BOOLEAN, addrs : Seq(Locals)]

(* Local addresses are not the two other outcomes.                         *)
LEMMA Outcomes == Kernel \notin Locals /\ Failed \notin Locals /\ Kernel # Failed
BY DEF Kernel, Failed, Locals

(* The families of a rule, one by one.                                     *)
LEMMA FamilyOf ==
    ASSUME NEW servers, NEW rule, NEW a \in Locals
    PROVE  is6(a) \in sourceRuleFamilies(servers, rule) <=>
              /\ \E s \in servers : /\ is6(s) = is6(a) /\ s \notin rule.exclude
                                    /\ rule.match # {} => s \in rule.match
              /\ rule.family = "ipv4" => ~is6(a)
              /\ rule.family = "ipv6" => is6(a)
<1> DEFINE X == {x \in servers : includedSource(x, rule.match) /\ ~excludedSource(x, rule.exclude)}
           F == CASE rule.family = "ipv4" -> {FALSE}
                  [] rule.family = "ipv6" -> {TRUE}
                  [] OTHER                -> BOOLEAN
<1>1. \A s : s \in X <=> s \in servers /\ s \notin rule.exclude /\ (rule.match # {} => s \in rule.match)
  BY DEF includedSource, excludedSource
<1>2. sourceRuleFamilies(servers, rule) = {is6(s) : s \in X} \cap F
  BY DEF sourceRuleFamilies
<1>3. is6(a) \in BOOLEAN
  BY DEF is6
<1>4. is6(a) \in F <=> (rule.family = "ipv4" => ~is6(a)) /\ (rule.family = "ipv6" => is6(a))
  <2>1. CASE rule.family = "ipv4"
    BY <1>3, <2>1
  <2>2. CASE rule.family = "ipv6"
    BY <1>3, <2>2
  <2>3. CASE rule.family # "ipv4" /\ rule.family # "ipv6"
    BY <1>3, <2>3
  <2> QED BY <2>1, <2>2, <2>3
<1> HIDE DEF X, F
<1>5. is6(a) \in {is6(s) : s \in X} <=> \E s \in X : is6(s) = is6(a)
  OBVIOUS
<1> QED BY <1>1, <1>2, <1>4, <1>5

(* The places of an interface whose address a rule may take.               *)
LEMMA Candidate ==
    ASSUME NEW nic, NEW servers, NEW rule, NEW k \in DOMAIN nic.addrs,
           nic.addrs[k] \in Locals
    PROVE  k \in Candidates(nic, sourceRuleFamilies(servers, rule), rule) <=>
              LET a == nic.addrs[k]
              IN  /\ nic.up /\ (rule.ifaces # {} => nic.name \in rule.ifaces)
                  /\ a # "link6" /\ a \notin rule.exclude
                  /\ rule.include # {} => a \in rule.include
                  /\ is6(a) \in sourceRuleFamilies(servers, rule)
BY DEF Candidates, Allowed, ifaceAddrIP, includedSource, excludedSource

(* A rule admits an address exactly if some interface offers it.           *)
LEMMA OfferedIsAdmitted ==
    ASSUME NEW N, NEW ifaces \in Seq(Iface(N)), NEW servers, NEW rule, NEW a \in Locals
    PROVE  Admits(rule, a, ifaces, servers) <=>
              \E n \in DOMAIN ifaces :
                 \E k \in Candidates(ifaces[n], sourceRuleFamilies(servers, rule), rule) :
                    ifaces[n].addrs[k] = a
<1> DEFINE fams == sourceRuleFamilies(servers, rule)
<1>1. \A n \in DOMAIN ifaces : ifaces[n] \in Iface(N)
  OBVIOUS
<1>2. \A n \in DOMAIN ifaces : ifaces[n].addrs \in Seq(Locals)
  BY <1>1 DEF Iface
<1>3. \A n \in DOMAIN ifaces : \A k \in DOMAIN ifaces[n].addrs : ifaces[n].addrs[k] \in Locals
  BY <1>2
<1>4. \A n, k : k \in Candidates(ifaces[n], fams, rule) => k \in DOMAIN ifaces[n].addrs
  BY DEF Candidates
<1>5. is6(a) \in fams <=>
              /\ \E s \in servers : /\ is6(s) = is6(a) /\ s \notin rule.exclude
                                    /\ rule.match # {} => s \in rule.match
              /\ rule.family = "ipv4" => ~is6(a)
              /\ rule.family = "ipv6" => is6(a)
  BY FamilyOf
<1>6. ASSUME Admits(rule, a, ifaces, servers)
      PROVE  \E n \in DOMAIN ifaces : \E k \in Candidates(ifaces[n], fams, rule) : ifaces[n].addrs[k] = a
  <2>1. PICK n \in DOMAIN ifaces : /\ ifaces[n].up /\ a \in Range(ifaces[n].addrs)
                                   /\ rule.ifaces # {} => ifaces[n].name \in rule.ifaces
    BY <1>6 DEF Admits
  <2>2. PICK k \in DOMAIN ifaces[n].addrs : ifaces[n].addrs[k] = a
    BY <2>1 DEF Range
  <2>3. is6(a) \in fams
    BY <1>5, <1>6 DEF Admits
  <2>4. a # "link6" /\ a \notin rule.exclude /\ (rule.include # {} => a \in rule.include)
    BY <1>6 DEF Admits
  <2>5. k \in Candidates(ifaces[n], fams, rule)
    BY <2>1, <2>2, <2>3, <2>4, Candidate
  <2> QED BY <2>2, <2>5
<1>7. ASSUME NEW n \in DOMAIN ifaces, NEW k \in Candidates(ifaces[n], fams, rule), ifaces[n].addrs[k] = a
      PROVE  Admits(rule, a, ifaces, servers)
  <2>1. k \in DOMAIN ifaces[n].addrs
    BY <1>4
  <2>2. /\ ifaces[n].up /\ (rule.ifaces # {} => ifaces[n].name \in rule.ifaces)
        /\ a # "link6" /\ a \notin rule.exclude
        /\ rule.include # {} => a \in rule.include
        /\ is6(a) \in fams
    BY <1>7, <2>1, Candidate
  <2>3. a \in Range(ifaces[n].addrs)
    BY <1>7, <2>1 DEF Range
  <2> HIDE DEF fams
  <2> QED BY <1>5, <2>2, <2>3 DEF Admits
<1> QED BY <1>6, <1>7

(* What one rule comes to: an address it admits; or else it admits none,   *)
(* and an error means that an interface it names is missing.               *)
LEMMA RuleOutcome ==
    ASSUME NEW N, NEW ifaces \in Seq(Iface(N)), NEW servers, NEW rule
    PROVE  LET c == chooseSourceAddressFromRule(ifaces, servers, rule)
               admitted == {a \in Locals : Admits(rule, a, ifaces, servers)}
           IN  \/ c \in admitted
               \/ admitted = {} /\ c = Kernel
               \/ admitted = {} /\ c = Failed /\ ~(rule.ifaces \subseteq {ifaces[n].name : n \in DOMAIN ifaces})
<1> DEFINE c == chooseSourceAddressFromRule(ifaces, servers, rule)
           fams == sourceRuleFamilies(servers, rule)
           offering == {n \in DOMAIN ifaces : Candidates(ifaces[n], fams, rule) # {}}
           missing == rule.ifaces \ {ifaces[n].name : n \in DOMAIN ifaces}
           first == Min(offering)
           place == Min(Candidates(ifaces[first], fams, rule))
<1>1. c = IF fams = {} THEN Kernel
          ELSE IF offering # {} THEN ifaces[first].addrs[place]
          ELSE IF missing # {} THEN Failed ELSE Kernel
  BY DEF chooseSourceAddressFromRule
<1>2. \A n \in DOMAIN ifaces : \A k \in Candidates(ifaces[n], fams, rule) :
         k \in Nat /\ ifaces[n].addrs[k] \in Locals /\ is6(ifaces[n].addrs[k]) \in fams
  <2> SUFFICES ASSUME NEW n \in DOMAIN ifaces, NEW k \in Candidates(ifaces[n], fams, rule)
               PROVE  k \in Nat /\ ifaces[n].addrs[k] \in Locals /\ is6(ifaces[n].addrs[k]) \in fams
    OBVIOUS
  <2>1. ifaces[n] \in Iface(N)
    OBVIOUS
  <2>2. ifaces[n].addrs \in Seq(Locals)
    BY <2>1 DEF Iface
  <2>3. k \in DOMAIN ifaces[n].addrs /\ is6(ifaces[n].addrs[k]) \in fams
    BY DEF Candidates
  <2> HIDE DEF fams
  <2> QED BY <2>2, <2>3
<1>3. \A a \in Locals : Admits(rule, a, ifaces, servers) =>
         \E n \in offering : \E k \in Candidates(ifaces[n], fams, rule) : ifaces[n].addrs[k] = a
  <2> SUFFICES ASSUME NEW a \in Locals, Admits(rule, a, ifaces, servers)
               PROVE  \E n \in offering : \E k \in Candidates(ifaces[n], fams, rule) : ifaces[n].addrs[k] = a
    OBVIOUS
  <2>1. PICK n \in DOMAIN ifaces : \E k \in Candidates(ifaces[n], fams, rule) : ifaces[n].addrs[k] = a
    BY OfferedIsAdmitted
  <2>2. n \in offering
    BY <2>1
  <2> QED BY <2>1, <2>2
<1>4. \A n \in DOMAIN ifaces : \A k \in Candidates(ifaces[n], fams, rule) :
         Admits(rule, ifaces[n].addrs[k], ifaces, servers)
  BY <1>2, OfferedIsAdmitted
<1>5. offering \in SUBSET Nat /\ offering \subseteq DOMAIN ifaces
  OBVIOUS
<1>6. \A n \in offering : Candidates(ifaces[n], fams, rule) # {}
  OBVIOUS
<1> HIDE DEF fams, c, missing
<1>7. CASE offering # {}
  <2> HIDE DEF offering
  <2>1. first \in offering /\ first \in DOMAIN ifaces
    BY <1>5, <1>7, MinOf
  <2> HIDE DEF first
  <2>2. Candidates(ifaces[first], fams, rule) \in SUBSET Nat
    BY <1>2, <2>1
  <2>3. place \in Candidates(ifaces[first], fams, rule)
    BY <1>6, <2>1, <2>2, MinOf
  <2> HIDE DEF place
  <2>4. fams # {}
    BY <1>2, <2>1, <2>3
  <2>5. c = ifaces[first].addrs[place]
    BY <1>1, <1>7, <2>4
  <2> QED BY <1>2, <1>4, <2>1, <2>3, <2>5 DEF c
<1>8. CASE offering = {}
  <2> HIDE DEF offering
  <2>1. {a \in Locals : Admits(rule, a, ifaces, servers)} = {}
    BY <1>3, <1>8
  <2>2. c = Kernel \/ (c = Failed /\ missing # {})
    BY <1>1, <1>8
  <2> QED BY <2>1, <2>2 DEF missing, c
<1> QED BY <1>7, <1>8

(* What each rule comes to.                                                *)
Results(ifaces, servers, rules) ==
    [i \in DOMAIN rules |-> chooseSourceAddressFromRule(ifaces, servers, rules[i])]

(* The rules in order: the first that is not "none" decides.               *)
LEMMA ListOutcome ==
    ASSUME NEW N, NEW ifaces \in Seq(Iface(N)), NEW servers, NEW R, NEW rules \in Seq(R), NEW fallback,
           rules # << >>, servers # {}
    PROVE  LET res == Results(ifaces, servers, rules)
               c   == chooseSourceAddress(ifaces, servers, rules, fallback)
           IN  \/ \E i \in DOMAIN rules : /\ c = res[i] /\ c # Kernel
                                          /\ \A j \in 1..(i - 1) : j \in DOMAIN rules /\ res[j] = Kernel
               \/ /\ \A i \in DOMAIN rules : res[i] = Kernel
                  /\ c = IF fallback = "kernel" THEN Kernel ELSE Failed
<1> DEFINE res == Results(ifaces, servers, rules)
           decided == {i \in DOMAIN rules : res[i] # Kernel}
           c == chooseSourceAddress(ifaces, servers, rules, fallback)
<1>1. c = IF decided # {} THEN res[Min(decided)]
          ELSE IF fallback = "kernel" THEN Kernel ELSE Failed
  BY DEF chooseSourceAddress, Results
<1>2. decided \in SUBSET Nat /\ decided \subseteq DOMAIN rules
  OBVIOUS
<1>3. DOMAIN rules = 1..Len(rules) /\ Len(rules) \in Nat
  OBVIOUS
<1>4. \A i \in DOMAIN rules : i \in decided <=> res[i] # Kernel
  OBVIOUS
<1> HIDE DEF res, c
<1>5. CASE decided # {}
  <2> DEFINE i == Min(decided)
  <2> HIDE DEF decided
  <2>1. i \in decided /\ \A j \in decided : i <= j
    BY <1>2, <1>5, MinOf
  <2> HIDE DEF i
  <2>2. i \in DOMAIN rules /\ i \in Nat
    BY <1>2, <2>1
  <2>3. ASSUME NEW j \in 1..(i - 1) PROVE j \in DOMAIN rules /\ res[j] = Kernel
    <3>1. j \in DOMAIN rules /\ ~(i <= j)
      BY <1>3, <2>2
    <3> QED BY <1>4, <2>1, <3>1
  <2>4. c = res[i]
    BY <1>1, <1>5 DEF i
  <2>5. res[i] # Kernel
    BY <1>4, <2>1, <2>2
  <2> QED BY <2>2, <2>3, <2>4, <2>5 DEF c, res
<1>6. CASE decided = {}
  <2>1. \A i \in DOMAIN rules : res[i] = Kernel
    BY <1>4, <1>6
  <2>2. c = IF fallback = "kernel" THEN Kernel ELSE Failed
    BY <1>1, <1>6
  <2> QED BY <2>1, <2>2 DEF c, res
<1> QED BY <1>5, <1>6

(* chooseSourceAddress, main.go:632-730: on any host, for any servers and  *)
(* any list of rules, the address chosen is one the first rule that can be *)
(* served admits; the kernel chooses only if no rule can be served and the *)
(* fallback says so, or there are no rules; and an attempt is refused only *)
(* when no rule can be served or one names an interface that is missing.   *)
THEOREM ChoicesFollowRules ==
    ASSUME NEW N, NEW ifaces \in Seq(Iface(N)), NEW servers, NEW R, NEW rules \in Seq(R), NEW fallback
    PROVE  ChoiceFollowsRules(ifaces, servers, rules, fallback)
<1> DEFINE c == chooseSourceAddress(ifaces, servers, rules, fallback)
           serves(i) == \E a \in Locals : Admits(rules[i], a, ifaces, servers)
           names == {ifaces[n].name : n \in DOMAIN ifaces}
           res == Results(ifaces, servers, rules)
<1>1. CASE rules = << >>
  <2>1. c = Kernel
    BY <1>1 DEF chooseSourceAddress
  <2> QED BY <1>1, <2>1, Outcomes DEF ChoiceFollowsRules
<1>2. CASE rules # << >> /\ servers = {}
  <2>1. c = Failed
    BY <1>2 DEF chooseSourceAddress
  <2> QED BY <1>2, <2>1, Outcomes DEF ChoiceFollowsRules
<1>3. CASE rules # << >> /\ servers # {}
  <2>1. ASSUME NEW i \in DOMAIN rules
        PROVE  \/ res[i] \in Locals /\ Admits(rules[i], res[i], ifaces, servers)
               \/ ~serves(i) /\ res[i] = Kernel
               \/ ~serves(i) /\ res[i] = Failed /\ ~(rules[i].ifaces \subseteq names)
    <3>1. res[i] = chooseSourceAddressFromRule(ifaces, servers, rules[i])
      BY DEF Results
    <3> HIDE DEF res
    <3> QED BY <3>1, RuleOutcome
  <2>2. \A i \in DOMAIN rules : res[i] \in Locals => serves(i)
    BY <2>1, Outcomes
  <2>3. \A i \in DOMAIN rules : res[i] = Kernel => ~serves(i)
    BY <2>1, Outcomes
  <2> HIDE DEF c, serves, res
  <2>4. CASE \E i \in DOMAIN rules : /\ c = res[i] /\ c # Kernel
                                     /\ \A j \in 1..(i - 1) : j \in DOMAIN rules /\ res[j] = Kernel
    <3>1. PICK i \in DOMAIN rules : /\ c = res[i] /\ c # Kernel
                                    /\ \A j \in 1..(i - 1) : j \in DOMAIN rules /\ res[j] = Kernel
      BY <2>4
    <3>2. \A j \in 1..(i - 1) : ~serves(j)
      BY <2>3, <3>1
    <3>3. CASE c \in Locals
      <4>1. Admits(rules[i], c, ifaces, servers)
        BY <2>1, <3>1, <3>3, Outcomes
      <4>2. \E k \in DOMAIN rules : /\ Admits(rules[k], c, ifaces, servers)
                                    /\ \A j \in 1..(k - 1) : ~serves(j)
        BY <3>2, <4>1
      <4> QED BY <3>3, <4>2, Outcomes DEF ChoiceFollowsRules, c, serves
    <3>4. CASE c \notin Locals
      <4>1. c = Failed /\ ~serves(i) /\ ~(rules[i].ifaces \subseteq names)
        BY <2>1, <3>1, <3>4
      <4>2. \A j \in 1..i : ~serves(j)
        <5>1. i \in Nat
          OBVIOUS
        <5>2. \A j \in 1..i : j = i \/ j \in 1..(i - 1)
          BY <5>1
        <5> QED BY <3>2, <4>1, <5>2
      <4>3. \E k \in DOMAIN rules : /\ ~(rules[k].ifaces \subseteq names)
                                    /\ \A j \in 1..k : ~serves(j)
        BY <4>1, <4>2
      <4> QED BY <3>1, <3>4, <4>3 DEF ChoiceFollowsRules, c, serves
    <3> QED BY <3>3, <3>4
  <2>5. CASE /\ \A i \in DOMAIN rules : res[i] = Kernel
             /\ c = IF fallback = "kernel" THEN Kernel ELSE Failed
    <3>1. \A i \in DOMAIN rules : ~serves(i)
      BY <2>3, <2>5
    <3>2. c \notin Locals /\ (c = Kernel => fallback = "kernel")
      BY <2>5, Outcomes
    <3> QED BY <3>1, <3>2 DEF ChoiceFollowsRules, c, serves
  <2> QED BY <1>3, <2>4, <2>5, ListOutcome DEF c, res
<1> QED BY <1>1, <1>2, <1>3

(* The host with one more interface.                                       *)
LEMMA Plugged ==
    ASSUME NEW N, NEW ifaces \in Seq(Iface(N)), NEW nic \in Iface(N), NEW n \in 0..Len(ifaces)
    PROVE  LET more == PluggedAfter(n, ifaces, nic)
           IN  /\ more \in Seq(Iface(N))
               /\ \A i \in DOMAIN ifaces : \E j \in DOMAIN more : more[j] = ifaces[i]
<1> DEFINE s == SubSeq(ifaces, 1, n)
           u == SubSeq(ifaces, n + 1, Len(ifaces))
           su == s \o <<nic>>
           more == su \o u
<1>1. Len(ifaces) \in Nat /\ n \in Nat
  OBVIOUS
<1>2. s \in Seq(Iface(N)) /\ Len(s) = n /\ \A i \in 1..n : s[i] = ifaces[i]
  OBVIOUS
<1>3. /\ u \in Seq(Iface(N)) /\ Len(u) = Len(ifaces) - n
      /\ \A i \in 1..(Len(ifaces) - n) : u[i] = ifaces[n + i]
  OBVIOUS
<1> HIDE DEF s, u
<1>4. su \in Seq(Iface(N)) /\ Len(su) = n + 1 /\ \A i \in 1..n : su[i] = s[i]
  BY <1>1, <1>2
<1> HIDE DEF su
<1>5. /\ more \in Seq(Iface(N)) /\ Len(more) = Len(su) + Len(u)
      /\ \A i \in 1..(Len(su) + Len(u)) :
            more[i] = IF i <= Len(su) THEN su[i] ELSE u[i - Len(su)]
  BY <1>3, <1>4, ConcatProperties
<1> HIDE DEF more
<1>6. Len(su) + Len(u) = Len(ifaces) + 1
  BY <1>1, <1>3, <1>4
<1>7. ASSUME NEW i \in DOMAIN ifaces PROVE \E j \in DOMAIN more : more[j] = ifaces[i]
  <2>1. i \in 1..Len(ifaces) /\ DOMAIN more = 1..(Len(ifaces) + 1)
    BY <1>5, <1>6
  <2>2. CASE i <= n
    <3>1. i \in 1..n /\ i \in 1..(Len(ifaces) + 1) /\ i <= n + 1
      BY <1>1, <2>1, <2>2
    <3>2. more[i] = su[i]
      BY <1>4, <1>5, <1>6, <3>1
    <3> QED BY <1>2, <1>4, <2>1, <3>1, <3>2
  <2>3. CASE ~(i <= n)
    <3> DEFINE k == i - n
    <3>1. /\ k \in 1..(Len(ifaces) - n) /\ n + k = i
          /\ i + 1 \in 1..(Len(ifaces) + 1) /\ ~(i + 1 <= n + 1) /\ i + 1 - (n + 1) = k
      BY <1>1, <2>1, <2>3
    <3> HIDE DEF k
    <3>2. more[i + 1] = u[k]
      BY <1>4, <1>5, <1>6, <3>1
    <3> QED BY <1>3, <2>1, <3>1, <3>2
  <2> QED BY <2>2, <2>3
<1>8. more = PluggedAfter(n, ifaces, nic)
  BY DEF PluggedAfter, more, su, s, u
<1> QED BY <1>5, <1>7, <1>8

(* A rule that takes an address still takes one, and one that came to      *)
(* nothing does not come to an error, when the host has more interfaces.   *)
LEMMA MoreInterfaces ==
    ASSUME NEW N, NEW ifaces \in Seq(Iface(N)), NEW more \in Seq(Iface(N)), NEW servers, NEW rule,
           \A i \in DOMAIN ifaces : \E j \in DOMAIN more : more[j] = ifaces[i]
    PROVE  LET before == chooseSourceAddressFromRule(ifaces, servers, rule)
               after  == chooseSourceAddressFromRule(more, servers, rule)
           IN  /\ before \in Locals => after \in Locals
               /\ before = Kernel => after \in Locals \cup {Kernel}
<1> DEFINE before == chooseSourceAddressFromRule(ifaces, servers, rule)
           after == chooseSourceAddressFromRule(more, servers, rule)
           fams == sourceRuleFamilies(servers, rule)
           admitted(host) == {a \in Locals : Admits(rule, a, host, servers)}
           names(host) == {host[n].name : n \in DOMAIN host}
<1>1. \A a \in Locals : Admits(rule, a, ifaces, servers) => Admits(rule, a, more, servers)
  BY DEF Admits
<1>2. names(ifaces) \subseteq names(more)
  OBVIOUS
<1>3. \/ before \in admitted(ifaces)
      \/ admitted(ifaces) = {} /\ before = Kernel
      \/ admitted(ifaces) = {} /\ before = Failed /\ ~(rule.ifaces \subseteq names(ifaces))
  BY RuleOutcome
<1>4. \/ after \in admitted(more)
      \/ admitted(more) = {} /\ after = Kernel
      \/ admitted(more) = {} /\ after = Failed /\ ~(rule.ifaces \subseteq names(more))
  BY RuleOutcome
<1>5. ASSUME before = Kernel, after = Failed PROVE FALSE
  <2>1. fams # {} /\ ~(rule.ifaces \subseteq names(more))
    <3>1. fams # {}
      BY <1>5, Outcomes DEF chooseSourceAddressFromRule
    <3> QED BY <1>4, <1>5, <3>1, Outcomes
  <2>2. ~(rule.ifaces \subseteq names(ifaces))
    BY <1>2, <2>1
  <2> DEFINE offering == {n \in DOMAIN ifaces : Candidates(ifaces[n], fams, rule) # {}}
  <2>3. offering # {}
    <3> SUFFICES ASSUME offering = {} PROVE FALSE
      OBVIOUS
    <3>1. rule.ifaces \ names(ifaces) # {}
      BY <2>2
    <3>2. before = Failed
      BY <2>1, <3>1 DEF chooseSourceAddressFromRule
    <3> QED BY <1>5, <3>2, Outcomes
  <2>4. PICK n \in DOMAIN ifaces : Candidates(ifaces[n], fams, rule) # {}
    BY <2>3
  <2>5. PICK k : k \in Candidates(ifaces[n], fams, rule)
    BY <2>4
  <2>6. ifaces[n].addrs \in Seq(Locals)
    <3>1. ifaces[n] \in Iface(N)
      OBVIOUS
    <3> QED BY <3>1 DEF Iface
  <2>7. k \in DOMAIN ifaces[n].addrs
    BY <2>5 DEF Candidates
  <2>8. ifaces[n].addrs[k] \in Locals
    BY <2>6, <2>7
  <2>9. Admits(rule, ifaces[n].addrs[k], ifaces, servers)
    BY <2>5, <2>8, OfferedIsAdmitted
  <2> QED BY <1>3, <1>5, <2>8, <2>9, Outcomes
<1> HIDE DEF before, after, fams
<1>6. before \in Locals => after \in Locals
  BY <1>1, <1>3, <1>4, Outcomes
<1>7. before = Kernel => after \in Locals \cup {Kernel}
  BY <1>4, <1>5
<1> QED BY <1>6, <1>7 DEF before, after

(* Nor does a list of rules lose the address it takes.                     *)
LEMMA MoreKeepsChoice ==
    ASSUME NEW N, NEW ifaces \in Seq(Iface(N)), NEW more \in Seq(Iface(N)), NEW servers,
           NEW R, NEW rules \in Seq(R), NEW fallback,
           \A i \in DOMAIN ifaces : \E j \in DOMAIN more : more[j] = ifaces[i],
           chooseSourceAddress(ifaces, servers, rules, fallback) \in Locals
    PROVE  chooseSourceAddress(more, servers, rules, fallback) \in Locals
<1> DEFINE c == chooseSourceAddress(ifaces, servers, rules, fallback)
           d == chooseSourceAddress(more, servers, rules, fallback)
           old == Results(ifaces, servers, rules)
           new == Results(more, servers, rules)
<1>1. rules # << >> /\ servers # {}
  BY Outcomes DEF chooseSourceAddress
<1>2. \A i \in DOMAIN rules : /\ old[i] \in Locals => new[i] \in Locals
                              /\ old[i] = Kernel => new[i] \in Locals \cup {Kernel}
  BY MoreInterfaces DEF Results
<1>3. \/ \E i \in DOMAIN rules : /\ c = old[i] /\ c # Kernel
                                 /\ \A j \in 1..(i - 1) : j \in DOMAIN rules /\ old[j] = Kernel
      \/ c \in {Kernel, Failed}
  <2> HIDE DEF d, new
  <2> QED BY <1>1, ListOutcome
<1>4. \/ \E i \in DOMAIN rules : /\ d = new[i] /\ d # Kernel
                                 /\ \A j \in 1..(i - 1) : j \in DOMAIN rules /\ new[j] = Kernel
      \/ \A i \in DOMAIN rules : new[i] = Kernel
  <2> HIDE DEF c, old
  <2> QED BY <1>1, ListOutcome
<1>5. c \in Locals
  OBVIOUS
<1> HIDE DEF c, d, old, new
<1>6. PICK i \in DOMAIN rules : /\ c = old[i]
                                /\ \A j \in 1..(i - 1) : j \in DOMAIN rules /\ old[j] = Kernel
  BY <1>3, <1>5, Outcomes
<1>7. new[i] \in Locals
  BY <1>2, <1>6, <1>5
<1>8. PICK k \in DOMAIN rules : /\ d = new[k] /\ d # Kernel
                                /\ \A j \in 1..(k - 1) : j \in DOMAIN rules /\ new[j] = Kernel
  BY <1>4, <1>7, Outcomes
<1>9. i \in Nat \ {0} /\ k \in Nat \ {0}
  OBVIOUS
<1>10. CASE k = i
  <2>1. d \in Locals
    BY <1>7, <1>8, <1>10
  <2> QED BY <2>1 DEF d
<1>11. CASE k < i
  <2>1. k \in 1..(i - 1)
    BY <1>9, <1>11
  <2>2. old[k] = Kernel
    BY <1>6, <2>1
  <2>3. d \in Locals
    BY <1>2, <1>8, <2>2
  <2> QED BY <2>3 DEF d
<1>12. CASE i < k
  <2>1. i \in 1..(k - 1)
    BY <1>9, <1>12
  <2> QED BY <1>7, <1>8, <2>1, Outcomes
<1> QED BY <1>9, <1>10, <1>11, <1>12

(* chooseSourceAddress, main.go:632-730: an interface that appears,        *)
(* wherever it is listed, never leaves a dialer that had an address        *)
(* without one.                                                            *)
THEOREM HotplugIsHarmless ==
    ASSUME NEW N, NEW ifaces \in Seq(Iface(N)), NEW servers, NEW R, NEW rules \in Seq(R), NEW fallback,
           NEW nic \in Iface(N)
    PROVE  HotplugKeepsChoice(ifaces, servers, rules, fallback, nic)
<1> SUFFICES ASSUME chooseSourceAddress(ifaces, servers, rules, fallback) \in Locals,
                    NEW n \in 0..Len(ifaces)
             PROVE  chooseSourceAddress(PluggedAfter(n, ifaces, nic), servers, rules, fallback) \in Locals
  BY DEF HotplugKeepsChoice
<1> DEFINE more == PluggedAfter(n, ifaces, nic)
<1>1. /\ more \in Seq(Iface(N))
      /\ \A i \in DOMAIN ifaces : \E j \in DOMAIN more : more[j] = ifaces[i]
  BY Plugged
<1> HIDE DEF more
<1>2. chooseSourceAddress(more, servers, rules, fallback) \in Locals
  BY <1>1, MoreKeepsChoice
<1> QED BY <1>2 DEF more

(* The hosts and rules of the instance are hosts and rules.                *)
LEMMA InstanceTypes ==
    \E N : /\ Eth0 \subseteq Iface(N) /\ Eth1 \subseteq Iface(N)
           /\ Hosts \subseteq Seq(Iface(N))
           /\ {<< >>} \cup {<<e>> : e \in Eth1} \subseteq Seq(Iface(N))
           /\ RuleLists \subseteq Seq(Rules)
<1> DEFINE N == {"eth0", "eth1"}
           Links == Iface(N)
<1>1. /\ <<"eth4">> \in Seq(Locals) /\ <<"link6", "eth4">> \in Seq(Locals)
      /\ <<"wan4", "wan6">> \in Seq(Locals) /\ <<"wan6">> \in Seq(Locals)
  BY DEF Locals
<1>2. /\ {<<"eth4">>, <<"link6", "eth4">>} \subseteq Seq(Locals)
      /\ {<<"wan4", "wan6">>, <<"wan6">>} \subseteq Seq(Locals)
  BY <1>1, Zenon
<1>3. ASSUME NEW name \in N, NEW L, L \subseteq Seq(Locals)
      PROVE  Ifaces(name, L) \subseteq Links
  <2> HIDE DEF N
  <2> QED BY <1>3 DEF Ifaces, Iface
<1>4. Eth0 \subseteq Links
  <2> DEFINE L == {<<"eth4">>, <<"link6", "eth4">>}
  <2>1. Eth0 = Ifaces("eth0", L) /\ "eth0" \in N
    BY DEF Eth0
  <2>2. L \subseteq Seq(Locals)
    BY <1>2, Zenon
  <2> HIDE DEF L, N, Links
  <2> QED BY <1>3, <2>1, <2>2
<1>5. Eth1 \subseteq Links
  <2> DEFINE L == {<<"wan4", "wan6">>, <<"wan6">>}
  <2>1. Eth1 = Ifaces("eth1", L) /\ "eth1" \in N
    BY DEF Eth1
  <2>2. L \subseteq Seq(Locals)
    BY <1>2, Zenon
  <2> HIDE DEF L, N, Links
  <2> QED BY <1>3, <2>1, <2>2
<1> HIDE DEF Links
<1>6. \A S : /\ << >> \in Seq(S)
             /\ \A x \in S : <<x>> \in Seq(S)
             /\ \A x, y \in S : <<x, y>> \in Seq(S)
  OBVIOUS
<1>7. \A S, A, B : A \subseteq S /\ B \subseteq S => A \X B \subseteq Seq(S)
  <2> SUFFICES ASSUME NEW S, NEW A, NEW B, A \subseteq S, B \subseteq S, NEW p \in A \X B
               PROVE  p \in Seq(S)
    OBVIOUS
  <2>1. p = <<p[1], p[2]>> /\ p[1] \in S /\ p[2] \in S
    OBVIOUS
  <2> QED BY <1>6, <2>1
<1>8. Hosts \subseteq Seq(Links)
  <2>1. Eth0 \X Eth1 \subseteq Seq(Links) /\ Eth1 \X Eth0 \subseteq Seq(Links)
    BY <1>4, <1>5, <1>7
  <2>2. \A e \in Eth0 \cup Eth1 : <<e>> \in Seq(Links)
    BY <1>4, <1>5, <1>6
  <2> QED BY <1>6, <2>1, <2>2 DEF Hosts
<1>9. {<< >>} \cup {<<e>> : e \in Eth1} \subseteq Seq(Links)
  BY <1>5, <1>6
<1>10. RuleLists \subseteq Seq(Rules)
  <2>1. FewRules \subseteq Rules
    BY DEF FewRules
  <2>2. FewRules \X FewRules \subseteq Seq(Rules)
    BY <1>7, <2>1
  <2> QED BY <1>6, <2>2 DEF RuleLists
<1> HIDE DEF N
<1> QED BY <1>4, <1>5, <1>8, <1>9, <1>10 DEF Links

(* main.go:632-730: both hold whenever the dialer of the instance dials.   *)
THEOREM SourceRulesFollowed == Spec => []DialFollowsSourceRules
<1>1. AllChoicesFollowRules
  BY InstanceTypes, ChoicesFollowRules DEF AllChoicesFollowRules
<1>2. AllChoicesSurviveHotplug
  BY InstanceTypes, HotplugIsHarmless DEF AllChoicesSurviveHotplug
<1>3. DialFollowsSourceRules
  BY <1>1, <1>2 DEF DialFollowsSourceRules
<1> QED BY <1>3, PTL
=============================================================================
