------------------------ MODULE ControlServerProofs ------------------------
(***************************************************************************)
(* Proofs about ControlServer for any number of connections and source     *)
(* addresses and any bounds.                                               *)
(***************************************************************************)
EXTENDS ControlServer, FiniteSetTheorems, TLAPS

(* Most leaves are first-order: each is tried with Zenon before SMT.       *)
USE ZenonT(4), SMTT(20), ZenonT(20), SMTT(40)

(* What the pc of a handler says about its grant: the strengthening of     *)
(* OneTeardownPerGrant that a step preserves.                              *)
Fresh(c)   == c \notin granted /\ teardowns[c] = 0 /\ ~ok[c]
Open(c)    == c \in granted /\ teardowns[c] = 0
Settled(c) == teardowns[c] = IF c \in granted THEN 1 ELSE 0

LifeOf(c) ==
    /\ pc[c] \in Reading \cup {"new", "establish"} => Fresh(c)
    /\ pc[c] \in {"reply", "undo"} => Open(c) /\ ~ok[c]
    /\ pc[c] \in {"releaseIP", "releaseSem"} =>
          IF ok[c] THEN Open(c) ELSE Settled(c)
    /\ pc[c] \in {"keepalive", "teardown"} => Open(c)
    /\ pc[c] = "closed" => Settled(c)

(* The WaitGroup counts exactly the handlers that run, the accept loop     *)
(* reserves for a connection that has no handler yet, and nothing runs     *)
(* once Serve has returned.                                                *)
LifeInv ==
    /\ \A c \in Conns : LifeOf(c)
    /\ \A c \in Conns : c \in inflight <=> pc[c] \notin {"new", "closed"}
    /\ Reserving => accepted \in Conns /\ pc[accepted] = "new"
    /\ serve = "returned" => inflight = {}

SemHolders == {c \in Conns : HoldsSem(c)}
IPHolders(i) == {c \in Conns : ip[c] = i /\ HoldsIP(c)}

(* The slot counts, with the finiteness that gives Cardinality a meaning.  *)
SemInv ==
    /\ IsFiniteSet(SemHolders)
    /\ sem = Cardinality(SemHolders) + (IF Reserving THEN 1 ELSE 0)
    /\ sem <= MaxPendingHandshakes

IPInv ==
    \A i \in IPs : /\ IsFiniteSet(IPHolders(i))
                   /\ perIP[i] = Cardinality(IPHolders(i))
                   /\ perIP[i] <= MaxPendingPerIP

(* The end of a handler keeps the types of what it changes.                *)
LEMMA ReturnTypes ==
    ASSUME TypeOK, NEW c \in Conns, Return(c)
    PROVE  /\ pc' \in [Conns -> PCs] /\ inflight' \subseteq Conns
           /\ open' \subseteq Conns /\ silent' \subseteq Conns
           /\ ok' \in [Conns -> BOOLEAN]
BY DEF TypeOK, Return, Goto, PCs

(* Every step of ControlServer keeps its types.                            *)
LEMMA TypeStep == TypeOK /\ [Next]_vars /\ (Reserving => accepted \in Conns)
                    => TypeOK'
<1> SUFFICES ASSUME TypeOK, [Next]_vars, Reserving => accepted \in Conns
             PROVE  TypeOK'
  OBVIOUS
<1> USE ServerAssumption DEF TypeOK
<1>1. CASE UNCHANGED vars
  BY <1>1 DEF vars, loop, slots, grants
<1>2. CASE Admit
  BY <1>2 DEF Admit, Reserving, grants, PCs, Pending, Reading
<1>3. CASE GiveBack
  BY <1>3 DEF GiveBack, Reserving, grants, PCs
<1>4. CASE AcceptEnds \/ Wait \/ Stop \/ CloseListener
  BY <1>4 DEF AcceptEnds, Wait, Stop, CloseListener, slots, grants
<1>5. ASSUME NEW c \in Conns, Accept(c) PROVE TypeOK'
  BY <1>5 DEF Accept, grants, PCs
<1>6. ASSUME NEW c \in Conns, CloseConn(c) \/ FallSilent(c) PROVE TypeOK'
  BY <1>6 DEF CloseConn, FallSilent, loop, slots, grants
<1>7. ASSUME NEW c \in Conns, Receive(c) \/ HandshakeFail(c) \/ Reply(c)
                                \/ KeepaliveEnds(c)
      PROVE  TypeOK'
  <2>1. CASE Receive(c)
    BY <2>1, <1>7 DEF Receive, Goto, loop, slots, grants, PCs, Pending, Reading
  <2>2. CASE HandshakeFail(c)
    BY <2>2, <1>7 DEF HandshakeFail, Goto, loop, slots, grants, PCs, Pending, Reading
  <2>3. CASE Reply(c)
    BY <2>3, <1>7 DEF Reply, Goto, loop, slots, grants, PCs, Pending, Reading
  <2>4. CASE KeepaliveEnds(c)
    BY <2>4, <1>7 DEF KeepaliveEnds, Goto, loop, slots, grants, PCs
  <2> QED BY <1>7, <2>1, <2>2, <2>3, <2>4
<1>8. ASSUME NEW c \in Conns, Establish(c) \/ Undo(c) \/ Teardown(c)
      PROVE  TypeOK'
  <2>1. CASE Establish(c) \/ Undo(c)
    BY <2>1, <1>8 DEF Establish, Undo, Goto, loop, slots, PCs, Pending
  <2>2. CASE Teardown(c)
    <3>1. teardowns' \in [Conns -> Nat]
      BY <2>2 DEF Teardown
    <3>2. Return(c) /\ UNCHANGED <<loop, slots, granted>>
      BY <2>2 DEF Teardown
    <3> QED BY <1>8, <3>1, <3>2, ReturnTypes DEF loop, slots
  <2> QED BY <1>8, <2>1, <2>2
<1>9. ASSUME NEW c \in Conns, ReleaseIP(c) PROVE TypeOK'
  BY <1>9 DEF ReleaseIP, Goto, loop, grants, PCs
<1>10. ASSUME NEW c \in Conns, ReleaseSem(c) PROVE TypeOK'
  <2>1. sem' \in Nat /\ UNCHANGED <<loop, perIP, grants>>
    BY <1>10 DEF ReleaseSem
  <2>2. CASE Return(c)
    BY <1>10, <2>1, <2>2, ReturnTypes DEF loop, grants
  <2>3. CASE Goto(c, "keepalive") /\ UNCHANGED <<open, inflight, silent, ok>>
    BY <1>10, <2>1, <2>3 DEF Goto, loop, grants, PCs
  <2> QED BY <1>10, <2>2, <2>3 DEF ReleaseSem
<1> QED
  BY <1>1, <1>2, <1>3, <1>4, <1>5, <1>6, <1>7, <1>8, <1>9, <1>10
     DEF Next, Handler

(* Every step keeps what the pc of a handler says about its grant, and the *)
(* agreement between accept loop, WaitGroup and handlers.                  *)
LEMMA LifeStep == TypeOK /\ LifeInv /\ [Next]_vars => LifeInv'
<1> SUFFICES ASSUME TypeOK, LifeInv, [Next]_vars PROVE LifeInv'
  OBVIOUS
<1> USE DEF LifeInv, TypeOK
<1>1. CASE UNCHANGED vars
  BY <1>1 DEF vars, loop, slots, grants, LifeOf, Fresh, Open, Settled, Reserving
<1>2. CASE Admit
  BY <1>2, ServerAssumption DEF Admit, grants, LifeOf, Fresh, Open, Settled, Reserving, Reading
<1>3. CASE GiveBack
  BY <1>3, ServerAssumption DEF GiveBack, grants, LifeOf, Fresh, Open, Settled, Reserving, Reading
<1>4. CASE AcceptEnds \/ Wait \/ Stop \/ CloseListener
  BY <1>4 DEF AcceptEnds, Wait, Stop, CloseListener, slots, grants, LifeOf,
              Fresh, Open, Settled, Reserving
<1>5. ASSUME NEW c \in Conns, Accept(c) PROVE LifeInv'
  BY <1>5 DEF Accept, grants, LifeOf, Fresh, Open, Settled, Reserving, Reading
<1>6. ASSUME NEW c \in Conns, CloseConn(c) \/ FallSilent(c) PROVE LifeInv'
  BY <1>6 DEF CloseConn, FallSilent, loop, slots, grants, LifeOf, Fresh, Open,
              Settled, Reserving
<1>7. ASSUME NEW c \in Conns, Handler(c) PROVE LifeInv'
  <2> USE DEF Exited, At, Goto, loop, slots, grants, LifeOf, Fresh, Open,
              Settled, Reserving, Reading
  <2>1. CASE Receive(c)
    BY <2>1 DEF Receive
  <2>2. CASE HandshakeFail(c)
    BY <2>2 DEF HandshakeFail
  <2>3. CASE Establish(c)
    BY <2>3 DEF Establish
  <2>4. CASE Reply(c)
    BY <2>4 DEF Reply
  <2>5. CASE Undo(c)
    BY <2>5 DEF Undo
  <2>6. CASE ReleaseIP(c)
    BY <2>6 DEF ReleaseIP
  <2>7. CASE ReleaseSem(c)
    BY <2>7 DEF ReleaseSem, Return
  <2>8. CASE KeepaliveEnds(c)
    BY <2>8 DEF KeepaliveEnds
  <2>9. CASE Teardown(c)
    BY <2>9 DEF Teardown, Return
  <2> QED
    BY <1>7, <2>1, <2>2, <2>3, <2>4, <2>5, <2>6, <2>7, <2>8, <2>9 DEF Handler
<1> QED
  BY <1>1, <1>2, <1>3, <1>4, <1>5, <1>6, <1>7 DEF Next

(* A step that moves one handler from one pc to another changes the sets   *)
(* of slot holders by at most that handler.                                *)
LEMMA Move ==
    ASSUME TypeOK, NEW c \in Conns, NEW where \in PCs, Goto(c, where)
    PROVE  /\ HoldsSem(c)' => SemHolders' = SemHolders \cup {c}
           /\ ~HoldsSem(c)' => SemHolders' = SemHolders \ {c}
           /\ HoldsIP(c)' => /\ IPHolders(ip[c])' = IPHolders(ip[c]) \cup {c}
                             /\ \A i \in IPs \ {ip[c]} :
                                    IPHolders(i)' = IPHolders(i)
           /\ ~HoldsIP(c)' => /\ IPHolders(ip[c])' = IPHolders(ip[c]) \ {c}
                              /\ \A i \in IPs \ {ip[c]} :
                                    IPHolders(i)' = IPHolders(i)
<1> pc' = [pc EXCEPT ![c] = where] /\ pc \in [Conns -> PCs]
  BY DEF Goto, TypeOK
<1>1. \A d \in Conns : d # c => pc'[d] = pc[d]
  OBVIOUS
<1>2. \A d \in Conns : d # c => /\ HoldsSem(d)' <=> HoldsSem(d)
                                /\ HoldsIP(d)' <=> HoldsIP(d)
  BY <1>1 DEF HoldsSem, HoldsIP
<1>3. HoldsSem(c)' => SemHolders' = SemHolders \cup {c}
  BY <1>2 DEF SemHolders
<1>4. ~HoldsSem(c)' => SemHolders' = SemHolders \ {c}
  BY <1>2 DEF SemHolders
<1>5. \A i \in IPs \ {ip[c]} : IPHolders(i)' = IPHolders(i)
  BY <1>2 DEF IPHolders
<1>6. HoldsIP(c)' => IPHolders(ip[c])' = IPHolders(ip[c]) \cup {c}
  BY <1>2 DEF IPHolders
<1>7. ~HoldsIP(c)' => IPHolders(ip[c])' = IPHolders(ip[c]) \ {c}
  BY <1>2 DEF IPHolders
<1> QED
  BY <1>3, <1>4, <1>5, <1>6, <1>7

(* A step that moves no handler changes neither set.                       *)
LEMMA Still ==
    ASSUME pc' = pc
    PROVE  SemHolders' = SemHolders /\ \A i \in IPs : IPHolders(i)' = IPHolders(i)
BY DEF SemHolders, IPHolders, HoldsSem, HoldsIP

(* A step that keeps the handler's claim on slots keeps the counts.        *)
LEMMA Keep ==
    ASSUME TypeOK, SemInv, IPInv, NEW c \in Conns, NEW where \in PCs,
           Goto(c, where), HoldsSem(c)' <=> HoldsSem(c),
           HoldsIP(c)' <=> HoldsIP(c), UNCHANGED slots,
           Reserving' <=> Reserving
    PROVE  SemInv' /\ IPInv'
<1>1. SemHolders' = SemHolders
  BY Move DEF SemHolders
<1>2. \A i \in IPs : IPHolders(i)' = IPHolders(i)
  BY Move DEF IPHolders
<1>3. SemInv'
  BY <1>1 DEF SemInv, slots
<1>4. IPInv'
  BY <1>2 DEF IPInv, slots
<1> QED
  BY <1>3, <1>4

(* reserve() and release() keep the counts exact and within bounds.        *)
LEMMA SlotStep ==
    TypeOK /\ LifeInv /\ SemInv /\ IPInv /\ [Next]_vars => SemInv' /\ IPInv'
<1> SUFFICES ASSUME TypeOK, LifeInv, SemInv, IPInv, [Next]_vars
             PROVE  SemInv' /\ IPInv'
  OBVIOUS
<1> USE DEF PCs, Pending, Reading
<1>1. ASSUME UNCHANGED <<pc, slots>>, Reserving' <=> Reserving
      PROVE  SemInv' /\ IPInv'
  BY <1>1, Still DEF SemInv, IPInv, slots
<1>2. CASE UNCHANGED vars
  BY <1>2, <1>1 DEF vars, loop, Reserving
<1>3. CASE AcceptEnds \/ Wait \/ Stop \/ CloseListener
  BY <1>3, <1>1 DEF AcceptEnds, Wait, Stop, CloseListener, Reserving
<1>4. ASSUME NEW c \in Conns, CloseConn(c) \/ FallSilent(c)
      PROVE  SemInv' /\ IPInv'
  BY <1>4, <1>1 DEF CloseConn, FallSilent, loop, Reserving
<1>5. ASSUME NEW c \in Conns, Accept(c) PROVE SemInv' /\ IPInv'
  <2>1. CASE sem < MaxPendingHandshakes
    <3>1. pc' = pc /\ sem' = sem + 1 /\ perIP' = perIP /\ ~Reserving
          /\ Reserving'
      BY <1>5, <2>1, ServerAssumption DEF Accept, Reserving, TypeOK
    <3>2. SemInv'
      BY <3>1, <2>1, Still, ServerAssumption, FS_CardinalityType
         DEF SemInv, TypeOK
    <3>3. IPInv'
      BY <3>1, Still DEF IPInv
    <3> QED
      BY <3>2, <3>3
  <2>2. CASE ~(sem < MaxPendingHandshakes)
    <3>1. Goto(c, "closed") /\ UNCHANGED slots /\ (Reserving' <=> Reserving)
          /\ pc[c] = "new"
      BY <1>5, <2>2 DEF Accept, Goto, slots, Reserving
    <3>2. HoldsSem(c)' <=> HoldsSem(c)
      BY <3>1 DEF Goto, TypeOK, HoldsSem, HoldsIP
    <3>3. HoldsIP(c)' <=> HoldsIP(c)
      BY <3>1 DEF Goto, TypeOK, HoldsIP
    <3> QED
      BY <3>1, <3>2, <3>3, Keep
  <2> QED
    BY <2>1, <2>2
<1>6. CASE Admit
  <2>a. accepted \in Conns /\ pc[accepted] = "new" /\ Reserving
    BY <1>6 DEF Admit, LifeInv, Reserving
  <2>b. PICK c \in Conns : c = accepted
    BY <2>a
  <2>0. c \in Conns /\ pc[c] = "new" /\ Reserving
    BY <2>a, <2>b
  <2>1. CASE perIP[ip[c]] < MaxPendingPerIP
    <3>1. /\ Goto(c, "hello") /\ sem' = sem /\ ~Reserving'
          /\ perIP' = [perIP EXCEPT ![ip[c]] = @ + 1]
      BY <1>6, <2>b, <2>1, ServerAssumption, <2>0 DEF Admit, Goto, Reserving, TypeOK
    <3>2. HoldsIP(c)' /\ HoldsSem(c)'
      BY <3>1, <2>0 DEF Goto, TypeOK, HoldsSem, HoldsIP
    <3>3. c \notin SemHolders /\ c \notin IPHolders(ip[c])
      BY <2>0 DEF SemHolders, IPHolders, HoldsSem, HoldsIP
    <3>4. SemHolders' = SemHolders \cup {c}
      BY <3>1, <3>2, <2>0, Move
    <3>5. IsFiniteSet(SemHolders') /\ Cardinality(SemHolders') = Cardinality(SemHolders) + 1
      BY <3>3, <3>4, FS_AddElement DEF SemInv
    <3>6. SemInv'
      BY <3>5, <3>1, <2>0, ServerAssumption, FS_CardinalityType
         DEF SemInv, TypeOK
    <3>7. /\ IPHolders(ip[c])' = IPHolders(ip[c]) \cup {c}
          /\ \A i \in IPs \ {ip[c]} : IPHolders(i)' = IPHolders(i)
      BY <3>1, <3>2, <2>0, Move
    <3>8. ip[c] \in IPs
      BY <2>0, ServerAssumption
    <3>9. /\ IsFiniteSet(IPHolders(ip[c])')
          /\ Cardinality(IPHolders(ip[c])')
                = Cardinality(IPHolders(ip[c])) + 1
      BY <3>3, <3>7, <3>8, FS_AddElement DEF IPInv
    <3>10. ASSUME NEW i \in IPs
           PROVE  /\ IsFiniteSet(IPHolders(i)')
                  /\ perIP'[i] = Cardinality(IPHolders(i)')
                  /\ perIP'[i] <= MaxPendingPerIP
      <4>1. CASE i = ip[c]
        BY <4>1, <3>9, <3>1, <2>1, ServerAssumption DEF IPInv, TypeOK
      <4>2. CASE i # ip[c]
        BY <4>2, <3>7, <3>1 DEF IPInv, TypeOK
      <4> QED
        BY <4>1, <4>2
    <3>11. IPInv'
      BY <3>10 DEF IPInv
    <3> QED
      BY <3>6, <3>11
  <2>2. CASE ~(perIP[ip[c]] < MaxPendingPerIP)
    BY <2>2, <2>b, <1>6, <1>1, <2>0 DEF Admit, Reserving, slots
  <2> QED
    BY <2>1, <2>2
<1>7. CASE GiveBack
  <2>0. accepted \in Conns /\ pc[accepted] = "new" /\ Reserving
    BY <1>7 DEF GiveBack, LifeInv, Reserving
  <2>1. Goto(accepted, "closed") /\ sem' = sem - 1 /\ perIP' = perIP /\ ~Reserving'
    BY <1>7 DEF GiveBack, Goto, Reserving
  <2>2. SemHolders' = SemHolders
    BY <2>0, <2>1, Move DEF SemHolders, HoldsSem, HoldsIP, Goto, TypeOK
  <2>3. \A i \in IPs : IPHolders(i)' = IPHolders(i)
    BY <2>0, <2>1, Move DEF IPHolders, HoldsIP, Goto, TypeOK
  <2>4. SemInv'
    BY <2>0, <2>1, <2>2, ServerAssumption, FS_CardinalityType
       DEF SemInv, TypeOK
  <2>5. IPInv'
    BY <2>1, <2>3 DEF IPInv
  <2> QED
    BY <2>4, <2>5
<1>8. ASSUME NEW c \in Conns, NEW where \in PCs, Goto(c, where), UNCHANGED <<loop, slots>>,
             \/ pc[c] \in Pending /\ where \in Pending \cup {"releaseIP"}
             \/ pc[c] = "keepalive" /\ where = "teardown"
             \/ pc[c] = "teardown" /\ where = "closed"
      PROVE  SemInv' /\ IPInv'
  <2>1. HoldsSem(c)' <=> HoldsSem(c)
    BY <1>8 DEF Goto, TypeOK, HoldsSem, HoldsIP
  <2>2. HoldsIP(c)' <=> HoldsIP(c)
    BY <1>8 DEF Goto, TypeOK, HoldsIP
  <2>3. Reserving' <=> Reserving
    BY <1>8 DEF loop, Reserving
  <2> QED
    BY <1>8, <2>1, <2>2, <2>3, Keep
<1>9. ASSUME NEW c \in Conns, ReleaseIP(c) PROVE SemInv' /\ IPInv'
  <2>1. /\ Goto(c, "releaseSem") /\ pc[c] = "releaseIP" /\ UNCHANGED <<loop, sem>>
        /\ perIP' = [perIP EXCEPT ![ip[c]] = IF @ > 0 THEN @ - 1 ELSE @]
    BY <1>9 DEF ReleaseIP, At
  <2>2. HoldsSem(c)' /\ ~HoldsIP(c)' /\ c \in SemHolders /\ c \in IPHolders(ip[c])
    BY <2>1 DEF Goto, TypeOK, HoldsSem, HoldsIP, SemHolders, IPHolders
  <2>3. SemHolders' = SemHolders /\ (Reserving' <=> Reserving)
    BY <2>1, <2>2, Move DEF Reserving, loop
  <2>4. SemInv'
    BY <2>1, <2>3 DEF SemInv
  <2>5. /\ IPHolders(ip[c])' = IPHolders(ip[c]) \ {c}
        /\ \A i \in IPs \ {ip[c]} : IPHolders(i)' = IPHolders(i)
    BY <2>1, <2>2, Move
  <2>6. ip[c] \in IPs
    BY ServerAssumption
  <2>7. /\ IsFiniteSet(IPHolders(ip[c])')
        /\ Cardinality(IPHolders(ip[c])') = Cardinality(IPHolders(ip[c])) - 1
        /\ Cardinality(IPHolders(ip[c])') \in Nat
        /\ Cardinality(IPHolders(ip[c])) \in Nat
    BY <2>2, <2>5, <2>6, FS_RemoveElement, FS_CardinalityType DEF IPInv
  <2>8. ASSUME NEW i \in IPs
        PROVE  /\ IsFiniteSet(IPHolders(i)')
               /\ perIP'[i] = Cardinality(IPHolders(i)')
               /\ perIP'[i] <= MaxPendingPerIP
    <3>1. CASE i = ip[c]
      BY <3>1, <2>7, <2>1, ServerAssumption DEF IPInv, TypeOK
    <3>2. CASE i # ip[c]
      BY <3>2, <2>5, <2>1 DEF IPInv, TypeOK
    <3> QED
      BY <3>1, <3>2
  <2>9. IPInv'
    BY <2>8 DEF IPInv
  <2> QED
    BY <2>4, <2>9
<1>10. ASSUME NEW c \in Conns, ReleaseSem(c) PROVE SemInv' /\ IPInv'
  <2>1. /\ \E where \in {"keepalive", "closed"} : Goto(c, where)
        /\ pc[c] = "releaseSem" /\ UNCHANGED <<loop, perIP>> /\ sem' = sem - 1
    BY <1>10 DEF ReleaseSem, At, Return
  <2>2. PICK where \in {"keepalive", "closed"} : Goto(c, where)
    BY <2>1
  <2>3. ~HoldsSem(c)' /\ ~HoldsIP(c)' /\ c \in SemHolders /\ ~HoldsIP(c)
    BY <2>1, <2>2 DEF Goto, TypeOK, HoldsSem, HoldsIP, SemHolders
  <2>4. SemHolders' = SemHolders \ {c} /\ (Reserving' <=> Reserving)
    BY <2>1, <2>2, <2>3, Move DEF Reserving, loop
  <2>5. /\ IsFiniteSet(SemHolders')
        /\ Cardinality(SemHolders') = Cardinality(SemHolders) - 1
        /\ Cardinality(SemHolders) \in Nat
    BY <2>3, <2>4, FS_RemoveElement, FS_CardinalityType DEF SemInv
  <2>6. SemInv'
    BY <2>1, <2>4, <2>5, ServerAssumption DEF SemInv, TypeOK
  <2>7. \A i \in IPs : IPHolders(i)' = IPHolders(i)
    BY <2>2, <2>3, Move DEF IPHolders
  <2>8. IPInv'
    BY <2>1, <2>7 DEF IPInv
  <2> QED
    BY <2>6, <2>8
<1>11. ASSUME NEW c \in Conns, Handler(c) PROVE SemInv' /\ IPInv'
  BY <1>11, <1>8, <1>9, <1>10
     DEF Handler, Receive, HandshakeFail, Establish, Reply, Undo, KeepaliveEnds,
         Teardown, Return, At, slots, loop
<1> QED
  BY <1>2, <1>3, <1>4, <1>5, <1>6, <1>7, <1>11 DEF Next

-----------------------------------------------------------------------------
Inv == TypeOK /\ LifeInv /\ SemInv /\ IPInv

(* The conjunction is inductive.                                           *)
THEOREM Inductive == Spec => []Inv
<1>1. Init => Inv
  <2> SUFFICES ASSUME Init PROVE Inv
    OBVIOUS
  <2>1. TypeOK
    BY ServerAssumption DEF Init, TypeOK, PCs
  <2>2. LifeInv
    BY DEF Init, LifeInv, LifeOf, Fresh, Reserving
  <2>3. SemHolders = {} /\ \A i \in IPs : IPHolders(i) = {}
    BY DEF Init, SemHolders, IPHolders, HoldsSem, HoldsIP, Pending, Reading
  <2>4. SemInv
    BY <2>3, FS_EmptySet, ServerAssumption DEF Init, SemInv, Reserving
  <2>5. IPInv
    BY <2>3, FS_EmptySet, ServerAssumption DEF Init, IPInv
  <2> QED
    BY <2>1, <2>2, <2>4, <2>5 DEF Inv
<1>2. Inv /\ [Next]_vars => Inv'
  BY TypeStep, LifeStep, SlotStep DEF Inv, LifeInv
<1> QED
  BY <1>1, <1>2, PTL DEF Spec

(* Every variable of ControlServer keeps its type.                         *)
THEOREM TypeCorrect == Spec => []TypeOK
BY Inductive, PTL DEF Inv

(* reserve and release (server.go:149-178) keep the two counts equal to    *)
(* the handshakes in progress and within their bounds, for any bounds and  *)
(* any number of connections.                                              *)
THEOREM SlotsCorrect == Spec => []SlotsMatchHandshakes
<1>1. Inv => SlotsMatchHandshakes
  BY DEF Inv, SemInv, IPInv, SemHolders, IPHolders, SlotsMatchHandshakes
<1> QED
  BY <1>1, Inductive, PTL

(* handle (server.go:180-213) calls Teardown exactly once for every grant. *)
THEOREM TeardownOnce == Spec => []OneTeardownPerGrant
<1>1. Inv => OneTeardownPerGrant
  BY DEF Inv, TypeOK, LifeInv, LifeOf, Fresh, Open, Settled,
         OneTeardownPerGrant, PCs, Pending, Reading
<1> QED
  BY <1>1, Inductive, PTL

(* When a cancelled Serve returns (server.go:124-128), every granted       *)
(* session has been torn down.                                             *)
THEOREM ShutdownIsClean == Spec => []CleanShutdown
<1>1. Inv => CleanShutdown
  BY DEF Inv, TypeOK, LifeInv, LifeOf, Fresh, Open, Settled, CleanShutdown,
         AllTornDown, PCs, Pending, Reading
<1> QED
  BY <1>1, Inductive, PTL

=============================================================================
