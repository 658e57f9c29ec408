------------------------- MODULE ServerSystemProofs -------------------------
(***************************************************************************)
(* The whole server.  Every step of it is a step, or none, of the control  *)
(* server, and one, or none, of the session manager, so what is proved of  *)
(* either holds of the two together.  On top of that: what a connection    *)
(* has been granted is taken away again, and a Serve that has returned     *)
(* leaves nothing, but for the sessions a reconnect overtook.  Last, that  *)
(* an accepted configuration is one the manager can rely on.               *)
(*                                                                         *)
(* M is the session manager as ServerSystem composes it, MP the same with  *)
(* the lemmas proved of it; they agree definition by definition.           *)
(***************************************************************************)
EXTENDS MCServerSystem, ControlServerProofs

(* Most leaves are first-order: each is tried with Zenon before SMT.       *)
USE ZenonT(4), SMTT(20), ZenonT(20), SMTT(40)

MP == INSTANCE SessionManagerProofs WITH pc <- call

(* The assumptions under which the manager's lemmas are proved.            *)
LEMMA Assumptions ==
    MP!PoolAssumption /\ MP!ConfigAssumption /\ MP!ManagerAssumption
BY SystemAssumption
   DEF M!PoolAssumption, M!ConfigAssumption, M!ManagerAssumption, MP!PoolAssumption,
       MP!ConfigAssumption, MP!ManagerAssumption, M!Pinnable, MP!Pinnable, M!IfNames,
       MP!IfNames, M!ifName, MP!ifName, M!NoAddr, MP!NoAddr

(* The manager's state and its helpers, as its proofs see them.            *)
LEMMA SameState ==
    /\ M!IfNames = MP!IfNames
    /\ M!Init <=> MP!Init
    /\ \A x : M!Evictee(x) = MP!Evictee(x)
    /\ UNCHANGED M!vars <=> UNCHANGED MP!vars
    /\ UNCHANGED manager => UNCHANGED MP!vars
<1>1. M!IfNames = MP!IfNames
  BY DEF M!IfNames, MP!IfNames, M!ifName, MP!ifName
<1>2. M!Init <=> MP!Init
  BY <1>1 DEF M!Init, MP!Init, M!NilEntry, MP!NilEntry, M!NoAddr, MP!NoAddr, M!NoTime, MP!NoTime
<1>3. \A x : M!Evictee(x) = MP!Evictee(x)
  BY DEF M!Evictee, MP!Evictee
<1>4. UNCHANGED M!vars <=> UNCHANGED MP!vars
  BY DEF M!vars, MP!vars, M!conn, MP!conn, M!registry, MP!registry, M!plane, MP!plane
<1>5. UNCHANGED manager => UNCHANGED MP!vars
  BY DEF manager, MP!vars, MP!conn, MP!registry, MP!plane
<1> QED BY <1>1, <1>2, <1>3, <1>4, <1>5

(* The steps inside a call of the manager ...                              *)
LEMMA SameWork == \A c : M!Work(c) <=> MP!Work(c)
BY DEF MP!Work, M!Work, M!Ensure, MP!Ensure, M!EnsureFail, MP!EnsureFail, M!ApplyFail,
       MP!ApplyFail, M!Unwind, MP!Unwind, M!Abort, MP!Abort, M!UpHook, MP!UpHook,
       M!Unplumb, MP!Unplumb, M!DownHook, MP!DownHook, M!Goto, MP!Goto, M!Return,
       MP!Return, M!registry, MP!registry, M!plane, MP!plane, M!RemoveInterface,
       MP!RemoveInterface, M!SessionsWithout, MP!SessionsWithout, M!NoAddr, MP!NoAddr,
       M!NoTime, MP!NoTime

(* ... and those that begin one.                                           *)
LEMMA SameCalls ==
    /\ \A c : M!EstablishReject(c) <=> MP!EstablishReject(c)
    /\ \A c : M!Teardown(c) <=> MP!Teardown(c)
    /\ M!Tick <=> MP!Tick
BY DEF M!EstablishReject, MP!EstablishReject, M!Teardown, MP!Teardown, M!Tick, MP!Tick,
       M!Return, MP!Return, M!Goto, MP!Goto, M!registry, MP!registry, M!plane, MP!plane,
       M!conn, MP!conn, M!SessionsWithout, MP!SessionsWithout, M!UsedWithout, MP!UsedWithout

(* Establish, by way of the address, the key and the name it picks.        *)
LEMMA SameEstablish ==
    \A c, x, req : /\ M!Register(c, x, req) <=> MP!Register(c, x, req)
                   /\ M!EstablishFail(c, x, req) <=> MP!EstablishFail(c, x, req)
<1>1. \A x, req, L, U : M!allocInner(x, req, L, U) = MP!allocInner(x, req, L, U)
  BY DEF M!allocInner, MP!allocInner, M!Claimable, MP!Claimable, M!ClaimedByOthers,
         MP!ClaimedByOthers, M!AllocateSpecificOK, MP!AllocateSpecificOK, M!Allocate,
         MP!Allocate, M!Pinned, MP!Pinned, M!NoAddr, MP!NoAddr
<1>2. \A S : M!randomKey(S) = MP!randomKey(S)
  BY DEF M!randomKey, MP!randomKey
<1>3. /\ M!PurgedLeases = MP!PurgedLeases /\ M!PurgedAges = MP!PurgedAges
      /\ \A e : M!UsedWithout(e) = MP!UsedWithout(e)
      /\ \A k : M!SessionsWithout(k) = MP!SessionsWithout(k)
      /\ \A x, k : M!ifNameFor(x, k) = MP!ifNameFor(x, k)
  BY DEF M!PurgedLeases, MP!PurgedLeases, M!PurgedAges, MP!PurgedAges, M!Expired,
         MP!Expired, M!SessionsWithout, MP!SessionsWithout, M!UsedWithout, MP!UsedWithout,
         M!ifNameFor, MP!ifNameFor, M!ifName, MP!ifName, M!NoAddr, MP!NoAddr, M!NoTime,
         MP!NoTime
<1>4. \A c, x, req : M!Register(c, x, req) <=> MP!Register(c, x, req)
  BY <1>1, <1>2, <1>3, SameState
     DEF M!Register, MP!Register, M!Goto, MP!Goto, M!plane, MP!plane
<1>5. \A c, x, req : M!EstablishFail(c, x, req) <=> MP!EstablishFail(c, x, req)
  BY <1>1, <1>2, <1>3, SameState
     DEF M!EstablishFail, MP!EstablishFail, M!Goto, MP!Goto, M!Return, MP!Return,
         M!plane, MP!plane
<1> QED BY <1>4, <1>5

(* So both take the same steps.                                            *)
LEMMA SameNext == M!Next <=> MP!Next
BY SameWork, SameCalls, SameEstablish DEF M!Next, MP!Next

(* Every step of the server is a step, or none, of the control server ...  *)
LEMMA ServerSteps == [SystemNext]_system => [Next]_vars
BY DEF SystemNext, system, Next, Handler, ServeStep, LeasesAge, EstablishBegins,
       TeardownBegins, CallProceeds, EstablishReturns, TeardownReturns, HandlerStep

(* ... and one, or none, of the session manager.                           *)
LEMMA ManagerSteps == [SystemNext]_system => [MP!Next]_(MP!vars)
<1> SUFFICES ASSUME [SystemNext]_system PROVE MP!Next \/ UNCHANGED MP!vars
  OBVIOUS
<1>1. ASSUME UNCHANGED manager PROVE UNCHANGED MP!vars
  BY <1>1, SameState
<1>2. ASSUME NEW c \in Conns, EstablishBegins(c) \/ TeardownBegins(c) \/ CallProceeds(c)
      PROVE  MP!Next
  BY <1>2, SameWork, SameCalls, SameEstablish
     DEF EstablishBegins, TeardownBegins, CallProceeds, MP!Next
<1>3. CASE LeasesAge
  BY <1>3, SameCalls DEF LeasesAge, MP!Next
<1>4. ASSUME NEW c \in Conns, EstablishReturns(c) \/ TeardownReturns(c) \/ HandlerStep(c)
      PROVE  UNCHANGED manager
  BY <1>4 DEF EstablishReturns, TeardownReturns, HandlerStep
<1>5. CASE ServeStep \/ UNCHANGED system
  BY <1>5, <1>1 DEF ServeStep, system
<1> QED BY <1>1, <1>2, <1>3, <1>4, <1>5 DEF SystemNext

(* server.go and manager.go together: the handlers with the calls they     *)
(* make of Establish and Teardown implement the specification of each, so  *)
(* what is proved of either holds of the server.                           *)
THEOREM Composition == SystemSpec => Spec /\ M!Spec
<1>1. SystemInit => Init /\ M!Init
  BY DEF SystemInit
<1>2. [SystemNext]_system => [Next]_vars
  BY ServerSteps
<1>3. [SystemNext]_system => [M!Next]_(M!vars)
  BY ManagerSteps, SameNext, SameState
<1> QED BY <1>1, <1>2, <1>3, PTL DEF SystemSpec, Spec, M!Spec

(* The invariant the manager's proofs establish holds in the server.       *)
LEMMA ManagerInductive == SystemSpec => [](MP!TypeOK /\ MP!ConnInv /\ MP!RegInv)
<1>1. SystemInit => MP!TypeOK /\ MP!ConnInv /\ MP!RegInv
  BY SameState, Assumptions, MP!InitInv
     DEF SystemInit, MP!InitInv, MP!PoolAssumption, MP!ConfigAssumption, MP!ManagerAssumption
<1>2. ASSUME MP!TypeOK, MP!ConnInv, MP!RegInv, [SystemNext]_system
      PROVE  (MP!TypeOK /\ MP!ConnInv /\ MP!RegInv)'
  <2>1. [MP!Next]_(MP!vars)
    BY <1>2, ManagerSteps
  <2>2. MP!TypeOK'
    BY <1>2, <2>1, Assumptions, MP!TypeStep
       DEF MP!TypeStep, MP!PoolAssumption, MP!ConfigAssumption, MP!ManagerAssumption
  <2>3. MP!ConnInv'
    BY <1>2, <2>1, Assumptions, MP!ConnStep
       DEF MP!ConnStep, MP!PoolAssumption, MP!ConfigAssumption, MP!ManagerAssumption
  <2>4. MP!RegInv'
    BY <1>2, <2>1, Assumptions, MP!RegStep
       DEF MP!RegStep, MP!PoolAssumption, MP!ConfigAssumption, MP!ManagerAssumption
  <2> QED BY <2>2, <2>3, <2>4
<1>3. MP!TypeOK /\ MP!ConnInv /\ MP!RegInv /\ [SystemNext]_system
        => (MP!TypeOK /\ MP!ConnInv /\ MP!RegInv)'
  BY <1>2
<1> QED BY <1>1, <1>3, PTL DEF SystemSpec

(* ... and so does the control server's.                                   *)
LEMMA ServerInductive == SystemSpec => []Inv
BY Composition, Inductive, PTL

-----------------------------------------------------------------------------
(* Where a handler is says how far its calls of the manager have come.     *)
CallOf(c) ==
    /\ pc[c] \in Reading \cup {"new"} => call[c] = "idle"
    /\ pc[c] = "establish" /\ result[c] = "OK" => call[c] = "up"
    /\ pc[c] \in {"reply", "keepalive"} => call[c] = "up"
    /\ pc[c] \in {"undo", "teardown"} => result[c] = "OK"
    /\ pc[c] \in {"releaseIP", "releaseSem"} =>
          IF ok[c] THEN call[c] = "up" ELSE call[c] \in {"idle", "done"}
    /\ pc[c] = "closed" => call[c] \in {"idle", "done"}

CallInv == \A c \in Conns : CallOf(c)

(* A step of the manager for one connection leaves the others' calls.      *)
LEMMA OneCall ==
    ASSUME MP!TypeOK, MP!ConnInv, MP!ResultInv, NEW c \in Conns,
           \/ MP!EstablishReject(c) \/ MP!Work(c) \/ MP!Teardown(c)
           \/ \E x \in Clients, req \in Requests :
                 MP!Register(c, x, req) \/ MP!EstablishFail(c, x, req)
    PROVE  /\ \A d \in Conns \ {c} : call'[d] = call[d] /\ result'[d] = result[d]
           /\ result[c] = "OK" => result'[c] = "OK"
           /\ result[c] # "OK" /\ result'[c] = "OK" => call'[c] = "up"
<1> USE DEF MP!TypeOK, MP!Return, MP!Goto
<1>1. CASE MP!EstablishReject(c)
  BY <1>1 DEF MP!EstablishReject, MP!ConnInv
<1>2. CASE MP!Work(c)
  BY <1>2 DEF MP!Work, MP!Ensure, MP!EnsureFail, MP!ApplyFail, MP!Unwind, MP!Abort,
              MP!UpHook, MP!Unplumb, MP!DownHook, MP!ResultInv
<1>3. CASE MP!Teardown(c)
  BY <1>3 DEF MP!Teardown
<1>4. ASSUME NEW x \in Clients, NEW req \in Requests, MP!Register(c, x, req)
      PROVE  /\ \A d \in Conns \ {c} : call'[d] = call[d]
             /\ result' = result
  BY <1>4 DEF MP!Register
<1>5. ASSUME NEW x \in Clients, NEW req \in Requests, MP!EstablishFail(c, x, req)
      PROVE  /\ \A d \in Conns \ {c} : call'[d] = call[d] /\ result'[d] = result[d]
             /\ result'[c] # "OK" /\ result[c] = "none"
  BY <1>5 DEF MP!EstablishFail, MP!ConnInv
<1> QED BY <1>1, <1>2, <1>3, <1>4, <1>5

(* HandleConn calls Establish at most once, and Teardown only for what     *)
(* Establish has returned without an error.                                *)
LEMMA CallStep ==
    ASSUME TypeOK, LifeInv, MP!TypeOK, MP!ConnInv, MP!ResultInv, CallInv, SystemNext
    PROVE  CallInv'
<1> USE DEF CallInv
<1>1. ASSUME NEW c \in Conns, EstablishBegins(c) \/ TeardownBegins(c) \/ CallProceeds(c)
      PROVE  CallInv'
  <2>1. /\ UNCHANGED <<pc, ok>> /\ pc[c] \in {"establish", "undo", "teardown"}
        /\ \/ MP!EstablishReject(c) \/ MP!Work(c) \/ MP!Teardown(c)
           \/ \E x \in Clients, req \in Requests :
                 MP!Register(c, x, req) \/ MP!EstablishFail(c, x, req)
    BY <1>1, SameWork, SameCalls, SameEstablish
       DEF EstablishBegins, TeardownBegins, CallProceeds, At, vars
  <2>2. /\ \A d \in Conns \ {c} : call'[d] = call[d] /\ result'[d] = result[d]
        /\ result[c] = "OK" => result'[c] = "OK"
        /\ result[c] # "OK" /\ result'[c] = "OK" => call'[c] = "up"
    BY <2>1, OneCall
  <2>3. \A d \in Conns \ {c} : CallOf(d)'
    BY <2>1, <2>2 DEF CallOf
  <2>4. CallOf(c)'
    <3>1. pc[c] = "establish" => call[c] # "up"
      BY <1>1, SameWork, SameEstablish, SameCalls
         DEF EstablishBegins, TeardownBegins, CallProceeds, At, MP!EstablishReject,
             MP!Register, MP!EstablishFail, MP!Work, MP!Ensure, MP!EnsureFail, MP!ApplyFail,
             MP!Unwind, MP!Abort, MP!UpHook, MP!Unplumb, MP!DownHook
    <3> QED BY <2>1, <2>2, <3>1 DEF CallOf, Reading
  <2> QED BY <2>3, <2>4
<1>2. ASSUME UNCHANGED manager, NEW c \in Conns, CallOf(c)',
             \A d \in Conns \ {c} : pc'[d] = pc[d] /\ ok'[d] = ok[d]
      PROVE  CallInv'
  BY <1>2 DEF CallOf, manager
<1>3. ASSUME UNCHANGED <<manager, pc, ok>> PROVE CallInv'
  BY <1>3 DEF CallOf, manager
<1>4. CASE LeasesAge
  BY <1>4, SameCalls DEF LeasesAge, MP!Tick, MP!conn, vars, CallOf
<1>5. CASE ServeStep
  <2>1. CASE Admit \/ GiveBack
    <3>1. accepted \in Conns /\ pc[accepted] = "new"
      BY <2>1 DEF LifeInv, Reserving, Admit, GiveBack
    <3>2. UNCHANGED <<manager, ok>>
          /\ pc' \in {pc, [pc EXCEPT ![accepted] = "hello"], [pc EXCEPT ![accepted] = "closed"]}
      BY <1>5, <2>1 DEF ServeStep, Admit, GiveBack
    <3>3. \A d \in Conns \ {accepted} : pc'[d] = pc[d] /\ ok'[d] = ok[d]
      BY <3>1, <3>2 DEF TypeOK
    <3>4. pc'[accepted] \in {"new", "hello", "closed"} /\ call'[accepted] = "idle"
      BY <3>1, <3>2 DEF TypeOK, CallOf, manager
    <3> QED BY <1>2, <3>1, <3>2, <3>3, <3>4 DEF CallOf
  <2>2. CASE AcceptEnds \/ Wait \/ Stop \/ CloseListener
    BY <1>3, <1>5, <2>2 DEF ServeStep, AcceptEnds, Wait, Stop, CloseListener
  <2> QED BY <1>5, <2>1, <2>2 DEF ServeStep
<1>6. ASSUME NEW c \in Conns, EstablishReturns(c) PROVE CallInv'
  <2>1. /\ pc[c] = "establish" /\ call[c] \in {"up", "done"} /\ UNCHANGED <<manager, ok>>
        /\ c \in granted' <=> call[c] = "up"
        /\ \/ granted' = granted \cup {c} /\ pc' = [pc EXCEPT ![c] = "reply"]
           \/ granted' = granted /\ pc' = [pc EXCEPT ![c] = "releaseIP"]
    BY <1>6 DEF EstablishReturns, Establish, At, Goto
  <2>2. c \notin granted /\ ~ok[c]
    BY <2>1 DEF LifeInv, LifeOf, Fresh
  <2>3. CallOf(c)'
    BY <2>1, <2>2 DEF CallOf, TypeOK, manager, Reading
  <2> QED BY <1>2, <2>1, <2>3 DEF TypeOK
<1>7. ASSUME NEW c \in Conns, TeardownReturns(c) PROVE CallInv'
  <2>1. call[c] = "done" /\ UNCHANGED manager
        /\ \A d \in Conns \ {c} : pc'[d] = pc[d] /\ ok'[d] = ok[d]
    BY <1>7 DEF TeardownReturns, Undo, Teardown, Return, Goto, TypeOK
  <2>2. \/ pc'[c] = "closed"
        \/ pc'[c] = "releaseIP" /\ ~ok'[c]
    BY <1>7 DEF TeardownReturns, Undo, Teardown, Return, Goto, At, TypeOK, LifeInv, LifeOf
  <2> QED BY <1>2, <2>1, <2>2 DEF CallOf, manager, Reading
<1>8. ASSUME NEW c \in Conns, HandlerStep(c) PROVE CallInv'
  <2>1. UNCHANGED manager
    BY <1>8 DEF HandlerStep
  <2>2. CASE CloseConn(c) \/ FallSilent(c)
    BY <1>3, <2>1, <2>2 DEF CloseConn, FallSilent
  <2>3. ASSUME pc' = pc \/ \E where \in PCs : Goto(c, where),
               \A d \in Conns \ {c} : ok'[d] = ok[d], CallOf(c)'
        PROVE  CallInv'
    BY <1>2, <2>1, <2>3 DEF Goto, TypeOK
  <2> USE DEF At, Goto, TypeOK, CallOf, manager, Reading, PCs, Pending
  <2>4. CASE Receive(c) \/ HandshakeFail(c)
    <3>1. pc[c] \in Reading /\ pc'[c] \in {"auth", "request", "establish", "releaseIP"} /\ ok' = ok
      BY <2>4 DEF Receive, HandshakeFail
    <3>2. call'[c] = "idle" /\ result'[c] = "none" /\ ~ok[c]
      BY <2>1, <3>1 DEF MP!ConnInv, LifeInv, LifeOf, Fresh
    <3>3. CallOf(c)'
      BY <3>1, <3>2
    <3>4. \E where \in PCs : Goto(c, where)
      BY <2>4 DEF Receive, HandshakeFail
    <3> QED BY <2>3, <3>1, <3>3, <3>4
  <2>5. CASE Reply(c)
    <3>1. call[c] = "up" /\ result[c] = "OK" /\ ~ok[c]
      BY <2>5 DEF Reply, MP!ResultInv, LifeInv, LifeOf
    <3>2. CallOf(c)' /\ \E where \in PCs : Goto(c, where)
      BY <2>1, <2>5, <3>1 DEF Reply
    <3> QED BY <2>3, <2>5, <3>2 DEF Reply
  <2>6. CASE ReleaseIP(c)
    <3>1. CallOf(c)' /\ \E where \in PCs : Goto(c, where)
      BY <2>1, <2>6 DEF ReleaseIP
    <3> QED BY <2>3, <2>6, <3>1 DEF ReleaseIP
  <2>7. CASE ReleaseSem(c)
    <3>1. CallOf(c)' /\ \E where \in PCs : Goto(c, where)
      BY <2>1, <2>7 DEF ReleaseSem, Return
    <3> QED BY <2>3, <2>7, <3>1 DEF ReleaseSem, Return
  <2>8. CASE KeepaliveEnds(c)
    <3>1. result[c] = "OK"
      BY <2>8 DEF KeepaliveEnds, MP!ResultInv
    <3>2. CallOf(c)' /\ \E where \in PCs : Goto(c, where)
      BY <2>1, <2>8, <3>1 DEF KeepaliveEnds
    <3> QED BY <2>3, <2>8, <3>2 DEF KeepaliveEnds
  <2>9. CASE Accept(c)
    <3>1. CallOf(c)' /\ (pc' = pc \/ \E where \in PCs : Goto(c, where)) /\ ok' = ok
      BY <2>1, <2>9 DEF Accept
    <3> QED BY <2>3, <3>1
  <2> QED BY <1>8, <2>2, <2>4, <2>5, <2>6, <2>7, <2>8, <2>9 DEF HandlerStep
<1> QED BY <1>1, <1>4, <1>5, <1>6, <1>7, <1>8 DEF SystemNext

-----------------------------------------------------------------------------
(* The inductive invariant: every session but the overtaken ones is        *)
(* accounted for.                                                          *)
CleanInv ==
    /\ MP!KeysDistinct /\ MP!ResultInv /\ MP!OwnInv /\ CallInv
    /\ \A c \in Conns \ lost : MP!Accounted(c)

(* The step that makes a session unaccounted for is the one that makes it  *)
(* an overtaken one: a reconnect that evicts it before its Establish has   *)
(* returned, or evicts it and then fails.                                  *)
LEMMA AccountStep ==
    ASSUME DistinctDraws, MP!CleanFailures, MP!TypeOK, MP!ConnInv, MP!RegInv, CleanInv,
           [SystemNext]_system, NEW e \in Conns \ lost'
    PROVE  MP!Accounted(e)'
<1> USE Assumptions DEF MP!PoolAssumption, MP!ConfigAssumption, MP!ManagerAssumption
<1>1. lost \subseteq lost' /\ (~(\E c \in Conns : EstablishBegins(c)) => lost' = lost)
  BY DEF SystemNext, system, ServeStep, LeasesAge, EstablishBegins,
         TeardownBegins, CallProceeds, EstablishReturns, TeardownReturns, HandlerStep
<1>2. MP!Accounted(e)
  BY <1>1 DEF CleanInv
<1>3. ASSUME NEW c \in Conns, EstablishBegins(c) PROVE MP!Accounted(e)'
  <2>1. CASE M!EstablishReject(c)
    BY <1>2, <2>1, SameCalls, MP!AccountedFail DEF MP!AccountedFail
  <2>2. ASSUME NEW x \in Clients, NEW req \in Requests, M!Register(c, x, req),
               lost' = lost \cup {d \in Evicted(x) : call[d] # "up"}
        PROVE  MP!Accounted(e)'
    <3>1. e # MP!Evictee(x) \/ call[e] = "up"
      BY <2>2, SameState DEF Evicted
    <3> QED BY <1>2, <2>2, <3>1, SameEstablish, MP!AccountedRegister
            DEF MP!AccountedRegister, CleanInv
  <2>3. ASSUME NEW x \in Clients, NEW req \in Requests, M!EstablishFail(c, x, req),
               lost' = lost \cup Evicted(x)
        PROVE  MP!Accounted(e)'
    <3>1. e # MP!Evictee(x)
      BY <2>3, SameState DEF Evicted
    <3> QED BY <1>2, <2>3, <3>1, SameEstablish, MP!AccountedFail
            DEF MP!AccountedFail
  <2> QED BY <1>3, <2>1, <2>2, <2>3 DEF EstablishBegins
<1>4. ASSUME NEW c \in Conns, TeardownBegins(c) PROVE MP!Accounted(e)'
  BY <1>2, <1>4, SameCalls, MP!AccountedTeardown
     DEF MP!AccountedTeardown, TeardownBegins, CleanInv
<1>5. ASSUME NEW c \in Conns, CallProceeds(c) PROVE MP!Accounted(e)'
  BY <1>2, <1>5, SameWork, MP!AccountedWork DEF MP!AccountedWork, CallProceeds, CleanInv
<1>6. ASSUME MP!Tick \/ UNCHANGED MP!vars PROVE MP!Accounted(e)'
  BY <1>2, <1>6, MP!AccountedIdle DEF MP!AccountedIdle
<1>7. CASE LeasesAge
  BY <1>6, <1>7, SameCalls DEF LeasesAge
<1>8. ASSUME NEW c \in Conns, EstablishReturns(c) \/ TeardownReturns(c) \/ HandlerStep(c)
      PROVE  UNCHANGED manager
  BY <1>8 DEF EstablishReturns, TeardownReturns, HandlerStep
<1>9. CASE ServeStep \/ UNCHANGED system
  BY <1>6, <1>9, SameState DEF ServeStep, system
<1> QED BY <1>3, <1>4, <1>5, <1>6, <1>7, <1>8, <1>9, SameState DEF SystemNext

(* Every step keeps the invariant.                                         *)
LEMMA CleanStep ==
    ASSUME DistinctDraws, MP!CleanFailures, Inv, MP!TypeOK, MP!ConnInv, MP!RegInv, CleanInv,
           [SystemNext]_system
    PROVE  CleanInv'
<1>1. [MP!Next]_(MP!vars)
  BY ManagerSteps
<1>2. MP!KeysDistinct'
  BY <1>1, Assumptions, MP!KeysStep
     DEF MP!KeysStep, CleanInv, MP!PoolAssumption, MP!ConfigAssumption, MP!ManagerAssumption
<1>3. MP!ResultInv'
  BY <1>1, Assumptions, MP!ResultStep
     DEF MP!ResultStep, CleanInv, MP!PoolAssumption, MP!ConfigAssumption, MP!ManagerAssumption
<1>4. MP!OwnInv'
  BY <1>1, Assumptions, MP!OwnStep
     DEF MP!OwnStep, CleanInv, MP!PoolAssumption, MP!ConfigAssumption, MP!ManagerAssumption
<1>5. CallInv'
  <2>1. CASE SystemNext
    BY <2>1, CallStep DEF CleanInv, Inv
  <2>2. CASE UNCHANGED system
    BY <2>2 DEF CleanInv, CallInv, CallOf, system, vars, manager
  <2> QED BY <2>1, <2>2
<1> QED BY <1>2, <1>3, <1>4, <1>5, AccountStep DEF CleanInv

(* It holds if keys do not repeat and no removal fails.                    *)
LEMMA CleanInductive ==
    ASSUME DistinctDraws, MP!CleanFailures
    PROVE  SystemSpec => []CleanInv
<1>1. SystemInit => CleanInv
  <2> SUFFICES ASSUME SystemInit PROVE CleanInv
    OBVIOUS
  <2>1. MP!KeysDistinct /\ MP!ResultInv /\ MP!OwnInv /\ \A c \in Conns : MP!Accounted(c)
    BY SameState, Assumptions, MP!AccountedInit
       DEF MP!AccountedInit, SystemInit, MP!PoolAssumption, MP!ConfigAssumption,
           MP!ManagerAssumption
  <2>2. CallInv
    BY SameState DEF SystemInit, Init, MP!Init, CallInv, CallOf
  <2> QED BY <2>1, <2>2 DEF CleanInv
<1>2. Inv /\ MP!TypeOK /\ MP!ConnInv /\ MP!RegInv /\ CleanInv /\ [SystemNext]_system
        => CleanInv'
  BY CleanStep
<1> QED BY <1>1, <1>2, ServerInductive, ManagerInductive, PTL DEF SystemSpec

(* server.go's deferred Teardown with manager.go's removeAndNotify: once a *)
(* connection is done and nobody is clearing its session away, neither its *)
(* interface nor its up hook is left, unless a reconnect overtook it.  The *)
(* hypotheses: 32-bit key draws do not repeat, and no netlink removal      *)
(* fails; a Remove that fails does leave the interface.                    *)
THEOREM TornDown ==
    ASSUME DistinctDraws, ~RemoveMayFail, "created" \notin EnsureFailures
    PROVE  SystemSpec => []TornDownUnlessOvertaken
<1>1. ASSUME MP!TypeOK, MP!RegInv, CleanInv, NEW c \in Conns \ lost, call[c] = "done",
             \A d \in Conns : victim[d] = c => call[d] \notin {"unplumb", "down"}
      PROVE  (\A n \in M!IfNames : ifaces[n] # c) /\ hook[c] # "up"
  BY <1>1, Assumptions, SameState, MP!AccountedDone
     DEF MP!AccountedDone, CleanInv, MP!PoolAssumption, MP!ConfigAssumption,
         MP!ManagerAssumption
<1>2. MP!TypeOK /\ MP!RegInv /\ CleanInv => TornDownUnlessOvertaken
  BY <1>1 DEF TornDownUnlessOvertaken
<1>3. MP!CleanFailures
  BY DEF MP!CleanFailures
<1> QED BY <1>2, <1>3, CleanInductive, ManagerInductive, PTL

(* Serve's wait for its handlers: when it returns after a cancellation, no *)
(* session is registered, no address is in use, and the only interfaces    *)
(* are those of overtaken sessions.                                        *)
THEOREM NothingLeft ==
    ASSUME DistinctDraws, ~RemoveMayFail, "created" \notin EnsureFailures
    PROVE  SystemSpec => []ShutdownLeavesNothing
<1>1. ASSUME Inv, MP!TypeOK, MP!RegInv, CleanInv, serve = "returned"
      PROVE  /\ \A k \in Keys : sessions[k] = NoConn
             /\ used = {}
             /\ \A n \in M!IfNames : ifaces[n] \in lost \cup {NoConn}
  <2>1. \A c \in Conns : pc[c] \in {"new", "closed"}
    BY <1>1 DEF Inv, LifeInv
  <2>2. \A c \in Conns : call[c] \in {"idle", "done"}
    BY <1>1, <2>1 DEF CleanInv, CallInv, CallOf
  <2>3. \A k \in Keys : sessions[k] = NoConn
    BY <1>1, <2>2 DEF MP!RegInv, MP!NoAbandonedSession, MP!Live, MP!TypeOK
  <2>4. used = {}
    BY <1>1, <2>3 DEF MP!RegInv, MP!Pool, MP!Live
  <2>5. \A c \in Conns \ lost : \A n \in M!IfNames : ifaces[n] # c
    BY <1>1, <2>2, Assumptions, SameState, MP!AccountedDone
       DEF MP!AccountedDone, CleanInv, MP!PoolAssumption, MP!ConfigAssumption,
           MP!ManagerAssumption
  <2>6. \A n \in M!IfNames : ifaces[n] \in Conns \cup {NoConn}
    BY <1>1, SameState DEF MP!TypeOK
  <2> QED BY <2>3, <2>4, <2>5, <2>6
<1>2. Inv /\ MP!TypeOK /\ MP!RegInv /\ CleanInv => ShutdownLeavesNothing
  BY <1>1 DEF ShutdownLeavesNothing
<1>3. MP!CleanFailures
  BY DEF MP!CleanFailures
<1> QED BY <1>2, <1>3, CleanInductive, ServerInductive, ManagerInductive, PTL

-----------------------------------------------------------------------------
(* Config.ValidateServer (config.go) and gre.ValidName, IsGeneratedName:   *)
(* a configuration that is accepted, whatever its clients, names and pool, *)
(* has what the manager relies on.  Every lease can be pinned, none is     *)
(* shared, and no pinned interface has the name of a session key.          *)
THEOREM ValidatedIsPromised ==
    ASSUME NEW c, ValidateServer(c)
    PROVE  Promised(c)
<1>1. c.serverInner \in c.innerPool
  BY DEF ValidateServer
<1>2. \A id \in DOMAIN c.leases : c.leases[id] \in c.innerPool \ {c.serverInner}
  BY DEF ValidateServer, LeasesValid
<1>3. Injective(c.leases)
  BY DEF ValidateServer, LeasesValid, Injective
<1>4. Injective(c.interfaces)
  BY DEF ValidateServer, InterfacesValid, Injective
<1>5. ASSUME NEW id \in DOMAIN c.interfaces
      PROVE  /\ c.interfaces[id] \notin GeneratedNames(MaxNameLen - 4)
             /\ NameLen(c.interfaces[id]) \in 1..MaxNameLen
  <2> DEFINE name == c.interfaces[id]
  <2>1. ValidName(name) /\ ~IsGeneratedName(name)
    BY <1>5 DEF ValidateServer, InterfacesValid
  <2>2. NameLen(name) \in 1..MaxNameLen
    BY <2>1 DEF ValidName
  <2>3. ASSUME NEW k \in 0..(MaxNameLen - 4), NEW key \in [1..k -> {"7", "c"}], name = <<"grem", key>>
        PROVE  FALSE
    <3>1. name[1] = "grem" /\ name[2] = key
      BY <2>3
    <3>2. \A i \in DOMAIN key : hexDigit(key[i])
      BY DEF hexDigit
    <3> QED BY <3>1, <3>2, <2>1 DEF IsGeneratedName
  <2>4. name \notin GeneratedNames(MaxNameLen - 4)
    <3> SUFFICES ASSUME name \in GeneratedNames(MaxNameLen - 4) PROVE FALSE
      OBVIOUS
    <3>1. PICK key \in UNION {[1..k -> {"7", "c"}] : k \in 0..(MaxNameLen - 4)} : name = <<"grem", key>>
      BY DEF GeneratedNames
    <3>2. PICK k \in 0..(MaxNameLen - 4) : key \in [1..k -> {"7", "c"}]
      OBVIOUS
    <3> QED BY <3>1, <3>2, <2>3
  <2> QED BY <2>2, <2>4
<1> QED BY <1>1, <1>2, <1>3, <1>4, <1>5 DEF Promised

(* In particular a server that starts can use the configuration it has     *)
(* been given.                                                             *)
THEOREM ConfigsUsable == SystemSpec => []AcceptedConfigsUsable
<1>1. AcceptedConfigsUsable
  BY ValidatedIsPromised DEF AcceptedConfigsUsable
<1> QED BY <1>1, PTL
=============================================================================
