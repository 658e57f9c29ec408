------------------------ MODULE SessionManagerProofs ------------------------
(***************************************************************************)
(* Proofs about SessionManager for all values of its constants: any number *)
(* of connections, clients, keys and addresses, any configuration, with    *)
(* and without failing calls and repeated keys.  First the registry        *)
(* itself, then what the manager promises its clients.                     *)
(***************************************************************************)
EXTENDS SessionManager, TLAPS

(* Most leaves are first-order: each is tried with Zenon before SMT.       *)
USE ZenonT(4), SMTT(20), ZenonT(20), SMTT(40)

(* What the registry invariants need to know about the connections.        *)
ConnInv ==
    \A c \in Conns :
        /\ pc[c] = "idle" => result[c] = "none"
        /\ pc[c] \notin {"idle", "done"} => /\ entry[c].key \in Keys
                                            /\ entry[c].client \in Clients
                                            /\ entry[c].ifName \in IfNames

-----------------------------------------------------------------------------
(* allocInnerLocked returns an address of the pool that is not reserved,   *)
(* not in use and not claimed by another client, and a client's configured *)
(* address if it has one.                                                  *)
LEMMA AllocInner ==
    ASSUME NEW x \in Clients, NEW req,
           NEW L \in [Clients -> Prefix \cup {NoAddr}], NEW U \in SUBSET Prefix,
           NEW a \in allocInner(x, req, L, U)
    PROVE  /\ a \in Prefix /\ a \notin Reserved /\ a \notin U /\ a # NoAddr
           /\ \A y \in Clients \ {x} : L[y] # a /\ StaticLease[y] # a
           /\ StaticLease[x] # NoAddr => a = StaticLease[x]
<1>1. CASE StaticLease[x] # NoAddr
  BY <1>1, PoolAssumption, ConfigAssumption DEF allocInner, Claimable, ClaimedByOthers, AllocateSpecificOK, NoAddr
<1>2. CASE StaticLease[x] = NoAddr /\ Claimable(x, req, L, U)
  BY <1>2, PoolAssumption DEF allocInner, Claimable, ClaimedByOthers, AllocateSpecificOK, NoAddr
<1>3. CASE StaticLease[x] = NoAddr /\ ~Claimable(x, req, L, U) /\ Claimable(x, L[x], L, U)
  BY <1>3, PoolAssumption DEF allocInner, Claimable, ClaimedByOthers, AllocateSpecificOK, NoAddr
<1>4. CASE StaticLease[x] = NoAddr /\ ~Claimable(x, req, L, U) /\ ~Claimable(x, L[x], L, U)
  <2>1. a \in Allocate(Pinned, U \cup ClaimedByOthers(x, L))
    BY <1>4 DEF allocInner
  <2>2. a \in Prefix /\ a \notin Reserved /\ a \notin U /\ a \notin ClaimedByOthers(x, L)
    BY <2>1 DEF Allocate
  <2> QED BY <1>4, <2>2, PoolAssumption DEF ClaimedByOthers, NoAddr
<1> QED BY <1>1, <1>2, <1>3, <1>4

-----------------------------------------------------------------------------
(* What a successful locked section of Establish does, with its address    *)
(* and its key named.                                                      *)
LEMMA RegisterStep ==
    ASSUME TypeOK, NEW c \in Conns, NEW x \in Clients, NEW req, Register(c, x, req)
    PROVE  \E a \in Prefix, k \in Keys :
             /\ pc[c] = "idle"
             /\ a \in allocInner(x, req, PurgedLeases, UsedWithout(Evictee(x)))
             /\ SessionsWithout(active[x])[k] = NoConn
             /\ entry' = [entry EXCEPT ![c] =
                    [client |-> x, key |-> k, ifName |-> ifNameFor(x, k), inner |-> a]]
             /\ sessions' = [SessionsWithout(active[x]) EXCEPT ![k] = c]
             /\ active' = [active EXCEPT ![x] = k]
             /\ leases' = [PurgedLeases EXCEPT ![x] = a]
             /\ used' = UsedWithout(Evictee(x)) \cup {a}
             /\ leaseAge' = [PurgedAges EXCEPT ![x] = 0]
<1>1. PurgedLeases \in [Clients -> Prefix \cup {NoAddr}]
  BY DEF TypeOK, PurgedLeases
<1>2. UsedWithout(Evictee(x)) \in SUBSET Prefix
  BY DEF TypeOK, UsedWithout
<1>3. PICK a \in allocInner(x, req, PurgedLeases, UsedWithout(Evictee(x))),
           k \in randomKey(SessionsWithout(active[x])) :
             /\ entry' = [entry EXCEPT ![c] =
                    [client |-> x, key |-> k, ifName |-> ifNameFor(x, k), inner |-> a]]
             /\ sessions' = [SessionsWithout(active[x]) EXCEPT ![k] = c]
             /\ active' = [active EXCEPT ![x] = k]
             /\ leases' = [PurgedLeases EXCEPT ![x] = a]
             /\ used' = UsedWithout(Evictee(x)) \cup {a}
  BY Zenon DEF Register
<1>4. a \in Prefix
  BY <1>1, <1>2, <1>3, AllocInner
<1>5. k \in Keys /\ SessionsWithout(active[x])[k] = NoConn
  BY <1>3 DEF randomKey
<1>6. pc[c] = "idle" /\ leaseAge' = [PurgedAges EXCEPT ![x] = 0]
  BY DEF Register
<1> QED BY <1>3, <1>4, <1>5, <1>6

LEMMA TypeStep ==
    ASSUME TypeOK, ConnInv, [Next]_vars
    PROVE  TypeOK'
<1> USE DEF TypeOK, PCs
<1>1. ASSUME NEW c \in Conns, EstablishReject(c) PROVE TypeOK'
  BY <1>1 DEF EstablishReject, Return, Goto, registry, plane
<1>2. ASSUME NEW c \in Conns, NEW x \in Clients, NEW req \in Requests,
             Register(c, x, req)
      PROVE  TypeOK'
  <2>1. PICK a \in Prefix, k \in Keys :
             /\ entry' = [entry EXCEPT ![c] =
                    [client |-> x, key |-> k, ifName |-> ifNameFor(x, k), inner |-> a]]
             /\ sessions' = [SessionsWithout(active[x]) EXCEPT ![k] = c]
             /\ active' = [active EXCEPT ![x] = k]
             /\ leases' = [PurgedLeases EXCEPT ![x] = a]
             /\ used' = UsedWithout(Evictee(x)) \cup {a}
             /\ leaseAge' = [PurgedAges EXCEPT ![x] = 0]
    BY <1>2, RegisterStep
  <2>2. ifNameFor(x, k) \in IfNames
    BY ConfigAssumption DEF ifNameFor, IfNames
  <2>3. entry' \in [Conns -> [client : Clients \cup {NoClient},
                              key    : Keys \cup {NoKey},
                              ifName : IfNames \cup {NoName},
                              inner  : Prefix \cup {NoAddr}]]
    BY <2>1, <2>2
  <2>4. Evictee(x) \in Conns \cup {NoConn}
    BY DEF Evictee
  <2>5. /\ victim' = [victim EXCEPT ![c] = Evictee(x)]
        /\ Goto(c, IF Evictee(x) = NoConn THEN "ensure" ELSE "unplumb")
        /\ UNCHANGED <<result, plane>>
    BY <1>2 DEF Register
  <2>6. /\ sessions' \in [Keys -> Conns \cup {NoConn}]
        /\ active' \in [Clients -> Keys \cup {NoKey}]
        /\ leases' \in [Clients -> Prefix \cup {NoAddr}]
        /\ used' \subseteq Prefix
    BY <2>1 DEF SessionsWithout, PurgedLeases, UsedWithout
  <2>7. leaseAge' \in [Clients -> 0..(LeaseTTL + 1) \cup {NoTime}]
    BY <2>1, ConfigAssumption DEF PurgedAges
  <2> QED BY <2>3, <2>4, <2>5, <2>6, <2>7 DEF Goto, plane
<1>3. ASSUME NEW c \in Conns, NEW x \in Clients, NEW req \in Requests,
             EstablishFail(c, x, req)
      PROVE  TypeOK'
  BY <1>3 DEF EstablishFail, Return, Goto, SessionsWithout, PurgedLeases,
              PurgedAges, UsedWithout, plane
<1>4. ASSUME NEW c \in Conns, Ensure(c) PROVE TypeOK'
  BY <1>4 DEF Ensure, Goto, registry
<1>5. ASSUME NEW c \in Conns, EnsureFail(c) PROVE TypeOK'
  <2>1. ifaces' \in [IfNames -> Conns \cup {NoConn}]
    BY <1>5 DEF EnsureFail
  <2> QED BY <1>5, <2>1 DEF EnsureFail, Goto, registry
<1>6. ASSUME NEW c \in Conns, ApplyFail(c) PROVE TypeOK'
  BY <1>6 DEF ApplyFail, Goto, registry, plane
<1>7. ASSUME NEW c \in Conns, Unwind(c) PROVE TypeOK'
  BY <1>7 DEF Unwind, RemoveInterface, Goto, registry
<1>8. ASSUME NEW c \in Conns, Abort(c) PROVE TypeOK'
  <2>1. CASE sessions[entry[c].key] = c
    <3>1. /\ sessions' \in [Keys -> Conns \cup {NoConn}]
          /\ used' \subseteq Prefix
          /\ leases' \in [Clients -> Prefix \cup {NoAddr}]
      BY <1>8, <2>1 DEF Abort, SessionsWithout
    <3>2. active' \in [Clients -> Keys \cup {NoKey}]
      BY <1>8, <2>1 DEF Abort
    <3>3. leaseAge' \in [Clients -> 0..(LeaseTTL + 1) \cup {NoTime}]
      BY <1>8, <2>1 DEF Abort
    <3> QED BY <1>8, <3>1, <3>2, <3>3 DEF Abort, Return, Goto, plane
  <2>2. CASE sessions[entry[c].key] # c
    BY <1>8, <2>2 DEF Abort, Return, Goto, registry, plane
  <2> QED BY <2>1, <2>2
<1>9. ASSUME NEW c \in Conns, UpHook(c) PROVE TypeOK'
  BY <1>9 DEF UpHook, Goto, registry
<1>10. ASSUME NEW c \in Conns, Teardown(c) PROVE TypeOK'
  <2>1. CASE sessions[entry[c].key] = NoConn
    BY <1>10, <2>1 DEF Teardown, Goto, registry, plane
  <2>2. CASE sessions[entry[c].key] # NoConn
    <3> DEFINE k == entry[c].key  e == sessions[k]  x == entry[e].client
    <3>1. k \in Keys
      BY <1>10 DEF Teardown, ConnInv
    <3>6. /\ sessions' = SessionsWithout(k) /\ used' = UsedWithout(e)
          /\ active' = IF active[x] = k THEN [active EXCEPT ![x] = NoKey] ELSE active
          /\ leaseAge' = [leaseAge EXCEPT ![x] = 0]
          /\ victim' = [victim EXCEPT ![c] = e]
      BY <1>10, <2>2 DEF Teardown
    <3>7. e \in Conns
      BY <2>2, <3>1
    <3> HIDE DEF x, e, k
    <3>2. sessions' \in [Keys -> Conns \cup {NoConn}] /\ used' \subseteq Prefix
      BY <3>1, <3>6 DEF SessionsWithout, UsedWithout
    <3>5. victim' \in [Conns -> Conns \cup {NoConn}]
      BY <3>6, <3>7
    <3>3. active' \in [Clients -> Keys \cup {NoKey}]
      BY <3>6
    <3>4. leaseAge' \in [Clients -> 0..(LeaseTTL + 1) \cup {NoTime}]
      <4>1. 0 \in 0..(LeaseTTL + 1) \cup {NoTime}
        BY ConfigAssumption
      <4> QED BY <3>6, <4>1
    <3> QED BY <1>10, <2>2, <3>2, <3>3, <3>4, <3>5 DEF Teardown, Goto, plane
  <2> QED BY <2>1, <2>2
<1>11. ASSUME NEW c \in Conns, Unplumb(c) PROVE TypeOK'
  BY <1>11 DEF Unplumb, RemoveInterface, Goto, registry
<1>12. ASSUME NEW c \in Conns, DownHook(c) PROVE TypeOK'
  BY <1>12 DEF DownHook, Goto, registry
<1>13. CASE Tick
  BY <1>13, ConfigAssumption DEF Tick, conn, plane, NoTime
<1>14. CASE UNCHANGED vars
  BY <1>14 DEF vars, conn, registry, plane
<1> QED
  BY <1>1, <1>2, <1>3, <1>4, <1>5, <1>6, <1>7, <1>8, <1>9, <1>10, <1>11,
     <1>12, <1>13, <1>14 DEF Next, Work

LEMMA ConnStep ==
    ASSUME TypeOK, ConnInv, [Next]_vars
    PROVE  ConnInv'
<1> USE DEF ConnInv
<1>1. ASSUME NEW c \in Conns, EstablishReject(c) PROVE ConnInv'
  BY <1>1 DEF TypeOK, EstablishReject, Return, Goto, registry, plane
<1>2. ASSUME NEW c \in Conns, NEW x \in Clients, NEW req \in Requests,
             Register(c, x, req)
      PROVE  ConnInv'
  <2>1. PICK a \in Prefix, k \in Keys :
             /\ pc[c] = "idle"
             /\ entry' = [entry EXCEPT ![c] =
                    [client |-> x, key |-> k, ifName |-> ifNameFor(x, k), inner |-> a]]
    BY <1>2, RegisterStep
  <2>2. ifNameFor(x, k) \in IfNames
    BY ConfigAssumption DEF ifNameFor, IfNames
  <2>3. pc'[c] \in {"ensure", "unplumb"} /\ result' = result
    BY <1>2 DEF TypeOK, Register, Goto
  <2>4. \A d \in Conns \ {c} : pc'[d] = pc[d]
    BY <1>2 DEF TypeOK, Register, Goto
  <2> QED BY <2>1, <2>2, <2>3, <2>4 DEF TypeOK
<1>3. ASSUME NEW c \in Conns, NEW x \in Clients, NEW req \in Requests,
             EstablishFail(c, x, req)
      PROVE  ConnInv'
  BY <1>3 DEF TypeOK, EstablishFail, Return, Goto, plane
<1>4. ASSUME NEW c \in Conns, Work(c) PROVE ConnInv'
  <2>1. entry' = entry
    BY <1>4 DEF Work, Ensure, EnsureFail, ApplyFail, Unwind, Abort, UpHook,
                Unplumb, DownHook
  <2>2. pc[c] \notin {"idle", "done"} /\ pc'[c] # "idle"
    BY <1>4 DEF TypeOK, Work, Ensure, EnsureFail, ApplyFail, Unwind, Abort,
                UpHook, Unplumb, DownHook, Return, Goto
  <2>3. \A d \in Conns \ {c} : pc'[d] = pc[d] /\ result'[d] = result[d]
    BY <1>4 DEF TypeOK, Work, Ensure, EnsureFail, ApplyFail, Unwind, Abort,
                UpHook, Unplumb, DownHook, Return, Goto
  <2> QED BY <2>1, <2>2, <2>3
<1>5. ASSUME NEW c \in Conns, Teardown(c) PROVE ConnInv'
  BY <1>5 DEF TypeOK, Teardown, Goto, plane
<1>6. CASE Tick \/ UNCHANGED vars
  BY <1>6 DEF Tick, vars, conn
<1> QED BY <1>1, <1>2, <1>3, <1>4, <1>5, <1>6 DEF Next

-----------------------------------------------------------------------------
(* The registry.  Pool states PoolMatchesRegistry address by address.      *)
Pool ==
    /\ \A k \in Keys : Live(k) => LiveEntry(k).inner \in used
    /\ \A a \in used : \E k \in Keys : Live(k) /\ LiveEntry(k).inner = a
    /\ \A j, k \in Keys : Live(j) /\ Live(k) /\ j # k
            => LiveEntry(j).inner # LiveEntry(k).inner

LEMMA PoolEquiv == PoolMatchesRegistry <=> Pool
BY DEF PoolMatchesRegistry, Pool

RegInv == /\ OneSessionPerClient
          /\ Pool
          /\ LeasesExclusive
          /\ LiveSessionHoldsLease
          /\ NoAbandonedSession

(* A step that leaves the registry and the entries alone keeps RegInv if   *)
(* no connection finishes with its session registered.                     *)
LEMMA Frame ==
    ASSUME TypeOK, RegInv, UNCHANGED <<entry, sessions, active, leases, used>>,
           \A x \in Clients : leaseAge'[x] = NoTime <=> leaseAge[x] = NoTime,
           NoAbandonedSession'
    PROVE  RegInv'
<1>1. OneSessionPerClient'
  BY DEF RegInv, OneSessionPerClient, Live, LiveEntry
<1>2. Pool'
  BY DEF RegInv, Pool, Live, LiveEntry
<1>3. LeasesExclusive'
  BY DEF RegInv, LeasesExclusive
<1>4. LiveSessionHoldsLease'
  BY DEF RegInv, LiveSessionHoldsLease, Live, LiveEntry
<1> QED BY <1>1, <1>2, <1>3, <1>4 DEF RegInv

(* Unregistering one session, as evictions, clean-ups and Teardown do.     *)
LEMMA Unregister ==
    ASSUME TypeOK, OneSessionPerClient, Pool, NEW k \in Keys, Live(k), entry' = entry,
           sessions' = SessionsWithout(k),
           active' = [active EXCEPT ![LiveEntry(k).client] = NoKey],
           used' = used \ {LiveEntry(k).inner}
    PROVE  OneSessionPerClient' /\ Pool'
<1>1. \A j \in Keys : /\ Live(j)' <=> j # k /\ Live(j)
                      /\ Live(j)' => LiveEntry(j)' = LiveEntry(j)
  BY DEF Live, LiveEntry, SessionsWithout
<1>2. LiveEntry(k).client \in Clients /\ active[LiveEntry(k).client] = k
  BY DEF OneSessionPerClient
<1>3. \A x \in Clients : active'[x] # NoKey
                          => active[x] # k /\ active'[x] = active[x] /\ active[x] \in Keys
  BY <1>2 DEF OneSessionPerClient, TypeOK
<1>4. \A j \in Keys : Live(j)' => active'[LiveEntry(j).client] = j
  <2> SUFFICES ASSUME NEW j \in Keys, Live(j)' PROVE active'[LiveEntry(j).client] = j
    OBVIOUS
  <2>1. j # k /\ LiveEntry(j).client \in Clients /\ active[LiveEntry(j).client] = j
    BY <1>1 DEF OneSessionPerClient
  <2> QED BY <2>1, <1>2 DEF TypeOK
<1>5. OneSessionPerClient'
  <2>1. \A j \in Keys : Live(j)' => /\ LiveEntry(j)'.key = j
                                    /\ LiveEntry(j)'.client \in Clients
                                    /\ active'[LiveEntry(j)'.client] = j
    BY <1>1, <1>4 DEF OneSessionPerClient
  <2>2. \A x \in Clients : active'[x] # NoKey
            => Live(active[x])' /\ LiveEntry(active[x])'.client = x
    BY <1>1, <1>3 DEF OneSessionPerClient
  <2> QED BY <2>1, <2>2, <1>3 DEF OneSessionPerClient, Live, LiveEntry
<1>6. Pool'
  <2>1. \A j \in Keys : Live(j)' => LiveEntry(j)'.inner \in used'
    BY <1>1 DEF Pool
  <2>2. \A a \in used' : \E j \in Keys : Live(j)' /\ LiveEntry(j)'.inner = a
    BY <1>1 DEF Pool
  <2>3. \A i, j \in Keys : Live(i)' /\ Live(j)' /\ i # j
            => LiveEntry(i)'.inner # LiveEntry(j)'.inner
    BY <1>1 DEF Pool
  <2> QED BY <2>1, <2>2, <2>3 DEF Pool
<1> QED BY <1>5, <1>6

(* Claims only disappear: those that stay are as exclusive as before.      *)
LEMMA DropLeases ==
    ASSUME LeasesExclusive, \A x \in Clients : leases'[x] \in {leases[x], NoAddr}
    PROVE  LeasesExclusive'
BY DEF LeasesExclusive

LEMMA AbortStep ==
    ASSUME TypeOK, ConnInv, RegInv, NEW c \in Conns, Abort(c)
    PROVE  RegInv'
<1> DEFINE k == entry[c].key
           x == entry[c].client
<1>1. pc[c] = "abort" /\ k \in Keys /\ x \in Clients /\ entry' = entry
  BY DEF Abort, ConnInv
<1>2. CASE sessions[k] # c
  <2>1. UNCHANGED registry
    BY <1>2 DEF Abort
  <2>2. \A d \in Conns \ {c} : pc'[d] = pc[d] /\ result'[d] = result[d]
    BY DEF TypeOK, Abort, Return, Goto
  <2>3. \A j \in Keys : sessions[j] # c
    BY <1>1, <1>2, ManagerAssumption DEF RegInv, OneSessionPerClient, Live, LiveEntry
  <2>4. NoAbandonedSession'
    BY <2>1, <2>2, <2>3 DEF RegInv, NoAbandonedSession, Live, registry, TypeOK
  <2> QED BY <1>1, <2>1, <2>4, Frame DEF registry
<1>3. CASE sessions[k] = c
  <2>1. /\ Live(k) /\ LiveEntry(k) = entry[c] /\ active[x] = k
    BY <1>1, <1>3, ManagerAssumption DEF Live, LiveEntry, RegInv, OneSessionPerClient
  <2>2. /\ sessions' = SessionsWithout(k)
        /\ active' = [active EXCEPT ![x] = NoKey]
        /\ used' = used \ {entry[c].inner}
        /\ leases' = [leases EXCEPT ![x] = NoAddr]
        /\ leaseAge' = [leaseAge EXCEPT ![x] = NoTime]
    BY <1>3, <2>1 DEF Abort
  <2>3. OneSessionPerClient' /\ Pool'
    BY <1>1, <2>1, <2>2, Unregister DEF RegInv
  <2>4. LeasesExclusive'
    BY <2>2, DropLeases DEF RegInv, TypeOK
  <2>5. \A j \in Keys : Live(j)' => /\ j # k /\ Live(j) /\ sessions'[j] = sessions[j]
                                    /\ LiveEntry(j)' = LiveEntry(j)
                                    /\ LiveEntry(j).client # x
                                    /\ LiveEntry(j).client \in Clients
    BY <1>1, <2>1, <2>2 DEF RegInv, OneSessionPerClient, Live, LiveEntry, SessionsWithout
  <2>6. LiveSessionHoldsLease'
    <3>1. \A j \in Keys : Live(j)' => /\ LiveEntry(j)'.inner # NoAddr
                                      /\ leases'[LiveEntry(j)'.client] = LiveEntry(j)'.inner
      BY <2>2, <2>5 DEF RegInv, LiveSessionHoldsLease, TypeOK
    <3>2. \A y \in Clients : leases'[y] = NoAddr <=> leaseAge'[y] = NoTime
      BY <2>2 DEF RegInv, LiveSessionHoldsLease, TypeOK
    <3> QED BY <3>1, <3>2 DEF LiveSessionHoldsLease
  <2>7. NoAbandonedSession'
    <3>1. \A d \in Conns \ {c} : pc'[d] = pc[d] /\ result'[d] = result[d]
      BY DEF TypeOK, Abort, Return, Goto
    <3>2. \A j \in Keys : Live(j)' => sessions[j] \in Conns \ {c}
      BY <2>5, <2>1, <1>1 DEF RegInv, OneSessionPerClient, Live, LiveEntry, TypeOK
    <3> QED BY <2>5, <3>1, <3>2 DEF RegInv, NoAbandonedSession
  <2> QED BY <2>3, <2>4, <2>6, <2>7 DEF RegInv
<1> QED BY <1>2, <1>3

LEMMA TeardownStep ==
    ASSUME TypeOK, ConnInv, RegInv, NEW c \in Conns, Teardown(c)
    PROVE  RegInv'
<1> DEFINE k == entry[c].key
           e == sessions[k]
           x == entry[e].client
<1>1. pc[c] = "up" /\ k \in Keys /\ UNCHANGED <<entry, result>>
  BY DEF Teardown, ConnInv
<1>2. \A d \in Conns \ {c} : pc'[d] = pc[d]
  BY DEF TypeOK, Teardown, Goto
<1>3. \A j \in Keys : sessions[j] = c => j = k
  BY ManagerAssumption DEF RegInv, OneSessionPerClient, Live, LiveEntry
<1>4. CASE e = NoConn
  <2>1. UNCHANGED registry
    BY <1>4 DEF Teardown
  <2>2. \A j \in Keys : sessions[j] # c
    BY <1>3, <1>4, ManagerAssumption
  <2>3. NoAbandonedSession'
    BY <1>1, <1>2, <2>1, <2>2 DEF RegInv, NoAbandonedSession, Live, registry, TypeOK
  <2> QED BY <1>1, <2>1, <2>3, Frame DEF registry
<1>5. CASE e # NoConn
  <2>1. /\ Live(k) /\ LiveEntry(k) = entry[e] /\ active[x] = k /\ x \in Clients
    BY <1>1, <1>5 DEF Live, LiveEntry, RegInv, OneSessionPerClient
  <2>2. /\ sessions' = SessionsWithout(k)
        /\ active' = [active EXCEPT ![x] = NoKey]
        /\ used' = used \ {entry[e].inner}
        /\ leases' = leases
        /\ leaseAge' = [leaseAge EXCEPT ![x] = 0]
    BY <1>5, <2>1 DEF Teardown, UsedWithout
  <2>3. OneSessionPerClient' /\ Pool'
    BY <1>1, <2>1, <2>2, Unregister DEF RegInv
  <2>4. LeasesExclusive'
    BY <2>2, DropLeases DEF RegInv, TypeOK
  <2>5. \A j \in Keys : Live(j)' => /\ j # k /\ Live(j) /\ sessions'[j] = sessions[j]
                                    /\ LiveEntry(j)' = LiveEntry(j)
    BY <1>1, <2>2 DEF Live, LiveEntry, SessionsWithout
  <2>6. LiveSessionHoldsLease'
    <3>1. \A j \in Keys : Live(j)' => /\ LiveEntry(j)'.inner # NoAddr
                                      /\ leases'[LiveEntry(j)'.client] = LiveEntry(j)'.inner
      BY <2>2, <2>5 DEF RegInv, LiveSessionHoldsLease
    <3>2. leases[x] # NoAddr
      BY <1>1, <2>1 DEF RegInv, LiveSessionHoldsLease
    <3>3. \A y \in Clients : leases'[y] = NoAddr <=> leaseAge'[y] = NoTime
      BY <2>2, <3>2 DEF RegInv, LiveSessionHoldsLease, TypeOK, NoTime
    <3> QED BY <3>1, <3>3 DEF LiveSessionHoldsLease
  <2>7. NoAbandonedSession'
    <3>1. \A j \in Keys : Live(j)' => sessions[j] \in Conns \ {c}
      BY <2>5, <1>3 DEF Live, TypeOK
    <3> QED BY <1>1, <1>2, <2>5, <3>1 DEF RegInv, NoAbandonedSession
  <2> QED BY <2>3, <2>4, <2>6, <2>7 DEF RegInv
<1> QED BY <1>4, <1>5

(* The purge takes a lease and its time stamp together, and none of a      *)
(* client with a session.                                                  *)
LEMMA Purge ==
    ASSUME TypeOK, LiveSessionHoldsLease
    PROVE  /\ PurgedLeases \in [Clients -> Prefix \cup {NoAddr}]
           /\ \A y \in Clients :
                /\ PurgedLeases[y] \in {leases[y], NoAddr}
                /\ active[y] # NoKey => PurgedLeases[y] = leases[y]
                /\ PurgedLeases[y] = NoAddr <=> PurgedAges[y] = NoTime
BY DEF TypeOK, LiveSessionHoldsLease, PurgedLeases, PurgedAges, Expired

(* A client's evictee is its one session, if it has one.                   *)
LEMMA Evict ==
    ASSUME TypeOK, RegInv, NEW x \in Clients
    PROVE  /\ active[x] = NoKey =>
                /\ SessionsWithout(active[x]) = sessions
                /\ UsedWithout(Evictee(x)) = used
           /\ active[x] # NoKey =>
                /\ active[x] \in Keys /\ Live(active[x])
                /\ LiveEntry(active[x]).client = x
                /\ UsedWithout(Evictee(x)) = used \ {LiveEntry(active[x]).inner}
<1>1. CASE active[x] = NoKey
  BY <1>1, ManagerAssumption DEF TypeOK, SessionsWithout, UsedWithout, Evictee
<1>2. CASE active[x] # NoKey
  BY <1>2 DEF TypeOK, RegInv, OneSessionPerClient, UsedWithout, Evictee, Live, LiveEntry
<1> QED BY <1>1, <1>2

LEMMA EstablishFailStep ==
    ASSUME TypeOK, ConnInv, RegInv, NEW c \in Conns, NEW x \in Clients,
           NEW req \in Requests, EstablishFail(c, x, req)
    PROVE  RegInv'
<1>1. /\ pc[c] = "idle"
      /\ sessions' = SessionsWithout(active[x])
      /\ active' = [active EXCEPT ![x] = NoKey]
      /\ leases' = PurgedLeases
      /\ leaseAge' = PurgedAges
      /\ used' = UsedWithout(Evictee(x))
      /\ entry' = entry
  BY DEF EstablishFail
<1>2. OneSessionPerClient' /\ Pool'
  <2>1. CASE active[x] = NoKey
    <3>1. UNCHANGED <<sessions, active, used, entry>>
      BY <1>1, <2>1, Evict DEF TypeOK
    <3> QED BY <3>1 DEF RegInv, OneSessionPerClient, Pool, Live, LiveEntry
  <2>2. CASE active[x] # NoKey
    BY <1>1, <2>2, Evict, Unregister DEF RegInv
  <2> QED BY <2>1, <2>2
<1>3. LeasesExclusive'
  BY <1>1, Purge, DropLeases DEF RegInv
<1>4. \A j \in Keys : Live(j)' => /\ Live(j) /\ sessions'[j] = sessions[j]
                                  /\ LiveEntry(j)' = LiveEntry(j)
  BY <1>1 DEF Live, LiveEntry, SessionsWithout
<1>5. LiveSessionHoldsLease'
  <2>1. \A j \in Keys : Live(j)' => /\ LiveEntry(j)'.inner # NoAddr
                                    /\ leases'[LiveEntry(j)'.client] = LiveEntry(j)'.inner
    <3> SUFFICES ASSUME NEW j \in Keys, Live(j)'
                 PROVE  /\ LiveEntry(j).inner # NoAddr
                        /\ leases'[LiveEntry(j).client] = LiveEntry(j).inner
      BY <1>4
    <3>1. LiveEntry(j).client \in Clients /\ active[LiveEntry(j).client] # NoKey
      BY <1>4, ManagerAssumption DEF RegInv, OneSessionPerClient
    <3> QED BY <1>1, <1>4, <3>1, Purge DEF RegInv, LiveSessionHoldsLease
  <2>2. \A y \in Clients : leases'[y] = NoAddr <=> leaseAge'[y] = NoTime
    BY <1>1, Purge DEF RegInv
  <2> QED BY <2>1, <2>2 DEF LiveSessionHoldsLease
<1>6. NoAbandonedSession'
  <2>1. \A d \in Conns \ {c} : pc'[d] = pc[d] /\ result'[d] = result[d]
    BY DEF TypeOK, EstablishFail, Return, Goto
  <2>2. \A j \in Keys : Live(j)' => sessions[j] \in Conns \ {c}
    BY <1>1, <1>4 DEF RegInv, NoAbandonedSession, Live, TypeOK
  <2> QED BY <1>4, <2>1, <2>2 DEF RegInv, NoAbandonedSession
<1> QED BY <1>2, <1>3, <1>5, <1>6 DEF RegInv

LEMMA RegisterRegistry ==
    ASSUME TypeOK, ConnInv, RegInv, NEW c \in Conns, NEW x \in Clients,
           NEW req \in Requests, Register(c, x, req)
    PROVE  RegInv'
<1> DEFINE U == UsedWithout(Evictee(x))
<1>1. PICK a \in Prefix, k \in Keys :
         /\ pc[c] = "idle"
         /\ a \in allocInner(x, req, PurgedLeases, U)
         /\ SessionsWithout(active[x])[k] = NoConn
         /\ entry' = [entry EXCEPT ![c] =
                [client |-> x, key |-> k, ifName |-> ifNameFor(x, k), inner |-> a]]
         /\ sessions' = [SessionsWithout(active[x]) EXCEPT ![k] = c]
         /\ active' = [active EXCEPT ![x] = k]
         /\ leases' = [PurgedLeases EXCEPT ![x] = a]
         /\ used' = U \cup {a}
         /\ leaseAge' = [PurgedAges EXCEPT ![x] = 0]
  BY RegisterStep
<1>2. U \in SUBSET Prefix
  BY DEF TypeOK, UsedWithout
<1>3. /\ a \notin Reserved /\ a \notin U /\ a # NoAddr
      /\ \A y \in Clients \ {x} : PurgedLeases[y] # a /\ StaticLease[y] # a
      /\ StaticLease[x] # NoAddr => a = StaticLease[x]
  BY <1>1, <1>2, Purge, AllocInner DEF RegInv
<1>4. \A j \in Keys : sessions[j] # c
  BY <1>1, ManagerAssumption DEF RegInv, NoAbandonedSession, Live
<1>5. /\ Live(k)' /\ sessions'[k] = c
      /\ LiveEntry(k)' = [client |-> x, key |-> k, ifName |-> ifNameFor(x, k),
                          inner |-> a]
  BY <1>1, ManagerAssumption DEF Live, LiveEntry, TypeOK, SessionsWithout
<1>6. \A j \in Keys \ {k} : Live(j)' <=> j # active[x] /\ Live(j)
  BY <1>1 DEF Live, SessionsWithout
<1>7. \A j \in Keys \ {k} : Live(j)' => /\ sessions'[j] = sessions[j]
                                        /\ LiveEntry(j)' = LiveEntry(j)
  BY <1>1, <1>4 DEF Live, LiveEntry, SessionsWithout, TypeOK
<1>8. \A j \in Keys \ {k} : Live(j)' => /\ Live(j)
                                        /\ LiveEntry(j).client \in Clients \ {x}
                                        /\ active[LiveEntry(j).client] = j
  BY <1>6 DEF RegInv, OneSessionPerClient
<1>9. k = active[x] \/ ~Live(k)
  BY <1>1 DEF Live, SessionsWithout
<1>10. OneSessionPerClient'
  <2>1. \A j \in Keys : Live(j)' => /\ LiveEntry(j)'.key = j
                                    /\ LiveEntry(j)'.client \in Clients
                                    /\ active'[LiveEntry(j)'.client] = j
    <3> SUFFICES ASSUME NEW j \in Keys, Live(j)'
                 PROVE  /\ LiveEntry(j)'.key = j
                        /\ LiveEntry(j)'.client \in Clients
                        /\ active'[LiveEntry(j)'.client] = j
      OBVIOUS
    <3>1. CASE j = k
      BY <1>1, <1>5, <3>1 DEF TypeOK
    <3>2. CASE j # k
      BY <1>1, <1>7, <1>8, <3>2 DEF TypeOK, RegInv, OneSessionPerClient
    <3> QED BY <3>1, <3>2
  <2>2. ASSUME NEW y \in Clients, active'[y] # NoKey
        PROVE  Live(active[y])' /\ LiveEntry(active[y])'.client = y
    <3>1. CASE y = x
      <4>1. active'[x] = k
        BY <1>1 DEF TypeOK
      <4> QED BY <1>5, <3>1, <4>1 DEF Live, LiveEntry
    <3>2. CASE y # x
      <4>1. active'[y] = active[y] /\ active[y] \in Keys /\ Live(active[y])
            /\ LiveEntry(active[y]).client = y
        BY <1>1, <2>2, <3>2 DEF TypeOK, RegInv, OneSessionPerClient
      <4>2. active[y] # active[x]
        BY <3>2, <4>1, ManagerAssumption DEF RegInv, OneSessionPerClient
      <4>3. active[y] # k
        BY <1>9, <4>1, <4>2
      <4> QED BY <1>6, <1>7, <4>1, <4>2, <4>3 DEF Live, LiveEntry
    <3> QED BY <3>1, <3>2
  <2> QED BY <2>1, <2>2 DEF OneSessionPerClient
<1>11. Pool'
  <2>1. \A j \in Keys \ {k} : Live(j)' => LiveEntry(j).inner \in U
    <3> SUFFICES ASSUME NEW j \in Keys \ {k}, Live(j)' PROVE LiveEntry(j).inner \in U
      OBVIOUS
    <3>1. Live(j) /\ j # active[x] /\ LiveEntry(j).inner \in used
      BY <1>6 DEF RegInv, Pool
    <3> QED BY <3>1, Evict DEF RegInv, Pool
  <2>2. \A j \in Keys : Live(j)' => LiveEntry(j)'.inner \in used'
    BY <1>1, <1>5, <1>7, <2>1
  <2>3. ASSUME NEW b \in U PROVE \E j \in Keys \ {k} : Live(j)' /\ LiveEntry(j)'.inner = b
    <3>1. b \in used /\ (active[x] # NoKey => b # LiveEntry(active[x]).inner)
      BY <2>3, Evict
    <3>2. PICK j \in Keys : Live(j) /\ LiveEntry(j).inner = b
      BY <3>1 DEF RegInv, Pool
    <3>3. j # active[x]
      BY <3>1, <3>2, ManagerAssumption
    <3> QED BY <1>6, <1>7, <1>9, <3>2, <3>3
  <2>4. \A b \in used' : \E j \in Keys : Live(j)' /\ LiveEntry(j)'.inner = b
    BY <1>1, <1>5, <2>3
  <2>5. ASSUME NEW i \in Keys, NEW j \in Keys, Live(i)', Live(j)', i # j
        PROVE  LiveEntry(i)'.inner # LiveEntry(j)'.inner
    <3>1. CASE i = k
      BY <1>3, <1>5, <1>7, <2>1, <2>5, <3>1
    <3>2. CASE j = k
      BY <1>3, <1>5, <1>7, <2>1, <2>5, <3>2
    <3>3. CASE i # k /\ j # k
      BY <1>7, <1>8, <2>5, <3>3 DEF RegInv, Pool
    <3> QED BY <3>1, <3>2, <3>3
  <2> QED BY <2>2, <2>4, <2>5 DEF Pool
<1>12. LeasesExclusive'
  <2>1. leases'[x] = a /\ \A y \in Clients \ {x} : leases'[y] = PurgedLeases[y]
    BY <1>1, Purge DEF RegInv
  <2>2. \A y \in Clients \ {x} : leases'[y] \in {leases[y], NoAddr} /\ leases'[y] # a
    BY <1>3, <2>1, Purge DEF RegInv
  <2>3. ASSUME NEW y \in Clients \ {x}, leases'[y] # NoAddr
        PROVE  /\ leases'[y] \notin Reserved
               /\ \A z \in Clients \ {y} : leases'[y] # leases'[z] /\ leases'[y] # StaticLease[z]
               /\ StaticLease[y] # NoAddr => leases'[y] = StaticLease[y]
    <3>1. leases'[y] = leases[y]
      BY <2>2, <2>3
    <3>2. /\ leases[y] \notin Reserved
          /\ \A z \in Clients \ {y} : leases[y] # leases[z] /\ leases[y] # StaticLease[z]
          /\ StaticLease[y] # NoAddr => leases[y] = StaticLease[y]
      BY <2>3, <3>1 DEF RegInv, LeasesExclusive
    <3>3. \A z \in Clients \ {y} : leases'[y] # leases'[z]
      BY <2>1, <2>2, <2>3, <3>1, <3>2
    <3> QED BY <3>1, <3>2, <3>3
  <2>4. /\ leases'[x] \notin Reserved
        /\ \A z \in Clients \ {x} : leases'[x] # leases'[z] /\ leases'[x] # StaticLease[z]
        /\ StaticLease[x] # NoAddr => leases'[x] = StaticLease[x]
    BY <1>3, <2>1, <2>2
  <2> QED BY <2>3, <2>4 DEF LeasesExclusive
<1>13. LiveSessionHoldsLease'
  <2>1. leases'[x] = a /\ \A y \in Clients \ {x} : leases'[y] = PurgedLeases[y]
    BY <1>1, Purge DEF RegInv
  <2>2. ASSUME NEW j \in Keys, Live(j)'
        PROVE  /\ LiveEntry(j)'.inner # NoAddr
               /\ leases'[LiveEntry(j)'.client] = LiveEntry(j)'.inner
    <3>1. CASE j = k
      BY <1>3, <1>5, <2>1, <3>1
    <3>2. CASE j # k
      <4>1. active[LiveEntry(j).client] # NoKey
        BY <1>8, <2>2, <3>2, ManagerAssumption
      <4> QED BY <1>7, <1>8, <2>1, <2>2, <3>2, <4>1, Purge DEF RegInv, LiveSessionHoldsLease
    <3> QED BY <3>1, <3>2
  <2>3. \A y \in Clients : leases'[y] = NoAddr <=> leaseAge'[y] = NoTime
    <3>1. leaseAge'[x] = 0 /\ \A y \in Clients \ {x} : leaseAge'[y] = PurgedAges[y]
      BY <1>1 DEF PurgedAges
    <3> QED BY <1>3, <2>1, <3>1, Purge DEF RegInv, NoTime
  <2> QED BY <2>2, <2>3 DEF LiveSessionHoldsLease
<1>14. NoAbandonedSession'
  <2>1. pc'[c] \in {"ensure", "unplumb"} /\ result'[c] = "none"
    BY <1>1 DEF ConnInv, TypeOK, Register, Goto
  <2>2. \A d \in Conns \ {c} : pc'[d] = pc[d] /\ result'[d] = result[d]
    BY DEF TypeOK, Register, Goto
  <2>3. ASSUME NEW j \in Keys, Live(j)'
        PROVE  LET d == sessions'[j]
               IN  /\ pc'[d] \notin {"idle", "done"}
                   /\ pc'[d] \in {"unplumb", "down"} => result'[d] = "none"
    <3>1. CASE j = k
      BY <1>5, <2>1, <3>1
    <3>2. CASE j # k
      <4>1. sessions'[j] = sessions[j] /\ Live(j) /\ sessions[j] \in Conns \ {c}
        BY <1>4, <1>7, <1>8, <2>3, <3>2 DEF Live, TypeOK
      <4> QED BY <2>2, <4>1 DEF RegInv, NoAbandonedSession
    <3> QED BY <3>1, <3>2
  <2> QED BY <2>3 DEF NoAbandonedSession
<1> QED BY <1>10, <1>11, <1>12, <1>13, <1>14 DEF RegInv

(* Calls in progress other than Abort leave the registry alone.            *)
LEMMA WorkStep ==
    ASSUME TypeOK, RegInv, NEW c \in Conns, Work(c), ~Abort(c)
    PROVE  RegInv'
<1>1. UNCHANGED <<entry, registry>>
  BY DEF Work, Ensure, EnsureFail, ApplyFail, Unwind, UpHook,
         Unplumb, DownHook
<1>2. \A d \in Conns \ {c} : pc'[d] = pc[d] /\ result'[d] = result[d]
  BY DEF TypeOK, Work, Ensure, EnsureFail, ApplyFail, Unwind,
         UpHook, Unplumb, DownHook, Goto
<1>3. \/ pc'[c] \in {"mss", "abort", "unwind", "up"}
      \/ /\ pc[c] = "unplumb" /\ pc'[c] = "down"
         /\ result' = result
      \/ /\ pc[c] = "down" /\ pc'[c] = (IF result[c] = "OK" THEN "done" ELSE "ensure")
         /\ result' = result
  BY DEF TypeOK, Work, Ensure, EnsureFail, ApplyFail, Unwind,
         UpHook, Unplumb, DownHook, Goto
<1>4. NoAbandonedSession'
  <2> SUFFICES ASSUME NEW j \in Keys, Live(j)
               PROVE  /\ pc'[sessions[j]] \notin {"idle", "done"}
                      /\ pc'[sessions[j]] \in {"unplumb", "down"}
                            => result'[sessions[j]] = "none"
    BY <1>1 DEF NoAbandonedSession, Live, registry
  <2>1. sessions[j] \in Conns
    BY DEF TypeOK, Live
  <2> QED BY <1>2, <1>3, <2>1 DEF RegInv, NoAbandonedSession
<1> QED BY <1>1, <1>4, Frame DEF registry

LEMMA RegStep ==
    ASSUME TypeOK, ConnInv, RegInv, [Next]_vars
    PROVE  RegInv'
<1>1. ASSUME NEW c \in Conns, EstablishReject(c) PROVE RegInv'
  <2>1. UNCHANGED <<entry, registry>> /\ pc[c] = "idle"
    BY <1>1 DEF EstablishReject
  <2>2. \A d \in Conns \ {c} : pc'[d] = pc[d] /\ result'[d] = result[d]
    BY <1>1 DEF TypeOK, EstablishReject, Return, Goto
  <2>3. NoAbandonedSession'
    BY <2>1, <2>2 DEF RegInv, NoAbandonedSession, Live, registry, TypeOK
  <2> QED BY <2>1, <2>3, Frame DEF registry
<1>2. CASE UNCHANGED vars
  <2>1. UNCHANGED <<pc, result, entry, registry>>
    BY <1>2 DEF conn, vars
  <2>2. NoAbandonedSession'
    BY <2>1 DEF RegInv, NoAbandonedSession, Live, registry
  <2> QED BY <2>1, <2>2, Frame DEF registry
<1>3. CASE Tick
  <2>1. UNCHANGED <<pc, result, entry, sessions, active, leases, used>>
    BY <1>3 DEF Tick, conn
  <2>2. \A x \in Clients : leaseAge'[x] = NoTime <=> leaseAge[x] = NoTime
    BY <1>3, ConfigAssumption DEF Tick, NoTime, TypeOK
  <2>3. NoAbandonedSession'
    BY <2>1 DEF RegInv, NoAbandonedSession, Live
  <2> QED BY <2>1, <2>2, <2>3, Frame
<1> QED
  BY <1>1, <1>2, <1>3, RegisterRegistry, EstablishFailStep, WorkStep, AbortStep,
     TeardownStep DEF Next

-----------------------------------------------------------------------------
LEMMA InitInv == Init => TypeOK /\ ConnInv /\ RegInv
<1> SUFFICES ASSUME Init PROVE TypeOK /\ ConnInv /\ RegInv
  OBVIOUS
<1>1. TypeOK
  BY ConfigAssumption DEF Init, TypeOK, NilEntry, PCs, NoTime
<1>2. ConnInv
  BY DEF Init, ConnInv
<1>3. RegInv
  BY DEF Init, RegInv, OneSessionPerClient, Pool, LeasesExclusive,
         LiveSessionHoldsLease, NoAbandonedSession, Live
<1> QED BY <1>1, <1>2, <1>3

(* The inductive invariant: the registry invariants hold together, given   *)
(* what is known of each connection's entry while its call is in progress. *)
THEOREM Inductive == Spec => [](TypeOK /\ ConnInv /\ RegInv)
<1>1. TypeOK /\ ConnInv /\ RegInv /\ [Next]_vars => (TypeOK /\ ConnInv /\ RegInv)'
  BY TypeStep, ConnStep, RegStep
<1> QED BY <1>1, InitInv, PTL DEF Spec

(* Every variable keeps its type.                                          *)
THEOREM TypeCorrect == Spec => []TypeOK
BY Inductive, PTL

(* Establish, Teardown, evictLocked, allocInnerLocked and the failure      *)
(* clean-ups keep the session indexes, the pool, the leases and the        *)
(* connections in agreement.                                               *)
THEOREM RegistryCorrect == Spec => []RegistryConsistent
<1>1. RegInv => RegistryConsistent
  BY PoolEquiv DEF RegInv, RegistryConsistent
<1> QED BY <1>1, Inductive, PTL

-----------------------------------------------------------------------------
(***************************************************************************)
(* What SessionManager promises its clients.  Addresses: a returning       *)
(* client finds its own again, and the whole implements AddressLeases,     *)
(* with leases for lease and the clients with an active session for live.  *)
(* The data plane: with generated interface names and 32-bit key draws     *)
(* that do not repeat, no connection can disturb the interface of another  *)
(* client's, or of its own successor's, session.  Both hypotheses are      *)
(* needed: two sessions of a client with a pinned name share it, and with  *)
(* a key drawn again a late Teardown finds another connection's entry.     *)
(***************************************************************************)

(* What a reconnecting client finds: an unexpired lease can always be had  *)
(* again, because only the client's own session, evicted in the same step, *)
(* can be using the address.                                               *)
LEMMA Reclaim ==
    ASSUME TypeOK, RegInv, NEW x \in Clients, PurgedLeases[x] # NoAddr
    PROVE  Claimable(x, PurgedLeases[x], PurgedLeases, UsedWithout(Evictee(x)))
<1> DEFINE a == PurgedLeases[x]
<1>1. a = leases[x] /\ a \in Prefix
  BY Purge DEF RegInv, TypeOK
<1>2. a \notin Reserved /\ \A y \in Clients \ {x} : a # leases[y] /\ a # StaticLease[y]
  BY <1>1 DEF RegInv, LeasesExclusive
<1>3. a \notin ClaimedByOthers(x, PurgedLeases)
  BY <1>1, <1>2, Purge DEF RegInv, ClaimedByOthers
<1>4. a \notin UsedWithout(Evictee(x))
  <2> SUFFICES ASSUME a \in UsedWithout(Evictee(x)) PROVE FALSE
    OBVIOUS
  <2>1. a \in used /\ (active[x] # NoKey => a # LiveEntry(active[x]).inner)
    BY Evict
  <2>2. PICK k \in Keys : Live(k) /\ LiveEntry(k).inner = a
    BY <2>1 DEF RegInv, Pool
  <2>3. /\ LiveEntry(k).client \in Clients /\ active[LiveEntry(k).client] = k
        /\ leases[LiveEntry(k).client] = a
    BY <2>2 DEF RegInv, OneSessionPerClient, LiveSessionHoldsLease
  <2>4. LiveEntry(k).client = x
    BY <1>2, <2>3
  <2> QED BY <2>1, <2>2, <2>3, <2>4, ManagerAssumption
<1> QED BY <1>1, <1>2, <1>3, <1>4 DEF Claimable, AllocateSpecificOK

(* So it is given its configured address, the one it asked for, or its     *)
(* lease, and never refused.                                               *)
LEMMA ReclaimedAddress ==
    ASSUME TypeOK, RegInv, NEW x \in Clients, NEW req, PurgedLeases[x] # NoAddr
    PROVE  \E a \in {req, leases[x]} :
              /\ allocInner(x, req, PurgedLeases, UsedWithout(Evictee(x))) = {a}
              /\ req = NoAddr => a = leases[x]
<1> DEFINE U == UsedWithout(Evictee(x))
<1>1. PurgedLeases[x] = leases[x] /\ Claimable(x, leases[x], PurgedLeases, U)
  BY Reclaim, Purge DEF RegInv
<1>2. CASE StaticLease[x] # NoAddr
  <2>1. leases[x] = StaticLease[x]
    BY <1>1, <1>2 DEF RegInv, LeasesExclusive
  <2>2. allocInner(x, req, PurgedLeases, U) = {leases[x]}
    BY <1>1, <1>2, <2>1 DEF allocInner
  <2> QED BY <2>2
<1>3. CASE StaticLease[x] = NoAddr /\ Claimable(x, req, PurgedLeases, U)
  <2>1. allocInner(x, req, PurgedLeases, U) = {req}
    BY <1>3 DEF allocInner
  <2>2. req # NoAddr
    BY <1>3 DEF Claimable
  <2> QED BY <2>1, <2>2
<1>4. CASE StaticLease[x] = NoAddr /\ ~Claimable(x, req, PurgedLeases, U)
  <2>1. allocInner(x, req, PurgedLeases, U) = {leases[x]}
    BY <1>1, <1>4 DEF allocInner
  <2> QED BY <2>1
<1> QED BY <1>2, <1>3, <1>4

(* A client that reconnects with an unexpired lease and no preference gets *)
(* the same address, whatever the other clients did in between.            *)
THEOREM SameAddress == Spec => ReconnectKeepsAddress
<1>1. ASSUME TypeOK, RegInv, NEW c \in Conns, NEW x \in Clients, leases[x] # NoAddr,
             ~Expired(x), Register(c, x, NoAddr)
      PROVE  entry'[c].inner = leases[x]
  <2>1. PurgedLeases[x] # NoAddr
    BY <1>1 DEF PurgedLeases
  <2>2. PICK a \in Prefix, k \in Keys :
           /\ a \in allocInner(x, NoAddr, PurgedLeases, UsedWithout(Evictee(x)))
           /\ entry' = [entry EXCEPT ![c] =
                  [client |-> x, key |-> k, ifName |-> ifNameFor(x, k), inner |-> a]]
    BY <1>1, RegisterStep
  <2>3. a = leases[x]
    BY <1>1, <2>1, <2>2, ReclaimedAddress
  <2> QED BY <1>1, <2>2, <2>3 DEF TypeOK
<1>2. TypeOK /\ RegInv /\ [Next]_vars =>
        [ \A c \in Conns, x \in Clients :
            /\ pc[c] = "idle" /\ entry'[c].client = x
            /\ leases[x] # NoAddr /\ ~Expired(x)
            /\ Register(c, x, NoAddr)
            => entry'[c].inner = leases[x] ]_vars
  BY <1>1
<1> QED BY <1>2, Inductive, PTL DEF Spec, ReconnectKeepsAddress

(* An Establish refused for want of an address had nothing to evict.       *)
LEMMA RefusalStep ==
    ASSUME TypeOK, RegInv, NEW c \in Conns, NEW x \in Clients, NEW req,
           EstablishFail(c, x, req), result'[c] = "NoAddresses"
    PROVE  UNCHANGED <<sessions, active, used>>
<1>1. allocInner(x, req, PurgedLeases, UsedWithout(Evictee(x))) = {}
  BY DEF EstablishFail, Return, TypeOK
<1>2. PurgedLeases[x] = NoAddr
  BY <1>1, ReclaimedAddress
<1>3. active[x] = NoKey
  <2> SUFFICES ASSUME active[x] # NoKey PROVE FALSE
    OBVIOUS
  <2>1. leases[x] = NoAddr
    BY <1>2, Purge DEF RegInv
  <2>2. active[x] \in Keys /\ Live(active[x]) /\ LiveEntry(active[x]).client = x
    BY Evict
  <2> QED BY <2>1, <2>2 DEF RegInv, LiveSessionHoldsLease
<1>4. /\ sessions' = SessionsWithout(active[x]) /\ used' = UsedWithout(Evictee(x))
      /\ active' = [active EXCEPT ![x] = NoKey]
  BY DEF EstablishFail
<1> QED BY <1>3, <1>4, Evict DEF TypeOK

(* A refused Establish evicted nobody: the entry evictLocked returned is   *)
(* never dropped by the early return.                                      *)
THEOREM RefusalKeepsSessions == Spec => RefusalEvictsNothing
<1>1. ASSUME TypeOK, RegInv, Next, NEW c \in Conns, result[c] = "none",
             result'[c] = "NoAddresses"
      PROVE  UNCHANGED <<sessions, active, used>>
  <2>1. PICK d \in Conns, x \in Clients, req \in Requests : EstablishFail(d, x, req)
    <3>1. ASSUME NEW d \in Conns, EstablishReject(d) PROVE FALSE
      BY <1>1, <3>1 DEF EstablishReject, Return, TypeOK
    <3>2. ASSUME NEW d \in Conns, Work(d) PROVE FALSE
      <4>1. result' \in {result, [result EXCEPT ![d] = "Internal"], [result EXCEPT ![d] = "OK"]}
        BY <3>2 DEF Work, Ensure, EnsureFail, ApplyFail, Unwind, Abort, UpHook,
                    Unplumb, DownHook, Return
      <4> QED BY <1>1, <4>1 DEF TypeOK
    <3>3. ASSUME NEW d \in Conns,
                 Teardown(d) \/ \E x \in Clients, req \in Requests : Register(d, x, req)
          PROVE  FALSE
      BY <1>1, <3>3 DEF Teardown, Register
    <3>4. CASE Tick
      BY <1>1, <3>4 DEF Tick, conn
    <3> QED BY <1>1, <3>1, <3>2, <3>3, <3>4 DEF Next
  <2>2. d = c
    BY <1>1, <2>1 DEF EstablishFail, Return, TypeOK
  <2> QED BY <1>1, <2>1, <2>2, RefusalStep
<1>2. TypeOK /\ RegInv /\ [Next]_vars =>
        [ (\E c \in Conns : result[c] = "none" /\ result'[c] = "NoAddresses")
            => UNCHANGED <<sessions, active, used>> ]_vars
  BY <1>1
<1> QED BY <1>2, Inductive, PTL DEF Spec, RefusalEvictsNothing

-----------------------------------------------------------------------------
(* The refinement. *)

LiveClients == {x \in Clients : active[x] # NoKey}

(* A step that changes neither leases nor active is a stuttering step.     *)
LEMMA Stutter ==
    ASSUME UNCHANGED <<leases, active>>
    PROVE  [Leases!Next]_<<leases, LiveClients>>
BY DEF LiveClients

(* The leases the purge drops are those of a set of clients without a      *)
(* session.                                                                *)
LEMMA PurgeLapses ==
    ASSUME TypeOK
    PROVE  \E E \in SUBSET (Clients \ LiveClients) : PurgedLeases = Leases!Lapse(E)
<1> DEFINE E == {x \in Clients : Expired(x)}
<1>1. E \in SUBSET (Clients \ LiveClients)
  BY DEF Expired, LiveClients
<1>2. PurgedLeases = Leases!Lapse(E)
  BY DEF PurgedLeases, Leases!Lapse
<1> QED BY <1>1, <1>2

LEMMA RegisterGrants ==
    ASSUME TypeOK, RegInv, NEW c \in Conns, NEW x \in Clients, NEW req \in Requests,
           Register(c, x, req)
    PROVE  Leases!Next
<1>1. PICK a \in Prefix, k \in Keys :
         /\ a \in allocInner(x, req, PurgedLeases, UsedWithout(Evictee(x)))
         /\ active' = [active EXCEPT ![x] = k]
         /\ leases' = [PurgedLeases EXCEPT ![x] = a]
  BY RegisterStep
<1>2. PICK E \in SUBSET (Clients \ LiveClients) : PurgedLeases = Leases!Lapse(E)
  BY PurgeLapses
<1>3. UsedWithout(Evictee(x)) \in SUBSET Prefix
  BY DEF TypeOK, UsedWithout
<1>4. /\ a \in Prefix \ Reserved
      /\ \A y \in Clients \ {x} : PurgedLeases[y] # a /\ StaticLease[y] # a
      /\ StaticLease[x] # NoAddr => a = StaticLease[x]
  BY <1>1, <1>3, Purge, AllocInner DEF RegInv
<1>5. PurgedLeases[x] # NoAddr => a = leases[x] \/ a \in Requests
  BY <1>1, ReclaimedAddress
<1>6. LiveClients' = LiveClients \cup {x}
  BY <1>1, ManagerAssumption DEF LiveClients, TypeOK
<1>7. Leases!Grant(x, a, E)
  BY <1>1, <1>2, <1>4, <1>5, <1>6 DEF Leases!Grant, LiveClients
<1> QED BY <1>2, <1>4, <1>7 DEF Leases!Next, LiveClients

LEMMA FailureEnds ==
    ASSUME TypeOK, NEW c \in Conns, NEW x \in Clients, NEW req, EstablishFail(c, x, req)
    PROVE  Leases!Next
<1>1. leases' = PurgedLeases /\ active' = [active EXCEPT ![x] = NoKey]
  BY DEF EstablishFail
<1>2. PICK E \in SUBSET (Clients \ LiveClients) : PurgedLeases = Leases!Lapse(E)
  BY PurgeLapses
<1>3. LiveClients' = LiveClients \ {x}
  BY <1>1 DEF LiveClients, TypeOK
<1>4. Leases!End(x, E)
  BY <1>1, <1>2, <1>3 DEF Leases!End, LiveClients
<1> QED BY <1>2, <1>4 DEF Leases!Next, LiveClients

LEMMA AbortWithdraws ==
    ASSUME TypeOK, ConnInv, RegInv, NEW c \in Conns, Abort(c)
    PROVE  [Leases!Next]_<<leases, LiveClients>>
<1> DEFINE k == entry[c].key
<1>1. k \in Keys /\ entry[c].client \in Clients
  BY DEF Abort, ConnInv
<1> PICK x \in Clients : x = entry[c].client
  BY <1>1
<1>2. CASE sessions[k] # c
  BY <1>2, Stutter DEF Abort, registry
<1>3. CASE sessions[k] = c
  <2>1. active[x] = k
    BY <1>1, <1>3, ManagerAssumption DEF Live, LiveEntry, RegInv, OneSessionPerClient
  <2>2. active' = [active EXCEPT ![x] = NoKey] /\ leases' = [leases EXCEPT ![x] = NoAddr]
    BY <1>3, <2>1 DEF Abort
  <2>3. LiveClients' = LiveClients \ {x} /\ x \in LiveClients
    BY <1>1, <2>1, <2>2, ManagerAssumption DEF LiveClients, TypeOK
  <2>4. Leases!Withdraw(x)
    BY <2>2, <2>3 DEF Leases!Withdraw, LiveClients
  <2> QED BY <1>1, <2>4 DEF Leases!Next
<1> QED BY <1>2, <1>3

LEMMA TeardownEnds ==
    ASSUME TypeOK, ConnInv, RegInv, NEW c \in Conns, Teardown(c)
    PROVE  [Leases!Next]_<<leases, LiveClients>>
<1> DEFINE k == entry[c].key
           e == sessions[k]
           x == entry[e].client
<1>1. k \in Keys
  BY DEF Teardown, ConnInv
<1>2. CASE e = NoConn
  BY <1>2, Stutter DEF Teardown, registry
<1>3. CASE e # NoConn
  <2>1. active[x] = k /\ x \in Clients
    BY <1>1, <1>3 DEF Live, LiveEntry, RegInv, OneSessionPerClient
  <2>2. active' = [active EXCEPT ![x] = NoKey] /\ leases' = leases
    BY <1>3, <2>1 DEF Teardown
  <2>3. LiveClients' = LiveClients \ {x}
    BY <2>2 DEF LiveClients, TypeOK
  <2>4. leases = Leases!Lapse({})
    BY DEF TypeOK, Leases!Lapse
  <2>5. Leases!End(x, {})
    BY <2>2, <2>3, <2>4 DEF Leases!End, LiveClients
  <2> QED BY <2>1, <2>5 DEF Leases!Next
<1> QED BY <1>2, <1>3

(* The registry implements the address service: whatever connections,      *)
(* evictions, failures and late teardowns interleave, each step is a       *)
(* grant, an end, a withdrawal or a lapse that AddressLeases allows.       *)
THEOREM Refinement == Spec => ImplementsAddressLeases
<1>1. Init => Leases!Init
  BY DEF Init, Leases!Init
<1>2. ASSUME TypeOK, ConnInv, RegInv, [Next]_vars
      PROVE  [Leases!Next]_<<leases, LiveClients>>
  <2>1. ASSUME NEW c \in Conns, Work(c), ~Abort(c) PROVE UNCHANGED <<leases, active>>
    BY <2>1 DEF Work, Ensure, EnsureFail, ApplyFail, Unwind, UpHook,
                Unplumb, DownHook, registry
  <2>2. ASSUME NEW c \in Conns, EstablishReject(c)
        PROVE  UNCHANGED <<leases, active>>
    BY <2>2 DEF EstablishReject, registry
  <2>3. CASE Tick \/ UNCHANGED vars
    BY <2>3, Stutter DEF Tick, vars, registry
  <2> QED BY <1>2, <2>1, <2>2, <2>3, Stutter, RegisterGrants, FailureEnds, AbortWithdraws,
             TeardownEnds DEF Next
<1>3. TypeOK /\ ConnInv /\ RegInv /\ [Next]_vars
        => [Leases!Next]_<<leases, {x \in Clients : active[x] # NoKey}>>
  BY <1>2 DEF LiveClients
<1> QED BY <1>1, <1>3, Inductive, PTL DEF Spec, ImplementsAddressLeases, Leases!Spec

-----------------------------------------------------------------------------
(* The data plane.                                                         *)

GeneratedNames == \A x \in Clients : PinnedName[x] = NoName

(* No two entries have the same key, so none has the same interface name.  *)
KeysDistinct ==
    \A c, d \in Conns : c # d /\ entry[c].key = entry[d].key => entry[c].key = NoKey

NamesFollowKeys ==
    \A c \in Conns : entry[c].key # NoKey => entry[c].ifName = ifName(entry[c].key)

Registered(c) == entry[c].key \in Keys /\ sessions[entry[c].key] = c

(* What removeAndNotify works on is no longer registered, and never again. *)
VictimsGone ==
    \A d \in Conns : pc[d] \in {"unplumb", "down"} =>
        /\ victim[d] \in Conns /\ pc[victim[d]] # "idle"
        /\ entry[victim[d]].key \in Keys /\ ~Registered(victim[d])

(* A registered session has its interface from Ensure on.                  *)
Plumbed ==
    \A c \in Conns : Registered(c) =>
        /\ pc[c] \in {"mss", "up"} => ifaces[entry[c].ifName] = c
        /\ pc[c] = "up" => hook[c] = "up"

GrantedPCs ==
    \A c \in Conns : result[c] = "OK" => pc[c] \in {"up", "unplumb", "down", "done"}

PlaneInv == KeysDistinct /\ NamesFollowKeys /\ VictimsGone /\ Plumbed /\ GrantedPCs

-----------------------------------------------------------------------------
(* A step that leaves the entries and the registry alone, except for       *)
(* taking sessions out of it.                                              *)
LEMMA Shrink ==
    ASSUME TypeOK, PlaneInv, entry' = entry,
           \A k \in Keys : sessions'[k] \in {sessions[k], NoConn}
    PROVE  /\ KeysDistinct' /\ NamesFollowKeys'
           /\ \A c \in Conns : Registered(c)' => Registered(c)
<1>1. \A c \in Conns : Registered(c)' => Registered(c)
  BY ManagerAssumption DEF Registered
<1> QED BY <1>1 DEF PlaneInv, KeysDistinct, NamesFollowKeys

LEMMA OtherNames ==
    ASSUME PlaneInv, NEW c \in Conns, NEW d \in Conns, c # d,
           entry[c].key \in Keys, entry[d].key \in Keys
    PROVE  entry[c].ifName # entry[d].ifName
<1>1. entry[c].key # entry[d].key
  BY ManagerAssumption DEF PlaneInv, KeysDistinct
<1>2. entry[c].ifName = <<"grem", entry[c].key>> /\ entry[d].ifName = <<"grem", entry[d].key>>
  BY ManagerAssumption DEF PlaneInv, NamesFollowKeys, ifName
<1> QED BY <1>1, <1>2

LEMMA PlaneRegister ==
    ASSUME DistinctDraws, GeneratedNames, TypeOK, ConnInv, RegInv, PlaneInv,
           NEW c \in Conns, NEW x \in Clients, NEW req \in Requests, Register(c, x, req)
    PROVE  PlaneInv'
<1>1. PICK a \in allocInner(x, req, PurgedLeases, UsedWithout(Evictee(x))),
           k \in randomKey(SessionsWithout(active[x])) :
             /\ entry' = [entry EXCEPT ![c] =
                    [client |-> x, key |-> k, ifName |-> ifNameFor(x, k), inner |-> a]]
             /\ sessions' = [SessionsWithout(active[x]) EXCEPT ![k] = c]
  BY Zenon DEF Register
<1>2. /\ pc[c] = "idle" /\ UNCHANGED <<result, plane>>
      /\ victim' = [victim EXCEPT ![c] = Evictee(x)]
      /\ pc' = [pc EXCEPT ![c] = IF Evictee(x) = NoConn THEN "ensure" ELSE "unplumb"]
  BY DEF Register, Goto
<1>3. k \in Keys /\ \A d \in Conns : entry[d].key # k
  BY <1>1 DEF randomKey
<1>4. /\ entry'[c].key = k /\ entry'[c].ifName = ifName(k)
      /\ \A d \in Conns \ {c} : entry'[d] = entry[d]
  BY <1>1 DEF TypeOK, ifNameFor, GeneratedNames
<1>5. \A d \in Conns \ {c} : Registered(d)' => Registered(d)
  BY <1>1, <1>3, <1>4, ManagerAssumption DEF Registered, SessionsWithout
<1>6. KeysDistinct'
  BY <1>3, <1>4 DEF PlaneInv, KeysDistinct
<1>7. NamesFollowKeys'
  BY <1>3, <1>4 DEF PlaneInv, NamesFollowKeys
<1>8. VictimsGone'
  <2> SUFFICES ASSUME NEW d \in Conns, pc'[d] \in {"unplumb", "down"}
               PROVE  /\ victim'[d] \in Conns /\ pc'[victim'[d]] # "idle"
                      /\ entry'[victim'[d]].key \in Keys
                      /\ ~(entry'[victim'[d]].key \in Keys
                           /\ sessions'[entry'[victim'[d]].key] = victim'[d])
    BY DEF VictimsGone, Registered
  <2>1. CASE d # c
    <3>1. /\ victim'[d] = victim[d] /\ victim[d] \in Conns /\ pc[victim[d]] # "idle"
          /\ entry[victim[d]].key \in Keys /\ ~Registered(victim[d])
      BY <1>2, <2>1 DEF TypeOK, PlaneInv, VictimsGone
    <3>2. victim[d] # c
      BY <1>2, <3>1
    <3>3. pc'[victim[d]] = pc[victim[d]] /\ entry'[victim[d]] = entry[victim[d]]
      BY <1>2, <1>4, <3>1, <3>2 DEF TypeOK
    <3>4. ~Registered(victim[d])'
      BY <1>5, <3>1, <3>2
    <3> QED BY <3>1, <3>3, <3>4 DEF Registered
  <2>2. CASE d = c
    <3>1. Evictee(x) # NoConn /\ victim'[c] = Evictee(x)
      BY <1>2, <2>2 DEF TypeOK
    <3>2. active[x] \in Keys /\ Evictee(x) = sessions[active[x]] /\ Live(active[x])
      BY <3>1 DEF Evictee, TypeOK, Live
    <3>3. /\ Evictee(x) \in Conns /\ entry[Evictee(x)].key = active[x]
          /\ pc[Evictee(x)] # "idle"
      BY <3>2 DEF TypeOK, RegInv, OneSessionPerClient, NoAbandonedSession, Live, LiveEntry
    <3>4. Evictee(x) # c /\ k # active[x]
      BY <1>2, <1>3, <3>3
    <3>5. sessions'[active[x]] = NoConn
      BY <1>1, <3>2, <3>4 DEF SessionsWithout
    <3> QED BY <1>2, <1>4, <2>2, <3>1, <3>2, <3>3, <3>4, <3>5, ManagerAssumption DEF TypeOK
  <2> QED BY <2>1, <2>2
<1>9. Plumbed'
  <2> SUFFICES ASSUME NEW d \in Conns, Registered(d)'
               PROVE  /\ pc'[d] \in {"mss", "up"} => ifaces'[entry'[d].ifName] = d
                      /\ pc'[d] = "up" => hook'[d] = "up"
    BY DEF Plumbed
  <2>1. CASE d = c
    BY <1>2, <2>1 DEF TypeOK
  <2>2. CASE d # c
    BY <1>2, <1>4, <1>5, <2>2 DEF TypeOK, PlaneInv, Plumbed, plane
  <2> QED BY <2>1, <2>2
<1>10. GrantedPCs'
  BY <1>2 DEF TypeOK, ConnInv, PlaneInv, GrantedPCs
<1> QED BY <1>6, <1>7, <1>8, <1>9, <1>10 DEF PlaneInv

(* Steps that start no removeAndNotify and register nothing.               *)
LEMMA Quietly ==
    ASSUME TypeOK, PlaneInv, UNCHANGED <<entry, victim>>,
           \A k \in Keys : sessions'[k] \in {sessions[k], NoConn},
           \A d \in Conns : /\ pc'[d] = "idle" => pc[d] = "idle"
                            /\ pc'[d] \in {"unplumb", "down"}
                                 => pc[d] \in {"unplumb", "down"},
           Plumbed', GrantedPCs'
    PROVE  PlaneInv'
<1>1. /\ KeysDistinct' /\ NamesFollowKeys'
      /\ \A c \in Conns : Registered(c)' => Registered(c)
  BY Shrink
<1>2. VictimsGone'
  BY <1>1 DEF PlaneInv, VictimsGone
<1> QED BY <1>1, <1>2 DEF PlaneInv

(* Steps of c that touch at most c's own, or its victim's, interface.      *)
LEMMA PlaneWork ==
    ASSUME TypeOK, ConnInv, RegInv, PlaneInv, NEW c \in Conns, Work(c)
    PROVE  PlaneInv'
<1>1. UNCHANGED <<entry, victim>> /\ \A k \in Keys : sessions'[k] \in {sessions[k], NoConn}
  BY DEF Work, Ensure, EnsureFail, ApplyFail, Unwind, Abort, UpHook,
         Unplumb, DownHook, registry, SessionsWithout
<1>2. \A d \in Conns \ {c} : pc'[d] = pc[d] /\ result'[d] = result[d]
  BY DEF TypeOK, Work, Ensure, EnsureFail, ApplyFail, Unwind, Abort,
         UpHook, Unplumb, DownHook, Return, Goto
<1>3. /\ pc'[c] # "idle" /\ pc[c] # "up"
      /\ pc'[c] \in {"unplumb", "down"} => pc[c] \in {"unplumb"}
      /\ pc'[c] = "mss" => Ensure(c)
      /\ pc'[c] = "up" => pc[c] = "mss" /\ UpHook(c)
  BY DEF TypeOK, Work, Ensure, EnsureFail, ApplyFail, Unwind, Abort,
         UpHook, Unplumb, DownHook, Return, Goto
<1>4. \A d \in Conns : Registered(d)' => Registered(d)
  BY <1>1, Shrink
<1>5. GrantedPCs'
  <2>1. result'[c] = "OK" => pc'[c] \in {"up", "unplumb", "down", "done"}
    BY DEF TypeOK, PlaneInv, GrantedPCs, Work, Ensure, EnsureFail, ApplyFail,
           Unwind, Abort, UpHook, Unplumb, DownHook, Return, Goto
  <2> QED BY <1>2, <2>1 DEF PlaneInv, GrantedPCs
<1>6. \A d \in Conns \ {c} : Registered(d) => ifaces'[entry[d].ifName] = ifaces[entry[d].ifName]
  <2> SUFFICES ASSUME NEW d \in Conns \ {c}, Registered(d)
               PROVE  ifaces'[entry[d].ifName] = ifaces[entry[d].ifName]
    OBVIOUS
  <2>1. entry[c].ifName # entry[d].ifName
    BY OtherNames DEF ConnInv, Registered, Work, Ensure, EnsureFail, ApplyFail,
       Unwind, Abort, UpHook, Unplumb, DownHook
  <2>2. pc[c] = "unplumb" => entry[victim[c]].ifName # entry[d].ifName
    BY OtherNames DEF PlaneInv, VictimsGone, Registered
  <2>3. \/ ifaces' = ifaces
        \/ \E e \in Conns \cup {NoConn} : ifaces' = [ifaces EXCEPT ![entry[c].ifName] = e]
        \/ pc[c] = "unplumb" /\ ifaces' = [ifaces EXCEPT ![entry[victim[c]].ifName] = NoConn]
    BY DEF Work, Ensure, EnsureFail, ApplyFail, Unwind,
           Abort, UpHook, Unplumb, DownHook, RemoveInterface, plane
  <2>4. entry[d].ifName \in IfNames
    BY ManagerAssumption
       DEF Registered, PlaneInv, NamesFollowKeys, IfNames
  <2> QED BY <2>1, <2>2, <2>3, <2>4 DEF TypeOK
<1>7. \A d \in Conns \ {c} : Registered(d) => hook'[d] = hook[d]
  BY DEF TypeOK, PlaneInv, VictimsGone, Work, Ensure, EnsureFail, ApplyFail, Unwind,
         Abort, UpHook, Unplumb, DownHook, plane
<1>8. Plumbed'
  <2> SUFFICES ASSUME NEW d \in Conns, Registered(d)'
               PROVE  /\ pc'[d] \in {"mss", "up"} => ifaces'[entry'[d].ifName] = d
                      /\ pc'[d] = "up" => hook'[d] = "up"
    BY DEF Plumbed
  <2>1. CASE d # c
    BY <1>1, <1>2, <1>4, <1>6, <1>7, <2>1 DEF PlaneInv, Plumbed
  <2>2. CASE d = c
    <3>1. ASSUME Ensure(c) PROVE ifaces'[entry[c].ifName] = c
      BY <3>1 DEF Ensure, TypeOK, ConnInv
    <3>2. ASSUME UpHook(c) PROVE ifaces' = ifaces
      BY <3>2 DEF UpHook
    <3>3. ASSUME UpHook(c) PROVE hook'[c] = "up"
      BY <3>3 DEF UpHook, TypeOK
    <3> QED BY <1>1, <1>3, <1>4, <2>2, <3>1, <3>2, <3>3 DEF PlaneInv, Plumbed
  <2> QED BY <2>1, <2>2
<1>9. \A d \in Conns : /\ pc'[d] = "idle" => pc[d] = "idle"
                       /\ pc'[d] \in {"unplumb", "down"}
                            => pc[d] \in {"unplumb", "down"}
  BY <1>2, <1>3
<1> QED BY <1>1, <1>5, <1>8, <1>9, Quietly

(* With distinct keys a Teardown finds its own entry or none.              *)
LEMMA TeardownOwn ==
    ASSUME TypeOK, ConnInv, RegInv, KeysDistinct, NEW c \in Conns, Teardown(c)
    PROVE  /\ entry[c].key \in Keys
           /\ sessions[entry[c].key] \in {c, NoConn}
           /\ \A k \in Keys : sessions'[k] = (IF k = entry[c].key THEN NoConn ELSE sessions[k])
<1>1. entry[c].key \in Keys
  BY DEF Teardown, ConnInv
<1>2. ASSUME sessions[entry[c].key] # NoConn PROVE sessions[entry[c].key] = c
  BY <1>1, <1>2, ManagerAssumption
     DEF TypeOK, RegInv, OneSessionPerClient, Live, LiveEntry, KeysDistinct
<1> QED BY <1>1, <1>2 DEF Teardown, SessionsWithout, registry

LEMMA PlaneTeardown ==
    ASSUME TypeOK, ConnInv, RegInv, PlaneInv, NEW c \in Conns, Teardown(c)
    PROVE  PlaneInv'
<1>1. /\ entry[c].key \in Keys
      /\ sessions[entry[c].key] \in {c, NoConn}
      /\ \A k \in Keys : sessions'[k] = (IF k = entry[c].key THEN NoConn ELSE sessions[k])
  BY TeardownOwn DEF PlaneInv
<1>2. pc[c] = "up" /\ UNCHANGED <<entry, result, plane>>
  BY DEF Teardown
<1>3. /\ \A d \in Conns \ {c} : pc'[d] = pc[d] /\ victim'[d] = victim[d]
      /\ \/ pc'[c] = "done"
         \/ pc'[c] = "unplumb" /\ victim'[c] = c
  <2>1. /\ \/ pc' = [pc EXCEPT ![c] = "done"] /\ victim' = victim
           \/ pc' = [pc EXCEPT ![c] = "unplumb"]
              /\ victim' = [victim EXCEPT ![c] = sessions[entry[c].key]]
              /\ sessions[entry[c].key] # NoConn
    BY DEF Teardown, Goto
  <2> QED BY <1>1, <2>1 DEF TypeOK
<1>4. /\ KeysDistinct' /\ NamesFollowKeys'
      /\ \A d \in Conns : Registered(d)' => Registered(d)
  BY <1>1, <1>2, Shrink
<1>5. ~Registered(c)'
  BY <1>1, <1>2, ManagerAssumption DEF Registered
<1>6. VictimsGone'
  BY <1>1, <1>2, <1>3, <1>4, <1>5 DEF PlaneInv, VictimsGone
<1>7. Plumbed'
  BY <1>2, <1>3, <1>4, <1>5 DEF PlaneInv, Plumbed, plane
<1>8. GrantedPCs'
  BY <1>2, <1>3 DEF PlaneInv, GrantedPCs
<1> QED BY <1>4, <1>6, <1>7, <1>8 DEF PlaneInv

LEMMA PlaneStep ==
    ASSUME DistinctDraws, GeneratedNames, TypeOK, ConnInv, RegInv, PlaneInv, [Next]_vars
    PROVE  PlaneInv'
<1>1. ASSUME NEW c \in Conns,
             \/ EstablishReject(c)
             \/ \E x \in Clients, req \in Requests : EstablishFail(c, x, req)
      PROVE  PlaneInv'
  <2>1. /\ UNCHANGED <<entry, victim, plane>> /\ pc[c] = "idle" /\ pc'[c] = "done"
        /\ \A d \in Conns \ {c} : pc'[d] = pc[d] /\ result'[d] = result[d]
    BY <1>1 DEF EstablishReject, EstablishFail, Return, Goto, TypeOK
  <2>2. \A k \in Keys : sessions'[k] \in {sessions[k], NoConn}
    BY <1>1 DEF EstablishReject, EstablishFail, SessionsWithout, registry
  <2>3. Plumbed'
    BY <2>1, <2>2, Shrink DEF PlaneInv, Plumbed, plane
  <2>4. GrantedPCs'
    BY <2>1 DEF PlaneInv, GrantedPCs
  <2> QED BY <2>1, <2>2, <2>3, <2>4, Quietly
<1>2. ASSUME UNCHANGED <<conn, sessions, ifaces, hook>> PROVE PlaneInv'
  BY <1>2 DEF PlaneInv, KeysDistinct, NamesFollowKeys, VictimsGone, Plumbed, GrantedPCs,
              Registered, conn
<1>3. CASE Tick \/ UNCHANGED vars
  BY <1>2, <1>3 DEF Tick, vars, registry, plane
<1> QED BY <1>1, <1>3, PlaneRegister, PlaneWork, PlaneTeardown DEF Next

(* A granted session's interface and up hook stay as Establish left them   *)
(* for as long as it is registered, whatever stale evictions, teardowns    *)
(* and clean-ups of other connections are still under way.                 *)
THEOREM Intact ==
    ASSUME DistinctDraws, GeneratedNames
    PROVE  Spec => []LiveSessionIntact
<1>1. Init => PlaneInv
  BY ManagerAssumption
     DEF Init, NilEntry, PlaneInv, KeysDistinct, NamesFollowKeys, VictimsGone, Plumbed,
         GrantedPCs, Registered
<1>2. TypeOK /\ ConnInv /\ RegInv /\ PlaneInv /\ [Next]_vars => PlaneInv'
  BY PlaneStep
<1>3. ASSUME TypeOK, RegInv, PlaneInv, NEW k \in Keys, Live(k), result[sessions[k]] = "OK"
      PROVE  /\ ifaces[LiveEntry(k).ifName] = sessions[k]
             /\ hook[sessions[k]] = "up"
  <2>1. sessions[k] \in Conns /\ Registered(sessions[k])
    BY <1>3 DEF TypeOK, Live, LiveEntry, Registered, RegInv, OneSessionPerClient
  <2>2. pc[sessions[k]] = "up"
    BY <1>3, <2>1 DEF RegInv, NoAbandonedSession, PlaneInv, GrantedPCs
  <2> QED BY <2>1, <2>2, <1>3 DEF PlaneInv, Plumbed, LiveEntry
<1>4. TypeOK /\ RegInv /\ PlaneInv => LiveSessionIntact
  BY <1>3 DEF LiveSessionIntact
<1> QED BY <1>1, <1>2, <1>4, Inductive, PTL DEF Spec

-----------------------------------------------------------------------------
(* Distinct draws give distinct keys, whatever the interface names.        *)
LEMMA KeysStep ==
    ASSUME DistinctDraws, TypeOK, KeysDistinct, [Next]_vars
    PROVE  KeysDistinct'
<1>1. ASSUME NEW c \in Conns, NEW x \in Clients, NEW req \in Requests, Register(c, x, req)
      PROVE  KeysDistinct'
  <2>1. PICK a \in allocInner(x, req, PurgedLeases, UsedWithout(Evictee(x))),
             k \in randomKey(SessionsWithout(active[x])) :
               entry' = [entry EXCEPT ![c] =
                    [client |-> x, key |-> k, ifName |-> ifNameFor(x, k), inner |-> a]]
    BY <1>1, Zenon DEF Register
  <2>2. \A d \in Conns : entry[d].key # k
    BY <2>1 DEF randomKey
  <2>3. entry'[c].key = k /\ \A d \in Conns \ {c} : entry'[d] = entry[d]
    BY <2>1 DEF TypeOK
  <2> QED BY <2>2, <2>3 DEF KeysDistinct
<1>2. ASSUME entry' = entry PROVE KeysDistinct'
  BY <1>2 DEF KeysDistinct
<1>3. ASSUME NEW c \in Conns, NEW x, NEW req, EstablishFail(c, x, req) PROVE entry' = entry
  BY <1>3 DEF EstablishFail
<1>4. ASSUME NEW c \in Conns,
             EstablishReject(c) \/ Work(c) \/ Teardown(c)
      PROVE  entry' = entry
  BY <1>4 DEF EstablishReject, Work, Ensure, EnsureFail, ApplyFail, Unwind, Abort,
              UpHook, Unplumb, DownHook, Teardown
<1>5. ASSUME Tick \/ UNCHANGED vars PROVE entry' = entry
  BY <1>5 DEF Tick, vars, conn
<1> QED BY <1>1, <1>2, <1>3, <1>4, <1>5 DEF Next

(* Which steps can end the session of key k, held by connection e.         *)
LEMMA EndStep ==
    ASSUME ~RandomMayFail, TypeOK, ConnInv, RegInv, KeysDistinct, Next,
           NEW k \in Keys, NEW e \in Conns, sessions[k] = e, sessions'[k] # e
    PROVE  \/ pc'[e] # pc[e]
           \/ \E d \in Conns \ {e} : pc[d] = "idle" /\ entry'[d].client = entry[e].client
<1>1. Live(k) /\ entry[e].key = k /\ active[entry[e].client] = k /\ pc[e] # "idle"
  BY ManagerAssumption
     DEF RegInv, OneSessionPerClient, NoAbandonedSession, Live, LiveEntry
<1>2. ASSUME NEW d \in Conns, NEW x \in Clients, NEW req \in Requests, Register(d, x, req)
      PROVE  pc[d] = "idle" /\ d # e /\ entry'[d].client = entry[e].client
  <2>1. PICK a \in Prefix, j \in Keys :
         /\ pc[d] = "idle"
         /\ SessionsWithout(active[x])[j] = NoConn
         /\ entry' = [entry EXCEPT ![d] =
                [client |-> x, key |-> j, ifName |-> ifNameFor(x, j), inner |-> a]]
         /\ sessions' = [SessionsWithout(active[x]) EXCEPT ![j] = d]
    BY <1>2, RegisterStep
  <2>2. k = active[x]
    BY <2>1, <1>1 DEF SessionsWithout, Live
  <2>3. entry[e].client = x
    BY <2>2, ManagerAssumption DEF RegInv, OneSessionPerClient, LiveEntry
  <2> QED BY <1>1, <2>1, <2>3 DEF TypeOK
<1>3. ASSUME NEW d \in Conns, NEW x \in Clients, NEW req \in Requests,
             EstablishFail(d, x, req)
      PROVE  FALSE
  <2>1. result'[d] = "NoAddresses"
    BY <1>3 DEF EstablishFail, Return, TypeOK
  <2> QED BY <1>3, <2>1, RefusalStep
<1>4. ASSUME NEW d \in Conns, Teardown(d) PROVE pc'[e] # pc[e]
  <2>1. sessions[entry[d].key] \in {d, NoConn} /\ k = entry[d].key
    BY <1>4, TeardownOwn
  <2>2. d = e
    BY <2>1, <1>1 DEF Live
  <2> QED BY <1>4, <2>2 DEF Teardown, Goto, TypeOK
<1>5. ASSUME NEW d \in Conns, Abort(d) PROVE pc'[e] # pc[e]
  <2>1. d = e
    BY <1>5 DEF Abort, SessionsWithout, registry
  <2> QED BY <1>5, <2>1 DEF Abort, Return, Goto, TypeOK
<1>6. ASSUME NEW d \in Conns,
             \/ EstablishReject(d)
             \/ Work(d) /\ ~Abort(d)
      PROVE  FALSE
  BY <1>6 DEF EstablishReject, Work, Ensure, EnsureFail, ApplyFail, Unwind,
              UpHook, Unplumb, DownHook, registry, plane
<1>7. ASSUME Tick PROVE FALSE
  BY <1>7 DEF Tick, registry
<1> QED BY <1>2, <1>3, <1>4, <1>5, <1>6, <1>7 DEF Next

(* The Teardown of a superseded connection ends nobody else's session:     *)
(* what ends a session is its own connection or its client's next one.     *)
THEOREM OwnerOrSuccessor ==
    ASSUME DistinctDraws, ~RandomMayFail
    PROVE  Spec => EndedByOwnerOrSuccessor
<1>1. Init => KeysDistinct
  BY DEF Init, NilEntry, KeysDistinct
<1>2. TypeOK /\ KeysDistinct /\ [Next]_vars => KeysDistinct'
  BY KeysStep
<1>3. TypeOK /\ ConnInv /\ RegInv /\ KeysDistinct /\ [Next]_vars =>
        [ \A k \in Keys : LET c == sessions[k] IN
            Live(k) /\ sessions'[k] # c =>
                \/ pc'[c] # pc[c]
                \/ \E d \in Conns \ {c} : /\ pc[d] = "idle"
                                          /\ entry'[d].client = entry[c].client ]_vars
  BY EndStep DEF Live, TypeOK
<1> QED BY <1>1, <1>2, <1>3, Inductive, PTL DEF Spec, EndedByOwnerOrSuccessor

-----------------------------------------------------------------------------
(* What is left of a session that has ended, if no removal fails and a     *)
(* failing Ensure leaves no interface behind.  Each lemma is for one kind  *)
(* of step; ServerSystemProofs puts them together.                         *)
CleanFailures == ~RemoveMayFail /\ "created" \notin EnsureFailures

(* Establish has succeeded just for the connections that are up or past it. *)
ResultInv ==
    \A c \in Conns : /\ result[c] = "OK" => pc[c] \in {"up", "unplumb", "down", "done"}
                     /\ pc[c] = "up" => result[c] = "OK"

Owns(c) == \E n \in IfNames : ifaces[n] = c

(* An interface is its owner's only under the name of the owner's entry,   *)
(* and until Establish has returned only between Ensure and the unwinding. *)
OwnInv ==
    \A c \in Conns :
        /\ \A n \in IfNames : ifaces[n] = c => n = entry[c].ifName
        /\ Owns(c) => pc[c] \in {"mss", "unwind"} \/ result[c] = "OK"
        /\ hook[c] = "up" => result[c] = "OK"

(* Some removeAndNotify works on c's entry and is at one of the places.    *)
ClearedBy(c, where) == \E d \in Conns : victim[d] = c /\ pc[d] \in where

(* Either c's entry is registered, or c's Establish is over and whatever   *)
(* there still is of its session is about to be removed.                   *)
Accounted(c) ==
    \/ Registered(c)
    \/ /\ pc[c] \in {"idle", "done"} \/ result[c] = "OK"
       /\ Owns(c) => ClearedBy(c, {"unplumb"})
       /\ hook[c] = "up" => ClearedBy(c, {"unplumb", "down"})

LEMMA ResultStep ==
    ASSUME TypeOK, ConnInv, ResultInv, [Next]_vars
    PROVE  ResultInv'
<1> USE DEF ResultInv
<1>1. ASSUME NEW c \in Conns, EstablishReject(c) PROVE ResultInv'
  BY <1>1 DEF TypeOK, EstablishReject, Return, Goto
<1>2. ASSUME NEW c \in Conns, NEW x \in Clients, NEW req \in Requests,
             Register(c, x, req) PROVE ResultInv'
  BY <1>2 DEF TypeOK, ConnInv, Register, Goto
<1>3. ASSUME NEW c \in Conns, NEW x \in Clients, NEW req \in Requests,
             EstablishFail(c, x, req) PROVE ResultInv'
  BY <1>3 DEF TypeOK, EstablishFail, Return, Goto
<1>4. ASSUME NEW c \in Conns, Work(c) PROVE ResultInv'
  <2>1. \A d \in Conns \ {c} : pc'[d] = pc[d] /\ result'[d] = result[d]
    BY <1>4 DEF TypeOK, Work, Ensure, EnsureFail, ApplyFail, Unwind, Abort,
                UpHook, Unplumb, DownHook, Return, Goto
  <2>2. /\ result'[c] = "OK" => pc'[c] \in {"up", "unplumb", "down", "done"}
        /\ pc'[c] = "up" => result'[c] = "OK"
    BY <1>4 DEF TypeOK, Work, Ensure, EnsureFail, ApplyFail, Unwind, Abort,
                UpHook, Unplumb, DownHook, Return, Goto
  <2> QED BY <2>1, <2>2
<1>5. ASSUME NEW c \in Conns, Teardown(c) PROVE ResultInv'
  BY <1>5 DEF TypeOK, Teardown, Goto
<1>6. CASE Tick \/ UNCHANGED vars
  BY <1>6 DEF Tick, vars, conn
<1> QED BY <1>1, <1>2, <1>3, <1>4, <1>5, <1>6 DEF Next

(* Only Ensure creates an interface, under the name of the entry, and only *)
(* a successful Establish runs the up hook.                                *)
LEMMA OwnStep ==
    ASSUME CleanFailures, TypeOK, ConnInv, ResultInv, OwnInv, [Next]_vars
    PROVE  OwnInv'
<1>1. ASSUME UNCHANGED <<entry, pc, result, ifaces, hook>> PROVE OwnInv'
  BY <1>1 DEF OwnInv, Owns
<1>2. ASSUME NEW c \in Conns, UNCHANGED plane, pc[c] = "idle",
             \A d \in Conns \ {c} : /\ pc'[d] = pc[d] /\ result'[d] = result[d]
                                    /\ entry'[d] = entry[d]
      PROVE  OwnInv'
  <2>1. ~Owns(c) /\ hook[c] # "up"
    BY <1>2 DEF OwnInv, ConnInv
  <2> QED BY <1>2, <2>1 DEF OwnInv, Owns, plane
<1>3. ASSUME NEW c \in Conns, EstablishReject(c) PROVE OwnInv'
  <2>1. UNCHANGED <<entry, plane>> /\ pc[c] = "idle"
        /\ \A d \in Conns \ {c} : pc'[d] = pc[d] /\ result'[d] = result[d]
    BY <1>3 DEF TypeOK, EstablishReject, Return, Goto
  <2> QED BY <1>2, <1>3, <2>1
<1>4. ASSUME NEW c \in Conns, NEW x \in Clients, NEW req \in Requests,
             Register(c, x, req) PROVE OwnInv'
  <2>1. UNCHANGED <<result, plane>> /\ pc[c] = "idle"
        /\ \A d \in Conns \ {c} : pc'[d] = pc[d]
    BY <1>4 DEF TypeOK, Register, Goto
  <2>2. \A d \in Conns \ {c} : entry'[d] = entry[d]
    BY <1>4, RegisterStep DEF TypeOK
  <2> QED BY <1>2, <1>4, <2>1, <2>2
<1>5. ASSUME NEW c \in Conns, NEW x \in Clients, NEW req \in Requests,
             EstablishFail(c, x, req) PROVE OwnInv'
  <2>1. UNCHANGED <<entry, plane>> /\ pc[c] = "idle"
        /\ \A d \in Conns \ {c} : pc'[d] = pc[d] /\ result'[d] = result[d]
    BY <1>5 DEF TypeOK, EstablishFail, Return, Goto
  <2> QED BY <1>2, <1>5, <2>1
<1>6. ASSUME NEW c \in Conns, Work(c) PROVE OwnInv'
  <2>1. entry' = entry /\ \A d \in Conns \ {c} : pc'[d] = pc[d] /\ result'[d] = result[d]
    BY <1>6 DEF TypeOK, Work, Ensure, EnsureFail, ApplyFail, Unwind, Abort,
                UpHook, Unplumb, DownHook, Return, Goto
  <2>2. \A n \in IfNames, d \in Conns : ifaces'[n] = d /\ ifaces[n] # d
            => d = c /\ n = entry[c].ifName /\ pc'[c] = "mss"
    BY <1>6, ManagerAssumption
       DEF TypeOK, Work, Ensure, EnsureFail, ApplyFail, Unwind, Abort, UpHook, Unplumb,
           DownHook, Goto, plane, RemoveInterface, CleanFailures
  <2>3. \A d \in Conns : hook'[d] = "up" /\ hook[d] # "up" => d = c /\ result'[c] = "OK"
    BY <1>6 DEF TypeOK, Work, Ensure, EnsureFail, ApplyFail, Unwind, Abort,
                UpHook, Unplumb, DownHook, plane
  <2>4. pc[c] = "unwind" => ~Owns(c)'
    BY <1>6, ManagerAssumption DEF TypeOK, Work, Ensure, EnsureFail, ApplyFail, Unwind, Abort,
                UpHook, Unplumb, DownHook, CleanFailures, RemoveInterface, Owns, OwnInv
  <2>5. /\ pc[c] = "mss" => pc'[c] = "unwind" \/ result'[c] = "OK"
        /\ result[c] = "OK" => result'[c] = "OK"
    BY <1>6 DEF TypeOK, ResultInv, Work, Ensure, EnsureFail, ApplyFail, Unwind, Abort,
                UpHook, Unplumb, DownHook, Return, Goto
  <2>6. \A d \in Conns \ {c} : Owns(d)' => Owns(d)
    BY <2>2 DEF Owns
  <2>7. Owns(c)' => pc'[c] \in {"mss", "unwind"} \/ result'[c] = "OK"
    BY <2>2, <2>4, <2>5 DEF Owns, OwnInv
  <2>8. \A d \in Conns, n \in IfNames : ifaces'[n] = d => n = entry'[d].ifName
    BY <2>1, <2>2 DEF OwnInv
  <2>9. \A d \in Conns : hook'[d] = "up" => result'[d] = "OK"
    BY <2>1, <2>3, <2>5 DEF OwnInv
  <2> QED BY <2>1, <2>6, <2>7, <2>8, <2>9 DEF OwnInv
<1>7. ASSUME NEW c \in Conns, Teardown(c) PROVE OwnInv'
  <2>1. UNCHANGED <<entry, result, plane>> /\ result[c] = "OK"
        /\ \A d \in Conns \ {c} : pc'[d] = pc[d]
    BY <1>7 DEF TypeOK, Teardown, Goto, ResultInv
  <2> QED BY <2>1 DEF OwnInv, Owns, plane
<1>8. CASE Tick \/ UNCHANGED vars
  BY <1>8, <1>1 DEF Tick, vars, conn, plane
<1> QED BY <1>3, <1>4, <1>5, <1>6, <1>7, <1>8 DEF Next

(* A step keeps e accounted for if e stays registered, and what was about  *)
(* to be removed still is or is gone.                                      *)
LEMMA StillAccounted ==
    ASSUME NEW e \in Conns, Accounted(e), Registered(e) => Registered(e)',
           ~Registered(e) =>
             /\ pc'[e] \in {"idle", "done"} \/ result'[e] = "OK"
             /\ Owns(e)' => Owns(e) /\ (ClearedBy(e, {"unplumb"})
                                          => ClearedBy(e, {"unplumb"})')
             /\ hook'[e] = "up" => hook[e] = "up"
                                   /\ (ClearedBy(e, {"unplumb", "down"})
                                         => ClearedBy(e, {"unplumb", "down"})')
    PROVE  Accounted(e)'
BY DEF Accounted

(* A handler that is not in removeAndNotify moves: those that are stay.    *)
LEMMA StillCleared ==
    ASSUME NEW d \in Conns, pc[d] \notin {"unplumb", "down"},
           \A w \in Conns \ {d} : pc'[w] = pc[w] /\ victim'[w] = victim[w]
    PROVE  \A e \in Conns : /\ ClearedBy(e, {"unplumb"}) => ClearedBy(e, {"unplumb"})'
                            /\ ClearedBy(e, {"unplumb", "down"})
                                  => ClearedBy(e, {"unplumb", "down"})'
BY DEF ClearedBy

(* A reconnect evicts a session whose Establish has returned, and takes    *)
(* its entry over as the victim it is to clear away.                       *)
LEMMA AccountedRegister ==
    ASSUME TypeOK, ConnInv, RegInv, ResultInv, NEW e \in Conns, Accounted(e),
           NEW d \in Conns, NEW x \in Clients, NEW req \in Requests, Register(d, x, req),
           e # Evictee(x) \/ pc[e] = "up"
    PROVE  Accounted(e)'
<1>1. PICK a \in Prefix, k \in Keys :
         /\ SessionsWithout(active[x])[k] = NoConn
         /\ entry' = [entry EXCEPT ![d] =
                [client |-> x, key |-> k, ifName |-> ifNameFor(x, k), inner |-> a]]
         /\ sessions' = [SessionsWithout(active[x]) EXCEPT ![k] = d]
  BY RegisterStep
<1>2. /\ pc[d] = "idle" /\ UNCHANGED <<result, plane>>
      /\ victim' = [victim EXCEPT ![d] = Evictee(x)]
      /\ pc' = [pc EXCEPT ![d] = IF Evictee(x) = NoConn THEN "ensure" ELSE "unplumb"]
  BY DEF Register, Goto
<1>3. CASE e = d
  <2>1. entry'[d].key = k /\ sessions'[k] = d
    BY <1>1 DEF TypeOK, SessionsWithout
  <2> QED BY <1>3, <2>1 DEF Accounted, Registered
<1>4. CASE e # d /\ e = Evictee(x)
  <2>1. result[e] = "OK" /\ e # NoConn
    BY <1>4, ManagerAssumption DEF ResultInv
  <2>2. victim'[d] = e /\ pc'[d] = "unplumb"
    BY <1>2, <1>4, <2>1 DEF TypeOK
  <2> QED BY <1>2, <2>1, <2>2 DEF Accounted, ClearedBy
<1>5. CASE e # d /\ e # Evictee(x)
  <2>1. entry'[e] = entry[e] /\ pc'[e] = pc[e] /\ result'[e] = result[e]
        /\ \A w \in Conns \ {d} : pc'[w] = pc[w] /\ victim'[w] = victim[w]
    BY <1>1, <1>2, <1>5 DEF TypeOK
  <2>2. Registered(e) => Registered(e)'
    <3> SUFFICES ASSUME Registered(e) PROVE Registered(e)'
      OBVIOUS
    <3>1. entry[e].key \in Keys /\ sessions[entry[e].key] = e
      BY DEF Registered
    <3>2. entry[e].key # active[x]
      BY <1>5, <3>1, ManagerAssumption DEF Evictee
    <3>3. entry[e].key # k
      BY <1>1, <3>1, <3>2, ManagerAssumption DEF SessionsWithout
    <3> QED BY <1>1, <2>1, <3>1, <3>2, <3>3 DEF Registered, SessionsWithout
  <2> QED BY <1>2, <2>1, <2>2, StillAccounted, StillCleared DEF Accounted, Owns, plane
<1> QED BY <1>3, <1>4, <1>5

(* A step inside Establish or removeAndNotify.                             *)
LEMMA AccountedWork ==
    ASSUME CleanFailures, TypeOK, ConnInv, RegInv, ResultInv, OwnInv,
           NEW e \in Conns, Accounted(e), NEW d \in Conns, Work(d)
    PROVE  Accounted(e)'
<1>1. /\ UNCHANGED <<entry, victim>>
      /\ \A w \in Conns \ {d} : pc'[w] = pc[w] /\ result'[w] = result[w]
  BY DEF TypeOK, Work, Ensure, EnsureFail, ApplyFail, Unwind, Abort, UpHook,
         Unplumb, DownHook, Return, Goto
<1>2. CASE Abort(d) /\ e = d
  <2>1. result[d] # "OK" /\ pc[d] = "abort" /\ UNCHANGED plane /\ pc'[d] = "done"
    BY <1>2 DEF Abort, ResultInv, TypeOK, Return, Goto
  <2>2. ~Owns(e)' /\ hook'[e] # "up"
    BY <1>2, <2>1 DEF OwnInv, Owns, plane
  <2> QED BY <1>2, <2>1, <2>2 DEF Accounted
<1>3. CASE ~(Abort(d) /\ e = d)
  <2>1. Registered(e) => Registered(e)'
    <3>1. CASE Abort(d)
      <4>1. entry[d].key \in Keys
        BY <3>1 DEF Abort, ConnInv
      <4> QED BY <1>1, <1>3, <3>1, <4>1 DEF Abort, Registered, SessionsWithout, registry
    <3>2. CASE ~Abort(d)
      BY <1>1, <3>2 DEF Registered, Work, Ensure, EnsureFail, ApplyFail, Unwind, UpHook,
                        Unplumb, DownHook, registry
    <3> QED BY <3>1, <3>2
  <2> SUFFICES ASSUME ~Registered(e),
                      pc[e] \in {"idle", "done"} \/ result[e] = "OK"
               PROVE  Accounted(e)'
    BY <2>1, StillAccounted DEF Accounted
  <2>2. e = d => pc[d] \in {"unplumb", "down"} /\ result[d] = "OK"
    BY DEF ResultInv, Work, Ensure, EnsureFail, ApplyFail, Unwind, Abort, UpHook,
           Unplumb, DownHook
  <2>3. pc'[e] \in {"idle", "done"} \/ result'[e] = "OK"
    <3>1. e = d => result'[e] = "OK"
      BY <2>2 DEF Work, Ensure, EnsureFail, ApplyFail, Unwind, Abort, UpHook,
                  Unplumb, DownHook
    <3> QED BY <1>1, <3>1
  <2>4. Owns(e)' => Owns(e)
    <3>1. \A n \in IfNames : ifaces'[n] = e => ifaces[n] = e
      BY <2>2, ManagerAssumption
         DEF TypeOK, Work, Ensure, EnsureFail, ApplyFail, Unwind, Abort, UpHook, Unplumb,
             DownHook, plane, RemoveInterface, CleanFailures
    <3> QED BY <3>1 DEF Owns
  <2>5. hook'[e] = "up" => hook[e] = "up"
    BY <2>2 DEF TypeOK, Work, Ensure, EnsureFail, ApplyFail, Unwind, Abort, UpHook,
                Unplumb, DownHook, plane
  <2>6. pc[d] = "unplumb" => /\ Unplumb(d) /\ pc'[d] = "down"
                             /\ victim[d] = e => ~Owns(e)'
    <3> SUFFICES ASSUME pc[d] = "unplumb" PROVE /\ Unplumb(d) /\ pc'[d] = "down"
                                                /\ victim[d] = e => ~Owns(e)'
      OBVIOUS
    <3>1. Unplumb(d) /\ pc'[d] = "down"
      BY DEF TypeOK, Work, Ensure, EnsureFail, ApplyFail, Unwind, Abort, UpHook,
             Unplumb, DownHook, Goto
    <3>2. ifaces' = [ifaces EXCEPT ![entry[victim[d]].ifName] = NoConn]
      BY <3>1 DEF Unplumb, RemoveInterface, CleanFailures
    <3> QED BY <3>1, <3>2, ManagerAssumption DEF TypeOK, OwnInv, Owns
  <2>7. pc[d] = "down" /\ victim[d] = e => hook'[e] = "down"
    BY DEF TypeOK, Work, Ensure, EnsureFail, ApplyFail, Unwind, Abort, UpHook,
           Unplumb, DownHook
  <2>8. Owns(e)' /\ ClearedBy(e, {"unplumb"}) => ClearedBy(e, {"unplumb"})'
    BY <1>1, <2>6 DEF ClearedBy
  <2>9. hook'[e] = "up" /\ ClearedBy(e, {"unplumb", "down"})
           => ClearedBy(e, {"unplumb", "down"})'
    BY <1>1, <2>6, <2>7 DEF ClearedBy
  <2> QED BY <2>3, <2>4, <2>5, <2>8, <2>9, StillAccounted
<1> QED BY <1>2, <1>3

(* Teardown unregisters the entry and goes on to clear it away.            *)
LEMMA AccountedTeardown ==
    ASSUME TypeOK, ConnInv, RegInv, KeysDistinct, ResultInv,
           NEW e \in Conns, Accounted(e), NEW d \in Conns, Teardown(d)
    PROVE  Accounted(e)'
<1>1. /\ entry[d].key \in Keys
      /\ sessions[entry[d].key] \in {d, NoConn}
      /\ \A k \in Keys : sessions'[k] = (IF k = entry[d].key THEN NoConn ELSE sessions[k])
  BY TeardownOwn
<1>2. pc[d] = "up" /\ result[d] = "OK" /\ UNCHANGED <<entry, result, plane>>
  BY DEF Teardown, ResultInv
<1>3. \A w \in Conns \ {d} : pc'[w] = pc[w] /\ victim'[w] = victim[w]
  BY DEF Teardown, Goto, TypeOK
<1>4. CASE e = d /\ Registered(d)
  <2>1. pc'[d] = "unplumb" /\ victim'[d] = d
    BY <1>4, ManagerAssumption DEF Registered, Teardown, Goto, TypeOK
  <2> QED BY <1>2, <1>4, <2>1 DEF Accounted, ClearedBy
<1>5. CASE ~(e = d /\ Registered(d))
  <2>1. Registered(e) => Registered(e)'
    BY <1>1, <1>2, <1>5, ManagerAssumption DEF Registered
  <2> QED BY <1>2, <1>3, <2>1, StillAccounted, StillCleared DEF Accounted, Owns, plane
<1> QED BY <1>4, <1>5

(* An Establish that fails before it registers anything.                   *)
LEMMA AccountedFail ==
    ASSUME TypeOK, NEW e \in Conns, Accounted(e), NEW d \in Conns,
           \/ EstablishReject(d)
           \/ \E x \in Clients, req \in Requests : EstablishFail(d, x, req) /\ e # Evictee(x)
    PROVE  Accounted(e)'
<1>1. /\ pc[d] = "idle" /\ pc'[d] = "done" /\ UNCHANGED <<victim, plane>>
      /\ \A w \in Conns \ {d} : pc'[w] = pc[w] /\ result'[w] = result[w]
  BY DEF EstablishReject, EstablishFail, Return, Goto, TypeOK
<1>2. Registered(e) => Registered(e)'
  BY ManagerAssumption
     DEF EstablishReject, EstablishFail, Registered, SessionsWithout, Evictee, registry
<1> QED BY <1>1, <1>2, StillAccounted, StillCleared DEF Accounted, Owns, plane

(* Steps that leave the sessions alone.                                    *)
LEMMA AccountedIdle ==
    ASSUME NEW e \in Conns, Accounted(e), Tick \/ UNCHANGED vars
    PROVE  Accounted(e)'
<1>1. UNCHANGED <<pc, entry, victim, result, sessions, ifaces, hook>>
  BY DEF Tick, vars, conn, registry, plane
<1> QED BY <1>1 DEF Accounted, Registered, Owns, ClearedBy

(* No connection has a session at first.                                   *)
LEMMA AccountedInit ==
    Init => KeysDistinct /\ ResultInv /\ OwnInv /\ \A c \in Conns : Accounted(c)
BY ManagerAssumption
   DEF Init, NilEntry, KeysDistinct, ResultInv, OwnInv, Accounted, Owns

(* What is left of a session once its connection is done with it and nobody *)
(* else is clearing it away: nothing.                                       *)
LEMMA AccountedDone ==
    ASSUME TypeOK, RegInv, NEW c \in Conns, Accounted(c), pc[c] \in {"idle", "done"},
           \A d \in Conns : victim[d] = c => pc[d] \notin {"unplumb", "down"}
    PROVE  (\A n \in IfNames : ifaces[n] # c) /\ hook[c] # "up"
<1>1. ~Registered(c)
  BY ManagerAssumption DEF Registered, RegInv, NoAbandonedSession, Live
<1> QED BY <1>1 DEF Accounted, ClearedBy, Owns

=============================================================================
