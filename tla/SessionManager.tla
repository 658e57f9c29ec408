--------------------------- MODULE SessionManager ---------------------------
(***************************************************************************)
(* internal/session/manager.go: the server's session registry and the data *)
(* plane it drives.  A connection (one handler goroutine of the control    *)
(* server) calls Establish once and, if that succeeds, Teardown once.  The *)
(* sections under Manager.mu are single steps; the data-plane calls made   *)
(* outside the lock (interface, hooks) are steps of their own and          *)
(* interleave freely with other connections.  The MSS rules and their      *)
(* monitor, set up between the interface and the up hook and removed before*)
(* the interface, are MssClamp's; here their Apply succeeds or fails.      *)
(*                                                                         *)
(* *Entry is a pointer: an entry is identified by the connection that      *)
(* created it, and entry[c] holds its immutable fields.                    *)
(***************************************************************************)
EXTENDS IPPool

CONSTANTS Conns,          \* connections, each used for one session attempt
          Clients,        \* authenticated client IDs
          Keys,           \* session keys randomKeyLocked can draw (never 0)
          PinNames,       \* interface names pinned by the config
          NoConn,         \* the nil *Entry
          NoClient, NoKey, NoName,
          StaticLease,    \* config Leases: client -> address, or NoAddr
          PinnedName,     \* config Interfaces: client -> name, or NoName
          Requests,       \* inner addresses clients ask for (NoAddr: none)
          LeaseTTL,       \* lease_ttl in ticks; 0 disables expiry
          MSSClamp,       \* whether MSS clamping is configured
          EnsureFailures, \* what a failing prov.Ensure leaves behind
          RemoveMayFail,  \* whether removing an interface may fail
          RandomMayFail,  \* whether crypto/rand can fail (not since Go 1.24)
          DistinctDraws   \* whether 32-bit draws are taken to never repeat

Pinned == {StaticLease[x] : x \in Clients} \ {NoAddr}

ifName(k) == <<"grem", k>>
IfNames == {ifName(k) : k \in Keys} \cup PinNames

(* What config.ValidateServer and runServer's Pin loop guarantee.          *)
ASSUME ConfigAssumption ==
    /\ StaticLease \in [Clients -> Prefix \cup {NoAddr}]
    /\ \A x \in Clients : StaticLease[x] # NoAddr => Pinnable(StaticLease[x])
    /\ \A x, y \in Clients : x # y /\ StaticLease[x] # NoAddr
                                => StaticLease[x] # StaticLease[y]
    /\ PinnedName \in [Clients -> PinNames \cup {NoName}]
    /\ \A x, y \in Clients : x # y /\ PinnedName[x] # NoName
                                => PinnedName[x] # PinnedName[y]
    /\ PinNames \cap {ifName(k) : k \in Keys} = {}
    /\ LeaseTTL \in Nat

ASSUME ManagerAssumption ==
    /\ NoConn \notin Conns /\ NoClient \notin Clients /\ NoKey \notin Keys
    /\ NoName \notin IfNames
    /\ Requests \subseteq Nat
    /\ MSSClamp \in BOOLEAN
    /\ EnsureFailures \subseteq {"unreached", "unwound", "created"}
    /\ RemoveMayFail \in BOOLEAN /\ RandomMayFail \in BOOLEAN
    /\ DistinctDraws \in BOOLEAN

VARIABLES pc, entry, victim, result,               \* per connection
          sessions, active, leases, leaseAge, used,\* guarded by Manager.mu
          ifaces, hook                             \* the data plane

conn     == <<pc, entry, victim, result>>
registry == <<sessions, active, leases, leaseAge, used>>
plane    == <<ifaces, hook>>
vars     == <<conn, registry, plane>>

NoTime == -1   \* a client without an entry in leaseTimes

(* Entry, plus the session key Establish keeps in a local variable.        *)
NilEntry == [client |-> NoClient, key |-> NoKey, ifName |-> NoName,
             inner |-> NoAddr]

PCs == {"idle", "unplumb", "down", "ensure", "mss", "unwind", "abort", "up",
        "done"}

TypeOK ==
    /\ pc \in [Conns -> PCs]
    /\ entry \in [Conns -> [client : Clients \cup {NoClient},
                            key    : Keys \cup {NoKey},
                            ifName : IfNames \cup {NoName},
                            inner  : Prefix \cup {NoAddr}]]
    /\ victim \in [Conns -> Conns \cup {NoConn}]
    /\ result \in [Conns -> {"none", "OK", "NoAddresses", "Internal", "Unsupported"}]
    /\ sessions \in [Keys -> Conns \cup {NoConn}]
    /\ active \in [Clients -> Keys \cup {NoKey}]
    /\ leases \in [Clients -> Prefix \cup {NoAddr}]
    /\ leaseAge \in [Clients -> 0..(LeaseTTL + 1) \cup {NoTime}]
    /\ used \subseteq Prefix
    /\ ifaces \in [IfNames -> Conns \cup {NoConn}]
    /\ hook \in [Conns -> {"none", "up", "down"}]

Init ==
    /\ pc = [c \in Conns |-> "idle"]
    /\ entry = [c \in Conns |-> NilEntry]
    /\ victim = [c \in Conns |-> NoConn]
    /\ result = [c \in Conns |-> "none"]
    /\ sessions = [k \in Keys |-> NoConn]
    /\ active = [x \in Clients |-> NoKey]
    /\ leases = [x \in Clients |-> NoAddr]
    /\ leaseAge = [x \in Clients |-> NoTime]
    /\ used = {}
    /\ ifaces = [n \in IfNames |-> NoConn]
    /\ hook = [c \in Conns |-> "none"]

-----------------------------------------------------------------------------
(* Helpers of Establish, evaluated under the lock.                         *)

(* Definitions whose name ends in an underscore are altered forms of the   *)
(* definition that follows them; the properties are shown to reject them.  *)

(* purgeExpiredLeasesLocked drops the leases of inactive clients last used *)
(* more than LeaseTTL ago.  leaseAge is time.Now() - leaseTimes[x],        *)
(* saturated at the first value that compares as expired.                  *)
Expired(x) == LeaseTTL > 0 /\ active[x] = NoKey /\ leaseAge[x] > LeaseTTL
PurgedLeases == [x \in Clients |-> IF Expired(x) THEN NoAddr ELSE leases[x]]
PurgedAges   == [x \in Clients |-> IF Expired(x) THEN NoTime ELSE leaseAge[x]]

UsedWithout_(e) == used

(* evictLocked: the client's current entry, and the registry without it.   *)
Evictee(x) == IF active[x] = NoKey THEN NoConn ELSE sessions[active[x]]
SessionsWithout(key) == [k \in Keys |-> IF k = key THEN NoConn ELSE sessions[k]]
UsedWithout(e) == IF e = NoConn THEN used ELSE used \ {entry[e].inner}

(* leaseAvailableToLocked: addresses other clients hold a claim on.        *)
ClaimedByOthers(x, L) ==
    UNION {{StaticLease[o], L[o]} : o \in Clients \ {x}}

Claimable(x, a, L, U) ==
    a # NoAddr /\ a \notin ClaimedByOthers(x, L) /\ AllocateSpecificOK(a, U)

allocInner_(x, req, L, U) ==
    IF StaticLease[x] # NoAddr
      THEN {a \in {StaticLease[x]} : Claimable(x, a, L, U)}
    ELSE IF Claimable(x, req, L, U) THEN {req}
    ELSE Allocate(Pinned, U \cup ClaimedByOthers(x, L))

allocInnerStrict_(x, req, L, U) ==
    IF StaticLease[x] # NoAddr
      THEN {a \in {StaticLease[x]} : Claimable(x, a, L, U)}
    ELSE IF Claimable(x, req, L, U) THEN {req}
    ELSE IF req = NoAddr /\ Claimable(x, L[x], L, U) THEN {L[x]}
    ELSE Allocate(Pinned, U \cup ClaimedByOthers(x, L))

(* allocInnerLocked: the set holding the address it returns, {} on error.  *)
(* The loop that skips other clients' leases is modelled by AllocLoop.     *)
allocInner(x, req, L, U) ==
    IF StaticLease[x] # NoAddr
      THEN {a \in {StaticLease[x]} : Claimable(x, a, L, U)}
    ELSE IF Claimable(x, req, L, U) THEN {req}
    ELSE IF Claimable(x, L[x], L, U) THEN {L[x]}
    ELSE Allocate(Pinned, U \cup ClaimedByOthers(x, L))

(* randomKeyLocked: any key no registered session has.                     *)
randomKey(S) ==
    {k \in Keys : /\ S[k] = NoConn
                  /\ DistinctDraws => \A d \in Conns : entry[d].key # k}

ifNameFor_(x, k) == IF PinnedName[x] # NoName THEN PinnedName[x]
                                              ELSE ifName(CHOOSE j \in Keys : TRUE)
ifNameFor(x, k) == IF PinnedName[x] # NoName THEN PinnedName[x] ELSE ifName(k)

-----------------------------------------------------------------------------
(* Establish *)

Goto(c, label) == pc' = [pc EXCEPT ![c] = label]
Return(c, res) == Goto(c, "done") /\ result' = [result EXCEPT ![c] = res]

(* An invalid or wrong-family outer address is refused before the lock.    *)
EstablishReject(c) ==
    /\ pc[c] = "idle"
    /\ \E res \in {"Internal", "Unsupported"} : Return(c, res)
    /\ UNCHANGED <<entry, victim, registry, plane>>

(* The locked section, when it succeeds: purge, evict, assign an address   *)
(* and a key, register the entry.                                          *)
Register(c, x, req) ==
    LET L  == PurgedLeases
        ev == Evictee(x)
        S  == SessionsWithout(active[x])
        U  == UsedWithout(ev)
    IN  /\ pc[c] = "idle"
        /\ \E a \in allocInner(x, req, L, U), k \in randomKey(S) :
             /\ entry' = [entry EXCEPT ![c] =
                    [client |-> x, key |-> k, ifName |-> ifNameFor(x, k), inner |-> a]]
             /\ sessions' = [S EXCEPT ![k] = c]
             /\ active' = [active EXCEPT ![x] = k]
             /\ leases' = [L EXCEPT ![x] = a]
             /\ used' = U \cup {a}
        /\ leaseAge' = [PurgedAges EXCEPT ![x] = 0]
        /\ victim' = [victim EXCEPT ![c] = ev]
        /\ Goto(c, IF ev = NoConn THEN "ensure" ELSE "unplumb")
        /\ UNCHANGED <<result, plane>>

EstablishFail_(c, x, req) ==
    /\ pc[c] = "idle"
    /\ allocInner(x, req, PurgedLeases, used) = {} /\ Return(c, "NoAddresses")
    /\ sessions' = SessionsWithout(active[x])
    /\ active' = [active EXCEPT ![x] = NoKey]
    /\ leases' = PurgedLeases
    /\ leaseAge' = PurgedAges
    /\ used' = UsedWithout(Evictee(x))
    /\ UNCHANGED <<entry, victim, plane>>

(* The locked section, when it fails: the purge and the eviction stand, an *)
(* allocated address is released again, and the evicted entry is dropped.  *)
EstablishFail(c, x, req) ==
    LET L  == PurgedLeases
        ev == Evictee(x)
        U  == UsedWithout(ev)
    IN  /\ pc[c] = "idle"
        /\ \/ allocInner(x, req, L, U) = {} /\ Return(c, "NoAddresses")
           \/ /\ RandomMayFail /\ allocInner(x, req, L, U) # {}
              /\ Return(c, "Internal")
        /\ sessions' = SessionsWithout(active[x])
        /\ active' = [active EXCEPT ![x] = NoKey]
        /\ leases' = L
        /\ leaseAge' = PurgedAges
        /\ used' = U
        /\ UNCHANGED <<entry, victim, plane>>

(* prov.Ensure replaces any interface of that name.                        *)
Ensure(c) ==
    /\ pc[c] = "ensure"
    /\ ifaces' = [ifaces EXCEPT ![entry[c].ifName] = c]
    /\ Goto(c, "mss")
    /\ UNCHANGED <<entry, victim, result, registry, hook>>

(* A failing Ensure never ran ("unreached": the broker refused or was not  *)
(* there), undid its work ("unwound"), or left the interface behind        *)
(* ("created": the reply was lost, or the new link was not found).         *)
EnsureFail(c) ==
    /\ pc[c] = "ensure"
    /\ \/ "unreached" \in EnsureFailures /\ UNCHANGED ifaces
       \/ /\ "unwound" \in EnsureFailures
          /\ ifaces' = [ifaces EXCEPT ![entry[c].ifName] = NoConn]
       \/ /\ "created" \in EnsureFailures
          /\ ifaces' = [ifaces EXCEPT ![entry[c].ifName] = c]
    /\ Goto(c, "abort")
    /\ UNCHANGED <<entry, victim, result, registry, hook>>

(* mssclamp.Apply fails.                                                   *)
ApplyFail(c) ==
    /\ pc[c] = "mss" /\ MSSClamp
    /\ Goto(c, "unwind")
    /\ UNCHANGED <<entry, victim, result, registry, plane>>

RemoveInterface(n) ==
    \/ ifaces' = [ifaces EXCEPT ![n] = NoConn]
    \/ RemoveMayFail /\ UNCHANGED ifaces

(* The prov.Remove that follows a failed Apply.                            *)
Unwind(c) ==
    /\ pc[c] = "unwind"
    /\ RemoveInterface(entry[c].ifName)
    /\ Goto(c, "abort")
    /\ UNCHANGED <<entry, victim, result, registry, hook>>

(* The locked clean-up of a failed Ensure or Apply: only if the registry   *)
(* still holds this very entry.                                            *)
Abort(c) ==
    LET k == entry[c].key  x == entry[c].client
    IN  /\ pc[c] = "abort"
        /\ IF sessions[k] = c
             THEN /\ sessions' = SessionsWithout(k)
                  /\ active' = IF active[x] = k THEN [active EXCEPT ![x] = NoKey]
                                                ELSE active
                  /\ used' = used \ {entry[c].inner}
                  /\ leases' = [leases EXCEPT ![x] = NoAddr]
                  /\ leaseAge' = [leaseAge EXCEPT ![x] = NoTime]
             ELSE UNCHANGED registry
        /\ Return(c, "Internal")
        /\ UNCHANGED <<entry, victim, plane>>

(* Apply succeeds or is not configured, and the up hook runs; Establish    *)
(* then returns the grant.                                                 *)
UpHook(c) ==
    /\ pc[c] = "mss"
    /\ hook' = [hook EXCEPT ![c] = "up"]
    /\ Goto(c, "up")
    /\ result' = [result EXCEPT ![c] = "OK"]
    /\ UNCHANGED <<entry, victim, registry, ifaces>>

-----------------------------------------------------------------------------
(* Teardown *)

Teardown_(c) ==
    LET x == entry[c].client  k == active[x]
    IN  /\ pc[c] = "up"
        /\ IF k = NoKey
             THEN Goto(c, "done") /\ UNCHANGED <<registry, victim>>
             ELSE /\ sessions' = SessionsWithout(k)
                  /\ active' = [active EXCEPT ![x] = NoKey]
                  /\ used' = UsedWithout(sessions[k])
                  /\ leaseAge' = [leaseAge EXCEPT ![x] = 0]
                  /\ victim' = [victim EXCEPT ![c] = sessions[k]]
                  /\ Goto(c, "unplumb")
                  /\ UNCHANGED leases
        /\ UNCHANGED <<entry, result, plane>>

(* The locked section: keyed on the session key of the grant.  The entry   *)
(* found there is unregistered, its address released, its lease refreshed. *)
Teardown(c) ==
    LET k == entry[c].key  e == sessions[k]  x == entry[e].client
    IN  /\ pc[c] = "up"
        /\ IF e = NoConn
             THEN Goto(c, "done") /\ UNCHANGED <<registry, victim>>
             ELSE /\ sessions' = SessionsWithout(k)
                  /\ active' = IF active[x] = k THEN [active EXCEPT ![x] = NoKey]
                                                ELSE active
                  /\ used' = UsedWithout(e)
                  /\ leaseAge' = [leaseAge EXCEPT ![x] = 0]
                  /\ victim' = [victim EXCEPT ![c] = e]
                  /\ Goto(c, "unplumb")
                  /\ UNCHANGED leases
        /\ UNCHANGED <<entry, result, plane>>

UnplumbOwn_(c) ==
    /\ pc[c] = "unplumb"
    /\ RemoveInterface(entry[c].ifName)
    /\ Goto(c, "down")
    /\ UNCHANGED <<entry, victim, result, registry, hook>>

(* removeAndNotify(victim[c]), called by Teardown and, for the evicted     *)
(* entry, by Establish.  The interface is removed, whichever session it    *)
(* belongs to by now.                                                      *)
Unplumb(c) ==
    /\ pc[c] = "unplumb"
    /\ RemoveInterface(entry[victim[c]].ifName)
    /\ Goto(c, "down")
    /\ UNCHANGED <<entry, victim, result, registry, hook>>

(* Last the down hook; the caller goes on.                                 *)
DownHook(c) ==
    /\ pc[c] = "down"
    /\ hook' = [hook EXCEPT ![victim[c]] = "down"]
    /\ Goto(c, IF result[c] = "OK" THEN "done" ELSE "ensure")
    /\ UNCHANGED <<entry, victim, result, registry, ifaces>>

(* Environment: time passes for every recorded lease.                      *)
Tick ==
    /\ \E x \in Clients : leaseAge[x] \in 0..LeaseTTL
    /\ leaseAge' = [x \in Clients |-> IF leaseAge[x] \in 0..LeaseTTL
                                        THEN leaseAge[x] + 1 ELSE leaseAge[x]]
    /\ UNCHANGED <<conn, sessions, active, leases, used, plane>>

-----------------------------------------------------------------------------
(* The steps of a call in progress, which the Go scheduler will run: every *)
(* data-plane call returns (RPC deadline, hook timeout).                   *)
Work(c) == \/ Ensure(c) \/ EnsureFail(c) \/ ApplyFail(c) \/ Unwind(c)
           \/ Abort(c) \/ UpHook(c) \/ Unplumb(c) \/ DownHook(c)

Next ==
    \/ \E c \in Conns :
          \/ EstablishReject(c)
          \/ \E x \in Clients, req \in Requests :
                Register(c, x, req) \/ EstablishFail(c, x, req)
          \/ Work(c)
          \/ Teardown(c)
    \/ Tick

Spec == Init /\ [][Next]_vars

-----------------------------------------------------------------------------
(* Properties *)

Live(k) == sessions[k] # NoConn
LiveEntry(k) == entry[sessions[k]]

(* The two indexes of the registry agree: active names, for every client,  *)
(* its one session, and each session is filed under the key its connection *)
(* will use to tear it down.  So a reconnect always finds the session it   *)
(* has to evict (Establish, Teardown, evictLocked, the failure clean-ups). *)
OneSessionPerClient ==
    /\ \A k \in Keys : Live(k) => /\ LiveEntry(k).key = k
                                   /\ LiveEntry(k).client \in Clients
                                   /\ active[LiveEntry(k).client] = k
    /\ \A x \in Clients : active[x] # NoKey
            => Live(active[x]) /\ LiveEntry(active[x]).client = x

(* The pool's used set is exactly the addresses of the registered          *)
(* sessions, and no two sessions share one: no path of Establish, its      *)
(* failure clean-ups, an eviction or a Teardown leaks an address, releases *)
(* one twice, or releases the one a newer session owns.                    *)
PoolMatchesRegistry ==
    /\ used = {LiveEntry(k).inner : k \in {j \in Keys : Live(j)}}
    /\ \A j, k \in Keys : Live(j) /\ Live(k) /\ j # k
            => LiveEntry(j).inner # LiveEntry(k).inner

(* An unexpired sticky lease is a reservation: it is no other client's     *)
(* lease, no other client's static address, and never the server's own     *)
(* address (allocInnerLocked, leaseAvailableToLocked).                     *)
LeasesExclusive ==
    \A x \in Clients : leases[x] # NoAddr =>
        /\ leases[x] \notin Reserved
        /\ \A y \in Clients \ {x} : leases[x] # leases[y]
                                   /\ leases[x] # StaticLease[y]
        /\ StaticLease[x] # NoAddr => leases[x] = StaticLease[x]

(* A registered session runs on its client's current lease, and a lease    *)
(* and its time stamp come and go together: no purge, failed attempt or    *)
(* late Teardown of an older session takes it away.                        *)
LiveSessionHoldsLease ==
    /\ \A k \in Keys : Live(k) => /\ LiveEntry(k).inner # NoAddr
                                   /\ leases[LiveEntry(k).client] = LiveEntry(k).inner
    /\ \A x \in Clients : leases[x] = NoAddr <=> leaseAge[x] = NoTime

(* Every registered session belongs to a connection that has yet to run    *)
(* its failure clean-up or its Teardown: none stays behind with nobody     *)
(* left to remove it.                                                      *)
NoAbandonedSession ==
    \A k \in Keys : Live(k) =>
        LET c == sessions[k]
        IN  /\ pc[c] \notin {"idle", "done"}
            /\ pc[c] \in {"unplumb", "down"} => result[c] = "none"

(* Establish, Teardown and their clean-ups keep indexes, pool, leases and  *)
(* connections in agreement, whatever they interleave with (the five       *)
(* statements above; none of them is inductive without the others).        *)
RegistryConsistent ==
    /\ OneSessionPerClient /\ PoolMatchesRegistry
    /\ LeasesExclusive /\ LiveSessionHoldsLease
    /\ NoAbandonedSession

(* While a session that was granted is registered, its interface exists    *)
(* with its parameters and its down hook has not run: other connections'   *)
(* evictions, teardowns and clean-ups never touch it.  (Generated names.)  *)
LiveSessionIntact ==
    \A k \in Keys : Live(k) /\ result[sessions[k]] = "OK" =>
        /\ ifaces[LiveEntry(k).ifName] = sessions[k]
        /\ hook[sessions[k]] = "up"

(* An Establish refused for want of an address has evicted nothing, so the *)
(* early return that forgets the evicted entry never forgets one.          *)
RefusalEvictsNothing ==
    [][ (\E c \in Conns : result[c] = "none" /\ result'[c] = "NoAddresses")
            => UNCHANGED <<sessions, active, used>> ]_vars

(* The address service the registry implements: at any time a client has a *)
(* claim on at most one address, an address is handed to nobody else while *)
(* its owner's claim stands, and only a failed provisioning or the expiry  *)
(* of an inactive client's lease takes a claim away.                       *)
Leases == INSTANCE AddressLeases
            WITH Usable <- Prefix \ Reserved,
                 Static <- StaticLease,
                 lease  <- leases,
                 live   <- {x \in Clients : active[x] # NoKey}
ImplementsAddressLeases == Leases!Spec

(* A client that asks for no particular address and still has a lease gets *)
(* that address again, whatever happened in between.                       *)
ReconnectKeepsAddress ==
    [][ \A c \in Conns, x \in Clients :
            /\ pc[c] = "idle" /\ entry'[c].client = x
            /\ leases[x] # NoAddr /\ ~Expired(x)
            /\ Register(c, x, NoAddr)
            => entry'[c].inner = leases[x] ]_vars

(* A registered session ends only by a step of its own connection or when  *)
(* a newer connection of the same client registers: the Teardown of a      *)
(* superseded session does nothing.                                        *)
EndedByOwnerOrSuccessor ==
    [][ \A k \in Keys : LET c == sessions[k] IN
            Live(k) /\ sessions'[k] # c =>
                \/ pc'[c] # pc[c]
                \/ \E d \in Conns \ {c} : /\ pc[d] = "idle"
                                          /\ entry'[d].client = entry[c].client ]_vars

(* No call is in progress.                                                 *)
Quiet == \A c \in Conns : pc[c] \in {"idle", "up", "done"}

(* README.md: the server "tears everything down when the client            *)
(* disconnects": with no call in progress, every interface belongs to a    *)
(* connection that is still up.                                            *)
NoOrphanInterface ==
    Quiet => \A n \in IfNames : ifaces[n] # NoConn => pc[ifaces[n]] = "up"

=============================================================================
