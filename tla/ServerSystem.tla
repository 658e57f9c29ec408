---------------------------- MODULE ServerSystem ----------------------------
(***************************************************************************)
(* The server process: the control server and the session manager it calls *)
(* as its Establisher (cmd/gremlind runServer).  In ControlServer the two  *)
(* calls of a handler are single steps with any outcome; here a handler    *)
(* stays at its call while the manager takes the steps of SessionManager,  *)
(* interleaved with the other handlers, the accept loop and a shutdown,    *)
(* and goes on with what the manager returned.  call[c] is where the       *)
(* manager is with connection c.  When Serve returns the process exits.    *)
(***************************************************************************)
EXTENDS ControlServer

CONSTANTS Prefix, NetworkAddr, Reserved,
          Clients, Keys, PinNames, NoClient, NoKey, NoName,
          StaticLease, PinnedName, Requests, LeaseTTL, MSSClamp,
          EnsureFailures, RemoveMayFail, RandomMayFail, DistinctDraws

VARIABLES call, entry, victim, result,
          sessions, active, leases, leaseAge, used,
          ifaces, hook,
          lost   \* history: connections whose entry was evicted while their own
                 \* Establish still ran, or by an Establish that then failed

M == INSTANCE SessionManager WITH pc <- call

(* The configuration runServer hands the manager has passed ValidateServer. *)
ASSUME SystemAssumption ==
    M!PoolAssumption /\ M!ConfigAssumption /\ M!ManagerAssumption

manager == <<call, entry, victim, result, sessions, active, leases, leaseAge,
             used, ifaces, hook>>
system  == <<vars, manager, lost>>

SystemInit == Init /\ M!Init /\ lost = {}

-----------------------------------------------------------------------------
(* Steps of the manager, for a handler that is inside a call.              *)

(* The entry a Register or a failing Establish of client x evicts.         *)
Evicted(x) == {M!Evictee(x)} \ {NoConn}

(* Establish up to the end of its locked section.                          *)
EstablishBegins(c) ==
    /\ At(c, "establish")
    /\ \/ M!EstablishReject(c) /\ UNCHANGED lost
       \/ \E x \in Clients, req \in Requests :
            \/ /\ M!Register(c, x, req)
               /\ lost' = lost \cup {e \in Evicted(x) : call[e] # "up"}
            \/ /\ M!EstablishFail(c, x, req)
               /\ lost' = lost \cup Evicted(x)
    /\ UNCHANGED vars

(* The locked section of Teardown, called for a failed reply or at the end *)
(* of the session.                                                         *)
TeardownBegins(c) ==
    /\ At(c, "undo") \/ At(c, "teardown")
    /\ M!Teardown(c)
    /\ UNCHANGED <<vars, lost>>

(* The data-plane calls and hooks of either.                               *)
CallProceeds(c) ==
    /\ At(c, "establish") \/ At(c, "undo") \/ At(c, "teardown")
    /\ M!Work(c)
    /\ UNCHANGED <<vars, lost>>

(* The clock.                                                              *)
LeasesAge == ~Exited /\ M!Tick /\ UNCHANGED <<vars, lost>>

-----------------------------------------------------------------------------
(* Steps of the control server.                                            *)

(* Establish returns to handshake(): with the grant, or with an error.     *)
EstablishReturns(c) ==
    /\ call[c] \in {"up", "done"}
    /\ Establish(c)
    /\ c \in granted' <=> call[c] = "up"
    /\ UNCHANGED <<manager, lost>>

(* Teardown returns to handshake() or to handle().                         *)
TeardownReturns(c) ==
    /\ call[c] = "done"
    /\ Undo(c) \/ Teardown(c)
    /\ UNCHANGED <<manager, lost>>

(* Everything else a handler does leaves the manager alone.                *)
HandlerStep(c) ==
    /\ \/ Receive(c) \/ HandshakeFail(c) \/ Reply(c)
       \/ ReleaseIP(c) \/ ReleaseSem(c) \/ KeepaliveEnds(c)
       \/ Accept(c) \/ CloseConn(c) \/ FallSilent(c)
    /\ UNCHANGED <<manager, lost>>

ServeStep ==
    /\ Admit \/ GiveBack \/ AcceptEnds \/ Wait \/ Stop \/ CloseListener
    /\ UNCHANGED <<manager, lost>>

SystemNext ==
    \/ ServeStep \/ LeasesAge
    \/ \E c \in Conns : \/ EstablishBegins(c) \/ TeardownBegins(c)
                        \/ CallProceeds(c) \/ EstablishReturns(c)
                        \/ TeardownReturns(c) \/ HandlerStep(c)

SystemSpec == SystemInit /\ [][SystemNext]_system

(* As in ControlServer, but for the calls: here a handler inside a call is *)
(* only sure to take its next step (RPC deadline, hook timeout).           *)
Waiting(c) == HandshakeFail(c) \/ Reply(c) \/ ReleaseIP(c) \/ ReleaseSem(c)
                \/ KeepaliveTimeout(c)

HandlerRuns(c) ==
    \/ EstablishBegins(c) \/ TeardownBegins(c) \/ CallProceeds(c)
    \/ EstablishReturns(c) \/ TeardownReturns(c)
    \/ Waiting(c) /\ UNCHANGED <<manager, lost>>

SystemFairness ==
    WF_system(\/ (ServeProgress \/ CloseListener) /\ UNCHANGED <<manager, lost>>
              \/ \E c \in Conns : \/ CloseConn(c) /\ UNCHANGED <<manager, lost>>
                                  \/ HandlerRuns(c))

FairSystem == SystemSpec /\ SystemFairness

-----------------------------------------------------------------------------
(* Properties.                                                             *)

(* manager.go:218-230, 289-350, server.go:203-213: once a handler is done  *)
(* with its session, and no other handler is still clearing it away, its   *)
(* interface is gone and its down hook has followed its up hook.  The      *)
(* exceptions are exactly the sessions evicted inside their own Establish, *)
(* and those evicted by an Establish that failed before it could remove    *)
(* them.                                                                   *)
TornDownUnlessOvertaken ==
    \A c \in Conns \ lost :
        /\ call[c] = "done"
        /\ \A d \in Conns : victim[d] = c => call[d] \notin {"unplumb", "down"}
        => /\ \A n \in M!IfNames : ifaces[n] # c
           /\ hook[c] # "up"

(* server.go:118-129: a Serve that returns after a cancellation leaves the *)
(* manager empty: no session, no address in use and no interface but those *)
(* of overtaken sessions.                                                  *)
ShutdownLeavesNothing ==
    serve = "returned" =>
        /\ \A k \in Keys : sessions[k] = NoConn
        /\ used = {}
        /\ \A n \in M!IfNames : ifaces[n] \in lost \cup {NoConn}

=============================================================================
