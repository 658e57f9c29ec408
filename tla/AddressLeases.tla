---------------------------- MODULE AddressLeases ----------------------------
(***************************************************************************)
(* What the session manager promises about inner addresses, without keys,  *)
(* pool, data plane or connections: which client may use which address.    *)
(***************************************************************************)
EXTENDS Integers

CONSTANTS Clients,
          Usable,     \* addresses a client may be given (never the server's)
          NoAddr,
          Static,     \* configured address per client, or NoAddr
          Requests    \* addresses clients may ask for

VARIABLES lease,      \* the address each client holds or may come back to
          live        \* the clients that have a session

(* Leases of clients without a session may lapse whenever one is assigned. *)
Lapse(E) == [x \in Clients |-> IF x \in E THEN NoAddr ELSE lease[x]]

Init == lease = [x \in Clients |-> NoAddr] /\ live = {}

(* A client gets a session on an address nobody else holds a claim to: its *)
(* configured one, or else the one it had unless it asks for another.      *)
Grant(x, a, E) ==
    /\ a \in Usable
    /\ \A y \in Clients \ {x} : Lapse(E)[y] # a /\ Static[y] # a
    /\ Static[x] # NoAddr => a = Static[x]
    /\ Lapse(E)[x] # NoAddr => a = lease[x] \/ a \in Requests
    /\ lease' = [Lapse(E) EXCEPT ![x] = a]
    /\ live' = live \cup {x}

(* A session ends, and its client may come back to the address; or (with x *)
(* not live) an attempt fails, of which only the lapses remain.            *)
End(x, E) == lease' = Lapse(E) /\ live' = live \ {x}

(* A session that could not be provisioned ends and takes its lease along. *)
Withdraw(x) ==
    /\ x \in live
    /\ lease' = [lease EXCEPT ![x] = NoAddr]
    /\ live' = live \ {x}

Next ==
    \E x \in Clients :
        \/ Withdraw(x)
        \/ \E E \in SUBSET (Clients \ live) :
              End(x, E) \/ \E a \in Usable : Grant(x, a, E)

Spec == Init /\ [][Next]_<<lease, live>>

==============================================================================
