---------------------------- MODULE ControlServer ----------------------------
(***************************************************************************)
(* internal/control/server.go: the accept loop, the two bounds on pending  *)
(* handshakes, and the life of one handler goroutine per connection from   *)
(* the first byte to the end of its session.  The Establisher is the       *)
(* session manager; here only the order in which a handler calls its       *)
(* Establish and Teardown matters (SessionManager models what they do).    *)
(* The peer is any peer: it may send what is expected or something else,   *)
(* fall silent, or close.                                                  *)
(*                                                                         *)
(* Definitions whose name ends in _ are altered forms of the definition    *)
(* that follows them; the properties are shown to reject them.             *)
(***************************************************************************)
EXTENDS Naturals, FiniteSets

CONSTANTS Conns,                 \* connections the listener may return
          IPs, ip,               \* source address of each connection
          NoConn,
          MaxPendingHandshakes,
          MaxPendingPerIP,
          AcceptMayFail          \* whether Accept can fail while listening

ASSUME ServerAssumption ==
    /\ ip \in [Conns -> IPs] /\ NoConn \notin Conns
    /\ MaxPendingHandshakes \in Nat \ {0} /\ MaxPendingPerIP \in Nat \ {0}
    /\ AcceptMayFail \in BOOLEAN

VARIABLES serve,      \* where the accept loop is
          accepted,   \* the connection reserve() is working for
          stopped,    \* ctx of the daemon is cancelled
          listening,
          sem,        \* tokens in the channel Server.sem
          perIP,      \* Server.perIP
          inflight,   \* handlers counted by the WaitGroup
          pc,         \* where each handler is
          open,       \* connections the server has not closed
          silent,     \* peers of handlers that send nothing more
          ok,         \* the result of handshake()
          granted,    \* Establish returned a grant
          teardowns   \* Teardown calls made for the grant

loop    == <<serve, accepted, stopped, listening>>
slots   == <<sem, perIP>>
grants  == <<granted, teardowns>>
vars    == <<loop, slots, inflight, pc, open, silent, ok, grants>>

Reading == {"hello", "auth", "request"}   \* handshake() waits for the peer
Pending == Reading \cup {"establish", "reply", "undo"}
PCs == {"new", "releaseIP", "releaseSem", "keepalive", "teardown", "closed"}
         \cup Pending

TypeOK ==
    /\ serve \in {"accept", "admit", "giveback", "wait", "returned", "failed"}
    /\ accepted \in Conns \cup {NoConn}
    /\ stopped \in BOOLEAN /\ listening \in BOOLEAN
    /\ sem \in Nat /\ perIP \in [IPs -> Nat]
    /\ inflight \subseteq Conns
    /\ pc \in [Conns -> PCs]
    /\ open \subseteq Conns /\ silent \subseteq Conns
    /\ ok \in [Conns -> BOOLEAN]
    /\ granted \subseteq Conns /\ teardowns \in [Conns -> Nat]

Init ==
    /\ serve = "accept" /\ accepted = NoConn
    /\ stopped = FALSE /\ listening = TRUE
    /\ sem = 0 /\ perIP = [i \in IPs |-> 0]
    /\ inflight = {}
    /\ pc = [c \in Conns |-> "new"]
    /\ open = Conns /\ silent = {}
    /\ ok = [c \in Conns |-> FALSE]
    /\ granted = {} /\ teardowns = [c \in Conns |-> 0]

-----------------------------------------------------------------------------
(* The accept loop.  When Serve returns, main returns and the process      *)
(* exits, so a handler only runs while it has not.                         *)

Exited == serve \in {"returned", "failed"}

(* The first half of reserve(): a token, or the connection is shed.        *)
Accept(c) ==
    /\ serve = "accept" /\ listening /\ pc[c] = "new"
    /\ \/ /\ sem < MaxPendingHandshakes
          /\ sem' = sem + 1 /\ serve' = "admit" /\ accepted' = c
          /\ UNCHANGED <<pc, open>>
       \/ /\ sem >= MaxPendingHandshakes
          /\ pc' = [pc EXCEPT ![c] = "closed"] /\ open' = open \ {c}
          /\ UNCHANGED <<sem, serve, accepted>>
    /\ UNCHANGED <<stopped, listening, perIP, inflight, silent, ok, grants>>

(* The second half of reserve(), under perIPMu, and the start of handle(). *)
Admit ==
    /\ serve = "admit"
    /\ \/ /\ perIP[ip[accepted]] < MaxPendingPerIP
          /\ perIP' = [perIP EXCEPT ![ip[accepted]] = @ + 1]
          /\ inflight' = inflight \cup {accepted}
          /\ pc' = [pc EXCEPT ![accepted] = "hello"]
          /\ serve' = "accept" /\ accepted' = NoConn
       \/ /\ perIP[ip[accepted]] >= MaxPendingPerIP
          /\ serve' = "giveback"
          /\ UNCHANGED <<perIP, inflight, pc, accepted>>
    /\ UNCHANGED <<stopped, listening, sem, open, silent, ok, grants>>

GiveBack_ ==
    /\ serve = "giveback"
    /\ serve' = "accept" /\ accepted' = NoConn
    /\ pc' = [pc EXCEPT ![accepted] = "closed"]
    /\ open' = open \ {accepted}
    /\ UNCHANGED <<stopped, listening, slots, inflight, silent, ok, grants>>

(* The per-IP bound was reached: the token goes back, the peer is shed.    *)
GiveBack ==
    /\ serve = "giveback" /\ sem > 0
    /\ sem' = sem - 1
    /\ serve' = "accept" /\ accepted' = NoConn
    /\ pc' = [pc EXCEPT ![accepted] = "closed"]
    /\ open' = open \ {accepted}
    /\ UNCHANGED <<stopped, listening, perIP, inflight, silent, ok, grants>>

AcceptEnds_ ==
    /\ serve = "accept" /\ (~listening \/ AcceptMayFail)
    /\ serve' = IF stopped THEN "returned" ELSE "failed"
    /\ UNCHANGED <<accepted, stopped, listening, slots, inflight, pc, open,
                   silent, ok, grants>>

(* Accept returns an error: after a cancellation Serve waits for its       *)
(* handlers, otherwise it returns at once.                                 *)
AcceptEnds ==
    /\ serve = "accept" /\ (~listening \/ AcceptMayFail)
    /\ serve' = IF stopped THEN "wait" ELSE "failed"
    /\ UNCHANGED <<accepted, stopped, listening, slots, inflight, pc, open,
                   silent, ok, grants>>

(* wg.Wait returns.                                                        *)
Wait ==
    /\ serve = "wait" /\ inflight = {}
    /\ serve' = "returned"
    /\ UNCHANGED <<accepted, stopped, listening, slots, inflight, pc, open,
                   silent, ok, grants>>

(* SIGINT or SIGTERM cancels ctx ...                                       *)
Stop ==
    /\ ~stopped /\ ~Exited
    /\ stopped' = TRUE
    /\ UNCHANGED <<serve, accepted, listening, slots, inflight, pc, open,
                   silent, ok, grants>>

(* ... and then a goroutine of Serve closes the listener ...               *)
CloseListener ==
    /\ stopped /\ listening /\ ~Exited
    /\ listening' = FALSE
    /\ UNCHANGED <<serve, accepted, stopped, slots, inflight, pc, open,
                   silent, ok, grants>>

(* ... and the watcher of each handler its connection.  Only a read or a   *)
(* write of the handler notices, so it is taken when the handler is at one.*)
CloseConn_(c) ==
    /\ stopped /\ c \in open /\ ~Exited
    /\ pc[c] \in Reading \cup {"reply"}
    /\ open' = open \ {c}
    /\ UNCHANGED <<loop, slots, inflight, pc, silent, ok, grants>>

CloseConn(c) ==
    /\ stopped /\ c \in open /\ ~Exited
    /\ pc[c] \in Reading \cup {"reply", "keepalive"}
    /\ open' = open \ {c}
    /\ UNCHANGED <<loop, slots, inflight, pc, silent, ok, grants>>

-----------------------------------------------------------------------------
(* handle(): the handshake.                                                *)

At(c, where) == pc[c] = where /\ ~Exited
Goto(c, where) == pc' = [pc EXCEPT ![c] = where]

(* The expected message arrives and the next is awaited (the challenge is  *)
(* sent after the Hello, the keys are derived after the Auth).             *)
Receive(c) ==
    /\ c \in open /\ c \notin silent
    /\ \/ At(c, "hello")   /\ Goto(c, "auth")
       \/ At(c, "auth")    /\ Goto(c, "request")
       \/ At(c, "request") /\ Goto(c, "establish")
    /\ UNCHANGED <<loop, slots, inflight, open, silent, ok, grants>>

HandshakeFail_(c) ==
    /\ \E where \in Reading : At(c, where)
    /\ c \notin silent
    /\ Goto(c, "releaseIP")
    /\ UNCHANGED <<loop, slots, inflight, open, silent, ok, grants>>

(* Not a control frame (the decoy is served), a malformed or unexpected    *)
(* message, a bad client ID, a wrong secret, a write error, a closed       *)
(* connection, or the handshake deadline.                                  *)
HandshakeFail(c) ==
    /\ \E where \in Reading : At(c, where)
    /\ Goto(c, "releaseIP")
    /\ UNCHANGED <<loop, slots, inflight, open, silent, ok, grants>>

(* Establish returns a grant, or a result that is sent back to the peer.   *)
Establish(c) ==
    /\ At(c, "establish")
    /\ \/ granted' = granted \cup {c} /\ Goto(c, "reply")
       \/ granted' = granted /\ Goto(c, "releaseIP")
    /\ UNCHANGED <<loop, slots, inflight, open, silent, ok, teardowns>>

(* The reply is written, or the write fails (the connection is closed or   *)
(* the handshake deadline has passed) and the grant is taken back.         *)
Reply(c) ==
    /\ At(c, "reply")
    /\ \/ /\ c \in open
          /\ ok' = [ok EXCEPT ![c] = TRUE] /\ Goto(c, "releaseIP")
       \/ ok' = ok /\ Goto(c, "undo")
    /\ UNCHANGED <<loop, slots, inflight, open, silent, grants>>

Undo_(c) ==
    /\ At(c, "undo")
    /\ teardowns' = [teardowns EXCEPT ![c] = @ + 1]
    /\ ok' = [ok EXCEPT ![c] = TRUE] /\ Goto(c, "releaseIP")
    /\ UNCHANGED <<loop, slots, inflight, open, silent, granted>>

Undo(c) ==
    /\ At(c, "undo")
    /\ teardowns' = [teardowns EXCEPT ![c] = @ + 1]
    /\ Goto(c, "releaseIP")
    /\ UNCHANGED <<loop, slots, inflight, open, silent, ok, granted>>

(* release(): first the per-IP count under perIPMu, then the token.        *)
ReleaseIP(c) ==
    /\ At(c, "releaseIP")
    /\ perIP' = [perIP EXCEPT ![ip[c]] = IF @ > 0 THEN @ - 1 ELSE @]
    /\ Goto(c, "releaseSem")
    /\ UNCHANGED <<loop, sem, inflight, open, silent, ok, grants>>

(* handle() returns: conn.Close and wg.Done; its locals are gone.          *)
Return(c) ==
    /\ Goto(c, "closed")
    /\ open' = open \ {c} /\ inflight' = inflight \ {c}
    /\ silent' = silent \ {c} /\ ok' = [ok EXCEPT ![c] = FALSE]

ReleaseSem(c) ==
    /\ At(c, "releaseSem") /\ sem > 0
    /\ sem' = sem - 1
    /\ \/ ok[c] /\ Goto(c, "keepalive") /\ UNCHANGED <<open, inflight, silent, ok>>
       \/ ~ok[c] /\ Return(c)
    /\ UNCHANGED <<loop, perIP, grants>>

(* keepaliveLoop ends: the peer says goodbye, sends something that does    *)
(* not decrypt, an EchoAck cannot be written, or no message comes within   *)
(* KeepaliveTimeout.  An answered Echo changes nothing.                    *)
KeepaliveEnds_(c) ==
    /\ At(c, "keepalive") /\ c \notin silent
    /\ Goto(c, "teardown")
    /\ UNCHANGED <<loop, slots, inflight, open, silent, ok, grants>>

KeepaliveEnds(c) ==
    /\ At(c, "keepalive")
    /\ Goto(c, "teardown")
    /\ UNCHANGED <<loop, slots, inflight, open, silent, ok, grants>>

Teardown(c) ==
    /\ At(c, "teardown")
    /\ teardowns' = [teardowns EXCEPT ![c] = @ + 1]
    /\ Return(c)
    /\ UNCHANGED <<loop, slots, granted>>

(* The peer, or the path to it, dies without a word (noticed by a read).   *)
FallSilent(c) ==
    /\ ~Exited /\ c \notin silent
    /\ pc[c] \in Reading \cup {"keepalive"}
    /\ silent' = silent \cup {c}
    /\ UNCHANGED <<loop, slots, inflight, pc, open, ok, grants>>

Handler(c) == \/ Receive(c) \/ HandshakeFail(c) \/ Establish(c) \/ Reply(c)
              \/ Undo(c) \/ ReleaseIP(c) \/ ReleaseSem(c)
              \/ KeepaliveEnds(c) \/ Teardown(c)

Next == \/ Admit \/ GiveBack \/ AcceptEnds \/ Wait \/ Stop \/ CloseListener
        \/ \E c \in Conns : \/ Accept(c) \/ CloseConn(c) \/ FallSilent(c)
                            \/ Handler(c)

Spec == Init /\ [][Next]_vars

(* Every read of the handshake has a deadline and Establish and Teardown   *)
(* return (ServerSystem has their steps); a keepalive read returns         *)
(* only if its peer is silent or its connection closed.                    *)
KeepaliveTimeout(c) == (c \in silent \/ c \notin open) /\ KeepaliveEnds(c)

(* The goroutine of Serve and that of each connection keep running.        *)
ServeProgress == Admit \/ GiveBack \/ Wait \/ (~listening /\ AcceptEnds)
Progress(c) == \/ HandshakeFail(c) \/ Establish(c) \/ Reply(c) \/ Undo(c)
               \/ ReleaseIP(c) \/ ReleaseSem(c) \/ KeepaliveTimeout(c)
               \/ Teardown(c)

Fairness ==
    /\ WF_vars(ServeProgress) /\ WF_vars(CloseListener)
    /\ \A c \in Conns : WF_vars(CloseConn(c)) /\ WF_vars(Progress(c))

FairSpec == Spec /\ Fairness

-----------------------------------------------------------------------------
(* Properties.                                                             *)

HoldsIP(c)  == pc[c] \in Pending \cup {"releaseIP"}
HoldsSem(c) == HoldsIP(c) \/ pc[c] = "releaseSem"
Reserving   == serve \in {"admit", "giveback"}

(* server.go:147-178: the global and the per-IP count are exactly the      *)
(* handshakes in progress whatever reserve and release interleave, and     *)
(* neither exceeds its bound; so no slot leaks, no release blocks on an    *)
(* empty channel, and an established session holds none.                   *)
SlotsMatchHandshakes ==
    /\ sem = Cardinality({c \in Conns : HoldsSem(c)})
               + (IF Reserving THEN 1 ELSE 0)
    /\ sem <= MaxPendingHandshakes
    /\ \A i \in IPs :
          /\ perIP[i] = Cardinality({c \in Conns : ip[c] = i /\ HoldsIP(c)})
          /\ perIP[i] <= MaxPendingPerIP

(* server.go:203-213, 325-329: a handler that was granted a session calls  *)
(* Teardown for it exactly once, on the failed-reply path or when it ends, *)
(* and never for a session it was not granted.                             *)
OneTeardownPerGrant ==
    \A c \in Conns :
        /\ teardowns[c] <= (IF c \in granted THEN 1 ELSE 0)
        /\ pc[c] = "closed" /\ c \in granted => teardowns[c] = 1

AllTornDown == \A c \in granted : teardowns[c] = 1

(* server.go:118-129: when Serve returns after a cancellation, every       *)
(* session that was granted has been torn down.                            *)
CleanShutdown == serve = "returned" => AllTornDown

(* server.go:219, 336-345: a handshake ends whatever its peer does or does *)
(* not send.                                                               *)
HandshakesResolve ==
    \A c \in Conns : pc[c] = "hello"
                        ~> pc[c] \in {"keepalive", "closed"} \/ Exited

(* server.go:333-345: the session of a silent peer is torn down.           *)
SilentPeersDropped ==
    \A c \in Conns : pc[c] = "keepalive" /\ c \in silent
                        ~> teardowns[c] = 1 \/ Exited

(* server.go:113-129, 190-195: a cancelled server returns, and so waits    *)
(* for no peer.                                                            *)
ShutdownEnds == stopped ~> Exited

=============================================================================
