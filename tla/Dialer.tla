------------------------------- MODULE Dialer -------------------------------
(***************************************************************************)
(* The client: runDialer, dialOnce and runSessionLoops of cmd/gremlind,    *)
(* and Client.Handshake and Client.KeepaliveLoop of internal/control.      *)
(* Each attempt has its own connection and its own goroutines (the reader  *)
(* of KeepaliveLoop, its sender and closer, and the healthcheck), which    *)
(* may still run while the next attempt is under way.  The server is the   *)
(* environment: verdict is what it decided about the attempt, whether or   *)
(* not the client ever learns it.                                          *)
(*                                                                         *)
(* Definitions whose name ends in _ are altered forms of the definition    *)
(* that follows them; the properties are shown to reject them.             *)
(***************************************************************************)
EXTENDS Integers

CONSTANTS Inners, NoInner,     \* inner addresses; the invalid Addr
          MinBackoff, MaxBackoff,
          MaxAttempts,         \* bound on the attempts of a behaviour
          HealthEnabled,       \* healthcheck.enabled
          MSSMode,             \* "off", "on", or "monitor"
          EnsureLeaves,        \* whether a failing Ensure can leave the link
          RemoveMayFail

ASSUME DialerAssumption ==
    /\ NoInner \notin Inners
    /\ MinBackoff \in Nat \ {0} /\ MaxBackoff \in Nat
    /\ MinBackoff <= MaxBackoff
    /\ MaxAttempts \in Nat
    /\ HealthEnabled \in BOOLEAN /\ RemoveMayFail \in BOOLEAN
    /\ EnsureLeaves \in BOOLEAN
    /\ MSSMode \in {"off", "on", "monitor"}

Attempts == 1..MaxAttempts

VARIABLES pc, cancelled, attempt,
          backoff, lastInner,                  \* locals of runDialer
          asked, inner, established, err,      \* the attempt under way
          verdict,                             \* what the server decided on it
          grant, dry,                          \* history: the latest granted
                                               \* address, attempts since then
          iface, monitor, hook,                \* the client's data plane
          failed,                              \* history: the interface could
                                               \* not be removed
          open, dead,                          \* attempts whose connection is
                                               \* open, and those on a dead path
          reader, sender, closer, health,      \* attempts with that goroutine
          sendErr,                             \* attempts with a send error
          result                               \* first result of the session loops

run     == <<backoff, lastInner, asked, inner, established, err>>
wire    == <<verdict, grant, dry>>
plane   == <<iface, monitor, hook, failed>>
loops   == <<open, dead, reader, sender, closer, health, sendErr, result>>
vars    == <<pc, cancelled, attempt, run, wire, plane, loops>>

PCs == {"check", "dial", "challenge", "reply", "ensure", "mss", "unwind",
        "up", "session", "unclamp", "unplumb", "down", "hangup", "decide",
        "backoff", "returned"}

TypeOK ==
    /\ pc \in PCs /\ cancelled \in BOOLEAN /\ attempt \in 0..MaxAttempts
    /\ backoff \in MinBackoff..MaxBackoff
    /\ lastInner \in Inners \cup {NoInner} /\ asked \in Inners \cup {NoInner}
    /\ established \in BOOLEAN /\ err \in {"nil", "transient", "rejected"}
    /\ verdict \in {"none", "granted", "busy", "refused"}
    /\ inner \in Inners \cup {NoInner} /\ grant \in Inners \cup {NoInner}
    /\ dry \in 0..attempt
    /\ iface \in BOOLEAN /\ monitor \in BOOLEAN /\ failed \in BOOLEAN
    /\ hook \in {"up", "down"}
    /\ open \subseteq Attempts /\ dead \subseteq open
    /\ reader \subseteq Attempts /\ sender \subseteq Attempts
    /\ closer \subseteq Attempts /\ health \subseteq Attempts
    /\ sendErr \subseteq Attempts
    /\ result \in {"none", "nil", "transient"}

Init ==
    /\ pc = "check" /\ cancelled = FALSE /\ attempt = 0
    /\ backoff = MinBackoff /\ lastInner = NoInner
    /\ asked = NoInner /\ established = FALSE /\ err = "nil"
    /\ verdict = "none" /\ inner = NoInner /\ grant = NoInner /\ dry = 0
    /\ iface = FALSE /\ monitor = FALSE /\ hook = "down"
    /\ failed = FALSE
    /\ open = {} /\ dead = {}
    /\ reader = {} /\ sender = {} /\ closer = {} /\ health = {}
    /\ sendErr = {} /\ result = "none"

-----------------------------------------------------------------------------
(* runDialer                                                               *)

(* The loop test, and the call of dialOnce with lastInner.                 *)
Check ==
    /\ pc = "check"
    /\ \/ /\ cancelled
          /\ pc' = "returned"
          /\ UNCHANGED <<attempt, asked, inner, established, err, verdict, dry>>
       \/ /\ ~cancelled /\ attempt < MaxAttempts
          /\ pc' = "dial" /\ attempt' = attempt + 1
          /\ asked' = lastInner /\ inner' = NoInner
          /\ established' = FALSE /\ err' = "nil"
          /\ verdict' = "none" /\ dry' = dry + 1
    /\ UNCHANGED <<cancelled, backoff, lastInner, grant, plane, loops>>

Decide_ ==
    /\ pc = "decide"
    /\ lastInner' = IF inner # NoInner /\ err = "nil" THEN inner ELSE lastInner
    /\ \/ /\ cancelled \/ err = "rejected"
          /\ pc' = "returned" /\ UNCHANGED backoff
       \/ /\ ~cancelled /\ err # "rejected"
          /\ pc' = "backoff"
          /\ backoff' = IF established THEN MinBackoff ELSE backoff
    /\ UNCHANGED <<cancelled, attempt, asked, inner, established, err, wire,
                   plane, loops>>

DecideNoReset_ ==
    /\ pc = "decide"
    /\ lastInner' = IF inner # NoInner THEN inner ELSE lastInner
    /\ \/ /\ cancelled \/ err = "rejected"
          /\ pc' = "returned" /\ UNCHANGED backoff
       \/ /\ ~cancelled /\ err # "rejected"
          /\ pc' = "backoff" /\ UNCHANGED backoff
    /\ UNCHANGED <<cancelled, attempt, asked, inner, established, err, wire,
                   plane, loops>>

(* dialOnce has returned.                                                  *)
Decide ==
    /\ pc = "decide"
    /\ lastInner' = IF inner # NoInner THEN inner ELSE lastInner
    /\ \/ /\ cancelled \/ err = "rejected"
          /\ pc' = "returned" /\ UNCHANGED backoff
       \/ /\ ~cancelled /\ err # "rejected"
          /\ pc' = "backoff"
          /\ backoff' = IF established THEN MinBackoff ELSE backoff
    /\ UNCHANGED <<cancelled, attempt, asked, inner, established, err, wire,
                   plane, loops>>

(* The select on ctx.Done and time.After(backoff).                         *)
Wait ==
    /\ pc = "backoff"
    /\ \/ cancelled /\ pc' = "returned" /\ UNCHANGED backoff
       \/ /\ pc' = "check"
          /\ backoff' = IF 2 * backoff < MaxBackoff THEN 2 * backoff
                                                    ELSE MaxBackoff
    /\ UNCHANGED <<cancelled, attempt, lastInner, asked, inner, established,
                   err, wire, plane, loops>>

Cancel ==
    /\ ~cancelled /\ pc # "returned"
    /\ cancelled' = TRUE
    /\ UNCHANGED <<pc, attempt, run, wire, plane, loops>>

-----------------------------------------------------------------------------
(* dialOnce up to the session, and Client.Handshake                        *)

Fail(e, where) ==
    /\ err' = e /\ pc' = where
    /\ UNCHANGED <<cancelled, attempt, backoff, lastInner, asked, inner>>

(* No source address, no route, refused, or cancelled.                     *)
DialFail ==
    /\ pc = "dial" /\ Fail("transient", "decide")
    /\ UNCHANGED <<established, wire, plane, loops>>

(* Connected; Hello is sent.                                               *)
Dial ==
    /\ pc = "dial" /\ pc' = "challenge"
    /\ open' = open \cup {attempt}
    /\ UNCHANGED <<cancelled, attempt, run, wire, plane, dead, reader, sender,
                   closer, health, sendErr, result>>

(* The challenge arrives; Auth and SessionRequest are sent.                *)
Challenge ==
    /\ pc = "challenge" /\ pc' = "reply"
    /\ UNCHANGED <<cancelled, attempt, run, wire, plane, loops>>

(* The server refuses for good: a Teardown in place of the challenge, a    *)
(* result other than OK and NoAddresses, tunnel flags the client does not  *)
(* know, or the connection closed because the secret is wrong.             *)
Refused ==
    /\ pc \in {"challenge", "reply"} /\ Fail("rejected", "hangup")
    /\ verdict' = "refused"
    /\ UNCHANGED <<established, grant, dry, plane, loops>>

(* ResultNoAddresses.                                                      *)
Busy ==
    /\ pc = "reply" /\ Fail("transient", "hangup")
    /\ verdict' = "busy"
    /\ UNCHANGED <<established, grant, dry, plane, loops>>

(* An I/O error, the handshake deadline or an unexpected message.  While   *)
(* the reply is read every I/O error counts as failed authentication.      *)
HandshakeLost ==
    /\ \/ pc = "challenge" /\ Fail("transient", "hangup")
       \/ pc = "reply" /\ Fail("transient", "hangup")   \* unexpected message
       \/ pc = "reply" /\ Fail("rejected", "hangup")    \* read error
    /\ UNCHANGED <<established, wire, plane, loops>>

(* ResultOK with an inner address, usually the one asked for.              *)
Granted ==
    /\ pc = "reply" /\ pc' = "ensure"
    /\ \E x \in Inners : inner' = x /\ grant' = x
    /\ verdict' = "granted" /\ dry' = 0
    /\ established' = TRUE
    /\ UNCHANGED <<cancelled, attempt, backoff, lastInner, asked, err, plane,
                   loops>>

Ensure ==
    /\ pc = "ensure" /\ pc' = "mss" /\ iface' = TRUE /\ failed' = FALSE
    /\ UNCHANGED <<cancelled, attempt, run, wire, monitor, hook, loops>>

EnsureFail ==
    /\ pc = "ensure" /\ Fail("transient", "hangup")
    /\ iface' \in {FALSE, EnsureLeaves}
    /\ failed' = iface'
    /\ UNCHANGED <<established, wire, monitor, hook, loops>>

(* hooks.Run: bounded to ten seconds, a failing script is only logged.     *)
runHook(event) == hook' = event

(* mssclamp.Apply (MssClamp has its commands), and the start of            *)
(* MonitorLoop.                                                            *)
Apply ==
    /\ pc = "mss" /\ pc' = "up"
    /\ monitor' = (MSSMode = "monitor")
    /\ UNCHANGED <<cancelled, attempt, run, wire, iface, hook, failed, loops>>

ApplyFail_ ==
    /\ pc = "mss" /\ MSSMode # "off" /\ Fail("transient", "hangup")
    /\ UNCHANGED <<established, wire, plane, loops>>

(* Rules that were added stay; only the interface is removed again.        *)
ApplyFail ==
    /\ pc = "mss" /\ MSSMode # "off" /\ Fail("transient", "unwind")
    /\ UNCHANGED <<established, wire, plane, loops>>

(* prov.Remove succeeds, or fails and is only logged (or not even that).   *)
RemoveInterface ==
    \/ iface' = FALSE /\ UNCHANGED failed
    \/ RemoveMayFail /\ failed' = TRUE /\ UNCHANGED iface

Unwind ==
    /\ pc = "unwind" /\ pc' = "hangup" /\ RemoveInterface
    /\ UNCHANGED <<cancelled, attempt, run, wire, monitor, hook, loops>>

(* The up hook, and the goroutines of runSessionLoops and KeepaliveLoop.   *)
UpHook ==
    /\ pc = "up" /\ pc' = "session" /\ runHook("up")
    /\ reader' = reader \cup {attempt} /\ sender' = sender \cup {attempt}
    /\ closer' = closer \cup {attempt}
    /\ health' = health \cup (IF HealthEnabled THEN {attempt} ELSE {})
    /\ UNCHANGED <<cancelled, attempt, run, wire, iface, monitor, failed, open,
                   dead, sendErr, result>>

-----------------------------------------------------------------------------
(* The goroutines of attempt a.                                            *)

InSession(a) == a = attempt /\ pc = "session"

ParentDone_(a) == cancelled

ParentDoneDeaf_(a) == HealthEnabled /\ ~InSession(a)

(* The context KeepaliveLoop and the healthcheck are called with: the one  *)
(* of runDialer, or with a healthcheck one that runSessionLoops cancels    *)
(* when it returns.                                                        *)
ParentDone(a) == cancelled \/ (HealthEnabled /\ ~InSession(a))

(* The reader has returned: its deferred cancel ends loopCtx.              *)
LoopDone(a) == a \notin reader

(* The first result of the session under way wins: it is returned, or is   *)
(* first in errCh.  Nobody receives a later one.                           *)
Report(a, r) ==
    result' = IF InSession(a) /\ result = "none" THEN r ELSE result

(* net.Conn.Close wakes whoever waits on the connection.                   *)
CloseConn(a) == open' = open \ {a} /\ dead' = dead \ {a}

(* The path or the server dies without a word (before the session this     *)
(* shows only as a failing handshake).                                     *)
PathDies(a) ==
    /\ a \in (open \cap reader) \ dead
    /\ dead' = dead \cup {a}
    /\ UNCHANGED <<pc, cancelled, attempt, run, wire, plane, open, reader,
                   sender, closer, health, sendErr,
                   result>>

(* The reader returns: a read error or the read deadline, a Teardown from  *)
(* the server, or a send error.                                            *)
ReaderReturns(a) ==
    /\ a \in reader /\ reader' = reader \ {a}
    /\ \/ Report(a, IF ParentDone(a) THEN "nil" ELSE "transient")
       \/ a \in open \ dead /\ Report(a, "nil")
       \/ a \in sendErr /\ Report(a, "transient")
    /\ sendErr' = sendErr \ {a}
    /\ UNCHANGED <<pc, cancelled, attempt, run, wire, plane, open, dead,
                   sender, closer, health>>

(* The error is for the reader; nobody receives it once that returned.     *)
SendFails(a) ==
    /\ a \in sender /\ a \notin open \ dead
    /\ sender' = sender \ {a}
    /\ sendErr' = sendErr \cup ({a} \cap reader)
    /\ UNCHANGED <<pc, cancelled, attempt, run, wire, plane, open, dead,
                   reader, closer, health, result>>

SenderStops(a) ==
    /\ a \in sender /\ (ParentDone(a) \/ LoopDone(a))
    /\ sender' = sender \ {a}
    /\ UNCHANGED <<pc, cancelled, attempt, run, wire, plane, open, dead,
                   reader, closer, health, sendErr,
                   result>>

(* The closer announces a cancellation (best effort) and closes.           *)
CloserCloses(a) ==
    /\ a \in closer /\ (ParentDone(a) \/ LoopDone(a))
    /\ closer' = closer \ {a} /\ CloseConn(a)
    /\ UNCHANGED <<pc, cancelled, attempt, run, wire, plane, reader, sender,
                   health, sendErr, result>>

(* healthcheck.Loop gives up (HealthCheck models when), or is cancelled.   *)
HealthReturns(a) ==
    /\ a \in health /\ health' = health \ {a}
    /\ \/ Report(a, "transient")
       \/ ParentDone(a) /\ Report(a, "nil")
    /\ UNCHANGED <<pc, cancelled, attempt, run, wire, plane, open, dead,
                   reader, sender, closer, sendErr>>

-----------------------------------------------------------------------------
(* The end of the session: runSessionLoops returns with the first result   *)
(* and cancels the other loop, and dialOnce's deferred calls run.          *)

SessionEnds ==
    /\ pc = "session" /\ result # "none"
    /\ pc' = "unclamp" /\ err' = result /\ result' = "none"
    /\ UNCHANGED <<cancelled, attempt, backoff, lastInner, asked, inner,
                   established, wire, plane, open, dead, reader, sender, closer,
                   health, sendErr>>

(* stopMSSMonitor, then mssclamp.Remove, of which an error is only logged. *)
Unclamp ==
    /\ pc = "unclamp" /\ pc' = "unplumb" /\ monitor' = FALSE
    /\ UNCHANGED <<cancelled, attempt, run, wire, iface, hook, failed, loops>>

Unplumb ==
    /\ pc = "unplumb" /\ pc' = "down" /\ RemoveInterface
    /\ UNCHANGED <<cancelled, attempt, run, wire, monitor, hook, loops>>

DownHook ==
    /\ pc = "down" /\ pc' = "hangup" /\ runHook("down")
    /\ UNCHANGED <<cancelled, attempt, run, wire, iface, monitor,
                   failed, loops>>

(* The deferred conn.Close of dialOnce.                                    *)
Hangup ==
    /\ pc = "hangup" /\ pc' = "decide"
    /\ CloseConn(attempt)
    /\ UNCHANGED <<cancelled, attempt, run, wire, plane, reader, sender, closer,
                   health, sendErr, result>>

-----------------------------------------------------------------------------
Goroutine(a) == \/ ReaderReturns(a) \/ SendFails(a) \/ SenderStops(a)
                \/ CloserCloses(a) \/ HealthReturns(a)

Handshake == Challenge \/ Refused \/ Busy \/ HandshakeLost \/ Granted
Setup     == Ensure \/ EnsureFail \/ Apply \/ ApplyFail \/ Unwind \/ UpHook
Cleanup   == SessionEnds \/ Unclamp \/ Unplumb \/ DownHook \/ Hangup
Step      == Check \/ Decide \/ Wait \/ DialFail \/ Dial \/ Handshake \/ Setup
               \/ Cleanup

Next == \/ Step \/ Cancel
        \/ \E a \in Attempts : PathDies(a) \/ Goroutine(a)

Spec == Init /\ [][Next]_vars

(* Every call of dialOnce is bounded in time, cancelled or not; a reader   *)
(* is only sure to return when its connection is closed or its path dead   *)
(* (read deadline), a healthcheck only when it is cancelled, and a write   *)
(* may block on a dead path until the connection is closed.                *)
Unblocked(a) == a \notin dead

MustStep(a) ==
    \/ a \notin open \ dead /\ ReaderReturns(a)
    \/ Unblocked(a) /\ (SendFails(a) \/ SenderStops(a) \/ CloserCloses(a))
    \/ ParentDone(a) /\ HealthReturns(a)

(* No behaviour goes on for ever (MaxAttempts), so one condition on all of *)
(* them is as good as one on each.                                         *)
Fairness == WF_vars(Step \/ \E a \in Attempts : MustStep(a))

FairSpec == Spec /\ Fairness

-----------------------------------------------------------------------------
(* Properties.                                                             *)

Connecting == {"check", "dial", "challenge", "reply", "hangup", "decide",
               "backoff", "returned"}

(* main.go:488-543: outside the session of an attempt, and so between      *)
(* sessions and after the last one, the client's interface is gone, its    *)
(* down hook has run and its MonitorLoop is cancelled, on every path out of *)
(* dialOnce; only a failing removal can leave the interface.               *)
TunnelOnlyInSession ==
    pc \in Connecting => /\ hook = "down"
                         /\ ~monitor
                         /\ iface => failed

(* main.go:374-390: every attempt asks for the address of the most recent  *)
(* grant, however the attempts in between failed.                          *)
AsksForLastAddress ==
    pc \in {"dial", "challenge", "reply"} => asked = grant

Pow2[n \in 0..MaxAttempts] == IF n = 0 THEN 1 ELSE 2 * Pow2[n - 1]

(* main.go:378-408: the n-th wait in a row without a grant is MinBackoff   *)
(* doubled n - 1 times, a grant starts over, and the wait is capped.       *)
BackoffGrowsAndResets ==
    pc = "backoff" =>
        LET n == IF grant = NoInner THEN dry - 1 ELSE dry
            w == MinBackoff * Pow2[n]
        IN  backoff = IF w < MaxBackoff THEN w ELSE MaxBackoff

(* client.go:144-146: "the helper goroutines below exit promptly on a      *)
(* dropped connection": no goroutine of an attempt is left running.        *)
NoGoroutineLeaks ==
    \A a \in Attempts :
        a < attempt \/ (a = attempt /\ pc \in Connecting)
          ~> a \notin reader \cup sender \cup closer \cup health

(* main.go:374-377: a cancelled dialer returns.                            *)
CancelReturns == cancelled ~> pc = "returned"

(* main.go:374-377: "It stops on context cancellation or a permanent       *)
(* rejection (bad credentials)".                                           *)
StopsOnlyIfRefused ==
    pc = "returned" => cancelled \/ verdict = "refused"

=============================================================================
