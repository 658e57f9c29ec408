----------------------------- MODULE ControlLink -----------------------------
(***************************************************************************)
(* One control connection from the session reply on: the secure channel of *)
(* internal/control/secure.go with its sequence numbers, the reader, sender *)
(* and closer of Client.KeepaliveLoop, and Server.keepaliveLoop, over a    *)
(* path that delivers in order within a bounded delay until it dies.       *)
(* Time passes in ticks; whatever is due happens before the next tick.     *)
(*                                                                         *)
(* Definitions whose name ends in _ are altered forms of the definition    *)
(* that follows them; the properties are shown to reject them.             *)
(***************************************************************************)
EXTENDS Naturals, Sequences

CONSTANTS Timings,      \* what the two hosts and the path may be like
          SeqModulus    \* 2^64: sequence numbers wrap around

Writers == {"sender", "closer"}
Ends == {"client", "server"}

(* interval: the client's keepalive_interval.  timeout: keepalive_timeout  *)
(* of "client" and "server".  delay: of the path.  setup: how long the     *)
(* client takes from the reply to KeepaliveLoop (interface, rules, up      *)
(* hook).  teardown: how long Teardown takes at the server.                *)
(* Config.validate asks that timeout exceed interval at each host; a probe  *)
(* that arrives in time takes more, and from both hosts.                   *)
ASSUME TimingAssumption ==
    /\ SeqModulus \in Nat \ {0, 1}
    /\ \A c \in Timings :
          /\ c.interval \in Nat \ {0} /\ c.timeout \in [Ends -> Nat]
          /\ c.delay \in Nat /\ c.setup \in Nat /\ c.teardown \in Nat
          /\ c.interval + 2 * c.delay < c.timeout["client"]
          /\ c.setup + c.interval + 2 * c.delay < c.timeout["server"]

VARIABLES t,          \* the timing of this connection
          client,     \* "await", "setup", "loop", "ended"
          server,     \* "loop", "teardown", "closed"
          pen,        \* where each writer of the client is in WriteMessage
          nonce,      \* the sequence number it sealed with
          writeSeq, readSeq,      \* of each end
          wire,       \* wire[e]: the frames on their way to end e
          isOpen,     \* the client's conn is not closed
          beat,       \* ticks until the sender's ticker fires
          left,       \* ticks until each end's read deadline
          work,       \* ticks until the set-up or the teardown is done
          cancelled, alive,
          why,        \* history: why each loop returned
          since       \* history: ticks since the cancellation, since the
                      \* path died, since a loop returned

seqs  == <<writeSeq, readSeq>>
timer == <<beat, left, work>>
vars  == <<t, client, server, pen, nonce, seqs, wire, isOpen, timer, cancelled,
           alive, why, since>>

Events == {"cancel", "death", "end"}
Reasons == {"none", "timeout", "garbled", "eof", "bye"}
Numbers == 0..(SeqModulus - 1)
Frames == [kind : {"reply", "echo", "ack", "bye", "fin"}, seq : Numbers, age : 0..t.delay]

Larger(a, b) == IF a < b THEN b ELSE a

(* How long the other end, or both, may take after each event.             *)
Bound(h) == CASE h = "cancel" -> t.setup + 2 * t.delay
              [] h = "death" -> Larger(t.timeout["server"], t.setup + t.timeout["client"])
              [] h = "end" -> t.setup + t.teardown + t.delay

TypeOK ==
    /\ t \in Timings
    /\ client \in {"await", "setup", "loop", "ended"}
    /\ server \in {"loop", "teardown", "closed"}
    /\ pen \in [Writers -> {"idle", "sealed", "bumped", "done"}]
    /\ nonce \in [Writers -> Numbers]
    /\ writeSeq \in [Ends -> Numbers] /\ readSeq \in [Ends -> Numbers]
    /\ wire \in [Ends -> Seq(Frames)]
    /\ isOpen \in BOOLEAN /\ cancelled \in BOOLEAN /\ alive \in BOOLEAN
    /\ beat \in 0..t.interval
    /\ left \in [Ends -> Nat] /\ \A e \in Ends : left[e] <= t.timeout[e]
    /\ work \in [Ends -> Nat] /\ work["client"] <= t.setup /\ work["server"] <= t.teardown
    /\ why \in [Ends -> Reasons]
    /\ since \in [Events -> Nat] /\ \A h \in Events : since[h] <= Bound(h) + 1

Plus1(n) == (n + 1) % SeqModulus
Frame(kind, seq) == [kind |-> kind, seq |-> seq, age |-> 0]
Fin == Frame("fin", 0)

(* The server has sealed and sent the reply with its first sequence number *)
(* and read the request that the client sealed with its first one.         *)
Init ==
    /\ t \in Timings
    /\ client = "await" /\ server = "loop"
    /\ pen = [w \in Writers |-> "idle"] /\ nonce = [w \in Writers |-> 0]
    /\ writeSeq = [e \in Ends |-> 1]
    /\ readSeq = [e \in Ends |-> IF e = "client" THEN 0 ELSE 1]
    /\ wire = [e \in Ends |-> IF e = "client" THEN <<Frame("reply", 0)>> ELSE <<>>]
    /\ isOpen = TRUE /\ beat = t.interval /\ left = t.timeout
    /\ work = [e \in Ends |-> 0]
    /\ cancelled = FALSE /\ alive = TRUE
    /\ why = [e \in Ends |-> "none"]
    /\ since = [h \in Events |-> 0]

-----------------------------------------------------------------------------
(* Frames.                                                                 *)

Reading(e) == IF e = "client" THEN client # "ended" ELSE server = "loop"

(* What a write puts on the wire to end e.  A dead path swallows it, and   *)
(* nobody reads it once e is done.                                         *)
Sent(e, frame) == IF alive /\ Reading(e) THEN Append(wire[e], frame) ELSE wire[e]

Arrives(e) == wire[e] # <<>>

(* secureChannel.ReadMessage opens a frame only with the number it expects. *)
Opens(e) == Head(wire[e]).seq = readSeq[e]
Is(e, kind) == Head(wire[e]).kind = kind

ReadOn_(e) == readSeq' = readSeq

(* The number moves on once a frame was opened.                            *)
ReadOn(e) == readSeq' = [readSeq EXCEPT ![e] = Plus1(readSeq[e])]

(* A read that fails: the peer closed or a frame does not open.            *)
Broken(e) == Is(e, "fin") \/ ~Opens(e)
Cause(e) == IF Is(e, "fin") THEN "eof" ELSE "garbled"

-----------------------------------------------------------------------------
(* The client.                                                             *)

(* Handshake reads the reply.  dialOnce then sets the tunnel up.           *)
Reply ==
    /\ client = "await" /\ Arrives("client") /\ Is("client", "reply") /\ Opens("client")
    /\ ReadOn("client")
    /\ client' = "setup" /\ \E d \in 0..t.setup : work' = [work EXCEPT !["client"] = d]
    /\ wire' = [wire EXCEPT !["client"] = Tail(wire["client"])]
    /\ UNCHANGED <<t, server, pen, nonce, writeSeq, isOpen, beat, left, cancelled,
                   alive, why, since>>

(* A reply that never comes: handshakeTimeout, ErrRejected; dialOnce       *)
(* closes the connection.                                                  *)
NoReply ==
    /\ client = "await" /\ ~alive
    /\ client' = "ended" /\ isOpen' = FALSE /\ why' = [why EXCEPT !["client"] = "timeout"]
    /\ UNCHANGED <<t, server, pen, nonce, seqs, wire, timer, cancelled, alive, since>>

LoopStarts_ ==
    /\ client = "setup" /\ work["client"] = 0
    /\ client' = "loop" /\ beat' = t.interval
    /\ left' = [left EXCEPT !["client"] = t.timeout["server"]]
    /\ UNCHANGED <<t, server, pen, nonce, seqs, wire, isOpen, work, cancelled, alive,
                   why, since>>

(* KeepaliveLoop starts: ticker, read deadline.                            *)
LoopStarts ==
    /\ client = "setup" /\ work["client"] = 0
    /\ client' = "loop" /\ beat' = t.interval
    /\ left' = [left EXCEPT !["client"] = t.timeout["client"]]
    /\ UNCHANGED <<t, server, pen, nonce, seqs, wire, isOpen, work, cancelled, alive,
                   why, since>>

(* The sender wakes with its ticker, the closer with loopCtx.  Both call   *)
(* secureChannel.WriteMessage, which has no lock: a frame is sealed with   *)
(* writeSeq, ...                                                           *)
MaySeal(w) ==
    /\ pen[w] = "idle"
    /\ \/ w = "sender" /\ client = "loop" /\ beat = 0
       \/ w = "closer" /\ client \in {"loop", "ended"} /\ cancelled /\ isOpen

Seal(w) ==
    /\ MaySeal(w) /\ beat' = IF w = "sender" THEN t.interval ELSE beat
    /\ pen' = [pen EXCEPT ![w] = "sealed"]
    /\ nonce' = [nonce EXCEPT ![w] = writeSeq["client"]]
    /\ UNCHANGED <<t, client, server, seqs, wire, isOpen, left, work, cancelled, alive,
                   why, since>>

(* ... writeSeq is incremented, where the increment of the other writer    *)
(* may be lost, ...                                                        *)
Bump(w) ==
    /\ pen[w] = "sealed" /\ pen' = [pen EXCEPT ![w] = "bumped"]
    /\ \E n \in {writeSeq["client"], nonce[w]} :
          writeSeq' = [writeSeq EXCEPT !["client"] = Plus1(n)]
    /\ UNCHANGED <<t, client, server, nonce, readSeq, wire, isOpen, timer, cancelled,
                   alive, why, since>>

(* ... and the frame is written, unless the connection is closed by now.   *)
Put(w) ==
    /\ pen[w] = "bumped"
    /\ pen' = [pen EXCEPT ![w] = IF w = "sender" THEN "idle" ELSE "done"]
    /\ nonce' = [nonce EXCEPT ![w] = 0]
    /\ wire' = IF isOpen
                 THEN [wire EXCEPT !["server"] =
                         Sent("server", Frame(IF w = "sender" THEN "echo" ELSE "bye", nonce[w]))]
                 ELSE wire
    /\ UNCHANGED <<t, client, server, seqs, isOpen, timer, cancelled, alive, why, since>>

MayClose_ == isOpen /\ client = "ended" /\ (pen["closer"] = "done" \/ ~cancelled)

(* The closer closes the connection after its Teardown, or at once when    *)
(* the loop has returned for another reason.                               *)
MayClose == isOpen /\ (pen["closer"] = "done" \/ (client = "ended" /\ ~cancelled))

Close ==
    /\ MayClose /\ isOpen' = FALSE
    /\ wire' = [wire EXCEPT !["server"] = Sent("server", Fin)]
    /\ UNCHANGED <<t, client, server, pen, nonce, seqs, timer, cancelled, alive, why, since>>

(* The tunnel cannot be set up: dialOnce returns and closes.               *)
SetupFails ==
    /\ client = "setup" /\ client' = "ended" /\ isOpen' = FALSE
    /\ wire' = [wire EXCEPT !["server"] = Sent("server", Fin), !["client"] = <<>>]
    /\ why' = [why EXCEPT !["client"] = "bye"]
    /\ UNCHANGED <<t, server, pen, nonce, seqs, timer, cancelled, alive, since>>

(* The reader gets an EchoAck, and sets its read deadline again.           *)
ClientReads ==
    /\ client = "loop" /\ isOpen /\ Arrives("client")
    /\ Is("client", "ack") /\ Opens("client") /\ ReadOn("client")
    /\ left' = [left EXCEPT !["client"] = t.timeout["client"]]
    /\ wire' = [wire EXCEPT !["client"] = Tail(wire["client"])]
    /\ UNCHANGED <<t, client, server, pen, nonce, writeSeq, isOpen, beat, work, cancelled,
                   alive, why, since>>

(* The reader returns: the connection is closed here or there, a frame     *)
(* does not open, or the deadline has passed.                              *)
ClientEnds ==
    /\ client = "loop" /\ client' = "ended"
    /\ \/ ~isOpen /\ why' = [why EXCEPT !["client"] = "bye"]
       \/ isOpen /\ Arrives("client") /\ Broken("client")
          /\ why' = [why EXCEPT !["client"] = Cause("client")]
       \/ isOpen /\ left["client"] = 0 /\ why' = [why EXCEPT !["client"] = "timeout"]
    /\ wire' = [wire EXCEPT !["client"] = <<>>]
    /\ beat' = 0 /\ left' = [left EXCEPT !["client"] = 0]
    /\ UNCHANGED <<t, server, pen, nonce, seqs, isOpen, work, cancelled, alive, since>>

(* The parent context is cancelled.                                        *)
Cancel ==
    /\ ~cancelled /\ client # "ended" /\ cancelled' = TRUE
    /\ UNCHANGED <<t, client, server, pen, nonce, seqs, wire, isOpen, timer, alive, why, since>>

-----------------------------------------------------------------------------
(* The server.                                                             *)

ServerReads_ ==
    /\ server = "loop" /\ Arrives("server") /\ Is("server", "echo") /\ Opens("server")
    /\ ReadOn("server")
    /\ writeSeq' = [writeSeq EXCEPT !["server"] = Plus1(writeSeq["server"])]
    /\ wire' = [wire EXCEPT !["server"] = Tail(wire["server"]),
                            !["client"] = Sent("client", Frame("ack", writeSeq["server"]))]
    /\ UNCHANGED <<t, client, server, pen, nonce, isOpen, beat, left, work, cancelled, alive,
                   why, since>>

(* An Echo is answered, and the read deadline set again.                   *)
ServerReads ==
    /\ server = "loop" /\ Arrives("server") /\ Is("server", "echo") /\ Opens("server")
    /\ ReadOn("server")
    /\ left' = [left EXCEPT !["server"] = t.timeout["server"]]
    /\ writeSeq' = [writeSeq EXCEPT !["server"] = Plus1(writeSeq["server"])]
    /\ wire' = [wire EXCEPT !["server"] = Tail(wire["server"]),
                            !["client"] = Sent("client", Frame("ack", writeSeq["server"]))]
    /\ UNCHANGED <<t, client, server, pen, nonce, isOpen, beat, work, cancelled, alive,
                   why, since>>

(* keepaliveLoop returns: the client's Teardown, a read error or the       *)
(* deadline.  The session is torn down before the connection is closed.    *)
ServerEnds ==
    /\ server = "loop" /\ server' = "teardown"
    /\ \E d \in 0..t.teardown : work' = [work EXCEPT !["server"] = d]
    /\ \/ Arrives("server") /\ Is("server", "bye") /\ Opens("server")
          /\ ReadOn("server") /\ why' = [why EXCEPT !["server"] = "bye"]
       \/ Arrives("server") /\ Broken("server") /\ UNCHANGED readSeq
          /\ why' = [why EXCEPT !["server"] = Cause("server")]
       \/ left["server"] = 0 /\ UNCHANGED readSeq
          /\ why' = [why EXCEPT !["server"] = "timeout"]
    /\ wire' = [wire EXCEPT !["server"] = <<>>]
    /\ UNCHANGED <<t, client, pen, nonce, writeSeq, isOpen, beat, left, cancelled, alive, since>>

ServerCloses ==
    /\ server = "teardown" /\ work["server"] = 0 /\ server' = "closed"
    /\ wire' = [wire EXCEPT !["client"] = Sent("client", Fin)]
    /\ UNCHANGED <<t, client, pen, nonce, seqs, isOpen, timer, cancelled, alive, why, since>>

(* The server is stopped: the watcher of handle closes the connection.     *)
Stop ==
    /\ server = "loop" /\ server' = "closed"
    /\ why' = [why EXCEPT !["server"] = "bye"]
    /\ wire' = [wire EXCEPT !["server"] = <<>>, !["client"] = Sent("client", Fin)]
    /\ UNCHANGED <<t, client, pen, nonce, seqs, isOpen, timer, cancelled, alive, since>>

-----------------------------------------------------------------------------
(* The path dies without a word: what is on its way is lost.               *)
PathDies ==
    /\ alive /\ alive' = FALSE
    /\ wire' = [e \in Ends |-> <<>>]
    /\ UNCHANGED <<t, client, server, pen, nonce, seqs, isOpen, timer, cancelled, why, since>>

(* What has to happen before the next tick.  A frame is read by the end of *)
(* the path's delay if somebody reads.                                     *)
Due ==
    \/ client = "setup" /\ work["client"] = 0
    \/ MayClose
    \/ server = "teardown" /\ work["server"] = 0
    \/ \E w \in Writers : MaySeal(w) \/ pen[w] \in {"sealed", "bumped"}
    \/ client = "loop" /\ (left["client"] = 0 \/ ~isOpen)
    \/ server = "loop" /\ left["server"] = 0
    \/ \E e \in Ends : /\ Arrives(e) /\ Head(wire[e]).age = t.delay
                       /\ e = "client" => client # "setup"

Down(n) == IF n = 0 THEN 0 ELSE n - 1
Older(f) == [kind |-> f.kind, seq |-> f.seq,
             age |-> IF f.age < t.delay THEN f.age + 1 ELSE f.age]
Over == client = "ended" /\ server # "loop"
Counts(h) ==
    /\ ~Over /\ since[h] <= Bound(h)
    /\ CASE h = "cancel" -> cancelled /\ alive
         [] h = "death" -> ~alive
         [] h = "end" -> alive /\ \E e \in Ends : why[e] # "none"

Tick ==
    /\ ~Due
    /\ beat' = IF client = "loop" THEN Down(beat) ELSE beat
    /\ left' = [e \in Ends |-> IF (e = "client" /\ client = "loop") \/ (e = "server" /\ server = "loop")
                                 THEN Down(left[e]) ELSE left[e]]
    /\ work' = [e \in Ends |-> Down(work[e])]
    /\ wire' = [e \in Ends |-> [i \in DOMAIN wire[e] |-> Older(wire[e][i])]]
    /\ since' = [h \in Events |-> IF Counts(h) THEN since[h] + 1 ELSE since[h]]
    /\ UNCHANGED <<t, client, server, pen, nonce, seqs, isOpen, cancelled, alive, why>>

Next ==
    \/ Reply \/ NoReply \/ LoopStarts \/ SetupFails \/ Close \/ ClientReads \/ ClientEnds
    \/ \E w \in Writers : Seal(w) \/ Bump(w) \/ Put(w)
    \/ ServerReads \/ ServerEnds \/ ServerCloses
    \/ Cancel \/ Stop \/ PathDies \/ Tick

Spec == Init /\ [][Next]_vars

-----------------------------------------------------------------------------
(* Properties.                                                             *)

(* secure.go:70-95, client.go:150-177: until the client is cancelled every *)
(* frame opens at the other end; only then do two goroutines write.        *)
FramesOpen == \A e \in Ends : why[e] = "garbled" => cancelled

(* client.go:179-186, server.go:336-345: an end that times out is right:   *)
(* the path is dead; and when it is, each end notices within its own       *)
(* timeout, counted from when its loop began.                              *)
TimeoutMeansDeath ==
    /\ \A e \in Ends : why[e] = "timeout" => ~alive
    /\ ~alive => /\ since["death"] > t.timeout["server"] => server # "loop"
                 /\ since["death"] > t.setup + t.timeout["client"] => client # "loop"

(* client.go:169-177, server.go:180-213: while the path lives, a client    *)
(* that is cancelled ends the session at both ends as fast as the path     *)
(* allows, whatever becomes of its last frames; and when either end has    *)
(* left its loop for any other reason, the other follows without waiting   *)
(* for a timeout.                                                          *)
EndsTogether ==
    alive /\ (since["cancel"] > Bound("cancel") \/ since["end"] > Bound("end")) => Over
=============================================================================
