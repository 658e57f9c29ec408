-------------------------- MODULE ControlLinkProofs --------------------------
(***************************************************************************)
(* Proofs about ControlLink for every timing the assumption allows and any *)
(* modulus of the sequence numbers.  LinkInv is inductive.  It says where  *)
(* each goroutine may be and what of it is on the wires (PhaseInv,         *)
(* FinInv), that frames carry the numbers their reader expects (ChainInv)  *)
(* and are read in the order of their age (AgeInv), how much of each       *)
(* deadline is left until the frame that renews it arrives                 *)
(* (ServerDeadline, ClientDeadline), and how much of each bound is used up *)
(* (DeathInv, CancelInv, EndInv).                                          *)
(*                                                                         *)
(* The provers do not see sequences of frames: each action is first taken  *)
(* apart (the Effect lemmas) and what it does to a wire is stated with a   *)
(* few numbers and predicates (the View lemmas).                           *)
(***************************************************************************)
EXTENDS ControlLink, TLAPS

(* Most leaves are first-order: each is tried with Zenon before SMT.       *)
USE ZenonT(2), SMTT(20), ZenonT(20), SMTT(40)

-----------------------------------------------------------------------------
(* Sequences.                                                              *)

(* What sending and reading do to a sequence of frames.                    *)
LEMMA AppendFacts ==
    ASSUME NEW S, NEW s \in Seq(S), NEW x \in S
    PROVE  /\ Append(s, x) \in Seq(S) /\ Len(Append(s, x)) = Len(s) + 1
           /\ \A i \in 1..Len(s) : Append(s, x)[i] = s[i]
           /\ Append(s, x)[Len(s) + 1] = x
OBVIOUS

(* Reading removes the first frame.                                        *)
LEMMA TailFacts ==
    ASSUME NEW S, NEW s \in Seq(S), s # <<>>
    PROVE  /\ Len(s) > 0 /\ Head(s) = s[1]
           /\ Tail(s) \in Seq(S) /\ Len(Tail(s)) = Len(s) - 1
           /\ \A i \in 1..(Len(s) - 1) : Tail(s)[i] = s[i + 1]
OBVIOUS

(* The frames of a wire, one by one.                                       *)
LEMMA SeqFacts ==
    ASSUME NEW S, NEW s \in Seq(S)
    PROVE  /\ Len(s) \in Nat /\ DOMAIN s = 1..Len(s) /\ \A i \in 1..Len(s) : s[i] \in S
           /\ s = <<>> <=> Len(s) = 0
OBVIOUS

(* The timing of a connection.                                             *)
LEMMA TimingFacts ==
    ASSUME t \in Timings
    PROVE  /\ t.interval \in Nat \ {0} /\ t.timeout \in [Ends -> Nat]
           /\ t.delay \in Nat /\ t.setup \in Nat /\ t.teardown \in Nat
           /\ t.interval + 2 * t.delay < t.timeout["client"]
           /\ t.setup + t.interval + 2 * t.delay < t.timeout["server"]
           /\ t.timeout["client"] \in Nat /\ t.timeout["server"] \in Nat
BY TimingAssumption DEF Ends

(* Sequence numbers stay below the modulus.                                *)
LEMMA NumberFacts ==
    /\ 0 \in Numbers /\ 1 \in Numbers
    /\ \A n \in Numbers : Plus1(n) \in Numbers
BY TimingAssumption DEF Numbers, Plus1

-----------------------------------------------------------------------------
(* How many frames are on their way to end e.                              *)
Count(e) == Len(wire[e])

(* What becomes of a wire in a step.                                       *)
Keeps(e) == wire'[e] = wire[e]
(* It is dropped.                                                          *)
Empties(e) == Len(wire'[e]) = 0
(* Its first frame is read.                                                *)
Takes(e) == /\ Len(wire[e]) > 0 /\ Len(wire'[e]) = Len(wire[e]) - 1
            /\ \A i \in 1..(Len(wire[e]) - 1) : wire'[e][i] = wire[e][i + 1]
(* A frame is added.                                                       *)
Adds(e, f) == /\ Len(wire'[e]) = Len(wire[e]) + 1
              /\ \A i \in 1..Len(wire[e]) : wire'[e][i] = wire[e][i]
              /\ wire'[e][Len(wire[e]) + 1] = f
(* A frame is sent to an end that may no longer read.                      *)
Gets(e, f) == IF alive /\ Reading(e) THEN Adds(e, f) ELSE Keeps(e)
(* Every frame grows older.                                                *)
Ages(e) == /\ Len(wire'[e]) = Len(wire[e])
           /\ \A i \in 1..Len(wire[e]) : wire'[e][i] = Older(wire[e][i])

(* A wire holds frames no older than the delay; reading takes the first.   *)
LEMMA WireFacts ==
    ASSUME TypeOK, NEW e \in Ends
    PROVE  /\ wire[e] \in Seq(Frames) /\ Len(wire[e]) \in Nat
           /\ DOMAIN wire[e] = 1..Len(wire[e])
           /\ \A i \in 1..Len(wire[e]) :
                 /\ wire[e][i] \in Frames
                 /\ wire[e][i].age \in 0..t.delay
           /\ Arrives(e) <=> Len(wire[e]) > 0
           /\ Arrives(e) => /\ Head(wire[e]) = wire[e][1] /\ Tail(wire[e]) \in Seq(Frames)
                            /\ Len(Tail(wire[e])) = Len(wire[e]) - 1
                            /\ \A i \in 1..(Len(wire[e]) - 1) : Tail(wire[e])[i] = wire[e][i + 1]
<1>1. wire[e] \in Seq(Frames)
  BY DEF TypeOK
<1>2. /\ Len(wire[e]) \in Nat /\ DOMAIN wire[e] = 1..Len(wire[e])
      /\ \A i \in 1..Len(wire[e]) : wire[e][i] \in Frames
      /\ wire[e] = <<>> <=> Len(wire[e]) = 0
  BY <1>1, SeqFacts
<1>3. Arrives(e) <=> Len(wire[e]) > 0
  BY <1>2 DEF Arrives
<1>4. Arrives(e) => /\ Head(wire[e]) = wire[e][1] /\ Tail(wire[e]) \in Seq(Frames)
                    /\ Len(Tail(wire[e])) = Len(wire[e]) - 1
                    /\ \A i \in 1..(Len(wire[e]) - 1) : Tail(wire[e])[i] = wire[e][i + 1]
  BY <1>1, TailFacts DEF Arrives
<1>5. \A f \in Frames : f.age \in 0..t.delay
  BY DEF Frames
<1> QED BY <1>1, <1>2, <1>3, <1>4, <1>5

(* What a write leaves on a wire.                                          *)
LEMMA SentFacts ==
    ASSUME TypeOK, NEW e \in Ends, NEW f \in Frames
    PROVE  /\ Sent(e, f) \in Seq(Frames)
           /\ IF alive /\ Reading(e)
                THEN /\ Len(Sent(e, f)) = Len(wire[e]) + 1
                     /\ \A i \in 1..Len(wire[e]) : Sent(e, f)[i] = wire[e][i]
                     /\ Sent(e, f)[Len(wire[e]) + 1] = f
                ELSE Sent(e, f) = wire[e]
<1>1. wire[e] \in Seq(Frames)
  BY DEF TypeOK
<1> QED BY <1>1, AppendFacts DEF Sent

(* A new frame.                                                            *)
LEMMA FrameFacts ==
    ASSUME t \in Timings, NEW k \in {"reply", "echo", "ack", "bye", "fin"}, NEW n \in Numbers
    PROVE  /\ Frame(k, n) \in Frames
           /\ Frame(k, n).kind = k /\ Frame(k, n).seq = n /\ Frame(k, n).age = 0
BY TimingFacts DEF Frame, Frames

(* The frame that stands for the end of the stream.                        *)
LEMMA FinFacts ==
    ASSUME t \in Timings
    PROVE  Fin \in Frames /\ Fin.kind = "fin" /\ Fin.age = 0
BY FrameFacts, NumberFacts DEF Fin

(* A frame one tick later.                                                 *)
LEMMA OlderFacts ==
    ASSUME t \in Timings, NEW f \in Frames
    PROVE  /\ Older(f) \in Frames /\ Older(f).kind = f.kind /\ Older(f).seq = f.seq
           /\ Older(f).age = IF f.age < t.delay THEN f.age + 1 ELSE t.delay
BY TimingFacts DEF Older, Frames

-----------------------------------------------------------------------------
(* The steps, with the wires and the functions taken apart.                *)

(* The client reads the reply.                                             *)
LEMMA ReplyEffect ==
    ASSUME TypeOK, Reply
    PROVE  /\ client = "await" /\ client' = "setup"
           /\ Takes("client") /\ Keeps("server")
           /\ wire["client"][1].kind = "reply" /\ wire["client"][1].seq = readSeq["client"]
           /\ readSeq'["client"] = Plus1(readSeq["client"]) /\ readSeq'["server"] = readSeq["server"]
           /\ work'["client"] \in 0..t.setup /\ work'["server"] = work["server"]
           /\ UNCHANGED <<t, server, pen, nonce, writeSeq, isOpen, beat, left, cancelled,
                          alive, why, since>>
BY WireFacts DEF Reply, TypeOK, Ends, Takes, Keeps, Is, Opens, ReadOn

(* The reader of KeepaliveLoop gets an EchoAck.                            *)
LEMMA ClientReadsEffect ==
    ASSUME TypeOK, ClientReads
    PROVE  /\ client = "loop" /\ isOpen
           /\ Takes("client") /\ Keeps("server")
           /\ wire["client"][1].kind = "ack" /\ wire["client"][1].seq = readSeq["client"]
           /\ readSeq'["client"] = Plus1(readSeq["client"]) /\ readSeq'["server"] = readSeq["server"]
           /\ left'["client"] = t.timeout["client"] /\ left'["server"] = left["server"]
           /\ UNCHANGED <<t, client, server, pen, nonce, writeSeq, isOpen, beat, work, cancelled,
                          alive, why, since>>
BY WireFacts DEF ClientReads, TypeOK, Ends, Takes, Keeps, Is, Opens, ReadOn

(* The reader of KeepaliveLoop returns.                                    *)
LEMMA ClientEndsEffect ==
    ASSUME TypeOK, ClientEnds
    PROVE  /\ client = "loop" /\ client' = "ended"
           /\ \/ ~isOpen /\ why'["client"] = "bye"
              \/ isOpen /\ Count("client") > 0 /\ wire["client"][1].kind = "fin"
                 /\ why'["client"] = "eof"
              \/ isOpen /\ Count("client") > 0 /\ wire["client"][1].kind # "fin"
                 /\ wire["client"][1].seq # readSeq["client"] /\ why'["client"] = "garbled"
              \/ isOpen /\ left["client"] = 0 /\ why'["client"] = "timeout"
           /\ why'["server"] = why["server"]
           /\ Empties("client") /\ Keeps("server")
           /\ beat' = 0 /\ left'["client"] = 0 /\ left'["server"] = left["server"]
           /\ UNCHANGED <<t, server, pen, nonce, seqs, isOpen, work, cancelled, alive, since>>
<1>1. /\ \/ ~isOpen /\ why'["client"] = "bye"
         \/ isOpen /\ Count("client") > 0 /\ wire["client"][1].kind = "fin"
            /\ why'["client"] = "eof"
         \/ isOpen /\ Count("client") > 0 /\ wire["client"][1].kind # "fin"
            /\ wire["client"][1].seq # readSeq["client"] /\ why'["client"] = "garbled"
         \/ isOpen /\ left["client"] = 0 /\ why'["client"] = "timeout"
      /\ why'["server"] = why["server"]
  BY WireFacts DEF ClientEnds, TypeOK, Ends, Is, Opens, Broken, Cause, Count
<1> QED BY <1>1 DEF ClientEnds, TypeOK, Ends, Empties, Keeps

(* The closer closes the connection.                                       *)
LEMMA CloseEffect ==
    ASSUME TypeOK, Close
    PROVE  /\ MayClose /\ isOpen' = FALSE
           /\ Gets("server", Fin) /\ Keeps("client")
           /\ UNCHANGED <<t, client, server, pen, nonce, seqs, timer, cancelled, alive, why, since>>
BY SentFacts, FinFacts DEF Close, TypeOK, Ends, Gets, Adds, Keeps

(* dialOnce gives up before KeepaliveLoop.                                 *)
LEMMA SetupFailsEffect ==
    ASSUME TypeOK, SetupFails
    PROVE  /\ client = "setup" /\ client' = "ended" /\ isOpen' = FALSE
           /\ Gets("server", Fin) /\ Empties("client")
           /\ why'["client"] = "bye" /\ why'["server"] = why["server"]
           /\ UNCHANGED <<t, server, pen, nonce, seqs, timer, cancelled, alive, since>>
BY SentFacts, FinFacts DEF SetupFails, TypeOK, Ends, Gets, Adds, Keeps, Empties

(* A writer seals a frame.                                                 *)
LEMMA SealEffect ==
    ASSUME TypeOK, NEW w \in Writers, Seal(w)
    PROVE  /\ pen[w] = "idle" /\ pen'[w] = "sealed" /\ nonce'[w] = writeSeq["client"]
           /\ \A v \in Writers \ {w} : pen'[v] = pen[v] /\ nonce'[v] = nonce[v]
           /\ \/ w = "sender" /\ client = "loop" /\ beat = 0 /\ beat' = t.interval
              \/ w = "closer" /\ client \in {"loop", "ended"} /\ cancelled /\ isOpen /\ beat' = beat
           /\ UNCHANGED <<t, client, server, seqs, wire, isOpen, left, work, cancelled, alive,
                          why, since>>
BY DEF Seal, MaySeal, TypeOK, Writers

(* A writer increments writeSeq, or loses the increment of the other.      *)
LEMMA BumpEffect ==
    ASSUME TypeOK, NEW w \in Writers, Bump(w)
    PROVE  /\ pen[w] = "sealed" /\ pen'[w] = "bumped"
           /\ \A v \in Writers \ {w} : pen'[v] = pen[v]
           /\ writeSeq'["client"] \in {Plus1(writeSeq["client"]), Plus1(nonce[w])}
           /\ writeSeq'["server"] = writeSeq["server"]
           /\ UNCHANGED <<t, client, server, nonce, readSeq, wire, isOpen, timer, cancelled,
                          alive, why, since>>
BY DEF Bump, TypeOK, Writers, Ends

(* A writer writes its frame.                                              *)
LEMMA PutEffect ==
    ASSUME TypeOK, NEW w \in Writers, Put(w)
    PROVE  /\ pen[w] = "bumped" /\ pen'[w] = (IF w = "sender" THEN "idle" ELSE "done")
           /\ \A v \in Writers \ {w} : pen'[v] = pen[v] /\ nonce'[v] = nonce[v]
           /\ IF isOpen THEN Gets("server", Frame(IF w = "sender" THEN "echo" ELSE "bye", nonce[w]))
                        ELSE Keeps("server")
           /\ Keeps("client")
           /\ UNCHANGED <<t, client, server, seqs, isOpen, timer, cancelled, alive, why, since>>
<1> DEFINE f == Frame(IF w = "sender" THEN "echo" ELSE "bye", nonce[w])
<1>1. f \in Frames
  BY FrameFacts DEF TypeOK
<1> HIDE DEF f
<1>2. wire' = IF isOpen THEN [wire EXCEPT !["server"] = Sent("server", f)] ELSE wire
  BY DEF Put, f
<1>3. /\ IF isOpen THEN Gets("server", f) ELSE Keeps("server")
      /\ Keeps("client")
  BY <1>1, <1>2, SentFacts DEF TypeOK, Ends, Gets, Adds, Keeps
<1> QED BY <1>3 DEF Put, TypeOK, Writers, f

(* The server answers an Echo.                                             *)
LEMMA ServerReadsEffect ==
    ASSUME TypeOK, ServerReads
    PROVE  /\ server = "loop"
           /\ wire["server"][1].kind = "echo" /\ wire["server"][1].seq = readSeq["server"]
           /\ Takes("server") /\ Gets("client", Frame("ack", writeSeq["server"]))
           /\ readSeq'["server"] = Plus1(readSeq["server"]) /\ readSeq'["client"] = readSeq["client"]
           /\ left'["server"] = t.timeout["server"] /\ left'["client"] = left["client"]
           /\ writeSeq'["server"] = Plus1(writeSeq["server"])
           /\ writeSeq'["client"] = writeSeq["client"]
           /\ UNCHANGED <<t, client, server, pen, nonce, isOpen, beat, work, cancelled, alive,
                          why, since>>
<1> DEFINE f == Frame("ack", writeSeq["server"])
<1>1. f \in Frames
  BY FrameFacts DEF TypeOK, Ends
<1> HIDE DEF f
<1>2. wire' = [wire EXCEPT !["server"] = Tail(wire["server"]), !["client"] = Sent("client", f)]
  BY DEF ServerReads, f
<1>3. Takes("server") /\ Gets("client", f)
  <2>1. wire'["client"] = Sent("client", f) /\ wire'["server"] = Tail(wire["server"])
    BY <1>2 DEF TypeOK, Ends
  <2>2. Gets("client", f)
    <3>1. "client" \in Ends
      BY DEF Ends
    <3> QED BY <1>1, <2>1, <3>1, SentFacts DEF Gets, Adds, Keeps
  <2>3. Takes("server")
    BY <2>1, WireFacts DEF ServerReads, Ends, Takes
  <2> QED BY <2>2, <2>3
<1>4. wire["server"][1].kind = "echo" /\ wire["server"][1].seq = readSeq["server"]
  BY WireFacts DEF ServerReads, Is, Opens, Ends
<1> QED BY <1>3, <1>4 DEF ServerReads, ReadOn, TypeOK, Ends, f

(* The keepaliveLoop of the server returns.                                *)
LEMMA ServerEndsEffect ==
    ASSUME TypeOK, ServerEnds
    PROVE  /\ server = "loop" /\ server' = "teardown"
           /\ \/ Count("server") > 0 /\ wire["server"][1].kind = "bye"
                 /\ why'["server"] = "bye"
              \/ Count("server") > 0 /\ wire["server"][1].kind = "fin"
                 /\ why'["server"] = "eof"
              \/ Count("server") > 0 /\ wire["server"][1].kind # "fin"
                 /\ wire["server"][1].seq # readSeq["server"] /\ why'["server"] = "garbled"
              \/ left["server"] = 0 /\ why'["server"] = "timeout"
           /\ why'["client"] = why["client"] /\ readSeq'["client"] = readSeq["client"]
           /\ Empties("server") /\ Keeps("client")
           /\ work'["server"] \in 0..t.teardown /\ work'["client"] = work["client"]
           /\ UNCHANGED <<t, client, pen, nonce, writeSeq, isOpen, beat, left, cancelled, alive, since>>
<1>1. /\ \/ Count("server") > 0 /\ wire["server"][1].kind = "bye" /\ why'["server"] = "bye"
         \/ Count("server") > 0 /\ wire["server"][1].kind = "fin" /\ why'["server"] = "eof"
         \/ Count("server") > 0 /\ wire["server"][1].kind # "fin"
            /\ wire["server"][1].seq # readSeq["server"] /\ why'["server"] = "garbled"
         \/ left["server"] = 0 /\ why'["server"] = "timeout"
      /\ why'["client"] = why["client"] /\ readSeq'["client"] = readSeq["client"]
  BY WireFacts DEF ServerEnds, TypeOK, Ends, Is, Opens, Broken, Cause, ReadOn, Count
<1> QED BY <1>1 DEF ServerEnds, TypeOK, Ends, Empties, Keeps

(* The server closes after its teardown.                                   *)
LEMMA ServerClosesEffect ==
    ASSUME TypeOK, ServerCloses
    PROVE  /\ server = "teardown" /\ server' = "closed"
           /\ Gets("client", Fin) /\ Keeps("server")
           /\ UNCHANGED <<t, client, pen, nonce, seqs, isOpen, timer, cancelled, alive, why, since>>
<1>1. wire'["client"] = Sent("client", Fin) /\ wire'["server"] = wire["server"]
  BY DEF ServerCloses, TypeOK, Ends
<1>2. Gets("client", Fin)
  BY <1>1, SentFacts, FinFacts DEF TypeOK, Ends, Gets, Adds, Keeps
<1> QED BY <1>1, <1>2 DEF ServerCloses, Keeps

(* The server is stopped.                                                  *)
LEMMA StopEffect ==
    ASSUME TypeOK, Stop
    PROVE  /\ server = "loop" /\ server' = "closed"
           /\ why'["server"] = "bye" /\ why'["client"] = why["client"]
           /\ Empties("server") /\ Gets("client", Fin)
           /\ UNCHANGED <<t, client, pen, nonce, seqs, isOpen, timer, cancelled, alive, since>>
BY SentFacts, FinFacts DEF Stop, TypeOK, Ends, Gets, Adds, Keeps, Empties

(* The path dies.                                                          *)
LEMMA PathDiesEffect ==
    ASSUME TypeOK, PathDies
    PROVE  /\ alive /\ alive' = FALSE
           /\ Empties("client") /\ Empties("server")
           /\ UNCHANGED <<t, client, server, pen, nonce, seqs, isOpen, timer, cancelled, why, since>>
BY DEF PathDies, Ends, Empties

(* A tick.                                                                 *)
LEMMA TickEffect ==
    ASSUME TypeOK, Tick
    PROVE  /\ Ages("client") /\ Ages("server")
           /\ beat' = (IF client = "loop" THEN Down(beat) ELSE beat)
           /\ left'["client"] = (IF client = "loop" THEN Down(left["client"]) ELSE left["client"])
           /\ left'["server"] = (IF server = "loop" THEN Down(left["server"]) ELSE left["server"])
           /\ work'["client"] = Down(work["client"]) /\ work'["server"] = Down(work["server"])
           /\ \A h \in Events : since'[h] = IF Counts(h) THEN since[h] + 1 ELSE since[h]
           /\ UNCHANGED <<t, client, server, pen, nonce, seqs, isOpen, cancelled, alive, why>>
<1>1. \A e \in Ends : /\ wire'[e] = [i \in 1..Len(wire[e]) |-> Older(wire[e][i])]
                      /\ Len(wire[e]) \in Nat
  BY WireFacts DEF Tick
<1>2. ASSUME NEW e \in Ends PROVE Ages(e)
  <2>1. Len(wire[e]) \in Nat /\ wire'[e] = [i \in 1..Len(wire[e]) |-> Older(wire[e][i])]
    BY <1>1
  <2>2. \A i \in 1..Len(wire[e]) : wire'[e][i] = Older(wire[e][i])
    BY <2>1
  <2>3. Len(wire'[e]) = Len(wire[e])
    BY <2>1
  <2> QED BY <2>2, <2>3 DEF Ages
<1> QED BY <1>2 DEF Tick, Ends, Events

-----------------------------------------------------------------------------
(* The bounds, one by one.                                                 *)
LEMMA BoundFacts ==
    ASSUME t \in Timings
    PROVE  /\ Bound("cancel") = t.setup + 2 * t.delay
           /\ Bound("death") >= t.timeout["server"]
           /\ Bound("death") >= t.setup + t.timeout["client"]
           /\ Bound("end") = t.setup + t.teardown + t.delay
           /\ \A h \in Events : Bound(h) \in Nat
<1>1. /\ Bound("cancel") = t.setup + 2 * t.delay
      /\ Bound("death") = Larger(t.timeout["server"], t.setup + t.timeout["client"])
      /\ Bound("end") = t.setup + t.teardown + t.delay
  BY DEF Bound
<1>2. \A m, n \in Nat : Larger(m, n) \in Nat /\ Larger(m, n) >= m /\ Larger(m, n) >= n
  BY DEF Larger
<1>3. t.timeout["server"] \in Nat /\ t.setup + t.timeout["client"] \in Nat
  BY TimingFacts
<1>4. /\ Bound("death") \in Nat /\ Bound("death") >= t.timeout["server"]
      /\ Bound("death") >= t.setup + t.timeout["client"]
  BY <1>1, <1>2, <1>3
<1>5. Bound("cancel") \in Nat /\ Bound("end") \in Nat
  BY <1>1, TimingFacts
<1> QED BY <1>1, <1>4, <1>5 DEF Events

(* Every variable keeps its type.                                          *)
LEMMA TypeInit == Init => TypeOK
<1> SUFFICES ASSUME Init PROVE TypeOK
  OBVIOUS
<1>1. t \in Timings
  BY DEF Init
<1>2. Frame("reply", 0) \in Frames
  BY <1>1, FrameFacts, NumberFacts
<1>3. wire \in [Ends -> Seq(Frames)]
  BY <1>2 DEF Init
<1>4. since \in [Events -> Nat] /\ \A h \in Events : since[h] <= Bound(h) + 1
  BY <1>1, BoundFacts DEF Init
<1>5. /\ nonce \in [Writers -> Numbers]
      /\ writeSeq \in [Ends -> Numbers] /\ readSeq \in [Ends -> Numbers]
  BY NumberFacts DEF Init
<1>6. /\ beat \in 0..t.interval
      /\ left \in [Ends -> Nat] /\ \A e \in Ends : left[e] <= t.timeout[e]
      /\ work \in [Ends -> Nat] /\ work["client"] <= t.setup /\ work["server"] <= t.teardown
  BY <1>1, TimingFacts DEF Init, Ends
<1> QED BY <1>1, <1>3, <1>4, <1>5, <1>6 DEF Init, TypeOK, Reasons

(* Every step keeps every type.                                            *)
LEMMA TypeStep == ASSUME TypeOK, [Next]_vars PROVE TypeOK'
<1> USE DEF TypeOK
<1>0. ASSUME t' = t PROVE Frames' = Frames /\ Numbers' = Numbers /\ \A h : Bound(h)' = Bound(h)
  BY <1>0 DEF Frames, Bound, Numbers
<1>1. CASE Reply
  <2>1. Tail(wire["client"]) \in Seq(Frames)
    BY <1>1, WireFacts DEF Reply, Ends
  <2>2. wire' \in [Ends -> Seq(Frames)] /\ readSeq' \in [Ends -> Numbers]
    BY <1>1, <2>1, NumberFacts DEF Reply, ReadOn, Ends
  <2>3. work' \in [Ends -> Nat] /\ work'["client"] <= t.setup /\ work'["server"] <= t.teardown
    BY <1>1, TimingFacts DEF Reply, Ends
  <2> QED BY <1>1, <2>2, <2>3, <1>0 DEF Reply
<1>2. CASE NoReply
  BY <1>2, <1>0 DEF NoReply, Reasons, seqs, timer, Ends
<1>3. CASE LoopStarts
  <2>1. left' \in [Ends -> Nat] /\ \A e \in Ends : left'[e] <= t.timeout[e]
    BY <1>3, TimingFacts DEF LoopStarts, Ends
  <2>2. beat' \in 0..t.interval
    BY <1>3, TimingFacts DEF LoopStarts
  <2> QED BY <1>3, <2>1, <2>2, <1>0 DEF LoopStarts, seqs
<1>4. CASE SetupFails
  <2>1. Sent("server", Fin) \in Seq(Frames) /\ <<>> \in Seq(Frames)
    BY SentFacts, FinFacts DEF Ends
  <2>2. wire' \in [Ends -> Seq(Frames)]
    BY <1>4, <2>1 DEF SetupFails, Ends
  <2> QED BY <1>4, <2>2, <1>0 DEF SetupFails, Reasons, seqs, timer, Ends
<1>5. CASE Close
  <2>1. Sent("server", Fin) \in Seq(Frames)
    BY SentFacts, FinFacts DEF Ends
  <2>2. wire' \in [Ends -> Seq(Frames)]
    BY <1>5, <2>1 DEF Close, Ends
  <2> QED BY <1>5, <2>2, <1>0 DEF Close, seqs, timer
<1>6. CASE ClientReads
  <2>1. Tail(wire["client"]) \in Seq(Frames)
    BY <1>6, WireFacts DEF ClientReads, Ends
  <2>2. wire' \in [Ends -> Seq(Frames)] /\ readSeq' \in [Ends -> Numbers]
    BY <1>6, <2>1, NumberFacts DEF ClientReads, ReadOn, Ends
  <2>3. left' \in [Ends -> Nat] /\ \A e \in Ends : left'[e] <= t.timeout[e]
    BY <1>6, TimingFacts DEF ClientReads, Ends
  <2> QED BY <1>6, <2>2, <2>3, <1>0 DEF ClientReads
<1>7. CASE ClientEnds
  <2>1. wire' \in [Ends -> Seq(Frames)]
    BY <1>7 DEF ClientEnds, Ends
  <2>2. why' \in [Ends -> Reasons]
    BY <1>7 DEF ClientEnds, Ends, Reasons, Cause
  <2>3. left' \in [Ends -> Nat] /\ \A e \in Ends : left'[e] <= t.timeout[e]
    BY <1>7, TimingFacts DEF ClientEnds, Ends
  <2>4. beat' \in 0..t.interval
    BY <1>7, TimingFacts DEF ClientEnds
  <2> QED BY <1>7, <2>1, <2>2, <2>3, <2>4, <1>0 DEF ClientEnds, seqs
<1>8. ASSUME NEW w \in Writers, Seal(w) PROVE TypeOK'
  <2>1. nonce' \in [Writers -> Numbers] /\ pen' \in [Writers -> {"idle", "sealed", "bumped", "done"}]
    BY <1>8 DEF Seal, Ends
  <2>2. beat' \in 0..t.interval
    BY <1>8, TimingFacts DEF Seal
  <2> QED BY <1>8, <2>1, <2>2, <1>0 DEF Seal, seqs
<1>9. ASSUME NEW w \in Writers, Bump(w) PROVE TypeOK'
  <2>1. writeSeq' \in [Ends -> Numbers]
    BY <1>9, NumberFacts DEF Bump, Ends
  <2> QED BY <1>9, <2>1, <1>0 DEF Bump, timer
<1>10. ASSUME NEW w \in Writers, Put(w) PROVE TypeOK'
  <2> DEFINE f == Frame(IF w = "sender" THEN "echo" ELSE "bye", nonce[w])
  <2>1. f \in Frames
    BY FrameFacts
  <2>2. Sent("server", f) \in Seq(Frames)
    BY <2>1, SentFacts DEF Ends
  <2>3. wire' \in [Ends -> Seq(Frames)]
    BY <1>10, <2>2 DEF Put, Ends
  <2> QED BY <1>10, <2>3, <1>0, NumberFacts DEF Put, seqs, timer
<1>11. CASE ServerReads
  <2> DEFINE f == Frame("ack", writeSeq["server"])
  <2>1. f \in Frames
    BY FrameFacts DEF Ends
  <2>2. Sent("client", f) \in Seq(Frames) /\ Tail(wire["server"]) \in Seq(Frames)
    BY <1>11, <2>1, SentFacts, WireFacts DEF ServerReads, Ends
  <2>3. wire' \in [Ends -> Seq(Frames)]
    BY <1>11, <2>2 DEF ServerReads, Ends
  <2>4. writeSeq' \in [Ends -> Numbers] /\ readSeq' \in [Ends -> Numbers]
    BY <1>11, NumberFacts DEF ServerReads, ReadOn, Ends
  <2>5. left' \in [Ends -> Nat] /\ \A e \in Ends : left'[e] <= t.timeout[e]
    BY <1>11, TimingFacts DEF ServerReads, Ends
  <2> QED BY <1>11, <2>3, <2>4, <2>5, <1>0 DEF ServerReads
<1>12. CASE ServerEnds
  <2>1. wire' \in [Ends -> Seq(Frames)]
    BY <1>12 DEF ServerEnds, Ends
  <2>2. why' \in [Ends -> Reasons]
    BY <1>12 DEF ServerEnds, Ends, Reasons, Cause
  <2>3. readSeq' \in [Ends -> Numbers]
    <3>1. ReadOn("server") \/ UNCHANGED readSeq
      BY <1>12 DEF ServerEnds
    <3> QED BY <3>1, NumberFacts DEF ReadOn, Ends
  <2>4. work' \in [Ends -> Nat] /\ work'["client"] <= t.setup /\ work'["server"] <= t.teardown
    BY <1>12, TimingFacts DEF ServerEnds, Ends
  <2> QED BY <1>12, <2>1, <2>2, <2>3, <2>4, <1>0 DEF ServerEnds
<1>13. CASE ServerCloses
  <2>1. Sent("client", Fin) \in Seq(Frames)
    BY SentFacts, FinFacts DEF Ends
  <2>2. wire' \in [Ends -> Seq(Frames)]
    BY <1>13, <2>1 DEF ServerCloses, Ends
  <2> QED BY <1>13, <2>2, <1>0 DEF ServerCloses, seqs, timer
<1>14. CASE Cancel
  BY <1>14, <1>0 DEF Cancel, seqs, timer
<1>15. CASE Stop
  <2>1. Sent("client", Fin) \in Seq(Frames) /\ <<>> \in Seq(Frames)
    BY SentFacts, FinFacts DEF Ends
  <2>2. wire' \in [Ends -> Seq(Frames)]
    BY <1>15, <2>1 DEF Stop, Ends
  <2>3. why' \in [Ends -> Reasons]
    BY <1>15 DEF Stop, Ends, Reasons
  <2> QED BY <1>15, <2>2, <2>3, <1>0 DEF Stop, seqs, timer
<1>16. CASE PathDies
  <2>1. wire' \in [Ends -> Seq(Frames)]
    BY <1>16 DEF PathDies
  <2> QED BY <1>16, <2>1, <1>0 DEF PathDies, seqs, timer
<1>17. CASE Tick
  <2>1. ASSUME NEW e \in Ends PROVE wire'[e] \in Seq(Frames)
    <3>1. /\ wire'[e] = [i \in 1..Len(wire[e]) |-> Older(wire[e][i])] /\ Len(wire[e]) \in Nat
          /\ \A i \in 1..Len(wire[e]) : wire[e][i] \in Frames
      BY <1>17, <2>1, WireFacts DEF Tick
    <3>2. \A i \in 1..Len(wire[e]) : Older(wire[e][i]) \in Frames
      BY <3>1, OlderFacts
    <3> QED BY <3>1, <3>2
  <2>2. wire' \in [Ends -> Seq(Frames)]
    BY <1>17, <2>1 DEF Tick
  <2>3. since' \in [Events -> Nat] /\ \A h \in Events : since'[h] <= Bound(h) + 1
    <3>1. ASSUME NEW h \in Events PROVE since'[h] \in Nat /\ since'[h] <= Bound(h) + 1
      <4>1. /\ since'[h] = IF Counts(h) THEN since[h] + 1 ELSE since[h]
            /\ Counts(h) => since[h] <= Bound(h)
        BY <1>17 DEF Tick, Counts
      <4>2. Bound(h) \in Nat /\ since[h] \in Nat /\ since[h] <= Bound(h) + 1
        BY BoundFacts
      <4> HIDE DEF TypeOK
      <4> QED BY <4>1, <4>2
    <3>2. since' = [h \in Events |-> since'[h]]
      BY <1>17 DEF Tick
    <3> HIDE DEF TypeOK
    <3> QED BY <3>1, <3>2
  <2>4. left' \in [Ends -> Nat] /\ \A e \in Ends : left'[e] <= t.timeout[e]
    <3>1. ASSUME NEW e \in Ends PROVE left'[e] \in Nat /\ left'[e] <= t.timeout[e]
      <4>1. left'[e] \in {left[e], Down(left[e])}
        BY <1>17, <3>1 DEF Tick
      <4>2. left[e] \in Nat /\ t.timeout[e] \in Nat /\ left[e] <= t.timeout[e]
        BY <3>1, TimingFacts
      <4> HIDE DEF TypeOK
      <4> QED BY <4>1, <4>2 DEF Down
    <3>2. left' = [e \in Ends |-> left'[e]]
      BY <1>17 DEF Tick
    <3> HIDE DEF TypeOK
    <3> QED BY <3>1, <3>2
  <2>5. work' \in [Ends -> Nat] /\ work'["client"] <= t.setup /\ work'["server"] <= t.teardown
    <3>1. /\ work["client"] \in Nat /\ work["server"] \in Nat
          /\ work["client"] <= t.setup /\ work["server"] <= t.teardown
          /\ t.setup \in Nat /\ t.teardown \in Nat
      BY TimingFacts DEF Ends
    <3>2. work' = [e \in Ends |-> Down(work[e])]
      BY <1>17 DEF Tick
    <3> HIDE DEF TypeOK
    <3> QED BY <3>1, <3>2 DEF Down, Ends
  <2>6. beat' \in 0..t.interval
    BY <1>17, TimingFacts DEF Tick, Down
  <2> QED BY <1>17, <2>2, <2>3, <2>4, <2>5, <2>6, <1>0 DEF Tick, seqs
<1>18. CASE UNCHANGED vars
  BY <1>18, <1>0 DEF vars, seqs, timer
<1> QED BY <1>1, <1>2, <1>3, <1>4, <1>5, <1>6, <1>7, <1>8, <1>9, <1>10, <1>11, <1>12, <1>13,
           <1>14, <1>15, <1>16, <1>17, <1>18 DEF Next

-----------------------------------------------------------------------------
(* What the arguments below see of a wire.                                 *)
FirstAge(e) == wire[e][1].age
LastAge(e) == wire[e][Len(wire[e])].age
LastKind(e) == wire[e][Len(wire[e])].kind
Without(e, k) == \A i \in 1..Len(wire[e]) : wire[e][i].kind # k

(* A frame is never older than one sent before it.                         *)
Sorted(e) == \A i, j \in 1..Len(wire[e]) : i <= j => wire[e][j].age <= wire[e][i].age

(* Frames carry successive numbers, beginning with the one the reader      *)
(* expects.                                                                *)
Chain(e) ==
    \A i \in 1..Len(wire[e]) :
        wire[e][i].kind # "fin" =>
            wire[e][i].seq = IF i = 1 THEN readSeq[e] ELSE Plus1(wire[e][i - 1].seq)

(* The number the reader expects after what is on the wire.                *)
Expected(e) == IF Len(wire[e]) = 0 THEN readSeq[e] ELSE Plus1(wire[e][Len(wire[e])].seq)

(* The view of a wire and its frames.                                      *)
LEMMA ViewFacts ==
    ASSUME TypeOK, NEW e \in Ends
    PROVE  /\ Count(e) \in Nat
           /\ Count(e) > 0 =>
                 /\ FirstAge(e) \in 0..t.delay /\ LastAge(e) \in 0..t.delay
                 /\ Sorted(e) => LastAge(e) <= FirstAge(e)
                 /\ Count(e) = 1 => LastKind(e) = wire[e][1].kind
                 /\ Chain(e) => wire[e][1].kind = "fin" \/ wire[e][1].seq = readSeq[e]
                 /\ \A k : Without(e, k) => wire[e][1].kind # k
<1>1. /\ Len(wire[e]) \in Nat
      /\ \A i \in 1..Len(wire[e]) : wire[e][i].age \in 0..t.delay
  BY WireFacts
<1>2. ASSUME Len(wire[e]) > 0
      PROVE  1 \in 1..Len(wire[e]) /\ Len(wire[e]) \in 1..Len(wire[e]) /\ 1 <= Len(wire[e])
  BY <1>1, <1>2
<1>3. ASSUME Len(wire[e]) > 0
      PROVE  /\ FirstAge(e) \in 0..t.delay /\ LastAge(e) \in 0..t.delay
             /\ Sorted(e) => LastAge(e) <= FirstAge(e)
  BY <1>1, <1>2, <1>3 DEF FirstAge, LastAge, Sorted
<1>4. ASSUME Len(wire[e]) > 0
      PROVE  Chain(e) => wire[e][1].kind = "fin" \/ wire[e][1].seq = readSeq[e]
  BY <1>2, <1>4 DEF Chain
<1>5. ASSUME Len(wire[e]) > 0 PROVE \A k : Without(e, k) => wire[e][1].kind # k
  BY <1>2, <1>5 DEF Without
<1>6. Len(wire[e]) = 1 => LastKind(e) = wire[e][1].kind
  BY DEF LastKind
<1> QED BY <1>1, <1>3, <1>4, <1>5, <1>6 DEF Count

-----------------------------------------------------------------------------
(* What a step does to a wire, in those terms.                             *)
Same(e) ==
    /\ Count(e)' = Count(e)
    /\ FirstAge(e)' = FirstAge(e) /\ LastAge(e)' = LastAge(e) /\ LastKind(e)' = LastKind(e)
    /\ Without(e, "bye") => Without(e, "bye")'
    /\ Without(e, "fin") => Without(e, "fin")'
    /\ Sorted(e) => Sorted(e)'
    /\ Chain(e) => Chain(e)'
    /\ Expected(e)' = Expected(e)

(* A wire nobody touches.                                                  *)
LEMMA SameView ==
    ASSUME NEW e, wire'[e] = wire[e], readSeq'[e] = readSeq[e]
    PROVE  Same(e)
<1>1. FirstAge(e)' = FirstAge(e) /\ LastAge(e)' = LastAge(e) /\ LastKind(e)' = LastKind(e)
  BY DEF FirstAge, LastAge, LastKind
<1>2. /\ Without(e, "bye") => Without(e, "bye")'
      /\ Without(e, "fin") => Without(e, "fin")'
      /\ Sorted(e) => Sorted(e)'
  BY DEF Without, Sorted
<1>3. Chain(e) => Chain(e)'
  BY DEF Chain
<1>4. Expected(e)' = Expected(e)
  BY DEF Expected
<1> QED BY <1>1, <1>2, <1>3, <1>4 DEF Same, Count

(* The wire is dropped.                                                    *)
Emptied(e) ==
    /\ Count(e)' = 0
    /\ Without(e, "bye")' /\ Without(e, "fin")' /\ Sorted(e)' /\ Chain(e)'

(* A wire is dropped.                                                      *)
LEMMA EmptiedView ==
    ASSUME NEW e, Empties(e)
    PROVE  Emptied(e)
<1>1. Len(wire'[e]) = 0 /\ ~ \E i \in 1..0 : TRUE
  BY DEF Empties
<1>2. Without(e, "bye")' /\ Without(e, "fin")'
  BY <1>1 DEF Without
<1>3. Sorted(e)'
  BY <1>1 DEF Sorted
<1>4. Chain(e)'
  BY <1>1 DEF Chain
<1> QED BY <1>1, <1>2, <1>3, <1>4 DEF Emptied, Count

(* The first frame is read, with the number the reader expects.            *)
Taken(e) ==
    /\ Count(e) > 0 /\ Count(e)' = Count(e) - 1
    /\ Count(e) > 1 => /\ FirstAge(e)' \in 0..t.delay
                           /\ LastAge(e)' = LastAge(e) /\ LastKind(e)' = LastKind(e)
    /\ Without(e, "bye") => Without(e, "bye")'
    /\ Without(e, "fin") => Without(e, "fin")'
    /\ Sorted(e) => Sorted(e)'
    /\ Chain(e) => Chain(e)'
    /\ Expected(e)' = Expected(e)

(* Reading the frame that is expected keeps chain and order.               *)
LEMMA TakenView ==
    ASSUME TypeOK, NEW e \in Ends, Takes(e), wire[e][1].seq = readSeq[e],
           readSeq'[e] = Plus1(readSeq[e])
    PROVE  Taken(e)
<1> DEFINE n == Len(wire[e])
<1>1. /\ n \in Nat /\ n > 0 /\ Len(wire'[e]) = n - 1
      /\ \A i \in 1..(n - 1) : wire'[e][i] = wire[e][i + 1]
      /\ \A i \in 1..n : wire[e][i].age \in 0..t.delay
  BY WireFacts DEF Takes
<1> HIDE DEF n
<1>2. ASSUME n > 1
      PROVE  /\ FirstAge(e)' \in 0..t.delay
             /\ LastAge(e)' = LastAge(e) /\ LastKind(e)' = LastKind(e)
  <2>1. wire'[e][1] = wire[e][2] /\ 2 \in 1..n
    BY <1>1, <1>2
  <2>2. wire'[e][n - 1] = wire[e][n]
    BY <1>1, <1>2
  <2> QED BY <1>1, <2>1, <2>2 DEF FirstAge, LastAge, LastKind, n
<1>3. /\ Without(e, "bye") => Without(e, "bye")'
      /\ Without(e, "fin") => Without(e, "fin")'
  BY <1>1 DEF Without, n
<1>4. Sorted(e) => Sorted(e)'
  <2> SUFFICES ASSUME Sorted(e), NEW i \in 1..(n - 1), NEW j \in 1..(n - 1), i <= j
               PROVE  wire'[e][j].age <= wire'[e][i].age
    BY <1>1 DEF Sorted
  <2>1. i + 1 \in 1..n /\ j + 1 \in 1..n /\ i + 1 <= j + 1
    BY <1>1
  <2>2. wire[e][j + 1].age <= wire[e][i + 1].age
    BY <2>1 DEF Sorted, n
  <2> QED BY <1>1, <2>2
<1>5. Chain(e) => Chain(e)'
  <2> SUFFICES ASSUME Chain(e), NEW i \in 1..(n - 1), wire'[e][i].kind # "fin"
               PROVE  wire'[e][i].seq = IF i = 1 THEN readSeq'[e] ELSE Plus1(wire'[e][i - 1].seq)
    BY <1>1 DEF Chain
  <2>1. i + 1 \in 1..n /\ i + 1 # 1 /\ (i + 1) - 1 = i /\ wire'[e][i] = wire[e][i + 1]
    BY <1>1
  <2>2. wire[e][i + 1].seq = Plus1(wire[e][i].seq)
    BY <2>1 DEF Chain, n
  <2>3. CASE i = 1
    BY <2>1, <2>2, <2>3
  <2>4. CASE i # 1
    <3>1. i - 1 \in 1..(n - 1) /\ (i - 1) + 1 = i
      BY <1>1, <2>4
    <3>2. wire'[e][i - 1] = wire[e][i]
      BY <1>1, <3>1
    <3> QED BY <2>1, <2>2, <2>4, <3>2
  <2> QED BY <2>3, <2>4
<1>6. Expected(e)' = Expected(e)
  <2>1. CASE n = 1
    BY <1>1, <2>1 DEF Expected, n
  <2>2. CASE n # 1
    <3>1. n > 1 /\ n - 1 # 0 /\ n # 0 /\ wire'[e][n - 1] = wire[e][n]
      BY <1>1, <2>2
    <3> QED BY <1>1, <3>1 DEF Expected, n
  <2> QED BY <2>1, <2>2
<1> QED BY <1>1, <1>2, <1>3, <1>4, <1>5, <1>6 DEF Taken, n, Count

(* A frame is sent.                                                        *)
Added(e, kind, seq) ==
    /\ Count(e)' = Count(e) + 1
    /\ FirstAge(e)' = IF Count(e) = 0 THEN 0 ELSE FirstAge(e)
    /\ LastAge(e)' = 0 /\ LastKind(e)' = kind
    /\ Without(e, "bye") /\ kind # "bye" => Without(e, "bye")'
    /\ Without(e, "fin") /\ kind # "fin" => Without(e, "fin")'
    /\ Sorted(e) => Sorted(e)'
    /\ Chain(e) /\ (kind = "fin" \/ seq = Expected(e)) => Chain(e)'
    /\ Expected(e)' = Plus1(seq)

(* A frame with the number expected next keeps chain and order.            *)
LEMMA AddedView ==
    ASSUME TypeOK, NEW e \in Ends, NEW f \in Frames, f.age = 0, Adds(e, f),
           readSeq'[e] = readSeq[e]
    PROVE  Added(e, f.kind, f.seq)
<1> DEFINE n == Len(wire[e])
<1>1. /\ n \in Nat /\ Len(wire'[e]) = n + 1
      /\ \A i \in 1..n : wire'[e][i] = wire[e][i]
      /\ wire'[e][n + 1] = f
      /\ \A i \in 1..n : wire[e][i].age \in 0..t.delay
  BY WireFacts DEF Adds
<1>0. t.delay \in Nat
  BY TimingFacts DEF TypeOK
<1> HIDE DEF n
<1>2. LastAge(e)' = 0 /\ LastKind(e)' = f.kind
  BY <1>1 DEF LastAge, LastKind
<1>3. FirstAge(e)' = IF n = 0 THEN 0 ELSE FirstAge(e)
  <2>1. CASE n = 0
    BY <1>1, <2>1 DEF FirstAge
  <2>2. CASE n # 0
    <3>1. wire'[e][1] = wire[e][1]
      BY <1>1, <2>2
    <3> QED BY <2>2, <3>1 DEF FirstAge
  <2> QED BY <2>1, <2>2
<1>4. ASSUME NEW i \in 1..(n + 1) PROVE i \in 1..n \/ i = n + 1
  BY <1>1
<1>5. /\ Without(e, "bye") /\ f.kind # "bye" => Without(e, "bye")'
      /\ Without(e, "fin") /\ f.kind # "fin" => Without(e, "fin")'
  BY <1>1, <1>4 DEF Without, n
<1>6. Sorted(e) => Sorted(e)'
  <2> SUFFICES ASSUME Sorted(e), NEW i \in 1..(n + 1), NEW j \in 1..(n + 1), i <= j
               PROVE  wire'[e][j].age <= wire'[e][i].age
    BY <1>1 DEF Sorted
  <2>1. CASE j = n + 1
    <3>1. wire'[e][j].age = 0
      BY <1>1, <2>1
    <3>2. wire'[e][i].age \in 0..t.delay
      BY <1>0, <1>1, <1>4
    <3> QED BY <1>0, <3>1, <3>2
  <2>2. CASE j \in 1..n
    <3>1. i \in 1..n
      BY <1>1, <2>2
    <3> QED BY <1>1, <2>2, <3>1 DEF Sorted, n
  <2> QED BY <1>4, <2>1, <2>2
<1>7. Chain(e) /\ (f.kind = "fin" \/ f.seq = Expected(e)) => Chain(e)'
  <2> SUFFICES ASSUME Chain(e), f.kind = "fin" \/ f.seq = Expected(e), NEW i \in 1..(n + 1),
                      wire'[e][i].kind # "fin"
               PROVE  wire'[e][i].seq = IF i = 1 THEN readSeq'[e] ELSE Plus1(wire'[e][i - 1].seq)
    BY <1>1 DEF Chain
  <2>1. i # 1 => i - 1 \in 1..n /\ wire'[e][i - 1] = wire[e][i - 1]
    BY <1>1
  <2>2. CASE i \in 1..n
    BY <1>1, <2>1, <2>2 DEF Chain, n
  <2>3. CASE i = n + 1
    <3>1. f.seq = Expected(e) /\ wire'[e][i] = f /\ i - 1 = n /\ (i = 1 <=> n = 0)
      BY <1>1, <2>3
    <3> QED BY <2>1, <3>1 DEF Expected, n
  <2> QED BY <1>4, <2>2, <2>3
<1>8. Expected(e)' = Plus1(f.seq)
  BY <1>1 DEF Expected
<1> QED BY <1>1, <1>2, <1>3, <1>5, <1>6, <1>7, <1>8 DEF Added, n, Count

(* A frame is sent to an end that may no longer read.                      *)
Sends(e, kind, seq) == IF alive /\ Reading(e) THEN Added(e, kind, seq) ELSE Same(e)

(* A write, whether or not somebody reads.                                 *)
LEMMA SendsView ==
    ASSUME TypeOK, NEW e \in Ends, NEW f \in Frames, f.age = 0, Gets(e, f),
           readSeq'[e] = readSeq[e]
    PROVE  Sends(e, f.kind, f.seq)
BY AddedView, SameView DEF Gets, Sends, Keeps

(* Time passes.                                                            *)
Grown(a) == IF a < t.delay THEN a + 1 ELSE t.delay

(* Every frame grows older.                                                *)
Aged(e) ==
    /\ Count(e)' = Count(e)
    /\ Count(e) > 0 => /\ FirstAge(e)' = Grown(FirstAge(e))
                           /\ LastAge(e)' = Grown(LastAge(e))
                           /\ LastKind(e)' = LastKind(e)
    /\ Without(e, "bye") => Without(e, "bye")'
    /\ Without(e, "fin") => Without(e, "fin")'
    /\ Sorted(e) => Sorted(e)'
    /\ Chain(e) => Chain(e)'
    /\ Expected(e)' = Expected(e)

(* A tick keeps chain and order.                                           *)
LEMMA AgedView ==
    ASSUME TypeOK, NEW e \in Ends, Ages(e), readSeq' = readSeq
    PROVE  Aged(e)
<1> DEFINE n == Len(wire[e])
<1>0. t \in Timings /\ t.delay \in Nat
  BY TimingFacts DEF TypeOK
<1>1. /\ n \in Nat /\ Len(wire'[e]) = n
      /\ \A i \in 1..n : wire[e][i] \in Frames /\ wire[e][i].age \in 0..t.delay
      /\ \A i \in 1..n : wire'[e][i] = Older(wire[e][i])
  BY WireFacts DEF Ages
<1> HIDE DEF n
<1>2. ASSUME NEW i \in 1..n
      PROVE  /\ wire'[e][i].kind = wire[e][i].kind /\ wire'[e][i].seq = wire[e][i].seq
             /\ wire'[e][i].age = Grown(wire[e][i].age)
  BY <1>0, <1>1, OlderFacts DEF Grown
<1>3. ASSUME n > 0 PROVE 1 \in 1..n /\ n \in 1..n
  BY <1>1, <1>3
<1>4. n > 0 => /\ FirstAge(e)' = Grown(FirstAge(e)) /\ LastAge(e)' = Grown(LastAge(e))
               /\ LastKind(e)' = LastKind(e)
  BY <1>1, <1>2, <1>3 DEF FirstAge, LastAge, LastKind, n
<1>5. /\ Without(e, "bye") => Without(e, "bye")'
      /\ Without(e, "fin") => Without(e, "fin")'
  BY <1>1, <1>2 DEF Without, n
<1>6. Sorted(e) => Sorted(e)'
  <2> SUFFICES ASSUME Sorted(e), NEW i \in 1..n, NEW j \in 1..n, i <= j
               PROVE  wire'[e][j].age <= wire'[e][i].age
    BY <1>1 DEF Sorted
  <2>1. \A a, b \in 0..t.delay : a <= b => Grown(a) <= Grown(b)
    BY <1>0 DEF Grown
  <2>2. wire[e][j].age <= wire[e][i].age
    BY DEF Sorted, n
  <2> QED BY <1>1, <1>2, <2>1, <2>2
<1>7. Chain(e) => Chain(e)'
  <2> SUFFICES ASSUME Chain(e), NEW i \in 1..n, wire'[e][i].kind # "fin"
               PROVE  wire'[e][i].seq = IF i = 1 THEN readSeq'[e] ELSE Plus1(wire'[e][i - 1].seq)
    BY <1>1 DEF Chain
  <2>1. i # 1 => i - 1 \in 1..n
    BY <1>1
  <2>2. wire[e][i].seq = IF i = 1 THEN readSeq[e] ELSE Plus1(wire[e][i - 1].seq)
    BY <1>2 DEF Chain, n
  <2> QED BY <1>2, <2>1, <2>2
<1>8. Expected(e)' = Expected(e)
  <2>1. CASE n = 0
    BY <1>1, <2>1 DEF Expected, n
  <2>2. CASE n # 0
    <3>1. n \in 1..n
      BY <1>1, <2>2
    <3>2. wire'[e][n].seq = wire[e][n].seq
      BY <1>2, <3>1
    <3> QED BY <1>1, <2>2, <3>2 DEF Expected, n
  <2> QED BY <2>1, <2>2
<1> QED BY <1>1, <1>4, <1>5, <1>6, <1>7, <1>8 DEF Aged, n, Count

-----------------------------------------------------------------------------
(* The remaining steps, taken apart like the others.                       *)
LEMMA NoReplyEffect ==
    ASSUME TypeOK, NoReply
    PROVE  /\ client = "await" /\ ~alive /\ client' = "ended" /\ isOpen' = FALSE
           /\ why'["client"] = "timeout" /\ why'["server"] = why["server"]
           /\ UNCHANGED <<t, server, pen, nonce, seqs, wire, timer, cancelled, alive, since>>
BY DEF NoReply, TypeOK, Ends

(* KeepaliveLoop starts.                                                   *)
LEMMA LoopStartsEffect ==
    ASSUME TypeOK, LoopStarts
    PROVE  /\ client = "setup" /\ work["client"] = 0 /\ client' = "loop" /\ beat' = t.interval
           /\ left'["client"] = t.timeout["client"] /\ left'["server"] = left["server"]
           /\ UNCHANGED <<t, server, pen, nonce, seqs, wire, isOpen, work, cancelled, alive,
                          why, since>>
BY DEF LoopStarts, TypeOK, Ends

(* What the steps do to the wires.                                         *)
LEMMA TwoEnds == "client" \in Ends /\ "server" \in Ends
BY DEF Ends

(* The wires when the client reads the reply.                              *)
LEMMA ReplyView == ASSUME TypeOK, Reply PROVE Taken("client") /\ Same("server")
BY ReplyEffect, TakenView, SameView, TwoEnds DEF Keeps

(* The wires in a step that neither reads nor writes.                      *)
LEMMA StillView == ASSUME wire' = wire, readSeq' = readSeq PROVE Same("client") /\ Same("server")
BY SameView

(* The wires when the client reads an EchoAck.                             *)
LEMMA ClientReadsView == ASSUME TypeOK, ClientReads PROVE Taken("client") /\ Same("server")
BY ClientReadsEffect, TakenView, SameView, TwoEnds DEF Keeps

(* The wires when the reader of the client returns.                        *)
LEMMA ClientEndsView == ASSUME TypeOK, ClientEnds PROVE Emptied("client") /\ Same("server")
BY ClientEndsEffect, EmptiedView, SameView DEF Keeps, seqs

(* What a closing end sends.                                               *)
LEMMA FinView ==
    ASSUME TypeOK, NEW e \in Ends, Gets(e, Fin), readSeq'[e] = readSeq[e]
    PROVE  Sends(e, "fin", Fin.seq)
<1>1. Fin \in Frames /\ Fin.kind = "fin" /\ Fin.age = 0
  BY FinFacts DEF TypeOK
<1>2. Sends(e, Fin.kind, Fin.seq)
  BY <1>1, SendsView
<1> QED BY <1>1, <1>2

(* The wires when the closer closes.                                       *)
LEMMA CloseView == ASSUME TypeOK, Close PROVE Sends("server", "fin", Fin.seq) /\ Same("client")
BY CloseEffect, FinView, SameView, TwoEnds DEF Keeps, seqs

(* The wires when dialOnce gives up.                                       *)
LEMMA SetupFailsView ==
    ASSUME TypeOK, SetupFails
    PROVE  Sends("server", "fin", Fin.seq) /\ Emptied("client")
BY SetupFailsEffect, FinView, EmptiedView, TwoEnds DEF seqs

(* The wires when a writer writes.                                         *)
LEMMA PutView ==
    ASSUME TypeOK, NEW w \in Writers, Put(w)
    PROVE  /\ Same("client")
           /\ IF isOpen THEN Sends("server", IF w = "sender" THEN "echo" ELSE "bye", nonce[w])
                        ELSE Same("server")
<1> DEFINE k == IF w = "sender" THEN "echo" ELSE "bye"
<1>1. t \in Timings /\ k \in {"reply", "echo", "ack", "bye", "fin"} /\ nonce[w] \in Numbers
  BY DEF TypeOK
<1>2. readSeq'["client"] = readSeq["client"] /\ readSeq'["server"] = readSeq["server"]
  BY PutEffect DEF seqs
<1>3. /\ Keeps("client")
      /\ IF isOpen THEN Gets("server", Frame(k, nonce[w])) ELSE Keeps("server")
  BY PutEffect
<1> HIDE DEF k
<1>4. /\ Frame(k, nonce[w]) \in Frames /\ Frame(k, nonce[w]).kind = k
      /\ Frame(k, nonce[w]).seq = nonce[w] /\ Frame(k, nonce[w]).age = 0
  BY <1>1, FrameFacts
<1> DEFINE f == Frame(k, nonce[w])
<1> HIDE DEF f
<1>5. Gets("server", f) => Sends("server", f.kind, f.seq)
  BY <1>2, <1>4, SendsView, TwoEnds DEF f
<1>6. Keeps("client") => Same("client")
  BY <1>2, SameView DEF Keeps
<1>7. Keeps("server") => Same("server")
  BY <1>2, SameView DEF Keeps
<1>8. IF isOpen THEN Sends("server", k, nonce[w]) ELSE Same("server")
  BY <1>3, <1>4, <1>5, <1>7 DEF f
<1> QED BY <1>3, <1>6, <1>8 DEF k

(* The wires when the server answers.                                      *)
LEMMA ServerReadsView ==
    ASSUME TypeOK, ServerReads
    PROVE  Taken("server") /\ Sends("client", "ack", writeSeq["server"])
<1> DEFINE f == Frame("ack", writeSeq["server"])
<1>1. f \in Frames /\ f.kind = "ack" /\ f.seq = writeSeq["server"] /\ f.age = 0
  BY FrameFacts, TwoEnds DEF TypeOK
<1>2. Gets("client", f) /\ readSeq'["client"] = readSeq["client"]
  BY ServerReadsEffect
<1> HIDE DEF f
<1>3. Sends("client", f.kind, f.seq)
  BY <1>1, <1>2, SendsView, TwoEnds
<1>4. Taken("server")
  BY ServerReadsEffect, TakenView, TwoEnds
<1> QED BY <1>1, <1>3, <1>4

(* The wires when the loop of the server returns.                          *)
LEMMA ServerEndsView == ASSUME TypeOK, ServerEnds PROVE Emptied("server") /\ Same("client")
BY ServerEndsEffect, EmptiedView, SameView DEF Keeps

(* The wires when the server closes.                                       *)
LEMMA ServerClosesView ==
    ASSUME TypeOK, ServerCloses
    PROVE  Sends("client", "fin", Fin.seq) /\ Same("server")
BY ServerClosesEffect, FinView, SameView, TwoEnds DEF Keeps, seqs

(* The wires when the server is stopped.                                   *)
LEMMA StopView ==
    ASSUME TypeOK, Stop
    PROVE  Sends("client", "fin", Fin.seq) /\ Emptied("server")
BY StopEffect, FinView, EmptiedView, TwoEnds DEF seqs

(* The wires of a dead path.                                               *)
LEMMA PathDiesView == ASSUME TypeOK, PathDies PROVE Emptied("client") /\ Emptied("server")
BY PathDiesEffect, EmptiedView

(* The wires after a tick.                                                 *)
LEMMA TickView == ASSUME TypeOK, Tick PROVE Aged("client") /\ Aged("server")
BY TickEffect, AgedView, TwoEnds DEF seqs

(* The numbers in a state.                                                 *)
LEMMA LinkFacts ==
    ASSUME TypeOK
    PROVE  /\ left["client"] \in Nat /\ left["server"] \in Nat
           /\ left["client"] <= t.timeout["client"] /\ left["server"] <= t.timeout["server"]
           /\ work["client"] \in Nat /\ work["client"] <= t.setup
           /\ beat \in Nat /\ beat <= t.interval
           /\ t.interval \in Nat /\ t.delay \in Nat /\ t.setup \in Nat /\ t.teardown \in Nat
           /\ t.timeout["client"] \in Nat /\ t.timeout["server"] \in Nat
           /\ t.interval + 2 * t.delay < t.timeout["client"]
           /\ t.setup + t.interval + 2 * t.delay < t.timeout["server"]
<1>2. t \in Timings
  BY DEF TypeOK
<1>3. /\ left["client"] \in Nat /\ left["server"] \in Nat
      /\ left["client"] <= t.timeout["client"] /\ left["server"] <= t.timeout["server"]
      /\ work["client"] \in Nat /\ work["client"] <= t.setup
  BY TwoEnds DEF TypeOK
<1>4. beat \in Nat /\ beat <= t.interval
  BY <1>2, TimingFacts DEF TypeOK
<1>5. t.interval \in Nat
  BY <1>2, TimingFacts
<1> QED BY <1>2, <1>3, <1>4, <1>5, TimingFacts

(* The places in a state.                                                  *)
LEMMA PlaceFacts ==
    ASSUME TypeOK
    PROVE  /\ client \in {"await", "setup", "loop", "ended"}
           /\ server \in {"loop", "teardown", "closed"}
           /\ pen["sender"] \in {"idle", "sealed", "bumped", "done"}
           /\ pen["closer"] \in {"idle", "sealed", "bumped", "done"}
BY DEF TypeOK, Writers

-----------------------------------------------------------------------------
(* Where each goroutine is and what of it may be seen on the wires.        *)
PhaseInv ==
    /\ ~alive \/ client = "ended" => Count("client") = 0
    /\ ~alive \/ server # "loop" => Count("server") = 0
    /\ client \in {"await", "setup"} =>
          /\ isOpen /\ pen["sender"] = "idle" /\ pen["closer"] = "idle"
          /\ Count("server") = 0
    /\ alive /\ client = "await" => Count("client") > 0
    /\ pen["closer"] # "idle" => cancelled
    /\ pen["sender"] # "done"
    /\ why["client"] = "none" <=> client # "ended"
    /\ why["server"] = "none" <=> server = "loop"

(* Who has closed the connection, and that the other end gets to know.     *)
FinInv ==
    /\ pen["closer"] # "done" => Without("server", "bye")
    /\ isOpen => Without("server", "fin")
    /\ alive /\ server = "loop" /\ ~isOpen => Count("server") > 0 /\ LastKind("server") = "fin"
    /\ alive /\ server = "closed" /\ client # "ended" =>
          Count("client") > 0 /\ LastKind("client") = "fin"
    /\ alive /\ server = "teardown" => ~isOpen \/ pen["closer"] # "idle"

(* The server's frames always open, the client's as long as the closer has *)
(* not written.                                                            *)
ChainInv ==
    /\ Chain("client")
    /\ alive /\ server = "loop" /\ client # "ended" => Expected("client") = writeSeq["server"]
    /\ pen["closer"] = "idle" =>
          /\ Chain("server")
          /\ pen["sender"] = "sealed" => nonce["sender"] = writeSeq["client"]
          /\ pen["sender"] = "bumped" => writeSeq["client"] = Plus1(nonce["sender"])
          /\ alive /\ server = "loop" /\ isOpen =>
                Expected("server") = IF pen["sender"] = "bumped" THEN nonce["sender"]
                                                                 ELSE writeSeq["client"]
    /\ why["client"] # "garbled"
    /\ why["server"] = "garbled" => cancelled

(* The path keeps the order.                                               *)
AgeInv == Sorted("client") /\ Sorted("server")

(* When the next keepalive is sealed, if no writer delays it.              *)
NextBeat == IF pen["sender"] = "idle" THEN beat ELSE 0

(* The next frame is at the server before its deadline.                    *)
ServerDeadline ==
    alive /\ server = "loop" =>
        IF Count("server") > 0
          THEN left["server"] + FirstAge("server") > t.delay
          ELSE /\ client = "await" => left["server"] + FirstAge("client") >= t.timeout["server"]
               /\ client = "setup" =>
                     left["server"] + t.delay + t.setup >= t.timeout["server"] + work["client"]
               /\ client \in {"loop", "ended"} => left["server"] > t.delay + NextBeat

(* The next frame, or the answer to the next keepalive, is at the client   *)
(* before its deadline.                                                    *)
ClientDeadline ==
    alive /\ client = "loop" /\ isOpen =>
        /\ left["client"] > 0
        /\ pen["closer"] = "idle" =>
              IF Count("client") > 0
                THEN left["client"] + FirstAge("client") > t.delay
                ELSE IF Count("server") > 0
                       THEN left["client"] + FirstAge("server") > 2 * t.delay
                       ELSE left["client"] > 2 * t.delay + NextBeat

(* What is left of the deadlines after the path died.                      *)
DeathInv ==
    /\ alive => since["death"] = 0
    /\ ~alive /\ server = "loop" => since["death"] + left["server"] <= t.timeout["server"]
    /\ ~alive /\ client = "setup" => since["death"] + work["client"] <= t.setup
    /\ ~alive /\ client = "loop" =>
          since["death"] + left["client"] <= t.setup + t.timeout["client"]
    /\ why["client"] = "timeout" => ~alive
    /\ why["server"] = "timeout" => ~alive

(* What a cancelled client still waits for.                                *)
CancelInv ==
    /\ ~cancelled => since["cancel"] = 0
    /\ cancelled /\ alive /\ ~Over =>
          /\ since["cancel"] <= t.setup + 2 * t.delay
          /\ client = "await" => since["cancel"] <= FirstAge("client")
          /\ client = "setup" => since["cancel"] + work["client"] <= t.setup + t.delay
          /\ client \in {"loop", "ended"} /\ isOpen => since["cancel"] <= t.setup + t.delay
          /\ client \in {"loop", "ended"} /\ ~isOpen /\ server = "loop" =>
                since["cancel"] <= t.setup + t.delay + LastAge("server")

(* What an end whose peer has left still waits for.                        *)
EndInv ==
    /\ client # "ended" /\ server = "loop" => since["end"] = 0
    /\ alive /\ ~Over =>
          /\ since["end"] <= t.setup + t.delay
          /\ server # "loop" /\ client = "await" => since["end"] <= LastAge("client")
          /\ server # "loop" /\ client = "setup" =>
                since["end"] + work["client"] <= t.setup + LastAge("client")
          /\ server # "loop" /\ client = "loop" /\ isOpen /\ pen["closer"] = "idle" =>
                since["end"] <= t.setup + LastAge("client")
          /\ client = "ended" /\ isOpen => since["end"] = 0
          /\ client = "ended" /\ ~isOpen => since["end"] <= LastAge("server")

(* The view of the wire to the client.                                     *)
LEMMA ClientView ==
    ASSUME TypeOK
    PROVE  /\ Count("client") \in Nat
           /\ Count("client") > 0 =>
                 /\ FirstAge("client") \in 0..t.delay /\ LastAge("client") \in 0..t.delay
                 /\ Sorted("client") => LastAge("client") <= FirstAge("client")
                 /\ Count("client") = 1 => LastKind("client") = wire["client"][1].kind
                 /\ Chain("client") => \/ wire["client"][1].kind = "fin"
                                       \/ wire["client"][1].seq = readSeq["client"]
BY ViewFacts, TwoEnds

(* The view of the wire to the server.                                     *)
LEMMA ServerView ==
    ASSUME TypeOK
    PROVE  /\ Count("server") \in Nat
           /\ Count("server") > 0 =>
                 /\ FirstAge("server") \in 0..t.delay /\ LastAge("server") \in 0..t.delay
                 /\ Sorted("server") => LastAge("server") <= FirstAge("server")
                 /\ Count("server") = 1 => LastKind("server") = wire["server"][1].kind
                 /\ Chain("server") => \/ wire["server"][1].kind = "fin"
                                       \/ wire["server"][1].seq = readSeq["server"]
                 /\ Without("server", "bye") => wire["server"][1].kind # "bye"
                 /\ Without("server", "fin") => wire["server"][1].kind # "fin"
BY ViewFacts, TwoEnds

(* Reading a frame leaves the end of the stream on the wire.               *)
LEMMA FinStays ==
    ASSUME TypeOK, NEW e \in Ends, Taken(e), LastKind(e) = "fin", wire[e][1].kind # "fin"
    PROVE  Count(e)' > 0 /\ LastKind(e)' = "fin" /\ LastAge(e)' = LastAge(e)
<1>1. /\ Count(e) \in Nat /\ Count(e) > 0 /\ Count(e)' = Count(e) - 1
      /\ Count(e) > 1 => LastKind(e)' = "fin" /\ LastAge(e)' = LastAge(e)
  BY ViewFacts DEF Taken
<1>2. Count(e) # 1
  BY <1>1, ViewFacts
<1> QED BY <1>1, <1>2

(* Whatever can happen without waiting has happened before a tick.         *)
LEMMA TickFacts ==
    ASSUME TypeOK, PhaseInv, Tick
    PROVE  /\ pen["sender"] = "idle"
           /\ client = "loop" => /\ isOpen /\ beat > 0 /\ left["client"] > 0
                                 /\ pen["closer"] = "idle" /\ ~cancelled
           /\ client = "ended" => ~isOpen
           /\ client = "setup" => work["client"] > 0
           /\ server = "loop" => left["server"] > 0
           /\ Count("server") > 0 => FirstAge("server") < t.delay
           /\ client # "setup" /\ Count("client") > 0 => FirstAge("client") < t.delay
<1>1. ~Due
  BY DEF Tick
<1>2. /\ \A w \in Writers : ~MaySeal(w) /\ pen[w] \in {"idle", "done"}
      /\ ~MayClose
  BY <1>1 DEF Due, TypeOK
<1>3. pen["sender"] = "idle" /\ pen["closer"] \in {"idle", "done"}
  BY <1>2 DEF PhaseInv, Writers
<1>4. isOpen => pen["closer"] = "idle" /\ (client = "ended" => cancelled)
  BY <1>2, <1>3 DEF MayClose
<1>5. client \in {"loop", "ended"} /\ isOpen => ~cancelled
  BY <1>2, <1>4 DEF MaySeal, Writers
<1>6. client = "loop" => beat # 0
  BY <1>2, <1>3 DEF MaySeal, Writers
<1>7. /\ client = "loop" => left["client"] # 0 /\ isOpen
      /\ server = "loop" => left["server"] # 0
      /\ client = "setup" => work["client"] # 0
      /\ Arrives("server") => Head(wire["server"]).age # t.delay
      /\ client # "setup" /\ Arrives("client") => Head(wire["client"]).age # t.delay
  BY <1>1 DEF Due, Ends
<1>8. /\ Count("server") > 0 => FirstAge("server") # t.delay
      /\ client # "setup" /\ Count("client") > 0 => FirstAge("client") # t.delay
  BY <1>7, WireFacts, TwoEnds DEF FirstAge, Count
<1>9. /\ Count("server") > 0 => FirstAge("server") < t.delay
      /\ client # "setup" /\ Count("client") > 0 => FirstAge("client") < t.delay
  BY <1>8, ClientView, ServerView, LinkFacts
<1>10. /\ client = "loop" => beat > 0 /\ left["client"] > 0
       /\ client = "setup" => work["client"] > 0
       /\ server = "loop" => left["server"] > 0
  BY <1>6, <1>7, LinkFacts
<1> QED BY <1>3, <1>4, <1>5, <1>7, <1>9, <1>10

(* Each step leaves every goroutine where the others may find it.          *)
LEMMA PhaseStep == ASSUME TypeOK, PhaseInv, [Next]_vars PROVE PhaseInv'
<1>1. CASE Reply
  BY <1>1, ReplyEffect, ReplyView, PlaceFacts, ClientView, ServerView
     DEF PhaseInv, Taken, Same
<1>2. CASE NoReply
  BY <1>2, NoReplyEffect, StillView, PlaceFacts, ClientView, ServerView
     DEF PhaseInv, Same, seqs, timer
<1>3. CASE LoopStarts
  BY <1>3, LoopStartsEffect, StillView, PlaceFacts, ClientView, ServerView
     DEF PhaseInv, Same, seqs
<1>4. CASE SetupFails
  BY <1>4, SetupFailsEffect, SetupFailsView, PlaceFacts, ClientView, ServerView
     DEF PhaseInv, Sends, Reading, Added, Same, Emptied, seqs, timer
<1>5. CASE Close
  BY <1>5, CloseEffect, CloseView, PlaceFacts, ClientView, ServerView
     DEF PhaseInv, MayClose, Sends, Reading, Added, Same, seqs, timer
<1>6. CASE ClientReads
  BY <1>6, ClientReadsEffect, ClientReadsView, PlaceFacts, ClientView, ServerView
     DEF PhaseInv, Taken, Same
<1>7. CASE ClientEnds
  BY <1>7, ClientEndsEffect, ClientEndsView, PlaceFacts, ClientView, ServerView
     DEF PhaseInv, Emptied, Same, seqs
<1>8. ASSUME NEW w \in Writers, Seal(w) PROVE PhaseInv'
  BY <1>8, SealEffect, StillView, PlaceFacts, ClientView, ServerView
     DEF PhaseInv, Same, Writers, seqs
<1>9. ASSUME NEW w \in Writers, Bump(w) PROVE PhaseInv'
  BY <1>9, BumpEffect, StillView, PlaceFacts, ClientView, ServerView
     DEF PhaseInv, Same, Writers, timer
<1>10. ASSUME NEW w \in Writers, Put(w) PROVE PhaseInv'
  BY <1>10, PutEffect, PutView, PlaceFacts, ClientView, ServerView
     DEF PhaseInv, Sends, Reading, Added, Same, Writers, seqs, timer
<1>11. CASE ServerReads
  BY <1>11, ServerReadsEffect, ServerReadsView, PlaceFacts, ClientView, ServerView
     DEF PhaseInv, Taken, Sends, Reading, Added, Same
<1>12. CASE ServerEnds
  BY <1>12, ServerEndsEffect, ServerEndsView, PlaceFacts, ClientView, ServerView
     DEF PhaseInv, Emptied, Same
<1>13. CASE ServerCloses
  BY <1>13, ServerClosesEffect, ServerClosesView, PlaceFacts, ClientView, ServerView
     DEF PhaseInv, Sends, Reading, Added, Same, seqs, timer
<1>14. CASE Cancel
  BY <1>14, StillView, PlaceFacts, ClientView, ServerView
     DEF PhaseInv, Cancel, Same, seqs, timer
<1>15. CASE Stop
  BY <1>15, StopEffect, StopView, PlaceFacts, ClientView, ServerView
     DEF PhaseInv, Sends, Reading, Added, Same, Emptied, seqs, timer
<1>16. CASE PathDies
  BY <1>16, PathDiesEffect, PathDiesView, PlaceFacts, ClientView, ServerView
     DEF PhaseInv, Emptied, seqs, timer
<1>17. CASE Tick
  BY <1>17, TickEffect, TickView, TickFacts, PlaceFacts, ClientView, ServerView
     DEF PhaseInv, Aged, Down, Grown, seqs
<1>18. CASE UNCHANGED vars
  BY <1>18, StillView DEF PhaseInv, Same, vars, seqs, timer
<1> QED BY <1>1, <1>2, <1>3, <1>4, <1>5, <1>6, <1>7, <1>8, <1>9, <1>10, <1>11, <1>12, <1>13,
           <1>14, <1>15, <1>16, <1>17, <1>18 DEF Next

(* The server does not leave its loop unless the client has begun to.      *)
LEMMA ServerEndsFacts ==
    ASSUME TypeOK, PhaseInv, FinInv, ChainInv, ServerDeadline, ServerEnds
    PROVE  /\ alive => ~isOpen \/ pen["closer"] # "idle"
           /\ why'["server"] = "garbled" => pen["closer"] # "idle"
           /\ why'["server"] = "timeout" => ~alive
<1>1. alive => left["server"] > 0
  <2> SUFFICES ASSUME alive PROVE left["server"] > 0
    OBVIOUS
  <2>1. /\ server = "loop"
        /\ client \in {"await", "setup", "loop", "ended"}
        /\ client = "await" => Count("client") > 0
    BY ServerEndsEffect, PlaceFacts DEF PhaseInv
  <2>2. CASE Count("server") > 0
    BY <2>1, <2>2, ServerView, LinkFacts DEF ServerDeadline
  <2>3. CASE ~(Count("server") > 0) /\ client = "await"
    BY <2>1, <2>3, ClientView, LinkFacts DEF ServerDeadline
  <2>4. CASE ~(Count("server") > 0) /\ client # "await"
    BY <2>1, <2>4, LinkFacts DEF ServerDeadline, NextBeat
  <2> QED BY <2>2, <2>3, <2>4
<1>2. Count("server") > 0 /\ pen["closer"] = "idle" =>
         wire["server"][1].kind = "fin" \/ wire["server"][1].seq = readSeq["server"]
  BY ServerView DEF ChainInv
<1>3. /\ Count("server") > 0 /\ wire["server"][1].kind = "fin" => ~isOpen
      /\ Count("server") > 0 /\ wire["server"][1].kind = "bye" => pen["closer"] = "done"
  BY ServerView DEF FinInv
<1>4. alive => left["server"] # 0
  BY <1>1, LinkFacts
<1> QED BY <1>2, <1>3, <1>4, ServerEndsEffect

(* An end that closes tells the other, and only the closer says goodbye.   *)
LEMMA FinStep ==
    ASSUME TypeOK, PhaseInv, FinInv, ChainInv, ServerDeadline, [Next]_vars
    PROVE  FinInv'
<1>1. CASE Reply
  <2>1. LastKind("client") = "fin" => Count("client")' > 0 /\ LastKind("client")' = "fin"
    BY <1>1, ReplyEffect, ReplyView, FinStays, TwoEnds
  <2> QED BY <1>1, <2>1, ReplyEffect, ReplyView, PlaceFacts DEF FinInv, PhaseInv, Taken,
             Same
<1>2. CASE NoReply
  BY <1>2, NoReplyEffect, StillView, PlaceFacts, ClientView, ServerView
     DEF FinInv, PhaseInv, Same, seqs, timer
<1>3. CASE LoopStarts
  BY <1>3, LoopStartsEffect, StillView, PlaceFacts, ClientView, ServerView
     DEF FinInv, PhaseInv, Same, seqs
<1>4. CASE SetupFails
  BY <1>4, SetupFailsEffect, SetupFailsView, PlaceFacts, ClientView, ServerView
     DEF FinInv, PhaseInv, Sends, Reading, Added, Same, Emptied, seqs, timer
<1>5. CASE Close
  BY <1>5, CloseEffect, CloseView, PlaceFacts, ClientView, ServerView
     DEF FinInv, PhaseInv, MayClose, Sends, Reading, Added, Same, seqs, timer
<1>6. CASE ClientReads
  <2>1. LastKind("client") = "fin" => Count("client")' > 0 /\ LastKind("client")' = "fin"
    BY <1>6, ClientReadsEffect, ClientReadsView, FinStays, TwoEnds
  <2> QED BY <1>6, <2>1, ClientReadsEffect, ClientReadsView, PlaceFacts DEF FinInv,
             PhaseInv, Taken, Same
<1>7. CASE ClientEnds
  BY <1>7, ClientEndsEffect, ClientEndsView, PlaceFacts, ClientView, ServerView
     DEF FinInv, PhaseInv, Emptied, Same, seqs
<1>8. ASSUME NEW w \in Writers, Seal(w) PROVE FinInv'
  BY <1>8, SealEffect, StillView, PlaceFacts, ClientView, ServerView
     DEF FinInv, PhaseInv, Same, Writers, seqs
<1>9. ASSUME NEW w \in Writers, Bump(w) PROVE FinInv'
  BY <1>9, BumpEffect, StillView, PlaceFacts, ClientView, ServerView
     DEF FinInv, PhaseInv, Same, Writers, timer
<1>10. ASSUME NEW w \in Writers, Put(w) PROVE FinInv'
  BY <1>10, PutEffect, PutView, PlaceFacts, ClientView, ServerView
     DEF FinInv, PhaseInv, Sends, Reading, Added, Same, Writers, seqs, timer
<1>11. CASE ServerReads
  <2>1. LastKind("server") = "fin" => Count("server")' > 0 /\ LastKind("server")' = "fin"
    BY <1>11, ServerReadsEffect, ServerReadsView, FinStays, TwoEnds
  <2> QED BY <1>11, <2>1, ServerReadsEffect, ServerReadsView, PlaceFacts DEF FinInv,
             PhaseInv, Taken, Same, Sends, Reading, Added
<1>12. CASE ServerEnds
  BY <1>12, ServerEndsEffect, ServerEndsView, PlaceFacts, ClientView, ServerView,
     ServerEndsFacts
     DEF FinInv, PhaseInv, Emptied, Same
<1>13. CASE ServerCloses
  BY <1>13, ServerClosesEffect, ServerClosesView, PlaceFacts, ClientView, ServerView
     DEF FinInv, PhaseInv, Sends, Reading, Added, Same, seqs, timer
<1>14. CASE Cancel
  BY <1>14, StillView, PlaceFacts, ClientView, ServerView
     DEF FinInv, PhaseInv, Cancel, Same, seqs, timer
<1>15. CASE Stop
  BY <1>15, StopEffect, StopView, PlaceFacts, ClientView, ServerView
     DEF FinInv, PhaseInv, Sends, Reading, Added, Same, Emptied, seqs, timer
<1>16. CASE PathDies
  BY <1>16, PathDiesEffect, PathDiesView, PlaceFacts, ClientView, ServerView
     DEF FinInv, PhaseInv, Emptied, seqs, timer
<1>17. CASE Tick
  <2>1. UNCHANGED <<client, server, pen, isOpen, alive>>
    BY <1>17, TickEffect
  <2>2. /\ Count("client")' = Count("client") /\ Count("server")' = Count("server")
        /\ Count("client") > 0 => LastKind("client")' = LastKind("client")
        /\ Count("server") > 0 => LastKind("server")' = LastKind("server")
        /\ Without("server", "bye") => Without("server", "bye")'
        /\ Without("server", "fin") => Without("server", "fin")'
    BY <1>17, TickView DEF Aged
  <2> QED BY <2>1, <2>2 DEF FinInv
<1>18. CASE UNCHANGED vars
  BY <1>18, StillView DEF FinInv, PhaseInv, Same, vars, seqs, timer
<1> QED BY <1>1, <1>2, <1>3, <1>4, <1>5, <1>6, <1>7, <1>8, <1>9, <1>10, <1>11, <1>12, <1>13,
           <1>14, <1>15, <1>16, <1>17, <1>18 DEF Next

(* Each end seals with the number the other expects next, as long as the   *)
(* closer does not write.                                                  *)
LEMMA ChainStep ==
    ASSUME TypeOK, PhaseInv, FinInv, ChainInv, ServerDeadline, [Next]_vars
    PROVE  ChainInv'
<1>1. CASE Reply
  BY <1>1, ReplyEffect, ReplyView, PlaceFacts, ClientView, ServerView
     DEF ChainInv, PhaseInv, Taken, Same
<1>2. CASE NoReply
  BY <1>2, NoReplyEffect, StillView, PlaceFacts, ClientView, ServerView
     DEF ChainInv, PhaseInv, Same, seqs, timer
<1>3. CASE LoopStarts
  BY <1>3, LoopStartsEffect, StillView, PlaceFacts, ClientView, ServerView
     DEF ChainInv, PhaseInv, Same, seqs
<1>4. CASE SetupFails
  BY <1>4, SetupFailsEffect, SetupFailsView, PlaceFacts, ClientView, ServerView
     DEF ChainInv, PhaseInv, Sends, Reading, Added, Same, Emptied, seqs, timer
<1>5. CASE Close
  BY <1>5, CloseEffect, CloseView, PlaceFacts, ClientView, ServerView
     DEF ChainInv, PhaseInv, MayClose, Sends, Reading, Added, Same, seqs, timer
<1>6. CASE ClientReads
  BY <1>6, ClientReadsEffect, ClientReadsView, PlaceFacts, ClientView, ServerView
     DEF ChainInv, PhaseInv, Taken, Same
<1>7. CASE ClientEnds
  BY <1>7, ClientEndsEffect, ClientEndsView, PlaceFacts, ClientView, ServerView
     DEF ChainInv, PhaseInv, Emptied, Same, seqs
<1>8. ASSUME NEW w \in Writers, Seal(w) PROVE ChainInv'
  BY <1>8, SealEffect, StillView, PlaceFacts, ClientView, ServerView
     DEF ChainInv, PhaseInv, Same, Writers, seqs
<1>9. ASSUME NEW w \in Writers, Bump(w) PROVE ChainInv'
  BY <1>9, BumpEffect, StillView, PlaceFacts, ClientView, ServerView
     DEF ChainInv, PhaseInv, Same, Writers, timer
<1>10. ASSUME NEW w \in Writers, Put(w) PROVE ChainInv'
  BY <1>10, PutEffect, PutView, PlaceFacts, ClientView, ServerView
     DEF ChainInv, PhaseInv, Sends, Reading, Added, Same, Writers, seqs, timer
<1>11. CASE ServerReads
  BY <1>11, ServerReadsEffect, ServerReadsView, PlaceFacts, ClientView, ServerView
     DEF ChainInv, PhaseInv, Taken, Sends, Reading, Added, Same
<1>12. CASE ServerEnds
  BY <1>12, ServerEndsEffect, ServerEndsView, PlaceFacts, ClientView, ServerView,
     ServerEndsFacts
     DEF ChainInv, PhaseInv, Emptied, Same
<1>13. CASE ServerCloses
  BY <1>13, ServerClosesEffect, ServerClosesView, PlaceFacts, ClientView, ServerView
     DEF ChainInv, PhaseInv, Sends, Reading, Added, Same, seqs, timer
<1>14. CASE Cancel
  BY <1>14, StillView, PlaceFacts, ClientView, ServerView
     DEF ChainInv, PhaseInv, Cancel, Same, seqs, timer
<1>15. CASE Stop
  BY <1>15, StopEffect, StopView, PlaceFacts, ClientView, ServerView
     DEF ChainInv, PhaseInv, Sends, Reading, Added, Same, Emptied, seqs, timer
<1>16. CASE PathDies
  BY <1>16, PathDiesEffect, PathDiesView, PlaceFacts, ClientView, ServerView
     DEF ChainInv, PhaseInv, Emptied, seqs, timer
<1>17. CASE Tick
  <2>1. UNCHANGED <<client, server, pen, nonce, seqs, isOpen, alive, why, cancelled>>
    BY <1>17, TickEffect
  <2>2. /\ Chain("client") => Chain("client")' /\ Expected("client")' = Expected("client")
        /\ Chain("server") => Chain("server")' /\ Expected("server")' = Expected("server")
    BY <1>17, TickView DEF Aged
  <2> QED BY <2>1, <2>2 DEF ChainInv, seqs
<1>18. CASE UNCHANGED vars
  BY <1>18, StillView DEF ChainInv, PhaseInv, Same, vars, seqs, timer
<1> QED BY <1>1, <1>2, <1>3, <1>4, <1>5, <1>6, <1>7, <1>8, <1>9, <1>10, <1>11, <1>12, <1>13,
           <1>14, <1>15, <1>16, <1>17, <1>18 DEF Next

(* The path keeps the order.                                               *)
LEMMA AgeStep == ASSUME TypeOK, PhaseInv, AgeInv, [Next]_vars PROVE AgeInv'
<1>1. CASE Reply
  BY <1>1, ReplyEffect, ReplyView
     DEF AgeInv, Taken, Same
<1>2. CASE NoReply
  BY <1>2, NoReplyEffect, StillView
     DEF AgeInv, Same, seqs, timer
<1>3. CASE LoopStarts
  BY <1>3, LoopStartsEffect, StillView
     DEF AgeInv, Same, seqs
<1>4. CASE SetupFails
  BY <1>4, SetupFailsEffect, SetupFailsView
     DEF AgeInv, Sends, Reading, Added, Same, Emptied, seqs, timer
<1>5. CASE Close
  BY <1>5, CloseEffect, CloseView
     DEF AgeInv, MayClose, Sends, Reading, Added, Same, seqs, timer
<1>6. CASE ClientReads
  BY <1>6, ClientReadsEffect, ClientReadsView
     DEF AgeInv, Taken, Same
<1>7. CASE ClientEnds
  BY <1>7, ClientEndsEffect, ClientEndsView
     DEF AgeInv, Emptied, Same, seqs
<1>8. ASSUME NEW w \in Writers, Seal(w) PROVE AgeInv'
  BY <1>8, SealEffect, StillView
     DEF AgeInv, Same, Writers, seqs
<1>9. ASSUME NEW w \in Writers, Bump(w) PROVE AgeInv'
  BY <1>9, BumpEffect, StillView
     DEF AgeInv, Same, Writers, timer
<1>10. ASSUME NEW w \in Writers, Put(w) PROVE AgeInv'
  BY <1>10, PutEffect, PutView
     DEF AgeInv, Sends, Reading, Added, Same, Writers, seqs, timer
<1>11. CASE ServerReads
  BY <1>11, ServerReadsEffect, ServerReadsView
     DEF AgeInv, Taken, Sends, Reading, Added, Same
<1>12. CASE ServerEnds
  BY <1>12, ServerEndsEffect, ServerEndsView
     DEF AgeInv, Emptied, Same
<1>13. CASE ServerCloses
  BY <1>13, ServerClosesEffect, ServerClosesView
     DEF AgeInv, Sends, Reading, Added, Same, seqs, timer
<1>14. CASE Cancel
  BY <1>14, StillView
     DEF AgeInv, Cancel, Same, seqs, timer
<1>15. CASE Stop
  BY <1>15, StopEffect, StopView
     DEF AgeInv, Sends, Reading, Added, Same, Emptied, seqs, timer
<1>16. CASE PathDies
  BY <1>16, PathDiesEffect, PathDiesView
     DEF AgeInv, Emptied, seqs, timer
<1>17. CASE Tick
  BY <1>17, TickEffect, TickView, TickFacts
     DEF AgeInv, Aged, Down, Grown, seqs
<1>18. CASE UNCHANGED vars
  BY <1>18, StillView DEF AgeInv, Same, vars, seqs, timer
<1> QED BY <1>1, <1>2, <1>3, <1>4, <1>5, <1>6, <1>7, <1>8, <1>9, <1>10, <1>11, <1>12, <1>13,
           <1>14, <1>15, <1>16, <1>17, <1>18 DEF Next

(* How long the server can still wait, by what the client is doing.        *)
LEMMA WaitFacts ==
    ASSUME TypeOK, PhaseInv, ServerDeadline, alive, server = "loop"
    PROVE  /\ client = "setup" =>
                 /\ Count("server") = 0
                 /\ left["server"] > t.delay + t.interval + work["client"]
           /\ client \in {"loop", "ended"} /\ Count("server") = 0 =>
                 left["server"] > t.delay + NextBeat
           /\ Count("server") > 0 => left["server"] + FirstAge("server") > t.delay
           /\ client = "await" =>
                 /\ Count("server") = 0 /\ Count("client") > 0
                 /\ left["server"] + FirstAge("client") >= t.timeout["server"]
<1>1. client \in {"await", "setup"} => Count("server") = 0
  BY DEF PhaseInv
<1>2. client = "setup" => left["server"] + t.delay + t.setup >= t.timeout["server"] + work["client"]
  BY <1>1 DEF ServerDeadline
<1>3. client = "setup" => left["server"] > t.delay + t.interval + work["client"]
  BY <1>2, LinkFacts
<1> QED BY <1>1, <1>3 DEF ServerDeadline, PhaseInv

(* The next keepalive is sealed within an interval.                        *)
LEMMA BeatFacts == ASSUME TypeOK PROVE NextBeat \in Nat /\ NextBeat <= t.interval
BY LinkFacts DEF NextBeat

(* A step that leaves the server's deadline and what renews it alone.       *)
LEMMA ServerDeadlineKept ==
    ASSUME ServerDeadline, Count("server")' = Count("server"),
           FirstAge("server")' = FirstAge("server"), FirstAge("client")' = FirstAge("client"),
           UNCHANGED <<t, client, server, alive, work>>, left'["server"] = left["server"],
           NextBeat' = NextBeat
    PROVE  ServerDeadline'
BY DEF ServerDeadline

(* The client's next frame reaches the server in time.                     *)
LEMMA ServerDeadlineStep ==
    ASSUME TypeOK, PhaseInv, FinInv, ServerDeadline, [Next]_vars
    PROVE  ServerDeadline'
<1>1. CASE Reply
  <2> SUFFICES ASSUME alive, server = "loop" PROVE ServerDeadline'
    BY <1>1, ReplyEffect DEF ServerDeadline
  <2>1. /\ t' = t /\ left' = left /\ client = "await" /\ client' = "setup"
        /\ work'["client"] \in 0..t.setup
    BY <1>1, ReplyEffect
  <2>2. /\ Count("server") = 0 /\ left["server"] + FirstAge("client") >= t.timeout["server"]
        /\ FirstAge("client") \in 0..t.delay
    BY <2>1, WaitFacts, ClientView
  <2>3. Count("server")' = 0
    BY <1>1, <2>2, ReplyView DEF Same
  <2>4. left'["server"] + t'.delay + t'.setup >= t'.timeout["server"] + work'["client"]
    BY <2>1, <2>2, LinkFacts
  <2> QED BY <2>1, <2>3, <2>4 DEF ServerDeadline
<1>2. CASE NoReply
  BY <1>2, NoReplyEffect DEF ServerDeadline
<1>3. CASE LoopStarts
  <2>1. alive /\ server = "loop" => Count("server") = 0 /\ left["server"] > t.delay + t.interval
    BY <1>3, LoopStartsEffect, WaitFacts, LinkFacts
  <2>2. Count("server")' = Count("server")
    BY <1>3, LoopStartsEffect, StillView DEF Same, seqs
  <2>3. NextBeat' = t.interval /\ client' = "loop"
    BY <1>3, LoopStartsEffect DEF NextBeat, PhaseInv
  <2>4. left'["server"] = left["server"] /\ t' = t /\ alive' = alive /\ server' = server
    BY <1>3, LoopStartsEffect
  <2> QED BY <2>1, <2>2, <2>3, <2>4 DEF ServerDeadline
<1>4. CASE SetupFails
  <2>1. alive /\ server = "loop" => Count("server") = 0 /\ left["server"] > t.delay
    BY <1>4, SetupFailsEffect, WaitFacts, LinkFacts
  <2>2. alive /\ server = "loop" => Count("server")' = 1 /\ FirstAge("server")' = 0
    BY <1>4, <2>1, SetupFailsView DEF Sends, Reading, Added
  <2>3. left' = left /\ t' = t /\ alive' = alive /\ server' = server
    BY <1>4, SetupFailsEffect DEF timer
  <2> QED BY <2>1, <2>2, <2>3, LinkFacts DEF ServerDeadline
<1>5. CASE Close
  <2>1. alive /\ server = "loop" /\ Count("server") = 0 => left["server"] > t.delay
    <3>1. client \in {"loop", "ended"}
      BY <1>5, CloseEffect, PlaceFacts DEF MayClose, PhaseInv
    <3> QED BY <3>1, WaitFacts, BeatFacts, LinkFacts
  <2>2. alive /\ server = "loop" /\ Count("server") > 0 =>
           left["server"] + FirstAge("server") > t.delay
    BY WaitFacts
  <2>3. alive /\ server = "loop" =>
           /\ Count("server")' = Count("server") + 1 /\ Count("server") \in Nat
           /\ FirstAge("server")' = IF Count("server") = 0 THEN 0 ELSE FirstAge("server")
    BY <1>5, CloseView, ServerView DEF Sends, Reading, Added
  <2>4. left' = left /\ t' = t /\ alive' = alive /\ server' = server
    BY <1>5, CloseEffect DEF timer
  <2> QED BY <2>1, <2>2, <2>3, <2>4, LinkFacts DEF ServerDeadline
<1>6. CASE ClientReads
  <2>1. Count("server")' = Count("server") /\ FirstAge("server")' = FirstAge("server")
    BY <1>6, ClientReadsView DEF Same
  <2>2. /\ UNCHANGED <<t, client, server, alive, work>> /\ left'["server"] = left["server"]
        /\ client = "loop" /\ NextBeat' = NextBeat
    BY <1>6, ClientReadsEffect DEF NextBeat
  <2> QED BY <2>1, <2>2 DEF ServerDeadline
<1>7. CASE ClientEnds
  <2>1. alive /\ server = "loop" /\ Count("server") = 0 => left["server"] > t.delay
    BY <1>7, ClientEndsEffect, WaitFacts, BeatFacts, LinkFacts
  <2>2. Count("server")' = Count("server") /\ FirstAge("server")' = FirstAge("server")
    BY <1>7, ClientEndsView DEF Same
  <2>3. /\ left'["server"] = left["server"] /\ t' = t /\ alive' = alive /\ server' = server
        /\ client' = "ended" /\ NextBeat' = 0
    BY <1>7, ClientEndsEffect DEF NextBeat
  <2> QED BY <2>1, <2>2, <2>3, WaitFacts, ServerView, LinkFacts DEF ServerDeadline
<1>8. ASSUME NEW w \in Writers, Seal(w) PROVE ServerDeadline'
  <2>1. Same("client") /\ Same("server")
    BY <1>8, SealEffect, StillView DEF seqs
  <2>2. UNCHANGED <<t, client, server, alive, work, left>>
    BY <1>8, SealEffect
  <2>3. NextBeat' = NextBeat
    BY <1>8, SealEffect DEF NextBeat, Writers
  <2> QED BY <2>1, <2>2, <2>3, ServerDeadlineKept DEF Same
<1>9. ASSUME NEW w \in Writers, Bump(w) PROVE ServerDeadline'
  <2>1. Same("client") /\ Same("server")
    BY <1>9, BumpEffect, StillView
  <2>2. UNCHANGED <<t, client, server, alive, work, left>>
    BY <1>9, BumpEffect DEF timer
  <2>3. NextBeat' = NextBeat
    BY <1>9, BumpEffect DEF NextBeat, Writers, timer
  <2> QED BY <2>1, <2>2, <2>3, ServerDeadlineKept DEF Same
<1>10. ASSUME NEW w \in Writers, Put(w) PROVE ServerDeadline'
  <2>1. client \in {"loop", "ended"}
    BY <1>10, PutEffect, PlaceFacts DEF PhaseInv, Writers
  <2>2. alive /\ server = "loop" /\ Count("server") = 0 => left["server"] > t.delay /\ isOpen
    BY <2>1, WaitFacts, BeatFacts, LinkFacts DEF FinInv
  <2>3. /\ left' = left /\ t' = t /\ alive' = alive /\ server' = server
        /\ client' \in {"loop", "ended"}
    BY <1>10, <2>1, PutEffect DEF timer
  <2>4. alive /\ server = "loop" =>
           /\ Count("server")' > 0
           /\ FirstAge("server")' = IF Count("server") = 0 THEN 0 ELSE FirstAge("server")
    <3>1. Count("server") \in Nat
      BY ServerView
    <3>2. CASE isOpen
      BY <1>10, <3>1, <3>2, PutView DEF Sends, Reading, Added
    <3>3. CASE ~isOpen
      <4>1. Count("server")' = Count("server") /\ FirstAge("server")' = FirstAge("server")
        BY <1>10, <3>3, PutView DEF Same
      <4> QED BY <2>2, <3>1, <3>3, <4>1
    <3> QED BY <3>2, <3>3
  <2> QED BY <2>2, <2>3, <2>4, WaitFacts, ServerView, LinkFacts DEF ServerDeadline
<1>11. CASE ServerReads
  <2> SUFFICES ASSUME alive, server = "loop" PROVE ServerDeadline'
    BY <1>11, ServerReadsEffect DEF ServerDeadline
  <2>1. /\ t' = t /\ client' = client /\ left'["server"] = t.timeout["server"]
        /\ NextBeat' = NextBeat
    BY <1>11, ServerReadsEffect DEF NextBeat
  <2>2. Count("server") > 0 /\ client \in {"loop", "ended"}
    BY <1>11, ServerReadsView, ServerView, PlaceFacts DEF Taken, PhaseInv
  <2>3. Count("server")' > 0 => FirstAge("server")' \in Nat
    <3>1. /\ Count("server") \in Nat /\ Count("server")' = Count("server") - 1
          /\ Count("server") > 1 => FirstAge("server")' \in 0..t.delay
      BY <1>11, ServerReadsView, ServerView DEF Taken
    <3> QED BY <3>1, LinkFacts
  <2>4. /\ left'["server"] > t'.delay + NextBeat'
        /\ Count("server")' > 0 => left'["server"] + FirstAge("server")' > t'.delay
    BY <2>1, <2>3, BeatFacts, LinkFacts
  <2> QED BY <2>1, <2>2, <2>4 DEF ServerDeadline
<1>12. CASE ServerEnds
  BY <1>12, ServerEndsEffect DEF ServerDeadline
<1>13. CASE ServerCloses
  BY <1>13, ServerClosesEffect DEF ServerDeadline
<1>14. CASE Cancel
  <2>1. Same("client") /\ Same("server")
    BY <1>14, StillView DEF Cancel, seqs
  <2>2. /\ UNCHANGED <<t, client, server, alive, work, left>> /\ NextBeat' = NextBeat
    BY <1>14 DEF Cancel, NextBeat, timer
  <2> QED BY <2>1, <2>2, ServerDeadlineKept DEF Same
<1>15. CASE Stop
  BY <1>15, StopEffect DEF ServerDeadline
<1>16. CASE PathDies
  BY <1>16, PathDiesEffect DEF ServerDeadline
<1>17. CASE Tick
  <2> SUFFICES ASSUME alive, server = "loop" PROVE ServerDeadline'
    BY <1>17, TickEffect DEF ServerDeadline
  <2>1. /\ left["server"] > 0 /\ left'["server"] = left["server"] - 1
        /\ t' = t /\ client' = client /\ pen' = pen
    BY <1>17, TickEffect, TickFacts, LinkFacts DEF Down
  <2>2. /\ Count("client")' = Count("client") /\ Count("server")' = Count("server")
        /\ Count("server") > 0 => FirstAge("server")' = FirstAge("server") + 1
        /\ client = "await" => FirstAge("client")' = FirstAge("client") + 1
    BY <1>17, TickView, TickFacts DEF Aged, Grown, PhaseInv
  <2>3. CASE Count("server") > 0
    BY <2>1, <2>2, <2>3, WaitFacts, ServerView, LinkFacts DEF ServerDeadline
  <2>4. CASE ~(Count("server") > 0)
    <3>1. Count("server") = 0 /\ client # "ended"
      BY <1>17, <2>4, ServerView, TickFacts DEF FinInv
    <3>2. CASE client = "await"
      BY <2>1, <2>2, <3>1, <3>2, WaitFacts, ClientView, LinkFacts DEF ServerDeadline
    <3>3. CASE client = "setup"
      <4>1. work["client"] > 0 /\ work'["client"] = work["client"] - 1
        BY <1>17, <3>3, TickEffect, TickFacts, LinkFacts DEF Down
      <4> QED BY <2>1, <2>2, <3>1, <3>3, <4>1, LinkFacts DEF ServerDeadline
    <3>4. CASE client = "loop"
      <4>1. NextBeat > 0 /\ NextBeat' = NextBeat - 1
        BY <1>17, <3>4, TickEffect, TickFacts, LinkFacts DEF Down, NextBeat
      <4> QED BY <2>1, <2>2, <3>1, <3>4, <4>1, WaitFacts, BeatFacts, LinkFacts
                 DEF ServerDeadline
    <3> QED BY <3>1, <3>2, <3>3, <3>4, PlaceFacts
  <2> QED BY <2>3, <2>4
<1>18. CASE UNCHANGED vars
  <2>1. Same("client") /\ Same("server")
    BY <1>18, StillView DEF vars, seqs
  <2>2. /\ UNCHANGED <<t, client, server, alive, work, left>> /\ NextBeat' = NextBeat
    BY <1>18 DEF vars, NextBeat, timer
  <2> QED BY <2>1, <2>2, ServerDeadlineKept DEF Same
<1> QED BY <1>1, <1>2, <1>3, <1>4, <1>5, <1>6, <1>7, <1>8, <1>9, <1>10, <1>11, <1>12, <1>13,
           <1>14, <1>15, <1>16, <1>17, <1>18 DEF Next

(* A step that leaves the client's wires, beats and deadline alone.         *)
LEMMA ClientDeadlineKept ==
    ASSUME ClientDeadline, Same("client"), Same("server"), t' = t,
           left'["client"] = left["client"],
           alive' => alive, client' = "loop" => client = "loop", isOpen' => isOpen,
           pen'["closer"] = "idle" => pen["closer"] = "idle" /\ NextBeat' = NextBeat
    PROVE  ClientDeadline'
<1>1. /\ Count("client")' = Count("client") /\ FirstAge("client")' = FirstAge("client")
      /\ Count("server")' = Count("server") /\ FirstAge("server")' = FirstAge("server")
  BY DEF Same
<1> QED BY <1>1 DEF ClientDeadline

(* A deadline just set leaves room for a keepalive and its answer.         *)
LEMMA ClientDeadlineFresh ==
    ASSUME TypeOK, t' = t, left'["client"] = t.timeout["client"],
           NextBeat' \in Nat, NextBeat' <= t.interval,
           Count("client")' > 0 => FirstAge("client")' \in Nat,
           Count("server")' > 0 => FirstAge("server")' \in Nat
    PROVE  ClientDeadline'
<1>1. /\ left'["client"] \in Nat /\ t'.delay \in Nat /\ t'.interval \in Nat
      /\ left'["client"] > t'.interval + 2 * t'.delay /\ NextBeat' <= t'.interval
  BY LinkFacts
<1>2. left'["client"] > 0 /\ left'["client"] > 2 * t'.delay + NextBeat'
  BY <1>1
<1>3. Count("client")' > 0 => left'["client"] + FirstAge("client")' > t'.delay
  BY <1>1
<1>4. Count("server")' > 0 => left'["client"] + FirstAge("server")' > 2 * t'.delay
  BY <1>1
<1> QED BY <1>2, <1>3, <1>4 DEF ClientDeadline

(* The server's next frame reaches the client in time.                     *)
LEMMA ClientDeadlineStep ==
    ASSUME TypeOK, PhaseInv, FinInv, FinInv', ClientDeadline, [Next]_vars
    PROVE  ClientDeadline'
<1>1. CASE Reply
  BY <1>1, ReplyEffect DEF ClientDeadline
<1>2. CASE NoReply
  BY <1>2, NoReplyEffect DEF ClientDeadline
<1>3. CASE LoopStarts
  <2>1. /\ t' = t /\ left'["client"] = t.timeout["client"]
        /\ NextBeat' \in Nat /\ NextBeat' <= t.interval
    BY <1>3, LoopStartsEffect, LinkFacts DEF NextBeat
  <2>2. Same("client") /\ Same("server")
    BY <1>3, LoopStartsEffect, StillView DEF seqs
  <2>3. /\ Count("client")' > 0 => FirstAge("client")' \in Nat
        /\ Count("server")' > 0 => FirstAge("server")' \in Nat
    BY <2>2, ClientView, ServerView, LinkFacts DEF Same
  <2> QED BY <2>1, <2>3, ClientDeadlineFresh
<1>4. CASE SetupFails
  BY <1>4, SetupFailsEffect DEF ClientDeadline
<1>5. CASE Close
  BY <1>5, CloseEffect DEF ClientDeadline
<1>6. CASE ClientReads
  <2>1. t' = t /\ left'["client"] = t.timeout["client"] /\ NextBeat' = NextBeat
    BY <1>6, ClientReadsEffect DEF NextBeat
  <2>2. Count("client")' > 0 => FirstAge("client")' \in Nat
    <3>1. /\ Count("client") \in Nat /\ Count("client")' = Count("client") - 1
          /\ Count("client") > 1 => FirstAge("client")' \in 0..t.delay
      BY <1>6, ClientReadsView, ClientView DEF Taken
    <3> QED BY <3>1, LinkFacts
  <2>3. Count("server")' > 0 => FirstAge("server")' \in Nat
    <3>1. Count("server")' = Count("server") /\ FirstAge("server")' = FirstAge("server")
      BY <1>6, ClientReadsView DEF Same
    <3> QED BY <3>1, ServerView, LinkFacts
  <2> QED BY <2>1, <2>2, <2>3, BeatFacts, ClientDeadlineFresh
<1>7. CASE ClientEnds
  BY <1>7, ClientEndsEffect DEF ClientDeadline
<1>8. ASSUME NEW w \in Writers, Seal(w) PROVE ClientDeadline'
  <2>1. Same("client") /\ Same("server")
    BY <1>8, SealEffect, StillView DEF seqs
  <2>2. /\ t' = t /\ left' = left /\ alive' = alive /\ client' = client /\ isOpen' = isOpen
        /\ pen'["closer"] = "idle" => pen["closer"] = "idle" /\ NextBeat' = NextBeat
    BY <1>8, SealEffect DEF NextBeat, Writers
  <2> QED BY <2>1, <2>2, ClientDeadlineKept
<1>9. ASSUME NEW w \in Writers, Bump(w) PROVE ClientDeadline'
  <2>1. Same("client") /\ Same("server")
    BY <1>9, BumpEffect, StillView
  <2>2. /\ t' = t /\ left' = left /\ alive' = alive /\ client' = client /\ isOpen' = isOpen
        /\ pen'["closer"] = "idle" => pen["closer"] = "idle" /\ NextBeat' = NextBeat
    BY <1>9, BumpEffect DEF NextBeat, Writers, timer
  <2> QED BY <2>1, <2>2, ClientDeadlineKept
<1>10. ASSUME NEW w \in Writers, Put(w) PROVE ClientDeadline'
  <2> SUFFICES ASSUME alive, client = "loop", isOpen PROVE ClientDeadline'
    BY <1>10, PutEffect DEF ClientDeadline
  <2>1. /\ left' = left /\ beat' = beat /\ t' = t /\ isOpen' = isOpen
        /\ Count("client")' = Count("client") /\ FirstAge("client")' = FirstAge("client")
    BY <1>10, PutEffect, PutView DEF timer, Same
  <2>2. ASSUME pen'["closer"] = "idle" PROVE pen["closer"] = "idle"
    BY <1>10, <2>2, PutEffect DEF Writers
  <2>3. CASE pen["closer"] # "idle"
    BY <2>1, <2>2, <2>3 DEF ClientDeadline
  <2>4. CASE Count("client") > 0
    BY <2>1, <2>2, <2>4, ClientView, LinkFacts DEF ClientDeadline
  <2>5. CASE pen["closer"] = "idle" /\ ~(Count("client") > 0)
    <3>1. server = "loop"
      BY <2>5, PlaceFacts DEF FinInv
    <3>2. /\ Count("server")' > 0 /\ Count("server") \in Nat
          /\ FirstAge("server")' = IF Count("server") = 0 THEN 0 ELSE FirstAge("server")
      BY <1>10, <3>1, PutView, ServerView DEF Sends, Reading, Added
    <3>3. Count("server") = 0 => left["client"] > 2 * t.delay
      BY <2>5, <3>2, BeatFacts, LinkFacts DEF ClientDeadline
    <3>4. Count("server") > 0 => left["client"] + FirstAge("server") > 2 * t.delay
      BY <2>5 DEF ClientDeadline
    <3>5. left["client"] > 0
      BY DEF ClientDeadline
    <3> QED BY <2>1, <2>5, <3>2, <3>3, <3>4, <3>5, LinkFacts DEF ClientDeadline
  <2> QED BY <2>3, <2>4, <2>5
<1>11. CASE ServerReads
  <2> SUFFICES ASSUME alive, client = "loop", isOpen PROVE ClientDeadline'
    BY <1>11, ServerReadsEffect DEF ClientDeadline
  <2>1. left'["client"] = left["client"] /\ t' = t /\ pen' = pen
    BY <1>11, ServerReadsEffect
  <2>2. /\ Count("client")' > 0 /\ Count("client") \in Nat
        /\ FirstAge("client")' = IF Count("client") = 0 THEN 0 ELSE FirstAge("client")
    BY <1>11, ServerReadsView, ClientView DEF Sends, Reading, Added
  <2>3. Count("server") > 0
    BY <1>11, ServerReadsView DEF Taken
  <2>4. left["client"] > 0
    BY DEF ClientDeadline
  <2>5. CASE pen["closer"] = "idle" /\ Count("client") = 0
    <3>1. left["client"] + FirstAge("server") > 2 * t.delay
      BY <2>3, <2>5 DEF ClientDeadline
    <3>2. left["client"] > t.delay
      BY <2>3, <3>1, ServerView, LinkFacts
    <3> QED BY <2>1, <2>2, <2>4, <2>5, <3>2, LinkFacts DEF ClientDeadline
  <2>6. CASE pen["closer"] = "idle" /\ Count("client") # 0
    BY <2>1, <2>2, <2>4, <2>6 DEF ClientDeadline
  <2> QED BY <2>1, <2>4, <2>5, <2>6 DEF ClientDeadline
<1>12. CASE ServerEnds
  <2> SUFFICES ASSUME alive, client = "loop", isOpen PROVE ClientDeadline'
    BY <1>12, ServerEndsEffect DEF ClientDeadline
  <2>1. /\ left' = left /\ alive' = alive /\ isOpen' = isOpen /\ server' = "teardown"
    BY <1>12, ServerEndsEffect
  <2>2. pen'["closer"] # "idle"
    BY <2>1 DEF FinInv
  <2>3. left["client"] > 0
    BY DEF ClientDeadline
  <2> QED BY <2>1, <2>2, <2>3 DEF ClientDeadline
<1>13. CASE ServerCloses
  <2> SUFFICES ASSUME alive, client = "loop", isOpen PROVE ClientDeadline'
    BY <1>13, ServerClosesEffect DEF ClientDeadline
  <2>1. left' = left /\ pen' = pen /\ server = "teardown"
    BY <1>13, ServerClosesEffect DEF timer
  <2>2. pen["closer"] # "idle"
    BY <2>1 DEF FinInv
  <2>3. left["client"] > 0
    BY DEF ClientDeadline
  <2> QED BY <2>1, <2>2, <2>3 DEF ClientDeadline
<1>14. CASE Cancel
  <2>1. Same("client") /\ Same("server")
    BY <1>14, StillView DEF Cancel, seqs
  <2>2. /\ t' = t /\ left' = left /\ alive' = alive /\ client' = client /\ isOpen' = isOpen
        /\ pen'["closer"] = "idle" => pen["closer"] = "idle" /\ NextBeat' = NextBeat
    BY <1>14 DEF Cancel, NextBeat, timer
  <2> QED BY <2>1, <2>2, ClientDeadlineKept
<1>15. CASE Stop
  <2> SUFFICES ASSUME alive, client = "loop", isOpen PROVE ClientDeadline'
    BY <1>15, StopEffect DEF ClientDeadline
  <2>1. left' = left /\ t' = t /\ pen' = pen
    BY <1>15, StopEffect DEF timer
  <2>2. /\ Count("client")' > 0 /\ Count("client") \in Nat
        /\ FirstAge("client")' = IF Count("client") = 0 THEN 0 ELSE FirstAge("client")
    BY <1>15, StopView, ClientView DEF Sends, Reading, Added
  <2>4. left["client"] > 0
    BY DEF ClientDeadline
  <2>5. CASE pen["closer"] = "idle" /\ Count("client") = 0
    <3>1. left["client"] > t.delay
      <4>1. CASE Count("server") > 0
        BY <2>5, <4>1, ServerView, LinkFacts DEF ClientDeadline
      <4>2. CASE ~(Count("server") > 0)
        BY <2>5, <4>2, BeatFacts, LinkFacts DEF ClientDeadline
      <4> QED BY <4>1, <4>2
    <3> QED BY <2>1, <2>2, <2>4, <2>5, <3>1, LinkFacts DEF ClientDeadline
  <2>6. CASE pen["closer"] = "idle" /\ Count("client") # 0
    BY <2>1, <2>2, <2>4, <2>6 DEF ClientDeadline
  <2> QED BY <2>1, <2>4, <2>5, <2>6 DEF ClientDeadline
<1>16. CASE PathDies
  BY <1>16, PathDiesEffect DEF ClientDeadline
<1>17. CASE Tick
  <2> SUFFICES ASSUME alive, client = "loop", isOpen PROVE ClientDeadline'
    BY <1>17, TickEffect DEF ClientDeadline
  <2>1. /\ left["client"] > 0 /\ left'["client"] = left["client"] - 1
        /\ t' = t /\ pen["closer"] = "idle"
    BY <1>17, TickEffect, TickFacts, LinkFacts DEF Down
  <2>2. /\ Count("client")' = Count("client") /\ Count("server")' = Count("server")
        /\ Count("server") > 0 => FirstAge("server")' = FirstAge("server") + 1
        /\ Count("client") > 0 => FirstAge("client")' = FirstAge("client") + 1
    BY <1>17, TickView, TickFacts DEF Aged, Grown
  <2>3. NextBeat > 0 /\ NextBeat' = NextBeat - 1
    BY <1>17, TickEffect, TickFacts, LinkFacts DEF Down, NextBeat
  <2>4. CASE Count("client") > 0
    <3>1. left["client"] + FirstAge("client") > t.delay /\ FirstAge("client") < t.delay
      BY <1>17, <2>1, <2>4, TickFacts DEF ClientDeadline
    <3> QED BY <2>1, <2>2, <2>4, <3>1, ClientView, LinkFacts DEF ClientDeadline
  <2>5. CASE ~(Count("client") > 0) /\ Count("server") > 0
    <3>1. left["client"] + FirstAge("server") > 2 * t.delay /\ FirstAge("server") < t.delay
      BY <1>17, <2>1, <2>5, TickFacts DEF ClientDeadline
    <3> QED BY <2>1, <2>2, <2>5, <3>1, ServerView, LinkFacts DEF ClientDeadline
  <2>6. CASE ~(Count("client") > 0) /\ ~(Count("server") > 0)
    <3>1. left["client"] > 2 * t.delay + NextBeat
      BY <2>1, <2>6 DEF ClientDeadline
    <3> QED BY <2>1, <2>2, <2>3, <2>6, <3>1, BeatFacts, LinkFacts DEF ClientDeadline
  <2> QED BY <2>4, <2>5, <2>6
<1>18. CASE UNCHANGED vars
  <2>1. Same("client") /\ Same("server")
    BY <1>18, StillView DEF vars, seqs
  <2>2. /\ t' = t /\ left' = left /\ alive' = alive /\ client' = client /\ isOpen' = isOpen
        /\ pen'["closer"] = "idle" => pen["closer"] = "idle" /\ NextBeat' = NextBeat
    BY <1>18 DEF vars, NextBeat, timer
  <2> QED BY <2>1, <2>2, ClientDeadlineKept
<1> QED BY <1>1, <1>2, <1>3, <1>4, <1>5, <1>6, <1>7, <1>8, <1>9, <1>10, <1>11, <1>12, <1>13,
           <1>14, <1>15, <1>16, <1>17, <1>18 DEF Next

(* The ticks counted so far.                                               *)
LEMMA SinceFacts ==
    ASSUME TypeOK
    PROVE  since["death"] \in Nat /\ since["cancel"] \in Nat /\ since["end"] \in Nat
BY DEF TypeOK, Events

(* What a tick counts.                                                     *)
LEMMA CountFacts ==
    ASSUME TypeOK, Tick
    PROVE  /\ since'["death"] \in {since["death"], since["death"] + 1}
           /\ since'["cancel"] \in {since["cancel"], since["cancel"] + 1}
           /\ since'["end"] \in {since["end"], since["end"] + 1}
           /\ alive => since'["death"] = since["death"]
           /\ ~cancelled => since'["cancel"] = since["cancel"]
           /\ why["client"] = "none" /\ why["server"] = "none" => since'["end"] = since["end"]
<1>1. \A h \in Events : since'[h] = IF Counts(h) THEN since[h] + 1 ELSE since[h]
  BY TickEffect
<1>2. "death" \in Events /\ "cancel" \in Events /\ "end" \in Events
  BY DEF Events
<1>3. /\ Counts("death") => ~alive
      /\ Counts("cancel") => cancelled
      /\ Counts("end") => \E e \in Ends : why[e] # "none"
  BY DEF Counts
<1> QED BY <1>1, <1>2, <1>3 DEF Ends

(* After the path's death the deadlines run down, and only then.           *)
LEMMA DeathStep ==
    ASSUME TypeOK, PhaseInv, FinInv, ChainInv, ServerDeadline, ClientDeadline, DeathInv,
           [Next]_vars
    PROVE  DeathInv'
<1>1. CASE Reply
  <2>1. /\ UNCHANGED <<t, server, alive, left, why, since>> /\ client = "await"
        /\ client' = "setup"
    BY <1>1, ReplyEffect
  <2>2. alive
    <3>1. Count("client") > 0
      BY <1>1, ReplyView DEF Taken
    <3>2. ~alive => Count("client") = 0
      BY DEF PhaseInv
    <3> QED BY <3>1, <3>2
  <2> QED BY <2>1, <2>2 DEF DeathInv
<1>2. CASE NoReply
  BY <1>2, NoReplyEffect DEF DeathInv, timer
<1>3. CASE LoopStarts
  <2>1. /\ UNCHANGED <<t, server, alive, why, since>> /\ left'["server"] = left["server"]
        /\ client = "setup" /\ work["client"] = 0 /\ client' = "loop"
        /\ left'["client"] = t.timeout["client"]
    BY <1>3, LoopStartsEffect
  <2>2. ~alive => since["death"] <= t.setup
    BY <2>1, SinceFacts, LinkFacts DEF DeathInv
  <2>3. ~alive => since["death"] + t.timeout["client"] <= t.setup + t.timeout["client"]
    BY <2>2, SinceFacts, LinkFacts
  <2> QED BY <2>1, <2>3 DEF DeathInv
<1>4. CASE SetupFails
  BY <1>4, SetupFailsEffect DEF DeathInv, timer
<1>5. CASE Close
  <2>1. UNCHANGED <<t, client, server, alive, why, since>> /\ left'["server"] = left["server"]
        /\ left'["client"] = left["client"] /\ work'["client"] = work["client"]
    BY <1>5, CloseEffect DEF timer
  <2> QED BY <2>1 DEF DeathInv
<1>6. CASE ClientReads
  <2>1. /\ UNCHANGED <<t, client, server, alive, why, since>> /\ left'["server"] = left["server"]
        /\ client = "loop"
    BY <1>6, ClientReadsEffect
  <2>2. alive
    <3>1. Count("client") > 0
      BY <1>6, ClientReadsView DEF Taken
    <3>2. ~alive => Count("client") = 0
      BY DEF PhaseInv
    <3> QED BY <3>1, <3>2
  <2> QED BY <2>1, <2>2 DEF DeathInv
<1>7. CASE ClientEnds
  <2>1. why'["client"] = "timeout" => ~alive
    BY <1>7, ClientEndsEffect, LinkFacts DEF ClientDeadline
  <2> QED BY <1>7, <2>1, ClientEndsEffect DEF DeathInv
<1>8. ASSUME NEW w \in Writers, Seal(w) PROVE DeathInv'
  <2>1. UNCHANGED <<t, client, server, alive, why, since>> /\ left'["server"] = left["server"]
        /\ left'["client"] = left["client"] /\ work'["client"] = work["client"]
    BY <1>8, SealEffect
  <2> QED BY <2>1 DEF DeathInv
<1>9. ASSUME NEW w \in Writers, Bump(w) PROVE DeathInv'
  <2>1. UNCHANGED <<t, client, server, alive, why, since>> /\ left'["server"] = left["server"]
        /\ left'["client"] = left["client"] /\ work'["client"] = work["client"]
    BY <1>9, BumpEffect DEF timer
  <2> QED BY <2>1 DEF DeathInv
<1>10. ASSUME NEW w \in Writers, Put(w) PROVE DeathInv'
  <2>1. UNCHANGED <<t, client, server, alive, why, since>> /\ left'["server"] = left["server"]
        /\ left'["client"] = left["client"] /\ work'["client"] = work["client"]
    BY <1>10, PutEffect DEF timer
  <2> QED BY <2>1 DEF DeathInv
<1>11. CASE ServerReads
  <2>1. UNCHANGED <<t, client, server, alive, why, since>>
    BY <1>11, ServerReadsEffect
  <2>2. alive
    <3>1. Count("server") > 0
      BY <1>11, ServerReadsView DEF Taken
    <3>2. ~alive => Count("server") = 0
      BY DEF PhaseInv
    <3> QED BY <3>1, <3>2
  <2> QED BY <2>1, <2>2 DEF DeathInv
<1>12. CASE ServerEnds
  <2>1. /\ UNCHANGED <<t, client, alive, left, since>> /\ work'["client"] = work["client"]
        /\ why'["client"] = why["client"] /\ server' = "teardown"
    BY <1>12, ServerEndsEffect
  <2>2. why'["server"] = "timeout" => ~alive
    BY <1>12, ServerEndsFacts
  <2> QED BY <2>1, <2>2 DEF DeathInv
<1>13. CASE ServerCloses
  BY <1>13, ServerClosesEffect DEF DeathInv, timer
<1>14. CASE Cancel
  <2>1. UNCHANGED <<t, client, server, alive, why, since>> /\ left'["server"] = left["server"]
        /\ left'["client"] = left["client"] /\ work'["client"] = work["client"]
    BY <1>14 DEF Cancel, timer
  <2> QED BY <2>1 DEF DeathInv
<1>15. CASE Stop
  BY <1>15, StopEffect DEF DeathInv, timer
<1>16. CASE PathDies
  BY <1>16, PathDiesEffect, SinceFacts, LinkFacts DEF DeathInv, timer
<1>17. CASE Tick
  <2>1. /\ t' = t /\ alive' = alive /\ client' = client /\ server' = server /\ why' = why
        /\ since'["death"] \in {since["death"], since["death"] + 1}
        /\ alive => since'["death"] = since["death"]
    BY <1>17, TickEffect, CountFacts
  <2>2. /\ server = "loop" => left["server"] > 0 /\ left'["server"] = left["server"] - 1
        /\ client = "loop" => left["client"] > 0 /\ left'["client"] = left["client"] - 1
        /\ client = "setup" => work["client"] > 0 /\ work'["client"] = work["client"] - 1
    BY <1>17, TickEffect, TickFacts, LinkFacts DEF Down
  <2> QED BY <2>1, <2>2, SinceFacts, LinkFacts DEF DeathInv
<1>18. CASE UNCHANGED vars
  <2>1. UNCHANGED <<t, client, server, alive, why, since>> /\ left'["server"] = left["server"]
        /\ left'["client"] = left["client"] /\ work'["client"] = work["client"]
    BY <1>18 DEF vars, timer
  <2> QED BY <2>1 DEF DeathInv
<1> QED BY <1>1, <1>2, <1>3, <1>4, <1>5, <1>6, <1>7, <1>8, <1>9, <1>10, <1>11, <1>12, <1>13,
           <1>14, <1>15, <1>16, <1>17, <1>18 DEF Next

(* A cancelled client ends the session in time.                            *)
LEMMA CancelStep ==
    ASSUME TypeOK, PhaseInv, FinInv, AgeInv, CancelInv, [Next]_vars
    PROVE  CancelInv'
<1>1. CASE Reply
  <2>1. /\ UNCHANGED <<t, cancelled, alive, since>> /\ client = "await" /\ client' = "setup"
        /\ work'["client"] \in Nat /\ work'["client"] <= t.setup
    BY <1>1, ReplyEffect, LinkFacts
  <2>2. cancelled /\ alive => since["cancel"] <= FirstAge("client")
    BY <2>1 DEF CancelInv, Over
  <2>3. alive => FirstAge("client") \in Nat /\ FirstAge("client") <= t.delay
    BY <2>1, ClientView, LinkFacts DEF PhaseInv
  <2> QED BY <2>1, <2>2, <2>3, SinceFacts, LinkFacts DEF CancelInv
<1>2. CASE NoReply
  <2>1. UNCHANGED <<cancelled, alive, since>> /\ ~alive
    BY <1>2, NoReplyEffect
  <2> QED BY <2>1 DEF CancelInv
<1>3. CASE LoopStarts
  <2>1. /\ UNCHANGED <<t, isOpen, cancelled, alive, since>> /\ client = "setup" /\ client' = "loop"
        /\ work["client"] = 0
    BY <1>3, LoopStartsEffect
  <2>2. isOpen
    BY <2>1 DEF PhaseInv
  <2>3. cancelled /\ alive => since["cancel"] <= t.setup + t.delay
    BY <2>1, SinceFacts, LinkFacts DEF CancelInv, Over
  <2> QED BY <2>1, <2>2, <2>3, SinceFacts, LinkFacts DEF CancelInv
<1>4. CASE SetupFails
  <2>1. /\ UNCHANGED <<t, server, cancelled, alive, since>> /\ client = "setup" /\ client' = "ended"
        /\ isOpen' = FALSE
    BY <1>4, SetupFailsEffect
  <2>2. alive /\ server = "loop" => LastAge("server")' = 0
    BY <1>4, SetupFailsView DEF Sends, Reading, Added
  <2>3. cancelled /\ alive => since["cancel"] <= t.setup + t.delay
    BY <2>1, SinceFacts, LinkFacts DEF CancelInv, Over
  <2> QED BY <2>1, <2>2, <2>3, SinceFacts, LinkFacts DEF CancelInv
<1>5. CASE Close
  <2>1. /\ UNCHANGED <<t, client, server, cancelled, alive, since>> /\ isOpen' = FALSE
        /\ isOpen /\ client \in {"loop", "ended"}
    BY <1>5, CloseEffect, PlaceFacts DEF MayClose, PhaseInv
  <2>2. alive /\ server = "loop" => LastAge("server")' = 0
    BY <1>5, CloseView DEF Sends, Reading, Added
  <2>3. cancelled /\ alive /\ ~Over => since["cancel"] <= t.setup + t.delay
    BY <2>1 DEF CancelInv
  <2> QED BY <2>1, <2>2, <2>3, SinceFacts, LinkFacts DEF CancelInv, Over
<1>6. CASE ClientReads
  <2>1. UNCHANGED <<t, client, server, isOpen, work, cancelled, alive, since>> /\ client = "loop"
    BY <1>6, ClientReadsEffect
  <2>2. LastAge("server")' = LastAge("server")
    BY <1>6, ClientReadsView DEF Same
  <2> QED BY <2>1, <2>2 DEF CancelInv, Over
<1>7. CASE ClientEnds
  <2>1. /\ UNCHANGED <<t, server, isOpen, cancelled, alive, since>>
        /\ client = "loop" /\ client' = "ended"
    BY <1>7, ClientEndsEffect
  <2>2. LastAge("server")' = LastAge("server")
    BY <1>7, ClientEndsView DEF Same
  <2> QED BY <2>1, <2>2 DEF CancelInv, Over
<1>8. ASSUME NEW w \in Writers, Seal(w) PROVE CancelInv'
  <2>1. UNCHANGED <<t, client, server, isOpen, work, cancelled, alive, since, wire, readSeq>>
    BY <1>8, SealEffect DEF seqs
  <2>2. FirstAge("client")' = FirstAge("client") /\ LastAge("server")' = LastAge("server")
    BY <2>1, StillView DEF Same
  <2> QED BY <2>1, <2>2 DEF CancelInv, Over
<1>9. ASSUME NEW w \in Writers, Bump(w) PROVE CancelInv'
  <2>1. UNCHANGED <<t, client, server, isOpen, work, cancelled, alive, since, wire, readSeq>>
    BY <1>9, BumpEffect DEF timer
  <2>2. FirstAge("client")' = FirstAge("client") /\ LastAge("server")' = LastAge("server")
    BY <2>1, StillView DEF Same
  <2> QED BY <2>1, <2>2 DEF CancelInv, Over
<1>10. ASSUME NEW w \in Writers, Put(w) PROVE CancelInv'
  <2>1. client \in {"loop", "ended"}
    BY <1>10, PutEffect, PlaceFacts DEF PhaseInv, Writers
  <2>2. ~isOpen => LastAge("server")' = LastAge("server")
    BY <1>10, PutView DEF Same
  <2>3. UNCHANGED <<t, client, server, isOpen, work, cancelled, alive, since>>
    BY <1>10, PutEffect DEF timer
  <2> QED BY <2>1, <2>2, <2>3 DEF CancelInv, Over
<1>11. CASE ServerReads
  <2>1. ~isOpen /\ alive => LastAge("server")' = LastAge("server")
    BY <1>11, ServerReadsEffect, ServerReadsView, FinStays, TwoEnds DEF FinInv
  <2>2. /\ UNCHANGED <<t, client, isOpen, work, cancelled, alive, since>>
        /\ server = "loop" /\ server' = "loop"
    BY <1>11, ServerReadsEffect
  <2>3. client # "await"
    BY <1>11, ServerReadsView DEF PhaseInv, Taken
  <2> QED BY <2>1, <2>2, <2>3 DEF CancelInv, Over
<1>12. CASE ServerEnds
  <2>1. /\ UNCHANGED <<t, client, isOpen, cancelled, alive, since>> /\ work'["client"] = work["client"]
        /\ server = "loop" /\ server' = "teardown"
    BY <1>12, ServerEndsEffect
  <2>2. FirstAge("client")' = FirstAge("client")
    BY <1>12, ServerEndsView DEF Same
  <2> QED BY <2>1, <2>2 DEF CancelInv, Over
<1>13. CASE ServerCloses
  <2>1. /\ UNCHANGED <<t, client, isOpen, work, cancelled, alive, since>>
        /\ server = "teardown" /\ server' = "closed"
    BY <1>13, ServerClosesEffect DEF timer
  <2>2. alive /\ client = "await" => FirstAge("client")' = FirstAge("client")
    BY <1>13, ServerClosesView, ClientView DEF Sends, Reading, Added, PhaseInv
  <2> QED BY <2>1, <2>2 DEF CancelInv, Over
<1>14. CASE Cancel
  <2>1. /\ UNCHANGED <<t, client, server, isOpen, work, alive, since>> /\ ~cancelled
        /\ FirstAge("client")' = FirstAge("client") /\ LastAge("server")' = LastAge("server")
    BY <1>14, StillView DEF Cancel, Same, seqs, timer
  <2>2. since["cancel"] = 0
    BY <2>1 DEF CancelInv
  <2>3. /\ alive /\ server = "loop" /\ ~isOpen => LastAge("server") \in Nat
        /\ alive /\ client = "await" => FirstAge("client") \in Nat
    BY ClientView, ServerView, LinkFacts DEF FinInv, PhaseInv
  <2> QED BY <2>1, <2>2, <2>3, LinkFacts DEF CancelInv
<1>15. CASE Stop
  <2>1. /\ UNCHANGED <<t, client, isOpen, work, cancelled, alive, since>>
        /\ server = "loop" /\ server' = "closed"
    BY <1>15, StopEffect DEF timer
  <2>2. alive /\ client = "await" => FirstAge("client")' = FirstAge("client")
    BY <1>15, StopView, ClientView DEF Sends, Reading, Added, PhaseInv
  <2> QED BY <2>1, <2>2 DEF CancelInv, Over
<1>16. CASE PathDies
  <2>1. UNCHANGED <<cancelled, since>> /\ ~alive'
    BY <1>16, PathDiesEffect
  <2> QED BY <2>1 DEF CancelInv
<1>17. CASE Tick
  <2>1. /\ t' = t /\ alive' = alive /\ client' = client /\ server' = server /\ isOpen' = isOpen
        /\ cancelled' = cancelled
        /\ since'["cancel"] \in {since["cancel"], since["cancel"] + 1}
        /\ ~cancelled => since'["cancel"] = since["cancel"]
    BY <1>17, TickEffect, CountFacts
  <2> SUFFICES ASSUME cancelled, alive, ~Over PROVE CancelInv'
    BY <2>1 DEF CancelInv, Over
  <2>2. client # "loop" /\ (client = "ended" => ~isOpen)
    BY <1>17, TickFacts
  <2>3. CASE client = "await"
    <3>1. FirstAge("client")' = FirstAge("client") + 1 /\ FirstAge("client") < t.delay
      BY <1>17, <2>3, TickView, TickFacts DEF Aged, Grown, PhaseInv
    <3>2. Count("client") > 0
      BY <2>3 DEF PhaseInv
    <3>3. FirstAge("client") \in Nat
      BY <3>2, ClientView, LinkFacts
    <3>4. since["cancel"] <= FirstAge("client")
      BY <2>3 DEF CancelInv
    <3>5. since'["cancel"] <= FirstAge("client")' /\ since'["cancel"] <= t.setup + 2 * t.delay
      BY <2>1, <3>1, <3>3, <3>4, SinceFacts, LinkFacts
    <3> QED BY <2>1, <2>3, <3>5 DEF CancelInv
  <2>4. CASE client = "setup"
    <3>1. work["client"] > 0 /\ work'["client"] = work["client"] - 1
      BY <1>17, <2>4, TickEffect, TickFacts, LinkFacts DEF Down
    <3>2. since["cancel"] + work["client"] <= t.setup + t.delay
      BY <2>4 DEF CancelInv
    <3>3. /\ since'["cancel"] + work'["client"] <= t.setup + t.delay
          /\ since'["cancel"] <= t.setup + 2 * t.delay
      BY <2>1, <3>1, <3>2, SinceFacts, LinkFacts
    <3> QED BY <2>1, <2>4, <3>3 DEF CancelInv
  <2>5. CASE client = "ended"
    <3>1. server = "loop" /\ ~isOpen /\ Count("server") > 0
      BY <2>2, <2>5 DEF Over, FinInv
    <3>2. LastAge("server") \in Nat /\ LastAge("server") < t.delay
      BY <1>17, <3>1, TickFacts, ServerView, LinkFacts DEF AgeInv
    <3>3. LastAge("server")' = LastAge("server") + 1
      BY <1>17, <3>1, <3>2, TickView DEF Aged, Grown
    <3>4. since["cancel"] <= t.setup + t.delay + LastAge("server")
      BY <2>5, <3>1 DEF CancelInv
    <3> QED BY <2>1, <2>5, <3>1, <3>2, <3>3, <3>4, SinceFacts, LinkFacts DEF CancelInv
  <2> QED BY <2>2, <2>3, <2>4, <2>5, PlaceFacts
<1>18. CASE UNCHANGED vars
  <2>1. UNCHANGED <<t, client, server, isOpen, work, cancelled, alive, since, wire, readSeq>>
    BY <1>18 DEF vars, seqs, timer
  <2>2. FirstAge("client")' = FirstAge("client") /\ LastAge("server")' = LastAge("server")
    BY <2>1, StillView DEF Same
  <2> QED BY <2>1, <2>2 DEF CancelInv, Over
<1> QED BY <1>1, <1>2, <1>3, <1>4, <1>5, <1>6, <1>7, <1>8, <1>9, <1>10, <1>11, <1>12, <1>13,
           <1>14, <1>15, <1>16, <1>17, <1>18 DEF Next

(* An end whose peer has left its loop follows in time.                    *)
LEMMA EndStep ==
    ASSUME TypeOK, PhaseInv, FinInv, FinInv', AgeInv, EndInv, [Next]_vars
    PROVE  EndInv'
<1>1. CASE Reply
  <2>0. /\ UNCHANGED <<t, server, isOpen, alive, pen, since>> /\ client = "await" /\ client' = "setup"
        /\ work'["client"] \in 0..t.setup
    BY <1>1, ReplyEffect
  <2>1. /\ UNCHANGED <<t, server, isOpen, alive, pen, since>> /\ client = "await" /\ client' = "setup"
        /\ work'["client"] \in Nat /\ work'["client"] <= t.setup
    <3>1. work'["client"] \in Nat /\ work'["client"] <= t.setup
      BY <2>0, LinkFacts
    <3> QED BY <2>0, <3>1
  <2>2. alive /\ server # "loop" => LastAge("client")' = LastAge("client")
    BY <1>1, ReplyEffect, ReplyView, FinStays, TwoEnds, PlaceFacts DEF FinInv, PhaseInv
  <2>3. alive /\ server # "loop" => since["end"] <= LastAge("client") /\ since["end"] <= t.setup + t.delay
    BY <2>1 DEF EndInv, Over
  <2>4. alive => LastAge("client") \in Nat
    BY <2>1, ClientView, LinkFacts DEF PhaseInv
  <2> QED BY <2>1, <2>2, <2>3, <2>4, SinceFacts, LinkFacts DEF EndInv, Over
<1>2. CASE NoReply
  <2>1. /\ UNCHANGED <<server, alive, since>> /\ ~alive /\ client = "await" /\ client' = "ended"
    BY <1>2, NoReplyEffect
  <2> QED BY <2>1 DEF EndInv
<1>3. CASE LoopStarts
  <2>1. /\ UNCHANGED <<t, server, isOpen, pen, alive, since, wire, readSeq>>
        /\ client = "setup" /\ client' = "loop" /\ work["client"] = 0
    BY <1>3, LoopStartsEffect DEF seqs
  <2>2. LastAge("client")' = LastAge("client")
    BY <2>1, StillView DEF Same
  <2>3. alive /\ server # "loop" => since["end"] <= t.setup + LastAge("client")
    BY <2>1, SinceFacts DEF EndInv, Over
  <2> QED BY <2>1, <2>2, <2>3 DEF EndInv, Over
<1>4. CASE SetupFails
  <2>1. /\ UNCHANGED <<t, server, alive, since>> /\ client = "setup" /\ client' = "ended"
        /\ isOpen' = FALSE
    BY <1>4, SetupFailsEffect
  <2>2. alive /\ server = "loop" => LastAge("server")' = 0
    BY <1>4, SetupFailsView DEF Sends, Reading, Added
  <2>3. server = "loop" => since["end"] = 0
    BY <2>1 DEF EndInv
  <2> QED BY <2>1, <2>2, <2>3, LinkFacts DEF EndInv, Over
<1>5. CASE Close
  <2>1. /\ UNCHANGED <<t, client, server, alive, since>> /\ isOpen' = FALSE
        /\ isOpen /\ client \in {"loop", "ended"}
    BY <1>5, CloseEffect, PlaceFacts DEF MayClose, PhaseInv
  <2>2. alive /\ server = "loop" => LastAge("server")' = 0
    BY <1>5, CloseView DEF Sends, Reading, Added
  <2>3. alive /\ client = "ended" /\ server = "loop" => since["end"] = 0
    BY <2>1 DEF EndInv, Over
  <2> QED BY <2>1, <2>2, <2>3, LinkFacts DEF EndInv, Over
<1>6. CASE ClientReads
  <2>1. UNCHANGED <<t, client, server, isOpen, alive, pen, work, since>> /\ client = "loop" /\ isOpen
    BY <1>6, ClientReadsEffect
  <2>2. alive /\ server # "loop" /\ pen["closer"] = "idle" => LastAge("client")' = LastAge("client")
    BY <1>6, ClientReadsEffect, ClientReadsView, FinStays, TwoEnds, PlaceFacts DEF FinInv
  <2> QED BY <2>1, <2>2 DEF EndInv, Over
<1>7. CASE ClientEnds
  <2>1. UNCHANGED <<t, server, isOpen, alive, since>> /\ client = "loop" /\ client' = "ended"
    BY <1>7, ClientEndsEffect
  <2>2. LastAge("server")' = LastAge("server")
    BY <1>7, ClientEndsView DEF Same
  <2>3. alive /\ server = "loop" /\ ~isOpen => LastAge("server") \in Nat
    BY ServerView, LinkFacts DEF FinInv
  <2>4. server = "loop" => since["end"] = 0
    BY <2>1 DEF EndInv
  <2> QED BY <2>1, <2>2, <2>3, <2>4, LinkFacts DEF EndInv, Over
<1>8. ASSUME NEW w \in Writers, Seal(w) PROVE EndInv'
  <2>1. UNCHANGED <<t, client, server, isOpen, work, alive, since, wire, readSeq>>
        /\ (pen'["closer"] = "idle" => pen["closer"] = "idle")
    BY <1>8, SealEffect DEF Writers, seqs
  <2>2. LastAge("client")' = LastAge("client") /\ LastAge("server")' = LastAge("server")
    BY <2>1, StillView DEF Same
  <2> QED BY <2>1, <2>2 DEF EndInv, Over
<1>9. ASSUME NEW w \in Writers, Bump(w) PROVE EndInv'
  <2>1. UNCHANGED <<t, client, server, isOpen, work, alive, since, wire, readSeq>>
        /\ (pen'["closer"] = "idle" => pen["closer"] = "idle")
    BY <1>9, BumpEffect DEF Writers, timer
  <2>2. LastAge("client")' = LastAge("client") /\ LastAge("server")' = LastAge("server")
    BY <2>1, StillView DEF Same
  <2> QED BY <2>1, <2>2 DEF EndInv, Over
<1>10. ASSUME NEW w \in Writers, Put(w) PROVE EndInv'
  <2>1. client \in {"loop", "ended"}
    BY <1>10, PutEffect, PlaceFacts DEF PhaseInv, Writers
  <2>2. /\ LastAge("client")' = LastAge("client")
        /\ ~isOpen => LastAge("server")' = LastAge("server")
    BY <1>10, PutView DEF Same
  <2>3. UNCHANGED <<t, client, server, isOpen, work, alive, since>>
    BY <1>10, PutEffect DEF timer
  <2>4. pen'["closer"] = "idle" => pen["closer"] = "idle"
    BY <1>10, PutEffect DEF Writers
  <2> QED BY <2>1, <2>2, <2>3, <2>4 DEF EndInv, Over
<1>11. CASE ServerReads
  <2>1. ~isOpen /\ alive => LastAge("server")' = LastAge("server")
    BY <1>11, ServerReadsEffect, ServerReadsView, FinStays, TwoEnds DEF FinInv
  <2>2. /\ UNCHANGED <<t, client, isOpen, pen, work, alive, since>>
        /\ server = "loop" /\ server' = "loop"
    BY <1>11, ServerReadsEffect
  <2> QED BY <2>1, <2>2 DEF EndInv, Over
<1>12. CASE ServerEnds
  <2>1. /\ UNCHANGED <<t, client, isOpen, pen, alive, since>>
        /\ server = "loop" /\ server' = "teardown"
    BY <1>12, ServerEndsEffect
  <2>2. alive => ~isOpen \/ pen["closer"] # "idle"
    BY <2>1 DEF FinInv
  <2>3. client # "ended" => since["end"] = 0
    BY <2>1 DEF EndInv
  <2> QED BY <2>1, <2>2, <2>3, PlaceFacts, LinkFacts DEF EndInv, Over, PhaseInv
<1>13. CASE ServerCloses
  <2>1. /\ UNCHANGED <<t, client, isOpen, pen, alive, since>>
        /\ server = "teardown" /\ server' = "closed"
    BY <1>13, ServerClosesEffect
  <2>2. alive => ~isOpen \/ pen["closer"] # "idle"
    BY <2>1 DEF FinInv
  <2> QED BY <2>1, <2>2, PlaceFacts DEF EndInv, Over, PhaseInv
<1>14. CASE Cancel
  <2>1. UNCHANGED <<t, client, server, isOpen, work, alive, since, wire, readSeq>>
        /\ (pen'["closer"] = "idle" => pen["closer"] = "idle")
    BY <1>14 DEF Cancel, seqs, timer
  <2>2. LastAge("client")' = LastAge("client") /\ LastAge("server")' = LastAge("server")
    BY <2>1, StillView DEF Same
  <2> QED BY <2>1, <2>2 DEF EndInv, Over
<1>15. CASE Stop
  <2>1. /\ UNCHANGED <<t, client, isOpen, pen, alive, work, since>>
        /\ server = "loop" /\ server' = "closed"
    BY <1>15, StopEffect DEF timer
  <2>2. alive /\ client # "ended" => LastAge("client")' = 0
    BY <1>15, StopView DEF Sends, Reading, Added
  <2>3. client # "ended" => since["end"] = 0
    BY <2>1 DEF EndInv
  <2> QED BY <2>1, <2>2, <2>3, PlaceFacts, LinkFacts DEF EndInv, Over
<1>16. CASE PathDies
  <2>1. UNCHANGED <<client, server, since>> /\ ~alive'
    BY <1>16, PathDiesEffect
  <2> QED BY <2>1 DEF EndInv
<1>17. CASE Tick
  <2>1. /\ t' = t /\ alive' = alive /\ client' = client /\ server' = server /\ isOpen' = isOpen
        /\ pen' = pen
        /\ since'["end"] \in {since["end"], since["end"] + 1}
        /\ client # "ended" /\ server = "loop" => since'["end"] = since["end"]
    BY <1>17, TickEffect, CountFacts DEF PhaseInv
  <2>2. CASE client # "ended" /\ server = "loop"
    BY <2>1, <2>2, LinkFacts DEF EndInv, Over
  <2>3. CASE ~alive \/ Over
    BY <2>1, <2>3 DEF EndInv, Over
  <2>4. CASE alive /\ ~Over /\ client = "ended"
    <3>1. server = "loop" /\ ~isOpen /\ Count("server") > 0
      BY <1>17, <2>4, TickFacts DEF Over, FinInv
    <3>2. LastAge("server") \in Nat /\ LastAge("server") < t.delay
      BY <1>17, <3>1, TickFacts, ServerView, LinkFacts DEF AgeInv
    <3>3. LastAge("server")' = LastAge("server") + 1
      BY <1>17, <3>1, <3>2, TickView DEF Aged, Grown
    <3>4. since["end"] <= LastAge("server")
      BY <2>4, <3>1 DEF EndInv
    <3> QED BY <2>1, <2>4, <3>1, <3>2, <3>3, <3>4, SinceFacts, LinkFacts DEF EndInv
  <2>5. CASE alive /\ client # "ended" /\ server # "loop"
    <3>1. server = "closed" /\ Count("client") > 0 /\ isOpen
      BY <1>17, <2>5, TickFacts, PlaceFacts DEF FinInv, PhaseInv
    <3>2. LastAge("client") \in Nat /\ LastAge("client") <= t.delay
          /\ LastAge("client") <= FirstAge("client") /\ FirstAge("client") \in Nat
      BY <3>1, ClientView, LinkFacts DEF AgeInv
    <3>3. LastAge("client")' = Grown(LastAge("client"))
      BY <1>17, <3>1, TickView DEF Aged
    <3>4. CASE client = "setup"
      <4>1. work["client"] > 0 /\ work'["client"] = work["client"] - 1
        BY <1>17, <3>4, TickEffect, TickFacts, LinkFacts DEF Down
      <4>2. LastAge("client")' >= LastAge("client") /\ LastAge("client")' \in Nat /\ LastAge("client")' <= t.delay
        BY <3>2, <3>3, LinkFacts DEF Grown
      <4>3. since["end"] + work["client"] <= t.setup + LastAge("client")
        BY <2>5, <3>4 DEF EndInv, Over
      <4>4. /\ since'["end"] + work'["client"] <= t.setup + LastAge("client")'
            /\ since'["end"] <= t.setup + t.delay
        BY <2>1, <3>2, <4>1, <4>2, <4>3, SinceFacts, LinkFacts
      <4> QED BY <2>1, <2>5, <3>4, <4>4 DEF EndInv
    <3>5. CASE client # "setup"
      <4>1. LastAge("client") < t.delay
        BY <1>17, <3>1, <3>2, <3>5, TickFacts, LinkFacts
      <4>2. LastAge("client")' = LastAge("client") + 1
        BY <3>3, <4>1 DEF Grown
      <4>3. CASE client = "await"
        <5>1. since["end"] <= LastAge("client")
          BY <2>5, <4>3 DEF EndInv, Over
        <5> QED BY <2>1, <2>5, <3>2, <4>1, <4>2, <4>3, <5>1, SinceFacts, LinkFacts
                   DEF EndInv
      <4>4. CASE client = "loop"
        <5>1. since["end"] <= t.setup + LastAge("client")
          BY <1>17, <2>5, <4>4, TickFacts DEF EndInv, Over
        <5> QED BY <2>1, <2>5, <3>2, <4>1, <4>2, <4>4, <5>1, SinceFacts, LinkFacts
                   DEF EndInv
      <4> QED BY <2>5, <3>5, <4>3, <4>4, PlaceFacts
    <3> QED BY <3>4, <3>5
  <2> QED BY <2>2, <2>3, <2>4, <2>5
<1>18. CASE UNCHANGED vars
  <2>1. UNCHANGED <<t, client, server, isOpen, work, alive, since, wire, readSeq>>
        /\ (pen'["closer"] = "idle" => pen["closer"] = "idle")
    BY <1>18 DEF vars, seqs, timer
  <2>2. LastAge("client")' = LastAge("client") /\ LastAge("server")' = LastAge("server")
    BY <2>1, StillView DEF Same
  <2> QED BY <2>1, <2>2 DEF EndInv, Over
<1> QED BY <1>1, <1>2, <1>3, <1>4, <1>5, <1>6, <1>7, <1>8, <1>9, <1>10, <1>11, <1>12, <1>13,
           <1>14, <1>15, <1>16, <1>17, <1>18 DEF Next

-----------------------------------------------------------------------------
(* The inductive invariant.                                                *)
LinkInv ==
    /\ TypeOK /\ PhaseInv /\ FinInv /\ ChainInv /\ AgeInv
    /\ ServerDeadline /\ ClientDeadline /\ DeathInv /\ CancelInv /\ EndInv

(* The invariant holds when the reply has been sent.                       *)
LEMMA LinkInit == Init => LinkInv
<1> SUFFICES ASSUME Init PROVE LinkInv
  OBVIOUS
<1>0. TypeOK
  BY TypeInit
<1>1. /\ client = "await" /\ server = "loop" /\ isOpen /\ alive /\ ~cancelled
      /\ pen["sender"] = "idle" /\ pen["closer"] = "idle"
      /\ why["client"] = "none" /\ why["server"] = "none"
      /\ since["cancel"] = 0 /\ since["death"] = 0 /\ since["end"] = 0
      /\ readSeq["client"] = 0 /\ writeSeq["server"] = 1
      /\ readSeq["server"] = 1 /\ writeSeq["client"] = 1
      /\ left["server"] = t.timeout["server"]
  BY DEF Init, Writers, Ends, Events
<1>2. wire["client"] = <<Frame("reply", 0)>> /\ wire["server"] = <<>>
  BY DEF Init, Ends
<1>3. Frame("reply", 0).kind = "reply" /\ Frame("reply", 0).seq = 0 /\ Frame("reply", 0).age = 0
  BY DEF Frame
<1> DEFINE f == Frame("reply", 0)
<1>4. /\ Len(wire["client"]) = 1 /\ wire["client"][1] = f /\ Len(wire["server"]) = 0
  BY <1>2
<1> HIDE DEF f
<1>5. /\ Count("client") = 1 /\ Count("server") = 0
      /\ FirstAge("client") = 0
      /\ Sorted("client") /\ Sorted("server")
  BY <1>3, <1>4 DEF Count, FirstAge, Sorted, f
<1>6. Without("server", "bye") /\ Without("server", "fin") /\ Chain("server")
  BY <1>4 DEF Without, Chain
<1>7. Chain("client")
  BY <1>1, <1>3, <1>4 DEF Chain, f
<1>8. Expected("client") = 1 /\ Expected("server") = 1
  <2>1. Plus1(0) = 1
    BY TimingAssumption DEF Plus1
  <2> QED BY <1>1, <1>3, <1>4, <2>1 DEF Expected, f
<1>9. PhaseInv /\ FinInv /\ AgeInv
  BY <1>1, <1>5, <1>6 DEF PhaseInv, FinInv, AgeInv
<1>10. ChainInv
  BY <1>1, <1>6, <1>7, <1>8 DEF ChainInv
<1>11. ServerDeadline /\ ClientDeadline /\ DeathInv
  BY <1>0, <1>1, <1>5, LinkFacts DEF ServerDeadline, ClientDeadline, DeathInv
<1>12. CancelInv /\ EndInv
  BY <1>0, <1>1, LinkFacts DEF CancelInv, EndInv, Over
<1> QED BY <1>0, <1>9, <1>10, <1>11, <1>12 DEF LinkInv

(* Every step keeps the invariant.                                         *)
LEMMA LinkStep == LinkInv /\ [Next]_vars => LinkInv'
<1> SUFFICES ASSUME LinkInv, [Next]_vars PROVE LinkInv'
  OBVIOUS
<1>1. /\ TypeOK /\ PhaseInv /\ FinInv /\ ChainInv /\ AgeInv
      /\ ServerDeadline /\ ClientDeadline /\ DeathInv /\ CancelInv /\ EndInv
  BY DEF LinkInv
<1>2. TypeOK'
  BY <1>1, TypeStep
<1>3. PhaseInv'
  BY <1>1, PhaseStep
<1>4. FinInv'
  BY <1>1, FinStep
<1>5. ChainInv'
  BY <1>1, ChainStep
<1>6. AgeInv'
  BY <1>1, AgeStep
<1>7. ServerDeadline'
  BY <1>1, ServerDeadlineStep
<1>8. ClientDeadline'
  BY <1>1, <1>4, ClientDeadlineStep
<1>9. DeathInv'
  BY <1>1, DeathStep
<1>10. CancelInv'
  BY <1>1, CancelStep
<1>11. EndInv'
  BY <1>1, <1>4, EndStep
<1> QED BY <1>2, <1>3, <1>4, <1>5, <1>6, <1>7, <1>8, <1>9, <1>10, <1>11 DEF LinkInv

(* The invariant holds throughout.                                         *)
LEMMA LinkInvariant == Spec => []LinkInv
BY LinkInit, LinkStep, PTL DEF Spec

(* ControlLink, secure.go:24-25 and client.go:138-155: every variable      *)
(* keeps its type: no sequence number reaches the modulus, no deadline     *)
(* exceeds the timeout of its own end, and no clock of the history runs    *)
(* past its bound.                                                         *)
THEOREM LinkTypeCorrect == Spec => []TypeOK
<1>1. LinkInv => TypeOK
  BY DEF LinkInv
<1> QED BY <1>1, LinkInvariant, PTL

(* ControlLink, secure.go:70-95 and client.go:150-177: as long as nobody   *)
(* cancels the client, no frame fails to open at either end, whatever the  *)
(* modulus at which the sequence numbers wrap around.                      *)
THEOREM LinkFramesOpen == Spec => []FramesOpen
<1>1. LinkInv => FramesOpen
  BY DEF LinkInv, ChainInv, FramesOpen, Ends
<1> QED BY <1>1, LinkInvariant, PTL

(* ControlLink, client.go:179-186 and server.go:336-345: no end times out  *)
(* while the path delivers within its delay, and both notice a dead path   *)
(* within their timeouts, for all timings the assumption allows.           *)
THEOREM LinkTimeoutMeansDeath == Spec => []TimeoutMeansDeath
<1>1. LinkInv => TimeoutMeansDeath
  <2> SUFFICES ASSUME LinkInv PROVE TimeoutMeansDeath
    OBVIOUS
  <2>1. TypeOK /\ DeathInv
    BY DEF LinkInv
  <2>2. \A e \in Ends : why[e] = "timeout" => ~alive
    BY <2>1 DEF DeathInv, Ends
  <2>3. ~alive => /\ since["death"] > t.timeout["server"] => server # "loop"
                  /\ since["death"] > t.setup + t.timeout["client"] => client # "loop"
    BY <2>1, LinkFacts, SinceFacts DEF DeathInv
  <2> QED BY <2>2, <2>3 DEF TimeoutMeansDeath
<1> QED BY <1>1, LinkInvariant, PTL

(* ControlLink, client.go:169-177 and server.go:180-213: while the path    *)
(* lives, a cancellation ends both ends within set-up and two delays, and  *)
(* an end whose peer has left follows within set-up, teardown and delay,   *)
(* although sender and closer write without a lock.                        *)
THEOREM LinkEndsTogether == Spec => []EndsTogether
<1>1. LinkInv => EndsTogether
  <2> SUFFICES ASSUME LinkInv, alive, ~Over
               PROVE  ~(since["cancel"] > Bound("cancel")) /\ ~(since["end"] > Bound("end"))
    BY DEF EndsTogether
  <2>1. TypeOK /\ CancelInv /\ EndInv /\ t \in Timings
    BY DEF LinkInv, TypeOK
  <2>2. Bound("cancel") = t.setup + 2 * t.delay /\ Bound("end") = t.setup + t.teardown + t.delay
    BY <2>1, BoundFacts
  <2>3. since["cancel"] <= t.setup + 2 * t.delay
    BY <2>1, LinkFacts DEF CancelInv
  <2>4. since["end"] <= t.setup + t.delay
    BY <2>1 DEF EndInv
  <2> QED BY <2>1, <2>2, <2>3, <2>4, LinkFacts, SinceFacts
<1> QED BY <1>1, LinkInvariant, PTL
==============================================================================
