--------------------------- MODULE MCControlLink ---------------------------
(* Small instances of ControlLink.  The timeouts are the least the timing   *)
(* assumption allows.  The messages on which the codec is checked are of    *)
(* all types, with strings of the lengths at which a length field wraps.    *)
EXTENDS ControlLink, WireCodec

Timing(interval, delay, setup, teardown) ==
    [interval |-> interval, delay |-> delay, setup |-> setup, teardown |-> teardown,
     timeout |-> [client |-> interval + 2 * delay + 1,
                  server |-> setup + interval + 2 * delay + 1]]

TightTimings == {Timing(1, 1, 1, 1), Timing(2, 1, 0, 1), Timing(2, 0, 1, 1), Timing(1, 0, 2, 1),
                 Timing(2, 1, 2, 0)}

Str(n) == [i \in 1..n |-> (3 * i) % Base]
Texts == {Str(n) : n \in 0..3 \cup
                        UNION {(k * Base * Base - 30)..(k * Base * Base + 3) : k \in {1, 2}}}
Addrs == {Str(n) : n \in {0, 4, 16, 17, 31}}
Words == {0, 1, Base * Base - 1}
Msg(type, fields) == [type |-> type, fields |-> fields]

Messages ==
    {Msg(1, <<s, n>>) : s \in Texts, n \in {0, Base^4 - 1}}
    \cup {Msg(2, <<Str(32)>>)}
    \cup {Msg(type, <<s>>) : type \in {3, 8, 9}, s \in Texts}
    \cup {Msg(4, <<n, a>>) : n \in Words, a \in Addrs}
    \cup {Msg(5, <<0, a, b, Str(4), 7, n, 1, s, Str(2)>>) :
             a \in Addrs, b \in Addrs, n \in {0, Base^4 - 1}, s \in {Str(0), Str(2)}}
    \cup {Msg(5, <<1, Str(0), Str(0), Str(0), 0, 0, 0, s, Str(0)>>) : s \in Texts}
    \cup {Msg(type, <<n>>) : type \in {6, 7}, n \in Words}

Payloads == UNION {[1..n -> {0, 1, 2, 4}] : n \in 0..5}
            \cup {<<0, n, 2, type>> \o p : n \in 0..4, type \in {6, 8},
                                            p \in UNION {[1..k -> {0, 2}] : k \in 0..4}}

(* The codec is the same wherever the connection is; it is evaluated once. *)
Fresh == /\ client = "await" /\ t = Timing(1, 1, 1, 1) /\ left = t.timeout
         /\ server = "loop" /\ ~cancelled /\ alive

(* Every message that WriteMessage or the secure channel sends is read as  *)
(* it was, the next one starts where it ends, and nothing that fits the    *)
(* length fields is refused, for strings on both sides of every wrap; and  *)
(* unmarshalPayload and unmarshalPlainFrame accept no other bytes.         *)
CodecExact ==
    Fresh => /\ \A m \in Messages, next \in {<<>>, <<0>>, WriteMessage(Msg(6, <<1>>))} :
                    WriteThenRead(m, next)
             /\ \A type \in 1..9, b \in Payloads : OnlyEncodingDecodes(type, b)
=============================================================================
