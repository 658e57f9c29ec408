----------------------------- MODULE WireCodec -----------------------------
(***************************************************************************)
(* The frames of the control connection (internal/control/codec.go and the *)
(* framing of secure.go) as byte sequences.  A byte has Base values        *)
(* instead of 256, so that the length fields overflow at lengths that can  *)
(* be enumerated.  A string, a byte slice or an address is the sequence of *)
(* its bytes, << >> being the invalid netip.Addr; an address with a zone   *)
(* has more than 16.                                                       *)
(***************************************************************************)
EXTENDS Naturals, SequencesExt

CONSTANT Base

(* The length byte of an address can hold 16.                              *)
ASSUME BaseAssumption == Base \in Nat /\ Base > 16

MaxPayload == Base * Base - 1
frameHeaderLen == 4
ProtoVersion == 2
NonceLen == 32
MsgEncrypted == 9
Failed == [type |-> 0, fields |-> << >>]   \* an error instead of a message

(* The fields of each message type, in the order they are written.         *)
Layout ==
    << <<"str", "u32">>,                                        \* Hello
       <<"nonce">>,                                             \* Challenge
       <<"str">>,                                               \* Auth
       <<"u16", "addr">>,                                       \* SessionRequest
       <<"u8", "addr", "addr", "addr", "u32", "u32", "u16", "str", "str">>, \* SessionReply
       <<"u32">>, <<"u32">>,                                    \* Echo, EchoAck
       <<"str">>,                                               \* Teardown
       <<"str">> >>                                             \* Encrypted

(* Whether newMessage knows the type.                                      *)
newMessage(type) == type \in DOMAIN Layout

(* n in w bytes, most significant first; what does not fit is cut off.     *)
BigEndian(n, w) == [i \in 1..w |-> (n \div Base^(w - i)) % Base]
Number(s) == FoldLeft(LAMBDA acc, b : acc * Base + b, 0, s)

Width == [u8 |-> 1, u16 |-> 2, u32 |-> 4]
-----------------------------------------------------------------------------
(* enc and dec.                                                            *)

marshalField(kind, v) ==
    CASE kind \in DOMAIN Width -> BigEndian(v, Width[kind])
      [] kind = "str"          -> BigEndian(Len(v), 2) \o v
      [] kind = "addr"         -> BigEndian(Len(v), 1) \o v
      [] kind = "nonce"        -> v

marshalPayload(m) ==
    FlattenSeq([i \in DOMAIN m.fields |-> marshalField(Layout[m.type][i], m.fields[i])])

need(d, n) == ~d.err /\ d.pos + n <= Len(d.b)
fail(d)    == [d EXCEPT !.err = TRUE]
ahead(d, n) == SubSeq(d.b, d.pos + 1, d.pos + n)
Skip(d, n) == [d EXCEPT !.pos = @ + n]
Yield(d, v) == [d EXCEPT !.out = Append(@, v)]
take(d, n) == IF need(d, n) THEN Yield(Skip(d, n), ahead(d, n)) ELSE fail(d)

unmarshalField(d, kind) ==
    CASE kind \in DOMAIN Width ->
            IF need(d, Width[kind])
            THEN Yield(Skip(d, Width[kind]), Number(ahead(d, Width[kind])))
            ELSE fail(d)
      [] kind = "str" ->
            IF need(d, 2) THEN take(Skip(d, 2), Number(ahead(d, 2))) ELSE fail(d)
      [] kind = "addr" ->
            IF need(d, 1) /\ Number(ahead(d, 1)) \in {0, 4, 16}
            THEN take(Skip(d, 1), Number(ahead(d, 1))) ELSE fail(d)
      [] kind = "nonce" -> take(d, NonceLen)

(* dec's error is sticky, and finish accepts no trailing bytes.            *)
unmarshalPayload(type, b) ==
    LET d == FoldLeft(unmarshalField, [b |-> b, pos |-> 0, err |-> FALSE, out |-> << >>],
                      Layout[type])
    IN  IF d.err \/ d.pos # Len(b) THEN Failed ELSE [type |-> type, fields |-> d.out]
-----------------------------------------------------------------------------
(* Frames.                                                                 *)

Header(type, len) == BigEndian(len, 2) \o <<ProtoVersion, type>>

\* Altered form: the length of the payload is not checked.
WriteMessage_(m) ==
    LET payload == marshalPayload(m) IN Header(m.type, Len(payload)) \o payload

(* << >> is an error: nothing is written.                                  *)
WriteMessage(m) ==
    LET payload == marshalPayload(m)
    IN  IF Len(payload) > MaxPayload THEN << >>
        ELSE Header(m.type, Len(payload)) \o payload

(* What is read from the stream s, and what is left of it.                 *)
ReadMessageLimited(s, limit) ==
    LET n == Number(SubSeq(s, 1, 2))
    IN  IF \/ Len(s) < frameHeaderLen \/ s[3] # ProtoVersion \/ n > limit
           \/ ~newMessage(s[4]) \/ Len(s) < frameHeaderLen + n
        THEN [msg |-> Failed, rest |-> << >>]
        ELSE [msg  |-> unmarshalPayload(s[4], SubSeq(s, frameHeaderLen + 1, frameHeaderLen + n)),
              rest |-> SubSeq(s, frameHeaderLen + n + 1, Len(s))]

ReadMessage(s) == ReadMessageLimited(s, MaxPayload)

(* Unlike WriteMessage it lets a length wrap around.                       *)
marshalPlainFrame(m) == Header(m.type, Len(marshalPayload(m))) \o marshalPayload(m)

unmarshalPlainFrame(frame) ==
    IF \/ Len(frame) < frameHeaderLen \/ frame[3] # ProtoVersion
       \/ Number(SubSeq(frame, 1, 2)) # Len(frame) - frameHeaderLen
       \/ ~newMessage(frame[4]) \/ frame[4] = MsgEncrypted
    THEN Failed
    ELSE unmarshalPayload(frame[4], SubSeq(frame, frameHeaderLen + 1, Len(frame)))

(* The AEAD: 16 more bytes, and only what was sealed opens.                *)
Tag == [i \in 1..16 |-> i]
Sealed(plain) == plain \o Tag
Authentic(ciphertext) == Len(ciphertext) >= 16
                     /\ SubSeq(ciphertext, Len(ciphertext) - 15, Len(ciphertext)) = Tag

SecureWriteMessage(m) ==
    WriteMessage([type |-> MsgEncrypted, fields |-> <<Sealed(marshalPlainFrame(m))>>])

SecureReadMessage(s) ==
    LET outer == ReadMessage(s)
    IN  IF outer.msg.type # MsgEncrypted \/ ~Authentic(outer.msg.fields[1])
        THEN [msg |-> Failed, rest |-> outer.rest]
        ELSE [msg  |-> unmarshalPlainFrame(SubSeq(outer.msg.fields[1], 1,
                                                  Len(outer.msg.fields[1]) - 16)),
              rest |-> outer.rest]
-----------------------------------------------------------------------------
Same(m, n) == m.type = n.type /\ m.fields = n.fields

Zoned(m) == \E i \in DOMAIN m.fields :
                Layout[m.type][i] = "addr" /\ Len(m.fields[i]) \notin {0, 4, 16}

(* A message that is written is read as the same message, and the reader   *)
(* stops where the next one begins; only an address with a zone is         *)
(* refused.  A message is not written only if it is too long.              *)
WriteThenRead(m, next) ==
    LET read(r) == IF Zoned(m) THEN r.msg.type = Failed.type
                               ELSE Same(r.msg, m) /\ r.rest = next
        plain   == WriteMessage(m)
        sealed  == SecureWriteMessage(m)
    IN  /\ plain # << >> => read(ReadMessage(plain \o next))
        /\ m.type # MsgEncrypted /\ sealed # << >> => read(SecureReadMessage(sealed \o next))
        /\ plain = << >> => Len(marshalPayload(m)) > MaxPayload
        /\ sealed = << >> => Len(marshalPayload(m)) > MaxPayload - 2 - 16 - frameHeaderLen

(* Bytes that decode are the encoding of what they decode to, so that no   *)
(* two payloads, or sealed frames, mean the same.                          *)
OnlyEncodingDecodes(type, b) ==
    LET m == unmarshalPayload(type, b)
        f == unmarshalPlainFrame(b)
    IN  /\ m.type # Failed.type => marshalPayload(m) = b
        /\ f.type # Failed.type => marshalPlainFrame(f) = b
=============================================================================
