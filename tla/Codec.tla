------------------------------- MODULE Codec -------------------------------
(***************************************************************************)
(* The wire format of crypto/ssh messages (messages.go): Marshal,          *)
(* Unmarshal, decode and the encodings of the kinds of fields.             *)
(*                                                                         *)
(* A byte has Bits bits and a length, like a uint32, Width bytes: 8 and 4  *)
(* in the code.  A message is a packet that begins with its number and     *)
(* goes on with its fields.  The peers are one step each: the sender       *)
(* marshals a message, the packet may lose its end, gain a byte or have    *)
(* one changed, and the receiver decodes what has come of it: a message,   *)
(* an error or a panic.                                                    *)
(***************************************************************************)
EXTENDS Integers, Sequences, SequencesExt

CONSTANTS
    Bits,       \* of a byte
    Width,      \* bytes of a uint32
    MaxInt      \* the integers sent are between -MaxInt and MaxInt (a bound)

CodecAssumption == Bits \in Nat \ {0} /\ Width \in Nat \ {0} /\ MaxInt \in Nat

Base == 2^Bits
Comma == Base - 1       \* the byte that separates names

VARIABLES
    sent,       \* the message, [name, fields]
    packet,     \* on its way
    got         \* what the receiver makes of it

vars == <<sent, packet, got>>

Repeat(k, n) == [i \in 1 .. n |-> k]

\* The kinds of the fields of each message, in their order.
Fields == [
    disconnect        |-> <<"u32", "string", "string">>,
    kexInit           |-> <<"cookie">> \o Repeat("names", 10) \o <<"bool", "u32">>,
    kexDHInit         |-> <<"int">>,
    kexECDHInit       |-> <<"string">>,
    kexDHReply        |-> <<"string", "int", "string">>,
    kexECDHReply      |-> Repeat("string", 3),
    serviceRequest    |-> <<"string">>,
    serviceAccept     |-> <<"string">>,
    userAuthRequest   |-> Repeat("string", 3) \o <<"rest">>,
    userAuthFailure   |-> <<"names", "bool">>,
    userAuthInfo      |-> Repeat("string", 3) \o <<"u32", "rest">>,
    userAuthPubKeyOk  |-> <<"string", "string">>,
    globalRequest     |-> <<"string", "bool", "rest">>,
    requestSuccess    |-> <<"rest">>,
    requestFailure    |-> <<"rest">>,
    channelOpen       |-> <<"string", "u32", "u32", "u32", "rest">>,
    channelOpenOk     |-> <<"u32", "u32", "u32", "u32", "rest">>,
    channelOpenFailed |-> <<"u32", "u32", "string", "string">>,
    windowAdjust      |-> <<"u32", "u32">>,
    channelEOF        |-> <<"u32">>,
    channelClose      |-> <<"u32">>,
    channelRequest    |-> <<"u32", "string", "bool", "rest">>,
    channelSuccess    |-> <<"u32">>,
    channelFailure    |-> <<"u32">>]

Number == [
    disconnect |-> 1, kexInit |-> 20, kexDHInit |-> 30, kexECDHInit |-> 30,
    kexDHReply |-> 31, kexECDHReply |-> 31, serviceRequest |-> 5, serviceAccept |-> 6,
    userAuthRequest |-> 50, userAuthFailure |-> 51, userAuthInfo |-> 60,
    userAuthPubKeyOk |-> 60, globalRequest |-> 80, requestSuccess |-> 81,
    requestFailure |-> 82, channelOpen |-> 90, channelOpenOk |-> 91,
    channelOpenFailed |-> 92, windowAdjust |-> 93, channelEOF |-> 96,
    channelClose |-> 97, channelRequest |-> 98, channelSuccess |-> 99,
    channelFailure |-> 100]

Messages == DOMAIN Fields

\* Three of them are read by code that knows which one it waits for.
Decoded == Messages \ {"kexECDHInit", "kexECDHReply", "userAuthInfo"}

-----------------------------------------------------------------------------
(* Numbers.                                                                 *)

BigEndian(n, w) == [i \in 1 .. w |-> (n \div Base^(w - i)) % Base]

Value(bytes) == FoldLeft(LAMBDA v, b : v * Base + b, 0, bytes)

Least(P(_)) == CHOOSE w \in 0 .. 64 : P(w) /\ \A v \in 0 .. w - 1 : ~P(v)

BitLen(n) == Least(LAMBDA b : n < 2^b)

NatBytes(n) == BigEndian(n, Least(LAMBDA w : n < Base^w))

Negative(bytes) == bytes # <<>> /\ bytes[1] >= Base \div 2

Invert(bytes) == [i \in DOMAIN bytes |-> Base - 1 - bytes[i]]

\* Two's complement, as short as it can be.
IntBytes(n) ==
    IF n = 0 THEN <<>>
    ELSE IF n > 0
    THEN (IF Negative(NatBytes(n)) THEN <<0>> ELSE <<>>) \o NatBytes(n)
    ELSE LET b == Invert(NatBytes(-n - 1))
         IN  (IF Negative(b) THEN <<>> ELSE <<Base - 1>>) \o b

\* The room marshalStruct makes for it.
intLength(n) ==
    LET bits == BitLen(IF n < 0 THEN -n - 1 ELSE n)
    IN  Width + (IF n # 0 /\ bits % Bits = 0 THEN 1 ELSE 0) + (bits + Bits - 1) \div Bits

-----------------------------------------------------------------------------
(* Marshal: the number of the message, then each field.                     *)

appendInt(n) == BigEndian(n, Width)

marshalString(s) == appendInt(Len(s)) \o s

Join(names) ==
    FlattenSeq([i \in DOMAIN names |-> IF i = 1 THEN names[i] ELSE <<Comma>> \o names[i]])

marshalField(k, v) ==
    CASE k = "bool"   -> <<IF v THEN 1 ELSE 0>>
      [] k = "cookie" -> v
      [] k = "u32"    -> appendInt(v)
      [] k = "string" -> marshalString(v)
      [] k = "rest"   -> v
      [] k = "names"  -> marshalString(Join(v))
      [] k = "int"    -> appendInt(Len(IntBytes(v))) \o IntBytes(v)

Marshal(m) ==
    <<Number[m.name]>> \o
    FlattenSeq([i \in DOMAIN m.fields |-> marshalField(Fields[m.name][i], m.fields[i])])

-----------------------------------------------------------------------------
(* Unmarshal: each field takes its part of what is left of the packet, and  *)
(* nothing may be left in the end.                                          *)

Cookie == 2     \* bytes of the cookie, 16 in the code

Short          == [ok |-> FALSE, panic |-> FALSE]
Panic          == [ok |-> FALSE, panic |-> TRUE]
Took(v, rest)  == [ok |-> TRUE, panic |-> FALSE, v |-> v, rest |-> rest]
Take(in, n)    == IF Len(in) < n THEN Short
                  ELSE Took(SubSeq(in, 1, n), SubSeq(in, n + 1, Len(in)))
Map(p, F(_))   == IF p.ok THEN Took(F(p.v), p.rest) ELSE p

parseUint32(in) == Map(Take(in, Width), Value)

\* The sum of the length and its own width is a uint32, like the length: when it wraps,
\* the string would end before it begins, and slicing panics.
parseString(in) ==
    IF Len(in) < Width THEN Short
    ELSE LET end == (Width + Value(SubSeq(in, 1, Width))) % Base^Width
         IN  IF Len(in) < end THEN Short
             ELSE IF end < Width THEN Panic
             ELSE Took(SubSeq(in, Width + 1, end), SubSeq(in, end + 1, Len(in)))

Split(bytes) ==
    FoldLeft(LAMBDA out, b : IF b = Comma THEN Append(out, <<>>)
                             ELSE [out EXCEPT ![Len(out)] = Append(@, b)],
             <<<<>>>>, bytes)

parseNameList(in) == Map(parseString(in), LAMBDA s : IF s = <<>> THEN <<>> ELSE Split(s))

parseInt(in) ==
    Map(parseString(in), LAMBDA s : IF Negative(s) THEN -(Value(Invert(s)) + 1) ELSE Value(s))

parseField(k, in) ==
    CASE k = "bool"   -> Map(Take(in, 1), LAMBDA s : s[1] # 0)
      [] k = "cookie" -> Take(in, Cookie)
      [] k = "u32"    -> parseUint32(in)
      [] k = "string" -> parseString(in)
      [] k = "rest"   -> Took(in, <<>>)
      [] k = "names"  -> parseNameList(in)
      [] k = "int"    -> parseInt(in)

\* A plausible bug: bytes that no field has taken are not noticed.
NothingChecked(p) == p.ok

NothingLeft(p) == p.ok /\ p.rest = <<>>

Decodes(m) == [ok |-> TRUE, panic |-> FALSE, m |-> m]

Unmarshal(name, in) ==
    LET step(p, k) ==
            IF ~p.ok THEN p
            ELSE LET f == parseField(k, p.rest)
                 IN  IF f.ok THEN Took(Append(p.v, f.v), f.rest) ELSE f
        p == FoldLeft(step, Took(<<>>, Tail(in)), Fields[name])
    IN  IF in[1] # Number[name] THEN Short
        ELSE IF p.panic THEN Panic
        ELSE IF NothingLeft(p) THEN Decodes([name |-> name, fields |-> p.v]) ELSE Short

decode(in) ==
    IF \E name \in Decoded : Number[name] = in[1]
    THEN Unmarshal(CHOOSE name \in Decoded : Number[name] = in[1], in)
    ELSE Short

-----------------------------------------------------------------------------
(* Three values of each kind; a field takes one of them, all other fields   *)
(* another.                                                                 *)

Sample(k, i) ==
    CASE k = "bool"   -> i = 0
      [] k = "cookie" -> Repeat(i, Cookie)
      [] k = "u32"    -> <<0, 1, Base^Width - 1>>[i + 1]
      [] k \in {"string", "rest"} -> <<<<>>, <<1>>, <<Comma, 0>>>>[i + 1]
      [] k = "names"  -> <<<<>>, <<<<1>>>>, <<<<0, 1>>, <<1>>>>>>[i + 1]
      [] k = "int"    -> i

Samples ==
    {[name |-> n, fields |->
        [f \in DOMAIN Fields[n] |-> Sample(Fields[n][f], IF f = g THEN i ELSE j)]] :
            n \in Messages, g \in 1 .. 13, i \in 0 .. 2, j \in 0 .. 2}

Numbers ==
    {[name |-> "kexDHInit", fields |-> <<n>>] : n \in -MaxInt .. MaxInt}
      \cup {[name |-> "kexDHReply", fields |-> <<<<1>>, n, <<>>>>] : n \in -MaxInt .. MaxInt}

Nothing == [ok |-> FALSE, panic |-> FALSE, none |-> TRUE]

Init ==
    /\ sent \in Samples \cup Numbers
    /\ packet = Marshal(sent)
    /\ got = Nothing

Cut ==
    /\ got = Nothing /\ Len(packet) > 1 /\ IsPrefix(packet, Marshal(sent))
    /\ packet' = Front(packet)
    /\ UNCHANGED <<sent, got>>

Pad ==
    /\ got = Nothing /\ packet = Marshal(sent)
    /\ packet' = Append(packet, 0)
    /\ UNCHANGED <<sent, got>>

Change ==
    /\ got = Nothing /\ packet = Marshal(sent)
    /\ \E i \in DOMAIN packet : packet' = [packet EXCEPT ![i] = Base - 1]
    /\ UNCHANGED <<sent, got>>

Receive ==
    /\ got = Nothing
    /\ got' = IF sent.name \in Decoded THEN decode(packet) ELSE Unmarshal(sent.name, packet)
    /\ UNCHANGED <<sent, packet>>

Next == Cut \/ Pad \/ Change \/ Receive

Spec == Init /\ [][Next]_vars

-----------------------------------------------------------------------------
(* The room that intLength makes for an integer is what marshalInt fills:   *)
(* both decide on their own whether a byte of padding is needed.            *)
LengthsAgree ==
    \A f \in DOMAIN sent.fields :
        Fields[sent.name][f] = "int" =>
            intLength(sent.fields[f]) = Len(marshalField("int", sent.fields[f]))

(* A packet as Marshal makes it decodes to the very message that was sent.  *)
(* One that is longer or shorter does not decode at all, unless its last    *)
(* field is the rest of the packet; then every other field is the one sent. *)
(* Whatever decodes is a message that would itself come through.  In case   *)
(* of error Unmarshal returns an error (messages.go:283), with one          *)
(* exception: it panics at a length so close to the largest uint32 that     *)
(* parseString's check wraps, which no packet of Marshal's has.             *)
DecodesExactly ==
    LET whole == packet = Marshal(sent)
        SameLength == Len(packet) = Len(Marshal(sent))
        WrapsAt(i) == Value(SubSeq(packet, i, i + Width - 1)) >= Base^Width - Width
    IN  got # Nothing =>
          /\ whole => got = Decodes(sent)
          /\ ~SameLength /\ got.ok =>
               Last(Fields[sent.name]) = "rest" /\ got.m.name = sent.name
                 /\ Front(got.m.fields) = Front(sent.fields)
          /\ got.ok => Unmarshal(got.m.name, Marshal(got.m)) = got
          /\ got.panic => ~whole /\ \E i \in 2 .. Len(packet) - Width + 1 : WrapsAt(i)
          /\ LengthsAgree
=============================================================================
