------------------------------ MODULE Packets ------------------------------
(***************************************************************************)
(* One direction of the packet protocol of crypto/ssh (transport.go and    *)
(* cipher.go): the version line, then packets, framed and encrypted by the *)
(* cipher in use, which NEWKEYS replaces at both ends.                     *)
(*                                                                         *)
(* A payload is its length.  Encryption is ideal: what was written with a  *)
(* key at a position of its key stream, and signed with a sequence number, *)
(* reads back with the same three only.  The bytes of the connection       *)
(* arrive, all of them and in their order, until it breaks.                *)
(***************************************************************************)
EXTENDS Integers, Sequences, SequencesExt

CONSTANTS
    Multiple,       \* packetSizeMultiple
    MaxPacket,      \* maxPacket
    MaxVersion,     \* maxVersionStringBytes
    SeqWrap,         \* sequence numbers wrap: 2^32 in the code
    IVWrap,          \* so does the counter of an initialisation vector: 2^64
    Lengths,        \* of payloads (a bound)
    Packets,        \* written at most (a bound)
    Changes,        \* of keys at most (a bound)
    None

VARIABLES
    client,     \* the writer is the client
    w, r,       \* the connectionState of the writer, and of the reader
    made,       \* keys the writer and the reader have derived
    line,       \* the version line that is sent
    version,    \* the one that is read, None before
    wire,       \* frames on their way
    count,      \* packets written
    got         \* the last packet read: [written, payload, ok]

conns == <<w, r, made>>
vars  == <<client, conns, line, version, wire, count, got>>

Prefix     == 5     \* prefixLen: a length of four bytes, and that of the padding
MinPadding == 4
Kinds      == {"stream", "gcm", "cbc"}

\* The keys of a direction: newTransport gives each end the tags of both.
WriterTag(isClient) == IF isClient THEN "client" ELSE "server"
ReaderTag(isClient) == IF isClient THEN "server" ELSE "client"

NoCipher == [kind |-> "none", key |-> None]
Keyed    == [kind : Kinds, key : {"client", "server"} \X Nat]

\* The length of a padding fits its byte.  Payloads are far from the limit of
\* a packet: those of channels have 32 kB, and a packet 256.
PacketsAssumption ==
    /\ Multiple \in MinPadding .. 256 - MinPadding
    /\ SeqWrap \in Nat \ {0} /\ IVWrap \in Nat \ {0}
    /\ MaxPacket \in Nat /\ MaxVersion \in Nat
    /\ Lengths \subseteq Nat \ {0}
    /\ \A n \in Lengths : n + MinPadding + Multiple <= MaxPacket
    /\ Packets \in Nat /\ Changes \in Nat
    /\ None \notin Keyed

Fresh(c, seq) == [cipher |-> c, pos |-> 0, seq |-> seq, pending |-> None]

-----------------------------------------------------------------------------
(* The version line.                                                        *)

CR == "\r"
LF == "\n"

Lines == {[i \in 1 .. n |-> "c"] : n \in 1 .. MaxVersion}

VersionBytes == line \o <<CR, LF>>

\* readVersion reads a byte at a time and gives up at its limit.
readVersion(in) ==
    LET ends == {i \in DOMAIN in : in[i] = LF /\ i <= MaxVersion}
        n    == CHOOSE i \in ends : \A j \in ends : i <= j
        s    == SubSeq(in, 1, n - 1)
    IN  IF ends = {} THEN [ok |-> FALSE]
        ELSE [ok |-> TRUE, line |-> IF s # <<>> /\ Last(s) = CR THEN Front(s) ELSE s]

Init ==
    /\ client \in BOOLEAN
    /\ w = Fresh(NoCipher, 0) /\ r = Fresh(NoCipher, 0)
    /\ made = [writer |-> 0, reader |-> 0]
    /\ line \in Lines
    /\ version = None
    /\ wire = <<>> /\ count = 0
    /\ got = [written |-> 0, payload |-> 0, ok |-> TRUE]

ReadVersion ==
    /\ version = None
    /\ version' = readVersion(VersionBytes)
    /\ UNCHANGED <<client, conns, line, wire, count, got>>

-----------------------------------------------------------------------------
\* An end that cannot read the version line of the other closes the connection.
Up == version # None => version.ok

(* The frame of a payload of n bytes: the length it states and its padding. *)

Enough(p) == IF p < MinPadding THEN p + Multiple ELSE p

\* Of a stream cipher the prefix is encrypted too, and counts.
StreamFrame(n) ==
    LET p == Enough(Multiple - ((Prefix + n) % Multiple))
    IN  [length |-> n + 1 + p, padding |-> p]

\* Of GCM the length goes in the clear.
GCMFrame(n) ==
    LET p == Enough(Multiple - ((1 + n) % Multiple))
    IN  [length |-> n + p + 1, padding |-> p]

\* Of CBC whole blocks are encrypted, from the prefix on.
CBCFrame(n) ==
    LET enc == ((Prefix + n + MinPadding + Multiple - 1) \div Multiple) * Multiple
    IN  [length |-> enc - 4, padding |-> enc - 4 - (1 + n)]

Frame(kind, n) ==
    CASE kind \in {"none", "stream"} -> StreamFrame(n)
      [] kind = "gcm"                -> GCMFrame(n)
      [] kind = "cbc"                -> CBCFrame(n)

\* What the reader takes out of a frame that passes its tests.
StreamRead(f) ==
    [ok |-> f.length > f.padding + 1 /\ f.length <= MaxPacket,
     payload |-> f.length - f.padding - 1]

\* A plausible bug: the byte with the length of the padding is taken for payload.
LongRead(f) == [ok |-> TRUE, payload |-> f.length - f.padding]

GCMRead(f) ==
    [ok |-> /\ f.length <= MaxPacket
            /\ f.padding \in MinPadding .. MinPadding + Multiple - 1
            /\ f.padding + 1 < f.length,
     payload |-> (f.length - f.padding) - 1]

CBCRead(f) ==
    [ok |-> /\ f.length <= MaxPacket
            /\ f.length + 4 >= Multiple
            /\ (f.length + 4) % Multiple = 0
            /\ f.padding >= MinPadding /\ f.length > f.padding + 1,
     payload |-> (4 + f.length - f.padding) - Prefix]

Unframe(kind, f) ==
    CASE kind \in {"none", "stream"} -> StreamRead(f)
      [] kind = "gcm"                -> GCMRead(f)
      [] kind = "cbc"                -> CBCRead(f)

\* The state of a cipher after a frame: GCM counts packets, the others bytes.
Advance(kind, pos, f) ==
    CASE kind = "none"              -> pos
      [] kind = "gcm"               -> (pos + 1) % IVWrap
      [] kind \in {"stream", "cbc"} -> pos + 4 + f.length

-----------------------------------------------------------------------------
(* The two ends.                                                            *)

\* NEWKEYS: the pending cipher is the one from now on; the count goes on.
TakePending(s) == Fresh(s.pending, s.seq)

Write(n, newKeys) ==
    LET kind == w.cipher.kind
        f    == Frame(kind, n)
        next == [w EXCEPT !.pos = Advance(kind, w.pos, f), !.seq = (w.seq + 1) % SeqWrap]
    IN
    /\ count < Packets /\ Up
    /\ kind \in {"none", "stream"} => n <= MaxPacket
    /\ newKeys => n = 1 /\ w.pending # None
    /\ wire' = Append(wire, [cipher |-> w.cipher, pos |-> w.pos, seq |-> w.seq,
                             f |-> f, n |-> n, newKeys |-> newKeys])
    /\ w' = IF newKeys THEN TakePending(next) ELSE next
    /\ count' = count + 1
    /\ UNCHANGED <<client, r, made, line, version, got>>

\* It decrypts and its signature is right.
Authentic(p) ==
    /\ p.cipher = r.cipher
    /\ p.cipher.kind # "none" => p.pos = r.pos
    /\ p.cipher.kind \in {"stream", "cbc"} => p.seq = r.seq

\* The handshake reads NEWKEYS after it has prepared the change.
Read ==
    LET p    == Head(wire)
        kind == r.cipher.kind
        u    == Unframe(kind, p.f)
        ok   == Authentic(p) /\ u.ok /\ u.payload > 0
        next == [r EXCEPT !.pos = Advance(kind, r.pos, p.f), !.seq = (r.seq + 1) % SeqWrap]
    IN
    /\ version # None /\ Up
    /\ wire # <<>> /\ got.ok
    /\ p.newKeys => r.pending # None
    /\ wire' = Tail(wire)
    /\ got' = [written |-> p.n, payload |-> IF ok THEN u.payload ELSE 0, ok |-> ok]
    /\ r' = IF ok /\ p.newKeys THEN TakePending(next) ELSE next
    /\ UNCHANGED <<client, w, made, line, version, count>>

\* prepareKeyChange, once at each end for an exchange of keys.  Each end has
\* its own direction: what the writer writes with, the other end reads with.
PrepareWriter(kind) ==
    /\ Up /\ w.pending = None /\ made.writer < Changes /\ made.reader = made.writer
    /\ made' = [made EXCEPT !.writer = @ + 1]
    /\ w' = [w EXCEPT !.pending =
                [kind |-> kind, key |-> <<WriterTag(client), made.writer>>]]
    /\ UNCHANGED <<client, r, line, version, wire, count, got>>

PrepareReader ==
    LET last == IF w.pending # None THEN w.pending ELSE w.cipher IN
    /\ r.pending = None /\ made.reader < made.writer
    /\ made' = [made EXCEPT !.reader = @ + 1]
    /\ r' = [r EXCEPT !.pending =
                [kind |-> last.kind, key |-> <<ReaderTag(~client), made.reader>>]]
    /\ UNCHANGED <<client, w, line, version, wire, count, got>>

Next ==
    \/ ReadVersion
    \/ \E n \in Lengths, newKeys \in BOOLEAN : Write(n, newKeys)
    \/ Read
    \/ \E kind \in Kinds : PrepareWriter(kind)
    \/ PrepareReader

Spec == Init /\ [][Next]_vars

-----------------------------------------------------------------------------
(* A frame is whole blocks of what is encrypted with at least four bytes of *)
(* padding, whose length fits its byte, and no longer than it need be.      *)
FramesLegal ==
    \A i \in DOMAIN wire :
        LET p == wire[i]
            enc == IF p.cipher.kind = "gcm" THEN p.f.length ELSE p.f.length + 4
        IN  /\ enc % Multiple = 0
            /\ p.f.padding \in MinPadding .. MinPadding + Multiple - 1
            /\ p.f.padding < 256

(* What is written is read: whatever the lengths, the ciphers and the       *)
(* changes between them, and though the counters wrap, the reader accepts   *)
(* every frame of the writer and takes the payload out that went in.  So it *)
(* does with the version line before, which both ends will sign.  All       *)
(* frames are as legal as other implementations demand.                     *)
InStep ==
    /\ got.ok /\ got.payload = got.written
    /\ version # None /\ version.ok => version.line = line
    /\ FramesLegal
=============================================================================
