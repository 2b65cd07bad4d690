-------------------------------- MODULE Parts --------------------------------
(***************************************************************************)
(* Parts that have nothing to do with one another but that a connection    *)
(* has them all: the dispatchers, and of crypto/ssh the choice of          *)
(* algorithms, certificates, packets, and the line editor.                 *)
(***************************************************************************)
EXTENDS Dispatcher

CONSTANTS
    None,
    \* Negotiation
    Kexes, HostKeys, Ciphers, Modes, Longest,
    \* Certs
    Half, Names, Signers, Authorities, Options, Supported, SourceAddress,
    \* Packets
    Multiple, MaxPacket, MaxVersion, SeqWrap, IVWrap, Lengths, Packets, Changes,
    \* Terminal
    Chars, Width, Prompt, MaxLine, MaxHistory, MaxRows, MaxEntered, MaxKept

VARIABLES
    \* Negotiation
    foreign, init, algs, failed,
    \* Certs
    cert, signature, revoked, now, verdict,
    \* Packets
    client, w, r, made, line, version, wire, count, got,
    \* Terminal
    t, echo, reading, paste, ring, index, pending, entered

Negotiating == INSTANCE Negotiation
Checking == INSTANCE Certs
Framing == INSTANCE Packets
Editing == INSTANCE Terminal

ASSUME PartsAssumption ==
    /\ Negotiating!NegotiationAssumption /\ Checking!CertsAssumption
    /\ Framing!PacketsAssumption /\ Editing!TerminalAssumption

\* Negotiation: both ends choose alike.
SameChoice == Negotiating!SameChoice

\* Certs: valid certificates are accepted, and no others.
AcceptsTheValid == Checking!AcceptsTheValid

\* Packets: reader and writer stay in step, whatever the ciphers.
InStep == Framing!InStep

=============================================================================
