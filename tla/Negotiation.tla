---------------------------- MODULE Negotiation ----------------------------
(***************************************************************************)
(* What the two ends of an SSH connection agree on (crypto/ssh common.go,  *)
(* and enterKeyExchange): each sends the algorithms it offers, works out   *)
(* the choice on its own, and prepares its ciphers with it.                *)
(*                                                                         *)
(* An end is of this package, and offers the same for both directions, or  *)
(* it is foreign: it offers what it likes and follows RFC 4253.  MACs are  *)
(* chosen like ciphers, by findCommonAlgorithm; compression is the same    *)
(* everywhere; a first message that a foreign end has guessed is left out. *)
(***************************************************************************)
EXTENDS Integers, Sequences, SequencesExt

CONSTANTS
    Kexes,      \* key exchange algorithms
    HostKeys,   \* types of host keys
    Ciphers,    \* cipher algorithms
    Modes,      \* those this package has a cipherMode for
    Longest,    \* algorithms in one list (a bound)
    None

Ends     == {"client", "server"}
Other(e) == IF e = "client" THEN "server" ELSE "client"

NegotiationAssumption ==
    Longest \in Nat /\ Modes \subseteq Ciphers /\ None \notin Kexes \cup HostKeys \cup Ciphers \cup Ends

Offers(S) == {q \in UNION {[1 .. n -> S] : n \in 1 .. Longest} : IsInjective(q)}

VARIABLES
    foreign,    \* the end that is not of this package, or None
    init,       \* the kexInitMsg of each end
    algs,       \* what each end has agreed to, or None
    failed      \* it has found no common algorithms

vars == <<foreign, init, algs, failed>>

-----------------------------------------------------------------------------
(* Config.SetDefaults leaves out ciphers without a cipherMode, so that there *)
(* may be none left; nil stands for all of them.                            *)

OwnCiphers == Offers(Modes) \cup {<<>> : c \in Ciphers \ Modes}

\* sendKexInitLocked.
OwnInits ==
    {[kex |-> k, host |-> h, toServer |-> c, toClient |-> c] :
        k \in Offers(Kexes), h \in Offers(HostKeys), c \in OwnCiphers}

ForeignInits ==
    [kex : Offers(Kexes), host : Offers(HostKeys),
     toServer : Offers(Ciphers), toClient : Offers(Ciphers)]

Init ==
    /\ foreign \in Ends \cup {None}
    /\ init \in {[client |-> c, server |-> s] :
                    c \in IF foreign = "client" THEN ForeignInits ELSE OwnInits,
                    s \in IF foreign = "server" THEN ForeignInits ELSE OwnInits}
    /\ algs = [e \in Ends |-> None]
    /\ failed = [e \in Ends |-> FALSE]

-----------------------------------------------------------------------------
(* findCommonAlgorithm and findCommonCipher: the first of the client's that *)
(* the server has too, and that has a cipherMode if it is a cipher.  What a *)
(* foreign end has a cipherMode for nobody knows but itself: all it offers. *)

FirstIn(list, S) ==
    LET fit == {i \in DOMAIN list : list[i] \in S}
    IN  IF fit = {} THEN None ELSE list[CHOOSE i \in fit : \A j \in fit : i <= j]

Usable(e) == IF e = foreign THEN Ciphers ELSE Modes

Common(client, server)          == FirstIn(client, ToSet(server))
CommonCipher(e, client, server) == FirstIn(client, ToSet(server) \cap Usable(e))

\* A plausible bug: an end takes its own offer for that of the client.
OwnFirst(e) == [client |-> init[e], server |-> init[Other(e)]]

\* enterKeyExchange has sent one message and is given the other; an end that has host keys
\* takes its own for the server's, and the client has none.
Sides(e) ==
    LET mine   == init[e]
        theirs == init[Other(e)]
    IN  IF e = "server" THEN [client |-> theirs, server |-> mine]
        ELSE [client |-> mine, server |-> theirs]

\* findAgreedAlgorithms.  w is the choice for what the client writes, at
\* either end, and r that for what it reads.
Agreed(e) ==
    LET c == Sides(e).client
        s == Sides(e).server
    IN  [kex  |-> Common(c.kex, s.kex),
         host |-> Common(c.host, s.host),
         w    |-> CommonCipher(e, c.toServer, s.toServer),
         r    |-> CommonCipher(e, c.toClient, s.toClient)]

Complete(a) == None \notin {a.kex, a.host, a.w, a.r}

Exchange(e) ==
    /\ algs[e] = None /\ ~failed[e]
    /\ IF Complete(Agreed(e))
       THEN algs' = [algs EXCEPT ![e] = Agreed(e)] /\ UNCHANGED failed
       ELSE failed' = [failed EXCEPT ![e] = TRUE] /\ UNCHANGED algs
    /\ UNCHANGED <<foreign, init>>

Next == \E e \in Ends : Exchange(e)

Spec == Init /\ [][Next]_vars

-----------------------------------------------------------------------------
(* prepareKeyChange: an end writes with algs.w and reads with algs.r.  A    *)
(* foreign one knows which is which.                                        *)

WritesWith(e) == IF e = foreign /\ e = "server" THEN algs[e].r ELSE algs[e].w
ReadsWith(e)  == IF e = foreign /\ e = "server" THEN algs[e].w ELSE algs[e].r

Agree == algs["client"] # None /\ algs["server"] # None

\* The lists of a message, and the choices made from them.
Chosen == [kex |-> "kex", host |-> "host", toServer |-> "w", toClient |-> "r"]

\* The first of the client's that the server has.
IsFirstCommon(f, x) ==
    \E i \in DOMAIN init["client"][f] :
        /\ init["client"][f][i] = x /\ Contains(init["server"][f], x)
        /\ \A j \in 1 .. i - 1 : ~Contains(init["server"][f], init["client"][f][j])

NothingCommon(f) == \A i \in DOMAIN init["client"][f] :
                        ~Contains(init["server"][f], init["client"][f][i])

(* Each end works out the choice on its own, and it is the same: of every   *)
(* list the first of the client's that the server has.  One of this package *)
(* passes over ciphers it has no cipherMode for, and yet chooses no other   *)
(* than a foreign end that does not; it can use what is chosen.  It fails   *)
(* only when a list has nothing in common, and then no end goes on.  Two    *)
(* ends of this package read with what the other writes with.               *)
SameChoice ==
    /\ \A e \in Ends :
        /\ algs[e] # None => \A f \in DOMAIN Chosen : IsFirstCommon(f, algs[e][Chosen[f]])
        /\ failed[e] => \E f \in DOMAIN Chosen : NothingCommon(f)
        /\ failed[e] => algs[Other(e)] = None
        /\ algs[e] # None /\ e # foreign => {algs[e].w, algs[e].r} \subseteq Modes
    /\ Agree =>
        /\ algs["client"] = algs["server"]
        /\ foreign = None => \A e \in Ends : WritesWith(e) = ReadsWith(Other(e))

(* transport.go: connectionState "is necessary because each direction has   *)
(* its own keys, and can even have its own algorithms".  What one end       *)
(* writes with is what the other reads with, whoever the peer is.           *)
DirectionsMatch ==
    Agree => \A e \in Ends : WritesWith(e) = ReadsWith(Other(e))
=============================================================================
