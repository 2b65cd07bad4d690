------------------------------- MODULE Certs -------------------------------
(***************************************************************************)
(* OpenSSH certificates (crypto/ssh certs.go): one is signed, perhaps      *)
(* changed on its way, and shown to a CertChecker while time goes by, as   *)
(* the key of a user or of a host.                                         *)
(*                                                                         *)
(* Times are unsigned numbers, which the checker converts to signed ones   *)
(* of as many bits: the lower half of them stays.  A signature is what was *)
(* signed and by whom.                                                     *)
(***************************************************************************)
EXTENDS Integers, FiniteSets

CONSTANTS
    Half,           \* 2^63, half of the times there are
    Names,          \* users and hosts
    Signers,        \* keys that sign certificates
    Authorities,    \* those that IsAuthority recognises
    Options,        \* critical options
    Supported,      \* SupportedCriticalOptions
    SourceAddress,  \* sourceAddressCriticalOption
    None

CertsAssumption ==
    /\ Half \in Nat \ {0}
    /\ Authorities \subseteq Signers
    /\ Supported \subseteq Options /\ SourceAddress \in Options

Infinity == 2 * Half - 1        \* CertTimeInfinity
Times    == 0 .. Infinity

int64(t) == IF t >= Half THEN t - 2 * Half ELSE t

Types == {"user", "host"}       \* UserCert and HostCert

VARIABLES
    cert,       \* its fields
    signature,  \* [by, of]
    revoked,    \* IsRevoked says so
    now,        \* Clock
    verdict     \* of the last check: [as, name, ok], or None

vars == <<cert, signature, revoked, now, verdict>>

Fields == [type : Types, principals : SUBSET Names, after : Times, before : Times,
           options : SUBSET Options, authority : Signers]

Init ==
    /\ cert \in {c \in Fields : Cardinality(c.options) < 2}
    /\ signature = None
    /\ revoked \in BOOLEAN
    /\ now = 0
    /\ verdict = None

\* SignCert writes the key of the authority into the certificate, and signs
\* all of it but the signature.
SignCert(s) ==
    /\ signature = None
    /\ cert' = [cert EXCEPT !.authority = s]
    /\ signature' = [by |-> s, of |-> [cert EXCEPT !.authority = s]]
    /\ UNCHANGED <<revoked, now, verdict>>

\* The certificate is parsed from bytes that somebody else may have written.
Alter ==
    /\ signature # None /\ verdict = None /\ cert = signature.of
    /\ \/ \E t \in Types : cert' = [cert EXCEPT !.type = t]
       \/ \E n \in Names : cert' = [cert EXCEPT !.principals = @ \cup {n}]
       \/ cert' = [cert EXCEPT !.before = Infinity]
       \/ cert' = [cert EXCEPT !.options = {}]
       \/ \E s \in Signers : cert' = [cert EXCEPT !.authority = s]
    /\ UNCHANGED <<signature, revoked, now, verdict>>

Tick ==
    /\ now < Half - 1
    /\ now' = now + 1
    /\ verdict' = None
    /\ UNCHANGED <<cert, signature, revoked>>

-----------------------------------------------------------------------------
Understood == cert.options \subseteq Supported \cup {SourceAddress}

\* No principals at all stand for everybody.
NamedFor(name) == cert.principals # {} => name \in cert.principals

Begun == int64(cert.after) >= 0 /\ now >= int64(cert.after)

\* A plausible bug: the certificate is still good in the second of its end.
EndsLate == cert.before # Infinity => now <= int64(cert.before)

NotEnded == cert.before # Infinity => now < int64(cert.before) /\ int64(cert.before) >= 0

Verifies == signature.by = cert.authority /\ signature.of = cert

CheckCert(name) ==
    /\ ~revoked
    /\ Understood
    /\ NamedFor(name)
    /\ cert.authority \in Authorities
    /\ Begun /\ NotEnded
    /\ Verifies

\* Authenticate, or CheckHostKey.
Check(as, name) ==
    /\ signature # None
    /\ verdict' = [as |-> as, name |-> name, ok |-> cert.type = as /\ CheckCert(name)]
    /\ UNCHANGED <<cert, signature, revoked, now>>

Next ==
    \/ \E s \in Signers : SignCert(s)
    \/ Alter
    \/ Tick
    \/ \E as \in Types, name \in Names : Check(as, name)

Spec == Init /\ [][Next]_vars

-----------------------------------------------------------------------------
(* What is accepted is a certificate that an authority has signed just as   *)
(* it is, for this use and this name, and the clock is within its times as  *)
(* unsigned numbers, the end excluded.  What is refused is not, but for one *)
(* thing: an end in the upper half of the numbers, and not infinity, counts *)
(* as over, because it is negative when it is converted.                    *)
AcceptsTheValid ==
    verdict # None =>
        LET valid == /\ signature.by \in Authorities /\ signature.of = cert
                     /\ cert.type = verdict.as
                     /\ cert.principals = {} \/ verdict.name \in cert.principals
                     /\ now >= cert.after
                     /\ cert.before = Infinity \/ now < cert.before
                     /\ cert.options \ {SourceAddress} \subseteq Supported
                     /\ ~revoked
        IN  verdict.ok <=> valid /\ cert.before \notin Half .. Infinity - 1
=============================================================================
