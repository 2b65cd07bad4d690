----------------------------- MODULE CleanPath -----------------------------
(***************************************************************************)
(* CleanPath and bufApp (src/router/path.go): one scan of a path that      *)
(* reads at r and writes at w <= r, into the path itself for as long as    *)
(* the bytes written are those already there, and into a buffer of its own *)
(* from the first one that differs.                                        *)
(***************************************************************************)
EXTENDS Integers, Sequences

CONSTANTS
    Bytes,      \* the bytes of paths; the others than "/" and "." are alike
    Paths       \* the paths to clean

\* What make leaves in a buffer: none of the bytes of a path here, so that it
\* shows where it is read before it is written.
Zero == "zero"

PathsAssumption ==
    /\ {"/", "."} \subseteq Bytes
    /\ Zero \notin Bytes
    /\ Paths \subseteq Seq(Bytes)

VARIABLES
    p,          \* the path
    pc,         \* where in the function
    r,          \* index of the next byte to read
    w,          \* index of the next byte to write
    buf,        \* the buffer; empty while it is nil
    trailing,   \* the result is to end in "/"
    out         \* what is returned

vars == <<p, pc, r, w, buf, trailing, out>>

n == Len(p)

\* Go counts from zero.
Read(i) == p[i + 1]

\* The byte of the result at i: of the buffer, or of the path while that is nil.
Written(i) == IF buf = <<>> THEN p[i + 1] ELSE buf[i + 1]

TypeOK ==
    /\ p \in Seq(Bytes)
    /\ pc \in {"begin", "scan", "element", "done"}
    /\ r \in 0..n
    /\ w \in 1..(n + 1)
    /\ buf \in Seq(Bytes \cup {Zero})
    /\ Len(buf) \in {0, n, n + 1}
    /\ trailing \in BOOLEAN
    /\ out \in Seq(Bytes \cup {Zero})

Init ==
    /\ p \in Paths
    /\ pc = "begin"
    /\ r = 0
    /\ w = 1
    /\ buf = <<>>
    /\ trailing = FALSE
    /\ out = <<>>

-----------------------------------------------------------------------------
\* A buffer of size bytes that holds the first w bytes of the path.
Copied(size) == [i \in 1..size |-> IF i <= w THEN p[i] ELSE Zero]

\* bufApp: nothing to do while the path already has the byte in that place.
BufApp(c) ==
    IF buf = <<>>
    THEN buf' = IF p[w + 1] = c THEN <<>> ELSE [Copied(n) EXCEPT ![w + 1] = c]
    ELSE buf' = [buf EXCEPT ![w + 1] = c]

\* How much can be written: bufApp uses an index below Size.
Size == IF buf = <<>> THEN n ELSE Len(buf)

\* Slip: an element of two dots and more taken for "..".
AtDots == Read(r) = "." /\ r + 1 < n /\ Read(r + 1) = "."

\* The conditions of the cases of the switch before default.
AtSlash == Read(r) = "/"
AtLastDot == Read(r) = "." /\ r + 1 = n
AtDot == Read(r) = "." /\ r + 1 < n /\ Read(r + 1) = "/"
AtDotDot ==
    /\ Read(r) = "."
    /\ r + 1 < n
    /\ Read(r + 1) = "."
    /\ r + 2 < n => Read(r + 2) = "/"
AtElement == ~AtSlash /\ ~AtLastDot /\ ~AtDot /\ ~AtDotDot

-----------------------------------------------------------------------------
\* The empty path; every other one starts with "/" or is given one.
BeginEmpty ==
    /\ pc = "begin"
    /\ p = <<>>
    /\ pc' = "done"
    /\ out' = <<"/">>
    /\ UNCHANGED <<p, r, w, buf, trailing>>

Begin ==
    /\ pc = "begin"
    /\ p # <<>>
    /\ pc' = "scan"
    /\ r' = IF Read(0) = "/" THEN 1 ELSE 0
    /\ w' = 1
    /\ buf' = IF Read(0) = "/"
              THEN <<>>
              ELSE [i \in 1..(n + 1) |-> IF i = 1 THEN "/" ELSE Zero]
    /\ trailing' = (n > 2 /\ Read(n - 1) = "/")
    /\ UNCHANGED <<p, out>>

SkipSlash ==
    /\ pc = "scan"
    /\ r < n
    /\ AtSlash
    /\ r' = r + 1
    /\ UNCHANGED <<p, pc, w, buf, trailing, out>>

LastDot ==
    /\ pc = "scan"
    /\ r < n
    /\ AtLastDot
    /\ trailing' = TRUE
    /\ r' = r + 1
    /\ UNCHANGED <<p, pc, w, buf, out>>

SkipDot ==
    /\ pc = "scan"
    /\ r < n
    /\ AtDot
    /\ r' = r + 1
    /\ UNCHANGED <<p, pc, w, buf, trailing, out>>

\* Back to the last "/" written, if anything but the first one was.
DotDot ==
    /\ pc = "scan"
    /\ r < n
    /\ AtDotDot
    /\ r' = r + 2
    /\ IF w = 1
       THEN w' = w
       ELSE \E k \in 1..(w - 1) :
              /\ k = 1 \/ Written(k) = "/"
              /\ \A j \in (k + 1)..(w - 1) : Written(j) # "/"
              /\ w' = k
    /\ UNCHANGED <<p, pc, buf, trailing, out>>

\* Every other byte starts an element, after a "/" if it is not the first one, ...
StartElement ==
    /\ pc = "scan"
    /\ r < n
    /\ AtElement
    /\ IF w > 1
       THEN BufApp("/") /\ w' = w + 1
       ELSE UNCHANGED <<buf, w>>
    /\ pc' = "element"
    /\ UNCHANGED <<p, r, trailing, out>>

\* ... which is copied byte by byte ...
CopyByte ==
    /\ pc = "element"
    /\ r < n
    /\ ~AtSlash
    /\ BufApp(Read(r))
    /\ w' = w + 1
    /\ r' = r + 1
    /\ UNCHANGED <<p, pc, trailing, out>>

\* ... to its end.
EndElement ==
    /\ pc = "element"
    /\ (r < n => AtSlash)
    /\ pc' = "scan"
    /\ UNCHANGED <<p, r, w, buf, trailing, out>>

\* The trailing slash, and the part of the path or of the buffer written.
Finish ==
    /\ pc = "scan"
    /\ r = n
    /\ IF trailing /\ w > 1
       THEN BufApp("/") /\ w' = w + 1
       ELSE UNCHANGED <<buf, w>>
    /\ out' = SubSeq(IF buf' = <<>> THEN p ELSE buf', 1, w')
    /\ pc' = "done"
    /\ UNCHANGED <<p, r, trailing>>

Next ==
    \/ BeginEmpty \/ Begin \/ SkipSlash \/ LastDot \/ SkipDot \/ DotDot
    \/ StartElement \/ CopyByte \/ EndElement \/ Finish

Spec == Init /\ [][Next]_vars

-----------------------------------------------------------------------------
\* No byte is read or written outside the path and the buffer: the switch looks
\* ahead only where there is something ahead, and the buffer, which is as long
\* as the path or, for a path without its first "/", one byte longer, is never
\* too short.
InRange ==
    /\ pc = "scan" /\ r < n /\ AtElement /\ w > 1 => w + 1 < Size
    /\ pc = "element" /\ r < n /\ ~AtSlash => w < Size
    /\ pc = "scan" /\ r = n /\ trailing /\ w > 1 => w < Size
    /\ pc # "begin" /\ p # <<>> => w <= Size

\* Whatever is returned starts with "/" and has no empty element (rule 1), and
\* no byte in it was left unwritten.
Slashed ==
    pc = "done" =>
      /\ out[1] = "/"
      /\ \A i \in 1..(Len(out) - 1) : ~(out[i] = "/" /\ out[i + 1] = "/")
      /\ \A i \in 1..Len(out) : out[i] # Zero

\* The inductive invariant. A path without its first "/" has a buffer with one
\* byte more from the start, so w may be ahead of r by Off.
Off == IF Read(0) = "/" THEN 0 ELSE 1

Fits == Len(buf) \in (IF Off = 0 THEN {0, n} ELSE {n + 1})

\* Where a byte is about to be written there is room: w has come up to r only
\* right after an element, and a trailing "/" has a "/" or "." read for it.
Behind ==
    /\ w <= r + Off
    /\ pc = "scan" /\ w > 1 /\ w = r + Off => (r < n => AtSlash)
    /\ trailing /\ r < n => Read(n - 1) = "/"
    /\ pc = "scan" /\ trailing /\ r = n /\ w > 1 => w < n + Off
    /\ pc = "element" /\ r = n => ~trailing

\* What has been written is a clean path; it ends in "/" only while an element
\* that is not empty is about to be copied.
CleanSoFar ==
    /\ Written(0) = "/"
    /\ \A i \in 0..(w - 1) : Written(i) # Zero
    /\ \A i \in 0..(w - 2) : ~(Written(i) = "/" /\ Written(i + 1) = "/")
    /\ pc = "scan" /\ w > 1 => Written(w - 1) # "/"
    /\ pc = "element" /\ Written(w - 1) = "/" => r < n /\ ~AtSlash

IInv ==
    /\ TypeOK
    /\ pc = "begin" => buf = <<>> /\ w = 1
    /\ pc \in {"scan", "element"} => p # <<>> /\ Fits /\ Behind /\ CleanSoFar
    /\ pc = "done" => Slashed /\ (p # <<>> => w <= Size)

=============================================================================
