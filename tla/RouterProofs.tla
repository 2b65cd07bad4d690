---------------------------- MODULE RouterProofs ----------------------------
(***************************************************************************)
(* CleanPath on paths of every length: no index is out of range, and what  *)
(* is returned starts with "/" and has no empty element.  The inductive    *)
(* invariant is IInv of CleanPath.                                         *)
(*                                                                         *)
(* The route tree, for all routes, any number of them and any limit of a   *)
(* uint8: what is kept beside the routes is right for them.  The inductive *)
(* invariant is TreeInv.  It counts, for every node, the wildcards above   *)
(* it, says how much room for parameters each node needs and has, and      *)
(* where in the tree more of it is still to be taken up.                   *)
(***************************************************************************)
EXTENDS CleanPath, RouteTree, WellFoundedInduction, FiniteSetTheorems,
        FunctionTheorems, SequenceTheorems, TLAPS

-----------------------------------------------------------------------------
(* CleanPath.                                                              *)

\* bufApp writes c at w, keeps what is before it, and leaves a buffer that is as
\* long as the one before, or as the path if there was none.
LEMMA BufAppWrites ==
    ASSUME TypeOK, p # <<>>, Fits, w < Size, NEW c \in Bytes, BufApp(c), p' = p
    PROVE  /\ buf' \in Seq(Bytes \cup {Zero})
           /\ Fits'
           /\ Size' = Size
           /\ \A m \in 0..w : Written(m)' = IF m = w THEN c ELSE Written(m)
<1>1. /\ p \in Seq(Bytes) /\ n \in Nat /\ n > 0
      /\ w \in Nat /\ w >= 1
      /\ buf \in Seq(Bytes \cup {Zero})
      BY DEF TypeOK, n
<1>2. CASE buf = <<>> /\ p[w + 1] = c
  <2>1. buf' = buf /\ w < n
        BY <1>2 DEF BufApp, Size
  <2> QED
      BY <1>1, <1>2, <2>1 DEF Fits, Off, Read, n, Size, Written
<1>3. CASE buf = <<>> /\ p[w + 1] # c
  <2>1. buf' = [Copied(n) EXCEPT ![w + 1] = c] /\ w < n
        BY <1>3 DEF BufApp, Size
  <2>2. /\ Copied(n) \in Seq(Bytes \cup {Zero})
        /\ Len(Copied(n)) = n
        /\ \A m \in 1..n : m <= w => Copied(n)[m] = p[m]
        BY <1>1 DEF Copied, n
  <2>3. /\ buf' \in Seq(Bytes \cup {Zero})
        /\ Len(buf') = n
        /\ \A m \in 0..(w - 1) : buf'[m + 1] = p[m + 1]
        /\ buf'[w + 1] = c
        BY <1>1, <2>1, <2>2
  <2>4. buf' # <<>>
        BY <1>1, <2>3
  <2> QED
      BY <1>1, <1>3, <2>3, <2>4 DEF Fits, Off, Read, n, Size, Written
<1>4. CASE buf # <<>>
  <2>1. buf' = [buf EXCEPT ![w + 1] = c] /\ w < Len(buf)
        BY <1>4 DEF BufApp, Size
  <2>2. /\ buf' \in Seq(Bytes \cup {Zero})
        /\ Len(buf') = Len(buf)
        /\ \A m \in 0..(w - 1) : buf'[m + 1] = buf[m + 1]
        /\ buf'[w + 1] = c
        BY <1>1, <2>1
  <2>3. buf' # <<>>
        BY <1>1, <2>1, <2>2
  <2> QED
      BY <1>1, <1>4, <2>2, <2>3 DEF Fits, Off, Read, n, Size, Written
<1> QED
    BY <1>2, <1>3, <1>4

\* CleanPath starts in IInv.
LEMMA IInvInit ==
    ASSUME PathsAssumption, Init
    PROVE  IInv
<1>1. p \in Seq(Bytes) /\ n \in Nat
      BY DEF PathsAssumption, Init, n
<1>2. buf \in Seq(Bytes \cup {Zero}) /\ Len(buf) = 0 /\ out \in Seq(Bytes \cup {Zero})
      BY DEF Init
<1>3. trailing \in BOOLEAN
      BY DEF Init
<1>4. TypeOK
      BY <1>1, <1>2, <1>3 DEF Init, TypeOK
<1> QED
    BY <1>4 DEF Init, IInv

\* The empty path is "/".
LEMMA BeginEmptyStep ==
    ASSUME PathsAssumption, IInv, BeginEmpty
    PROVE  IInv'
<1>1. out' = <<"/">> /\ pc' = "done" /\ p' = <<>>
      BY DEF BeginEmpty
<1>2. TypeOK'
      BY DEF PathsAssumption, IInv, BeginEmpty, TypeOK, n
<1>3. Slashed'
      BY <1>1 DEF Slashed, Zero
<1> QED
    BY <1>1, <1>2, <1>3 DEF IInv

\* The "/" in front is there, in the path or in the buffer made for it.
LEMMA BeginStep ==
    ASSUME PathsAssumption, IInv, Begin
    PROVE  IInv'
<1>1. /\ p \in Seq(Bytes) /\ n \in Nat /\ n > 0
      /\ p' = p /\ pc' = "scan" /\ w' = 1 /\ n' = n /\ out' = out /\ p # <<>>
      BY DEF IInv, Begin, TypeOK, n
<1>t. trailing' \in BOOLEAN /\ (trailing' => n > 2) /\ (trailing' => Read(n - 1) = "/")
      BY DEF Begin
<1>2. CASE Read(0) = "/"
  <2>1. buf' = <<>> /\ r' = 1 /\ Off' = 0 /\ Off = 0
        BY <1>1, <1>2 DEF Begin, IInv, Off, Read
  <2>2. TypeOK'
        BY <1>1, <1>t, <2>1 DEF IInv, TypeOK
  <2>3. Fits'
        BY <1>1, <2>1 DEF Fits
  <2>4. Behind'
        BY <1>1, <1>t, <2>1 DEF Behind, Read
  <2>5. CleanSoFar'
        BY <1>1, <1>2, <2>1 DEF CleanSoFar, Written, Read, Zero
  <2> QED
      BY <1>1, <2>2, <2>3, <2>4, <2>5 DEF IInv
<1>3. CASE Read(0) # "/"
  <2>1. /\ buf' = [m \in 1..(n + 1) |-> IF m = 1 THEN "/" ELSE Zero]
        /\ r' = 0 /\ Off' = 1 /\ Off = 1
        BY <1>1, <1>3 DEF Begin, IInv, Off, Read
  <2>2. /\ buf' \in Seq(Bytes \cup {Zero})
        /\ Len(buf') = n + 1
        /\ buf'[1] = "/"
        /\ buf' # <<>>
        BY <1>1, <2>1 DEF PathsAssumption
  <2>3. TypeOK'
        BY <1>1, <1>t, <2>1, <2>2 DEF IInv, TypeOK
  <2>4. Fits'
        BY <1>1, <2>1, <2>2 DEF Fits
  <2>5. Behind'
        BY <1>1, <1>t, <2>1 DEF Behind, Read
  <2>6. CleanSoFar'
    <3>1. \A m \in 0..(w' - 1) : m = 0
          BY <1>1
    <3>2. Written(0)' = "/"
          BY <2>2 DEF Written
    <3> QED
        BY <1>1, <3>1, <3>2 DEF PathsAssumption, CleanSoFar
  <2> QED
      BY <1>1, <2>3, <2>4, <2>5, <2>6 DEF IInv
<1> QED
    BY <1>2, <1>3

\* The types of what the scan works with, and how much there is to write into.
LEMMA Scanning ==
    ASSUME IInv, pc \in {"scan", "element"}
    PROVE  /\ TypeOK /\ p # <<>> /\ Fits /\ Behind /\ CleanSoFar
           /\ p \in Seq(Bytes) /\ n \in Nat /\ n > 0
           /\ r \in Nat /\ r <= n
           /\ w \in Nat /\ w >= 1
           /\ Off \in {0, 1}
           /\ Size = n + Off
           /\ w <= Size
<1>1. TypeOK /\ p # <<>> /\ Fits /\ Behind /\ CleanSoFar
      BY DEF IInv
<1>2. /\ p \in Seq(Bytes) /\ n \in Nat /\ n > 0
      /\ r \in Nat /\ r <= n
      /\ w \in Nat /\ w >= 1
      /\ Off \in {0, 1}
      BY <1>1 DEF TypeOK, n, Off
<1>3. buf \in Seq(Bytes \cup {Zero})
      BY <1>1 DEF TypeOK
<1>4. Size = n + Off
      BY <1>1, <1>2, <1>3 DEF Fits, Size
<1> QED
    BY <1>1, <1>2, <1>4 DEF Behind

\* What is written stays clean when only r moves.
LEMMA NothingWritten ==
    ASSUME UNCHANGED <<p, buf>>
    PROVE  /\ n' = n /\ Off' = Off /\ Fits' = Fits /\ Size' = Size
           /\ \A m : Written(m)' = Written(m) /\ Read(m)' = Read(m)
BY DEF n, Off, Fits, Size, Written, Read

\* "/", "." and a last "." are read and not written.
LEMMA SkipStep ==
    ASSUME IInv, SkipSlash \/ LastDot \/ SkipDot
    PROVE  IInv'
<1>1. pc = "scan" /\ pc' = "scan" /\ r < n /\ r' = r + 1 /\ UNCHANGED <<p, w, buf, out>>
      BY DEF SkipSlash, LastDot, SkipDot
<1> USE Scanning, NothingWritten, <1>1
<1>2. trailing' \in BOOLEAN
      BY DEF SkipSlash, LastDot, SkipDot, TypeOK
<1>3. TypeOK'
      BY <1>2 DEF TypeOK
<1>4. w' < r' + Off'
      BY DEF Behind
<1>5. trailing' /\ r' < n' => Read(n - 1)' = "/"
  <2>1. CASE LastDot
    <3>1. r' = n
          BY <2>1 DEF LastDot, AtLastDot
    <3> QED
        BY <3>1
  <2>2. CASE SkipSlash \/ SkipDot
    <3>1. trailing' = trailing
          BY <2>2 DEF SkipSlash, SkipDot
    <3> QED
        BY <3>1 DEF Behind, Read
  <2> QED
      BY <2>1, <2>2
<1>6. Behind'
      BY <1>4, <1>5 DEF Behind
<1>7. CleanSoFar'
      BY DEF CleanSoFar
<1> QED
    BY <1>3, <1>6, <1>7 DEF IInv

\* The indices below w' are below w.
LEMMA Shorter ==
    ASSUME NEW j \in Nat, NEW k \in Nat, k <= j
    PROVE  /\ \A m \in 0..(k - 1) : m \in 0..(j - 1)
           /\ \A m \in 0..(k - 2) : m \in 0..(j - 2)
           /\ 1 < k /\ k < j => k - 1 \in 0..(j - 2) /\ (k - 1) + 1 = k
OBVIOUS

\* ".." takes back whole elements with the "/" before them.
LEMMA DotDotStep ==
    ASSUME IInv, DotDot
    PROVE  IInv'
<1>1. /\ pc = "scan" /\ pc' = "scan" /\ r < n /\ r' = r + 2 /\ r + 1 < n
      /\ UNCHANGED <<p, buf, trailing, out>>
      BY DEF DotDot, AtDotDot
<1>2. w' \in 1..w /\ (w' > 1 => w' < w /\ Written(w') = "/")
      BY Scanning, <1>1 DEF DotDot
<1>3. w \in Nat /\ w' \in Nat /\ w' >= 1 /\ w' <= w /\ r' \in Nat /\ r' <= n
      BY Scanning, <1>1, <1>2
<1>4. TypeOK'
      BY Scanning, NothingWritten, <1>1, <1>2, <1>3 DEF TypeOK
<1>5. Behind'
  <2>1. w' < r' + Off'
        BY Scanning, NothingWritten, <1>1, <1>2, <1>3 DEF Behind
  <2>2. trailing' /\ r' < n' => Read(n - 1)' = "/"
        BY Scanning, NothingWritten, <1>1 DEF Behind, Read
  <2> QED
      BY Scanning, NothingWritten, <1>1, <1>3, <2>1, <2>2 DEF Behind
<1>6. CleanSoFar'
  <2>1. w' > 1 => Written(w' - 1) # "/"
    <3>1. SUFFICES ASSUME w' > 1 PROVE Written(w' - 1) # "/"
          OBVIOUS
    <3>2. w' - 1 \in 0..(w - 2) /\ (w' - 1) + 1 = w'
          BY Shorter, <1>2, <1>3, <3>1
    <3>3. ~(Written(w' - 1) = "/" /\ Written((w' - 1) + 1) = "/")
          BY Scanning, <1>1, <3>2 DEF CleanSoFar
    <3> QED
        BY <1>2, <3>1, <3>2, <3>3
  <2>2. \A m \in 0..(w' - 1) : m \in 0..(w - 1)
        BY Shorter, <1>3
  <2>3. \A m \in 0..(w' - 2) : m \in 0..(w - 2)
        BY Shorter, <1>3
  <2> QED
      BY Scanning, NothingWritten, <1>1, <1>3, <2>1, <2>2, <2>3 DEF CleanSoFar
<1> QED
    BY Scanning, NothingWritten, <1>1, <1>4, <1>5, <1>6 DEF IInv

\* The end of an element has nothing of a "/" written behind it.
LEMMA EndElementStep ==
    ASSUME IInv, EndElement
    PROVE  IInv'
<1>1. /\ pc = "element" /\ pc' = "scan" /\ (r < n => AtSlash)
      /\ UNCHANGED <<p, r, w, buf, trailing, out>>
      BY DEF EndElement
<1> USE Scanning, NothingWritten, <1>1
<1>2. TypeOK'
      BY DEF TypeOK
<1>3. Behind'
  <2>1. r' < n' => AtSlash'
        BY DEF AtSlash, Read
  <2>2. trailing' /\ r' < n' => Read(n - 1)' = "/"
        BY DEF Behind, Read
  <2>3. r' = n' => ~trailing'
        BY DEF Behind
  <2> QED
      BY <2>1, <2>2, <2>3 DEF Behind
<1>4. CleanSoFar'
      BY DEF CleanSoFar
<1> QED
    BY <1>2, <1>3, <1>4 DEF IInv

\* The part of CleanSoFar that is true at any point of the scan.
WrittenClean ==
    /\ Written(0) = "/"
    /\ \A m \in 0..(w - 1) : Written(m) # Zero
    /\ \A m \in 0..(w - 2) : ~(Written(m) = "/" /\ Written(m + 1) = "/")

\* A "/" written after an element keeps what is written clean.
LEMMA SlashWritten ==
    ASSUME PathsAssumption, IInv, pc = "scan", w > 1, w < Size, BufApp("/"), w' = w + 1, p' = p
    PROVE  /\ buf' \in Seq(Bytes \cup {Zero}) /\ Fits' /\ Size' = Size
           /\ WrittenClean'
<1> USE Scanning
<1>1. /\ buf' \in Seq(Bytes \cup {Zero}) /\ Fits' /\ Size' = Size
      /\ \A m \in 0..w : Written(m)' = IF m = w THEN "/" ELSE Written(m)
      BY BufAppWrites DEF PathsAssumption
<1>2. Written(0)' = "/" /\ \A m \in 0..(w' - 1) : Written(m)' # Zero
      BY <1>1 DEF PathsAssumption, CleanSoFar
<1>3. \A m \in 0..(w' - 2) : ~(Written(m)' = "/" /\ Written(m + 1)' = "/")
  <2>1. SUFFICES ASSUME NEW m \in 0..(w - 1)
                 PROVE  ~(Written(m)' = "/" /\ Written(m + 1)' = "/")
        OBVIOUS
  <2>2. CASE m = w - 1
        BY <1>1, <2>2 DEF CleanSoFar
  <2>3. CASE m < w - 1
    <3>1. m \in 0..(w - 2) /\ m \in 0..w /\ m + 1 \in 0..w /\ m # w /\ m + 1 # w
          BY <2>3
    <3> QED
        BY <1>1, <3>1 DEF CleanSoFar
  <2> QED
      BY <2>2, <2>3
<1> QED
    BY <1>1, <1>2, <1>3 DEF WrittenClean

\* Before an element there is a "/", written now or the first one.
LEMMA StartElementStep ==
    ASSUME PathsAssumption, IInv, StartElement
    PROVE  IInv'
<1>1. /\ pc = "scan" /\ pc' = "element" /\ r < n /\ ~AtSlash
      /\ UNCHANGED <<p, r, trailing, out>>
      BY DEF StartElement, AtElement
<1> USE Scanning, <1>1
<1>2. n' = n /\ Off' = Off /\ AtSlash' = AtSlash /\ \A m : Read(m)' = Read(m)
      BY DEF n, Off, AtSlash, Read
<1>3. trailing' /\ r' < n' => Read(n - 1)' = "/"
      BY <1>2 DEF Behind, Read
<1>4. CASE w = 1
  <2>1. w' = w /\ buf' = buf
        BY <1>4 DEF StartElement
  <2>2. TypeOK'
        BY <1>2, <2>1 DEF TypeOK
  <2>3. Behind'
        BY <1>2, <1>3, <2>1 DEF Behind
  <2>4. CleanSoFar'
        BY <1>2, <1>4, <2>1, NothingWritten DEF CleanSoFar
  <2> QED
      BY <2>1, <2>2, <2>3, <2>4, NothingWritten DEF IInv
<1>5. CASE w > 1
  <2>1. BufApp("/") /\ w' = w + 1
        BY <1>5 DEF StartElement
  <2>2. w < r + Off
        BY <1>5 DEF Behind
  <2>3. /\ buf' \in Seq(Bytes \cup {Zero}) /\ Fits' /\ Size' = Size
        /\ WrittenClean'
        BY <1>5, <2>1, <2>2, SlashWritten
  <2>4. TypeOK'
        BY <1>2, <2>1, <2>2, <2>3 DEF TypeOK, Fits, Off
  <2>5. Behind'
        BY <1>2, <1>3, <2>1, <2>2 DEF Behind
  <2>6. CleanSoFar'
        BY <1>2, <2>3 DEF CleanSoFar, WrittenClean
  <2> QED
      BY <2>3, <2>4, <2>5, <2>6 DEF IInv
<1> QED
    BY <1>4, <1>5

\* One byte more on both sides; it is not a "/".
LEMMA CopyByteStep ==
    ASSUME PathsAssumption, IInv, CopyByte
    PROVE  IInv'
<1>1. /\ pc = "element" /\ pc' = "element" /\ r < n /\ ~AtSlash
      /\ BufApp(Read(r)) /\ w' = w + 1 /\ r' = r + 1
      /\ UNCHANGED <<p, trailing, out>>
      BY DEF CopyByte
<1> USE Scanning, <1>1
<1>2. n' = n /\ Off' = Off /\ \A m : Read(m)' = Read(m)
      BY DEF n, Off, Read
<1>3. Read(r) \in Bytes /\ Read(r) # "/" /\ w < Size
      BY DEF Read, AtSlash, Behind, n
<1>4. /\ buf' \in Seq(Bytes \cup {Zero}) /\ Fits' /\ Size' = Size
      /\ \A m \in 0..w : Written(m)' = IF m = w THEN Read(r) ELSE Written(m)
      BY <1>3, BufAppWrites
<1>5. TypeOK'
      BY <1>2, <1>3, <1>4 DEF TypeOK, Fits, Off
<1>6. Behind'
  <2>1. trailing' /\ r' < n' => Read(n - 1)' = "/"
        BY <1>2 DEF Behind, Read
  <2>2. r' = n' => ~trailing'
    <3>1. SUFFICES ASSUME r' = n, trailing PROVE FALSE
          BY <1>2
    <3>2. r = n - 1
          BY <3>1
    <3>3. Read(r) = "/"
          BY <3>1, <3>2 DEF Behind
    <3> QED
        BY <1>3, <3>3
  <2> QED
      BY <1>2, <2>1, <2>2 DEF Behind
<1>7. CleanSoFar'
  <2>1. Written(0)' = "/" /\ \A m \in 0..(w' - 1) : Written(m)' # Zero
        BY <1>3, <1>4 DEF PathsAssumption, CleanSoFar
  <2>2. \A m \in 0..(w' - 2) : ~(Written(m)' = "/" /\ Written(m + 1)' = "/")
    <3>1. SUFFICES ASSUME NEW m \in 0..(w - 1)
                   PROVE  ~(Written(m)' = "/" /\ Written(m + 1)' = "/")
          OBVIOUS
    <3>2. CASE m = w - 1
          BY <1>3, <1>4, <3>2
    <3>3. CASE m < w - 1
      <4>1. m \in 0..(w - 2) /\ m \in 0..w /\ m + 1 \in 0..w /\ m # w /\ m + 1 # w
            BY <3>3
      <4> QED
          BY <1>4, <4>1 DEF CleanSoFar
    <3> QED
        BY <3>2, <3>3
  <2>3. Written(w - 1)' # "/"
        BY <1>3, <1>4
  <2> QED
      BY <2>1, <2>2, <2>3 DEF CleanSoFar
<1> QED
    BY <1>4, <1>5, <1>6, <1>7 DEF IInv

\* The front of a sequence.
LEMMA FrontOf ==
    ASSUME NEW S, NEW s \in Seq(S), NEW k \in Nat, k >= 1, k <= Len(s)
    PROVE  /\ SubSeq(s, 1, k) \in Seq(S)
           /\ Len(SubSeq(s, 1, k)) = k
           /\ \A m \in 1..k : SubSeq(s, 1, k)[m] = s[m]
OBVIOUS

\* From one-based to zero-based positions.
LEMMA Positions ==
    ASSUME NEW k \in Nat, k >= 1
    PROVE  /\ \A m \in 1..k : m - 1 \in 0..(k - 1) /\ (m - 1) + 1 = m
           /\ \A m \in 1..(k - 1) : /\ m \in 1..k /\ m + 1 \in 1..k
                                   /\ m - 1 \in 0..(k - 2) /\ (m + 1) - 1 = m
OBVIOUS

\* What is returned is what has been written, with the trailing "/".
LEMMA FinishStep ==
    ASSUME PathsAssumption, IInv, Finish
    PROVE  IInv'
<1>1. /\ pc = "scan" /\ pc' = "done" /\ r = n
      /\ UNCHANGED <<p, r, trailing>>
      /\ out' = SubSeq(IF buf' = <<>> THEN p ELSE buf', 1, w')
      BY DEF Finish
<1>2. n' = n
      BY <1>1 DEF n
<1>3. /\ buf' \in Seq(Bytes \cup {Zero}) /\ Fits' /\ Size' = Size
      /\ WrittenClean'
      /\ w' \in Nat /\ w' >= 1 /\ w' <= Size
  <2>1. CASE trailing /\ w > 1
    <3>1. BufApp("/") /\ w' = w + 1
          BY <2>1 DEF Finish
    <3>2. w < Size
          BY Scanning, <1>1, <2>1 DEF Behind
    <3> QED
        BY Scanning, SlashWritten, <1>1, <2>1, <3>1, <3>2
  <2>2. CASE ~(trailing /\ w > 1)
    <3>1. buf' = buf /\ w' = w
          BY <2>2 DEF Finish
    <3>2. WrittenClean'
          BY Scanning, NothingWritten, <1>1, <3>1 DEF CleanSoFar, WrittenClean
    <3> QED
        BY Scanning, NothingWritten, <1>1, <3>1, <3>2 DEF TypeOK
  <2> QED
      BY <2>1, <2>2
<1> DEFINE all == IF buf' = <<>> THEN p ELSE buf'
<1>4. all \in Seq(Bytes \cup {Zero}) /\ Len(all) = Size
  <2>1. p \in Seq(Bytes \cup {Zero})
        BY Scanning, <1>1
  <2> QED
      BY <1>1, <1>2, <1>3, <2>1 DEF Size, n
<1>5. /\ out' \in Seq(Bytes \cup {Zero})
      /\ Len(out') = w'
      /\ \A m \in 1..w' : out'[m] = all[m]
  <2> HIDE DEF all
  <2>1. w' <= Len(all)
        BY <1>3, <1>4
  <2>2. out' = SubSeq(all, 1, w')
        BY <1>1 DEF all
  <2> QED
      BY <1>3, <1>4, <2>1, <2>2, FrontOf
<1>6. \A m \in 1..w' : out'[m] = Written(m - 1)'
  <2>1. \A m \in 1..w' : (m - 1) + 1 = m
        BY <1>3, Positions
  <2> QED
      BY <1>1, <1>5, <2>1 DEF Written
<1>7. Slashed'
  <2>1. out'[1] = "/"
        BY <1>3, <1>6 DEF WrittenClean
  <2>2. SUFFICES /\ \A m \in 1..(w' - 1) : ~(out'[m] = "/" /\ out'[m + 1] = "/")
                 /\ \A m \in 1..w' : out'[m] # Zero
        BY <1>5, <2>1 DEF Slashed
  <2>3. ASSUME NEW m \in 1..(w' - 1)
        PROVE  ~(out'[m] = "/" /\ out'[m + 1] = "/")
    <3>1. /\ m \in 1..w' /\ m + 1 \in 1..w' /\ m - 1 \in 0..(w' - 2)
          /\ (m - 1) + 1 = m /\ (m + 1) - 1 = m
          BY <1>3, Positions
    <3> QED
        BY <1>3, <1>6, <3>1 DEF WrittenClean
  <2>4. ASSUME NEW m \in 1..w'
        PROVE  out'[m] # Zero
    <3>1. m - 1 \in 0..(w' - 1)
          BY <1>3, Positions
    <3> QED
        BY <1>3, <1>6, <3>1 DEF WrittenClean
  <2> QED
      BY <2>3, <2>4
<1>8. TypeOK'
      BY Scanning, <1>1, <1>2, <1>3, <1>5 DEF TypeOK, Fits, Off
<1> QED
    BY Scanning, <1>1, <1>3, <1>7, <1>8 DEF IInv

\* Every step keeps the inductive invariant.
LEMMA IInvNext ==
    ASSUME PathsAssumption, IInv, [Next]_vars
    PROVE  IInv'
<1>1. CASE BeginEmpty
      BY <1>1, BeginEmptyStep
<1>2. CASE Begin
      BY <1>2, BeginStep
<1>3. CASE SkipSlash \/ LastDot \/ SkipDot
      BY <1>3, SkipStep
<1>4. CASE DotDot
      BY <1>4, DotDotStep
<1>5. CASE StartElement
      BY <1>5, StartElementStep
<1>6. CASE CopyByte
      BY <1>6, CopyByteStep
<1>7. CASE EndElement
      BY <1>7, EndElementStep
<1>8. CASE Finish
      BY <1>8, FinishStep
<1>9. CASE UNCHANGED vars
  <2>1. /\ TypeOK' = TypeOK /\ Slashed' = Slashed /\ Behind' = Behind /\ CleanSoFar' = CleanSoFar
        /\ Fits' = Fits /\ Size' = Size
        BY <1>9 DEF vars, TypeOK, Slashed, Behind, CleanSoFar, Fits, Size, n, Off, Read, Written,
           AtSlash
  <2> QED
      BY <1>9, <2>1 DEF IInv, vars
<1> QED
    BY <1>1, <1>2, <1>3, <1>4, <1>5, <1>6, <1>7, <1>8, <1>9 DEF Next

\* The invariant says that every index exists.
LEMMA IInvInRange == IInv => InRange
<1> SUFFICES ASSUME IInv PROVE InRange
    OBVIOUS
<1>1. ASSUME pc = "scan", r < n, AtElement, w > 1 PROVE w + 1 < Size
      BY Scanning, <1>1 DEF AtElement, Behind
<1>2. ASSUME pc = "element", r < n PROVE w < Size
      BY Scanning, <1>2 DEF Behind
<1>3. ASSUME pc = "scan", r = n, trailing, w > 1 PROVE w < Size
      BY Scanning, <1>3 DEF Behind
<1>4. ASSUME pc # "begin", p # <<>> PROVE w <= Size
  <2>1. CASE pc = "done"
        BY <1>4, <2>1 DEF IInv
  <2>2. CASE pc \in {"scan", "element"}
        BY Scanning, <2>2
  <2> QED
      BY <1>4, <2>1, <2>2 DEF IInv, TypeOK
<1> QED
    BY <1>1, <1>2, <1>3, <1>4 DEF InRange

-----------------------------------------------------------------------------
\* IInv is an invariant of CleanPath on paths of any bytes and any length.
THEOREM Invariance ==
    ASSUME PathsAssumption
    PROVE  Spec => []IInv
<1>1. Init => IInv
      BY IInvInit
<1>2. IInv /\ [Next]_vars => IInv'
      BY IInvNext
<1> QED
    BY <1>1, <1>2, PTL DEF Spec

\* Typing: both indexes stay within the path, w at most one ahead of its end.
THEOREM TypeCorrect ==
    ASSUME PathsAssumption
    PROVE  Spec => []TypeOK
<1>1. IInv => TypeOK
      BY DEF IInv
<1> QED
    BY <1>1, Invariance, PTL

\* CleanPath and bufApp use no index that the path and the buffer do not have,
\* whatever the path.
THEOREM IndexesInRange ==
    ASSUME PathsAssumption
    PROVE  Spec => []InRange
BY IInvInRange, Invariance, PTL

\* What CleanPath returns starts with "/", has no empty element, and consists of
\* bytes that were written, whatever the path.
THEOREM ReturnsSlashed ==
    ASSUME PathsAssumption
    PROVE  Spec => []Slashed
<1>1. IInv => Slashed
      BY DEF IInv, Slashed
<1> QED
    BY <1>1, Invariance, PTL

-----------------------------------------------------------------------------
(* The invariant, of a tree t.  Own: what a node takes of the room for     *)
(* parameters; d: how many wildcards lie above it.                         *)

\* A node that takes a parameter: that of one, or the lower one of a catch-all.
IsWild(e) == e.nType \in {"param", "catchAll"} /\ ~e.wildChild
Own(e) == IF IsWild(e) THEN 1 ELSE 0
Kids(e) == {e.children[j] : j \in 1..Len(e.children)}
WildIn(s, k) == {j \in k..Len(s) : s[j] \in Wild}
Least(a, b) == IF a <= b THEN a ELSE b

\* Every child is a node, and none is the root.
Typed(t) ==
    /\ t \in Seq(Node) /\ t # <<>>
    /\ \A m \in 1..Len(t) : Kids(t[m]) \subseteq 2..Len(t)

\* A node is the child of one node, once.
OneParent(t) ==
    /\ \A a, b \in 1..Len(t) : \A c \in Kids(t[a]) : c \in Kids(t[b]) => a = b
    /\ \A a \in 1..Len(t) : \A j, k \in 1..Len(t[a].children) :
         t[a].children[j] = t[a].children[k] => j = k

\* A wildcard is an only child; a parameter has at most a slash below it; the indices
\* are those of the children, except where there is nothing to choose.
ShapeOf(e) ==
    /\ e.wildChild => Len(e.children) = 1
    /\ e.nType = "param" => ~e.wildChild /\ Len(e.children) <= 1
    /\ Len(e.indices) <= Len(e.children)
    /\ e.nType # "param" /\ ~e.wildChild => Len(e.indices) = Len(e.children)
    /\ e.nType = "catchAll" /\ e.wildChild => e.path = <<>>

\* The root is no wildcard, and wildcards are where wildChild says they are.
Shaped(t) ==
    /\ t[Root].nType \in {"static", "root"}
    /\ \A m \in 1..Len(t) : ShapeOf(t[m])
    /\ \A m \in 1..Len(t) : \A c \in Kids(t[m]) : IsWild(t[c]) <=> t[m].wildChild

Tree(t) == Typed(t) /\ OneParent(t) /\ Shaped(t)

\* Siblings are in descending order of their priorities.
SortedAt(t, m) ==
    \A j \in 2..Len(t[m].children) :
      t[t[m].children[j]].priority <= t[t[m].children[j - 1]].priority
Sorted(t) == \A m \in 1..Len(t) : SortedAt(t, m)

\* The path of a wildcard, but for that of x, which insertChild has not written yet,
\* has one wildcard in it.
OneIn(s) == \E k \in 1..Len(s) : \A j \in 1..Len(s) : s[j] \in Wild <=> j = k
OneWildcard(t, x) == \A m \in 1..Len(t) : m # x /\ IsWild(t[m]) => OneIn(t[m].path)

\* d counts the wildcards on the way down.  A wildcard in the path of another node is
\* one that numParams, capped at ParamLimit, did not count any more.
DeepAt(t, d, m) ==
    /\ \A c \in Kids(t[m]) : d[c] = d[m] + (IF t[m].wildChild THEN 1 ELSE 0)
    /\ ~IsWild(t[m]) /\ WildIn(t[m].path, 1) # {} => d[m] = ParamLimit
Deep(t, d) ==
    /\ d \in [1..Len(t) -> 0..ParamLimit]
    /\ d[Root] = 0
    /\ \A m \in 1..Len(t) : DeepAt(t, d, m)

\* maxParams is at least what the node and any child of it need: never too little.
RoomyAt(t, m) ==
    /\ Own(t[m]) <= t[m].maxParams
    /\ \A c \in Kids(t[m]) : Own(t[m]) + t[c].maxParams <= t[m].maxParams
Roomy(t) == \A m \in 2..Len(t) : RoomyAt(t, m)

\* It is at most what some child needs: not more than there is to come, but for the
\* node x, below which k more are to come, and the one above it.
Needed(t, m) ==
    \/ t[m].maxParams <= Own(t[m])
    \/ \E c \in Kids(t[m]) : t[m].maxParams <= Own(t[m]) + t[c].maxParams
Tight(t, x, k) ==
    \A m \in 2..Len(t) : Needed(t, m) \/ (m = x /\ t[m].maxParams <= Own(t[m]) + k)
TightAbove(t, x, k) ==
    \A m \in 2..Len(t) :
      \/ Needed(t, m)
      \/ m = x /\ t[m].maxParams <= Own(t[m]) + k
      \/ x \in Kids(t[m]) /\ t[m].maxParams <= Own(t[m]) + Own(t[x]) + k

-----------------------------------------------------------------------------
(* Lemmas about sets of numbers and sequences.                             *)

\* The least element of a set of numbers.
LEMMA LeastOf ==
    ASSUME NEW s \in SUBSET Nat, s # {}
    PROVE  Min(s) \in s /\ \A x \in s : Min(s) <= x
<1>1. IsWellFoundedOn(OpToRel(<, Nat), Nat)
  BY NatLessThanWellFounded
<1>2. PICK x \in s : \A y \in s : ~(<<y, x>> \in OpToRel(<, Nat))
  BY <1>1, WFMin
<1>3. \A y \in s : ~(y < x)
  BY <1>2 DEF OpToRel
<1>4. \A y \in s : x <= y
  BY <1>3
<1> QED
  BY <1>4 DEF Min

\* The greatest element of a set that is bounded.
LEMMA GreatestOf ==
    ASSUME NEW b \in Nat, NEW s \in SUBSET (0..b), s # {}
    PROVE  Max(s) \in s /\ \A x \in s : x <= Max(s)
<1> DEFINE over == {y \in 0..b : \A x \in s : x <= y}
<1>1. over \in SUBSET Nat /\ b \in over
  OBVIOUS
<1>2. PICK y \in over : y = Min(over)
  BY <1>1, LeastOf
<1>3. \A z \in over : y <= z
  BY <1>1, <1>2, LeastOf
<1>4. y \in s
  <2> SUFFICES ASSUME y \notin s
      PROVE  FALSE
    OBVIOUS
  <2>1. PICK x \in s : TRUE
    OBVIOUS
  <2>2. y - 1 \in over
    BY <2>1
  <2> QED
    BY <1>3, <2>2
<1>5. \A x \in s : y >= x
  OBVIOUS
<1>6. \E x \in s : \A z \in s : x >= z
  BY <1>4, <1>5
<1>7. Max(s) \in s /\ \A z \in s : Max(s) >= z
  BY <1>6 DEF Max
<1> QED
  BY <1>7

\* Max and Min of two numbers.
LEMMA GreaterOf ==
    ASSUME NEW a \in Int, NEW b \in Int
    PROVE  Max({a, b}) = IF a <= b THEN b ELSE a
<1>1. \A c \in {a, b} : (\A x \in {a, b} : c >= x) <=> c = IF a <= b THEN b ELSE a
  OBVIOUS
<1> QED
  BY <1>1 DEF Max

\* The smaller one.
LEMMA SmallerOf ==
    ASSUME NEW a \in Int, NEW b \in Int
    PROVE  Min({a, b}) = IF a <= b THEN a ELSE b
<1>1. \A c \in {a, b} : (\A x \in {a, b} : c <= x) <=> c = IF a <= b THEN a ELSE b
  OBVIOUS
<1> QED
  BY <1>1 DEF Min

\* What is left of a sequence from a place on.
LEMMA CutIs ==
    ASSUME NEW S, NEW s \in Seq(S), NEW k \in 1..(Len(s) + 1)
    PROVE  /\ Cut(s, k) \in Seq(S)
           /\ Len(Cut(s, k)) = Len(s) + 1 - k
           /\ \A j \in 1..(Len(s) + 1 - k) : Cut(s, k)[j] = s[j + k - 1]
  BY DEF Cut

\* The wildcards of a sequence are finitely many.
LEMMA WildInFinite ==
    ASSUME NEW s \in Seq(STRING), NEW k \in Nat
    PROVE  /\ IsFiniteSet(WildIn(s, k))
           /\ Cardinality(WildIn(s, k)) \in Nat
           /\ Cardinality(WildIn(s, k)) = 0 <=> WildIn(s, k) = {}
<1>1. IsFiniteSet(k..Len(s))
  BY FS_Interval
<1>2. IsFiniteSet(WildIn(s, k))
  BY <1>1, FS_Subset DEF WildIn
<1> QED
  BY <1>2, FS_CardinalityType, FS_EmptySet

\* Those behind a place are those of what is left from there on.
LEMMA WildInCut ==
    ASSUME NEW s \in Seq(STRING), NEW c \in 0..Len(s)
    PROVE  Cardinality(WildIn(Cut(s, c + 1), 1)) = Cardinality(WildIn(s, c + 1))
<1> DEFINE rest == Cut(s, c + 1)
           f == [j \in WildIn(s, c + 1) |-> j - c]
<1>1. rest \in Seq(STRING) /\ Len(rest) = Len(s) - c /\ \A j \in 1..(Len(s) - c) : rest[j] = s[j + c]
  <2> HIDE DEF f
  <2>1. c + 1 \in 1..(Len(s) + 1) /\ Len(s) + 1 - (c + 1) = Len(s) - c
    OBVIOUS
  <2>2. /\ rest \in Seq(STRING)
        /\ Len(rest) = Len(s) + 1 - (c + 1)
        /\ \A j \in 1..(Len(s) + 1 - (c + 1)) : rest[j] = s[j + (c + 1) - 1]
    BY <2>1, CutIs
  <2>3. \A j \in 1..(Len(s) - c) : j + (c + 1) - 1 = j + c
    OBVIOUS
  <2> QED
    BY <2>1, <2>2, <2>3
<1>2. \A j \in WildIn(s, c + 1) : j - c \in WildIn(rest, 1)
  BY <1>1 DEF WildIn
<1>3. \A k \in WildIn(rest, 1) : k + c \in WildIn(s, c + 1) /\ f[k + c] = k
  BY <1>1 DEF WildIn
<1>4. f \in Bijection(WildIn(s, c + 1), WildIn(rest, 1))
  <2>1. f \in [WildIn(s, c + 1) -> WildIn(rest, 1)]
    BY <1>2
  <2>2. \A a, b \in WildIn(s, c + 1) : f[a] = f[b] => a = b
    BY DEF WildIn
  <2>3. \A k \in WildIn(rest, 1) : \E a \in WildIn(s, c + 1) : f[a] = k
    BY <1>3
  <2> HIDE DEF f
  <2> QED
    BY <2>1, <2>2, <2>3 DEF Bijection, Injection, Surjection, IsInjective
<1>5. ExistsBijection(WildIn(s, c + 1), WildIn(rest, 1))
  BY <1>4 DEF ExistsBijection
<1> QED
  BY <1>5, WildInFinite, FS_Bijection

\* A wildcard is one.
LEMMA WildInStep ==
    ASSUME NEW s \in Seq(STRING), NEW k \in Nat, NEW l \in Nat, NEW x,
           WildIn(s, k) = WildIn(s, l) \cup {x}, x \notin WildIn(s, l)
    PROVE  Cardinality(WildIn(s, k)) = Cardinality(WildIn(s, l)) + 1
  BY WildInFinite, FS_AddElement

-----------------------------------------------------------------------------
(* Sequences of which an element is moved.                                 *)

\* The bytes of a sequence from to..from are moved up by one, for s[from].
Source(j, from, to) == IF j < to \/ j > from THEN j ELSE IF j = to THEN from ELSE j - 1

\* A part of a sequence.
LEMMA PartIs ==
    ASSUME NEW S, NEW s \in Seq(S), NEW k \in 1..(Len(s) + 1), NEW l \in 0..Len(s), k <= l + 1
    PROVE  /\ SubSeq(s, k, l) \in Seq(S) /\ Len(SubSeq(s, k, l)) = l + 1 - k
           /\ \A j \in 1..(l + 1 - k) : SubSeq(s, k, l)[j] = s[j + k - 1]
  OBVIOUS

\* Moved takes every element from its source.
LEMMA MovedIs ==
    ASSUME NEW S, NEW s \in Seq(S), NEW from \in 1..Len(s), NEW to \in 1..from
    PROVE  /\ Moved(s, from, to) \in Seq(S)
           /\ Len(Moved(s, from, to)) = Len(s)
           /\ \A j \in 1..Len(s) : Moved(s, from, to)[j] = s[Source(j, from, to)]
<1> DEFINE before == SubSeq(s, 1, from - 1)
           behind == SubSeq(s, from + 1, Len(s))
           rest == before \o behind
           a == SubSeq(rest, 1, to - 1)
           b == <<s[from]>>
           c == SubSeq(rest, to, Len(rest))
           ab == a \o b
           all == ab \o c
<1>1. Moved(s, from, to) = all
  BY DEF Moved, InsertAt, RemoveAt
<1>2. Len(s) \in Nat
  OBVIOUS
<1>3. before \in Seq(S) /\ Len(before) = from - 1 /\ \A j \in 1..(from - 1) : before[j] = s[j]
  BY <1>2, PartIs
<1>4. /\ behind \in Seq(S) /\ Len(behind) = Len(s) - from
      /\ \A j \in 1..(Len(s) - from) : behind[j] = s[j + from]
  BY <1>2, PartIs
<1>5. b \in Seq(S) /\ Len(b) = 1 /\ b[1] = s[from]
  OBVIOUS
<1> HIDE DEF before, behind, b
<1>6. /\ rest \in Seq(S) /\ Len(rest) = Len(s) - 1
      /\ \A j \in 1..(from - 1) : rest[j] = before[j]
      /\ \A j \in 1..(Len(s) - from) : rest[from - 1 + j] = behind[j]
  <2>0. before \in Seq(S) /\ behind \in Seq(S)
    BY <1>3, <1>4
  <2>1. /\ rest \in Seq(S) /\ Len(rest) = Len(before) + Len(behind)
        /\ \A j \in 1..Len(before) : rest[j] = before[j]
        /\ \A j \in 1..Len(behind) : rest[Len(before) + j] = behind[j]
    BY <2>0
  <2> HIDE DEF rest
  <2> QED
    BY <1>2, <1>3, <1>4, <2>1
<1> HIDE DEF rest
<1>7. a \in Seq(S) /\ Len(a) = to - 1 /\ \A j \in 1..(to - 1) : a[j] = rest[j]
  BY <1>2, <1>6, PartIs
<1>8. /\ c \in Seq(S) /\ Len(c) = Len(s) - to
      /\ \A j \in 1..(Len(s) - to) : c[j] = rest[j + to - 1]
  BY <1>2, <1>6, PartIs
<1> HIDE DEF a, c
<1>9. /\ ab \in Seq(S) /\ Len(ab) = to
      /\ \A j \in 1..(to - 1) : ab[j] = a[j]
      /\ ab[to] = b[1]
  <2>0. a \in Seq(S) /\ b \in Seq(S)
    BY <1>5, <1>7
  <2>1. /\ ab \in Seq(S) /\ Len(ab) = Len(a) + Len(b)
        /\ \A j \in 1..Len(a) : ab[j] = a[j]
        /\ \A j \in 1..Len(b) : ab[Len(a) + j] = b[j]
    BY <2>0
  <2> HIDE DEF ab
  <2> QED
    BY <1>2, <1>5, <1>7, <2>1
<1> HIDE DEF ab
<1>10. /\ all \in Seq(S) /\ Len(all) = Len(s)
       /\ \A j \in 1..to : all[j] = ab[j]
       /\ \A j \in 1..(Len(s) - to) : all[to + j] = c[j]
  <2>0. ab \in Seq(S) /\ c \in Seq(S)
    BY <1>8, <1>9
  <2>1. /\ all \in Seq(S) /\ Len(all) = Len(ab) + Len(c)
        /\ \A j \in 1..Len(ab) : all[j] = ab[j]
        /\ \A j \in 1..Len(c) : all[Len(ab) + j] = c[j]
    BY <2>0
  <2> HIDE DEF all
  <2> QED
    BY <1>2, <1>8, <1>9, <2>1
<1> HIDE DEF all
<1>11. ASSUME NEW j \in 1..Len(s)
       PROVE  all[j] = s[Source(j, from, to)]
  <2>1. CASE j < to
    BY <1>2, <1>3, <1>6, <1>7, <1>9, <1>10, <2>1 DEF Source
  <2>2. CASE j = to
    BY <1>2, <1>5, <1>9, <1>10, <2>2 DEF Source
  <2>3. CASE j > to
    <3>1. all[j] = rest[j - 1]
      <4>1. j - to \in 1..(Len(s) - to) /\ all[to + (j - to)] = c[j - to]
        BY <1>2, <1>10, <2>3
      <4>2. c[j - to] = rest[(j - to) + to - 1]
        BY <1>8, <4>1
      <4> QED
        BY <1>2, <4>1, <4>2
    <3>2. CASE j - 1 < from
      BY <1>2, <1>3, <1>6, <2>3, <3>1, <3>2 DEF Source
    <3>3. CASE j - 1 >= from
      <4>1. j - from \in 1..(Len(s) - from) /\ rest[from - 1 + (j - from)] = behind[j - from]
        BY <1>2, <1>6, <3>3
      <4>2. behind[j - from] = s[(j - from) + from]
        BY <1>4, <4>1
      <4> QED
        BY <1>2, <2>3, <3>1, <3>3, <4>1, <4>2 DEF Source
    <3> QED
      BY <1>2, <3>2, <3>3
  <2> QED
    BY <1>2, <2>1, <2>2, <2>3
<1> QED
  BY <1>1, <1>10, <1>11

\* A descending sequence, when an element of it is raised by one and moved up past
\* those it has overtaken.
Risen(f, from, to, j) == IF j = to THEN f[from] + 1 ELSE f[Source(j, from, to)]

\* It is descending again.
LEMMA RisenSorted ==
    ASSUME NEW l \in Nat, NEW f \in [1..l -> Nat], \A j \in 2..l : f[j] <= f[j - 1],
           NEW from \in 1..l, NEW to \in 1..from,
           \A j \in to..(from - 1) : f[j] < f[from] + 1,
           to > 1 => f[to - 1] >= f[from] + 1
    PROVE  \A j \in 2..l : Risen(f, from, to, j) <= Risen(f, from, to, j - 1)
<1> SUFFICES ASSUME NEW j \in 2..l
    PROVE  Risen(f, from, to, j) <= Risen(f, from, to, j - 1)
  OBVIOUS
<1>1. CASE j < to
  <2>1. Risen(f, from, to, j) = f[j]
    BY <1>1 DEF Risen, Source
  <2>2. Risen(f, from, to, j - 1) = f[j - 1]
    BY <1>1 DEF Risen, Source
  <2> QED
    BY <2>1, <2>2
<1>2. CASE j = to
  BY <1>2 DEF Risen, Source
<1>3. CASE j = to + 1 /\ j <= from
  BY <1>3 DEF Risen, Source
<1>4. CASE to + 1 < j /\ j <= from
  <2>1. Risen(f, from, to, j) = f[j - 1] /\ Risen(f, from, to, j - 1) = f[(j - 1) - 1]
    <3>1. j # to /\ ~(j < to \/ j > from)
      BY <1>4
    <3>2. j - 1 # to /\ ~(j - 1 < to \/ j - 1 > from)
      BY <1>4
    <3> QED
      BY <3>1, <3>2 DEF Risen, Source
  <2>2. j - 1 \in 2..l
    BY <1>4
  <2>3. f[j - 1] <= f[(j - 1) - 1]
    BY <2>2
  <2> QED
    BY <2>1, <2>3
<1>5. CASE j = from + 1
  <2>1. Risen(f, from, to, j) = f[j] /\ f[j] <= f[from]
    BY <1>5 DEF Risen, Source
  <2>2. CASE to = from
    BY <1>5, <2>1, <2>2 DEF Risen, Source
  <2>3. CASE to # from
    <3>1. Risen(f, from, to, j - 1) = f[from - 1] /\ f[from] <= f[from - 1]
      BY <1>5, <2>3 DEF Risen, Source
    <3> QED
      BY <1>5, <2>1, <2>3, <3>1
  <2> QED
    BY <2>2, <2>3
<1>6. CASE j > from + 1
  BY <1>6 DEF Risen, Source
<1> QED
  BY <1>1, <1>2, <1>3, <1>4, <1>5, <1>6

\* Where it comes to stand.
Overtaken(f, from, to) ==
    /\ to \in 1..from
    /\ \A j \in to..(from - 1) : f[j] < f[from] + 1
    /\ to > 1 => f[to - 1] >= f[from] + 1

\* newPos of incrementChildPrio is such a place.
LEMMA RisenTo ==
    ASSUME NEW l \in Nat, NEW f \in [1..l -> Nat], NEW from \in 1..l, NEW to,
           to = Min({k \in 1..from : \A j \in k..(from - 1) : f[j] < f[from] + 1})
    PROVE  Overtaken(f, from, to)
<1> DEFINE past == {k \in 1..from : \A j \in k..(from - 1) : f[j] < f[from] + 1}
<1>1. past \in SUBSET Nat /\ from \in past
  OBVIOUS
<1>2. to \in past /\ \A k \in past : to <= k
  <2> HIDE DEF past
  <2>1. Min(past) \in past /\ \A k \in past : Min(past) <= k
    BY <1>1, LeastOf
  <2>2. to = Min(past)
    BY DEF past
  <2> QED
    BY <2>1, <2>2
<1>3. to \in 1..from /\ \A j \in to..(from - 1) : f[j] < f[from] + 1
  BY <1>2
<1>4. ASSUME to > 1, ~(f[to - 1] >= f[from] + 1)
      PROVE  FALSE
  <2>1. to - 1 \in 1..from /\ to - 1 \in 1..l
    BY <1>3, <1>4
  <2>2. f[to - 1] < f[from] + 1
    BY <1>4, <2>1
  <2>3. ASSUME NEW j \in (to - 1)..(from - 1)
        PROVE  f[j] < f[from] + 1
    <3>1. j = to - 1 \/ j \in to..(from - 1)
      BY <1>3
    <3> QED
      BY <1>3, <2>2, <3>1
  <2>4. to - 1 \in past
    BY <2>1, <2>3
  <2>5. to <= to - 1
    BY <1>2, <2>4
  <2> QED
    BY <1>3, <2>5
<1> QED
  BY <1>3, <1>4 DEF Overtaken

\* The sources are places of the sequence.
LEMMA SourceIn ==
    ASSUME NEW l \in Nat, NEW from \in 1..l, NEW to \in 1..from
    PROVE  \A j \in 1..l : Source(j, from, to) \in 1..l
  BY DEF Source

\* That of the place it comes to is the one it leaves.
LEMMA SourceOfRisen ==
    ASSUME NEW l \in Nat, NEW from \in 1..l, NEW to \in 1..from
    PROVE  \A j \in 1..l : Source(j, from, to) = from <=> j = to
  BY DEF Source

\* No two places have the same source.
LEMMA SourceOnce ==
    ASSUME NEW l \in Nat, NEW from \in 1..l, NEW to \in 1..from
    PROVE  \A j, k \in 1..l : Source(j, from, to) = Source(k, from, to) => j = k
  BY DEF Source

\* Every place is one.
LEMMA SourceOfAll ==
    ASSUME NEW l \in Nat, NEW from \in 1..l, NEW to \in 1..from, NEW j \in 1..l
    PROVE  \E k \in 1..l : j = Source(k, from, to)
<1>1. CASE j < to \/ j > from
  <2>1. j = Source(j, from, to)
    BY <1>1 DEF Source
  <2> QED
    BY <2>1
<1>2. CASE j = from
  <2>1. to \in 1..l /\ j = Source(to, from, to)
    BY <1>2 DEF Source
  <2> QED
    BY <2>1
<1>3. CASE to <= j /\ j < from
  <2>1. j + 1 \in 1..l /\ ~(j + 1 < to \/ j + 1 > from) /\ j + 1 # to /\ (j + 1) - 1 = j
    BY <1>3
  <2>2. j = Source(j + 1, from, to)
    BY <2>1 DEF Source
  <2> QED
    BY <2>1, <2>2
<1> QED
  BY <1>1, <1>2, <1>3

\* Nothing is doubled by it.
LEMMA PermutedOnce ==
    ASSUME NEW l \in Nat, NEW from \in 1..l, NEW to \in 1..from, NEW s, NEW q,
           \A j \in 1..l : q[j] = s[Source(j, from, to)],
           \A j, k \in 1..l : s[j] = s[k] => j = k,
           NEW j \in 1..l, NEW k \in 1..l, q[j] = q[k]
    PROVE  j = k
<1>1. Source(j, from, to) \in 1..l /\ Source(k, from, to) \in 1..l
  BY SourceIn
<1>2. s[Source(j, from, to)] = s[Source(k, from, to)]
  OBVIOUS
<1>3. Source(j, from, to) = Source(k, from, to)
  BY <1>1, <1>2
<1> QED
  BY <1>3, SourceOnce

-----------------------------------------------------------------------------
(* Trees that have the same nodes and edges.                               *)

\* The types of the fields.
LEMMA NodeFields ==
    ASSUME NEW e \in Node
    PROVE  /\ e.path \in Seq(STRING) /\ e.indices \in Seq(STRING)
           /\ e.children \in Seq(Nat)
           /\ e.wildChild \in BOOLEAN
           /\ e.nType \in {"static", "root", "param", "catchAll"}
           /\ e.maxParams \in 0..ParamLimit /\ e.maxParams \in Nat
           /\ e.handle \in Handlers
           /\ e.priority \in Nat
  BY RoutesAssumed DEF Node, RoutesAssumption

\* Nodes of which some fields are new.
SameBut(e, f, fields) ==
    /\ f \in Node
    /\ "path" \in fields \/ f.path = e.path
    /\ "wildChild" \in fields \/ f.wildChild = e.wildChild
    /\ "nType" \in fields \/ f.nType = e.nType
    /\ "maxParams" \in fields \/ f.maxParams = e.maxParams
    /\ "indices" \in fields \/ f.indices = e.indices
    /\ "children" \in fields \/ f.children = e.children
    /\ "priority" \in fields \/ f.priority = e.priority

\* priority++.
LEMMA WithPriority ==
    ASSUME NEW e \in Node
    PROVE  LET f == [e EXCEPT !.priority = @ + 1]
           IN  SameBut(e, f, {"priority"}) /\ f.priority = e.priority + 1
<1>1. e.priority + 1 \in Nat
  BY DEF Node
<1> QED
  BY <1>1 DEF Node, SameBut

\* Other children.
LEMMA WithChildren ==
    ASSUME NEW e \in Node, NEW nc \in Seq(Nat)
    PROVE  LET f == [e EXCEPT !.children = nc]
           IN  SameBut(e, f, {"children"}) /\ f.children = nc
  BY DEF Node, SameBut

\* Other indices.
LEMMA WithIndices ==
    ASSUME NEW e \in Node, NEW ni \in Seq(STRING)
    PROVE  LET f == [e EXCEPT !.indices = ni]
           IN  SameBut(e, f, {"indices"}) /\ f.indices = ni
  BY DEF Node, SameBut

\* Where the children are.
LEMMA KidsIn ==
    ASSUME NEW t, Typed(t), NEW m \in 1..Len(t)
    PROVE  /\ \A c \in Kids(t[m]) : c \in 1..Len(t) /\ c \in 2..Len(t) /\ c # Root
           /\ \A j \in 1..Len(t[m].children) : t[m].children[j] \in Kids(t[m])
           /\ Len(t[m].children) \in Nat /\ t[m] \in Node /\ Len(t) \in Nat
<1>1. Len(t) \in Nat /\ t[m] \in Node
  BY DEF Typed
<1>2. Len(t[m].children) \in Nat
  BY <1>1, NodeFields
<1> QED
  BY <1>1, <1>2 DEF Kids, Typed, Root

\* A node takes one parameter or none.
LEMMA OwnIs ==
    ASSUME NEW e
    PROVE  Own(e) \in {0, 1} /\ Own(e) \in Nat /\ (IsWild(e) <=> Own(e) = 1)
  BY DEF Own

\* Whatever else has changed in them.
Kept(t, u) ==
    /\ u \in Seq(Node) /\ Len(u) = Len(t)
    /\ \A m \in 1..Len(t) :
         /\ Kids(u[m]) = Kids(t[m])
         /\ Len(u[m].children) = Len(t[m].children)
         /\ Len(u[m].indices) = Len(t[m].indices)
         /\ u[m].wildChild = t[m].wildChild
         /\ u[m].nType = t[m].nType \/ (m = Root /\ u[m].nType = "root")
         /\ t[m].nType = "catchAll" /\ t[m].wildChild => u[m].path = t[m].path
Unmoved(t, u) == \A m \in 1..Len(t) : u[m].children = t[m].children

\* maxParams is a number in both trees.
LEMMA KeptMaxParams ==
    ASSUME NEW t, NEW u, Tree(t), Kept(t, u)
    PROVE  \A a \in 1..Len(t) : t[a].maxParams \in Nat /\ u[a].maxParams \in Nat
<1>1. \A a \in 1..Len(t) : t[a] \in Node
  BY DEF Tree, Typed
<1>2. \A a \in 1..Len(t) : u[a] \in Node
  BY DEF Kept
<1> QED
  BY <1>1, <1>2, NodeFields

\* Wildcards stay wildcards.
LEMMA KeptTypes ==
    ASSUME NEW t, NEW u, Tree(t), Kept(t, u)
    PROVE  /\ Typed(u)
           /\ u[Root].nType \in {"static", "root"}
           /\ \A m \in 1..Len(t) : IsWild(u[m]) <=> IsWild(t[m])
           /\ \A m \in 1..Len(t) : Own(u[m]) = Own(t[m])
<1>1. t[Root].nType \in {"static", "root"} /\ 1 \in 1..Len(t) /\ Len(t) \in Nat
  BY DEF Tree, Shaped, Typed
<1>2. \A m \in 1..Len(t) : u[m].nType \in {"param", "catchAll"} <=> t[m].nType \in {"param", "catchAll"}
  BY <1>1 DEF Kept, Root
<1>3. \A m \in 1..Len(t) : IsWild(u[m]) <=> IsWild(t[m])
  BY <1>2 DEF Kept, IsWild
<1>4. \A m \in 1..Len(t) : Own(u[m]) = Own(t[m])
  BY <1>3 DEF Own
<1>5. Typed(u)
  BY DEF Tree, Typed, Kept
<1>6. u[Root].nType \in {"static", "root"}
  BY <1>1 DEF Kept, Root
<1> QED
  BY <1>3, <1>4, <1>5, <1>6

\* A tree stays one.
LEMMA KeptTree ==
    ASSUME NEW t, NEW u, Tree(t), Kept(t, u),
           \A a \in 1..Len(t) : \A j, k \in 1..Len(u[a].children) :
             u[a].children[j] = u[a].children[k] => j = k
    PROVE  Tree(u)
<1>1. OneParent(u)
  BY DEF Tree, OneParent, Kept
<1>2. ASSUME NEW m \in 1..Len(t)
      PROVE  ShapeOf(u[m])
  <2>1. ShapeOf(t[m])
    BY DEF Tree, Shaped
  <2>2. CASE m = Root
    <3>1. t[m].nType \in {"static", "root"} /\ u[m].nType \in {"static", "root"}
      BY <2>2, KeptTypes DEF Tree, Shaped
    <3>2. /\ Len(u[m].children) = Len(t[m].children) /\ Len(u[m].indices) = Len(t[m].indices)
          /\ u[m].wildChild = t[m].wildChild
      BY DEF Kept
    <3> QED
      BY <2>1, <3>1, <3>2 DEF ShapeOf
  <2>3. CASE m # Root
    BY <2>1, <2>3 DEF Kept, ShapeOf
  <2> QED
    BY <2>2, <2>3
<1>3. ASSUME NEW m \in 1..Len(t), NEW c \in Kids(u[m])
      PROVE  IsWild(u[c]) <=> u[m].wildChild
  <2>1. c \in Kids(t[m]) /\ u[m].wildChild = t[m].wildChild /\ c \in 1..Len(t)
    BY KidsIn DEF Kept, Tree
  <2>2. IsWild(t[c]) <=> t[m].wildChild
    BY <2>1 DEF Tree, Shaped
  <2> QED
    BY KeptTypes, <2>1, <2>2
<1>4. Shaped(u)
  BY KeptTypes, <1>2, <1>3 DEF Shaped, Kept
<1> QED
  BY KeptTypes, <1>1, <1>4 DEF Tree

\* As many wildcards are above each node.
LEMMA KeptDeep ==
    ASSUME NEW t, NEW u, NEW d, Tree(t), Kept(t, u), Deep(t, d),
           \A m \in 1..Len(t) : u[m].path = t[m].path \/ IsWild(t[m])
                                  \/ WildIn(u[m].path, 1) = {} \/ d[m] = ParamLimit
    PROVE  Deep(u, d)
<1>1. ASSUME NEW m \in 1..Len(t)
      PROVE  DeepAt(u, d, m)
  <2>1. ~IsWild(u[m]) /\ WildIn(u[m].path, 1) # {} => d[m] = ParamLimit
    BY KeptTypes DEF Deep, DeepAt
  <2>2. \A c \in Kids(u[m]) : d[c] = d[m] + (IF u[m].wildChild THEN 1 ELSE 0)
    BY DEF Deep, DeepAt, Kept
  <2> QED
    BY <2>1, <2>2 DEF DeepAt
<1>2. Len(u) = Len(t)
  BY DEF Kept
<1> QED
  BY <1>1, <1>2 DEF Deep

\* Only children change their places for their priorities, never an only child.
LEMMA KeptSorted ==
    ASSUME NEW t, NEW u, NEW x, Tree(t), Kept(t, u), Unmoved(t, u), Sorted(t),
           \A m \in 1..Len(t) : m # x => u[m].priority = t[m].priority,
           \A m \in 1..Len(t) : x \in Kids(t[m]) => Len(t[m].children) = 1
    PROVE  Sorted(u)
<1> SUFFICES ASSUME NEW m \in 1..Len(t), NEW j \in 2..Len(t[m].children)
    PROVE  u[t[m].children[j]].priority <= u[t[m].children[j - 1]].priority
  BY DEF Sorted, SortedAt, Kept, Unmoved
<1>1. Len(t[m].children) \in Nat
  BY KidsIn DEF Tree
<1>2. j \in 1..Len(t[m].children) /\ j - 1 \in 1..Len(t[m].children)
  BY <1>1
<1>3. /\ t[m].children[j] \in 1..Len(t) /\ t[m].children[j] # x
      /\ t[m].children[j - 1] \in 1..Len(t) /\ t[m].children[j - 1] # x
  BY <1>1, <1>2, KidsIn DEF Tree
<1> QED
  BY <1>3 DEF Sorted, SortedAt

\* Raising maxParams where the node above has room leaves every node with enough.
LEMMA KeptRoomy ==
    ASSUME NEW t, NEW u, NEW x, Tree(t), Kept(t, u), Roomy(t),
           \A m \in 1..Len(t) : m # x => u[m].maxParams = t[m].maxParams,
           x \in 1..Len(t) => t[x].maxParams <= u[x].maxParams,
           \A m \in 2..Len(t) : x \in Kids(t[m]) => Own(t[m]) + u[x].maxParams <= t[m].maxParams
    PROVE  Roomy(u)
<1> SUFFICES ASSUME NEW m \in 2..Len(t)
    PROVE  RoomyAt(u, m)
  BY DEF Roomy, Kept
<1>1. m \in 1..Len(t)
  BY DEF Tree, Typed
<1>2. \A a \in 1..Len(t) : t[a].maxParams \in Nat /\ u[a].maxParams \in Nat
  BY KeptMaxParams
<1>3. Own(u[m]) = Own(t[m]) /\ Own(t[m]) \in Nat
  BY <1>1, KeptTypes, OwnIs
<1>4. t[m].maxParams <= u[m].maxParams
  BY <1>1, <1>2
<1>5. Own(t[m]) <= t[m].maxParams
  BY DEF Roomy, RoomyAt
<1>6. Own(u[m]) <= u[m].maxParams
  BY <1>1, <1>2, <1>3, <1>4, <1>5
<1>7. ASSUME NEW c \in Kids(t[m])
      PROVE  Own(t[m]) + u[c].maxParams <= u[m].maxParams
  <2>1. c \in 1..Len(t)
    BY <1>1, KidsIn DEF Tree
  <2>2. Own(t[m]) + t[c].maxParams <= t[m].maxParams
    BY DEF Roomy, RoomyAt
  <2>3. Own(t[m]) + u[c].maxParams <= t[m].maxParams
    BY <2>1, <2>2
  <2>4. t[m].maxParams \in Nat /\ u[m].maxParams \in Nat /\ u[c].maxParams \in Nat
    BY <1>1, <1>2, <2>1
  <2> QED
    BY <1>3, <1>4, <2>3, <2>4
<1> QED
  BY <1>1, <1>3, <1>6, <1>7 DEF RoomyAt, Kept

\* Raising what a child needs leaves its parent in need of it.
LEMMA KeptNeeded ==
    ASSUME NEW t, NEW u, NEW m \in 1..Len(t), Tree(t), Kept(t, u), Needed(t, m),
           \A a \in 1..Len(t) : t[a].maxParams <= u[a].maxParams,
           u[m].maxParams = t[m].maxParams
    PROVE  Needed(u, m)
<1>1. \A a \in 1..Len(t) : t[a].maxParams \in Nat /\ u[a].maxParams \in Nat
  BY KeptMaxParams
<1>2. Own(u[m]) = Own(t[m]) /\ Own(t[m]) \in Nat
  BY KeptTypes, OwnIs
<1>3. CASE t[m].maxParams <= Own(t[m])
  BY <1>2, <1>3 DEF Needed
<1>4. ASSUME NEW c \in Kids(t[m]), t[m].maxParams <= Own(t[m]) + t[c].maxParams
      PROVE  Needed(u, m)
  <2>1. c \in 1..Len(t) /\ c \in Kids(u[m])
    BY KidsIn DEF Tree, Kept
  <2>2. t[c].maxParams <= u[c].maxParams /\ t[c].maxParams \in Nat /\ u[c].maxParams \in Nat
    BY <1>1, <2>1
  <2>3. u[m].maxParams <= Own(u[m]) + u[c].maxParams
    BY <1>1, <1>2, <1>4, <2>2
  <2> QED
    BY <2>1, <2>3 DEF Needed
<1> QED
  BY <1>3, <1>4 DEF Needed

-----------------------------------------------------------------------------
(* A child gets another handler below it.                                  *)

\* In u the child at pos of m has one more, and stands at to.
Overtakes(t, u, m, pos, to) ==
    /\ u \in Seq(Node) /\ Len(u) = Len(t)
    /\ pos \in 1..Len(t[m].children) /\ to \in 1..pos
    /\ \A a \in 1..Len(t) :
         /\ u[a].path = t[a].path /\ u[a].maxParams = t[a].maxParams
         /\ u[a].wildChild = t[a].wildChild /\ u[a].nType = t[a].nType
         /\ Len(u[a].indices) = Len(t[a].indices)
         /\ a # m => u[a].children = t[a].children
         /\ u[a].priority = IF a = t[m].children[pos] THEN t[a].priority + 1 ELSE t[a].priority
    /\ Len(u[m].children) = Len(t[m].children)
    /\ \A j \in 1..Len(t[m].children) : u[m].children[j] = t[m].children[Source(j, pos, to)]
    /\ \A j \in to..(pos - 1) :
         t[t[m].children[j]].priority < t[t[m].children[pos]].priority + 1
    /\ to > 1 => t[t[m].children[to - 1]].priority >= t[t[m].children[pos]].priority + 1

\* The tree stays one when a child overtakes its siblings,
LEMMA OvertakesKept ==
    ASSUME NEW t, NEW u, NEW m \in 1..Len(t), NEW pos, NEW to, Tree(t), Overtakes(t, u, m, pos, to)
    PROVE  Kept(t, u) /\ Tree(u)
<1> DEFINE ch == t[m].children
           nc == u[m].children
<1>1. Len(ch) \in Nat
  BY KidsIn DEF Tree
<1>2. /\ pos \in 1..Len(ch) /\ to \in 1..pos /\ Len(nc) = Len(ch)
      /\ \A j \in 1..Len(ch) : nc[j] = ch[Source(j, pos, to)]
      /\ \A a \in 1..Len(t) : a # m => u[a].children = t[a].children
  BY DEF Overtakes
<1>3. \A j, k \in 1..Len(ch) : ch[j] = ch[k] => j = k
  BY DEF Tree, OneParent
<1>4. Kids(u[m]) = {nc[j] : j \in 1..Len(ch)} /\ Kids(t[m]) = {ch[j] : j \in 1..Len(ch)}
  BY <1>2 DEF Kids
<1> HIDE DEF ch, nc
<1>5. PICK lt \in Nat : lt = Len(ch)
  BY <1>1
<1>6. {nc[j] : j \in 1..lt} = {ch[j] : j \in 1..lt}
  <2>1. \A j \in 1..lt : nc[j] = ch[Source(j, pos, to)]
    BY <1>2, <1>5
  <2>2. pos \in 1..lt /\ to \in 1..pos
    BY <1>2, <1>5
  <2>3. ASSUME NEW j \in 1..lt
        PROVE  \E k \in 1..lt : ch[j] = nc[k]
    <3>1. PICK k \in 1..lt : j = Source(k, pos, to)
      BY <2>2, SourceOfAll
    <3>2. nc[k] = ch[j]
      BY <2>1, <3>1
    <3> QED
      BY <3>2
  <2>4. \A j \in 1..lt : \E k \in 1..lt : nc[j] = ch[k]
    BY <2>1, <2>2, SourceIn
  <2>5. ASSUME NEW b \in {nc[j] : j \in 1..lt}
        PROVE  b \in {ch[j] : j \in 1..lt}
    <3>1. PICK j \in 1..lt : b = nc[j]
      OBVIOUS
    <3>2. PICK k \in 1..lt : nc[j] = ch[k]
      BY <2>4
    <3> QED
      BY <3>1, <3>2
  <2>6. ASSUME NEW b \in {ch[j] : j \in 1..lt}
        PROVE  b \in {nc[j] : j \in 1..lt}
    <3>1. PICK j \in 1..lt : b = ch[j]
      OBVIOUS
    <3>2. PICK k \in 1..lt : ch[j] = nc[k]
      BY <2>3
    <3> QED
      BY <3>1, <3>2
  <2> QED
    BY <2>5, <2>6, Zenon
<1>7. \A j, k \in 1..lt : nc[j] = nc[k] => j = k
  <2>1. \A j \in 1..lt : nc[j] = ch[Source(j, pos, to)]
    BY <1>2, <1>5
  <2>2. \A j, k \in 1..lt : ch[j] = ch[k] => j = k
    BY <1>3, <1>5
  <2>3. pos \in 1..lt /\ to \in 1..pos
    BY <1>2, <1>5
  <2> SUFFICES ASSUME NEW j \in 1..lt, NEW k \in 1..lt, nc[j] = nc[k]
      PROVE  j = k
    OBVIOUS
  <2>4. lt \in Nat
    OBVIOUS
  <2> QED
    BY <2>1, <2>2, <2>3, <2>4, PermutedOnce, SMTT(30)
<1>8. ASSUME NEW a \in 1..Len(t)
      PROVE  /\ Kids(u[a]) = Kids(t[a]) /\ Len(u[a].children) = Len(t[a].children)
             /\ \A j, k \in 1..Len(u[a].children) : u[a].children[j] = u[a].children[k] => j = k
  <2>1. CASE a = m
    <3>1. Kids(u[a]) = Kids(t[a])
      BY <1>4, <1>5, <1>6, <2>1
    <3> QED
      BY <1>2, <1>5, <1>7, <2>1, <3>1 DEF ch, nc
  <2>2. CASE a # m
    <3>1. u[a].children = t[a].children
      BY <1>2, <2>2
    <3> QED
      BY <3>1 DEF Kids, Tree, OneParent
  <2> QED
    BY <2>1, <2>2
<1>9. Kept(t, u)
  BY <1>8 DEF Kept, Overtakes
<1> QED
  BY <1>8, <1>9, KeptTree

\* and its siblings are in order,
LEMMA OvertakesSorted ==
    ASSUME NEW t, NEW u, NEW m \in 1..Len(t), NEW pos, NEW to, Tree(t), Sorted(t),
           Overtakes(t, u, m, pos, to)
    PROVE  Sorted(u)
<1> DEFINE ch == t[m].children
           nc == u[m].children
           x == ch[pos]
           f == [j \in 1..Len(ch) |-> t[ch[j]].priority]
<1>1. /\ Typed(t) /\ Len(t) \in Nat /\ \A a \in 1..Len(t) : t[a] \in Node
  BY DEF Tree, Typed
<1>2. /\ Len(ch) \in Nat
      /\ \A j \in 1..Len(ch) : ch[j] \in 1..Len(t) /\ ch[j] \in Kids(t[m])
  BY <1>1, KidsIn
<1>3. /\ pos \in 1..Len(ch) /\ to \in 1..pos /\ Len(nc) = Len(ch)
      /\ \A j \in 1..Len(ch) : nc[j] = ch[Source(j, pos, to)]
  BY DEF Overtakes
<1>4. \A a \in 1..Len(t) :
        u[a].priority = IF a = x THEN t[a].priority + 1 ELSE t[a].priority
  BY DEF Overtakes
<1>5. /\ \A j \in to..(pos - 1) : t[ch[j]].priority < t[x].priority + 1
      /\ to > 1 => t[ch[to - 1]].priority >= t[x].priority + 1
  BY DEF Overtakes
<1>6. \A j, k \in 1..Len(ch) : ch[j] = ch[k] => j = k
  BY DEF Tree, OneParent
<1>7. \A j \in 2..Len(ch) : t[ch[j]].priority <= t[ch[j - 1]].priority
  BY DEF Sorted, SortedAt
<1>8. \A a \in 1..Len(t) : t[a].priority \in Nat
  BY <1>1, NodeFields
<1>9. x \in Kids(t[m])
  BY <1>2, <1>3
<1>10. \A j \in 1..Len(ch) : f[j] = t[ch[j]].priority
  OBVIOUS
<1>11. f \in [1..Len(ch) -> Nat]
  BY <1>2, <1>8
<1>12. u[m].children = nc
  OBVIOUS
<1>13. x = ch[pos]
  OBVIOUS
<1> HIDE DEF ch, nc, f, x
<1>14. PICK lt \in Nat : lt = Len(ch)
  BY <1>2
<1>15. /\ \A j \in 1..lt : Source(j, pos, to) \in 1..lt
       /\ \A j \in 1..lt : Source(j, pos, to) = pos <=> j = to
  <2>1. pos \in 1..lt /\ to \in 1..pos
    BY <1>3, <1>14
  <2>2. \A j \in 1..lt : Source(j, pos, to) \in 1..lt
    BY <2>1, SourceIn
  <2>3. \A j \in 1..lt : Source(j, pos, to) = pos <=> j = to
    BY <2>1, SourceOfRisen
  <2> QED
    BY <2>2, <2>3
<1>16. \A j \in 2..lt : j \in 1..lt /\ j - 1 \in 1..lt
  OBVIOUS
<1>17. \A j \in 2..lt : f[j] <= f[j - 1]
  BY <1>7, <1>10, <1>14, <1>16
<1>18. pos \in 1..lt /\ f[pos] = t[x].priority
  BY <1>3, <1>10, <1>13, <1>14
<1>19. \A j \in to..(pos - 1) : f[j] < f[pos] + 1
  <2>1. \A j \in to..(pos - 1) : j \in 1..lt
    BY <1>3, <1>18
  <2> QED
    BY <1>5, <1>10, <1>14, <1>18, <2>1
<1>20. to > 1 => f[to - 1] >= f[pos] + 1
  <2>1. to > 1 => to - 1 \in 1..lt
    BY <1>3, <1>18
  <2> QED
    BY <1>5, <1>10, <1>14, <1>18, <2>1
<1>21. \A j \in 2..lt : Risen(f, pos, to, j) <= Risen(f, pos, to, j - 1)
  <2>1. f \in [1..lt -> Nat] /\ to \in 1..pos
    BY <1>3, <1>11, <1>14
  <2> QED
    BY <1>17, <1>18, <1>19, <1>20, <2>1, RisenSorted
<1>22. ASSUME NEW j \in 1..lt
       PROVE  u[nc[j]].priority = Risen(f, pos, to, j)
  <2>1. nc[j] = ch[Source(j, pos, to)] /\ Source(j, pos, to) \in 1..lt
    BY <1>3, <1>14, <1>15
  <2>2. nc[j] \in 1..Len(t)
    BY <1>2, <1>14, <2>1
  <2>3. CASE j = to
    <3>1. Source(j, pos, to) = pos
      BY <1>15, <2>3
    <3>2. nc[j] = x
      BY <1>13, <2>1, <3>1
    <3>3. u[nc[j]].priority = t[x].priority + 1
      BY <1>4, <2>2, <3>2
    <3> QED
      BY <1>18, <2>3, <3>3 DEF Risen
  <2>4. CASE j # to
    <3>1. Source(j, pos, to) # pos
      BY <1>15, <2>4
    <3>2. nc[j] # x
      BY <1>6, <1>13, <1>14, <1>18, <2>1, <3>1
    <3>3. u[nc[j]].priority = t[nc[j]].priority
      BY <1>4, <2>2, <3>2
    <3>4. t[nc[j]].priority = f[Source(j, pos, to)]
      BY <1>10, <1>14, <2>1
    <3> QED
      BY <2>4, <3>3, <3>4 DEF Risen
  <2> QED
    BY <2>3, <2>4
<1>23. \A j \in 2..lt : u[nc[j]].priority <= u[nc[j - 1]].priority
  BY <1>16, <1>21, <1>22
<1>24. SortedAt(u, m)
  BY <1>3, <1>12, <1>14, <1>23 DEF SortedAt
<1>25. ASSUME NEW a \in 1..Len(t), a # m
       PROVE  SortedAt(u, a)
  <2>1. u[a].children = t[a].children
    BY <1>25 DEF Overtakes
  <2>2. x \notin Kids(t[a])
    BY <1>9, <1>25 DEF Tree, OneParent
  <2>3. \A j \in 1..Len(t[a].children) : t[a].children[j] \in 1..Len(t) /\ t[a].children[j] # x
    BY <1>1, <2>2, KidsIn
  <2>4. \A j \in 1..Len(t[a].children) :
          u[t[a].children[j]].priority = t[t[a].children[j]].priority
    BY <1>4, <2>3
  <2>5. \A j \in 2..Len(t[a].children) :
          t[t[a].children[j]].priority <= t[t[a].children[j - 1]].priority
    BY DEF Sorted, SortedAt
  <2>6. Len(t[a].children) \in Nat
    BY <1>1, KidsIn
  <2>7. \A j \in 2..Len(t[a].children) :
          j \in 1..Len(t[a].children) /\ j - 1 \in 1..Len(t[a].children)
    BY <2>6
  <2>8. \A j \in 2..Len(t[a].children) :
          u[t[a].children[j]].priority <= u[t[a].children[j - 1]].priority
    BY <2>4, <2>5, <2>7
  <2> QED
    BY <2>1, <2>8 DEF SortedAt
<1> QED
  BY <1>24, <1>25 DEF Sorted, Overtakes

\* and this is what incrementChildPrio does.
LEMMA IncrementIs ==
    ASSUME NEW t, NEW m \in 1..Len(t), NEW pos \in 1..Len(t[m].children),
           Tree(t), Len(t[m].indices) = Len(t[m].children)
    PROVE  \E to : Overtakes(t, incrementChildPrio(t, m, pos), m, pos, to)
<1> DEFINE ch == t[m].children
           ix == t[m].indices
           x == ch[pos]
           f == [j \in 1..Len(ch) |-> t[ch[j]].priority]
           to == Min({k \in 1..pos : \A j \in k..(pos - 1) : t[ch[j]].priority < t[x].priority + 1})
           v == AddPriority(t, x)
           nc == Moved(ch, pos, to)
           ni == Moved(ix, pos, to)
           u == incrementChildPrio(t, m, pos)
<1>1. /\ Typed(t) /\ Len(t) \in Nat /\ t \in Seq(Node)
      /\ \A a \in 1..Len(t) : t[a] \in Node
  BY DEF Tree, Typed
<1>2. /\ Len(ch) \in Nat /\ ch \in Seq(Nat) /\ ix \in Seq(STRING) /\ Len(ix) = Len(ch)
      /\ \A j \in 1..Len(ch) : ch[j] \in 1..Len(t)
  BY <1>1, KidsIn, NodeFields
<1>3. pos \in 1..Len(ch) /\ x \in 1..Len(t) /\ x = ch[pos]
  BY <1>2
<1>4. \A a \in 1..Len(t) : t[a].priority \in Nat
  BY <1>1, NodeFields
<1>5. u = [v EXCEPT ![m].children = Moved(@, pos, to), ![m].indices = Moved(@, pos, to)]
  BY DEF incrementChildPrio
<1>6. f \in [1..Len(ch) -> Nat] /\ \A j \in 1..Len(ch) : f[j] = t[ch[j]].priority
  BY <1>2, <1>4
<1>7. /\ to \in 1..pos
      /\ \A j \in to..(pos - 1) : t[ch[j]].priority < t[x].priority + 1
      /\ to > 1 => t[ch[to - 1]].priority >= t[x].priority + 1
  <2>1. f[pos] = t[x].priority
    BY <1>3, <1>6
  <2>2. \A k \in 1..pos : \A j \in k..(pos - 1) : j \in 1..Len(ch)
    BY <1>2
  <2> HIDE DEF f, x, ch
  <2>3. \A k \in 1..pos : (\A j \in k..(pos - 1) : t[ch[j]].priority < t[x].priority + 1)
          <=> (\A j \in k..(pos - 1) : f[j] < f[pos] + 1)
    BY <1>6, <2>1, <2>2
  <2>4. to = Min({k \in 1..pos : \A j \in k..(pos - 1) : f[j] < f[pos] + 1})
    <3>1. {k \in 1..pos : \A j \in k..(pos - 1) : t[ch[j]].priority < t[x].priority + 1}
             = {k \in 1..pos : \A j \in k..(pos - 1) : f[j] < f[pos] + 1}
      BY <2>3
    <3> QED
      BY <3>1
  <2> HIDE DEF to
  <2>5. /\ to \in 1..pos
        /\ \A j \in to..(pos - 1) : f[j] < f[pos] + 1
        /\ to > 1 => f[to - 1] >= f[pos] + 1
    <3>1. PICK lt \in Nat : lt = Len(ch)
      BY <1>2
    <3>2. f \in [1..lt -> Nat] /\ pos \in 1..lt
      BY <1>3, <1>6, <3>1
    <3>3. Overtaken(f, pos, to)
      BY <2>4, <3>2, RisenTo
    <3> QED
      BY <3>3 DEF Overtaken
  <2>6. \A j \in to..(pos - 1) : t[ch[j]].priority < t[x].priority + 1
    BY <1>6, <2>1, <2>2, <2>5
  <2>7. to > 1 => to - 1 \in 1..Len(ch)
    BY <1>2, <1>3, <2>5
  <2>8. to > 1 => t[ch[to - 1]].priority >= t[x].priority + 1
    BY <1>6, <2>1, <2>5, <2>7
  <2> QED
    BY <2>5, <2>6, <2>8
<1>8. /\ v = [t EXCEPT ![x] = [t[x] EXCEPT !.priority = @ + 1]]
  BY <1>1, <1>3 DEF AddPriority
<1> HIDE DEF x, to, f
<1>9. /\ nc \in Seq(Nat) /\ Len(nc) = Len(ch)
      /\ \A j \in 1..Len(ch) : nc[j] = ch[Source(j, pos, to)]
  <2> HIDE DEF ch
  <2> QED
    BY <1>2, <1>3, <1>7, MovedIs
<1>10. ni \in Seq(STRING) /\ Len(ni) = Len(ch)
  <2> HIDE DEF ch, ix
  <2> QED
    BY <1>2, <1>3, <1>7, MovedIs
<1> HIDE DEF v, u
<1>11. /\ v \in Seq(Node) /\ Len(v) = Len(t)
       /\ v[x] = [t[x] EXCEPT !.priority = @ + 1]
       /\ \A a \in 1..Len(t) : a # x => v[a] = t[a]
  <2>1. [t[x] EXCEPT !.priority = @ + 1] \in Node
    BY <1>1, <1>3, WithPriority DEF SameBut
  <2> QED
    BY <1>1, <1>3, <1>8, <2>1
<1>12. \A a \in 1..Len(t) :
         /\ SameBut(t[a], v[a], {"priority"})
         /\ v[a].priority = IF a = x THEN t[a].priority + 1 ELSE t[a].priority
  <2> SUFFICES ASSUME NEW a \in 1..Len(t)
      PROVE  /\ SameBut(t[a], v[a], {"priority"})
             /\ v[a].priority = IF a = x THEN t[a].priority + 1 ELSE t[a].priority
    OBVIOUS
  <2>1. CASE a = x
    BY <1>1, <1>11, <2>1, WithPriority
  <2>2. CASE a # x
    BY <1>1, <1>11, <2>2 DEF SameBut
  <2> QED
    BY <2>1, <2>2
<1>13. v[m].children = ch /\ v[m].indices = ix /\ v[m] \in Node
  BY <1>12 DEF SameBut
<1> DEFINE w1 == [v[m] EXCEPT !.children = nc]
           w2 == [w1 EXCEPT !.indices = ni]
<1>14. u = [v EXCEPT ![m] = w2]
  BY <1>5, <1>11, <1>13
<1> HIDE DEF nc, ni, ch, ix
<1>15. SameBut(v[m], w1, {"children"}) /\ w1.children = nc
  BY <1>9, <1>13, WithChildren
<1> HIDE DEF w1
<1>16. SameBut(w1, w2, {"indices"}) /\ w2.indices = ni
  BY <1>10, <1>15, WithIndices DEF SameBut
<1> HIDE DEF w2
<1>17. SameBut(v[m], w2, {"children", "indices"}) /\ w2.children = nc /\ w2.indices = ni
  BY <1>15, <1>16 DEF SameBut
<1>18. /\ u \in Seq(Node) /\ Len(u) = Len(t) /\ u[m] = w2
       /\ \A a \in 1..Len(t) : a # m => u[a] = v[a]
  BY <1>11, <1>14, <1>17 DEF SameBut
<1>19. ASSUME NEW a \in 1..Len(t)
       PROVE  /\ u[a].path = t[a].path /\ u[a].maxParams = t[a].maxParams
              /\ u[a].wildChild = t[a].wildChild /\ u[a].nType = t[a].nType
              /\ Len(u[a].indices) = Len(t[a].indices)
              /\ a # m => u[a].children = t[a].children
              /\ u[a].priority = IF a = x THEN t[a].priority + 1 ELSE t[a].priority
  <2>1. CASE a = m
    <3>1. SameBut(v[a], u[a], {"children", "indices"}) /\ u[a].indices = ni
      BY <1>17, <1>18, <2>1
    <3>2. Len(u[a].indices) = Len(t[a].indices)
      BY <1>2, <1>10, <2>1, <3>1 DEF ix
    <3> QED
      BY <1>12, <2>1, <3>1, <3>2 DEF SameBut
  <2>2. CASE a # m
    <3>1. u[a] = v[a]
      BY <1>18, <2>2
    <3> QED
      BY <1>12, <3>1 DEF SameBut
  <2> QED
    BY <2>1, <2>2
<1>20. u[m].children = nc
  BY <1>17, <1>18
<1>21. Overtakes(t, u, m, pos, to)
  BY <1>3, <1>7, <1>9, <1>18, <1>19, <1>20 DEF Overtakes, ch
<1> QED
  BY <1>21 DEF u

-----------------------------------------------------------------------------
(* A tree that grows at x.                                                 *)

\* The nodes that are new, or have new children.
Touched(t, u, x) == {x} \cup (Len(t) + 1)..Len(u)

\* u is t with new nodes below x, and perhaps some of its children moved below those.
Grown(t, u, x) ==
    /\ u \in Seq(Node) /\ Len(t) <= Len(u) /\ x \in 1..Len(t)
    /\ \A m \in 1..Len(t) : m # x => u[m] = t[m]
    /\ u[x].nType = t[x].nType /\ (IsWild(u[x]) <=> IsWild(t[x]))
    /\ u[x].maxParams = t[x].maxParams /\ u[x].priority = t[x].priority
    /\ \A m \in Touched(t, u, x) :
         /\ ShapeOf(u[m])
         /\ \A c \in Kids(u[m]) : c \in Kids(t[x]) \/ c \in (Len(t) + 1)..Len(u)
         /\ \A c \in Kids(u[m]) : IsWild(u[c]) <=> u[m].wildChild
         /\ \A j, k \in 1..Len(u[m].children) : u[m].children[j] = u[m].children[k] => j = k
    /\ \A a, b \in Touched(t, u, x) : \A c \in Kids(u[a]) : c \in Kids(u[b]) => a = b

\* Every node of u is touched, or as in t.
LEMMA GrownNodes ==
    ASSUME NEW t, NEW u, NEW x, Tree(t), Grown(t, u, x)
    PROVE  /\ Len(t) \in Nat /\ Len(u) \in Nat /\ Len(t) <= Len(u)
           /\ \A m \in 1..Len(t) : m \in 1..Len(u)
           /\ \A m \in 1..Len(u) : m \in Touched(t, u, x) \/ (m \in 1..Len(t) /\ m # x)
           /\ \A m \in Touched(t, u, x) : m \in 1..Len(u)
<1>1. Len(t) \in Nat /\ Len(u) \in Nat /\ Len(t) <= Len(u) /\ x \in 1..Len(t)
  BY DEF Tree, Typed, Grown
<1> QED
  BY <1>1 DEF Touched

\* What was there is as it was, apart from the children of x.
LEMMA GrownSame ==
    ASSUME NEW t, NEW u, NEW x, Tree(t), Grown(t, u, x)
    PROVE  \A m \in 1..Len(t) :
             /\ (IsWild(u[m]) <=> IsWild(t[m])) /\ Own(u[m]) = Own(t[m])
             /\ u[m].maxParams = t[m].maxParams /\ u[m].priority = t[m].priority
<1> SUFFICES ASSUME NEW m \in 1..Len(t)
    PROVE  /\ (IsWild(u[m]) <=> IsWild(t[m])) /\ Own(u[m]) = Own(t[m])
           /\ u[m].maxParams = t[m].maxParams /\ u[m].priority = t[m].priority
  OBVIOUS
<1>1. CASE m = x
  BY <1>1 DEF Grown, Own
<1>2. CASE m # x
  BY <1>2 DEF Grown
<1> QED
  BY <1>1, <1>2

\* A tree that grows is one, if the new nodes are.
LEMMA GrownTree ==
    ASSUME NEW t, NEW u, NEW x, Tree(t), Grown(t, u, x)
    PROVE  Tree(u)
<1>1. /\ Len(t) \in Nat /\ Len(u) \in Nat /\ Len(t) <= Len(u)
      /\ \A m \in 1..Len(u) : m \in Touched(t, u, x) \/ (m \in 1..Len(t) /\ m # x)
      /\ Typed(t) /\ 1 \in 1..Len(t)
  BY GrownNodes DEF Tree, Typed
<1>2. \A m \in 1..Len(t) : m # x => u[m] = t[m]
  BY DEF Grown
<1>3. x \in 1..Len(t) /\ \A c \in Kids(t[x]) : c \in 2..Len(t)
  BY <1>1, KidsIn DEF Grown
<1>4. \A m \in Touched(t, u, x) : \A c \in Kids(u[m]) : c \in Kids(t[x]) \/ c \in (Len(t) + 1)..Len(u)
  BY DEF Grown
<1>5. ASSUME NEW m \in 1..Len(u), NEW c \in Kids(u[m])
      PROVE  c \in 2..Len(u)
  <2>1. CASE m \in Touched(t, u, x)
    BY <1>1, <1>3, <1>4, <2>1
  <2>2. CASE m \in 1..Len(t) /\ m # x
    <3>1. c \in 2..Len(t)
      BY <1>1, <1>2, <2>2, KidsIn
    <3> QED
      BY <1>1, <3>1
  <2> QED
    BY <1>1, <2>1, <2>2
<1>6. Typed(u)
  <2>1. u \in Seq(Node) /\ u # <<>>
    BY <1>1 DEF Grown
  <2> QED
    BY <1>5, <2>1 DEF Typed
<1>7. ASSUME NEW a \in 1..Len(u), NEW b \in 1..Len(u), NEW c \in Kids(u[a]), c \in Kids(u[b])
      PROVE  a = b
  <2>1. CASE a \in Touched(t, u, x) /\ b \in Touched(t, u, x)
    BY <1>7, <2>1 DEF Grown
  <2>2. ASSUME NEW e \in 1..Len(t), e # x, NEW f \in Touched(t, u, x),
               c \in Kids(u[e]), c \in Kids(u[f])
        PROVE  FALSE
    <3>1. c \in Kids(t[e]) /\ c \in 1..Len(t)
      BY <1>1, <1>2, <2>2, KidsIn
    <3>2. c \notin (Len(t) + 1)..Len(u)
      BY <1>1, <3>1
    <3>3. c \in Kids(t[x])
      BY <1>4, <2>2, <3>2
    <3> QED
      BY <1>3, <2>2, <3>1, <3>3 DEF Tree, OneParent
  <2>3. CASE a \in 1..Len(t) /\ a # x /\ b \in 1..Len(t) /\ b # x
    <3>1. c \in Kids(t[a]) /\ c \in Kids(t[b])
      BY <1>2, <1>7, <2>3
    <3> QED
      BY <2>3, <3>1 DEF Tree, OneParent
  <2> QED
    BY <1>1, <1>7, <2>1, <2>2, <2>3
<1>8. ASSUME NEW m \in 1..Len(u)
      PROVE  \A j, k \in 1..Len(u[m].children) : u[m].children[j] = u[m].children[k] => j = k
  <2>1. CASE m \in Touched(t, u, x)
    BY <2>1 DEF Grown
  <2>2. CASE m \in 1..Len(t) /\ m # x
    <3>1. u[m] = t[m]
      BY <1>2, <2>2
    <3> QED
      BY <2>2, <3>1 DEF Tree, OneParent
  <2> QED
    BY <1>1, <2>1, <2>2
<1>9. OneParent(u)
  BY <1>7, <1>8 DEF OneParent
<1>10. u[Root].nType \in {"static", "root"}
  <2>1. t[Root].nType \in {"static", "root"} /\ Root \in 1..Len(t)
    BY <1>1 DEF Tree, Shaped, Root
  <2>2. CASE x = Root
    BY <2>1, <2>2 DEF Grown
  <2>3. CASE x # Root
    BY <1>2, <2>1, <2>3
  <2> QED
    BY <2>2, <2>3
<1>11. ASSUME NEW m \in 1..Len(u)
       PROVE  ShapeOf(u[m])
  <2>1. CASE m \in Touched(t, u, x)
    BY <2>1 DEF Grown
  <2>2. CASE m \in 1..Len(t) /\ m # x
    BY <1>2, <2>2 DEF Tree, Shaped
  <2> QED
    BY <1>1, <2>1, <2>2
<1>12. ASSUME NEW m \in 1..Len(u), NEW c \in Kids(u[m])
       PROVE  IsWild(u[c]) <=> u[m].wildChild
  <2>1. CASE m \in Touched(t, u, x)
    BY <2>1 DEF Grown
  <2>2. CASE m \in 1..Len(t) /\ m # x
    <3>1. u[m] = t[m] /\ c \in Kids(t[m]) /\ c \in 1..Len(t)
      BY <1>1, <1>2, <2>2, KidsIn
    <3>2. IsWild(t[c]) <=> t[m].wildChild
      BY <2>2, <3>1 DEF Tree, Shaped
    <3>3. IsWild(u[c]) <=> IsWild(t[c])
      BY <3>1, GrownSame
    <3> QED
      BY <3>1, <3>2, <3>3
  <2> QED
    BY <1>1, <2>1, <2>2
<1>13. Shaped(u)
  BY <1>10, <1>11, <1>12 DEF Shaped
<1> QED
  BY <1>6, <1>9, <1>13 DEF Tree

\* Siblings are in order, if the new ones are.
LEMMA GrownSorted ==
    ASSUME NEW t, NEW u, NEW x, Tree(t), Grown(t, u, x), Sorted(t),
           \A m \in Touched(t, u, x) : SortedAt(u, m)
    PROVE  Sorted(u)
<1> SUFFICES ASSUME NEW m \in 1..Len(t), m # x
    PROVE  SortedAt(u, m)
  BY GrownNodes DEF Sorted
<1>1. u[m] = t[m] /\ Typed(t)
  BY DEF Grown, Tree
<1>2. \A j \in 1..Len(t[m].children) :
        u[t[m].children[j]].priority = t[t[m].children[j]].priority
  BY <1>1, KidsIn, GrownSame
<1>3. Len(t[m].children) \in Nat
  BY <1>1, KidsIn
<1>4. \A j \in 2..Len(t[m].children) :
        j \in 1..Len(t[m].children) /\ j - 1 \in 1..Len(t[m].children)
  BY <1>3
<1>5. \A j \in 2..Len(t[m].children) :
        t[t[m].children[j]].priority <= t[t[m].children[j - 1]].priority
  BY DEF Sorted, SortedAt
<1>6. \A j \in 2..Len(t[m].children) :
        u[t[m].children[j]].priority <= u[t[m].children[j - 1]].priority
  BY <1>2, <1>4, <1>5
<1> QED
  BY <1>1, <1>6 DEF SortedAt

\* The wildcards above each node are counted, if those above the new ones are.
LEMMA GrownDeep ==
    ASSUME NEW t, NEW u, NEW x, Tree(t), Grown(t, u, x), NEW d, Deep(t, d),
           NEW e \in [1..Len(u) -> 0..ParamLimit],
           \A m \in 1..Len(t) : e[m] = d[m],
           \A m \in Touched(t, u, x) : DeepAt(u, e, m)
    PROVE  Deep(u, e)
<1>1. e[Root] = 0
  <2>1. Root \in 1..Len(t)
    BY DEF Tree, Typed, Root
  <2> QED
    BY <2>1 DEF Deep
<1>2. ASSUME NEW m \in 1..Len(t), m # x
      PROVE  DeepAt(u, e, m)
  <2>1. u[m] = t[m] /\ DeepAt(t, d, m) /\ \A c \in Kids(t[m]) : c \in 1..Len(t)
    BY <1>2, KidsIn DEF Grown, Deep, Tree
  <2>2. e[m] = d[m] /\ \A c \in Kids(t[m]) : e[c] = d[c]
    BY <2>1
  <2> QED
    BY <2>1, <2>2 DEF DeepAt
<1> QED
  BY <1>1, <1>2, GrownNodes DEF Deep

\* There is room, if there is in the new nodes.
LEMMA GrownRoomy ==
    ASSUME NEW t, NEW u, NEW x, Tree(t), Grown(t, u, x), Roomy(t),
           \A m \in Touched(t, u, x) : m # Root => RoomyAt(u, m)
    PROVE  Roomy(u)
<1> SUFFICES ASSUME NEW m \in 2..Len(t), m # x
    PROVE  RoomyAt(u, m)
  <2>1. \A m \in 2..Len(u) : m \in 1..Len(u) /\ m # Root
    BY GrownNodes DEF Root
  <2>2. \A m \in 1..Len(t) : m # Root => m \in 2..Len(t)
    BY GrownNodes DEF Root
  <2> QED
    BY <2>1, <2>2, GrownNodes DEF Roomy
<1>1. m \in 1..Len(t) /\ u[m] = t[m] /\ RoomyAt(t, m)
  BY GrownNodes DEF Grown, Roomy
<1>2. \A c \in Kids(t[m]) : u[c].maxParams = t[c].maxParams
  BY <1>1, KidsIn, GrownSame DEF Tree
<1> QED
  BY <1>1, <1>2 DEF RoomyAt

\* What was needed is.
LEMMA GrownNeeded ==
    ASSUME NEW t, NEW u, NEW x, Tree(t), Grown(t, u, x), NEW m \in 1..Len(t), m # x, Needed(t, m)
    PROVE  Needed(u, m)
<1>1. u[m] = t[m]
  BY DEF Grown
<1>2. \A c \in Kids(t[m]) : u[c].maxParams = t[c].maxParams
  BY KidsIn, GrownSame DEF Tree
<1> QED
  BY <1>1, <1>2 DEF Needed

-----------------------------------------------------------------------------
(* The inductive invariant.                                                *)

\* What TreeTypeOK says, but for the tree.
Locals ==
    /\ stage \in {"idle", "walk", "insert"}
    /\ full \in Routes \cup {<<>>}
    /\ node \in 1..Len(nodes)
    /\ path \in Seq(STRING)
    /\ numParams \in 0..ParamLimit
    /\ i \in 1..(Len(path) + 1)
    /\ offset \in 0..Len(path)
    /\ empty \in BOOLEAN
    /\ outcome \in {"none", "returned", "panic", "runtime error"}
    /\ accepted \subseteq Routes
    /\ panicked \subseteq Routes
    /\ calls \in 0..MaxRegistrations

Idling ==
    stage = "idle" =>
      /\ node = Root /\ path = <<>> /\ numParams = 0 /\ i = 1 /\ offset = 0
      /\ OneWildcard(nodes, 0)
      /\ panicked = {} => Tight(nodes, Root, 0)

\* addRoute has come to node: there is room for what is left of the path in the nodes
\* above it, and numParams is what is left to be counted.
Walking(d) ==
    stage = "walk" =>
      /\ full \in Routes /\ i = 1 /\ offset = 0
      /\ nodes[node].priority >= 1
      /\ IsWild(nodes[node]) =>
           /\ IsPrefix(nodes[node].path, path)
           /\ Len(path) > Len(nodes[node].path) => path[Len(nodes[node].path) + 1] = "/"
           /\ numParams + 1 <= nodes[node].maxParams
      /\ numParams = Least(Cardinality(WildIn(path, 1)) - Own(nodes[node]), ParamLimit - d[node])
      /\ \A m \in 2..Len(nodes) : node \in Kids(nodes[m]) =>
           Own(nodes[m]) + Own(nodes[node]) + numParams <= nodes[m].maxParams
      /\ OneWildcard(nodes, 0)
      /\ panicked = {} => TightAbove(nodes, node, numParams)

\* insertChild has come to node, where there is room for what is left.
Inserting(d) ==
    stage = "insert" =>
      /\ full \in Routes
      /\ i = 1 => offset = 0
      /\ ~nodes[node].wildChild
      /\ IF IsWild(nodes[node])
         THEN i >= 2 /\ offset = i - 2 /\ path[i - 1] \in Wild /\ WildIn(path, i) = {}
         ELSE offset >= i - 1
      /\ numParams = Least(Cardinality(WildIn(path, i)), ParamLimit - d[node])
      /\ node # Root => Own(nodes[node]) + numParams <= nodes[node].maxParams
      /\ OneWildcard(nodes, node)
      /\ panicked = {} => Tight(nodes, node, numParams)

TreeInv ==
    /\ Locals
    /\ Tree(nodes) /\ Sorted(nodes) /\ Roomy(nodes)
    /\ Idling
    /\ \E d : Deep(nodes, d) /\ Walking(d) /\ Inserting(d)

-----------------------------------------------------------------------------
(* One node of a tree is altered in what no shape depends on.              *)

\* u is t with some fields of x altered.
Altered(t, u, x, fields) ==
    /\ u \in Seq(Node) /\ Len(u) = Len(t)
    /\ \A m \in 1..Len(t) : m # x => u[m] = t[m]
    /\ SameBut(t[x], u[x], fields)

\* EXCEPT alters one node.
LEMMA AlteredIs ==
    ASSUME NEW t, Tree(t), NEW x \in 1..Len(t), NEW e, NEW fields, SameBut(t[x], e, fields)
    PROVE  Altered(t, [t EXCEPT ![x] = e], x, fields) /\ [t EXCEPT ![x] = e][x] = e
<1>1. t \in Seq(Node) /\ e \in Node
  BY DEF Tree, Typed, SameBut
<1> QED
  BY <1>1 DEF Altered

\* The tree is kept when a node has another priority or maxParams.
LEMMA AlteredKept ==
    ASSUME NEW t, NEW u, NEW x \in 1..Len(t), Tree(t),
           Altered(t, u, x, {"priority", "maxParams"})
    PROVE  /\ Kept(t, u) /\ Unmoved(t, u) /\ Tree(u)
           /\ \A m \in 1..Len(t) : u[m].path = t[m].path
<1>1. \A m \in 1..Len(t) :
        /\ u[m].path = t[m].path /\ u[m].children = t[m].children /\ u[m].indices = t[m].indices
        /\ u[m].wildChild = t[m].wildChild /\ u[m].nType = t[m].nType
  BY DEF Altered, SameBut
<1>2. Kept(t, u) /\ Unmoved(t, u)
  BY <1>1 DEF Altered, Kept, Unmoved, Kids
<1>3. Tree(u)
  BY <1>2, KeptTree DEF Unmoved, Tree, OneParent
<1> QED
  BY <1>1, <1>2, <1>3

\* Another maxParams.
LEMMA WithMaxParams ==
    ASSUME NEW e \in Node, NEW k \in 0..ParamLimit
    PROVE  LET f == [e EXCEPT !.maxParams = k]
           IN  SameBut(e, f, {"maxParams"}) /\ f.maxParams = k
  BY DEF Node, SameBut

\* RaiseMaxParams alters maxParams, upwards.
LEMMA RaisedIs ==
    ASSUME NEW t, Tree(t), NEW x \in 1..Len(t), numParams \in 0..ParamLimit
    PROVE  /\ Altered(t, RaiseMaxParams(t, x), x, {"maxParams"})
           /\ RaiseMaxParams(t, x)[x].maxParams =
                IF t[x].maxParams <= numParams THEN numParams ELSE t[x].maxParams
<1> DEFINE k == IF t[x].maxParams <= numParams THEN numParams ELSE t[x].maxParams
           e == [t[x] EXCEPT !.maxParams = k]
<1>1. t \in Seq(Node) /\ t[x] \in Node
  BY DEF Tree, Typed
<1>2. t[x].maxParams \in 0..ParamLimit /\ t[x].maxParams \in Nat /\ numParams \in Int
  BY <1>1, NodeFields, RoutesAssumed DEF RoutesAssumption
<1>3. Max({t[x].maxParams, numParams}) = k
  BY <1>2, GreaterOf
<1>4. k \in 0..ParamLimit
  BY <1>2
<1> HIDE DEF k
<1>5. RaiseMaxParams(t, x) = [t EXCEPT ![x] = e]
  BY <1>1, <1>3 DEF RaiseMaxParams
<1>6. SameBut(t[x], e, {"maxParams"}) /\ e.maxParams = k
  BY <1>1, <1>4, WithMaxParams
<1> HIDE DEF e
<1>7. /\ Altered(t, [t EXCEPT ![x] = e], x, {"maxParams"})
      /\ [t EXCEPT ![x] = e][x] = e
  BY <1>6, AlteredIs
<1> QED
  BY <1>5, <1>6, <1>7 DEF k

\* AddPriority alters a priority.
LEMMA PriorIs ==
    ASSUME NEW t, Tree(t), NEW x \in 1..Len(t)
    PROVE  /\ Altered(t, AddPriority(t, x), x, {"priority"})
           /\ AddPriority(t, x)[x].priority = t[x].priority + 1
<1> DEFINE e == [t[x] EXCEPT !.priority = @ + 1]
<1>1. t \in Seq(Node) /\ t[x] \in Node
  BY DEF Tree, Typed
<1>2. AddPriority(t, x) = [t EXCEPT ![x] = e]
  BY <1>1 DEF AddPriority
<1>3. SameBut(t[x], e, {"priority"}) /\ e.priority = t[x].priority + 1
  BY <1>1, WithPriority
<1> HIDE DEF e
<1>4. /\ Altered(t, [t EXCEPT ![x] = e], x, {"priority"})
      /\ [t EXCEPT ![x] = e][x] = e
  BY <1>3, AlteredIs
<1> QED
  BY <1>2, <1>3, <1>4


\* Something of it may be both raised and altered.
LEMMA AlteredMore ==
    ASSUME NEW t, NEW u, NEW q, NEW x \in 1..Len(t), Tree(t),
           Altered(t, u, x, {"priority"}), Altered(u, q, x, {"maxParams"})
    PROVE  Altered(t, q, x, {"priority", "maxParams"})
  BY DEF Altered, SameBut

\* To alter one field is to alter one of two.
LEMMA AlteredLess ==
    ASSUME NEW t, NEW u, NEW x,
           Altered(t, u, x, {"priority"}) \/ Altered(t, u, x, {"maxParams"})
    PROVE  Altered(t, u, x, {"priority", "maxParams"})
  BY DEF Altered, SameBut

-----------------------------------------------------------------------------
(* How far path and the node's path agree.                                 *)

\* What IsPrefix means byte by byte.
LEMMA PrefixIs ==
    ASSUME NEW q \in Seq(STRING), NEW s \in Seq(STRING), IsPrefix(q, s)
    PROVE  Len(q) <= Len(s) /\ \A j \in 1..Len(q) : q[j] = s[j]
<1>1. Len(q) <= Len(s) /\ SubSeq(q, 1, Len(q)) = SubSeq(s, 1, Len(q))
  BY DEF IsPrefix
<1>2. \A j \in 1..Len(q) : SubSeq(q, 1, Len(q))[j] = q[j]
  OBVIOUS
<1>3. \A j \in 1..Len(q) : SubSeq(s, 1, Len(q))[j] = s[j]
  BY <1>1
<1> QED
  BY <1>1, <1>2, <1>3

\* Common is the length of a prefix of both, all of the node's path if that is one.
LEMMA CommonIs ==
    ASSUME path \in Seq(STRING), nodes[node].path \in Seq(STRING)
    PROVE  /\ Common \in 0..Len(path) /\ Common \in 0..Len(nodes[node].path)
           /\ \A j \in 1..Common : path[j] = nodes[node].path[j]
           /\ IsPrefix(nodes[node].path, path) => Common = Len(nodes[node].path)
<1> DEFINE here == nodes[node].path
           least == IF Len(path) <= Len(here) THEN Len(path) ELSE Len(here)
           agree == {k \in 0..least : \A j \in 1..k : path[j] = here[j]}
<1>1. Len(path) \in Nat /\ Len(here) \in Nat
  OBVIOUS
<1> HIDE DEF here
<1>2. Min({Len(path), Len(here)}) = least /\ least \in Nat
  BY <1>1, SmallerOf
<1>3. Common = Max(agree)
  BY <1>2 DEF Common, here
<1>4. agree \in SUBSET (0..least) /\ 0 \in agree
  BY <1>2
<1>5. Max(agree) \in agree /\ \A k \in agree : k <= Max(agree)
  <2> HIDE DEF agree, least
  <2> QED
    BY <1>2, <1>4, GreatestOf
<1>6. Common \in 0..least /\ \A j \in 1..Common : path[j] = here[j]
  BY <1>3, <1>5
<1>7. ASSUME IsPrefix(here, path)
      PROVE  Common = Len(here)
  <2>1. Len(here) <= Len(path) /\ \A j \in 1..Len(here) : here[j] = path[j]
    BY <1>7, PrefixIs DEF here
  <2>2. Len(here) \in agree
    BY <1>1, <2>1
  <2>3. Len(here) <= Common
    BY <1>3, <1>5, <2>2
  <2> QED
    BY <1>1, <1>6, <2>3
<1>8. Common \in 0..Len(path) /\ Common \in 0..Len(here)
  BY <1>1, <1>6
<1> QED
  BY <1>6, <1>7, <1>8 DEF here

\* Rest is what is behind it.
LEMMA RestIs ==
    ASSUME path \in Seq(STRING), nodes[node].path \in Seq(STRING)
    PROVE  /\ Rest \in Seq(STRING) /\ Len(Rest) = Len(path) - Common
           /\ \A j \in 1..(Len(path) - Common) : Rest[j] = path[j + Common]
           /\ Cardinality(WildIn(Rest, 1)) = Cardinality(WildIn(path, Common + 1))
<1>1. Common \in 0..Len(path) /\ Common + 1 \in 1..(Len(path) + 1)
  BY CommonIs
<1>2. /\ Cut(path, Common + 1) \in Seq(STRING)
      /\ Len(Cut(path, Common + 1)) = Len(path) + 1 - (Common + 1)
      /\ \A j \in 1..(Len(path) + 1 - (Common + 1)) :
           Cut(path, Common + 1)[j] = path[j + (Common + 1) - 1]
  BY <1>1, CutIs
<1>3. Cardinality(WildIn(Cut(path, Common + 1), 1)) = Cardinality(WildIn(path, Common + 1))
  BY <1>1, WildInCut
<1>4. Rest = Cut(path, Common + 1)
  BY DEF Rest
<1> HIDE DEF Common
<1>5. Len(path) + 1 - (Common + 1) = Len(path) - Common /\ \A j \in Int : j + (Common + 1) - 1 = j + Common
  BY <1>1
<1> QED
  BY <1>2, <1>3, <1>4, <1>5
-----------------------------------------------------------------------------
(* The edge to node is split.                                              *)

\* One element more.
LEMMA AppendIs ==
    ASSUME NEW S, NEW s \in Seq(S), NEW e \in S, NEW q, q = Append(s, e)
    PROVE  /\ q \in Seq(S) /\ Len(q) = Len(s) + 1 /\ q[Len(s) + 1] = e
           /\ \A m \in 1..Len(s) : q[m] = s[m]
  OBVIOUS

\* The two nodes that a split makes of one.
UpperHalf(e, s, ix, ch) ==
    [e EXCEPT !.path = s, !.wildChild = FALSE, !.indices = ix, !.children = ch, !.handle = {}]

\* The upper half, which keeps its priority and maxParams.
LEMMA UpperHalfIs ==
    ASSUME NEW e \in Node, NEW s \in Seq(STRING), NEW ix \in Seq(STRING), NEW ch \in Seq(Nat)
    PROVE  /\ SameBut(e, UpperHalf(e, s, ix, ch), {"path", "wildChild", "indices", "children"})
           /\ UpperHalf(e, s, ix, ch).path = s /\ ~UpperHalf(e, s, ix, ch).wildChild
           /\ UpperHalf(e, s, ix, ch).indices = ix /\ UpperHalf(e, s, ix, ch).children = ch
<1> DEFINE f == UpperHalf(e, s, ix, ch)
<1>1. {} \in Handlers
  BY DEF Handlers
<1>2. f \in Node
  BY <1>1 DEF Node, UpperHalf
<1>3. f.path = s /\ ~f.wildChild /\ f.indices = ix /\ f.children = ch
  BY DEF Node, UpperHalf
<1>4. f.nType = e.nType /\ f.maxParams = e.maxParams /\ f.priority = e.priority
  BY DEF Node, UpperHalf
<1>5. SameBut(e, f, {"path", "wildChild", "indices", "children"})
  BY <1>2, <1>4 DEF SameBut
<1> QED
  BY <1>3, <1>5

LowerHalf(e, s, k) ==
    [e EXCEPT !.path = s, !.nType = "static", !.maxParams = k, !.priority = e.priority - 1]

\* The lower half, which gets the children.
LEMMA LowerHalfIs ==
    ASSUME NEW e \in Node, NEW s \in Seq(STRING), NEW k \in 0..ParamLimit, e.priority >= 1
    PROVE  /\ SameBut(e, LowerHalf(e, s, k), {"path", "nType", "maxParams", "priority"})
           /\ LowerHalf(e, s, k).path = s /\ LowerHalf(e, s, k).nType = "static"
           /\ LowerHalf(e, s, k).maxParams = k
<1> DEFINE f == LowerHalf(e, s, k)
<1>1. e.priority - 1 \in Nat
  BY DEF Node
<1>2. f \in Node
  BY <1>1 DEF Node, LowerHalf
<1>3. f.path = s /\ f.nType = "static" /\ f.maxParams = k
  BY DEF Node, LowerHalf
<1>4. f.wildChild = e.wildChild /\ f.indices = e.indices /\ f.children = e.children
  BY DEF Node, LowerHalf
<1>5. SameBut(e, f, {"path", "nType", "maxParams", "priority"})
  BY <1>2, <1>4 DEF SameBut
<1> QED
  BY <1>3, <1>5

\* The room that the children take.
Taken(t, x) == {t[t[x].children[j]].maxParams : j \in DOMAIN t[x].children}

\* Their maximum.
LEMMA TakenIs ==
    ASSUME NEW t, Tree(t), NEW x \in 1..Len(t), NEW k, k = Max({0} \cup Taken(t, x))
    PROVE  /\ k \in 0..ParamLimit
           /\ \A c \in Kids(t[x]) : t[c].maxParams <= k
           /\ k = 0 \/ \E c \in Kids(t[x]) : k = t[c].maxParams
<1> DEFINE all == {0} \cup Taken(t, x)
<1>1. Typed(t) /\ \A m \in 1..Len(t) : t[m] \in Node
  BY DEF Tree, Typed
<1>2. t[x].children \in Seq(Nat) /\ DOMAIN t[x].children = 1..Len(t[x].children)
  BY <1>1, NodeFields
<1>3. Taken(t, x) = {t[c].maxParams : c \in Kids(t[x])}
  BY <1>2 DEF Taken, Kids
<1>4. \A c \in Kids(t[x]) : t[c].maxParams \in 0..ParamLimit
  BY <1>1, KidsIn, NodeFields
<1>5. all \in SUBSET (0..ParamLimit) /\ 0 \in all /\ ParamLimit \in Nat
  BY <1>3, <1>4, RoutesAssumed DEF RoutesAssumption
<1>6. k = Max(all)
  OBVIOUS
<1>7. k \in all /\ \A y \in all : y <= k
  <2> HIDE DEF all
  <2> QED
    BY <1>5, <1>6, GreatestOf
<1> QED
  BY <1>3, <1>5, <1>7

\* u is t with node split in two.
Cloven(t, u) ==
    /\ u \in Seq(Node) /\ Len(u) = Len(t) + 1
    /\ \A m \in 1..Len(t) : m # node => u[m] = t[m]
    /\ SameBut(t[node], u[node], {"path", "wildChild", "indices", "children"})
    /\ u[node].path = SubSeq(path, 1, Common) /\ ~u[node].wildChild
    /\ u[node].children = <<Len(t) + 1>> /\ Len(u[node].indices) = 1
    /\ SameBut(t[node], u[Len(t) + 1], {"path", "nType", "maxParams", "priority"})
    /\ u[Len(t) + 1].path = Cut(t[node].path, Common + 1)
    /\ u[Len(t) + 1].nType = "static"
    /\ u[Len(t) + 1].maxParams \in 0..ParamLimit
    /\ \A c \in Kids(t[node]) : t[c].maxParams <= u[Len(t) + 1].maxParams
    /\ \/ u[Len(t) + 1].maxParams = 0
       \/ \E c \in Kids(t[node]) : u[Len(t) + 1].maxParams = t[c].maxParams

\* This is what Split does.
LEMMA SplitCleaves ==
    ASSUME NEW t, Tree(t), node \in 1..Len(t), path \in Seq(STRING),
           t[node].path = nodes[node].path, t[node].priority >= 1,
           Common # Len(t[node].path)
    PROVE  Cloven(t, Split(t))
<1> DEFINE here == t[node]
           k == Max({0} \cup Taken(t, node))
           s1 == SubSeq(path, 1, Common)
           s2 == Cut(here.path, Common + 1)
           ix == <<here.path[Common + 1]>>
           ch == <<Len(t) + 1>>
           upper == UpperHalf(here, s1, ix, ch)
           lower == LowerHalf(here, s2, k)
           u == Append([t EXCEPT ![node] = upper], lower)
<1>1. t \in Seq(Node) /\ here \in Node /\ Len(t) \in Nat /\ here.path \in Seq(STRING)
  BY NodeFields DEF Tree, Typed
<1>2. /\ Common \in 0..Len(path) /\ Common \in 0..Len(here.path)
  BY <1>1, CommonIs
<1>3. Split(t) = u
  BY DEF Split, Taken, UpperHalf, LowerHalf
<1>4. /\ k \in 0..ParamLimit
      /\ \A c \in Kids(here) : t[c].maxParams <= k
      /\ k = 0 \/ \E c \in Kids(here) : k = t[c].maxParams
  BY TakenIs
<1>5. s1 \in Seq(STRING) /\ s2 \in Seq(STRING)
  <2>1. s1 \in Seq(STRING)
    BY <1>2
  <2>2. Common + 1 \in 1..(Len(here.path) + 1)
    BY <1>1, <1>2
  <2> QED
    BY <1>1, <2>1, <2>2, CutIs
<1>6. ix \in Seq(STRING) /\ Len(ix) = 1 /\ ch \in Seq(Nat)
  <2>1. here.path[Common + 1] \in STRING
    BY <1>1, <1>2
  <2> QED
    BY <1>1, <2>1
<1> HIDE DEF s1, s2, ix, ch, k
<1>7. /\ SameBut(here, upper, {"path", "wildChild", "indices", "children"})
      /\ upper.path = s1 /\ ~upper.wildChild /\ upper.indices = ix /\ upper.children = ch
  <2>1. here \in Node /\ s1 \in Seq(STRING) /\ ix \in Seq(STRING) /\ ch \in Seq(Nat)
    BY <1>1, <1>5, <1>6
  <2> HIDE DEF here
  <2> QED
    BY <2>1, UpperHalfIs
<1>8. /\ SameBut(here, lower, {"path", "nType", "maxParams", "priority"})
      /\ lower.path = s2 /\ lower.nType = "static" /\ lower.maxParams = k
  <2>1. here.priority >= 1
    OBVIOUS
  <2>2. here \in Node /\ s2 \in Seq(STRING) /\ k \in 0..ParamLimit
    BY <1>1, <1>4, <1>5
  <2> HIDE DEF here
  <2> QED
    BY <2>1, <2>2, LowerHalfIs
<1> HIDE DEF upper, lower
<1>9. /\ u \in Seq(Node) /\ Len(u) = Len(t) + 1
      /\ u[node] = upper /\ u[Len(t) + 1] = lower
      /\ \A m \in 1..Len(t) : m # node => u[m] = t[m]
  <2>1. upper \in Node /\ lower \in Node
    BY <1>7, <1>8 DEF SameBut
  <2> DEFINE q == [t EXCEPT ![node] = upper]
  <2>2. /\ q \in Seq(Node) /\ Len(q) = Len(t) /\ q[node] = upper
        /\ \A m \in 1..Len(t) : m # node => q[m] = t[m]
    BY <1>1, <2>1
  <2>3. u = Append(q, lower)
    OBVIOUS
  <2> HIDE DEF q, u
  <2>4. /\ u \in Seq(Node) /\ Len(u) = Len(q) + 1 /\ u[Len(q) + 1] = lower
        /\ \A m \in 1..Len(q) : u[m] = q[m]
    <3>1. q \in Seq(Node) /\ lower \in Node
      BY <2>1, <2>2
    <3> QED
      BY <2>3, <3>1, AppendIs
  <2> QED
    BY <1>1, <2>2, <2>4
<1> HIDE DEF u, here
<1>10. Cloven(t, u)
  BY <1>4, <1>6, <1>7, <1>8, <1>9 DEF Cloven, here, s1, s2, ch
<1> QED
  BY <1>3, <1>10

\* Only a node without a wildcard is split: the others are passed as a whole.
LEMMA ClovenGrown ==
    ASSUME NEW t, NEW u, Tree(t), node \in 1..Len(t), Cloven(t, u), ~IsWild(t[node]),
           t[node].path # <<>>
    PROVE  Grown(t, u, node) /\ Kids(u[node]) = {Len(t) + 1} /\ Kids(u[Len(t) + 1]) = Kids(t[node])
           /\ ~IsWild(u[Len(t) + 1])
<1> DEFINE new == Len(t) + 1
<1>1. /\ Len(t) \in Nat /\ Typed(t) /\ ShapeOf(t[node]) /\ t[node] \in Node
      /\ \A c \in Kids(t[node]) : c \in 1..Len(t) /\ (IsWild(t[c]) <=> t[node].wildChild)
  BY KidsIn DEF Tree, Typed, Shaped
<1>2. t[node].nType \in {"static", "root"}
  <2>1. t[node].nType \in {"static", "root", "param", "catchAll"}
    BY <1>1, NodeFields
  <2> QED
    BY <1>1, <2>1 DEF ShapeOf, IsWild
<1>3. /\ Len(u) = new /\ new \in Nat /\ new \notin 1..Len(t)
      /\ Touched(t, u, node) = {node, new} /\ (Len(t) + 1)..Len(u) = {new}
  BY <1>1 DEF Cloven, Touched
<1>4. /\ u[node].nType = t[node].nType /\ ~u[node].wildChild
      /\ u[node].children = <<new>> /\ Len(u[node].indices) = 1
      /\ u[node].maxParams = t[node].maxParams /\ u[node].priority = t[node].priority
  BY DEF Cloven, SameBut
<1>5. /\ u[new].nType = "static" /\ u[new].wildChild = t[node].wildChild
      /\ u[new].children = t[node].children /\ u[new].indices = t[node].indices
  BY DEF Cloven, SameBut
<1>6. Kids(u[node]) = {new} /\ Kids(u[new]) = Kids(t[node])
  <2>1. Len(<<new>>) = 1 /\ <<new>>[1] = new
    OBVIOUS
  <2> HIDE DEF new
  <2> QED
    BY <1>4, <1>5, <2>1 DEF Kids
<1>7. ~IsWild(u[new]) /\ ~IsWild(u[node])
  BY <1>2, <1>4, <1>5 DEF IsWild
<1>8. \A m \in 1..Len(t) : m # node => u[m] = t[m]
  BY DEF Cloven
<1> HIDE DEF new
<1>9. ShapeOf(u[node]) /\ ShapeOf(u[new])
  <2>1. Len(u[node].children) = 1
    BY <1>4
  <2>2. ShapeOf(u[node])
    BY <1>2, <1>4, <2>1 DEF ShapeOf
  <2>3. ShapeOf(u[new])
    BY <1>1, <1>2, <1>5 DEF ShapeOf
  <2> QED
    BY <2>2, <2>3
<1>10. \A c \in Kids(u[new]) : IsWild(u[c]) <=> u[new].wildChild
  <2>1. \A c \in 1..Len(t) : IsWild(u[c]) <=> IsWild(t[c])
    <3>1. IsWild(u[node]) <=> IsWild(t[node])
      BY <1>7
    <3> QED
      BY <1>8, <3>1
  <2> QED
    BY <1>1, <1>5, <1>6, <2>1
<1>11. \A c \in Kids(u[node]) : IsWild(u[c]) <=> u[node].wildChild
  BY <1>4, <1>6, <1>7
<1>12. /\ \A j, k \in 1..Len(u[node].children) : u[node].children[j] = u[node].children[k] => j = k
       /\ \A j, k \in 1..Len(u[new].children) : u[new].children[j] = u[new].children[k] => j = k
  BY <1>4, <1>5 DEF Tree, OneParent
<1>13. \A a, b \in {node, new} : \A c \in Kids(u[a]) : c \in Kids(u[b]) => a = b
  BY <1>1, <1>3, <1>6
<1>14. \A m \in {node, new} :
         /\ ShapeOf(u[m])
         /\ \A c \in Kids(u[m]) : c \in Kids(t[node]) \/ c \in {new}
         /\ \A c \in Kids(u[m]) : IsWild(u[c]) <=> u[m].wildChild
         /\ \A j, k \in 1..Len(u[m].children) : u[m].children[j] = u[m].children[k] => j = k
  BY <1>6, <1>9, <1>10, <1>11, <1>12
<1>15. Grown(t, u, node)
  <2>1. u \in Seq(Node) /\ Len(t) <= Len(u)
    BY <1>1, <1>3 DEF Cloven, new
  <2> QED
    BY <1>3, <1>4, <1>7, <1>8, <1>13, <1>14, <2>1 DEF Grown
<1> QED
  BY <1>6, <1>7, <1>15 DEF new

\* What a split leaves as it was.
Divided(t, u) ==
    /\ Tree(u) /\ Sorted(u) /\ Roomy(u) /\ OneWildcard(u, 0)
    /\ node \in 1..Len(u)
    /\ Own(u[node]) = Own(t[node]) /\ u[node].maxParams = t[node].maxParams

\* The tree stays as good as it was,
LEMMA ClovenDivides ==
    ASSUME NEW t, NEW u, Tree(t), Sorted(t), Roomy(t), OneWildcard(t, 0),
           node \in 1..Len(t), Cloven(t, u), ~IsWild(t[node]), t[node].path # <<>>
    PROVE  Divided(t, u)
<1> DEFINE new == Len(t) + 1
<1>1. /\ Grown(t, u, node) /\ Kids(u[node]) = {new} /\ Kids(u[new]) = Kids(t[node])
      /\ ~IsWild(u[new])
  BY ClovenGrown
<1>2. /\ Len(t) \in Nat /\ Typed(t) /\ new \in Nat /\ Len(u) = new
      /\ \A m \in 1..Len(t) : t[m] \in Node
      /\ \A m \in 1..Len(u) : u[m] \in Node
  BY DEF Tree, Typed, Cloven
<1>3. Touched(t, u, node) = {node, new} /\ new # Root
  BY <1>2 DEF Touched, Root, Tree, Typed
<1>4. Tree(u)
  BY <1>1, GrownTree
<1>5. \A m \in 1..Len(t) : /\ u[m].priority = t[m].priority /\ u[m].maxParams = t[m].maxParams
                           /\ Own(u[m]) = Own(t[m]) /\ (IsWild(u[m]) <=> IsWild(t[m]))
  BY <1>1, GrownSame
<1>6. /\ \A c \in Kids(t[node]) : t[c].maxParams <= u[new].maxParams
      /\ \A c \in Kids(t[node]) : c \in 1..Len(t)
      /\ u[new].maxParams = 0 \/ \E c \in Kids(t[node]) : u[new].maxParams = t[c].maxParams
  BY <1>2, KidsIn DEF Cloven
<1>7. u[node].children = <<new>> /\ u[new].children = t[node].children
  BY DEF Cloven, SameBut
<1>8. new \in 1..Len(u) /\ u[new].maxParams \in Nat /\ t[node].maxParams \in Nat
  BY <1>2, NodeFields
<1> HIDE DEF new
<1>9. Sorted(u)
  <2>1. SortedAt(u, node)
    BY <1>7 DEF SortedAt
  <2>2. \A j \in 2..Len(t[node].children) :
          t[t[node].children[j]].priority <= t[t[node].children[j - 1]].priority
    BY DEF Sorted, SortedAt
  <2>3. \A j \in 1..Len(t[node].children) :
          u[t[node].children[j]].priority = t[t[node].children[j]].priority
    BY <1>2, <1>5, KidsIn
  <2>4. Len(t[node].children) \in Nat
    BY <1>2, KidsIn
  <2>5. \A j \in 2..Len(t[node].children) :
          j \in 1..Len(t[node].children) /\ j - 1 \in 1..Len(t[node].children)
    BY <2>4
  <2>6. \A j \in 2..Len(t[node].children) :
          u[t[node].children[j]].priority <= u[t[node].children[j - 1]].priority
    BY <2>2, <2>3, <2>5
  <2>7. SortedAt(u, new)
    BY <1>7, <2>6 DEF SortedAt
  <2> QED
    BY <1>1, <1>3, <2>1, <2>7, GrownSorted
<1>10. Roomy(u)
  <2>1. Own(u[new]) = 0 /\ Own(t[node]) = 0 /\ Own(u[node]) = 0
    BY <1>1, <1>5 DEF Own
  <2>2. RoomyAt(u, new)
    <3>1. \A c \in Kids(t[node]) : u[c].maxParams = t[c].maxParams /\ u[c].maxParams \in Nat
      BY <1>2, <1>5, <1>6, NodeFields
    <3>2. \A c \in Kids(u[new]) : 0 + u[c].maxParams <= u[new].maxParams
      BY <1>1, <1>6, <3>1
    <3> QED
      BY <1>8, <2>1, <3>2 DEF RoomyAt
  <2>3. ASSUME node # Root
        PROVE  RoomyAt(u, node)
    <3>1. node \in 2..Len(t)
      BY <1>2, <2>3 DEF Root
    <3>2. \A c \in Kids(t[node]) : 0 + t[c].maxParams <= t[node].maxParams
      BY <2>1, <3>1 DEF Roomy, RoomyAt
    <3>3. \A c \in Kids(t[node]) : t[c].maxParams \in Nat
      BY <1>2, <1>6, NodeFields
    <3>4. u[new].maxParams <= t[node].maxParams
      <4>1. CASE u[new].maxParams = 0
        BY <1>8, <4>1
      <4>2. ASSUME NEW c \in Kids(t[node]), u[new].maxParams = t[c].maxParams
            PROVE  u[new].maxParams <= t[node].maxParams
        <5>1. t[c].maxParams \in Nat /\ 0 + t[c].maxParams <= t[node].maxParams
          BY <3>2, <3>3
        <5> QED
          BY <4>2, <5>1
      <4> QED
        BY <1>6, <4>1, <4>2
    <3> QED
      BY <1>1, <1>5, <1>8, <2>1, <3>4 DEF RoomyAt
  <2> QED
    BY <1>1, <1>3, <2>2, <2>3, GrownRoomy
<1>11. OneWildcard(u, 0)
  <2> SUFFICES ASSUME NEW m \in 1..Len(u), IsWild(u[m])
      PROVE  OneIn(u[m].path)
    BY DEF OneWildcard
  <2>1. m \in 1..Len(t) /\ m # node
    BY <1>1, <1>2, <1>5 DEF new
  <2>2. u[m] = t[m] /\ m # 0
    BY <2>1 DEF Cloven
  <2> QED
    BY <2>1, <2>2 DEF OneWildcard
<1> QED
  BY <1>2, <1>4, <1>5, <1>9, <1>10, <1>11 DEF Divided, new

\* with no more room than there is need for,
LEMMA ClovenTight ==
    ASSUME NEW t, NEW u, Tree(t), node \in 1..Len(t), Cloven(t, u), ~IsWild(t[node]),
           t[node].path # <<>>, NEW k \in Nat, Tight(t, node, k)
    PROVE  Tight(u, node, k)
<1> DEFINE new == Len(t) + 1
<1>1. /\ Grown(t, u, node) /\ Kids(u[node]) = {new} /\ Kids(u[new]) = Kids(t[node])
      /\ ~IsWild(u[new])
  BY ClovenGrown
<1>2. /\ Len(t) \in Nat /\ new \in Nat /\ Len(u) = new /\ new \in 1..Len(u)
      /\ \A m \in 1..Len(t) : t[m] \in Node
      /\ \A m \in 1..Len(u) : u[m] \in Node
      /\ \A c \in Kids(t[node]) : c \in 1..Len(t)
  BY KidsIn DEF Tree, Typed, Cloven
<1>3. Own(u[new]) = 0 /\ Own(t[node]) = 0
  BY <1>1 DEF Own
<1>4. /\ Own(u[node]) = Own(t[node]) /\ u[node].maxParams = t[node].maxParams
      /\ \A c \in Kids(t[node]) : u[c].maxParams = t[c].maxParams
  BY <1>1, <1>2, GrownSame
<1>5. /\ \A c \in Kids(t[node]) : t[c].maxParams <= u[new].maxParams
      /\ u[new].maxParams = 0 \/ \E c \in Kids(t[node]) : u[new].maxParams = t[c].maxParams
  BY DEF Cloven
<1>6. u[new].maxParams \in Nat /\ t[node].maxParams \in Nat
      /\ \A c \in Kids(t[node]) : t[c].maxParams \in Nat
  BY <1>2, NodeFields
<1> SUFFICES ASSUME NEW m \in 2..Len(u)
    PROVE  Needed(u, m) \/ (m = node /\ u[m].maxParams <= Own(u[m]) + k)
  BY DEF Tight
<1> HIDE DEF new
<1>7. CASE m = new
  <2>1. CASE u[new].maxParams = 0
    BY <1>3, <1>7, <2>1 DEF Needed
  <2>2. ASSUME NEW c \in Kids(t[node]), u[new].maxParams = t[c].maxParams
        PROVE  Needed(u, m)
    <3>1. u[new].maxParams <= Own(u[new]) + u[c].maxParams
      BY <1>3, <1>4, <1>6, <2>2
    <3> QED
      BY <1>1, <1>7, <3>1 DEF Needed
  <2> QED
    BY <1>5, <2>1, <2>2
<1>8. CASE m = node /\ m # new
  <2>1. m \in 2..Len(t)
    BY <1>2, <1>8
  <2>2. CASE t[node].maxParams <= Own(t[node])
    BY <1>4, <1>8, <2>2 DEF Needed
  <2>3. ASSUME NEW c \in Kids(t[node]), t[node].maxParams <= Own(t[node]) + t[c].maxParams
        PROVE  Needed(u, m)
    <3>1. u[node].maxParams <= Own(u[node]) + u[new].maxParams
      BY <1>3, <1>4, <1>5, <1>6, <2>3
    <3> QED
      BY <1>1, <1>8, <3>1 DEF Needed
  <2>4. CASE t[node].maxParams <= Own(t[node]) + k
    BY <1>4, <1>8, <2>4
  <2> QED
    BY <1>8, <2>1, <2>2, <2>3, <2>4 DEF Tight, Needed
<1>9. CASE m # node /\ m # new
  <2>1. m \in 2..Len(t) /\ m \in 1..Len(t)
    BY <1>2, <1>9 DEF new
  <2>2. Needed(t, m)
    BY <1>9, <2>1 DEF Tight
  <2> QED
    BY <1>1, <1>9, <2>1, <2>2, GrownNeeded
<1> QED
  BY <1>7, <1>8, <1>9

\* and the wildcards above each node can still be counted.
LEMMA ClovenDeep ==
    ASSUME NEW t, NEW u, Tree(t), node \in 1..Len(t), Cloven(t, u), ~IsWild(t[node]),
           t[node].path # <<>>, path \in Seq(STRING), t[node].path = nodes[node].path,
           NEW d, Deep(t, d)
    PROVE  \E e : Deep(u, e) /\ e[node] = d[node]
<1> DEFINE new == Len(t) + 1
           e == [m \in 1..Len(u) |-> IF m = new THEN d[node] ELSE d[m]]
<1>1. /\ Grown(t, u, node) /\ Kids(u[node]) = {new} /\ Kids(u[new]) = Kids(t[node])
      /\ ~IsWild(u[new])
  BY ClovenGrown
<1>2. /\ Len(t) \in Nat /\ new \in Nat /\ Len(u) = new /\ new \in 1..Len(u) /\ new \notin 1..Len(t)
      /\ \A c \in Kids(t[node]) : c \in 1..Len(t)
      /\ t[node].path \in Seq(STRING)
  <2>1. t \in Seq(Node) /\ Typed(t) /\ Len(u) = new
    BY DEF Tree, Typed, Cloven
  <2>2. Len(t) \in Nat /\ t[node] \in Node
    BY <2>1
  <2>3. \A c \in Kids(t[node]) : c \in 1..Len(t)
    BY <2>1, KidsIn
  <2>4. t[node].path \in Seq(STRING)
    BY <2>2, NodeFields
  <2>5. new \in Nat /\ new \in 1..new /\ new \notin 1..Len(t)
    BY <2>2
  <2> QED
    BY <2>1, <2>2, <2>3, <2>4, <2>5
<1>3. Touched(t, u, node) = {node, new}
  BY <1>2 DEF Touched
<1>4. d \in [1..Len(t) -> 0..ParamLimit] /\ DeepAt(t, d, node)
  BY DEF Deep
<1>5. /\ e \in [1..Len(u) -> 0..ParamLimit]
      /\ \A m \in 1..Len(t) : e[m] = d[m]
      /\ e[new] = d[node]
  <2>1. \A m \in 1..Len(u) : m # new => m \in 1..Len(t)
    BY <1>2
  <2>2. \A m \in 1..Len(t) : m \in 1..Len(u) /\ m # new
    BY <1>2
  <2>3. d[node] \in 0..ParamLimit /\ \A m \in 1..Len(t) : d[m] \in 0..ParamLimit
    BY <1>4
  <2> HIDE DEF new
  <2> QED
    BY <1>2, <2>1, <2>2, <2>3
<1> HIDE DEF e
<1>6. /\ u[node].path = SubSeq(path, 1, Common) /\ ~u[node].wildChild
      /\ u[new].path = Cut(t[node].path, Common + 1) /\ u[new].wildChild = t[node].wildChild
  BY DEF Cloven, SameBut
<1>7. /\ Common \in 0..Len(path) /\ Common \in 0..Len(t[node].path)
      /\ \A j \in 1..Common : path[j] = t[node].path[j]
  BY <1>2, CommonIs
<1>8. WildIn(u[node].path, 1) # {} => WildIn(t[node].path, 1) # {}
  <2>1. /\ SubSeq(path, 1, Common) \in Seq(STRING) /\ Len(SubSeq(path, 1, Common)) = Common
        /\ \A j \in 1..Common : SubSeq(path, 1, Common)[j] = path[j]
    BY <1>7
  <2> HIDE DEF Common
  <2>2. \A j \in WildIn(u[node].path, 1) : j \in WildIn(t[node].path, 1)
    BY <1>2, <1>6, <1>7, <2>1 DEF WildIn
  <2> QED
    BY <2>2
<1>9. WildIn(u[new].path, 1) # {} => WildIn(t[node].path, 1) # {}
  <2>1. Common + 1 \in 1..(Len(t[node].path) + 1)
    BY <1>2, <1>7
  <2>2. /\ Cut(t[node].path, Common + 1) \in Seq(STRING)
        /\ Len(Cut(t[node].path, Common + 1)) = Len(t[node].path) + 1 - (Common + 1)
        /\ \A j \in 1..(Len(t[node].path) + 1 - (Common + 1)) :
             Cut(t[node].path, Common + 1)[j] = t[node].path[j + (Common + 1) - 1]
    BY <1>2, <2>1, CutIs
  <2>3. Cardinality(WildIn(Cut(t[node].path, Common + 1), 1))
          = Cardinality(WildIn(t[node].path, Common + 1))
    BY <1>2, <1>7, WildInCut
  <2>4. /\ IsFiniteSet(WildIn(t[node].path, Common + 1))
        /\ IsFiniteSet(WildIn(Cut(t[node].path, Common + 1), 1))
    BY <1>2, <2>1, <2>2, WildInFinite
  <2>5. ASSUME WildIn(t[node].path, 1) = {}
        PROVE  WildIn(Cut(t[node].path, Common + 1), 1) = {}
    <3>1. Common + 1 \in Nat /\ Common + 1 >= 1
      BY <1>7
    <3> HIDE DEF Common
    <3>2. WildIn(t[node].path, Common + 1) = {}
      BY <1>2, <2>5, <3>1 DEF WildIn
    <3> QED
      BY <2>3, <2>4, <3>2, FS_EmptySet
  <2> QED
    BY <1>6, <2>5
<1>10. DeepAt(u, e, node)
  <2>1. e[node] = d[node] /\ d[node] \in 0..ParamLimit
    BY <1>4, <1>5
  <2>2. d[node] \in Int
    BY <2>1
  <2>3. WildIn(u[node].path, 1) # {} => e[node] = ParamLimit
    BY <1>4, <1>8, <2>1 DEF DeepAt
  <2>4. \A c \in Kids(u[node]) : e[c] = e[node] + 0
    BY <1>1, <1>5, <2>1, <2>2
  <2> QED
    BY <1>6, <2>3, <2>4 DEF DeepAt
<1>11. DeepAt(u, e, new)
  <2>1. WildIn(u[new].path, 1) # {} => e[new] = ParamLimit
    BY <1>4, <1>5, <1>9 DEF DeepAt
  <2>2. \A c \in Kids(u[new]) : e[c] = e[new] + (IF u[new].wildChild THEN 1 ELSE 0)
    BY <1>1, <1>2, <1>4, <1>5, <1>6 DEF DeepAt
  <2> QED
    BY <2>1, <2>2 DEF DeepAt
<1>12. Deep(u, e)
  <2> HIDE DEF new
  <2> QED
    BY <1>1, <1>3, <1>5, <1>10, <1>11, GrownDeep
<1> QED
  BY <1>5, <1>12

-----------------------------------------------------------------------------
(* A turn of the loop of addRoute.                                         *)

\* maxParams of the node is raised to what is to come below it.
Room(t, x) ==
    /\ Tree(t) /\ Sorted(t) /\ Roomy(t) /\ OneWildcard(t, 0)
    /\ x \in 1..Len(t)
    /\ x # Root => Own(t[x]) + numParams <= t[x].maxParams
    /\ panicked = {} => Tight(t, x, numParams)

\* Before it is.
NoRoom(t, x) ==
    /\ Tree(t) /\ Sorted(t) /\ Roomy(t) /\ OneWildcard(t, 0)
    /\ x \in 1..Len(t)
    /\ IsWild(t[x]) => numParams + 1 <= t[x].maxParams
    /\ \A m \in 2..Len(t) : x \in Kids(t[m]) => Own(t[m]) + Own(t[x]) + numParams <= t[m].maxParams
    /\ panicked = {} => TightAbove(t, x, numParams)

\* RaiseMaxParams makes this room.
LEMMA RaisedMakesRoom ==
    ASSUME NEW t, NEW x, NoRoom(t, x), numParams \in 0..ParamLimit
    PROVE  Room(RaiseMaxParams(t, x), x)
<1> DEFINE u == RaiseMaxParams(t, x)
<1>1. /\ Tree(t) /\ Sorted(t) /\ Roomy(t) /\ OneWildcard(t, 0) /\ x \in 1..Len(t)
      /\ Typed(t) /\ Len(t) \in Nat
  BY DEF NoRoom, Tree, Typed
<1>2. /\ Altered(t, u, x, {"maxParams"})
      /\ u[x].maxParams = IF t[x].maxParams <= numParams THEN numParams ELSE t[x].maxParams
  BY <1>1, RaisedIs
<1> HIDE DEF u
<1>3. /\ Kept(t, u) /\ Unmoved(t, u) /\ Tree(u)
      /\ \A m \in 1..Len(t) : u[m].path = t[m].path
  BY <1>1, <1>2, AlteredKept, AlteredLess
<1>4. /\ \A m \in 1..Len(t) : u[m].priority = t[m].priority
      /\ \A m \in 1..Len(t) : m # x => u[m].maxParams = t[m].maxParams
      /\ Len(u) = Len(t)
  BY <1>2 DEF Altered, SameBut
<1>5. /\ \A m \in 1..Len(t) : IsWild(u[m]) <=> IsWild(t[m])
      /\ \A m \in 1..Len(t) : Own(u[m]) = Own(t[m])
      /\ \A m \in 1..Len(t) : Own(t[m]) \in Nat
  BY <1>1, <1>3, KeptTypes, OwnIs
<1>6. \A m \in 1..Len(t) : t[m].maxParams \in Nat /\ u[m].maxParams \in Nat
  BY <1>1, <1>3, KeptMaxParams
<1>7. numParams \in Nat
  BY RoutesAssumed DEF RoutesAssumption
<1>8. \A m \in 2..Len(t) : m \in 1..Len(t) /\ m # Root
  BY <1>1 DEF Root
<1>9. Sorted(u)
  <2>1. \A m \in 1..Len(t) : 0 \notin Kids(t[m])
    BY <1>1, KidsIn
  <2> QED
    BY <1>1, <1>3, <1>4, <2>1, KeptSorted
<1>10. t[x].maxParams <= u[x].maxParams /\ numParams <= u[x].maxParams
  BY <1>1, <1>2, <1>6, <1>7
<1>11. Roomy(u)
  <2>1. ASSUME NEW m \in 2..Len(t), x \in Kids(t[m])
        PROVE  Own(t[m]) + u[x].maxParams <= t[m].maxParams
    <3>1. Own(t[m]) + t[x].maxParams <= t[m].maxParams
      BY <1>1, <2>1 DEF Roomy, RoomyAt
    <3>2. Own(t[m]) + Own(t[x]) + numParams <= t[m].maxParams
      BY <2>1 DEF NoRoom
    <3>3. /\ Own(t[m]) \in Nat /\ Own(t[x]) \in Nat /\ t[x].maxParams \in Nat
          /\ t[m].maxParams \in Nat
      BY <1>1, <1>5, <1>6, <1>8
    <3> QED
      BY <1>2, <1>7, <3>1, <3>2, <3>3
  <2> QED
    BY <1>1, <1>3, <1>4, <1>10, <2>1, KeptRoomy
<1>12. OneWildcard(u, 0)
  BY <1>1, <1>3, <1>4, <1>5 DEF OneWildcard
<1>13. Own(u[x]) + numParams <= u[x].maxParams
  <2>1. CASE IsWild(t[x])
    <3>1. numParams + 1 <= t[x].maxParams /\ Own(t[x]) = 1
      BY <2>1 DEF NoRoom, Own
    <3> QED
      BY <1>1, <1>5, <1>6, <1>7, <1>10, <3>1
  <2>2. CASE ~IsWild(t[x])
    <3>1. Own(t[x]) = 0
      BY <2>2 DEF Own
    <3> QED
      BY <1>1, <1>5, <1>6, <1>7, <1>10, <3>1
  <2> QED
    BY <2>1, <2>2
<1>14. ASSUME panicked = {}
       PROVE  Tight(u, x, numParams)
  <2> SUFFICES ASSUME NEW m \in 2..Len(t)
      PROVE  Needed(u, m) \/ (m = x /\ u[m].maxParams <= Own(u[m]) + numParams)
    BY <1>4 DEF Tight
  <2>1. TightAbove(t, x, numParams) /\ m \in 1..Len(t)
    BY <1>8, <1>14 DEF NoRoom
  <2>2. \A a \in 1..Len(t) : t[a].maxParams <= u[a].maxParams
    <3>1. \A a \in 1..Len(t) : a # x => t[a].maxParams <= u[a].maxParams
      BY <1>4, <1>6
    <3> QED
      BY <1>10, <3>1
  <2>3. CASE m = x /\ u[x].maxParams = numParams
    <3>1. Own(u[x]) \in Nat
      BY <1>1, <1>5
    <3>2. u[m].maxParams <= Own(u[m]) + numParams
      BY <1>7, <2>3, <3>1
    <3> QED
      BY <2>3, <3>2
  <2>4. CASE Needed(t, m) /\ u[m].maxParams = t[m].maxParams
    BY <1>1, <1>3, <2>1, <2>2, <2>4, KeptNeeded
  <2>5. CASE m = x /\ t[m].maxParams <= Own(t[m]) + numParams /\ u[m].maxParams = t[m].maxParams
    BY <1>5, <2>1, <2>5
  <2>6. CASE x \in Kids(t[m]) /\ t[m].maxParams <= Own(t[m]) + Own(t[x]) + numParams
    <3>1. u[m].maxParams <= Own(u[m]) + u[x].maxParams
      <4>1. CASE m = x
        BY <1>1, <1>5, <1>6, <4>1
      <4>2. CASE m # x
        <5>1. u[m].maxParams = t[m].maxParams
          BY <1>4, <2>1, <4>2
        <5>2. /\ Own(u[m]) \in Nat /\ Own(u[m]) = Own(t[m])
              /\ Own(u[x]) \in Nat /\ Own(u[x]) = Own(t[x])
              /\ u[m].maxParams \in Nat /\ u[x].maxParams \in Nat
          BY <1>1, <1>5, <1>6, <2>1
        <5> QED
          BY <1>7, <1>13, <2>6, <5>1, <5>2
      <4> QED
        BY <4>1, <4>2
    <3>2. x \in Kids(u[m])
      BY <1>3, <2>1, <2>6 DEF Kept
    <3> QED
      BY <3>1, <3>2 DEF Needed
  <2>7. u[m].maxParams = t[m].maxParams \/ (m = x /\ u[x].maxParams = numParams)
    BY <1>2, <1>4, <2>1
  <2>8. \/ Needed(t, m)
        \/ m = x /\ t[m].maxParams <= Own(t[m]) + numParams
        \/ x \in Kids(t[m]) /\ t[m].maxParams <= Own(t[m]) + Own(t[x]) + numParams
    BY <2>1 DEF TightAbove
  <2> QED
    BY <2>3, <2>4, <2>5, <2>6, <2>7, <2>8
<1>15. Room(u, x)
  BY <1>1, <1>3, <1>4, <1>9, <1>11, <1>12, <1>13, <1>14 DEF Room
<1> QED
  BY <1>15 DEF u

\* Behind bytes that are no wildcards there are as many.
LEMMA WildInPast ==
    ASSUME NEW s \in Seq(STRING), NEW k \in Nat, NEW c \in Nat, k <= c,
           \A j \in k..(c - 1) : s[j] \notin Wild
    PROVE  WildIn(s, k) = WildIn(s, c)
<1>1. Len(s) \in Nat
  OBVIOUS
<1>2. ASSUME NEW j \in WildIn(s, k)
      PROVE  j \in WildIn(s, c)
  <2>1. j \in k..Len(s) /\ s[j] \in Wild
    BY <1>2 DEF WildIn
  <2>2. j \notin k..(c - 1)
    BY <2>1
  <2>3. j \in c..Len(s)
    BY <1>1, <2>1, <2>2
  <2> QED
    BY <2>1, <2>3 DEF WildIn
<1>3. ASSUME NEW j \in WildIn(s, c)
      PROVE  j \in WildIn(s, k)
  <2>1. j \in c..Len(s) /\ s[j] \in Wild
    BY <1>3 DEF WildIn
  <2>2. j \in k..Len(s)
    BY <1>1, <2>1
  <2> QED
    BY <2>1, <2>2 DEF WildIn
<1> QED
  BY <1>2, <1>3

\* Behind one wildcard there is one less.
LEMMA WildInPastOne ==
    ASSUME NEW s \in Seq(STRING), NEW k \in Nat, NEW c \in Nat, NEW a \in k..(c - 1),
           c <= Len(s) + 1, \A j \in k..(c - 1) : s[j] \in Wild <=> j = a
    PROVE  Cardinality(WildIn(s, k)) = Cardinality(WildIn(s, c)) + 1
<1>1. Len(s) \in Nat
  OBVIOUS
<1>2. ASSUME NEW j \in WildIn(s, k)
      PROVE  j \in WildIn(s, c) \cup {a}
  <2>1. j \in k..Len(s) /\ s[j] \in Wild
    BY <1>2 DEF WildIn
  <2>2. CASE j \in k..(c - 1)
    BY <2>1, <2>2
  <2>3. CASE j \notin k..(c - 1)
    <3>1. j \in c..Len(s)
      BY <1>1, <2>1, <2>3
    <3> QED
      BY <2>1, <3>1 DEF WildIn
  <2> QED
    BY <2>2, <2>3
<1>3. ASSUME NEW j \in WildIn(s, c)
      PROVE  j \in WildIn(s, k)
  <2>1. j \in c..Len(s) /\ s[j] \in Wild
    BY <1>3 DEF WildIn
  <2>2. j \in k..Len(s)
    BY <1>1, <2>1
  <2> QED
    BY <2>1, <2>2 DEF WildIn
<1>4. a \in WildIn(s, k)
  <2>1. a \in k..Len(s) /\ s[a] \in Wild
    BY <1>1
  <2> QED
    BY <2>1 DEF WildIn
<1>5. a \notin WildIn(s, c)
  <2>1. a \notin c..Len(s)
    BY <1>1
  <2> QED
    BY <2>1 DEF WildIn
<1>6. WildIn(s, k) = WildIn(s, c) \cup {a}
  BY <1>2, <1>3, <1>4
<1> QED
  BY <1>5, <1>6, WildInStep

\* What a turn has found out when it looks at the children.
Come(t, d) ==
    /\ Room(t, node) /\ Deep(t, d)
    /\ Rest \in Seq(STRING)
    /\ IsWild(t[node]) /\ Rest # <<>> => Rest[1] = "/"
    /\ numParams = Least(Cardinality(WildIn(Rest, 1)), ParamLimit - d[node])

\* What most steps need of the invariant.
LEMMA TreeInvGives ==
    ASSUME TreeInv
    PROVE  /\ Tree(nodes) /\ Typed(nodes) /\ Sorted(nodes) /\ Roomy(nodes)
           /\ Len(nodes) \in Nat /\ node \in 1..Len(nodes) /\ nodes[node] \in Node
           /\ path \in Seq(STRING) /\ Len(path) \in Nat
           /\ numParams \in 0..ParamLimit /\ numParams \in Nat
           /\ ParamLimit \in Nat /\ ParamLimit >= 1
<1>1. /\ Tree(nodes) /\ Sorted(nodes) /\ Roomy(nodes) /\ node \in 1..Len(nodes)
      /\ path \in Seq(STRING) /\ numParams \in 0..ParamLimit
  BY DEF TreeInv, Locals
<1>2. Typed(nodes)
  BY <1>1 DEF Tree
<1>3. Len(nodes) \in Nat /\ nodes[node] \in Node
  BY <1>1, <1>2, KidsIn
<1>4. ParamLimit \in Nat /\ ParamLimit >= 1
  BY RoutesAssumed DEF RoutesAssumption
<1>5. numParams \in Nat
  BY <1>1, <1>4
<1>6. Len(path) \in Nat
  BY <1>1
<1> QED
  BY <1>1, <1>2, <1>3, <1>4, <1>5, <1>6

\* The invariant says what is needed before the node is raised.
LEMMA WalkingMakesRoom ==
    ASSUME TreeInv, stage = "walk", NEW d, Walking(d)
    PROVE  NoRoom(nodes, node)
  BY DEF TreeInv, Locals, Walking, NoRoom

\* The wildcards of the path that are not in the node's own.
LEMMA RestCounted ==
    ASSUME TreeInv, stage = "walk", NEW d, Walking(d), Deep(nodes, d)
    PROVE  numParams = Least(Cardinality(WildIn(Rest, 1)), ParamLimit - d[node])
<1> DEFINE here == nodes[node].path
           all == Cardinality(WildIn(path, 1))
           rest == Cardinality(WildIn(path, Common + 1))
<1>1. /\ Tree(nodes) /\ node \in 1..Len(nodes) /\ path \in Seq(STRING)
      /\ nodes[node] \in Node
  BY TreeInvGives
<1>2. here \in Seq(STRING)
  BY <1>1, NodeFields
<1>3. numParams = Least(all - Own(nodes[node]), ParamLimit - d[node])
  BY DEF Walking
<1>4. /\ Common \in 0..Len(path) /\ Common \in 0..Len(here)
      /\ \A j \in 1..Common : path[j] = here[j]
      /\ IsPrefix(here, path) => Common = Len(here)
  BY <1>1, <1>2, CommonIs
<1>5. Cardinality(WildIn(Rest, 1)) = rest
  BY <1>1, <1>2, RestIs
<1>7. Common + 1 \in Nat /\ Common + 1 <= Len(path) + 1 /\ Common \in Nat
  BY <1>4
<1>6. all \in Nat /\ rest \in Nat /\ ParamLimit \in Nat
  <2>1. all \in Nat
    BY <1>1, WildInFinite
  <2>2. rest \in Nat
    BY <1>1, <1>7, WildInFinite
  <2> QED
    BY <2>1, <2>2, TreeInvGives
<1> HIDE DEF Common
<1>8. CASE IsWild(nodes[node])
  <2>1. /\ IsPrefix(here, path) /\ OneIn(here) /\ Own(nodes[node]) = 1
    <3>1. node # 0
      BY <1>1
    <3> QED
      BY <1>1, <1>8, <3>1 DEF Walking, OneWildcard, Own
  <2>2. Common = Len(here)
    BY <1>4, <2>1
  <2>3. PICK a \in 1..Len(here) : \A j \in 1..Len(here) : here[j] \in Wild <=> j = a
    BY <2>1 DEF OneIn
  <2>4. \A j \in 1..((Common + 1) - 1) : path[j] \in Wild <=> j = a
    BY <1>4, <1>7, <2>2, <2>3
  <2>5. a \in 1..((Common + 1) - 1)
    BY <1>7, <2>2, <2>3
  <2> HIDE DEF all, rest
  <2>6. all = rest + 1
    BY <1>1, <1>7, <2>4, <2>5, WildInPastOne DEF all, rest
  <2>7. all - Own(nodes[node]) = rest
    BY <1>6, <2>1, <2>6
  <2> QED
    BY <1>3, <1>5, <2>7
<1>9. CASE ~IsWild(nodes[node]) /\ WildIn(here, 1) # {}
  <2>1. d[node] = ParamLimit /\ Own(nodes[node]) = 0
    BY <1>1, <1>9 DEF Deep, DeepAt, Own
  <2>2. Least(all - Own(nodes[node]), ParamLimit - d[node]) = 0
    BY <1>6, <2>1 DEF Least
  <2>3. Least(rest, ParamLimit - d[node]) = 0
    BY <1>6, <2>1 DEF Least
  <2> QED
    BY <1>3, <1>5, <2>2, <2>3
<1>10. CASE ~IsWild(nodes[node]) /\ WildIn(here, 1) = {}
  <2>1. Own(nodes[node]) = 0
    BY <1>10 DEF Own
  <2>2. \A j \in 1..((Common + 1) - 1) : path[j] \notin Wild
    BY <1>2, <1>4, <1>7, <1>10 DEF WildIn
  <2>3. WildIn(path, 1) = WildIn(path, Common + 1)
    BY <1>1, <1>7, <2>2, WildInPast
  <2>4. all - Own(nodes[node]) = rest
    BY <1>6, <2>1, <2>3
  <2> QED
    BY <1>3, <1>5, <2>4
<1> QED
  BY <1>8, <1>9, <1>10

\* When the node has been raised and split, there is room for the rest of the path.
LEMMA OpenedIs ==
    ASSUME TreeInv, stage = "walk"
    PROVE  \E d : Come(Opened, d)
<1> DEFINE q == RaiseMaxParams(nodes, node)
<1>1. /\ Tree(nodes) /\ node \in 1..Len(nodes) /\ path \in Seq(STRING)
      /\ nodes[node] \in Node /\ numParams \in 0..ParamLimit
  BY TreeInvGives
<1>2. PICK d : Deep(nodes, d) /\ Walking(d)
  BY DEF TreeInv
<1>3. /\ nodes[node].path \in Seq(STRING) /\ nodes[node].priority >= 1
  BY <1>1, <1>2, NodeFields DEF Walking
<1>4. Room(q, node)
  BY <1>1, <1>2, WalkingMakesRoom, RaisedMakesRoom
<1>5. Altered(nodes, q, node, {"maxParams"})
  BY <1>1, RaisedIs
<1> HIDE DEF q
<1>6. /\ Kept(nodes, q) /\ \A m \in 1..Len(nodes) : q[m].path = nodes[m].path
  BY <1>1, <1>5, AlteredKept, AlteredLess
<1>7. q[node].priority = nodes[node].priority /\ (IsWild(q[node]) <=> IsWild(nodes[node]))
  BY <1>1, <1>5, <1>6, KeptTypes DEF Altered, SameBut
<1>8. Deep(q, d)
  BY <1>1, <1>2, <1>6, KeptDeep
<1>9. numParams = Least(Cardinality(WildIn(Rest, 1)), ParamLimit - d[node])
  BY <1>2, RestCounted
<1>10. /\ Rest \in Seq(STRING) /\ Len(Rest) = Len(path) - Common
       /\ \A j \in 1..(Len(path) - Common) : Rest[j] = path[j + Common]
  BY <1>1, <1>3, RestIs
<1>11. /\ Common \in 0..Len(path) /\ Common \in 0..Len(nodes[node].path)
       /\ IsPrefix(nodes[node].path, path) => Common = Len(nodes[node].path)
  BY <1>1, <1>3, CommonIs
<1> HIDE DEF Common, Rest
<1>12. ASSUME IsWild(nodes[node])
       PROVE  Common = Len(nodes[node].path) /\ (Rest # <<>> => Rest[1] = "/")
  <2>1. /\ IsPrefix(nodes[node].path, path)
        /\ Len(path) > Len(nodes[node].path) => path[Len(nodes[node].path) + 1] = "/"
    BY <1>2, <1>12 DEF Walking
  <2>2. Common = Len(nodes[node].path)
    BY <1>11, <2>1
  <2>3. ASSUME Rest # <<>>
        PROVE  Rest[1] = "/"
    <3>1. Len(Rest) > 0 /\ Len(path) \in Nat /\ Common \in Nat
      BY <1>1, <1>10, <1>11, <2>3
    <3>2. 1 \in 1..(Len(path) - Common) /\ 1 + Common = Len(nodes[node].path) + 1
          /\ Len(path) > Len(nodes[node].path)
      BY <1>10, <2>2, <3>1
    <3>3. Rest[1] = path[1 + Common]
      BY <1>10, <3>2
    <3> QED
      BY <2>1, <3>2, <3>3
  <2> QED
    BY <2>2, <2>3
<1>13. Opened = Split(q)
  BY DEF Opened, q
<1>14. CASE Common = Len(q[node].path)
  <2>1. Opened = q
    BY <1>13, <1>14 DEF Split
  <2> QED
    BY <1>4, <1>7, <1>8, <1>9, <1>10, <1>12, <2>1 DEF Come
<1>15. CASE Common # Len(q[node].path)
  <2>1. q[node].path = nodes[node].path /\ ~IsWild(q[node]) /\ q[node].priority >= 1
    BY <1>1, <1>3, <1>6, <1>7, <1>12, <1>15
  <2>2. q[node].path # <<>>
    BY <1>11, <1>15, <2>1
  <2>3. Tree(q) /\ Sorted(q) /\ Roomy(q) /\ OneWildcard(q, 0) /\ node \in 1..Len(q)
    BY <1>4 DEF Room
  <2>4. Cloven(q, Opened)
    BY <1>1, <1>13, <1>15, <2>1, <2>3, SplitCleaves
  <2>5. Divided(q, Opened)
    BY <2>1, <2>2, <2>3, <2>4, ClovenDivides
  <2>6. Grown(q, Opened, node)
    BY <2>1, <2>2, <2>3, <2>4, ClovenGrown
  <2>7. ~IsWild(Opened[node])
    BY <2>1, <2>3, <2>6, GrownSame
  <2>8. PICK e : Deep(Opened, e) /\ e[node] = d[node]
    BY <1>1, <1>8, <2>1, <2>2, <2>3, <2>4, ClovenDeep
  <2>9. panicked = {} => Tight(Opened, node, numParams)
    <3>1. numParams \in Nat
      BY <1>1, RoutesAssumed DEF RoutesAssumption
    <3>2. panicked = {} => Tight(q, node, numParams)
      BY <1>4 DEF Room
    <3> QED
      BY <2>1, <2>2, <2>3, <2>4, <3>1, <3>2, ClovenTight
  <2>10. Room(Opened, node)
    BY <1>4, <2>5, <2>9 DEF Room, Divided
  <2> HIDE DEF Opened
  <2>11. Come(Opened, e)
    BY <1>9, <1>10, <2>7, <2>8, <2>10 DEF Come
  <2> QED
    BY <2>11
<1> QED
  BY <1>14, <1>15
-----------------------------------------------------------------------------
(* Trees that tell the same of routes and wildcards.                       *)

\* Nothing but priorities, handlers and the order of siblings is different.
Same(t, u) ==
    /\ Tree(t) /\ Tree(u) /\ Kept(t, u)
    /\ \A m \in 1..Len(t) : u[m].path = t[m].path /\ u[m].maxParams = t[m].maxParams

\* A tree has a root.
LEMMA TreeIs ==
    ASSUME NEW t, Tree(t)
    PROVE  /\ Typed(t) /\ t \in Seq(Node) /\ Len(t) \in Nat /\ Len(t) >= 1
           /\ 1 \in 1..Len(t) /\ Root \in 1..Len(t)
<1>1. Typed(t) /\ t \in Seq(Node) /\ t # <<>>
  BY DEF Tree, Typed
<1>2. Len(t) \in Nat /\ Len(t) >= 1
  BY <1>1
<1> QED
  BY <1>1, <1>2 DEF Root

\* Wildcards are the same,
LEMMA SameIs ==
    ASSUME NEW t, NEW u, Same(t, u)
    PROVE  /\ Len(u) = Len(t) /\ Len(t) \in Nat
           /\ \A m \in 1..Len(t) : (IsWild(u[m]) <=> IsWild(t[m])) /\ Own(u[m]) = Own(t[m])
<1>1. Tree(t) /\ Kept(t, u) /\ Len(u) = Len(t)
  BY DEF Same, Kept
<1> QED
  BY <1>1, KeptTypes, TreeIs

\* what is needed is,
LEMMA SameNeeded ==
    ASSUME NEW t, NEW u, Same(t, u), NEW m \in 1..Len(t), Needed(t, m)
    PROVE  Needed(u, m)
<1>1. Tree(t) /\ Kept(t, u) /\ \A a \in 1..Len(t) : u[a].maxParams = t[a].maxParams
  BY DEF Same
<1>2. \A a \in 1..Len(t) : t[a].maxParams \in Nat /\ u[a].maxParams \in Nat
  BY <1>1, KeptMaxParams
<1>3. \A a \in 1..Len(t) : t[a].maxParams <= u[a].maxParams
  BY <1>1, <1>2
<1> QED
  BY <1>1, <1>3, KeptNeeded

\* and so is what is spare,
LEMMA SameTight ==
    ASSUME NEW t, NEW u, Same(t, u), NEW x, NEW k, Tight(t, x, k)
    PROVE  Tight(u, x, k)
<1> SUFFICES ASSUME NEW m \in 2..Len(t)
    PROVE  Needed(u, m) \/ (m = x /\ u[m].maxParams <= Own(u[m]) + k)
  BY SameIs DEF Tight
<1>1. m \in 1..Len(t)
  BY SameIs
<1>2. u[m].maxParams = t[m].maxParams /\ Own(u[m]) = Own(t[m])
  BY <1>1, SameIs DEF Same
<1>3. Needed(t, m) => Needed(u, m)
  BY <1>1, SameNeeded
<1> QED
  BY <1>2, <1>3 DEF Tight

\* the room,
LEMMA SameRoomy ==
    ASSUME NEW t, NEW u, Same(t, u), Roomy(t)
    PROVE  Roomy(u)
<1>1. /\ Tree(t) /\ Typed(t) /\ Kept(t, u) /\ Len(t) \in Nat
      /\ \A a \in 1..Len(t) : u[a].maxParams = t[a].maxParams
  BY SameIs DEF Same, Tree
<1>2. \A m \in 1..Len(t) : 0 \notin Kids(t[m])
  BY <1>1, KidsIn
<1>3. \A m \in 2..Len(t) : m \in 1..Len(t)
  BY <1>1
<1>4. 0 \notin 1..Len(t)
  BY <1>1
<1> QED
  BY <1>1, <1>2, <1>3, <1>4, KeptRoomy

\* the wildcards in paths,
LEMMA SameOne ==
    ASSUME NEW t, NEW u, Same(t, u), NEW x, OneWildcard(t, x)
    PROVE  OneWildcard(u, x)
  BY SameIs DEF OneWildcard, Same

\* and those above a node.
LEMMA SameDeep ==
    ASSUME NEW t, NEW u, Same(t, u), NEW d, Deep(t, d)
    PROVE  Deep(u, d)
  BY KeptDeep DEF Same

\* One node, an only child or the root, is altered in its priority or handler.
LEMMA PriorKeeps ==
    ASSUME NEW t, NEW u, NEW x \in 1..Len(t), Tree(t), Sorted(t),
           Altered(t, u, x, {"priority"}),
           \A m \in 1..Len(t) : x \in Kids(t[m]) => Len(t[m].children) = 1
    PROVE  Same(t, u) /\ Sorted(u)
<1>1. /\ Kept(t, u) /\ Unmoved(t, u) /\ Tree(u)
      /\ \A m \in 1..Len(t) : u[m].path = t[m].path
  BY AlteredKept, AlteredLess
<1>2. /\ \A m \in 1..Len(t) : m # x => u[m].priority = t[m].priority
      /\ \A m \in 1..Len(t) : u[m].maxParams = t[m].maxParams
  BY DEF Altered, SameBut
<1>3. Sorted(u)
  BY <1>1, <1>2, KeptSorted
<1> QED
  BY <1>1, <1>2, <1>3 DEF Same

\* A handler is registered.
LEMMA HandleKeeps ==
    ASSUME NEW t, NEW x \in 1..Len(t), Tree(t), Sorted(t), full \in Routes
    PROVE  /\ Same(t, [t EXCEPT ![x].handle = {full}])
           /\ Sorted([t EXCEPT ![x].handle = {full}])
<1> DEFINE e == [t[x] EXCEPT !.handle = {full}]
           u == [t EXCEPT ![x] = e]
<1>1. t \in Seq(Node) /\ t[x] \in Node /\ Typed(t) /\ Len(t) \in Nat
  BY DEF Tree, Typed
<1>2. [t EXCEPT ![x].handle = {full}] = u
  BY <1>1
<1>3. {full} \in Handlers
  BY DEF Handlers
<1>4. SameBut(t[x], e, {})
  BY <1>1, <1>3 DEF Node, SameBut
<1> HIDE DEF e
<1>5. Altered(t, u, x, {})
  BY <1>4, AlteredIs
<1> HIDE DEF u
<1>6. Altered(t, u, x, {"priority", "maxParams"})
  BY <1>5 DEF Altered, SameBut
<1>7. /\ Kept(t, u) /\ Unmoved(t, u) /\ Tree(u)
      /\ \A m \in 1..Len(t) : u[m].path = t[m].path
  BY <1>6, AlteredKept
<1>8. /\ \A m \in 1..Len(t) : u[m].priority = t[m].priority
      /\ \A m \in 1..Len(t) : u[m].maxParams = t[m].maxParams
  BY <1>5 DEF Altered, SameBut
<1>9. \A m \in 1..Len(t) : 0 \notin Kids(t[m])
  BY <1>1, KidsIn
<1>10. Sorted(u)
  BY <1>7, <1>8, <1>9, KeptSorted
<1> QED
  BY <1>2, <1>7, <1>8, <1>10 DEF Same

\* When nothing more is to come, no node is an exception.
LEMMA TightNone ==
    ASSUME NEW t, NEW x, Tight(t, x, 0), Tree(t)
    PROVE  Tight(t, Root, 0)
<1> SUFFICES ASSUME NEW m \in 2..Len(t)
    PROVE  Needed(t, m)
  BY DEF Tight
<1>1. CASE Needed(t, m)
  BY <1>1
<1>2. CASE t[m].maxParams <= Own(t[m]) + 0
  <2>1. Own(t[m]) \in Nat
    BY OwnIs
  <2>2. t[m].maxParams <= Own(t[m])
    BY <1>2, <2>1
  <2> QED
    BY <2>2 DEF Needed
<1> QED
  BY <1>1, <1>2 DEF Tight

-----------------------------------------------------------------------------
(* How a step of Register leaves the invariant.                            *)

\* What is true of the tree between two calls, if it is not about capacity.
Settled(t) ==
    /\ Tree(t) /\ Sorted(t) /\ Roomy(t) /\ OneWildcard(t, 0)
    /\ \E d : Deep(t, d)

\* The empty path, and the places in it.
LEMMA EmptyIs ==
    /\ <<>> \in Seq(STRING) /\ Len(<<>>) = 0
    /\ 1 \in 1..(Len(<<>>) + 1) /\ 0 \in 0..Len(<<>>)
<1>1. <<>> \in Seq(STRING) /\ Len(<<>>) = 0
  OBVIOUS
<1>2. 1 \in 1..(0 + 1) /\ 0 \in 0..0
  OBVIOUS
<1> QED
  BY <1>1, <1>2

\* No wildcard can always be counted.
LEMMA NoneIs == 0 \in 0..ParamLimit
  BY RoutesAssumed DEF RoutesAssumption

\* Register is over, with a tree that is settled.
LEMMA OverKeeps ==
    ASSUME TreeInv, NEW t, Over(t), Settled(t), panicked' = {} => Tight(t, Root, 0),
           outcome' \in {"none", "returned", "panic", "runtime error"},
           accepted' \subseteq Routes, panicked' \subseteq Routes
    PROVE  TreeInv'
<1>1. Tree(t) /\ Sorted(t) /\ Roomy(t) /\ OneWildcard(t, 0) /\ \E d : Deep(t, d)
  BY DEF Settled
<1>2. /\ nodes' = t /\ stage' = "idle" /\ full' = <<>> /\ node' = Root /\ path' = <<>>
      /\ numParams' = 0 /\ i' = 1 /\ offset' = 0 /\ empty' = FALSE /\ calls' = calls
  BY DEF Over
<1>3. 1 \in 1..Len(t) /\ 0 \in 0..ParamLimit
  <2>1. 1 \in 1..Len(t)
    BY <1>1, TreeIs
  <2>2. 0 \in 0..ParamLimit
    BY NoneIs
  <2> QED
    BY <2>1, <2>2
<1>4. Locals'
  <2>1. <<>> \in Seq(STRING) /\ 1 \in 1..(Len(<<>>) + 1) /\ 0 \in 0..Len(<<>>)
    BY EmptyIs
  <2>2. calls \in 0..MaxRegistrations
    BY DEF TreeInv, Locals
  <2> QED
    BY <1>2, <1>3, <2>1, <2>2 DEF Locals, Root
<1>5. Idling'
  BY <1>1, <1>2 DEF Idling
<1>6. ASSUME NEW d
      PROVE  Walking(d)' /\ Inserting(d)'
  BY <1>2 DEF Walking, Inserting
<1>7. (Tree(nodes) /\ Sorted(nodes) /\ Roomy(nodes))' /\ \E d : Deep(nodes, d)'
  BY <1>1, <1>2
<1> QED
  BY <1>4, <1>5, <1>6, <1>7 DEF TreeInv

\* It returns,
LEMMA ReturnsKeeps ==
    ASSUME TreeInv, NEW t, Returns(t), full \in Routes, Settled(t), panicked = {} => Tight(t, Root, 0)
    PROVE  TreeInv'
<1>1. /\ Over(t) /\ panicked' = panicked /\ accepted' = accepted \cup {full}
      /\ outcome' = "returned"
  BY DEF Returns
<1>2. accepted \subseteq Routes /\ panicked \subseteq Routes
  BY DEF TreeInv, Locals
<1> QED
  BY <1>1, <1>2, OverKeeps

\* or panics, after which there may be more room than is needed.
LEMMA PanicsKeeps ==
    ASSUME TreeInv, NEW t, NEW how \in {"panic", "runtime error"}, Panics(t, how), full \in Routes,
           Settled(t)
    PROVE  TreeInv'
<1>1. /\ Over(t) /\ accepted' = accepted /\ panicked' = panicked \cup {full}
      /\ outcome' = how
  BY DEF Panics
<1>2. accepted \subseteq Routes /\ panicked \subseteq Routes
  BY DEF TreeInv, Locals
<1> QED
  BY <1>1, <1>2, OverKeeps

\* Where the walk comes to.
Heading(t, m, rest, params, d) ==
    /\ Tree(t) /\ Sorted(t) /\ Roomy(t) /\ OneWildcard(t, 0) /\ Deep(t, d)
    /\ m \in 1..Len(t) /\ rest \in Seq(STRING) /\ params \in 0..ParamLimit
    /\ t[m].priority >= 1
    /\ IsWild(t[m]) =>
         /\ IsPrefix(t[m].path, rest)
         /\ Len(rest) > Len(t[m].path) => rest[Len(t[m].path) + 1] = "/"
         /\ params + 1 <= t[m].maxParams
    /\ params = Least(Cardinality(WildIn(rest, 1)) - Own(t[m]), ParamLimit - d[m])
    /\ \A a \in 2..Len(t) : m \in Kids(t[a]) =>
         Own(t[a]) + Own(t[m]) + params <= t[a].maxParams
    /\ panicked = {} => TightAbove(t, m, params)

\* The loop of addRoute goes on from there.
LEMMA WalkKeeps ==
    ASSUME TreeInv, stage = "walk", NEW t, NEW m, NEW rest, NEW params, NEW d,
           Walk(t, m, rest, params), Heading(t, m, rest, params, d)
    PROVE  TreeInv'
<1>1. /\ nodes' = t /\ node' = m /\ path' = rest /\ numParams' = params
      /\ stage' = "walk" /\ i' = i /\ offset' = offset /\ outcome' = outcome
      /\ full' = full /\ empty' = empty /\ accepted' = accepted /\ panicked' = panicked
      /\ calls' = calls
  BY DEF Walk, locals
<1>2. i = 1 /\ offset = 0 /\ full \in Routes
  BY DEF TreeInv, Walking
<1>3. Locals'
  <2>1. m \in 1..Len(t) /\ rest \in Seq(STRING) /\ params \in 0..ParamLimit
    BY DEF Heading
  <2>2. 1 \in 1..(Len(rest) + 1) /\ 0 \in 0..Len(rest)
    BY <2>1
  <2> QED
    BY <1>1, <1>2, <2>1, <2>2 DEF TreeInv, Locals
<1>4. Idling'
  BY <1>1 DEF Idling
<1>5. Walking(d)' 
  BY <1>1, <1>2 DEF Walking, Heading
<1>6. Inserting(d)'
  BY <1>1 DEF Inserting
<1>7. (Tree(nodes) /\ Sorted(nodes) /\ Roomy(nodes))' /\ Deep(nodes, d)'
  BY <1>1 DEF Heading
<1> QED
  BY <1>3, <1>4, <1>5, <1>6, <1>7 DEF TreeInv

-----------------------------------------------------------------------------
(* The actions of addRoute.                                                *)

\* The tree is settled in every turn of it.
LEMMA ComeSettled ==
    ASSUME NEW t, NEW d, Come(t, d)
    PROVE  Settled(t) /\ node \in 1..Len(t)
  BY DEF Come, Room, Settled

\* It stays settled when priorities or handlers change.
LEMMA SameSettled ==
    ASSUME NEW t, NEW u, Same(t, u), Sorted(u), Settled(t)
    PROVE  Settled(u)
  BY SameRoomy, SameOne, SameDeep DEF Settled, Same

\* The path ends at a node.
LEMMA LeafKeeps ==
    ASSUME TreeInv, Leaf
    PROVE  TreeInv'
<1>1. stage = "walk" /\ Rest = <<>> /\ full \in Routes
  BY DEF Leaf, TreeInv, Walking
<1>2. PICK d : Come(Opened, d)
  BY <1>1, OpenedIs
<1>3. Settled(Opened) /\ node \in 1..Len(Opened)
  BY <1>2, ComeSettled
<1>4. CASE Opened[node].handle # {}
  <2>1. Panics(Opened, "panic")
    BY <1>4 DEF Leaf
  <2> QED
    BY <1>1, <1>3, <2>1, PanicsKeeps
<1>5. CASE ~(Opened[node].handle # {})
  <2> DEFINE u == [Opened EXCEPT ![node].handle = {full}]
  <2>1. Returns(u)
    BY <1>5 DEF Leaf
  <2>2. Same(Opened, u) /\ Sorted(u)
    BY <1>1, <1>3, HandleKeeps DEF Settled
  <2> HIDE DEF u
  <2>3. Settled(u)
    BY <1>3, <2>2, SameSettled
  <2>4. numParams = 0
    <3>1. WildIn(Rest, 1) = {}
      BY <1>1 DEF WildIn
    <3>2. Cardinality(WildIn(Rest, 1)) = 0
      BY <3>1, FS_EmptySet
    <3>3. d[node] \in 0..ParamLimit /\ ParamLimit \in Nat
      BY <1>2, <1>3, TreeInvGives DEF Come, Deep
    <3> QED
      BY <1>2, <3>2, <3>3 DEF Come, Least
  <2>5. panicked = {} => Tight(u, Root, 0)
    <3>1. panicked = {} => Tight(Opened, node, 0)
      BY <1>2, <2>4 DEF Come, Room
    <3>2. Tree(u)
      BY <2>2 DEF Same
    <3> QED
      BY <2>2, <3>1, <3>2, SameTight, TightNone
  <2> QED
    BY <1>1, <2>1, <2>3, <2>5, ReturnsKeeps
<1> QED
  BY <1>4, <1>5

\* A step to a child that is no wildcard.
LEMMA DescentHeads ==
    ASSUME TreeInv, stage = "walk", NEW t, NEW d, Come(t, d), ~t[node].wildChild,
           NEW c \in Kids(t[node]), NEW u, Same(t, u), Sorted(u), u[c].priority >= 1
    PROVE  Heading(u, c, Rest, numParams, d)
<1>1. /\ Tree(t) /\ Typed(t) /\ Sorted(t) /\ Roomy(t) /\ OneWildcard(t, 0) /\ node \in 1..Len(t)
      /\ node # Root => Own(t[node]) + numParams <= t[node].maxParams
      /\ panicked = {} => Tight(t, node, numParams)
      /\ Deep(t, d) /\ Rest \in Seq(STRING)
      /\ numParams = Least(Cardinality(WildIn(Rest, 1)), ParamLimit - d[node])
  BY DEF Come, Room, Tree
<1>2. /\ Tree(u) /\ Kept(t, u) /\ Len(u) = Len(t) /\ Len(t) \in Nat
      /\ \A m \in 1..Len(t) : u[m].maxParams = t[m].maxParams
      /\ \A m \in 1..Len(t) : (IsWild(u[m]) <=> IsWild(t[m])) /\ Own(u[m]) = Own(t[m])
      /\ \A m \in 1..Len(t) : Kids(u[m]) = Kids(t[m])
  BY SameIs DEF Same, Kept
<1>3. Roomy(u) /\ OneWildcard(u, 0) /\ Deep(u, d)
  BY <1>1, SameRoomy, SameOne, SameDeep
<1>4. c \in 1..Len(t) /\ c \in 2..Len(t)
  BY <1>1, KidsIn
<1>5. ~IsWild(t[c]) /\ ~IsWild(u[c]) /\ Own(t[c]) = 0 /\ Own(u[c]) = 0
  BY <1>1, <1>2, <1>4 DEF Tree, Shaped, Own
<1>6. numParams \in 0..ParamLimit /\ numParams \in Nat
  BY TreeInvGives
<1>7. numParams = Least(Cardinality(WildIn(Rest, 1)) - Own(u[c]), ParamLimit - d[c])
  <2>1. d[c] = d[node] + 0 /\ d[node] \in 0..ParamLimit
    BY <1>1 DEF Deep, DeepAt
  <2>2. d[node] \in Int
    BY <2>1
  <2>3. d[c] = d[node]
    BY <2>1, <2>2
  <2>4. Cardinality(WildIn(Rest, 1)) \in Nat
    BY <1>1, WildInFinite
  <2>5. Cardinality(WildIn(Rest, 1)) - 0 = Cardinality(WildIn(Rest, 1))
    BY <2>4
  <2> QED
    BY <1>1, <1>5, <2>3, <2>5
<1>8. ASSUME NEW a \in 2..Len(t), c \in Kids(t[a])
      PROVE  Own(u[a]) + Own(u[c]) + numParams <= u[a].maxParams
  <2>1. a \in 1..Len(t) /\ a # Root
    BY <1>2 DEF Root
  <2>2. a = node
    BY <1>1, <1>8, <2>1 DEF Tree, OneParent
  <2>3. Own(t[node]) + numParams <= t[node].maxParams /\ Own(t[node]) \in Nat
    BY <1>1, <2>1, <2>2, OwnIs
  <2>4. Own(u[a]) = Own(t[node]) /\ u[a].maxParams = t[node].maxParams
    BY <1>2, <2>1, <2>2
  <2>5. Own(t[node]) + 0 + numParams = Own(t[node]) + numParams
    BY <2>3
  <2> QED
    BY <1>5, <2>3, <2>4, <2>5
<1>9. ASSUME panicked = {}
      PROVE  TightAbove(u, c, numParams)
  <2>1. Tight(u, node, numParams)
    BY <1>1, <1>9, SameTight
  <2> SUFFICES ASSUME NEW m \in 2..Len(u), m = node, u[m].maxParams <= Own(u[m]) + numParams
      PROVE  c \in Kids(u[m]) /\ u[m].maxParams <= Own(u[m]) + Own(u[c]) + numParams
    BY <2>1 DEF Tight, TightAbove
  <2>2. Own(u[m]) + 0 + numParams = Own(u[m]) + numParams
    BY <1>6, OwnIs
  <2> QED
    BY <1>1, <1>2, <1>5, <2>2
<1>10. IsWild(u[c]) => FALSE
  BY <1>5
<1> QED
  BY <1>1, <1>2, <1>3, <1>4, <1>6, <1>7, <1>8, <1>9, <1>10 DEF Heading

\* An only child has no sibling anywhere.
LEMMA OnlyChild ==
    ASSUME NEW t, Tree(t), NEW m \in 1..Len(t), Len(t[m].children) = 1
    PROVE  /\ t[m].children[1] \in Kids(t[m]) /\ t[m].children[1] \in 1..Len(t)
           /\ \A a \in 1..Len(t) : t[m].children[1] \in Kids(t[a]) => Len(t[a].children) = 1
<1>1. t[m].children[1] \in Kids(t[m]) /\ t[m].children[1] \in 1..Len(t)
  BY TreeIs, KidsIn
<1> QED
  BY <1>1 DEF Tree, OneParent

\* Its priority is raised.
LEMMA OnlyChildPrior ==
    ASSUME NEW t, Tree(t), Sorted(t), NEW m \in 1..Len(t), Len(t[m].children) = 1,
           NEW c, c = t[m].children[1]
    PROVE  /\ Same(t, AddPriority(t, c)) /\ Sorted(AddPriority(t, c))
           /\ AddPriority(t, c)[c].priority >= 1
<1>1. /\ c \in Kids(t[m]) /\ c \in 1..Len(t)
      /\ \A a \in 1..Len(t) : c \in Kids(t[a]) => Len(t[a].children) = 1
  BY OnlyChild
<1>2. /\ Altered(t, AddPriority(t, c), c, {"priority"})
      /\ AddPriority(t, c)[c].priority = t[c].priority + 1
  BY <1>1, PriorIs
<1>3. t[c].priority \in Nat
  <2>1. t[c] \in Node
    BY <1>1, TreeIs, KidsIn
  <2> QED
    BY <2>1, NodeFields
<1>4. AddPriority(t, c)[c].priority >= 1
  BY <1>2, <1>3
<1>5. Same(t, AddPriority(t, c)) /\ Sorted(AddPriority(t, c))
  BY <1>1, <1>2, PriorKeeps
<1> QED
  BY <1>4, <1>5

\* The slash after a parameter.
LEMMA WalkSlashKeeps ==
    ASSUME TreeInv, WalkSlash
    PROVE  TreeInv'
<1> DEFINE c == Opened[node].children[1]
           u == AddPriority(Opened, c)
<1>1. /\ stage = "walk" /\ ~Opened[node].wildChild /\ Len(Opened[node].children) = 1
      /\ Walk(u, c, Rest, numParams)
  BY DEF WalkSlash, SlashAfterParam
<1>2. PICK d : Come(Opened, d)
  BY <1>1, OpenedIs
<1>3. Tree(Opened) /\ Sorted(Opened) /\ node \in 1..Len(Opened)
  BY <1>2 DEF Come, Room
<1>4. c \in Kids(Opened[node])
  BY <1>1, <1>3, OnlyChild
<1> HIDE DEF c
<1>5. Same(Opened, u) /\ Sorted(u) /\ u[c].priority >= 1
  BY <1>1, <1>3, OnlyChildPrior DEF c
<1> HIDE DEF u
<1>6. Heading(u, c, Rest, numParams, d)
  BY <1>1, <1>2, <1>4, <1>5, DescentHeads
<1> QED
  BY <1>1, <1>6, WalkKeeps

\* incrementChildPrio leaves the routes as they are.
LEMMA OvertakesSame ==
    ASSUME NEW t, NEW u, NEW m \in 1..Len(t), NEW pos, NEW to, Tree(t), Sorted(t),
           Overtakes(t, u, m, pos, to)
    PROVE  Same(t, u) /\ Sorted(u)
<1>1. Kept(t, u) /\ Tree(u) /\ Sorted(u)
  BY OvertakesKept, OvertakesSorted
<1>2. \A a \in 1..Len(t) : u[a].path = t[a].path /\ u[a].maxParams = t[a].maxParams
  BY DEF Overtakes
<1> QED
  BY <1>1, <1>2 DEF Same

\* A step to the child with the next byte.
LEMMA WalkChildKeeps ==
    ASSUME TreeInv, WalkChild
    PROVE  TreeInv'
<1> DEFINE here == Opened[node]
           pos == Min(NextByte)
           c == here.children[pos]
           u == incrementChildPrio(Opened, node, pos)
<1>1. /\ stage = "walk" /\ ~here.wildChild /\ NextByte # {}
      /\ Walk(u, c, Rest, numParams)
  BY DEF WalkChild
<1>2. PICK d : Come(Opened, d)
  BY <1>1, OpenedIs
<1>3. Tree(Opened) /\ Sorted(Opened) /\ node \in 1..Len(Opened) /\ Typed(Opened)
  BY <1>2 DEF Come, Room, Tree
<1>4. /\ here \in Node /\ here.indices \in Seq(STRING) /\ Len(here.indices) \in Nat
      /\ Len(here.children) \in Nat
  <2>1. here \in Node /\ Len(here.children) \in Nat
    BY <1>3, KidsIn
  <2>2. here.indices \in Seq(STRING)
    BY <2>1, NodeFields
  <2> QED
    BY <2>1, <2>2
<1>5. pos \in 1..Len(here.indices)
  <2>1. NextByte \in SUBSET Nat
    BY <1>4 DEF NextByte
  <2>2. pos \in NextByte
    BY <1>1, <2>1, LeastOf
  <2> QED
    BY <1>4, <2>2 DEF NextByte
<1> HIDE DEF pos
<1>6. Len(here.indices) = Len(here.children)
  <2>1. ShapeOf(here)
    BY <1>3 DEF Tree, Shaped
  <2>2. CASE here.nType = "param"
    <3>1. Len(here.children) <= 1 /\ Len(here.indices) <= Len(here.children)
      BY <2>1, <2>2 DEF ShapeOf
    <3>2. Len(here.indices) >= 1
      BY <1>4, <1>5
    <3> QED
      BY <1>4, <3>1, <3>2
  <2>3. CASE here.nType # "param"
    BY <1>1, <2>1, <2>3 DEF ShapeOf
  <2> QED
    BY <2>2, <2>3
<1>7. pos \in 1..Len(here.children)
  BY <1>5, <1>6
<1>8. c \in Kids(here) /\ c \in 1..Len(Opened)
  BY <1>3, <1>7, KidsIn
<1> HIDE DEF u
<1>9. PICK to : Overtakes(Opened, u, node, pos, to)
  BY <1>3, <1>6, <1>7, IncrementIs DEF u
<1>10. Same(Opened, u) /\ Sorted(u)
  BY <1>3, <1>9, OvertakesSame
<1>11. u[c].priority >= 1
  <2>1. u[c].priority = Opened[c].priority + 1
    BY <1>8, <1>9 DEF Overtakes
  <2>2. Opened[c].priority \in Nat
    BY <1>3, <1>8, KidsIn, NodeFields
  <2> QED
    BY <2>1, <2>2
<1> HIDE DEF c
<1>12. Heading(u, c, Rest, numParams, d)
  BY <1>1, <1>2, <1>8, <1>10, <1>11, DescentHeads
<1> QED
  BY <1>1, <1>12, WalkKeeps

\* numParams-- does not wrap around where there is a wildcard to count.
LEMMA DecrementedIs ==
    ASSUME numParams \in 0..ParamLimit, numParams >= 1
    PROVE  Decremented = numParams - 1 /\ numParams - 1 \in 0..ParamLimit
<1>1. \A b \in Nat : \A a \in 0..b : a % (b + 1) = a
  <2> SUFFICES ASSUME NEW b \in Nat, NEW a \in 0..b
      PROVE  a % (b + 1) = a
    OBVIOUS
  <2> DEFINE quotient == a \div (b + 1)
  <2>1. a = (b + 1) * quotient + (a % (b + 1)) /\ quotient \in Nat /\ a % (b + 1) \in 0..b
    <3> DEFINE modulus == b + 1
    <3>1. modulus \in Nat /\ modulus >= 1 /\ a \in Nat
      OBVIOUS
    <3> HIDE DEF modulus
    <3>2. a = modulus * (a \div modulus) + (a % modulus) /\ a % modulus \in 0..(modulus - 1) /\ a \div modulus \in Nat
      BY <3>1
    <3> QED
      BY <3>2 DEF modulus
  <2> HIDE DEF quotient
  <2>2. quotient = 0
    <3>1. (b + 1) * quotient <= b
      BY <2>1
    <3> QED
      BY <2>1, <3>1
  <2> QED
    BY <2>1, <2>2
<1>2. ParamLimit \in Nat
  BY RoutesAssumed DEF RoutesAssumption
<1>3. numParams - 1 \in 0..ParamLimit
  BY <1>2
<1> QED
  BY <1>1, <1>2, <1>3 DEF Decremented

\* A step to a wildcard: what it takes of the room is counted off.
LEMMA WildcardHeads ==
    ASSUME TreeInv, stage = "walk", NEW t, NEW d, Come(t, d), t[node].wildChild,
           NEW c \in Kids(t[node]), NEW v, Same(t, v), Sorted(v), v[c].priority >= 1,
           NEW u, u = RaiseMaxParams(v, c),
           IsPrefix(t[c].path, Rest), Len(Rest) > Len(t[c].path) => Rest[Len(t[c].path) + 1] = "/"
    PROVE  Heading(u, c, Rest, Decremented, d)
<1>1. /\ Tree(t) /\ Typed(t) /\ Sorted(t) /\ Roomy(t) /\ OneWildcard(t, 0) /\ node \in 1..Len(t)
      /\ node # Root => Own(t[node]) + numParams <= t[node].maxParams
      /\ panicked = {} => Tight(t, node, numParams)
      /\ Deep(t, d) /\ Rest \in Seq(STRING)
      /\ numParams = Least(Cardinality(WildIn(Rest, 1)), ParamLimit - d[node])
  BY DEF Come, Room, Tree
<1>2. /\ Tree(v) /\ Kept(t, v) /\ Len(v) = Len(t) /\ Len(t) \in Nat
      /\ \A m \in 1..Len(t) : v[m].maxParams = t[m].maxParams /\ v[m].path = t[m].path
      /\ \A m \in 1..Len(t) : (IsWild(v[m]) <=> IsWild(t[m])) /\ Own(v[m]) = Own(t[m])
      /\ \A m \in 1..Len(t) : Kids(v[m]) = Kids(t[m])
  BY SameIs DEF Same, Kept
<1>3. Roomy(v) /\ OneWildcard(v, 0) /\ Deep(v, d)
  BY <1>1, SameRoomy, SameOne, SameDeep
<1>4. c \in 1..Len(t) /\ c \in 2..Len(t)
  BY <1>1, KidsIn
<1>5. /\ IsWild(t[c]) /\ Own(t[c]) = 1 /\ ~IsWild(t[node]) /\ Own(t[node]) = 0
  BY <1>1, <1>4 DEF Tree, Shaped, Own, IsWild
<1>6. /\ numParams \in 0..ParamLimit /\ numParams \in Nat /\ ParamLimit \in Nat /\ ParamLimit >= 1
  BY TreeInvGives
<1>7. /\ Altered(v, u, c, {"maxParams"})
      /\ u[c].maxParams = IF v[c].maxParams <= numParams THEN numParams ELSE v[c].maxParams
  BY <1>2, <1>4, <1>6, RaisedIs
<1>8. /\ Kept(v, u) /\ Unmoved(v, u) /\ Tree(u) /\ Len(u) = Len(t)
      /\ \A m \in 1..Len(t) : u[m].path = t[m].path
  <2>1. c \in 1..Len(v) /\ Altered(v, u, c, {"priority", "maxParams"})
    BY <1>2, <1>4, <1>7, AlteredLess
  <2>2. /\ Kept(v, u) /\ Unmoved(v, u) /\ Tree(u)
        /\ \A m \in 1..Len(v) : u[m].path = v[m].path
    BY <1>2, <2>1, AlteredKept
  <2> QED
    BY <1>2, <2>2 DEF Kept
<1>9. /\ \A m \in 1..Len(t) : u[m].priority = v[m].priority
      /\ \A m \in 1..Len(t) : m # c => u[m].maxParams = v[m].maxParams
  BY <1>2, <1>7 DEF Altered, SameBut
<1>10. /\ \A m \in 1..Len(t) : (IsWild(u[m]) <=> IsWild(t[m])) /\ Own(u[m]) = Own(t[m])
       /\ \A m \in 1..Len(t) : Kids(u[m]) = Kids(t[m])
  <2>1. \A m \in 1..Len(t) : (IsWild(u[m]) <=> IsWild(v[m])) /\ Own(u[m]) = Own(v[m])
    BY <1>2, <1>8, KeptTypes
  <2>2. \A m \in 1..Len(t) : Kids(u[m]) = Kids(v[m])
    BY <1>2, <1>8 DEF Kept
  <2> QED
    BY <1>2, <2>1, <2>2
<1>11. \A m \in 1..Len(t) : v[m].maxParams \in Nat /\ u[m].maxParams \in Nat
  BY <1>2, <1>8, KeptMaxParams
<1>12. \A m \in 2..Len(t) : m \in 1..Len(t) /\ m # Root
  BY <1>2 DEF Root
<1>13. v[c].maxParams <= u[c].maxParams /\ numParams <= u[c].maxParams
  BY <1>4, <1>6, <1>7, <1>11
<1>14. Sorted(u)
  <2>1. \A m \in 1..Len(v) : 0 \notin Kids(v[m])
    BY <1>2, TreeIs, KidsIn
  <2> QED
    BY <1>2, <1>8, <1>9, <2>1, KeptSorted
<1>15. \A a \in 1..Len(t) : c \in Kids(t[a]) => a = node
  BY <1>1 DEF Tree, OneParent
<1>16. Roomy(u)
  <2>1. ASSUME NEW m \in 2..Len(v), c \in Kids(v[m])
        PROVE  Own(v[m]) + u[c].maxParams <= v[m].maxParams
    <3>1. m \in 1..Len(t) /\ m = node /\ m # Root
      BY <1>2, <1>12, <1>15, <2>1
    <3>2. 0 + numParams <= v[m].maxParams /\ Own(v[m]) = 0
      BY <1>1, <1>2, <1>5, <3>1
    <3>3. Own(v[m]) + v[c].maxParams <= v[m].maxParams
      BY <1>3, <2>1 DEF Roomy, RoomyAt
    <3>4. v[c].maxParams \in Nat /\ v[m].maxParams \in Nat
      BY <1>4, <1>11, <3>1
    <3> QED
      BY <1>6, <1>7, <3>2, <3>3, <3>4
  <2> QED
    BY <1>2, <1>3, <1>4, <1>8, <1>9, <1>13, <2>1, KeptRoomy
<1>17. OneWildcard(u, 0) /\ Deep(u, d)
  <2>1. OneWildcard(u, 0)
    BY <1>1, <1>8, <1>10 DEF OneWildcard
  <2>2. \A m \in 1..Len(v) : u[m].path = v[m].path
    BY <1>2, <1>8
  <2>3. Deep(u, d)
    BY <1>2, <1>3, <1>8, <2>2, KeptDeep
  <2> QED
    BY <2>1, <2>3
<1>18. WildIn(Rest, 1) # {}
  <2>1. OneIn(t[c].path) /\ t[c].path \in Seq(STRING)
    <3>1. c # 0 /\ t[c] \in Node
      BY <1>1, <1>4, KidsIn
    <3> QED
      BY <1>1, <1>4, <1>5, <3>1, NodeFields DEF OneWildcard
  <2>2. PICK k \in 1..Len(t[c].path) : t[c].path[k] \in Wild
    BY <2>1 DEF OneIn
  <2>3. Len(t[c].path) <= Len(Rest) /\ \A j \in 1..Len(t[c].path) : t[c].path[j] = Rest[j]
    BY <1>1, <2>1, PrefixIs
  <2>4. Len(t[c].path) \in Nat /\ Len(Rest) \in Nat
    BY <1>1, <2>1
  <2>5. k \in 1..Len(Rest) /\ Rest[k] \in Wild
    BY <2>2, <2>3, <2>4
  <2> QED
    BY <2>5 DEF WildIn
<1>19. Cardinality(WildIn(Rest, 1)) \in Nat /\ Cardinality(WildIn(Rest, 1)) >= 1
  <2>1. Cardinality(WildIn(Rest, 1)) \in Nat /\ Cardinality(WildIn(Rest, 1)) # 0
    BY <1>1, <1>18, WildInFinite
  <2> QED
    BY <2>1
<1>20. d[c] = d[node] + 1 /\ d[node] \in 0..ParamLimit /\ d[c] \in 0..ParamLimit
  <2>1. d[c] = d[node] + 1
    BY <1>1 DEF Deep, DeepAt
  <2> QED
    BY <1>1, <1>4, <2>1 DEF Deep
<1> DEFINE all == Cardinality(WildIn(Rest, 1))
<1> HIDE DEF all
<1>21. numParams >= 1
  BY <1>1, <1>6, <1>19, <1>20 DEF Least, all
<1>22. Decremented = numParams - 1 /\ numParams - 1 \in 0..ParamLimit
  BY <1>6, <1>21, DecrementedIs
<1>23. numParams - 1 = Least(Cardinality(WildIn(Rest, 1)) - Own(u[c]), ParamLimit - d[c])
  <2>1. Own(u[c]) = 1
    BY <1>4, <1>5, <1>10
  <2> QED
    BY <1>1, <1>6, <1>19, <1>20, <2>1 DEF Least, all
<1>24. ASSUME NEW a \in 2..Len(u), c \in Kids(u[a])
       PROVE  Own(u[a]) + Own(u[c]) + (numParams - 1) <= u[a].maxParams
  <2>1. a \in 1..Len(t) /\ a = node /\ a # Root
    BY <1>8, <1>10, <1>12, <1>15, <1>24
  <2>2. Own(u[a]) = 0 /\ Own(u[c]) = 1
    BY <1>4, <1>5, <1>10, <2>1
  <2>3. numParams <= t[node].maxParams
    BY <1>1, <1>5, <1>6, <2>1
  <2>4. t[node].maxParams <= u[node].maxParams /\ t[node].maxParams \in Nat /\ u[node].maxParams \in Nat
    BY <1>1, <1>2, <1>4, <1>9, <1>11, <1>13
  <2> QED
    BY <1>6, <2>1, <2>2, <2>3, <2>4
<1>25. ASSUME panicked = {}
       PROVE  TightAbove(u, c, numParams - 1)
  <2>1. Tight(v, node, numParams)
    BY <1>1, <1>25, SameTight
  <2> SUFFICES ASSUME NEW m \in 2..Len(u)
      PROVE  \/ Needed(u, m)
             \/ m = c /\ u[m].maxParams <= Own(u[m]) + (numParams - 1)
             \/ c \in Kids(u[m]) /\ u[m].maxParams <= Own(u[m]) + Own(u[c]) + (numParams - 1)
    BY DEF TightAbove
  <2>2. m \in 1..Len(t)
    BY <1>8, <1>12
  <2>3. \A a \in 1..Len(v) : v[a].maxParams <= u[a].maxParams
    <3>1. \A a \in 1..Len(v) : a # c => v[a].maxParams <= u[a].maxParams
      BY <1>2, <1>9, <1>11
    <3> QED
      BY <1>13, <3>1
  <2>4. Own(u[c]) = 1 /\ Own(u[node]) = 0
    BY <1>1, <1>4, <1>5, <1>10
  <2>5. CASE m = c /\ u[c].maxParams = numParams
    <3>1. u[m].maxParams <= Own(u[m]) + (numParams - 1)
      BY <1>6, <2>4, <2>5
    <3> QED
      BY <2>5, <3>1
  <2>6. CASE Needed(v, m) /\ u[m].maxParams = v[m].maxParams
    BY <1>2, <1>8, <2>2, <2>3, <2>6, KeptNeeded
  <2>7. CASE m = node /\ v[m].maxParams <= Own(v[m]) + numParams /\ u[m].maxParams = v[m].maxParams
    <3>1. c \in Kids(u[m])
      BY <1>1, <1>10, <2>7
    <3>2. u[m].maxParams <= Own(u[m]) + Own(u[c]) + (numParams - 1)
      <4>1. u[m].maxParams <= 0 + numParams
        BY <1>1, <1>2, <1>5, <2>7
      <4>2. 0 + 1 + (numParams - 1) = 0 + numParams
        BY <1>6
      <4> QED
        BY <2>4, <2>7, <4>1, <4>2
    <3> QED
      BY <3>1, <3>2
  <2>8. u[m].maxParams = v[m].maxParams \/ (m = c /\ u[c].maxParams = numParams)
    BY <1>7, <1>9, <2>2
  <2>9. Needed(v, m) \/ (m = node /\ v[m].maxParams <= Own(v[m]) + numParams)
    BY <1>2, <1>8, <2>1 DEF Tight
  <2> QED
    BY <2>5, <2>6, <2>7, <2>8, <2>9
<1>26. u[c].priority >= 1
  BY <1>4, <1>9
<1>27. /\ IsPrefix(u[c].path, Rest)
       /\ Len(Rest) > Len(u[c].path) => Rest[Len(u[c].path) + 1] = "/"
  BY <1>4, <1>8
<1>28. (numParams - 1) + 1 <= u[c].maxParams
  BY <1>6, <1>13
<1>29. c \in 1..Len(u)
  BY <1>4, <1>8
<1> HIDE DEF Decremented
<1>30. Heading(u, c, Rest, numParams - 1, d)
  BY <1>1, <1>8, <1>14, <1>16, <1>17, <1>22, <1>23, <1>24, <1>25, <1>26, <1>27, <1>28, <1>29
     DEF Heading
<1> QED
  BY <1>22, <1>30

\* Whatever becomes of it, a raised child leaves the tree as good as it was.
LEMMA RaisedSettled ==
    ASSUME TreeInv, stage = "walk", NEW t, NEW d, Come(t, d), t[node].wildChild,
           NEW c \in Kids(t[node]), NEW v, Same(t, v), Sorted(v)
    PROVE  Settled(RaiseMaxParams(v, c))
<1>1. /\ Tree(t) /\ Typed(t) /\ Roomy(t) /\ OneWildcard(t, 0) /\ node \in 1..Len(t)
      /\ node # Root => Own(t[node]) + numParams <= t[node].maxParams
      /\ Deep(t, d)
  BY DEF Come, Room, Tree
<1>2. /\ Tree(v) /\ Kept(t, v) /\ Len(v) = Len(t) /\ Len(t) \in Nat
      /\ \A m \in 1..Len(t) : v[m].maxParams = t[m].maxParams
      /\ \A m \in 1..Len(t) : Own(v[m]) = Own(t[m])
      /\ \A m \in 1..Len(t) : Kids(v[m]) = Kids(t[m])
  BY SameIs DEF Same, Kept
<1>3. Roomy(v) /\ OneWildcard(v, 0) /\ Deep(v, d)
  BY <1>1, SameRoomy, SameOne, SameDeep
<1>4. c \in 1..Len(t)
  BY <1>1, KidsIn
<1>5. numParams \in 0..ParamLimit /\ numParams \in Nat
  BY TreeInvGives
<1> DEFINE u == RaiseMaxParams(v, c)
<1>6. /\ Altered(v, u, c, {"maxParams"})
      /\ u[c].maxParams = IF v[c].maxParams <= numParams THEN numParams ELSE v[c].maxParams
  BY <1>2, <1>4, <1>5, RaisedIs
<1> HIDE DEF u
<1>7. /\ Kept(v, u) /\ Unmoved(v, u) /\ Tree(u) /\ Len(u) = Len(v)
      /\ \A m \in 1..Len(v) : u[m].path = v[m].path
  <2>1. c \in 1..Len(v) /\ Altered(v, u, c, {"priority", "maxParams"})
    BY <1>2, <1>4, <1>6, AlteredLess
  <2>2. /\ Kept(v, u) /\ Unmoved(v, u) /\ Tree(u)
        /\ \A m \in 1..Len(v) : u[m].path = v[m].path
    BY <1>2, <2>1, AlteredKept
  <2> QED
    BY <2>2 DEF Kept
<1>8. /\ \A m \in 1..Len(v) : u[m].priority = v[m].priority
      /\ \A m \in 1..Len(v) : m # c => u[m].maxParams = v[m].maxParams
  BY <1>6 DEF Altered, SameBut
<1>9. \A m \in 1..Len(v) : IsWild(u[m]) <=> IsWild(v[m])
  BY <1>2, <1>7, KeptTypes
<1>10. \A m \in 1..Len(v) : v[m].maxParams \in Nat /\ u[m].maxParams \in Nat
  BY <1>2, <1>7, KeptMaxParams
<1>11. Sorted(u)
  <2>1. \A m \in 1..Len(v) : 0 \notin Kids(v[m])
    BY <1>2, TreeIs, KidsIn
  <2> QED
    BY <1>2, <1>7, <1>8, <2>1, KeptSorted
<1>12. v[c].maxParams <= u[c].maxParams
  BY <1>2, <1>4, <1>5, <1>6, <1>10
<1>13. Roomy(u)
  <2>1. ASSUME NEW m \in 2..Len(v), c \in Kids(v[m])
        PROVE  Own(v[m]) + u[c].maxParams <= v[m].maxParams
    <3>1. m \in 1..Len(t) /\ m # Root
      BY <1>2 DEF Root
    <3>2. m = node
      BY <1>1, <1>2, <2>1, <3>1 DEF Tree, OneParent
    <3>3. Own(v[m]) + numParams <= v[m].maxParams
      BY <1>1, <1>2, <3>1, <3>2
    <3>4. Own(v[m]) + v[c].maxParams <= v[m].maxParams
      BY <1>3, <2>1 DEF Roomy, RoomyAt
    <3> QED
      BY <1>6, <3>3, <3>4
  <2> QED
    BY <1>2, <1>3, <1>4, <1>7, <1>8, <1>12, <2>1, KeptRoomy
<1>14. OneWildcard(u, 0)
  BY <1>3, <1>7, <1>9 DEF OneWildcard
<1>15. Deep(u, d)
  BY <1>2, <1>3, <1>7, KeptDeep
<1>16. Settled(u)
  BY <1>7, <1>11, <1>13, <1>14, <1>15 DEF Settled
<1> QED
  BY <1>16 DEF u

\* A step to a wildcard, or its refusal.
LEMMA WalkWildcardKeeps ==
    ASSUME TreeInv, WalkWildcard
    PROVE  TreeInv'
<1> DEFINE c == Opened[node].children[1]
           v == AddPriority(Opened, c)
           u == RaiseMaxParams(v, c)
<1>1. /\ stage = "walk" /\ Opened[node].wildChild
      /\ \/ SameWildcard(u[c].path) /\ Walk(u, c, Rest, Decremented)
         \/ Panics(u, "panic")
  BY DEF WalkWildcard
<1>2. PICK d : Come(Opened, d)
  BY <1>1, OpenedIs
<1>3. Tree(Opened) /\ Sorted(Opened) /\ node \in 1..Len(Opened)
  BY <1>2 DEF Come, Room
<1>4. Len(Opened[node].children) = 1
  BY <1>1, <1>3 DEF Tree, Shaped, ShapeOf
<1>5. c \in Kids(Opened[node]) /\ c \in 1..Len(Opened)
  BY <1>3, <1>4, OnlyChild
<1> HIDE DEF c
<1>6. Same(Opened, v) /\ Sorted(v) /\ v[c].priority >= 1
  BY <1>3, <1>4, OnlyChildPrior DEF c
<1> HIDE DEF v
<1>7. u[c].path = Opened[c].path
  <2>1. Tree(v) /\ c \in 1..Len(v) /\ v[c].path = Opened[c].path
    BY <1>5, <1>6, SameIs DEF Same
  <2>2. u[c].path = v[c].path
    BY <2>1, RaisedIs, AlteredKept, AlteredLess, TreeInvGives
  <2> QED
    BY <2>1, <2>2
<1>8. CASE SameWildcard(u[c].path) /\ Walk(u, c, Rest, Decremented)
  <2>1. /\ IsPrefix(Opened[c].path, Rest)
        /\ Len(Rest) > Len(Opened[c].path) => Rest[Len(Opened[c].path) + 1] = "/"
    BY <1>7, <1>8 DEF SameWildcard
  <2>2. Heading(u, c, Rest, Decremented, d)
    BY <1>1, <1>2, <1>5, <1>6, <2>1, WildcardHeads
  <2> QED
    BY <1>1, <1>8, <2>2, WalkKeeps
<1>9. CASE Panics(u, "panic")
  <2>1. full \in Routes
    BY <1>1 DEF TreeInv, Walking
  <2>2. Settled(u)
    BY <1>1, <1>2, <1>5, <1>6, RaisedSettled
  <2> QED
    BY <1>9, <2>1, <2>2, PanicsKeeps
<1> QED
  BY <1>1, <1>8, <1>9

-----------------------------------------------------------------------------
(* Register begins.                                                        *)

\* countParams counts the wildcards up to the limit.
LEMMA CountedIs ==
    ASSUME NEW s \in Seq(STRING)
    PROVE  countParams(s) = Least(Cardinality(WildIn(s, 1)), ParamLimit)
           /\ countParams(s) \in 0..ParamLimit
<1> DEFINE all == Cardinality(WildIn(s, 1))
<1>1. {j \in DOMAIN s : s[j] \in Wild} = WildIn(s, 1)
  BY DEF WildIn
<1>2. countParams(s) = Min({ParamLimit, all})
  BY <1>1 DEF countParams
<1>3. all \in Nat
  BY WildInFinite
<1>4. ParamLimit \in Nat
  BY RoutesAssumed DEF RoutesAssumption
<1> HIDE DEF all
<1>5. Min({ParamLimit, all}) = IF ParamLimit <= all THEN ParamLimit ELSE all
  BY <1>3, <1>4, SmallerOf
<1>6. countParams(s) = Least(all, ParamLimit) /\ countParams(s) \in 0..ParamLimit
  BY <1>2, <1>3, <1>4, <1>5 DEF Least
<1> QED
  BY <1>6 DEF all

\* A route is registered, in an empty tree or one that is not.
LEMMA RegisterKeeps ==
    ASSUME TreeInv, NEW route \in Routes, Register(route)
    PROVE  TreeInv'
<1> DEFINE u == AddPriority(nodes, Root)
           k == countParams(route)
<1>1. /\ stage = "idle" /\ calls < MaxRegistrations /\ nodes' = u
      /\ empty' = (nodes[Root].path = <<>> /\ nodes[Root].children = <<>>)
      /\ stage' = (IF empty' THEN "insert" ELSE "walk")
      /\ full' = route /\ node' = Root /\ path' = route /\ numParams' = k /\ i' = 1 /\ offset' = 0
      /\ calls' = calls + 1 /\ outcome' = outcome /\ accepted' = accepted /\ panicked' = panicked
  BY DEF Register
<1>2. /\ Tree(nodes) /\ Typed(nodes) /\ Sorted(nodes) /\ Roomy(nodes) /\ Len(nodes) \in Nat
      /\ Root \in 1..Len(nodes) /\ ParamLimit \in Nat
  BY TreeInvGives, TreeIs
<1>3. OneWildcard(nodes, 0) /\ (panicked = {} => Tight(nodes, Root, 0))
  BY <1>1 DEF TreeInv, Idling
<1>4. route \in Seq(STRING)
  BY RoutesAssumed DEF RoutesAssumption
<1>5. k = Least(Cardinality(WildIn(route, 1)), ParamLimit) /\ k \in 0..ParamLimit
  BY <1>4, CountedIs
<1>6. /\ Altered(nodes, u, Root, {"priority"})
      /\ u[Root].priority = nodes[Root].priority + 1
  BY <1>2, PriorIs
<1> HIDE DEF u, k
<1>7. \A m \in 1..Len(nodes) : Root \notin Kids(nodes[m])
  BY <1>2, KidsIn
<1>8. Same(nodes, u) /\ Sorted(u)
  BY <1>2, <1>6, <1>7, PriorKeeps
<1>9. /\ Tree(u) /\ Roomy(u) /\ OneWildcard(u, 0) /\ (panicked = {} => Tight(u, Root, 0))
  BY <1>2, <1>3, <1>8, SameRoomy, SameOne, SameTight DEF Same
<1>10. PICK d : Deep(nodes, d)
  BY DEF TreeInv
<1>11. Deep(u, d) /\ d[Root] = 0
  BY <1>8, <1>10, SameDeep DEF Deep
<1>12. u[Root].priority >= 1
  <2>1. nodes[Root].priority \in Nat
    BY <1>2, KidsIn, NodeFields
  <2> QED
    BY <1>6, <2>1
<1>13. ~IsWild(u[Root]) /\ Own(u[Root]) = 0
  BY <1>9 DEF Tree, Shaped, IsWild, Own
<1>14. /\ k = Least(Cardinality(WildIn(route, 1)), ParamLimit - d[Root])
       /\ k = Least(Cardinality(WildIn(route, 1)) - Own(u[Root]), ParamLimit - d[Root])
  <2>1. Cardinality(WildIn(route, 1)) \in Nat
    BY <1>4, WildInFinite
  <2>2. ParamLimit - d[Root] = ParamLimit
    BY <1>2, <1>11
  <2>3. Cardinality(WildIn(route, 1)) - Own(u[Root]) = Cardinality(WildIn(route, 1))
    BY <1>13, <2>1
  <2> QED
    BY <1>5, <2>2, <2>3
<1>15. Len(u) = Len(nodes) /\ \A m \in 2..Len(u) : m \in 1..Len(u) /\ m # Root
  BY <1>2, <1>8, SameIs DEF Root
<1>16. panicked = {} => Tight(u, Root, k) /\ TightAbove(u, Root, k)
  BY <1>9, <1>15 DEF Tight, TightAbove
<1>17. Locals'
  <2>1. 1 \in 1..(Len(route) + 1) /\ 0 \in 0..Len(route)
    BY <1>4
  <2>2. calls + 1 \in 0..MaxRegistrations
    <3>1. calls \in 0..MaxRegistrations
      BY DEF TreeInv, Locals
    <3>2. MaxRegistrations \in Nat
      BY RoutesAssumed DEF RoutesAssumption
    <3> QED
      BY <1>1, <3>1, <3>2
  <2>3. empty' \in BOOLEAN /\ stage' \in {"idle", "walk", "insert"}
    BY <1>1
  <2>4. Root \in 1..Len(u)
    BY <1>2, <1>15
  <2> QED
    BY <1>1, <1>4, <1>5, <2>1, <2>2, <2>3, <2>4 DEF TreeInv, Locals
<1>18. Idling'
  BY <1>1 DEF Idling
<1>19. Walking(d)'
  <2>1. \A m \in 2..Len(u) : Root \notin Kids(u[m])
    BY <1>9, <1>15, TreeIs, KidsIn
  <2> QED
    BY <1>1, <1>9, <1>12, <1>13, <1>14, <1>16, <2>1 DEF Walking
<1>20. ASSUME stage' = "insert"
       PROVE  ~u[Root].wildChild
  <2>1. nodes[Root].children = <<>>
    BY <1>1, <1>20
  <2>2. Len(nodes[Root].children) # 1
    BY <2>1
  <2>3. ~nodes[Root].wildChild
    BY <1>2, <2>2 DEF Tree, Shaped, ShapeOf
  <2> QED
    BY <1>2, <1>8, <2>3 DEF Same, Kept
<1>21. Inserting(d)'
  <2>1. OneWildcard(u, Root)
    BY <1>9, <1>13 DEF OneWildcard
  <2>2. 0 >= 1 - 1
    OBVIOUS
  <2> QED
    BY <1>1, <1>13, <1>14, <1>16, <1>20, <2>1, <2>2 DEF Inserting
<1> QED
  BY <1>1, <1>8, <1>9, <1>11, <1>17, <1>18, <1>19, <1>21 DEF TreeInv
-----------------------------------------------------------------------------
(* From addRoute to insertChild.                                           *)

\* Where insertChild comes to.
Placing(t, m, rest, params, k, o, d) ==
    /\ Tree(t) /\ Sorted(t) /\ Roomy(t) /\ Deep(t, d) /\ OneWildcard(t, m)
    /\ m \in 1..Len(t) /\ rest \in Seq(STRING) /\ params \in 0..ParamLimit
    /\ k \in 1..(Len(rest) + 1) /\ o \in 0..Len(rest)
    /\ k = 1 => o = 0
    /\ ~t[m].wildChild
    /\ IF IsWild(t[m])
       THEN k >= 2 /\ o = k - 2 /\ rest[k - 1] \in Wild /\ WildIn(rest, k) = {}
       ELSE o >= k - 1
    /\ params = Least(Cardinality(WildIn(rest, k)), ParamLimit - d[m])
    /\ m # Root => Own(t[m]) + params <= t[m].maxParams
    /\ panicked = {} => Tight(t, m, params)

\* insertChild begins or goes on there.
LEMMA PlaceKeeps ==
    ASSUME TreeInv, full \in Routes, NEW t, NEW m, NEW rest, NEW params, NEW k, NEW o, NEW d,
           nodes' = t, node' = m, path' = rest, numParams' = params, i' = k, offset' = o,
           stage' = "insert", UNCHANGED <<locals, outcome>>,
           Placing(t, m, rest, params, k, o, d)
    PROVE  TreeInv'
<1>1. /\ full' = full /\ empty' = empty /\ accepted' = accepted /\ panicked' = panicked
      /\ calls' = calls /\ outcome' = outcome
  BY DEF locals
<1>2. Locals'
  BY <1>1 DEF TreeInv, Locals, Placing
<1>3. Idling' /\ Walking(d)'
  BY DEF Idling, Walking
<1>4. Inserting(d)'
  BY <1>1 DEF Inserting, Placing
<1>5. (Tree(nodes) /\ Sorted(nodes) /\ Roomy(nodes))' /\ Deep(nodes, d)'
  BY DEF Placing
<1> QED
  BY <1>2, <1>3, <1>4, <1>5 DEF TreeInv

\* A node that is new.
LEMMA NoneOf ==
    /\ <<>> \in Seq(STRING) /\ <<>> \in Seq(Nat) /\ {} \in Handlers
    /\ 0 \in 0..ParamLimit /\ 1 \in 0..ParamLimit
  BY RoutesAssumed DEF Handlers, RoutesAssumption

\* &node{}.
LEMMA NewNodeIs ==
    /\ NewNode \in Node
    /\ NewNode.path = <<>> /\ NewNode.nType = "static" /\ ~NewNode.wildChild
    /\ NewNode.children = <<>> /\ NewNode.indices = <<>> /\ NewNode.priority = 0
<1>1. NewNode \in Node
  BY NoneOf DEF NewNode, Node
<1>2. /\ NewNode.path = <<>> /\ NewNode.nType = "static" /\ ~NewNode.wildChild
      /\ NewNode.children = <<>> /\ NewNode.indices = <<>> /\ NewNode.priority = 0
  BY DEF NewNode
<1> QED
  BY <1>1, <1>2

\* A node with other children and indices.
ChildAdded(e, ni, nc) == [e EXCEPT !.indices = ni, !.children = nc]

\* Only its children and indices are other ones.
LEMMA ChildAddedIs ==
    ASSUME NEW e \in Node, NEW ni \in Seq(STRING), NEW nc \in Seq(Nat)
    PROVE  /\ SameBut(e, ChildAdded(e, ni, nc), {"indices", "children"})
           /\ ChildAdded(e, ni, nc).indices = ni /\ ChildAdded(e, ni, nc).children = nc
<1> DEFINE f == ChildAdded(e, ni, nc)
<1>1. f \in Node
  BY DEF Node, ChildAdded
<1>2. f.indices = ni /\ f.children = nc
  BY DEF Node, ChildAdded
<1>3. /\ f.path = e.path /\ f.wildChild = e.wildChild /\ f.nType = e.nType
      /\ f.maxParams = e.maxParams /\ f.priority = e.priority
  BY DEF Node, ChildAdded
<1> QED
  BY <1>1, <1>2, <1>3 DEF SameBut

\* x has got one more child, the last one.
Sprouted(t, u, x, k) ==
    /\ u \in Seq(Node) /\ Len(u) = Len(t) + 1
    /\ \A m \in 1..Len(t) : m # x => u[m] = t[m]
    /\ SameBut(t[x], u[x], {"indices", "children"})
    /\ Len(u[x].indices) = Len(t[x].indices) + 1
    /\ Len(u[x].children) = Len(t[x].children) + 1
    /\ u[x].children[Len(t[x].children) + 1] = Len(t) + 1
    /\ \A j \in 1..Len(t[x].children) : u[x].children[j] = t[x].children[j]
    /\ u[Len(t) + 1].path = <<>> /\ u[Len(t) + 1].nType = "static" /\ ~u[Len(t) + 1].wildChild
    /\ u[Len(t) + 1].children = <<>> /\ u[Len(t) + 1].indices = <<>>
    /\ u[Len(t) + 1].maxParams = k /\ u[Len(t) + 1].priority = 0

\* This is what addRoute does before insertChild.
LEMMA SproutIs ==
    ASSUME NEW t, Tree(t), NEW x \in 1..Len(t), NEW k \in 0..ParamLimit, NEW b \in STRING
    PROVE  Sprouted(t, Append([t EXCEPT ![x].indices = Append(@, b),
                                        ![x].children = Append(@, Len(t) + 1)],
                              [NewNode EXCEPT !.maxParams = k]), x, k)
<1> DEFINE new == Len(t) + 1
           ni == Append(t[x].indices, b)
           nc == Append(t[x].children, new)
           f == ChildAdded(t[x], ni, nc)
           e == [NewNode EXCEPT !.maxParams = k]
           q == [t EXCEPT ![x] = f]
           u == Append(q, e)
<1>1. t \in Seq(Node) /\ t[x] \in Node /\ Len(t) \in Nat /\ new \in Nat
  BY TreeIs, KidsIn
<1>2. t[x].indices \in Seq(STRING) /\ t[x].children \in Seq(Nat)
  BY <1>1, NodeFields
<1>3. ni \in Seq(STRING) /\ Len(ni) = Len(t[x].indices) + 1
  BY <1>2, AppendIs
<1>4. /\ nc \in Seq(Nat) /\ Len(nc) = Len(t[x].children) + 1 /\ nc[Len(t[x].children) + 1] = new
      /\ \A j \in 1..Len(t[x].children) : nc[j] = t[x].children[j]
  <2>1. new \in Nat /\ t[x].children \in Seq(Nat)
    BY <1>1, <1>2
  <2> HIDE DEF new
  <2> QED
    BY <2>1, AppendIs
<1>5. [t EXCEPT ![x].indices = Append(@, b), ![x].children = Append(@, new)] = q
  BY <1>1 DEF ChildAdded
<1> HIDE DEF ni, nc
<1>6. SameBut(t[x], f, {"indices", "children"}) /\ f.indices = ni /\ f.children = nc
  <2>1. t[x] \in Node /\ ni \in Seq(STRING) /\ nc \in Seq(Nat)
    BY <1>1, <1>3, <1>4
  <2> QED
    BY <2>1, ChildAddedIs
<1>7. /\ e \in Node /\ e.path = <<>> /\ e.nType = "static" /\ ~e.wildChild
      /\ e.children = <<>> /\ e.indices = <<>> /\ e.maxParams = k /\ e.priority = 0
  <2>1. SameBut(NewNode, e, {"maxParams"}) /\ e.maxParams = k
    BY NewNodeIs, WithMaxParams
  <2> HIDE DEF e
  <2> QED
    BY <2>1, NewNodeIs DEF SameBut
<1> HIDE DEF e, f
<1>8. /\ q \in Seq(Node) /\ Len(q) = Len(t) /\ q[x] = f
      /\ \A m \in 1..Len(t) : m # x => q[m] = t[m]
  BY <1>1, <1>6 DEF SameBut
<1>9. /\ u \in Seq(Node) /\ Len(u) = Len(q) + 1 /\ u[Len(q) + 1] = e
      /\ \A m \in 1..Len(q) : u[m] = q[m]
  <2>1. q \in Seq(Node) /\ e \in Node
    BY <1>7, <1>8
  <2> HIDE DEF q
  <2> QED
    BY <2>1, AppendIs
<1> HIDE DEF u, q
<1>10. Sprouted(t, u, x, k)
  BY <1>3, <1>4, <1>6, <1>7, <1>8, <1>9 DEF Sprouted, new
<1> QED
  BY <1>5, <1>10 DEF u, new, e

\* A node that addRoute may give one more child.
Fertile(e) ==
    /\ ~e.wildChild /\ Len(e.indices) = Len(e.children)
    /\ e.nType = "param" => Len(e.children) = 0

Outgrown(t, u, x) ==
    /\ Grown(t, u, x) /\ Kids(u[x]) = Kids(t[x]) \cup {Len(t) + 1}
    /\ Kids(u[Len(t) + 1]) = {} /\ ~IsWild(u[Len(t) + 1])
    /\ Len(u[x].indices) = Len(u[x].children)

\* The tree has grown by it,
LEMMA SproutGrown ==
    ASSUME NEW t, NEW u, NEW x \in 1..Len(t), NEW k \in 0..ParamLimit, Tree(t), Sprouted(t, u, x, k),
           Fertile(t[x])
    PROVE  Outgrown(t, u, x)
<1> DEFINE new == Len(t) + 1
<1>0. /\ ~t[x].wildChild /\ Len(t[x].indices) = Len(t[x].children)
      /\ t[x].nType = "param" => Len(t[x].children) = 0
  BY DEF Fertile
<1>1. /\ Len(t) \in Nat /\ Typed(t) /\ ShapeOf(t[x]) /\ t[x] \in Node
      /\ Len(t[x].children) \in Nat
      /\ \A c \in Kids(t[x]) : c \in 1..Len(t) /\ ~IsWild(t[c])
  BY <1>0, TreeIs, KidsIn DEF Tree, Shaped
<1>2. /\ Len(u) = new /\ new \in Nat /\ new \notin 1..Len(t)
      /\ Touched(t, u, x) = {x, new} /\ (Len(t) + 1)..Len(u) = {new}
  BY <1>1 DEF Sprouted, Touched
<1>3. /\ u[x].nType = t[x].nType /\ u[x].wildChild = t[x].wildChild
      /\ u[x].maxParams = t[x].maxParams /\ u[x].priority = t[x].priority
  BY DEF Sprouted, SameBut
<1>4. /\ Len(u[x].children) = Len(t[x].children) + 1
      /\ Len(u[x].indices) = Len(t[x].indices) + 1
      /\ u[x].children[Len(t[x].children) + 1] = new
      /\ \A j \in 1..Len(t[x].children) : u[x].children[j] = t[x].children[j]
      /\ \A m \in 1..Len(t) : m # x => u[m] = t[m]
  BY DEF Sprouted
<1>5. /\ u[new].nType = "static" /\ ~u[new].wildChild /\ u[new].children = <<>>
      /\ u[new].indices = <<>>
  BY DEF Sprouted
<1> HIDE DEF new
<1>6. Kids(u[new]) = {} /\ Len(u[new].children) = 0 /\ Len(u[new].indices) = 0
  BY <1>5 DEF Kids
<1>7. Kids(u[x]) = Kids(t[x]) \cup {new}
  <2>1. ASSUME NEW c \in Kids(u[x])
        PROVE  c \in Kids(t[x]) \cup {new}
    <3>1. PICK j \in 1..(Len(t[x].children) + 1) : c = u[x].children[j]
      BY <1>4 DEF Kids
    <3>2. j \in 1..Len(t[x].children) \/ j = Len(t[x].children) + 1
      BY <1>1
    <3> QED
      BY <1>4, <3>1, <3>2 DEF Kids
  <2>2. ASSUME NEW c \in Kids(t[x])
        PROVE  c \in Kids(u[x])
    <3>1. PICK j \in 1..Len(t[x].children) : c = t[x].children[j]
      BY DEF Kids
    <3>2. j \in 1..Len(u[x].children)
      BY <1>1, <1>4
    <3> QED
      BY <1>4, <3>1, <3>2 DEF Kids
  <2>3. new \in Kids(u[x])
    <3>1. Len(t[x].children) + 1 \in 1..Len(u[x].children)
      BY <1>1, <1>4
    <3> QED
      BY <1>4, <3>1 DEF Kids
  <2> QED
    BY <2>1, <2>2, <2>3
<1>8. ~IsWild(u[new])
  BY <1>5 DEF IsWild
<1>9. IsWild(u[x]) <=> IsWild(t[x])
  BY <1>3 DEF IsWild
<1>10. ShapeOf(u[x])
  <2>1. Len(u[x].indices) = Len(u[x].children) /\ Len(u[x].indices) <= Len(u[x].children)
    BY <1>0, <1>1, <1>4
  <2>2. u[x].nType = "param" => Len(u[x].children) <= 1
    BY <1>0, <1>3, <1>4
  <2> QED
    BY <1>0, <1>3, <2>1, <2>2 DEF ShapeOf
<1>11. ShapeOf(u[new])
  BY <1>5, <1>6 DEF ShapeOf
<1>12. \A c \in Kids(u[x]) : IsWild(u[c]) <=> u[x].wildChild
  <2>1. \A c \in 1..Len(t) : IsWild(u[c]) <=> IsWild(t[c])
    BY <1>4, <1>9
  <2> QED
    BY <1>0, <1>1, <1>3, <1>7, <1>8, <2>1
<1>13. \A j, k1 \in 1..Len(u[x].children) : u[x].children[j] = u[x].children[k1] => j = k1
  <2>1. \A j, k1 \in 1..Len(t[x].children) : t[x].children[j] = t[x].children[k1] => j = k1
    BY DEF Tree, OneParent
  <2>2. \A j \in 1..Len(t[x].children) : t[x].children[j] \in 1..Len(t)
    BY <1>1, KidsIn
  <2>3. \A j \in 1..Len(u[x].children) : j \in 1..Len(t[x].children) \/ j = Len(t[x].children) + 1
    BY <1>1, <1>4
  <2>4. \A j \in 1..Len(t[x].children) : u[x].children[j] # new
    BY <1>2, <1>4, <2>2
  <2> SUFFICES ASSUME NEW j \in 1..Len(u[x].children), NEW k1 \in 1..Len(u[x].children),
                      u[x].children[j] = u[x].children[k1]
      PROVE  j = k1
    OBVIOUS
  <2>5. CASE j \in 1..Len(t[x].children) /\ k1 \in 1..Len(t[x].children)
    <3>1. t[x].children[j] = t[x].children[k1]
      BY <1>4, <2>5
    <3> QED
      BY <2>1, <2>5, <3>1
  <2> QED
    BY <1>4, <2>3, <2>4, <2>5
<1>14. \A a, b \in {x, new} : \A c \in Kids(u[a]) : c \in Kids(u[b]) => a = b
  BY <1>6
<1>15. \A m \in {x, new} :
         /\ ShapeOf(u[m])
         /\ \A c \in Kids(u[m]) : c \in Kids(t[x]) \/ c \in {new}
         /\ \A c \in Kids(u[m]) : IsWild(u[c]) <=> u[m].wildChild
         /\ \A j, k1 \in 1..Len(u[m].children) : u[m].children[j] = u[m].children[k1] => j = k1
  BY <1>6, <1>7, <1>10, <1>11, <1>12, <1>13
<1>16. u \in Seq(Node) /\ Len(t) <= Len(u)
  BY <1>1, <1>2 DEF Sprouted, new
<1>17. Grown(t, u, x)
  BY <1>2, <1>3, <1>4, <1>9, <1>14, <1>15, <1>16 DEF Grown
<1>18. Len(u[x].indices) = Len(u[x].children)
  BY <1>0, <1>4
<1> QED
  BY <1>6, <1>7, <1>8, <1>17, <1>18 DEF new, Outgrown

\* and there is room for the rest of the path in the new node.
LEMMA SproutKeeps ==
    ASSUME TreeInv, NEW t, NEW d, Come(t, d), Fertile(t[node]),
           NEW u, Sprouted(t, u, node, numParams), NEW e,
           e = [m \in 1..Len(u) |-> IF m = Len(t) + 1 THEN d[node] ELSE d[m]]
    PROVE  /\ Tree(u) /\ Sorted(u) /\ Roomy(u) /\ OneWildcard(u, 0) /\ Deep(u, e)
           /\ e[Len(t) + 1] = d[node]
           /\ panicked = {} => Tight(u, Len(t) + 1, numParams)
<1> DEFINE new == Len(t) + 1
<1>1. /\ Tree(t) /\ Typed(t) /\ Sorted(t) /\ Roomy(t) /\ OneWildcard(t, 0) /\ node \in 1..Len(t)
      /\ node # Root => Own(t[node]) + numParams <= t[node].maxParams
      /\ panicked = {} => Tight(t, node, numParams)
      /\ Deep(t, d) /\ Len(t) \in Nat
  BY TreeIs DEF Come, Room
<1>2. numParams \in 0..ParamLimit /\ numParams \in Nat
  BY TreeInvGives
<1>3. /\ Grown(t, u, node) /\ Kids(u[node]) = Kids(t[node]) \cup {new}
      /\ Kids(u[new]) = {} /\ ~IsWild(u[new])
  <2>1. node \in 1..Len(t) /\ numParams \in 0..ParamLimit /\ Tree(t)
    BY <1>1, <1>2
  <2>2. Outgrown(t, u, node)
    BY <2>1, SproutGrown
  <2> QED
    BY <2>2 DEF Outgrown
<1>4. /\ new \in Nat /\ Len(u) = new /\ new \in 1..Len(u) /\ new # Root /\ new \notin 1..Len(t)
      /\ Touched(t, u, node) = {node, new}
  BY <1>1 DEF Sprouted, Touched, Root
<1>5. /\ u[new].maxParams = numParams /\ u[new].priority = 0 /\ u[new].children = <<>> /\ u[new].path = <<>>
  BY DEF Sprouted
<1>6. /\ Len(u[node].children) = Len(t[node].children) + 1
      /\ u[node].children[Len(t[node].children) + 1] = new
      /\ \A j \in 1..Len(t[node].children) : u[node].children[j] = t[node].children[j]
      /\ u[node].path = t[node].path /\ u[node].wildChild = t[node].wildChild
      /\ \A m \in 1..Len(t) : m # node => u[m] = t[m]
  BY DEF Sprouted, SameBut
<1>7. \A m \in 1..Len(t) :
        /\ (IsWild(u[m]) <=> IsWild(t[m])) /\ Own(u[m]) = Own(t[m])
        /\ u[m].maxParams = t[m].maxParams /\ u[m].priority = t[m].priority
  BY <1>1, <1>3, GrownSame
<1>8. /\ Len(t[node].children) \in Nat
      /\ \A c \in Kids(t[node]) : c \in 1..Len(t)
      /\ \A j \in 1..Len(t[node].children) : t[node].children[j] \in 1..Len(t)
  BY <1>1, KidsIn
<1>9. \A m \in 1..Len(t) : t[m].maxParams \in Nat /\ t[m].priority \in Nat
  <2>1. \A m \in 1..Len(t) : t[m] \in Node
    BY <1>1, KidsIn
  <2> QED
    BY <2>1, NodeFields
<1>10. Tree(u)
  BY <1>1, <1>3, GrownTree
<1>11. Own(u[new]) = 0
  BY <1>3 DEF Own
<1> HIDE DEF new
<1>12. Sorted(u)
  <2>1. SortedAt(u, new)
    <3>1. Len(u[new].children) = 0
      BY <1>5
    <3>2. 2..Len(u[new].children) = {}
      BY <3>1
    <3> QED
      BY <3>2 DEF SortedAt
  <2>2. ASSUME NEW j \in 2..Len(u[node].children)
        PROVE  u[u[node].children[j]].priority <= u[u[node].children[j - 1]].priority
    <3>1. j - 1 \in 1..Len(t[node].children)
      BY <1>6, <1>8
    <3>2. u[node].children[j - 1] = t[node].children[j - 1] /\ t[node].children[j - 1] \in 1..Len(t)
      BY <1>6, <1>8, <3>1
    <3>3. u[u[node].children[j - 1]].priority = t[t[node].children[j - 1]].priority
          /\ t[t[node].children[j - 1]].priority \in Nat
      BY <1>7, <1>9, <3>2
    <3>4. CASE j = Len(t[node].children) + 1
      <4>1. u[u[node].children[j]].priority = 0
        BY <1>5, <1>6, <3>4
      <4> QED
        BY <3>3, <4>1
    <3>5. CASE j # Len(t[node].children) + 1
      <4>1. j \in 2..Len(t[node].children) /\ j \in 1..Len(t[node].children)
        BY <1>6, <1>8, <3>5
      <4>2. t[t[node].children[j]].priority <= t[t[node].children[j - 1]].priority
        BY <1>1, <4>1 DEF Sorted, SortedAt
      <4>3. u[u[node].children[j]].priority = t[t[node].children[j]].priority
        BY <1>6, <1>7, <1>8, <4>1
      <4> QED
        BY <3>3, <4>2, <4>3
    <3> QED
      BY <3>4, <3>5
  <2>3. SortedAt(u, node)
    BY <2>2 DEF SortedAt
  <2> QED
    BY <1>1, <1>3, <1>4, <2>1, <2>3, GrownSorted
<1>13. Roomy(u)
  <2>1. RoomyAt(u, new)
    BY <1>2, <1>3, <1>5, <1>11 DEF RoomyAt
  <2>2. ASSUME node # Root
        PROVE  RoomyAt(u, node)
    <3>1. node \in 2..Len(t)
      BY <1>1, <2>2 DEF Root
    <3>2. /\ Own(t[node]) <= t[node].maxParams
          /\ \A c \in Kids(t[node]) : Own(t[node]) + t[c].maxParams <= t[node].maxParams
      BY <1>1, <3>1 DEF Roomy, RoomyAt
    <3>3. \A c \in Kids(t[node]) : u[c].maxParams = t[c].maxParams
      BY <1>7, <1>8
    <3>4. Own(u[node]) = Own(t[node]) /\ u[node].maxParams = t[node].maxParams
      BY <1>1, <1>7
    <3> QED
      BY <1>1, <1>3, <1>5, <2>2, <3>2, <3>3, <3>4 DEF RoomyAt
  <2> QED
    BY <1>1, <1>3, <1>4, <2>1, <2>2, GrownRoomy
<1>14. OneWildcard(u, 0)
  <2> SUFFICES ASSUME NEW m \in 1..Len(u), IsWild(u[m])
      PROVE  OneIn(u[m].path)
    BY DEF OneWildcard
  <2>1. m \in 1..Len(t)
    BY <1>3, <1>4 DEF new
  <2>2. u[m].path = t[m].path /\ IsWild(t[m]) /\ m # 0
    BY <1>6, <1>7, <2>1
  <2> QED
    BY <1>1, <2>1, <2>2 DEF OneWildcard
<1>15. d \in [1..Len(t) -> 0..ParamLimit] /\ DeepAt(t, d, node) /\ d[node] \in Int
  <2>1. d \in [1..Len(t) -> 0..ParamLimit] /\ DeepAt(t, d, node)
    BY <1>1 DEF Deep
  <2> QED
    BY <1>1, <2>1
<1>16. /\ e \in [1..Len(u) -> 0..ParamLimit]
       /\ \A m \in 1..Len(t) : e[m] = d[m]
       /\ e[new] = d[node]
  <2>1. \A m \in 1..Len(u) : m # new => m \in 1..Len(t)
    BY <1>1, <1>4 DEF new
  <2>2. \A m \in 1..Len(t) : m \in 1..Len(u) /\ m # new
    BY <1>1, <1>4 DEF new
  <2>3. d[node] \in 0..ParamLimit /\ \A m \in 1..Len(t) : d[m] \in 0..ParamLimit
    BY <1>1, <1>15
  <2>4. e = [m \in 1..Len(u) |-> IF m = new THEN d[node] ELSE d[m]]
    BY DEF new
  <2> QED
    BY <1>4, <2>1, <2>2, <2>3, <2>4
<1>17. Deep(u, e)
  <2>1. DeepAt(u, e, new)
    <3>1. WildIn(u[new].path, 1) = {}
      BY <1>5 DEF WildIn
    <3> QED
      BY <1>3, <3>1 DEF DeepAt
  <2>2. DeepAt(u, e, node)
    <3>1. e[node] = d[node] /\ e[new] = e[node]
      BY <1>1, <1>16
    <3>2. \A c \in Kids(t[node]) : e[c] = d[c] /\ d[c] = d[node] + 0
      BY <1>8, <1>15, <1>16 DEF DeepAt, Fertile
    <3>3. \A c \in Kids(u[node]) : e[c] = e[node] + 0
      <4>1. e[node] + 0 = e[node]
        BY <1>15, <3>1
      <4>2. \A c \in Kids(t[node]) : e[c] = e[node] + 0
        BY <3>1, <3>2
      <4> QED
        BY <1>3, <3>1, <4>1, <4>2
    <3>4. ~IsWild(u[node]) /\ WildIn(u[node].path, 1) # {} => e[node] = ParamLimit
      BY <1>1, <1>6, <1>7, <1>15, <3>1 DEF DeepAt
    <3> QED
      BY <1>6, <3>3, <3>4 DEF DeepAt, Fertile
  <2>3. \A m \in Touched(t, u, node) : DeepAt(u, e, m)
    BY <1>4, <2>1, <2>2
  <2>4. e \in [1..Len(u) -> 0..ParamLimit] /\ \A m \in 1..Len(t) : e[m] = d[m]
    BY <1>16
  <2>5. Tree(t) /\ Grown(t, u, node) /\ Deep(t, d)
    BY <1>1, <1>3
  <2> QED
    BY <2>3, <2>4, <2>5, GrownDeep
<1>18. ASSUME panicked = {}
       PROVE  Tight(u, new, numParams)
  <2>1. Tight(t, node, numParams)
    BY <1>1, <1>18
  <2> SUFFICES ASSUME NEW m \in 2..Len(u)
      PROVE  Needed(u, m) \/ (m = new /\ u[m].maxParams <= Own(u[m]) + numParams)
    BY DEF Tight
  <2>2. CASE m = new
    BY <1>2, <1>5, <1>11, <2>2
  <2>3. CASE m = node /\ m # new
    <3>1. m \in 2..Len(t) /\ m \in 1..Len(t)
      BY <1>1, <1>4, <2>3 DEF new
    <3>2. u[m].maxParams = t[m].maxParams /\ Own(u[m]) = Own(t[m])
      BY <1>7, <3>1
    <3>3. CASE Needed(t, m)
      <4>1. CASE t[m].maxParams <= Own(t[m])
        BY <3>2, <4>1 DEF Needed
      <4>2. ASSUME NEW c \in Kids(t[m]), t[m].maxParams <= Own(t[m]) + t[c].maxParams
            PROVE  Needed(u, m)
        <5>1. u[c].maxParams = t[c].maxParams /\ c \in Kids(u[m])
          BY <1>3, <1>7, <1>8, <2>3, <4>2
        <5> QED
          BY <3>2, <4>2, <5>1 DEF Needed
      <4> QED
        BY <3>3, <4>1, <4>2 DEF Needed
    <3>4. CASE t[m].maxParams <= Own(t[m]) + numParams
      <4>1. new \in Kids(u[m]) /\ u[m].maxParams <= Own(u[m]) + u[new].maxParams
        BY <1>3, <1>5, <2>3, <3>2, <3>4
      <4> QED
        BY <4>1 DEF Needed
    <3> QED
      BY <2>1, <3>1, <3>3, <3>4 DEF Tight
  <2>4. CASE m # node /\ m # new
    <3>1. m \in 2..Len(t) /\ m \in 1..Len(t)
      BY <1>1, <1>4, <2>4 DEF new
    <3>2. Needed(t, m)
      BY <2>1, <2>4, <3>1 DEF Tight
    <3> QED
      BY <1>1, <1>3, <2>4, <3>1, <3>2, GrownNeeded
  <2> QED
    BY <2>2, <2>3, <2>4
<1> QED
  BY <1>10, <1>12, <1>13, <1>14, <1>16, <1>17, <1>18 DEF new

\* No child fits: insertChild begins.
LEMMA StartInsertKeeps ==
    ASSUME TreeInv, StartInsert
    PROVE  TreeInv'
<1> DEFINE here == Opened[node]
           new == Len(Opened) + 1
           t == Append([Opened EXCEPT ![node].indices = Append(@, Rest[1]),
                                      ![node].children = Append(@, new)],
                       [NewNode EXCEPT !.maxParams = numParams])
           u == incrementChildPrio(t, node, Len(t[node].indices))
<1>1. /\ stage = "walk" /\ Rest # <<>> /\ ~here.wildChild /\ ~SlashAfterParam /\ NextByte = {}
      /\ path' = Rest /\ stage' = "insert" /\ UNCHANGED <<locals, numParams, i, offset, outcome>>
      /\ IF Rest[1] \in Wild
         THEN nodes' = Opened /\ node' = node
         ELSE nodes' = u /\ node' = new
  BY DEF StartInsert
<1>2. PICK d : Come(Opened, d)
  BY <1>1, OpenedIs
<1>3. /\ Tree(Opened) /\ Typed(Opened) /\ Sorted(Opened) /\ Roomy(Opened) /\ OneWildcard(Opened, 0)
      /\ node \in 1..Len(Opened) /\ Len(Opened) \in Nat
      /\ node # Root => Own(here) + numParams <= here.maxParams
      /\ panicked = {} => Tight(Opened, node, numParams)
      /\ Deep(Opened, d)
      /\ IsWild(here) => Rest[1] = "/"
      /\ numParams = Least(Cardinality(WildIn(Rest, 1)), ParamLimit - d[node])
  BY <1>1, <1>2, TreeIs DEF Come, Room
<1>4. /\ Rest \in Seq(STRING) /\ Len(Rest) \in Nat /\ Len(Rest) >= 1 /\ Rest[1] \in STRING
  <2>1. Rest \in Seq(STRING)
    BY <1>2 DEF Come
  <2> HIDE DEF Rest
  <2>2. Len(Rest) \in Nat /\ Len(Rest) >= 1
    BY <1>1, <2>1
  <2> QED
    BY <2>1, <2>2
<1>5. i = 1 /\ offset = 0 /\ full \in Routes
  BY <1>1 DEF TreeInv, Walking
<1>6. 1 \in 1..(Len(Rest) + 1) /\ 0 \in 0..Len(Rest) /\ 0 >= 1 - 1
  BY <1>4
<1>7. numParams \in 0..ParamLimit /\ numParams \in Nat
  BY TreeInvGives
<1>8. UNCHANGED <<locals, outcome>> /\ numParams' = numParams /\ i' = 1 /\ offset' = 0
  BY <1>1, <1>5
<1>9. CASE Rest[1] \in Wild
  <2>1. ~IsWild(here)
    BY <1>3, <1>9 DEF Wild
  <2>2. OneWildcard(Opened, node)
    BY <1>3, <2>1 DEF OneWildcard
  <2>3. Placing(Opened, node, Rest, numParams, 1, 0, d)
    BY <1>1, <1>3, <1>4, <1>6, <1>7, <2>1, <2>2 DEF Placing
  <2> QED
    BY <1>1, <1>5, <1>8, <1>9, <2>3, PlaceKeeps
<1>10. CASE Rest[1] \notin Wild
  <2>1. ShapeOf(here) /\ Len(here.children) \in Nat /\ here \in Node
    BY <1>3, KidsIn DEF Tree, Shaped
  <2>2. Len(here.indices) \in Nat
    BY <2>1, NodeFields
  <2>3. here.nType = "param" => Len(here.children) = 0
    <3> SUFFICES ASSUME here.nType = "param"
        PROVE  Len(here.children) = 0
      OBVIOUS
    <3>1. Rest[1] = "/" /\ Len(here.children) <= 1
      BY <1>1, <1>3, <2>1 DEF IsWild, ShapeOf
    <3>2. Len(here.children) # 1
      BY <1>1, <3>1 DEF SlashAfterParam
    <3>3. \A l \in Nat : l <= 1 /\ l # 1 => l = 0
      OBVIOUS
    <3> QED
      BY <2>1, <3>1, <3>2, <3>3
  <2>4. Len(here.indices) = Len(here.children)
    <3>1. CASE here.nType = "param"
      BY <2>1, <2>2, <2>3, <3>1 DEF ShapeOf
    <3>2. CASE here.nType # "param"
      BY <1>1, <2>1, <3>2 DEF ShapeOf
    <3> QED
      BY <3>1, <3>2
  <2>18. Fertile(here)
    BY <1>1, <2>3, <2>4 DEF Fertile
  <2> HIDE DEF Opened
  <2>5. Sprouted(Opened, t, node, numParams)
    BY <1>3, <1>4, <1>7, SproutIs
  <2> HIDE DEF t
  <2> DEFINE e == [m \in 1..Len(t) |-> IF m = new THEN d[node] ELSE d[m]]
  <2>6. /\ Tree(t) /\ Sorted(t) /\ Roomy(t) /\ OneWildcard(t, 0) /\ Deep(t, e)
        /\ e[new] = d[node]
        /\ panicked = {} => Tight(t, new, numParams)
    BY <1>1, <1>2, <2>18, <2>5, SproutKeeps
  <2> HIDE DEF e
  <2>7. /\ ~IsWild(t[new]) /\ ~t[new].wildChild /\ t[new].maxParams = numParams
        /\ Len(t[node].indices) = Len(t[node].children)
        /\ Len(t) = new
    <3>1. /\ ~IsWild(t[new]) /\ Len(t[node].indices) = Len(t[node].children)
      <4>1. Outgrown(Opened, t, node)
        BY <1>3, <1>7, <2>18, <2>5, SproutGrown
      <4> QED
        BY <4>1 DEF Outgrown
    <3> QED
      BY <2>5, <3>1 DEF Sprouted
  <2>8. /\ new \in 1..Len(t) /\ node \in 1..Len(t) /\ new # Root
    BY <1>3, <2>7 DEF Root
  <2>9. Len(t[node].indices) \in 1..Len(t[node].children)
    <3>1. Len(t[node].children) = Len(here.children) + 1
      BY <2>5 DEF Sprouted
    <3> QED
      BY <2>1, <2>7, <3>1
  <2> HIDE DEF u, new
  <2>10. PICK to : Overtakes(t, u, node, Len(t[node].indices), to)
    BY <2>6, <2>7, <2>8, <2>9, IncrementIs DEF u
  <2>11. Same(t, u) /\ Sorted(u)
    BY <2>6, <2>8, <2>10, OvertakesSame
  <2>12. /\ Tree(u) /\ Roomy(u) /\ OneWildcard(u, 0) /\ Deep(u, e)
         /\ panicked = {} => Tight(u, new, numParams)
    BY <2>6, <2>11, SameRoomy, SameOne, SameDeep, SameTight DEF Same
  <2>13. /\ new \in 1..Len(u) /\ ~IsWild(u[new]) /\ ~u[new].wildChild /\ u[new].maxParams = numParams
    BY <2>7, <2>8, <2>11, SameIs DEF Same, Kept
  <2>14. OneWildcard(u, new)
    BY <2>12, <2>13 DEF OneWildcard
  <2>15. Own(u[new]) + numParams <= u[new].maxParams
    BY <1>7, <2>13 DEF Own
  <2>16. numParams = Least(Cardinality(WildIn(Rest, 1)), ParamLimit - e[new])
    BY <1>3, <2>6
  <2>17. Placing(u, new, Rest, numParams, 1, 0, e)
    BY <1>4, <1>6, <1>7, <2>11, <2>12, <2>13, <2>14, <2>15, <2>16 DEF Placing
  <2> QED
    BY <1>1, <1>5, <1>8, <1>10, <2>17, PlaceKeeps
<1> QED
  BY <1>9, <1>10
-----------------------------------------------------------------------------
(* The actions of insertChild that end it.                                 *)

\* The invariant, while insertChild runs.
LEMMA PlacedIs ==
    ASSUME TreeInv, stage = "insert"
    PROVE  full \in Routes /\ \E d : Placing(nodes, node, path, numParams, i, offset, d)
<1>1. PICK d : Deep(nodes, d) /\ Inserting(d)
  BY DEF TreeInv
<1>2. full \in Routes
  BY <1>1 DEF Inserting
<1>3. Placing(nodes, node, path, numParams, i, offset, d)
  BY <1>1 DEF TreeInv, Locals, Inserting, Placing
<1> QED
  BY <1>2, <1>3

\* The smaller of two numbers.
LEMMA LeastIs ==
    ASSUME NEW a \in Nat, NEW b \in Nat
    PROVE  /\ Least(a, b) \in Nat /\ Least(a, b) <= a /\ Least(a, b) <= b
           /\ Least(a, b) = 0 => a = 0 \/ b = 0
  BY DEF Least

\* The numbers that Placing is about.
LEMMA PlacedCounts ==
    ASSUME TreeInv, NEW d, Placing(nodes, node, path, numParams, i, offset, d)
    PROVE  /\ i \in Nat /\ offset \in Nat /\ i >= 1 /\ i <= Len(path) + 1 /\ offset <= Len(path)
           /\ Cardinality(WildIn(path, i)) \in Nat /\ IsFiniteSet(WildIn(path, i))
           /\ Cardinality(WildIn(path, i)) = 0 <=> WildIn(path, i) = {}
           /\ d[node] \in Nat /\ ParamLimit - d[node] \in Nat
           /\ numParams <= Cardinality(WildIn(path, i)) /\ numParams <= ParamLimit - d[node]
           /\ numParams = 0 => WildIn(path, i) = {} \/ d[node] = ParamLimit
<1>1. i \in 1..(Len(path) + 1) /\ offset \in 0..Len(path) /\ path \in Seq(STRING) /\ Len(path) \in Nat
  BY TreeInvGives DEF Placing
<1>2. i \in Nat /\ offset \in Nat /\ i >= 1 /\ i <= Len(path) + 1 /\ offset <= Len(path)
  BY <1>1
<1>3. /\ Cardinality(WildIn(path, i)) \in Nat /\ IsFiniteSet(WildIn(path, i))
      /\ Cardinality(WildIn(path, i)) = 0 <=> WildIn(path, i) = {}
  BY <1>1, <1>2, WildInFinite
<1>4. d[node] \in 0..ParamLimit /\ ParamLimit \in Nat
  BY TreeInvGives DEF Placing, Deep
<1>5. d[node] \in Nat /\ ParamLimit - d[node] \in Nat
  BY <1>4
<1>6. numParams = Least(Cardinality(WildIn(path, i)), ParamLimit - d[node])
  BY DEF Placing
<1>7. /\ numParams <= Cardinality(WildIn(path, i)) /\ numParams <= ParamLimit - d[node]
      /\ numParams = 0 => Cardinality(WildIn(path, i)) = 0 \/ ParamLimit - d[node] = 0
  BY <1>3, <1>5, <1>6, LeastIs
<1>8. ParamLimit - d[node] = 0 => d[node] = ParamLimit
  BY <1>4
<1> QED
  BY <1>2, <1>3, <1>5, <1>7, <1>8

\* A node that is to get its wildcard has no other below it.
LEMMA ParamsLeft ==
    ASSUME TreeInv, stage = "insert", numParams > 0
    PROVE  ~IsWild(nodes[node]) /\ Settled(nodes)
<1>1. PICK d : Placing(nodes, node, path, numParams, i, offset, d)
  BY PlacedIs
<1>2. ~IsWild(nodes[node])
  <2> SUFFICES ASSUME IsWild(nodes[node])
      PROVE  FALSE
    OBVIOUS
  <2>1. WildIn(path, i) = {}
    BY <1>1 DEF Placing
  <2>2. numParams <= 0
    BY <1>1, <2>1, PlacedCounts
  <2> QED
    BY <2>2, TreeInvGives
<1>3. OneWildcard(nodes, 0)
  BY <1>1, <1>2 DEF Placing, OneWildcard
<1> QED
  BY <1>1, <1>2, <1>3 DEF Settled, Placing

\* The three ways in which insertChild gives up.
LEMMA InsertBadKeeps ==
    ASSUME TreeInv, InsertBad
    PROVE  TreeInv'
<1>1. stage = "insert" /\ numParams > 0 /\ Panics(nodes, "panic")
  BY DEF InsertBad
<1> QED
  BY <1>1, ParamsLeft, PlacedIs, PanicsKeeps

\* No slash is before the catch-all.
LEMMA InsertNoSlashKeeps ==
    ASSUME TreeInv, InsertNoSlash
    PROVE  TreeInv'
<1>1. stage = "insert" /\ numParams > 0 /\ Panics(nodes, "panic")
  BY DEF InsertNoSlash
<1> QED
  BY <1>1, ParamsLeft, PlacedIs, PanicsKeeps

\* Nothing is.
LEMMA InsertOutOfRangeKeeps ==
    ASSUME TreeInv, InsertOutOfRange
    PROVE  TreeInv'
<1>1. stage = "insert" /\ numParams > 0 /\ Panics(nodes, "runtime error")
  BY DEF InsertOutOfRange
<1> QED
  BY <1>1, ParamsLeft, PlacedIs, PanicsKeeps

\* The type of the root, when the first route has gone into an empty tree.
Rooted(t) == [t EXCEPT ![Root].nType = IF empty THEN "root" ELSE @]
WithType(e, ty) == [e EXCEPT !.nType = ty]

\* Another type.
LEMMA WithTypeIs ==
    ASSUME NEW e \in Node, NEW ty \in {"static", "root", "param", "catchAll"}
    PROVE  /\ SameBut(e, WithType(e, ty), {"nType"}) /\ WithType(e, ty).nType = ty
           /\ WithType(e, ty).handle = e.handle
  BY DEF Node, SameBut, WithType

\* The type of the root makes no difference to the rest.
LEMMA TypeKeeps ==
    ASSUME NEW t, NEW u, Tree(t), Sorted(t), Altered(t, u, Root, {"nType"}),
           u[Root].nType \in {t[Root].nType, "root"}
    PROVE  Same(t, u) /\ Sorted(u)
<1>1. /\ u \in Seq(Node) /\ Len(u) = Len(t)
      /\ \A m \in 1..Len(t) :
           /\ u[m].children = t[m].children /\ u[m].indices = t[m].indices
           /\ u[m].wildChild = t[m].wildChild /\ u[m].path = t[m].path
           /\ u[m].maxParams = t[m].maxParams /\ u[m].priority = t[m].priority
           /\ u[m].nType = t[m].nType \/ (m = Root /\ u[m].nType = "root")
  BY DEF Altered, SameBut
<1>2. Kept(t, u) /\ Unmoved(t, u)
  BY <1>1 DEF Kept, Unmoved, Kids
<1>3. Tree(u)
  BY <1>2, KeptTree DEF Unmoved, Tree, OneParent
<1>4. \A m \in 1..Len(t) : 0 \notin Kids(t[m])
  BY TreeIs, KidsIn
<1>5. Sorted(u)
  BY <1>1, <1>2, <1>4, KeptSorted
<1> QED
  BY <1>1, <1>2, <1>3, <1>5 DEF Same

\* Only its type is altered.
LEMMA RootedIs ==
    ASSUME NEW t \in Seq(Node), Root \in 1..Len(t), empty \in BOOLEAN
    PROVE  /\ Altered(t, Rooted(t), Root, {"nType"})
           /\ Rooted(t)[Root].nType \in {t[Root].nType, "root"}
<1> DEFINE e == WithType(t[Root], IF empty THEN "root" ELSE t[Root].nType)
           u == [t EXCEPT ![Root] = e]
<1>1. t[Root] \in Node /\ t[Root].nType \in {"static", "root", "param", "catchAll"}
  BY NodeFields
<1>2. Rooted(t) = u
  BY <1>1 DEF Rooted, WithType
<1>3. SameBut(t[Root], e, {"nType"}) /\ e.nType \in {t[Root].nType, "root"}
  BY <1>1, WithTypeIs
<1> HIDE DEF e
<1>4. e \in Node
  BY <1>3 DEF SameBut
<1>5. u \in Seq(Node) /\ Len(u) = Len(t) /\ u[Root] = e /\ \A m \in 1..Len(t) : m # Root => u[m] = t[m]
  BY <1>4
<1> QED
  BY <1>2, <1>3, <1>5 DEF Altered

\* So the tree stays as it is.
LEMMA RootedKeeps ==
    ASSUME NEW t, Tree(t), Sorted(t), empty \in BOOLEAN
    PROVE  Same(t, Rooted(t)) /\ Sorted(Rooted(t))
  BY TreeIs, RootedIs, TypeKeeps

\* The last of the path, and the handler.
Ended(e, s) == [e EXCEPT !.path = s, !.handle = {full}]

\* Only the path is another one, as far as the invariant goes.
LEMMA EndedIs ==
    ASSUME NEW e \in Node, NEW s \in Seq(STRING), full \in Routes
    PROVE  /\ SameBut(e, Ended(e, s), {"path"}) /\ Ended(e, s).path = s
           /\ Ended(e, s).handle = {full}
<1>1. {full} \in Handlers
  BY DEF Handlers
<1> QED
  BY <1>1 DEF Node, SameBut, Ended

\* The tree is settled when the last of the path is in it.
LEMMA EndedKeeps ==
    ASSUME NEW t, NEW x \in 1..Len(t), NEW u, NEW d, Tree(t), Sorted(t), Roomy(t), OneWildcard(t, x),
           Deep(t, d), ~t[x].wildChild, Altered(t, u, x, {"path"}),
           IsWild(t[x]) => OneIn(u[x].path),
           IsWild(t[x]) \/ WildIn(u[x].path, 1) = {} \/ d[x] = ParamLimit
    PROVE  Settled(u) /\ \A k : Tight(t, x, k) => Tight(u, x, k)
<1>1. /\ u \in Seq(Node) /\ Len(u) = Len(t)
      /\ \A m \in 1..Len(t) :
           /\ u[m].children = t[m].children /\ u[m].indices = t[m].indices
           /\ u[m].wildChild = t[m].wildChild /\ u[m].nType = t[m].nType
           /\ u[m].maxParams = t[m].maxParams /\ u[m].priority = t[m].priority
           /\ m # x => u[m].path = t[m].path
  BY DEF Altered, SameBut
<1>2. Kept(t, u) /\ Unmoved(t, u)
  BY <1>1 DEF Kept, Unmoved, Kids
<1>3. Tree(u)
  BY <1>2, KeptTree DEF Unmoved, Tree, OneParent
<1>4. \A m \in 1..Len(t) : 0 \notin Kids(t[m])
  BY TreeIs, KidsIn
<1>5. 0 \notin 1..Len(t) /\ \A m \in 2..Len(t) : m \in 1..Len(t)
  BY TreeIs
<1>6. Sorted(u)
  BY <1>1, <1>2, <1>4, KeptSorted
<1>7. Roomy(u)
  BY <1>1, <1>2, <1>4, <1>5, KeptRoomy
<1>8. \A m \in 1..Len(t) : (IsWild(u[m]) <=> IsWild(t[m])) /\ Own(u[m]) = Own(t[m])
  BY <1>2, KeptTypes
<1>9. OneWildcard(u, 0)
  <2> SUFFICES ASSUME NEW m \in 1..Len(t), IsWild(t[m])
      PROVE  OneIn(u[m].path)
    BY <1>1, <1>8 DEF OneWildcard
  <2>1. CASE m = x
    BY <2>1
  <2>2. CASE m # x
    BY <1>1, <2>2 DEF OneWildcard
  <2> QED
    BY <2>1, <2>2
<1>10. Deep(u, d)
  BY <1>1, <1>2, KeptDeep
<1>11. ASSUME NEW k, Tight(t, x, k)
       PROVE  Tight(u, x, k)
  <2> SUFFICES ASSUME NEW m \in 2..Len(t)
      PROVE  Needed(u, m) \/ (m = x /\ u[m].maxParams <= Own(u[m]) + k)
    BY <1>1 DEF Tight
  <2>1. m \in 1..Len(t)
    BY <1>5
  <2>2. CASE Needed(t, m)
    <3>1. \A a \in 1..Len(t) : t[a].maxParams \in Nat /\ u[a].maxParams \in Nat
      BY <1>2, KeptMaxParams
    <3>2. \A a \in 1..Len(t) : t[a].maxParams <= u[a].maxParams
      BY <1>1, <3>1
    <3>3. u[m].maxParams = t[m].maxParams
      BY <1>1, <2>1
    <3> QED
      BY <1>2, <2>1, <2>2, <3>2, <3>3, KeptNeeded
  <2>3. CASE m = x /\ t[m].maxParams <= Own(t[m]) + k
    BY <1>1, <1>8, <2>1, <2>3
  <2> QED
    BY <1>11, <2>2, <2>3 DEF Tight
<1> QED
  BY <1>3, <1>6, <1>7, <1>9, <1>10, <1>11 DEF Settled

\* What is left of the path below a wildcard begins with it.
LEMMA LeftIs ==
    ASSUME NEW s \in Seq(STRING), NEW k \in 2..(Len(s) + 1), s[k - 1] \in Wild, WildIn(s, k) = {}
    PROVE  OneIn(Cut(s, k - 1))
<1> DEFINE v == Cut(s, k - 1)
<1>1. Len(s) \in Nat /\ k - 1 \in 1..(Len(s) + 1)
  BY LenProperties
<1>2. /\ Len(v) = Len(s) + 1 - (k - 1)
      /\ \A j \in 1..(Len(s) + 1 - (k - 1)) : v[j] = s[j + (k - 1) - 1]
  BY <1>1, CutIs
<1> HIDE DEF v
<1>3. 1 \in 1..Len(v) /\ Len(v) \in Nat
  BY <1>1, <1>2
<1>4. ASSUME NEW j \in 1..Len(v)
      PROVE  v[j] \in Wild <=> j = 1
  <2>1. v[j] = s[j + (k - 1) - 1]
    BY <1>2, <1>4
  <2>2. CASE j = 1
    <3>1. j + (k - 1) - 1 = k - 1
      BY <2>2
    <3> QED
      BY <2>1, <2>2, <3>1
  <2>3. CASE j # 1
    <3>1. j + (k - 1) - 1 \in k..Len(s)
      BY <1>1, <1>2, <2>3
    <3>2. s[j + (k - 1) - 1] \notin Wild
      BY <3>1 DEF WildIn
    <3> QED
      BY <2>1, <2>3, <3>2
  <2> QED
    BY <2>2, <2>3
<1> QED
  BY <1>3, <1>4 DEF OneIn, v

\* What is left of a path without wildcards has none.
LEMMA NoneLeft ==
    ASSUME NEW s \in Seq(STRING), NEW k \in Nat, NEW o \in 0..Len(s), o + 1 >= k, WildIn(s, k) = {}
    PROVE  WildIn(Cut(s, o + 1), 1) = {}
<1> DEFINE v == Cut(s, o + 1)
<1>1. Len(s) \in Nat /\ o + 1 \in 1..(Len(s) + 1)
  BY LenProperties
<1>2. /\ Len(v) = Len(s) + 1 - (o + 1)
      /\ \A j \in 1..(Len(s) + 1 - (o + 1)) : v[j] = s[j + (o + 1) - 1]
  BY <1>1, CutIs
<1> HIDE DEF v
<1>3. ASSUME NEW j \in 1..Len(v)
      PROVE  v[j] \notin Wild
  <2>1. v[j] = s[j + (o + 1) - 1] /\ j + (o + 1) - 1 \in k..Len(s)
    BY <1>1, <1>2, <1>3
  <2> QED
    BY <2>1 DEF WildIn
<1>4. WildIn(v, 1) = {}
  BY <1>3 DEF WildIn
<1> QED
  BY <1>4 DEF v

\* insertChild has come to the end of the path.
LEMMA InsertRestKeeps ==
    ASSUME TreeInv, InsertRest
    PROVE  TreeInv'
<1> DEFINE s == Cut(path, offset + 1)
           e == Ended(nodes[node], s)
           t == [nodes EXCEPT ![node] = e]
<1>1. PICK d : Placing(nodes, node, path, numParams, i, offset, d)
  BY PlacedIs DEF InsertRest
<1>2. stage = "insert" /\ numParams = 0 /\ full \in Routes
  BY PlacedIs DEF InsertRest
<1>3. /\ Tree(nodes) /\ nodes \in Seq(Node) /\ node \in 1..Len(nodes) /\ nodes[node] \in Node
      /\ Len(nodes) \in Nat /\ path \in Seq(STRING) /\ Len(path) \in Nat
  BY TreeInvGives, TreeIs
<1>4. /\ i \in Nat /\ i \in 1..(Len(path) + 1) /\ offset \in 0..Len(path) /\ offset \in Nat
      /\ ~nodes[node].wildChild /\ empty \in BOOLEAN
  BY <1>1, PlacedCounts DEF Placing, TreeInv, Locals
<1>5. Returns(IF empty THEN [t EXCEPT ![Root].nType = "root"] ELSE t)
  <2>1. [nodes EXCEPT ![node].path = s, ![node].handle = {full}] = t
    BY <1>3 DEF Ended
  <2> HIDE DEF t, s
  <2> QED
    BY <2>1 DEF InsertRest, s
<1>6. s \in Seq(STRING)
  <2>1. offset + 1 \in 1..(Len(path) + 1)
    BY <1>3, <1>4
  <2> QED
    BY <1>3, <2>1, CutIs
<1> HIDE DEF s
<1>7. SameBut(nodes[node], e, {"path"}) /\ e.path = s
  BY <1>2, <1>3, <1>6, EndedIs
<1> HIDE DEF e
<1>8. Altered(nodes, t, node, {"path"}) /\ t[node] = e
  BY <1>3, <1>7, AlteredIs
<1>9. ASSUME IsWild(nodes[node])
      PROVE  OneIn(s)
  <2>1. i \in 2..(Len(path) + 1) /\ offset + 1 = i - 1 /\ path[i - 1] \in Wild /\ WildIn(path, i) = {}
    BY <1>1, <1>3, <1>4, <1>9 DEF Placing
  <2> QED
    BY <1>3, <2>1, LeftIs DEF s
<1>10. ASSUME ~IsWild(nodes[node])
       PROVE  WildIn(s, 1) = {} \/ d[node] = ParamLimit
  <2>1. WildIn(path, i) = {} \/ d[node] = ParamLimit
    BY <1>1, <1>2, PlacedCounts
  <2>2. offset + 1 >= i
    BY <1>1, <1>4, <1>10 DEF Placing
  <2> QED
    BY <1>3, <1>4, <2>1, <2>2, NoneLeft DEF s
<1>11. /\ Sorted(nodes) /\ Roomy(nodes) /\ OneWildcard(nodes, node) /\ Deep(nodes, d)
       /\ panicked = {} => Tight(nodes, node, 0)
  BY <1>1, <1>2 DEF Placing
<1> HIDE DEF t
<1>12. Settled(t) /\ \A k : Tight(nodes, node, k) => Tight(t, node, k)
  BY <1>3, <1>4, <1>7, <1>8, <1>9, <1>10, <1>11, EndedKeeps
<1>13. Tree(t) /\ Sorted(t)
  BY <1>12 DEF Settled
<1>14. panicked = {} => Tight(t, Root, 0)
  BY <1>11, <1>12, <1>13, TightNone
<1>15. CASE ~empty
  BY <1>2, <1>5, <1>12, <1>14, <1>15, ReturnsKeeps
<1>16. CASE empty
  <2>1. Returns(Rooted(t))
    <3>1. Rooted(t) = [t EXCEPT ![Root].nType = "root"]
      BY <1>16 DEF Rooted
    <3> QED
      BY <1>5, <1>16, <3>1
  <2>2. Same(t, Rooted(t)) /\ Sorted(Rooted(t))
    BY <1>4, <1>13, RootedKeeps
  <2>3. Settled(Rooted(t))
    BY <1>12, <2>2, SameSettled
  <2>4. panicked = {} => Tight(Rooted(t), Root, 0)
    BY <1>14, <2>2, SameTight
  <2> QED
    BY <1>2, <2>1, <2>3, <2>4, ReturnsKeeps
<1> QED
  BY <1>15, <1>16
-----------------------------------------------------------------------------
(* The nodes of a wildcard are planted below x, which had no children.     *)

\* The nodes that insertChild makes, and what it makes of those it finds.
Fresh(ty, k) == [NewNode EXCEPT !.nType = ty, !.maxParams = k, !.priority = 1]
Blank(k) == [NewNode EXCEPT !.maxParams = k, !.priority = 1]
Bearing(e, s, ch) == [e EXCEPT !.path = s, !.children = ch]
Gate(e, ch) == [e EXCEPT !.wildChild = TRUE, !.children = ch]
Parting(e, s, ch) == [e EXCEPT !.path = s, !.children = ch, !.wildChild = TRUE]
Leading(e, s, ch, ix) == [e EXCEPT !.path = s, !.children = ch, !.indices = ix]

\* Their fields.
LEMMA FreshIs ==
    ASSUME NEW ty \in {"static", "root", "param", "catchAll"}, NEW k \in 0..ParamLimit
    PROVE  /\ SameBut(NewNode, Fresh(ty, k), {"nType", "maxParams", "priority"})
           /\ Fresh(ty, k).nType = ty /\ Fresh(ty, k).maxParams = k /\ Fresh(ty, k).priority = 1
           /\ SameBut(NewNode, Blank(k), {"maxParams", "priority"})
           /\ Blank(k).maxParams = k /\ Blank(k).priority = 1
<1>1. NewNode \in Node
  BY NewNodeIs
<1>2. Fresh(ty, k) \in Node /\ Blank(k) \in Node
  BY <1>1 DEF Fresh, Blank, Node
<1> HIDE DEF NewNode
<1>3. /\ Fresh(ty, k).nType = ty /\ Fresh(ty, k).maxParams = k /\ Fresh(ty, k).priority = 1
      /\ Blank(k).maxParams = k /\ Blank(k).priority = 1
  BY <1>1 DEF Fresh, Blank, Node
<1>4. SameBut(NewNode, Fresh(ty, k), {"nType", "maxParams", "priority"})
  BY <1>1, <1>2 DEF Fresh, Node, SameBut
<1>5. SameBut(NewNode, Blank(k), {"maxParams", "priority"})
  BY <1>1, <1>2 DEF Blank, Node, SameBut
<1> QED
  BY <1>3, <1>4, <1>5

\* A parameter that the path goes on behind.
LEMMA BearingIs ==
    ASSUME NEW e \in Node, NEW s \in Seq(STRING), NEW ch \in Seq(Nat)
    PROVE  /\ SameBut(e, Bearing(e, s, ch), {"path", "children"})
           /\ Bearing(e, s, ch).path = s /\ Bearing(e, s, ch).children = ch
  BY DEF Bearing, Node, SameBut

\* The upper node of a catch-all.
LEMMA GateIs ==
    ASSUME NEW e \in Node, NEW ch \in Seq(Nat)
    PROVE  /\ SameBut(e, Gate(e, ch), {"wildChild", "children"})
           /\ Gate(e, ch).wildChild /\ Gate(e, ch).children = ch
  BY DEF Gate, Node, SameBut

\* A node above a parameter.
LEMMA PartingIs ==
    ASSUME NEW e \in Node, NEW s \in Seq(STRING), NEW ch \in Seq(Nat)
    PROVE  /\ SameBut(e, Parting(e, s, ch), {"path", "children", "wildChild"})
           /\ Parting(e, s, ch).path = s /\ Parting(e, s, ch).children = ch
           /\ Parting(e, s, ch).wildChild
  BY DEF Parting, Node, SameBut

\* A node above a catch-all.
LEMMA LeadingIs ==
    ASSUME NEW e \in Node, NEW s \in Seq(STRING), NEW ch \in Seq(Nat), NEW ix \in Seq(STRING)
    PROVE  /\ SameBut(e, Leading(e, s, ch, ix), {"path", "children", "indices"})
           /\ Leading(e, s, ch, ix).path = s /\ Leading(e, s, ch, ix).children = ch
           /\ Leading(e, s, ch, ix).indices = ix
  BY DEF Leading, Node, SameBut

\* Two elements more.
LEMMA TwoMore ==
    ASSUME NEW S, NEW s \in Seq(S), NEW a \in S, NEW b \in S, NEW q, q = s \o <<a, b>>
    PROVE  /\ q \in Seq(S) /\ Len(q) = Len(s) + 2 /\ q[Len(s) + 1] = a /\ q[Len(s) + 2] = b
           /\ \A m \in 1..Len(s) : q[m] = s[m]
  OBVIOUS

\* A sequence of one.
LEMMA OneOf ==
    ASSUME NEW a \in Nat
    PROVE  /\ <<a>> \in Seq(Nat) /\ Len(<<a>>) = 1 /\ <<a>>[1] = a
  OBVIOUS

\* One child.
LEMMA OneKid ==
    ASSUME NEW e, NEW a \in Nat, e.children = <<a>>
    PROVE  Kids(e) = {a} /\ Len(e.children) = 1
<1>1. Len(e.children) = 1 /\ e.children[1] = a
  BY OneOf
<1>2. 1..Len(e.children) = {1}
  BY <1>1
<1> QED
  BY <1>1, <1>2 DEF Kids

\* No child.
LEMMA NoKid ==
    ASSUME NEW e, e.children = <<>>
    PROVE  Kids(e) = {} /\ Len(e.children) = 0
<1>1. Len(e.children) = 0
  BY EmptyIs
<1> QED
  BY <1>1 DEF Kids

\* Up to one child is in order, and there once.
LEMMA UpToOne ==
    ASSUME NEW l \in {0, 1}
    PROVE  2..l = {} /\ \A j, k \in 1..l : j = k
<1>1. CASE l = 0
  BY <1>1
<1>2. CASE l = 1
  BY <1>2
<1> QED
  BY <1>1, <1>2

\* u is t with a chain of one or two new nodes below x.
Planted(t, u, x) ==
    /\ u \in Seq(Node) /\ Len(u) \in {Len(t) + 1, Len(t) + 2}
    /\ \A m \in 1..Len(t) : m # x => u[m] = t[m]
    /\ u[x].nType = t[x].nType /\ ~IsWild(t[x]) /\ ~IsWild(u[x])
    /\ u[x].maxParams = t[x].maxParams /\ u[x].priority = t[x].priority
    /\ \A m \in Touched(t, u, x) :
         /\ ShapeOf(u[m]) /\ Len(u[m].children) \in {0, 1}
         /\ \A c \in Kids(u[m]) : IsWild(u[c]) <=> u[m].wildChild
    /\ Kids(u[x]) = {Len(t) + 1}
    /\ Kids(u[Len(t) + 1]) = IF Len(u) = Len(t) + 2 THEN {Len(t) + 2} ELSE {}
    /\ Len(u) = Len(t) + 2 => Kids(u[Len(t) + 2]) = {}

\* A tree has grown by it, and siblings are in order.
LEMMA PlantedGrown ==
    ASSUME NEW t, NEW u, NEW x \in 1..Len(t), Tree(t), Sorted(t), Planted(t, u, x)
    PROVE  Grown(t, u, x) /\ Sorted(u)
<1>1. /\ u \in Seq(Node) /\ Len(t) \in Nat /\ Len(u) \in {Len(t) + 1, Len(t) + 2}
      /\ u[x].nType = t[x].nType /\ (IsWild(u[x]) <=> IsWild(t[x]))
      /\ u[x].maxParams = t[x].maxParams /\ u[x].priority = t[x].priority
      /\ \A m \in 1..Len(t) : m # x => u[m] = t[m]
  BY TreeIs DEF Planted
<1> DEFINE l == Len(t)
<1>2. /\ Kids(u[x]) = {l + 1}
      /\ Kids(u[l + 1]) = IF Len(u) = l + 2 THEN {l + 2} ELSE {}
      /\ Len(u) = l + 2 => Kids(u[l + 2]) = {}
  BY DEF Planted
<1>3. \A m \in Touched(t, u, x) :
         /\ ShapeOf(u[m]) /\ Len(u[m].children) \in {0, 1}
         /\ \A c \in Kids(u[m]) : IsWild(u[c]) <=> u[m].wildChild
  BY DEF Planted
<1>4. \A m \in Touched(t, u, x) : m = x \/ m = l + 1 \/ (Len(u) = l + 2 /\ m = l + 2)
  BY <1>1 DEF Touched
<1>5. Len(u) \in Nat /\ l \in Nat /\ Len(t) <= Len(u) /\ x # l + 1 /\ x # l + 2 /\ l + 1 # l + 2
  BY <1>1
<1>6. l + 1 \in (l + 1)..Len(u) /\ (Len(u) = l + 2 => l + 2 \in (l + 1)..Len(u))
  BY <1>1
<1> HIDE DEF l
<1>7. \A m \in Touched(t, u, x) : \A c \in Kids(u[m]) : c \in (l + 1)..Len(u)
  BY <1>2, <1>4, <1>6
<1>8. \A m \in Touched(t, u, x) :
        \A j, k \in 1..Len(u[m].children) : u[m].children[j] = u[m].children[k] => j = k
  <2> SUFFICES ASSUME NEW m \in Touched(t, u, x), NEW j \in 1..Len(u[m].children),
                      NEW k \in 1..Len(u[m].children)
      PROVE  j = k
    OBVIOUS
  <2>1. Len(u[m].children) \in {0, 1}
    BY <1>3
  <2> QED
    BY <2>1, UpToOne
<1>9. \A a, b \in Touched(t, u, x) : \A c \in Kids(u[a]) : c \in Kids(u[b]) => a = b
  <2> SUFFICES ASSUME NEW a \in Touched(t, u, x), NEW b \in Touched(t, u, x), NEW c \in Kids(u[a]),
                      c \in Kids(u[b])
      PROVE  a = b
    OBVIOUS
  <2>1. c = l + 1 => a = x /\ b = x
    BY <1>2, <1>4, <1>5
  <2>2. c # l + 1 => a = l + 1 /\ b = l + 1
    BY <1>2, <1>4
  <2> QED
    BY <2>1, <2>2
<1>10. Grown(t, u, x)
  BY <1>1, <1>3, <1>5, <1>7, <1>8, <1>9 DEF Grown, l
<1>11. ASSUME NEW m \in Touched(t, u, x)
       PROVE  SortedAt(u, m)
  <2>1. Len(u[m].children) \in {0, 1}
    BY <1>3
  <2>2. 2..Len(u[m].children) = {}
    BY <2>1, UpToOne
  <2> QED
    BY <2>2 DEF SortedAt
<1> QED
  BY <1>10, <1>11, GrownSorted

\* The chain is that of a parameter: its node, and the one behind it if the path goes on.
ParamPlanted(t, u, x, k) ==
    /\ Planted(t, u, x)
    /\ u[x].wildChild
    /\ u[x].path = t[x].path \/ WildIn(u[x].path, 1) = {}
    /\ IsWild(u[Len(t) + 1]) /\ ~u[Len(t) + 1].wildChild /\ u[Len(t) + 1].maxParams = k
    /\ Len(u) = Len(t) + 2 =>
         /\ OneIn(u[Len(t) + 1].path)
         /\ ~IsWild(u[Len(t) + 2]) /\ ~u[Len(t) + 2].wildChild
         /\ u[Len(t) + 2].maxParams = k - 1 /\ u[Len(t) + 2].path = <<>>

\* The tree with a parameter more, and room for what follows it.
LEMMA ParamKeeps ==
    ASSUME TreeInv, NEW d, Placing(nodes, node, path, numParams, i, offset, d), numParams > 0,
           nodes[node].children = <<>>,
           NEW u, ParamPlanted(nodes, u, node, numParams), NEW e,
           e = [m \in 1..Len(u) |-> IF m \in 1..Len(nodes) THEN d[m] ELSE d[node] + 1]
    PROVE  /\ Tree(u) /\ Sorted(u) /\ Roomy(u) /\ Deep(u, e) /\ OneWildcard(u, Len(u))
           /\ e[Len(u)] = d[node] + 1
           /\ panicked = {} => Tight(u, Len(u), numParams - 1)
<1> DEFINE l == Len(nodes)
<1>1. /\ Tree(nodes) /\ Sorted(nodes) /\ Roomy(nodes) /\ Deep(nodes, d) /\ OneWildcard(nodes, node)
      /\ node \in 1..l /\ l \in Nat /\ numParams \in Nat /\ numParams >= 1
      /\ node # Root => Own(nodes[node]) + numParams <= nodes[node].maxParams
      /\ panicked = {} => Tight(nodes, node, numParams)
  BY TreeInvGives DEF Placing
<1>2. Planted(nodes, u, node)
  BY DEF ParamPlanted
<1>3. Grown(nodes, u, node) /\ Sorted(u)
  BY <1>1, <1>2, PlantedGrown
<1>4. Tree(u)
  BY <1>1, <1>3, GrownTree
<1>5. /\ Len(u) \in {l + 1, l + 2} /\ ~IsWild(nodes[node]) /\ ~IsWild(u[node])
      /\ u[node].maxParams = nodes[node].maxParams
      /\ Kids(u[node]) = {l + 1}
      /\ Kids(u[l + 1]) = IF Len(u) = l + 2 THEN {l + 2} ELSE {}
      /\ Len(u) = l + 2 => Kids(u[l + 2]) = {}
  BY <1>2 DEF Planted
<1>6. /\ u[node].wildChild
      /\ u[node].path = nodes[node].path \/ WildIn(u[node].path, 1) = {}
      /\ IsWild(u[l + 1]) /\ ~u[l + 1].wildChild /\ u[l + 1].maxParams = numParams
  BY DEF ParamPlanted
<1>7. ASSUME Len(u) = l + 2
      PROVE  /\ OneIn(u[l + 1].path)
             /\ ~IsWild(u[l + 2]) /\ ~u[l + 2].wildChild
             /\ u[l + 2].maxParams = numParams - 1 /\ u[l + 2].path = <<>>
  BY <1>7 DEF ParamPlanted
<1>8. /\ Own(nodes[node]) = 0 /\ Own(u[node]) = 0 /\ Own(u[l + 1]) = 1
      /\ Len(u) = l + 2 => Own(u[l + 2]) = 0
  BY <1>5, <1>6, <1>7 DEF Own
<1>9. \A m \in Touched(nodes, u, node) : m = node \/ m = l + 1 \/ (Len(u) = l + 2 /\ m = l + 2)
  BY <1>1, <1>5 DEF Touched
<1>10. nodes[node].maxParams \in Nat
  BY TreeInvGives, NodeFields
<1>11. d \in [1..l -> 0..ParamLimit] /\ d[node] \in 0..ParamLimit /\ DeepAt(nodes, d, node)
  <2>1. d \in [1..l -> 0..ParamLimit] /\ DeepAt(nodes, d, node)
    BY <1>1 DEF Deep
  <2> QED
    BY <1>1, <2>1
<1>12. d[node] + 1 \in 0..ParamLimit /\ d[node] \in Nat
  <2>1. ParamLimit \in Nat /\ numParams <= ParamLimit - d[node]
    BY TreeInvGives, PlacedCounts
  <2> QED
    BY <1>1, <1>11, <2>1
<1>13. /\ e \in [1..Len(u) -> 0..ParamLimit]
       /\ \A m \in 1..l : e[m] = d[m]
       /\ e[l + 1] = d[node] + 1
       /\ Len(u) = l + 2 => e[l + 2] = d[node] + 1
       /\ e[Len(u)] = d[node] + 1
  <2>1. \A m \in 1..l : d[m] \in 0..ParamLimit
    BY <1>11
  <2>2. \A m \in 1..l : m \in 1..Len(u)
    BY <1>1, <1>5
  <2>3. /\ l + 1 \in 1..Len(u) /\ l + 1 \notin 1..l /\ l + 2 \notin 1..l
        /\ Len(u) = l + 2 => l + 2 \in 1..Len(u)
        /\ Len(u) \in 1..Len(u) /\ Len(u) \notin 1..l
    BY <1>1, <1>5
  <2>4. e = [m \in 1..Len(u) |-> IF m \in 1..l THEN d[m] ELSE d[node] + 1]
    OBVIOUS
  <2> HIDE DEF l
  <2>5. e \in [1..Len(u) -> 0..ParamLimit]
    BY <1>12, <2>1, <2>4
  <2>6. \A m \in 1..l : e[m] = d[m]
    BY <2>2, <2>4
  <2> QED
    BY <2>3, <2>4, <2>5, <2>6
<1> HIDE DEF l
<1>14. Roomy(u)
  <2>1. ASSUME node # Root
        PROVE  RoomyAt(u, node)
    BY <1>1, <1>5, <1>6, <1>8, <1>10, <2>1 DEF RoomyAt
  <2>2. RoomyAt(u, l + 1)
    <3>1. CASE Len(u) = l + 2
      BY <1>1, <1>5, <1>6, <1>7, <1>8, <3>1 DEF RoomyAt
    <3>2. CASE Len(u) # l + 2
      BY <1>1, <1>5, <1>6, <1>8, <3>2 DEF RoomyAt
    <3> QED
      BY <3>1, <3>2
  <2>3. ASSUME Len(u) = l + 2
        PROVE  RoomyAt(u, l + 2)
    BY <1>1, <1>5, <1>7, <1>8, <2>3 DEF RoomyAt
  <2>4. \A m \in Touched(nodes, u, node) : m # Root => RoomyAt(u, m)
    BY <1>9, <2>1, <2>2, <2>3
  <2> QED
    BY <1>1, <1>3, <2>4, GrownRoomy
<1>15. Deep(u, e)
  <2>1. DeepAt(u, e, node)
    <3>1. e[node] = d[node]
      BY <1>1, <1>13
    <3>2. \A c \in Kids(u[node]) : e[c] = e[node] + 1
      BY <1>5, <1>13, <3>1
    <3>3. WildIn(u[node].path, 1) # {} => e[node] = ParamLimit
      BY <1>5, <1>6, <1>11, <3>1 DEF DeepAt
    <3> QED
      BY <1>6, <3>2, <3>3 DEF DeepAt
  <2>2. DeepAt(u, e, l + 1)
    <3>1. \A c \in Kids(u[l + 1]) : e[c] = e[l + 1] + 0
      BY <1>5, <1>12, <1>13
    <3> QED
      BY <1>6, <3>1 DEF DeepAt
  <2>3. ASSUME Len(u) = l + 2
        PROVE  DeepAt(u, e, l + 2)
    <3>1. WildIn(u[l + 2].path, 1) = {}
      BY <1>7, <2>3 DEF WildIn
    <3> QED
      BY <1>5, <2>3, <3>1 DEF DeepAt
  <2>4. \A m \in Touched(nodes, u, node) : DeepAt(u, e, m)
    BY <1>9, <2>1, <2>2, <2>3
  <2>5. \A m \in 1..Len(nodes) : e[m] = d[m]
    BY <1>13 DEF l
  <2> QED
    BY <1>1, <1>3, <1>13, <2>4, <2>5, GrownDeep
<1>16. \A m \in 1..Len(u) : m = node \/ m = l + 1 \/ (Len(u) = l + 2 /\ m = l + 2)
                            \/ (m \in 1..l /\ m # node)
  <2>1. \A m \in 1..Len(u) : m \in Touched(nodes, u, node) \/ (m \in 1..l /\ m # node)
    BY <1>1, <1>3, GrownNodes DEF l
  <2> QED
    BY <1>9, <2>1
<1>17. OneWildcard(u, Len(u))
  <2> SUFFICES ASSUME NEW m \in 1..Len(u), m # Len(u), IsWild(u[m])
      PROVE  OneIn(u[m].path)
    BY DEF OneWildcard
  <2>1. CASE m = l + 1
    BY <1>5, <1>7, <2>1
  <2>2. CASE m \in 1..l /\ m # node
    <3>1. u[m] = nodes[m]
      BY <1>3, <2>2 DEF Grown, l
    <3> QED
      BY <1>1, <2>2, <3>1 DEF OneWildcard, l
  <2>3. m # node
    BY <1>5
  <2> QED
    BY <1>16, <2>1, <2>2, <2>3
<1>18. ASSUME panicked = {}
       PROVE  Tight(u, Len(u), numParams - 1)
  <2> SUFFICES ASSUME NEW m \in 2..Len(u)
      PROVE  Needed(u, m) \/ (m = Len(u) /\ u[m].maxParams <= Own(u[m]) + (numParams - 1))
    BY DEF Tight
  <2>1. CASE m = node
    <3>1. u[node].maxParams <= numParams
      <4>1. m \in 2..l
        BY <1>1, <2>1
      <4>2. Needed(nodes, node) \/ nodes[node].maxParams <= Own(nodes[node]) + numParams
        BY <1>1, <1>18, <2>1, <4>1 DEF Tight, l
      <4>3. Kids(nodes[node]) = {}
        BY NoKid
      <4> QED
        BY <1>1, <1>5, <1>8, <1>10, <4>2, <4>3 DEF Needed
    <3>2. u[node].maxParams <= Own(u[node]) + u[l + 1].maxParams
      BY <1>1, <1>6, <1>8, <3>1
    <3> QED
      BY <1>5, <2>1, <3>2 DEF Needed
  <2>2. CASE m = l + 1 /\ Len(u) = l + 2
    <3>1. l + 2 \in Kids(u[l + 1]) /\ u[l + 1].maxParams <= Own(u[l + 1]) + u[l + 2].maxParams
      BY <1>1, <1>5, <1>6, <1>7, <1>8, <2>2
    <3> QED
      BY <2>2, <3>1 DEF Needed
  <2>3. CASE m = l + 1 /\ Len(u) = l + 1
    BY <1>1, <1>6, <1>8, <2>3
  <2>4. CASE m = l + 2 /\ Len(u) = l + 2
    BY <1>1, <1>7, <1>8, <2>4
  <2>5. CASE m \in 1..l /\ m # node
    <3>1. m \in 2..l
      BY <1>1, <2>5
    <3>2. Needed(nodes, m)
      BY <1>1, <1>18, <2>5, <3>1 DEF Tight, l
    <3> QED
      BY <1>1, <1>3, <2>5, <3>2, GrownNeeded DEF l
  <2>6. m \in 1..Len(u) /\ Len(u) \in {l + 1, l + 2}
    BY <1>1, <1>5
  <2> QED
    BY <1>16, <2>1, <2>2, <2>3, <2>4, <2>5, <2>6
<1> QED
  BY <1>3, <1>4, <1>13, <1>14, <1>15, <1>17, <1>18

\* The next wildcard, and where it ends.
LEMMA WildcardFound ==
    ASSUME TreeInv, stage = "insert", Wildcards # {}, ~BadWildcard
    PROVE  /\ At \in i..Len(path) /\ At \in Nat /\ path[At] \in Wild
           /\ \A j \in i..(At - 1) : path[j] \notin Wild
           /\ End \in (At + 2)..(Len(path) + 1) /\ End \in Nat
           /\ \A j \in (At + 1)..(End - 1) : path[j] \notin Wild
           /\ nodes[node].children = <<>>
           /\ At = 1 => i = 1 /\ offset = 0
<1>1. PICK d : Placing(nodes, node, path, numParams, i, offset, d)
  BY PlacedIs
<1>2. i \in Nat /\ i >= 1 /\ Len(path) \in Nat /\ path \in Seq(STRING)
  BY <1>1, PlacedCounts, TreeInvGives
<1>3. Wildcards \in SUBSET Nat
  BY <1>2 DEF Wildcards
<1>4. At \in Wildcards /\ \A j \in Wildcards : At <= j
  BY <1>3, LeastOf DEF At
<1>5. At \in i..Len(path) /\ path[At] \in Wild /\ At \in Nat
  BY <1>2, <1>4 DEF Wildcards
<1>6. ASSUME NEW j \in i..(At - 1)
      PROVE  path[j] \notin Wild
  <2>1. j \in i..Len(path) /\ ~(At <= j)
    BY <1>2, <1>5
  <2> QED
    BY <1>4, <2>1 DEF Wildcards
<1> DEFINE ends == {j \in (At + 1)..(Len(path) + 1) : j > Len(path) \/ path[j] = "/"}
<1>7. End = Min(ends)
  BY DEF End
<1>8. ends \in SUBSET Nat /\ Len(path) + 1 \in ends
  BY <1>2, <1>5
<1> HIDE DEF ends
<1>9. End \in ends
  BY <1>7, <1>8, LeastOf
<1>10. End \in (At + 1)..(Len(path) + 1)
  BY <1>9 DEF ends
<1>11. ~(End - At < 2) /\ nodes[node].children = <<>>
       /\ \A j \in (At + 1)..(End - 1) : path[j] \notin Wild
  BY DEF BadWildcard
<1>12. End \in (At + 2)..(Len(path) + 1) /\ End \in Nat
  BY <1>2, <1>5, <1>10, <1>11
<1>13. At = 1 => i = 1 /\ offset = 0
  <2>1. i = 1 => offset = 0
    BY <1>1 DEF Placing
  <2> QED
    BY <1>2, <1>5, <2>1
<1> QED
  BY <1>5, <1>6, <1>11, <1>12, <1>13

\* Behind it there is one less.
LEMMA OneLess ==
    ASSUME TreeInv, stage = "insert", numParams > 0, Wildcards # {}, ~BadWildcard,
           NEW d, Placing(nodes, node, path, numParams, i, offset, d)
    PROVE  numParams - 1 = Least(Cardinality(WildIn(path, At + 1)), ParamLimit - (d[node] + 1))
<1>1. /\ At \in i..Len(path) /\ At \in Nat /\ path[At] \in Wild
      /\ \A j \in i..(At - 1) : path[j] \notin Wild
  BY WildcardFound
<1>2. i \in Nat /\ Len(path) \in Nat /\ path \in Seq(STRING) /\ numParams \in Nat
  BY PlacedCounts, TreeInvGives
<1>3. Cardinality(WildIn(path, i)) = Cardinality(WildIn(path, At + 1)) + 1
  <2>1. At \in i..((At + 1) - 1) /\ At + 1 <= Len(path) + 1 /\ At + 1 \in Nat
    BY <1>1, <1>2
  <2>2. \A j \in i..((At + 1) - 1) : j = At \/ j \in i..(At - 1)
    BY <1>1, <1>2
  <2>3. \A j \in i..((At + 1) - 1) : path[j] \in Wild <=> j = At
    BY <1>1, <2>2
  <2> HIDE DEF At
  <2> QED
    BY <1>2, <2>1, <2>3, WildInPastOne
<1>4. Cardinality(WildIn(path, At + 1)) \in Nat
  <2>1. At + 1 \in Nat
    BY <1>1
  <2> QED
    BY <1>2, <2>1, WildInFinite
<1>5. /\ numParams = Least(Cardinality(WildIn(path, i)), ParamLimit - d[node])
      /\ ParamLimit - d[node] \in Nat /\ d[node] \in Nat /\ ParamLimit \in Nat
  BY PlacedCounts, TreeInvGives DEF Placing
<1> HIDE DEF At
<1> QED
  BY <1>2, <1>3, <1>4, <1>5 DEF Least

\* A part of a path.
LEMMA PartOf ==
    ASSUME NEW s \in Seq(STRING), NEW k \in Nat, NEW l \in Nat, k >= 1, l <= Len(s)
    PROVE  /\ SubSeq(s, k, l) \in Seq(STRING)
           /\ \A j \in 1..Len(SubSeq(s, k, l)) : SubSeq(s, k, l)[j] = s[j + k - 1]
           /\ \A j \in 1..Len(SubSeq(s, k, l)) : j + k - 1 \in k..l
<1>1. CASE k <= l + 1
  <2>1. k \in 1..(Len(s) + 1) /\ l \in 0..Len(s)
    BY <1>1, LenProperties
  <2>2. /\ SubSeq(s, k, l) \in Seq(STRING) /\ Len(SubSeq(s, k, l)) = l + 1 - k
        /\ \A j \in 1..(l + 1 - k) : SubSeq(s, k, l)[j] = s[j + k - 1]
    BY <1>1, <2>1, PartIs
  <2>3. \A j \in 1..(l + 1 - k) : j + k - 1 \in k..l
    BY <1>1
  <2> QED
    BY <2>2, <2>3
<1>2. CASE k > l + 1
  <2>1. SubSeq(s, k, l) = <<>>
    BY <1>2
  <2> QED
    BY <2>1, EmptyIs
<1> QED
  BY <1>1, <1>2

\* A part without wildcards.
LEMMA NoWildPart ==
    ASSUME NEW s \in Seq(STRING), NEW k \in Nat, NEW l \in Nat, k >= 1, l <= Len(s),
           \A j \in k..l : s[j] \notin Wild
    PROVE  SubSeq(s, k, l) \in Seq(STRING) /\ WildIn(SubSeq(s, k, l), 1) = {}
<1> DEFINE v == SubSeq(s, k, l)
<1>1. /\ v \in Seq(STRING) /\ \A j \in 1..Len(v) : v[j] = s[j + k - 1]
      /\ \A j \in 1..Len(v) : j + k - 1 \in k..l
  BY PartOf
<1> HIDE DEF v
<1>2. \A j \in 1..Len(v) : v[j] \notin Wild
  BY <1>1
<1>3. WildIn(v, 1) = {}
  BY <1>2 DEF WildIn
<1> QED
  BY <1>1, <1>3 DEF v

\* A part that begins with the only one.
LEMMA OneWildPart ==
    ASSUME NEW s \in Seq(STRING), NEW k \in Nat, NEW l \in Nat, k >= 1, l <= Len(s), k <= l,
           s[k] \in Wild, \A j \in (k + 1)..l : s[j] \notin Wild
    PROVE  SubSeq(s, k, l) \in Seq(STRING) /\ OneIn(SubSeq(s, k, l))
<1> DEFINE v == SubSeq(s, k, l)
<1>1. k \in 1..(Len(s) + 1) /\ l \in 0..Len(s) /\ k <= l + 1
  BY LenProperties
<1>2. v \in Seq(STRING) /\ Len(v) = l + 1 - k /\ \A j \in 1..(l + 1 - k) : v[j] = s[j + k - 1]
  BY <1>1, PartIs
<1> HIDE DEF v
<1>3. 1 \in 1..Len(v)
  BY <1>2
<1>4. ASSUME NEW j \in 1..Len(v)
      PROVE  v[j] \in Wild <=> j = 1
  <2>1. v[j] = s[j + k - 1]
    BY <1>2
  <2>2. CASE j = 1
    <3>1. j + k - 1 = k
      BY <2>2
    <3> QED
      BY <2>1, <2>2, <3>1
  <2>3. CASE j # 1
    <3>1. j + k - 1 \in (k + 1)..l
      BY <1>2, <2>3
    <3> QED
      BY <2>1, <2>3, <3>1
  <2> QED
    BY <2>2, <2>3
<1> QED
  BY <1>2, <1>3, <1>4 DEF OneIn, v

\* A node with a parameter below it.
Parted(e, f, a) ==
    /\ SameBut(e, f, {"path", "children", "wildChild"}) /\ f.children = <<a>> /\ f.wildChild

\* What x is before it gets its wildcard, and with it.
Ready(e) == ~IsWild(e) /\ ~e.wildChild /\ e.children = <<>>
Gated(e, f, a) ==
    /\ ShapeOf(f) /\ Kids(f) = {a} /\ Len(f.children) = 1 /\ ~IsWild(f) /\ f.wildChild
    /\ f.nType = e.nType /\ f.maxParams = e.maxParams /\ f.priority = e.priority
    /\ ~IsWild(e)

\* A node that was ready for it.
LEMMA PartedIs ==
    ASSUME NEW t, Tree(t), NEW x \in 1..Len(t), Ready(t[x]), NEW f, NEW a \in Nat, Parted(t[x], f, a)
    PROVE  Gated(t[x], f, a)
<1>1. /\ f.nType = t[x].nType /\ f.maxParams = t[x].maxParams /\ f.priority = t[x].priority
      /\ f.indices = t[x].indices /\ f.children = <<a>> /\ f.wildChild
  BY DEF Parted, SameBut
<1>2. f.nType \notin {"param", "catchAll"} /\ ~IsWild(f) /\ ~IsWild(t[x])
  BY <1>1 DEF IsWild, Ready
<1>3. Kids(f) = {a} /\ Len(f.children) = 1
  BY <1>1, OneKid
<1>4. Len(f.indices) <= Len(f.children)
  <2>1. Len(t[x].indices) <= Len(t[x].children) /\ Len(t[x].children) = 0 /\ t[x] \in Node
    BY NoKid, TreeIs, KidsIn DEF Tree, Shaped, ShapeOf, Ready
  <2>2. Len(t[x].indices) \in Nat
    BY <2>1, NodeFields
  <2> QED
    BY <1>1, <1>3, <2>1, <2>2
<1>5. ShapeOf(f)
  BY <1>1, <1>2, <1>3, <1>4 DEF ShapeOf
<1> QED
  BY <1>1, <1>2, <1>3, <1>5 DEF Gated

\* A node that has nothing yet.
Bare(e) == ~e.wildChild /\ e.indices = <<>>

\* A bare node is in shape.
LEMMA FreshShape ==
    ASSUME NEW e, Bare(e), Len(e.children) \in {0, 1}, e.nType = "param" \/ e.children = <<>>
    PROVE  ShapeOf(e)
<1>1. Len(e.indices) = 0 /\ Len(e.indices) <= Len(e.children) /\ Len(e.children) <= 1
  <2>1. e.indices = <<>>
    BY DEF Bare
  <2>2. Len(e.indices) = 0
    BY <2>1, EmptyIs
  <2>3. \A l \in {0, 1} : 0 <= l /\ l <= 1
    OBVIOUS
  <2> QED
    BY <2>2, <2>3
<1>2. e.nType # "param" => Len(e.indices) = Len(e.children)
  BY <1>1, NoKid
<1> QED
  BY <1>1, <1>2 DEF ShapeOf, Bare

\* The new nodes are bare.
LEMMA FreshFields ==
    ASSUME NEW ty \in {"static", "root", "param", "catchAll"}, NEW k \in 0..ParamLimit
    PROVE  /\ Fresh(ty, k) \in Node /\ Bare(Fresh(ty, k)) /\ Fresh(ty, k).nType = ty
           /\ Fresh(ty, k).maxParams = k /\ Fresh(ty, k).children = <<>> /\ Fresh(ty, k).path = <<>>
           /\ Blank(k) \in Node /\ Bare(Blank(k)) /\ Blank(k).nType = "static"
           /\ Blank(k).maxParams = k /\ Blank(k).children = <<>> /\ Blank(k).path = <<>>
  BY FreshIs, NewNodeIs DEF SameBut, Bare

\* One node more, or two, and x altered.
OneNew(t, u, x, f, g) ==
    /\ u \in Seq(Node) /\ Len(u) = Len(t) + 1
    /\ u[x] = f /\ u[Len(t) + 1] = g
    /\ \A m \in 1..Len(t) : m # x => u[m] = t[m]
TwoNew(t, u, x, f, g, h) ==
    /\ u \in Seq(Node) /\ Len(u) = Len(t) + 2
    /\ u[x] = f /\ u[Len(t) + 1] = g /\ u[Len(t) + 2] = h
    /\ \A m \in 1..Len(t) : m # x => u[m] = t[m]

\* EXCEPT and Append.
LEMMA OneNewIs ==
    ASSUME NEW t \in Seq(Node), NEW x \in 1..Len(t), NEW f \in Node, NEW g \in Node
    PROVE  OneNew(t, Append([t EXCEPT ![x] = f], g), x, f, g)
<1> DEFINE q == [t EXCEPT ![x] = f]
           u == Append(q, g)
<1>1. /\ q \in Seq(Node) /\ Len(q) = Len(t) /\ q[x] = f /\ \A m \in 1..Len(t) : m # x => q[m] = t[m]
  OBVIOUS
<1> HIDE DEF q
<1>2. /\ u \in Seq(Node) /\ Len(u) = Len(q) + 1 /\ u[Len(q) + 1] = g
      /\ \A m \in 1..Len(q) : u[m] = q[m]
  <2>1. q \in Seq(Node) /\ g \in Node
    BY <1>1
  <2> QED
    BY <2>1, AppendIs
<1> HIDE DEF u
<1>3. OneNew(t, u, x, f, g)
  BY <1>1, <1>2 DEF OneNew
<1> QED
  BY <1>3 DEF u, q

\* EXCEPT and \o.
LEMMA TwoNewIs ==
    ASSUME NEW t \in Seq(Node), NEW x \in 1..Len(t), NEW f \in Node, NEW g \in Node, NEW h \in Node
    PROVE  TwoNew(t, [t EXCEPT ![x] = f] \o <<g, h>>, x, f, g, h)
<1> DEFINE q == [t EXCEPT ![x] = f]
           u == q \o <<g, h>>
<1>1. /\ q \in Seq(Node) /\ Len(q) = Len(t) /\ q[x] = f /\ \A m \in 1..Len(t) : m # x => q[m] = t[m]
  OBVIOUS
<1> HIDE DEF q
<1>2. /\ u \in Seq(Node) /\ Len(u) = Len(q) + 2 /\ u[Len(q) + 1] = g /\ u[Len(q) + 2] = h
      /\ \A m \in 1..Len(q) : u[m] = q[m]
  <2>1. q \in Seq(Node) /\ g \in Node
    BY <1>1
  <2> QED
    BY <2>1, TwoMore
<1> HIDE DEF u
<1>3. TwoNew(t, u, x, f, g, h)
  BY <1>1, <1>2 DEF TwoNew
<1> QED
  BY <1>3 DEF u, q

\* The node of a parameter.
Param(g, k) ==
    /\ g \in Node /\ Bare(g) /\ g.nType = "param" /\ g.maxParams = k

\* The path ends with the parameter,
LEMMA OnePlanted ==
    ASSUME NEW t, Tree(t), NEW x \in 1..Len(t), Ready(t[x]),
           NEW f, Parted(t[x], f, Len(t) + 1), f.path = t[x].path \/ WildIn(f.path, 1) = {},
           NEW k, NEW g, Param(g, k), g.children = <<>>, NEW u, OneNew(t, u, x, f, g)
    PROVE  ParamPlanted(t, u, x, k)
<1> DEFINE l == Len(t)
<1>1. l \in Nat /\ l + 1 \in Nat
  BY TreeIs
<1>2. /\ ShapeOf(f) /\ Kids(f) = {l + 1} /\ Len(f.children) = 1 /\ ~IsWild(f) /\ f.wildChild
      /\ f.nType = t[x].nType /\ f.maxParams = t[x].maxParams /\ f.priority = t[x].priority
      /\ ~IsWild(t[x])
  <2>1. Gated(t[x], f, l + 1)
    <3>1. Parted(t[x], f, l + 1)
      OBVIOUS
    <3> HIDE DEF l
    <3> QED
      BY <1>1, <3>1, PartedIs
  <2> QED
    BY <2>1 DEF Gated
<1>3. Kids(g) = {} /\ Len(g.children) = 0 /\ IsWild(g) /\ ~g.wildChild /\ ShapeOf(g) /\ g.maxParams = k
  BY NoKid, FreshShape DEF Param, Bare, IsWild
<1>4. /\ u \in Seq(Node) /\ Len(u) = l + 1 /\ u[l + 1] = g /\ u[x] = f
      /\ \A m \in 1..l : m # x => u[m] = t[m]
  BY DEF OneNew
<1>5. \A m \in Touched(t, u, x) : m = x \/ m = l + 1
  BY <1>1, <1>4 DEF Touched
<1>6. Len(u) # l + 2
  BY <1>1, <1>4
<1> HIDE DEF l
<1>7. \A m \in Touched(t, u, x) :
         /\ ShapeOf(u[m]) /\ Len(u[m].children) \in {0, 1}
         /\ \A c \in Kids(u[m]) : IsWild(u[c]) <=> u[m].wildChild
  BY <1>2, <1>3, <1>4, <1>5
<1>8. Planted(t, u, x)
  BY <1>2, <1>3, <1>4, <1>6, <1>7 DEF Planted, l
<1> QED
  BY <1>2, <1>3, <1>4, <1>6, <1>8 DEF ParamPlanted, l

\* or goes on behind it.
LEMMA TwoPlanted ==
    ASSUME NEW t, Tree(t), NEW x \in 1..Len(t), Ready(t[x]),
           NEW f, Parted(t[x], f, Len(t) + 1), f.path = t[x].path \/ WildIn(f.path, 1) = {},
           NEW k, NEW g, Param(g, k), g.children = <<Len(t) + 2>>, OneIn(g.path),
           NEW h, Bare(h), h.nType = "static", h.maxParams = k - 1, h.children = <<>>, h.path = <<>>,
           NEW u, TwoNew(t, u, x, f, g, h)
    PROVE  ParamPlanted(t, u, x, k)
<1> DEFINE l == Len(t)
<1>1. l \in Nat /\ l + 1 \in Nat /\ l + 2 \in Nat
  BY TreeIs
<1>2. /\ ShapeOf(f) /\ Kids(f) = {l + 1} /\ Len(f.children) = 1 /\ ~IsWild(f) /\ f.wildChild
      /\ f.nType = t[x].nType /\ f.maxParams = t[x].maxParams /\ f.priority = t[x].priority
      /\ ~IsWild(t[x])
  <2>1. Gated(t[x], f, l + 1)
    <3>1. Parted(t[x], f, l + 1)
      OBVIOUS
    <3> HIDE DEF l
    <3> QED
      BY <1>1, <3>1, PartedIs
  <2> QED
    BY <2>1 DEF Gated
<1>3. Kids(g) = {l + 2} /\ Len(g.children) = 1
  <2>1. g.children = <<l + 2>>
    OBVIOUS
  <2> HIDE DEF l
  <2> QED
    BY <1>1, <2>1, OneKid
<1>4. IsWild(g) /\ ~g.wildChild /\ ShapeOf(g) /\ g.maxParams = k
  BY <1>3, FreshShape DEF Param, Bare, IsWild
<1>5. Kids(h) = {} /\ Len(h.children) = 0 /\ ~IsWild(h) /\ ~h.wildChild /\ ShapeOf(h)
  BY NoKid, FreshShape DEF Bare, IsWild
<1>6. /\ u \in Seq(Node) /\ Len(u) = l + 2 /\ u[l + 1] = g /\ u[l + 2] = h /\ u[x] = f
      /\ \A m \in 1..l : m # x => u[m] = t[m]
  BY DEF TwoNew
<1>7. \A m \in Touched(t, u, x) : m = x \/ m = l + 1 \/ m = l + 2
  BY <1>1, <1>6 DEF Touched
<1> HIDE DEF l
<1>8. \A m \in Touched(t, u, x) :
         /\ ShapeOf(u[m]) /\ Len(u[m].children) \in {0, 1}
         /\ \A c \in Kids(u[m]) : IsWild(u[c]) <=> u[m].wildChild
  <2> SUFFICES ASSUME NEW m \in Touched(t, u, x)
      PROVE  /\ ShapeOf(u[m]) /\ Len(u[m].children) \in {0, 1}
             /\ \A c \in Kids(u[m]) : IsWild(u[c]) <=> u[m].wildChild
    OBVIOUS
  <2>1. CASE m = x
    BY <1>2, <1>4, <1>6, <2>1
  <2>2. CASE m = l + 1
    BY <1>3, <1>4, <1>5, <1>6, <2>2
  <2>3. CASE m = l + 2
    BY <1>5, <1>6, <2>3
  <2> QED
    BY <1>7, <2>1, <2>2, <2>3
<1>9. Planted(t, u, x)
  BY <1>2, <1>3, <1>5, <1>6, <1>8 DEF Planted, l
<1> QED
  BY <1>2, <1>4, <1>5, <1>6, <1>9 DEF ParamPlanted, l

\* insertChild makes the nodes of a parameter.
LEMMA InsertParamKeeps ==
    ASSUME TreeInv, InsertParam
    PROVE  TreeInv'
<1> DEFINE l == Len(nodes)
           start == IF At > 1 THEN At - 1 ELSE offset
           above == IF At > 1 THEN SubSeq(path, offset + 1, At - 1) ELSE nodes[node].path
           f == Parting(nodes[node], above, <<l + 1>>)
           g == Fresh("param", numParams)
           named == Bearing(g, SubSeq(path, start + 1, End - 1), <<l + 2>>)
           h == Blank(numParams - 1)
           one == Append([nodes EXCEPT ![node] = f], g)
           two == [nodes EXCEPT ![node] = f] \o <<named, h>>
<1>1. PICK d : Placing(nodes, node, path, numParams, i, offset, d)
  BY PlacedIs DEF InsertParam
<1>2. /\ stage = "insert" /\ numParams > 0 /\ Wildcards # {} /\ ~BadWildcard /\ full \in Routes
  BY PlacedIs DEF InsertParam
<1>3. /\ Tree(nodes) /\ nodes \in Seq(Node) /\ node \in 1..l /\ nodes[node] \in Node
      /\ l \in Nat /\ path \in Seq(STRING) /\ Len(path) \in Nat
      /\ numParams \in 0..ParamLimit /\ numParams \in Nat /\ numParams >= 1
  BY <1>2, TreeInvGives, TreeIs
<1>4. /\ At \in i..Len(path) /\ At \in Nat /\ path[At] \in Wild
      /\ \A j \in i..(At - 1) : path[j] \notin Wild
      /\ End \in (At + 2)..(Len(path) + 1) /\ End \in Nat
      /\ \A j \in (At + 1)..(End - 1) : path[j] \notin Wild
      /\ nodes[node].children = <<>>
      /\ At = 1 => i = 1 /\ offset = 0
  BY <1>2, WildcardFound
<1>5. /\ i \in Nat /\ i >= 1 /\ offset \in Nat /\ offset <= Len(path)
  BY <1>1, PlacedCounts
<1>6. Decremented = numParams - 1 /\ numParams - 1 \in 0..ParamLimit
  BY <1>3, DecrementedIs
<1>7. ~IsWild(nodes[node]) /\ ~nodes[node].wildChild /\ offset >= i - 1
  BY <1>1, <1>2, ParamsLeft DEF Placing
<1>8. Ready(nodes[node])
  BY <1>4, <1>7 DEF Ready
<1>9. start = At - 1
  BY <1>4, <1>5
<1>10. IF End <= Len(path)
       THEN nodes' = two /\ node' = l + 2 /\ offset' = End - 1
       ELSE nodes' = one /\ node' = l + 1 /\ offset' = At - 1
  <2> DEFINE param == [NewNode EXCEPT !.nType = "param", !.maxParams = numParams, !.priority = 1]
             t == [nodes EXCEPT ![node].path = above, ![node].children = <<l + 1>>,
                                ![node].wildChild = TRUE]
  <2>1. t = [nodes EXCEPT ![node] = f]
    <3> HIDE DEF above
    <3> QED
      BY <1>3 DEF Parting
  <2>2. param = g
    BY DEF Fresh
  <2>3. IF End <= Len(path)
        THEN /\ nodes' = t \o <<[param EXCEPT !.path = SubSeq(path, start + 1, End - 1),
                                              !.children = <<(l + 1) + 1>>],
                                [NewNode EXCEPT !.maxParams = Decremented, !.priority = 1]>>
             /\ node' = (l + 1) + 1 /\ offset' = End - 1
        ELSE nodes' = Append(t, param) /\ node' = l + 1 /\ offset' = start
    BY DEF InsertParam
  <2>4. (l + 1) + 1 = l + 2
    BY <1>3
  <2>5. [NewNode EXCEPT !.maxParams = Decremented, !.priority = 1] = h
    BY <1>6 DEF Blank
  <2>6. [param EXCEPT !.path = SubSeq(path, start + 1, End - 1), !.children = <<(l + 1) + 1>>] = named
    BY <2>2, <2>4 DEF Bearing
  <2> HIDE DEF param, t, start, above, f, g, named, h, l
  <2> QED
    BY <1>9, <2>1, <2>2, <2>3, <2>4, <2>5, <2>6 DEF one, two
<1>11. /\ path' = path /\ numParams' = numParams - 1 /\ i' = At + 1 /\ stage' = "insert"
       /\ UNCHANGED <<locals, outcome>>
  BY <1>2, <1>6 DEF InsertParam
<1>12. above \in Seq(STRING) /\ (above = nodes[node].path \/ WildIn(above, 1) = {})
  <2>1. CASE At > 1
    <3>1. offset + 1 \in Nat /\ At - 1 \in Nat /\ offset + 1 >= 1 /\ At - 1 <= Len(path)
      BY <1>4, <1>5, <2>1
    <3>2. \A j \in (offset + 1)..(At - 1) : j \in i..(At - 1)
      BY <1>4, <1>5, <1>7
    <3>3. \A j \in (offset + 1)..(At - 1) : path[j] \notin Wild
      BY <1>4, <3>2
    <3> HIDE DEF At
    <3>4. /\ SubSeq(path, offset + 1, At - 1) \in Seq(STRING)
          /\ WildIn(SubSeq(path, offset + 1, At - 1), 1) = {}
      BY <1>3, <3>1, <3>3, NoWildPart
    <3> QED
      BY <2>1, <3>4
  <2>2. CASE ~(At > 1)
    BY <1>3, <2>2, NodeFields
  <2> QED
    BY <2>1, <2>2
<1> HIDE DEF above
<1>13. /\ f \in Node /\ Parted(nodes[node], f, l + 1)
       /\ f.path = nodes[node].path \/ WildIn(f.path, 1) = {}
  <2>1. l + 1 \in Nat /\ <<l + 1>> \in Seq(Nat)
    BY <1>3, OneOf
  <2>2. /\ SameBut(nodes[node], f, {"path", "children", "wildChild"})
        /\ f.path = above /\ f.children = <<l + 1>> /\ f.wildChild
    BY <1>3, <1>12, <2>1, PartingIs
  <2> HIDE DEF f
  <2> QED
    BY <1>12, <2>2 DEF Parted, SameBut
<1>14. Param(g, numParams) /\ g.children = <<>> /\ g \in Node
  <2>1. "param" \in {"static", "root", "param", "catchAll"}
    OBVIOUS
  <2> QED
    BY <1>3, <2>1, FreshFields DEF Param
<1>15. /\ h \in Node /\ Bare(h) /\ h.nType = "static" /\ h.maxParams = numParams - 1
       /\ h.children = <<>> /\ h.path = <<>>
  <2>1. "param" \in {"static", "root", "param", "catchAll"}
    OBVIOUS
  <2> QED
    BY <1>6, <2>1, FreshFields
<1> HIDE DEF f, g, h
<1>16. At \in 1..Len(path) /\ At + 1 \in 1..(Len(path) + 1) /\ At + 1 >= 2 /\ At + 1 # 1
       /\ At - 1 \in 0..Len(path) /\ At - 1 = (At + 1) - 2 /\ path[(At + 1) - 1] \in Wild
  <2>1. PICK a \in Nat : a = At /\ a >= 1 /\ a <= Len(path)
    BY <1>3, <1>4, <1>5
  <2> HIDE DEF At
  <2>2. (At + 1) - 1 = At
    BY <2>1
  <2>3. path[(At + 1) - 1] \in Wild
    BY <1>4, <2>2
  <2>4. /\ At \in 1..Len(path) /\ At + 1 \in 1..(Len(path) + 1) /\ At + 1 >= 2 /\ At + 1 # 1
        /\ At - 1 \in 0..Len(path) /\ At - 1 = (At + 1) - 2
    BY <1>3, <2>1
  <2> QED
    BY <2>3, <2>4
<1>17. numParams - 1 = Least(Cardinality(WildIn(path, At + 1)), ParamLimit - (d[node] + 1))
  BY <1>1, <1>2, OneLess
<1>18. CASE End <= Len(path)
  <2>1. /\ Param(named, numParams) /\ named.children = <<l + 2>> /\ OneIn(named.path)
        /\ named \in Node
    <3> DEFINE s == SubSeq(path, start + 1, End - 1)
    <3>1. s \in Seq(STRING) /\ OneIn(s)
      <4>1. start + 1 = At /\ At >= 1 /\ End - 1 \in Nat /\ End - 1 <= Len(path) /\ At <= End - 1
        BY <1>3, <1>4, <1>9, <1>16
      <4> HIDE DEF start, At, End
      <4> QED
        BY <1>3, <1>4, <4>1, OneWildPart
    <3> HIDE DEF s
    <3>2. l + 2 \in Nat /\ <<l + 2>> \in Seq(Nat)
      BY <1>3, OneOf
    <3>3. SameBut(g, named, {"path", "children"}) /\ named.path = s /\ named.children = <<l + 2>>
      BY <1>14, <3>1, <3>2, BearingIs DEF s
    <3> HIDE DEF named
    <3> QED
      BY <1>14, <3>1, <3>3 DEF Param, Bare, SameBut
  <2> HIDE DEF named
  <2>2. TwoNew(nodes, two, node, f, named, h)
    BY <1>3, <1>13, <1>15, <2>1, TwoNewIs
  <2> HIDE DEF two
  <2>3. ParamPlanted(nodes, two, node, numParams)
    BY <1>3, <1>8, <1>13, <1>15, <2>1, <2>2, TwoPlanted
  <2> DEFINE e == [m \in 1..Len(two) |-> IF m \in 1..Len(nodes) THEN d[m] ELSE d[node] + 1]
  <2>4. Len(two) = l + 2 /\ two[l + 2] = h
    BY <2>2 DEF TwoNew
  <2>5. /\ Tree(two) /\ Sorted(two) /\ Roomy(two) /\ Deep(two, e) /\ OneWildcard(two, Len(two))
        /\ e[Len(two)] = d[node] + 1
        /\ panicked = {} => Tight(two, Len(two), numParams - 1)
    BY <1>1, <1>2, <1>4, <2>3, ParamKeeps
  <2> HIDE DEF e
  <2>6. ~IsWild(h) /\ ~h.wildChild /\ Own(h) = 0
    BY <1>15 DEF Bare, IsWild, Own
  <2>7. l + 2 \in 1..Len(two) /\ Own(two[l + 2]) + (numParams - 1) <= two[l + 2].maxParams
    BY <1>3, <1>15, <2>4, <2>6
  <2>8. End - 1 \in 0..Len(path) /\ End - 1 >= (At + 1) - 1
    BY <1>3, <1>4, <1>18
  <2>9. Placing(two, l + 2, path, numParams - 1, At + 1, End - 1, e)
    <3> HIDE DEF l, At, End
    <3>1. ~two[l + 2].wildChild /\ ~IsWild(two[l + 2])
      BY <2>4, <2>6
    <3> QED
      BY <1>3, <1>6, <1>16, <1>17, <2>4, <2>5, <2>7, <2>8, <3>1 DEF Placing
  <2> HIDE DEF l, At, End
  <2> QED
    BY <1>2, <1>10, <1>11, <1>18, <2>9, PlaceKeeps
<1>19. CASE ~(End <= Len(path))
  <2>1. OneNew(nodes, one, node, f, g)
    BY <1>3, <1>13, <1>14, OneNewIs
  <2> HIDE DEF one
  <2>2. ParamPlanted(nodes, one, node, numParams)
    BY <1>3, <1>8, <1>13, <1>14, <2>1, OnePlanted
  <2> DEFINE e == [m \in 1..Len(one) |-> IF m \in 1..Len(nodes) THEN d[m] ELSE d[node] + 1]
  <2>3. Len(one) = l + 1 /\ one[l + 1] = g
    BY <2>1 DEF OneNew
  <2>4. /\ Tree(one) /\ Sorted(one) /\ Roomy(one) /\ Deep(one, e) /\ OneWildcard(one, Len(one))
        /\ e[Len(one)] = d[node] + 1
        /\ panicked = {} => Tight(one, Len(one), numParams - 1)
    BY <1>1, <1>2, <1>4, <2>2, ParamKeeps
  <2> HIDE DEF e
  <2>5. IsWild(g) /\ ~g.wildChild /\ Own(g) = 1 /\ g.maxParams = numParams
    BY <1>14 DEF Param, Bare, IsWild, Own
  <2>6. l + 1 \in 1..Len(one) /\ Own(one[l + 1]) + (numParams - 1) <= one[l + 1].maxParams
    BY <1>3, <2>3, <2>5
  <2>7. WildIn(path, At + 1) = {}
    <3>1. \A j \in (At + 1)..Len(path) : j \in (At + 1)..(End - 1)
      BY <1>3, <1>4, <1>19
    <3> QED
      BY <1>4, <3>1 DEF WildIn
  <2>8. Placing(one, l + 1, path, numParams - 1, At + 1, At - 1, e)
    <3> HIDE DEF l, At, End
    <3>1. ~one[l + 1].wildChild /\ IsWild(one[l + 1])
      BY <2>3, <2>5
    <3> QED
      BY <1>3, <1>6, <1>16, <1>17, <2>3, <2>4, <2>6, <2>7, <3>1 DEF Placing
  <2> HIDE DEF l, At, End
  <2> QED
    BY <1>2, <1>10, <1>11, <1>19, <2>8, PlaceKeeps
<1> QED
  BY <1>18, <1>19

\* The nodes of a catch-all below x.
CatchAllPlanted(t, u, x) ==
    /\ Planted(t, u, x) /\ Len(u) = Len(t) + 2
    /\ ~u[x].wildChild /\ WildIn(u[x].path, 1) = {}
    /\ ~IsWild(u[Len(t) + 1]) /\ u[Len(t) + 1].wildChild /\ u[Len(t) + 1].maxParams = 1
    /\ u[Len(t) + 1].path = <<>>
    /\ IsWild(u[Len(t) + 2]) /\ ~u[Len(t) + 2].wildChild /\ u[Len(t) + 2].maxParams = 1
    /\ OneIn(u[Len(t) + 2].path)

\* The tree with a catch-all more, which ends the route.
LEMMA CatchAllKeeps ==
    ASSUME TreeInv, NEW d, Placing(nodes, node, path, numParams, i, offset, d), numParams = 1,
           nodes[node].children = <<>>, NEW u, CatchAllPlanted(nodes, u, node)
    PROVE  Settled(u) /\ (panicked = {} => Tight(u, Root, 0))
<1> DEFINE l == Len(nodes)
           e == [m \in 1..Len(u) |-> IF m \in 1..l THEN d[m]
                                     ELSE IF m = l + 1 THEN d[node] ELSE d[node] + 1]
<1>1. /\ Tree(nodes) /\ Sorted(nodes) /\ Roomy(nodes) /\ Deep(nodes, d) /\ OneWildcard(nodes, node)
      /\ node \in 1..l /\ l \in Nat
      /\ node # Root => Own(nodes[node]) + 1 <= nodes[node].maxParams
      /\ panicked = {} => Tight(nodes, node, 1)
  BY TreeInvGives DEF Placing
<1>2. Planted(nodes, u, node)
  BY DEF CatchAllPlanted
<1>3. Grown(nodes, u, node) /\ Sorted(u)
  BY <1>1, <1>2, PlantedGrown
<1>4. Tree(u)
  BY <1>1, <1>3, GrownTree
<1>5. /\ Len(u) = l + 2 /\ ~u[node].wildChild /\ WildIn(u[node].path, 1) = {}
      /\ ~IsWild(u[l + 1]) /\ u[l + 1].wildChild /\ u[l + 1].maxParams = 1 /\ u[l + 1].path = <<>>
      /\ IsWild(u[l + 2]) /\ ~u[l + 2].wildChild /\ u[l + 2].maxParams = 1 /\ OneIn(u[l + 2].path)
  BY DEF CatchAllPlanted
<1>6. /\ ~IsWild(nodes[node]) /\ ~IsWild(u[node]) /\ u[node].maxParams = nodes[node].maxParams
      /\ Kids(u[node]) = {l + 1} /\ Kids(u[l + 1]) = {l + 2} /\ Kids(u[l + 2]) = {}
  BY <1>2, <1>5 DEF Planted
<1>7. Own(nodes[node]) = 0 /\ Own(u[node]) = 0 /\ Own(u[l + 1]) = 0 /\ Own(u[l + 2]) = 1
  BY <1>5, <1>6 DEF Own
<1>8. \A m \in Touched(nodes, u, node) : m = node \/ m = l + 1 \/ m = l + 2
  BY <1>1, <1>5 DEF Touched
<1>9. nodes[node].maxParams \in Nat
  BY TreeInvGives, NodeFields
<1>10. d \in [1..l -> 0..ParamLimit] /\ d[node] \in 0..ParamLimit
  <2>1. d \in [1..l -> 0..ParamLimit]
    BY <1>1 DEF Deep
  <2> QED
    BY <1>1, <2>1
<1>11. d[node] + 1 \in 0..ParamLimit /\ d[node] \in Nat
  <2>1. ParamLimit \in Nat /\ 1 <= ParamLimit - d[node]
    BY TreeInvGives, PlacedCounts
  <2> QED
    BY <1>1, <1>10, <2>1
<1>12. /\ e \in [1..Len(u) -> 0..ParamLimit]
       /\ \A m \in 1..l : e[m] = d[m]
       /\ e[l + 1] = d[node] /\ e[l + 2] = d[node] + 1
  <2>1. \A m \in 1..l : d[m] \in 0..ParamLimit
    BY <1>10
  <2>2. \A m \in 1..l : m \in 1..Len(u)
    BY <1>1, <1>5
  <2>3. /\ l + 1 \in 1..Len(u) /\ l + 1 \notin 1..l /\ l + 2 \notin 1..l /\ l + 2 \in 1..Len(u)
        /\ l + 2 # l + 1
    BY <1>1, <1>5
  <2> HIDE DEF l
  <2>4. e \in [1..Len(u) -> 0..ParamLimit]
    BY <1>10, <1>11, <2>1
  <2>5. \A m \in 1..l : e[m] = d[m]
    BY <2>2
  <2>6. e[l + 1] = d[node] /\ e[l + 2] = d[node] + 1
    BY <2>3
  <2> QED
    BY <2>4, <2>5, <2>6
<1> HIDE DEF l, e
<1>13. Roomy(u)
  <2>1. ASSUME node # Root
        PROVE  RoomyAt(u, node)
    BY <1>1, <1>5, <1>6, <1>7, <1>9, <2>1 DEF RoomyAt
  <2>2. RoomyAt(u, l + 1)
    BY <1>5, <1>6, <1>7 DEF RoomyAt
  <2>3. RoomyAt(u, l + 2)
    BY <1>5, <1>6, <1>7 DEF RoomyAt
  <2>4. \A m \in Touched(nodes, u, node) : m # Root => RoomyAt(u, m)
    BY <1>8, <2>1, <2>2, <2>3
  <2> QED
    BY <1>1, <1>3, <2>4, GrownRoomy
<1>14. Deep(u, e)
  <2>1. DeepAt(u, e, node)
    <3>1. e[node] = d[node]
      BY <1>1, <1>12
    <3>2. \A c \in Kids(u[node]) : e[c] = e[node] + 0
      BY <1>6, <1>11, <1>12, <3>1
    <3> QED
      BY <1>5, <3>2 DEF DeepAt
  <2>2. DeepAt(u, e, l + 1)
    <3>1. \A c \in Kids(u[l + 1]) : e[c] = e[l + 1] + 1
      BY <1>6, <1>12
    <3>2. WildIn(u[l + 1].path, 1) = {}
      BY <1>5 DEF WildIn
    <3> QED
      BY <1>5, <3>1, <3>2 DEF DeepAt
  <2>3. DeepAt(u, e, l + 2)
    BY <1>5, <1>6 DEF DeepAt
  <2>4. \A m \in Touched(nodes, u, node) : DeepAt(u, e, m)
    BY <1>8, <2>1, <2>2, <2>3
  <2>5. \A m \in 1..Len(nodes) : e[m] = d[m]
    BY <1>12 DEF l
  <2> QED
    BY <1>1, <1>3, <1>12, <2>4, <2>5, GrownDeep
<1>15. \A m \in 1..Len(u) : m = node \/ m = l + 1 \/ m = l + 2 \/ (m \in 1..l /\ m # node)
  <2>1. \A m \in 1..Len(u) : m \in Touched(nodes, u, node) \/ (m \in 1..l /\ m # node)
    BY <1>1, <1>3, GrownNodes DEF l
  <2> QED
    BY <1>8, <2>1
<1>16. OneWildcard(u, 0)
  <2> SUFFICES ASSUME NEW m \in 1..Len(u), IsWild(u[m])
      PROVE  OneIn(u[m].path)
    BY DEF OneWildcard
  <2>1. CASE m = l + 2
    BY <1>5, <2>1
  <2>2. CASE m \in 1..l /\ m # node
    <3>1. u[m] = nodes[m]
      BY <1>3, <2>2 DEF Grown, l
    <3> QED
      BY <1>1, <2>2, <3>1 DEF OneWildcard, l
  <2>3. m # node /\ m # l + 1
    BY <1>5, <1>6
  <2> QED
    BY <1>15, <2>1, <2>2, <2>3
<1>17. ASSUME panicked = {}
       PROVE  Tight(u, Root, 0)
  <2> SUFFICES ASSUME NEW m \in 2..Len(u)
      PROVE  Needed(u, m)
    BY DEF Tight
  <2>1. CASE m = node
    <3>1. u[node].maxParams <= 1
      <4>1. m \in 2..l
        BY <1>1, <2>1
      <4>2. Needed(nodes, node) \/ nodes[node].maxParams <= Own(nodes[node]) + 1
        BY <1>1, <1>17, <2>1, <4>1 DEF Tight, l
      <4>3. Kids(nodes[node]) = {}
        BY NoKid
      <4> QED
        BY <1>6, <1>7, <1>9, <4>2, <4>3 DEF Needed
    <3>2. u[node].maxParams <= Own(u[node]) + u[l + 1].maxParams
      BY <1>5, <1>7, <3>1
    <3> QED
      BY <1>6, <2>1, <3>2 DEF Needed
  <2>2. CASE m = l + 1
    BY <1>5, <1>6, <1>7, <2>2 DEF Needed
  <2>3. CASE m = l + 2
    BY <1>5, <1>7, <2>3 DEF Needed
  <2>4. CASE m \in 1..l /\ m # node
    <3>1. m \in 2..l
      BY <1>1, <2>4
    <3>2. Needed(nodes, m)
      BY <1>1, <1>17, <2>4, <3>1 DEF Tight, l
    <3> QED
      BY <1>1, <1>3, <2>4, <3>2, GrownNeeded DEF l
  <2>5. m \in 1..Len(u)
    BY <1>1, <1>5
  <2> QED
    BY <1>15, <2>1, <2>2, <2>3, <2>4, <2>5
<1> QED
  BY <1>3, <1>4, <1>13, <1>14, <1>16, <1>17 DEF Settled

\* A node with a catch-all below it.
Led(e, f, a) ==
    /\ SameBut(e, f, {"path", "children", "indices"}) /\ f.children = <<a>> /\ Len(f.indices) = 1

Along(e, f, a) ==
    /\ ShapeOf(f) /\ Kids(f) = {a} /\ Len(f.children) = 1 /\ ~IsWild(f) /\ ~f.wildChild
    /\ f.nType = e.nType /\ f.maxParams = e.maxParams /\ f.priority = e.priority
    /\ ~IsWild(e)

\* A node that was ready for it.
LEMMA LedIs ==
    ASSUME NEW e, Ready(e), NEW f, NEW a \in Nat, Led(e, f, a)
    PROVE  Along(e, f, a)
<1>1. /\ f.nType = e.nType /\ f.maxParams = e.maxParams /\ f.priority = e.priority
      /\ f.children = <<a>> /\ Len(f.indices) = 1 /\ ~f.wildChild
  BY DEF Led, SameBut, Ready
<1>2. f.nType \notin {"param", "catchAll"} /\ ~IsWild(f) /\ ~IsWild(e)
  BY <1>1 DEF IsWild, Ready
<1>3. Kids(f) = {a} /\ Len(f.children) = 1
  BY <1>1, OneKid
<1>4. Len(f.indices) <= Len(f.children) /\ Len(f.indices) = Len(f.children)
  BY <1>1, <1>3
<1>5. ShapeOf(f)
  BY <1>1, <1>2, <1>4 DEF ShapeOf
<1> QED
  BY <1>1, <1>2, <1>3, <1>5 DEF Along

\* Its two nodes.
GateOf(g, a) ==
    /\ g.nType = "catchAll" /\ g.wildChild /\ g.children = <<a>> /\ g.indices = <<>>
    /\ g.path = <<>> /\ g.maxParams = 1
EndOf(h) ==
    /\ h.nType = "catchAll" /\ Bare(h) /\ h.children = <<>> /\ h.maxParams = 1 /\ OneIn(h.path)

\* The upper one is in shape,
LEMMA GateShape ==
    ASSUME NEW g, NEW a \in Nat, GateOf(g, a)
    PROVE  ShapeOf(g) /\ Kids(g) = {a} /\ Len(g.children) = 1 /\ ~IsWild(g) /\ g.wildChild
<1>1. g.children = <<a>> /\ g.indices = <<>>
  BY DEF GateOf
<1>2. Kids(g) = {a} /\ Len(g.children) = 1
  BY <1>1, OneKid
<1>3. Len(g.indices) = 0
  BY <1>1, EmptyIs
<1>4. Len(g.indices) <= Len(g.children)
  BY <1>2, <1>3
<1> QED
  BY <1>2, <1>4 DEF GateOf, ShapeOf, IsWild

\* and so is the lower one.
LEMMA EndShape ==
    ASSUME NEW h, EndOf(h)
    PROVE  ShapeOf(h) /\ Kids(h) = {} /\ Len(h.children) = 0 /\ IsWild(h) /\ ~h.wildChild
<1>1. h.children = <<>> /\ Bare(h) /\ h.nType = "catchAll"
  BY DEF EndOf
<1>2. Kids(h) = {} /\ Len(h.children) = 0
  BY <1>1, NoKid
<1>3. ShapeOf(h)
  BY <1>1, <1>2, FreshShape
<1> QED
  BY <1>1, <1>2, <1>3 DEF Bare, IsWild

\* The chain of both.
LEMMA CatchAllPlantedIs ==
    ASSUME NEW t, Tree(t), NEW x \in 1..Len(t), Ready(t[x]),
           NEW f, Led(t[x], f, Len(t) + 1), WildIn(f.path, 1) = {},
           NEW g, GateOf(g, Len(t) + 2), NEW h, EndOf(h), NEW u, TwoNew(t, u, x, f, g, h)
    PROVE  CatchAllPlanted(t, u, x)
<1> DEFINE l == Len(t)
<1>1. l \in Nat /\ l + 1 \in Nat /\ l + 2 \in Nat
  BY TreeIs
<1>2. /\ ShapeOf(f) /\ Kids(f) = {l + 1} /\ Len(f.children) = 1 /\ ~IsWild(f) /\ ~f.wildChild
      /\ f.nType = t[x].nType /\ f.maxParams = t[x].maxParams /\ f.priority = t[x].priority
      /\ ~IsWild(t[x])
  <2>1. Led(t[x], f, l + 1)
    OBVIOUS
  <2> HIDE DEF l
  <2>2. Along(t[x], f, l + 1)
    BY <1>1, <2>1, LedIs
  <2> QED
    BY <2>2 DEF Along
<1>3. ShapeOf(g) /\ Kids(g) = {l + 2} /\ Len(g.children) = 1 /\ ~IsWild(g) /\ g.wildChild
  <2>1. GateOf(g, l + 2)
    OBVIOUS
  <2> HIDE DEF l
  <2> QED
    BY <1>1, <2>1, GateShape
<1>4. ShapeOf(h) /\ Kids(h) = {} /\ Len(h.children) = 0 /\ IsWild(h) /\ ~h.wildChild
  BY EndShape
<1>5. /\ u \in Seq(Node) /\ Len(u) = l + 2 /\ u[l + 1] = g /\ u[l + 2] = h /\ u[x] = f
      /\ \A m \in 1..l : m # x => u[m] = t[m]
  BY DEF TwoNew
<1>6. \A m \in Touched(t, u, x) : m = x \/ m = l + 1 \/ m = l + 2
  BY <1>1, <1>5 DEF Touched
<1>7. g.maxParams = 1 /\ g.path = <<>> /\ h.maxParams = 1 /\ OneIn(h.path)
  BY DEF GateOf, EndOf
<1> HIDE DEF l
<1>8. \A m \in Touched(t, u, x) :
         /\ ShapeOf(u[m]) /\ Len(u[m].children) \in {0, 1}
         /\ \A c \in Kids(u[m]) : IsWild(u[c]) <=> u[m].wildChild
  <2> SUFFICES ASSUME NEW m \in Touched(t, u, x)
      PROVE  /\ ShapeOf(u[m]) /\ Len(u[m].children) \in {0, 1}
             /\ \A c \in Kids(u[m]) : IsWild(u[c]) <=> u[m].wildChild
    OBVIOUS
  <2>1. CASE m = x
    BY <1>2, <1>3, <1>5, <2>1
  <2>2. CASE m = l + 1
    BY <1>3, <1>4, <1>5, <2>2
  <2>3. CASE m = l + 2
    BY <1>4, <1>5, <2>3
  <2> QED
    BY <1>6, <2>1, <2>2, <2>3
<1>9. Planted(t, u, x)
  BY <1>2, <1>3, <1>4, <1>5, <1>8 DEF Planted, l
<1> QED
  BY <1>2, <1>3, <1>4, <1>5, <1>7, <1>9 DEF CatchAllPlanted, l

\* What is left of the path from the slash before the catch-all on.
LEMMA SlashLeft ==
    ASSUME NEW s \in Seq(STRING), NEW a \in 2..Len(s), s[a] \in Wild, s[a - 1] \notin Wild,
           \A j \in (a + 1)..Len(s) : s[j] \notin Wild
    PROVE  Cut(s, a - 1) \in Seq(STRING) /\ OneIn(Cut(s, a - 1))
<1> DEFINE v == Cut(s, a - 1)
<1>1. Len(s) \in Nat /\ a - 1 \in 1..(Len(s) + 1)
  BY LenProperties
<1>2. /\ v \in Seq(STRING) /\ Len(v) = Len(s) + 1 - (a - 1)
      /\ \A j \in 1..(Len(s) + 1 - (a - 1)) : v[j] = s[j + (a - 1) - 1]
  <2> DEFINE k == a - 1
  <2>1. k \in 1..(Len(s) + 1)
    BY <1>1
  <2> HIDE DEF k
  <2>2. /\ Cut(s, k) \in Seq(STRING) /\ Len(Cut(s, k)) = Len(s) + 1 - k
        /\ \A j \in 1..(Len(s) + 1 - k) : Cut(s, k)[j] = s[j + k - 1]
    BY <2>1, CutIs
  <2> QED
    BY <2>2 DEF k
<1> HIDE DEF v
<1>3. 2 \in 1..Len(v) /\ Len(v) \in Nat
  BY <1>1, <1>2
<1>4. ASSUME NEW j \in 1..Len(v)
      PROVE  v[j] \in Wild <=> j = 2
  <2>1. v[j] = s[j + (a - 1) - 1]
    BY <1>2, <1>4
  <2>2. CASE j = 1
    <3>1. j + (a - 1) - 1 = a - 1
      BY <2>2
    <3> QED
      BY <2>1, <2>2, <3>1
  <2>3. CASE j = 2
    <3>1. j + (a - 1) - 1 = a
      BY <2>3
    <3> QED
      BY <2>1, <2>3, <3>1
  <2>4. CASE j # 1 /\ j # 2
    <3>1. j + (a - 1) - 1 \in (a + 1)..Len(s)
      BY <1>1, <1>2, <2>4
    <3> QED
      BY <2>1, <2>4, <3>1
  <2> QED
    BY <2>2, <2>3, <2>4
<1> QED
  BY <1>2, <1>3, <1>4 DEF OneIn, v

\* Two nodes at the end of t.
Longer(t, u, g, h) ==
    /\ u \in Seq(Node) /\ Len(u) = Len(t) + 2 /\ u[Len(t) + 1] = g /\ u[Len(t) + 2] = h
    /\ \A m \in 1..Len(t) : u[m] = t[m]

\* \o puts them there.
LEMMA LongerIs ==
    ASSUME NEW t \in Seq(Node), NEW g \in Node, NEW h \in Node
    PROVE  Longer(t, t \o <<g, h>>, g, h)
<1> DEFINE u == t \o <<g, h>>
<1>1. /\ u \in Seq(Node) /\ Len(u) = Len(t) + 2 /\ u[Len(t) + 1] = g /\ u[Len(t) + 2] = h
      /\ \A m \in 1..Len(t) : u[m] = t[m]
  BY TwoMore
<1> HIDE DEF u
<1>2. Longer(t, u, g, h)
  BY <1>1 DEF Longer
<1> QED
  BY <1>2 DEF u

\* It does not matter when the root gets its type.
LEMMA RootedBefore ==
    ASSUME NEW t \in Seq(Node), Root \in 1..Len(t), empty \in BOOLEAN, NEW g, NEW h,
           NEW u, Longer(t, u, g, h), NEW v, Longer(Rooted(t), v, g, h)
    PROVE  Altered(u, v, Root, {"nType"}) /\ v[Root].nType \in {u[Root].nType, "root"}
<1> DEFINE s == Rooted(t)
<1>1. /\ u \in Seq(Node) /\ Len(u) = Len(t) + 2 /\ u[Len(t) + 1] = g /\ u[Len(t) + 2] = h
      /\ \A m \in 1..Len(t) : u[m] = t[m]
  BY DEF Longer
<1>2. Altered(t, s, Root, {"nType"}) /\ s[Root].nType \in {t[Root].nType, "root"}
  BY RootedIs
<1>3. /\ v \in Seq(Node) /\ Len(v) = Len(s) + 2 /\ v[Len(s) + 1] = g /\ v[Len(s) + 2] = h
      /\ \A m \in 1..Len(s) : v[m] = s[m]
  BY DEF Longer
<1> HIDE DEF s
<1>4. /\ s \in Seq(Node) /\ Len(s) = Len(t) /\ SameBut(t[Root], s[Root], {"nType"})
      /\ \A m \in 1..Len(t) : m # Root => s[m] = t[m]
  BY <1>2 DEF Altered
<1>5. PICK l \in Nat : l = Len(t)
  BY LenProperties
<1>6. \A m \in 1..Len(u) : m \in 1..l \/ m = l + 1 \/ m = l + 2
  <2>1. Len(u) = l + 2
    BY <1>1, <1>5
  <2> QED
    BY <1>5, <2>1
<1>7. \A m \in 1..Len(u) : m # Root => v[m] = u[m]
  BY <1>1, <1>3, <1>4, <1>5, <1>6
<1>8. v[Root] = s[Root] /\ u[Root] = t[Root]
  BY <1>1, <1>3, <1>4
<1> QED
  BY <1>1, <1>2, <1>3, <1>4, <1>7, <1>8 DEF Altered

\* A sequence of one.
LEMMA SingleIs ==
    ASSUME NEW S, NEW b \in S
    PROVE  <<b>> \in Seq(S) /\ Len(<<b>>) = 1
  OBVIOUS

\* insertChild makes the nodes of a catch-all.
LEMMA InsertCatchAllKeeps ==
    ASSUME TreeInv, InsertCatchAll
    PROVE  TreeInv'
<1> DEFINE l == Len(nodes)
           above == SubSeq(path, offset + 1, At - 2)
           slash == <<"/">>
           f == Leading(nodes[node], above, <<l + 1>>, slash)
           c == Fresh("catchAll", 1)
           g == Gate(c, <<l + 2>>)
           h == Ended(c, Cut(path, At - 1))
           t == [nodes EXCEPT ![node] = f]
           u == t \o <<g, h>>
           v == Rooted(t) \o <<g, h>>
<1>1. PICK d : Placing(nodes, node, path, numParams, i, offset, d)
  BY PlacedIs DEF InsertCatchAll
<1>2. /\ stage = "insert" /\ numParams > 0 /\ Wildcards # {} /\ ~BadWildcard /\ full \in Routes
      /\ ~BadCatchAll /\ At > 1 /\ path[At - 1] = "/"
  BY PlacedIs DEF InsertCatchAll
<1>3. /\ Tree(nodes) /\ nodes \in Seq(Node) /\ node \in 1..l /\ nodes[node] \in Node
      /\ l \in Nat /\ path \in Seq(STRING) /\ Len(path) \in Nat /\ Root \in 1..l
      /\ numParams \in Nat /\ empty \in BOOLEAN
  BY TreeInvGives, TreeIs DEF TreeInv, Locals
<1>4. /\ At \in i..Len(path) /\ At \in Nat /\ path[At] \in Wild
      /\ \A j \in i..(At - 1) : path[j] \notin Wild
      /\ \A j \in (At + 1)..(End - 1) : path[j] \notin Wild
      /\ nodes[node].children = <<>>
  BY <1>2, WildcardFound
<1>5. i \in Nat /\ i >= 1 /\ offset \in Nat /\ offset <= Len(path)
  BY <1>1, PlacedCounts
<1>6. End = Len(path) + 1 /\ numParams = 1
  <2>1. End = Len(path) + 1 /\ ~(numParams > 1)
    BY <1>2 DEF BadCatchAll
  <2> QED
    BY <1>2, <1>3, <2>1
<1>7. ~IsWild(nodes[node]) /\ ~nodes[node].wildChild /\ offset >= i - 1
  BY <1>1, <1>2, ParamsLeft DEF Placing
<1>8. Ready(nodes[node])
  BY <1>4, <1>7 DEF Ready
<1>9. Returns(v)
  <2> DEFINE catchAll == [NewNode EXCEPT !.nType = "catchAll", !.maxParams = 1, !.priority = 1]
             s == [nodes EXCEPT ![node].path = above, ![node].children = <<l + 1>>,
                                ![node].indices = slash,
                                ![Root].nType = IF empty THEN "root" ELSE @]
  <2>1. s = Rooted(t)
    <3> DEFINE t1 == [nodes EXCEPT ![node].path = above, ![node].children = <<l + 1>>,
                                   ![node].indices = slash]
    <3>1. t1 = t
      <4> HIDE DEF above, slash
      <4> QED
        BY <1>3 DEF Leading
    <3>2. s = Rooted(t1)
      BY DEF Rooted
    <3> QED
      BY <3>1, <3>2
  <2>2. catchAll = c
    BY DEF Fresh
  <2>3. Returns(s \o <<[catchAll EXCEPT !.wildChild = TRUE, !.children = <<(l + 1) + 1>>],
                       [catchAll EXCEPT !.path = Cut(path, At - 1), !.handle = {full}]>>)
    BY DEF InsertCatchAll
  <2>4. (l + 1) + 1 = l + 2
    BY <1>3
  <2>5. [catchAll EXCEPT !.wildChild = TRUE, !.children = <<(l + 1) + 1>>] = g
    BY <2>2, <2>4 DEF Gate
  <2>6. [catchAll EXCEPT !.path = Cut(path, At - 1), !.handle = {full}] = h
    BY <2>2 DEF Ended
  <2> HIDE DEF catchAll, s, above, f, c, g, h, l, t
  <2> QED
    BY <2>1, <2>3, <2>5, <2>6 DEF v
<1>10. above \in Seq(STRING) /\ WildIn(above, 1) = {}
  <2> DEFINE o == offset + 1
             z == At - 2
  <2>1. o \in Nat /\ z \in Nat /\ o >= 1 /\ z <= Len(path)
    BY <1>2, <1>4, <1>5
  <2>2. \A j \in o..z : j \in i..(At - 1)
    BY <1>4, <1>5, <1>7
  <2>3. \A j \in o..z : path[j] \notin Wild
    BY <1>4, <2>2
  <2> HIDE DEF o, z
  <2>4. SubSeq(path, o, z) \in Seq(STRING) /\ WildIn(SubSeq(path, o, z), 1) = {}
    BY <1>3, <2>1, <2>3, NoWildPart
  <2> QED
    BY <2>4 DEF o, z
<1>11. slash \in Seq(STRING) /\ Len(slash) = 1
  <2>1. path[At - 1] \in STRING
    <3>1. At - 1 \in 1..Len(path)
      BY <1>2, <1>3, <1>4
    <3> HIDE DEF At
    <3> QED
      BY <1>3, <3>1
  <2>2. "/" \in STRING
    BY <1>2, <2>1
  <2> QED
    BY <2>2, SingleIs
<1> HIDE DEF above, slash
<1>12. f \in Node /\ Led(nodes[node], f, l + 1) /\ WildIn(f.path, 1) = {}
  <2>1. l + 1 \in Nat /\ <<l + 1>> \in Seq(Nat)
    BY <1>3, OneOf
  <2>2. /\ SameBut(nodes[node], f, {"path", "children", "indices"})
        /\ f.path = above /\ f.children = <<l + 1>> /\ f.indices = slash
    <3> DEFINE ch == <<l + 1>>
    <3>1. nodes[node] \in Node /\ above \in Seq(STRING) /\ slash \in Seq(STRING) /\ ch \in Seq(Nat)
      BY <1>3, <1>10, <1>11, <2>1
    <3>2. f = Leading(nodes[node], above, ch, slash)
      OBVIOUS
    <3> HIDE DEF ch, f
    <3>3. /\ SameBut(nodes[node], f, {"path", "children", "indices"})
          /\ f.path = above /\ f.children = ch /\ f.indices = slash
      BY <3>1, <3>2, LeadingIs
    <3> QED
      BY <3>3 DEF ch
  <2> HIDE DEF f
  <2> QED
    BY <1>10, <1>11, <2>2 DEF Led, SameBut
<1>13. /\ c \in Node /\ Bare(c) /\ c.nType = "catchAll" /\ c.maxParams = 1 /\ c.children = <<>>
       /\ c.path = <<>>
  <2>1. "catchAll" \in {"static", "root", "param", "catchAll"} /\ 1 \in 0..ParamLimit
    BY NoneOf
  <2> QED
    BY <2>1, FreshFields
<1> HIDE DEF c
<1>14. g \in Node /\ GateOf(g, l + 2)
  <2>1. l + 2 \in Nat /\ <<l + 2>> \in Seq(Nat)
    BY <1>3, OneOf
  <2>2. SameBut(c, g, {"wildChild", "children"}) /\ g.wildChild /\ g.children = <<l + 2>>
    BY <1>13, <2>1, GateIs
  <2> HIDE DEF g
  <2> QED
    BY <1>13, <2>2 DEF GateOf, SameBut, Bare
<1>15. h \in Node /\ EndOf(h)
  <2> DEFINE s == Cut(path, At - 1)
  <2>1. s \in Seq(STRING) /\ OneIn(s)
    <3>1. At \in 2..Len(path)
      BY <1>2, <1>4
    <3>2. path[At - 1] \notin Wild
      BY <1>2 DEF Wild
    <3>3. \A j \in (At + 1)..Len(path) : path[j] \notin Wild
      <4>1. End - 1 = Len(path)
        BY <1>3, <1>6
      <4> QED
        BY <1>4, <4>1
    <3> HIDE DEF At
    <3> QED
      BY <1>3, <1>4, <3>1, <3>2, <3>3, SlashLeft
  <2> HIDE DEF s
  <2>2. SameBut(c, Ended(c, s), {"path"}) /\ Ended(c, s).path = s
    BY <1>2, <1>13, <2>1, EndedIs
  <2>3. h = Ended(c, s)
    BY DEF s
  <2> HIDE DEF h
  <2>4. SameBut(c, h, {"path"}) /\ h.path = s
    BY <2>2, <2>3
  <2> QED
    BY <1>13, <2>1, <2>4 DEF EndOf, SameBut, Bare
<1> HIDE DEF f, g, h
<1>16. TwoNew(nodes, u, node, f, g, h)
  BY <1>3, <1>12, <1>14, <1>15, TwoNewIs
<1>17. t \in Seq(Node) /\ Len(t) = l
  BY <1>3, <1>12
<1>18. Altered(u, v, Root, {"nType"}) /\ v[Root].nType \in {u[Root].nType, "root"}
  <2>1. Longer(t, u, g, h)
    <3> HIDE DEF t
    <3> QED
      BY <1>14, <1>15, <1>17, LongerIs
  <2>2. Rooted(t) \in Seq(Node)
    <3> HIDE DEF t, l
    <3> QED
      BY <1>3, <1>17, RootedIs DEF Altered
  <2>3. Longer(Rooted(t), v, g, h)
    <3> HIDE DEF t
    <3> QED
      BY <1>14, <1>15, <2>2, LongerIs
  <2> HIDE DEF t, u, v, l
  <2> QED
    BY <1>3, <1>17, <2>1, <2>3, RootedBefore
<1> HIDE DEF u, v, t
<1>19. CatchAllPlanted(nodes, u, node)
  BY <1>3, <1>8, <1>12, <1>14, <1>15, <1>16, CatchAllPlantedIs
<1>20. Settled(u) /\ (panicked = {} => Tight(u, Root, 0))
  BY <1>1, <1>4, <1>6, <1>19, CatchAllKeeps
<1>21. Same(u, v) /\ Sorted(v)
  BY <1>18, <1>20, TypeKeeps DEF Settled
<1>22. Settled(v) /\ (panicked = {} => Tight(v, Root, 0))
  BY <1>20, <1>21, SameSettled, SameTight
<1> QED
  BY <1>2, <1>9, <1>22, ReturnsKeeps
-----------------------------------------------------------------------------
(* The theorems.                                                           *)

\* A tree of one empty node.
LEMMA FirstIs ==
    ASSUME NEW t, t = <<NewNode>>
    PROVE  /\ Tree(t) /\ Sorted(t) /\ Roomy(t) /\ OneWildcard(t, 0) /\ Tight(t, Root, 0)
           /\ Len(t) = 1 /\ Root \in 1..Len(t) /\ \E d : Deep(t, d)
<1> DEFINE e == NewNode
<1>1. /\ e \in Node /\ e.path = <<>> /\ e.nType = "static" /\ ~e.wildChild
      /\ e.children = <<>> /\ e.indices = <<>>
  BY NewNodeIs
<1> HIDE DEF e
<1>2. t = <<e>>
  BY DEF e
<1>3. t \in Seq(Node) /\ Len(t) = 1 /\ t[1] = e
  BY <1>1, <1>2
<1>4. \A m \in 1..Len(t) : m = 1 /\ t[m] = e
  BY <1>3
<1>5. 1 \in 1..Len(t) /\ Root \in 1..Len(t) /\ t # <<>> /\ 2..Len(t) = {} /\ t[Root] = e
  BY <1>3 DEF Root
<1>6. Kids(e) = {} /\ Len(e.children) = 0 /\ ~IsWild(e)
  BY <1>1, NoKid DEF IsWild
<1>7. ShapeOf(e)
  BY <1>1, FreshShape, <1>6 DEF Bare
<1>8. Typed(t)
  BY <1>3, <1>4, <1>5, <1>6 DEF Typed
<1>9. OneParent(t)
  <2>1. 1..0 = {}
    OBVIOUS
  <2> QED
    BY <1>4, <1>6, <2>1 DEF OneParent
<1>10. Shaped(t)
  BY <1>1, <1>4, <1>5, <1>6, <1>7 DEF Shaped
<1>11. Sorted(t)
  <2>1. 2..0 = {}
    OBVIOUS
  <2> QED
    BY <1>4, <1>6, <2>1 DEF Sorted, SortedAt
<1>12. Roomy(t) /\ Tight(t, Root, 0)
  BY <1>5 DEF Roomy, Tight
<1>13. OneWildcard(t, 0)
  BY <1>4, <1>6 DEF OneWildcard
<1>14. Deep(t, [m \in 1..Len(t) |-> 0])
  <2> DEFINE d == [m \in 1..Len(t) |-> 0]
  <2>1. d \in [1..Len(t) -> 0..ParamLimit] /\ d[Root] = 0
    BY <1>5, NoneIs
  <2>2. WildIn(e.path, 1) = {}
    BY <1>1 DEF WildIn
  <2> HIDE DEF d
  <2>3. \A m \in 1..Len(t) : DeepAt(t, d, m)
    BY <1>4, <1>6, <2>2 DEF DeepAt
  <2> QED
    BY <2>1, <2>3 DEF Deep, d
<1> QED
  BY <1>3, <1>5, <1>8, <1>9, <1>10, <1>11, <1>12, <1>13, <1>14 DEF Tree

\* A router starts in TreeInv.
LEMMA TreeInvInit ==
    ASSUME TreeInit
    PROVE  TreeInv
<1>1. /\ nodes = <<NewNode>> /\ stage = "idle" /\ full = <<>> /\ node = Root /\ path = <<>>
      /\ numParams = 0 /\ i = 1 /\ offset = 0 /\ empty = FALSE /\ outcome = "none"
      /\ accepted = {} /\ panicked = {} /\ calls = 0
  BY DEF TreeInit
<1>2. /\ Tree(nodes) /\ Sorted(nodes) /\ Roomy(nodes) /\ OneWildcard(nodes, 0)
      /\ Tight(nodes, Root, 0) /\ Len(nodes) = 1 /\ Root \in 1..Len(nodes) /\ \E d : Deep(nodes, d)
  BY <1>1, FirstIs
<1>3. Locals
  <2>1. calls \in 0..MaxRegistrations
    BY <1>1, RoutesAssumed DEF RoutesAssumption
  <2>2. numParams \in 0..ParamLimit
    BY <1>1, NoneIs
  <2>3. path \in Seq(STRING) /\ i \in 1..(Len(path) + 1) /\ offset \in 0..Len(path)
    BY <1>1, EmptyIs
  <2> QED
    BY <1>1, <1>2, <2>1, <2>2, <2>3 DEF Locals
<1>4. Idling
  BY <1>1, <1>2 DEF Idling
<1>5. ASSUME NEW d
      PROVE  Walking(d) /\ Inserting(d)
  BY <1>1 DEF Walking, Inserting
<1> QED
  BY <1>2, <1>3, <1>4, <1>5 DEF TreeInv

\* Every turn of the loops of addRoute and insertChild keeps it.
LEMMA TreeInvNext ==
    ASSUME TreeInv, [TreeNext]_treeVars
    PROVE  TreeInv'
<1>1. ASSUME NEW route \in Routes, Register(route)
      PROVE  TreeInv'
  BY <1>1, RegisterKeeps
<1>2. CASE Leaf
  BY <1>2, LeafKeeps
<1>3. CASE WalkWildcard
  BY <1>3, WalkWildcardKeeps
<1>4. CASE WalkSlash
  BY <1>4, WalkSlashKeeps
<1>5. CASE WalkChild
  BY <1>5, WalkChildKeeps
<1>6. CASE StartInsert
  BY <1>6, StartInsertKeeps
<1>7. CASE InsertRest
  BY <1>7, InsertRestKeeps
<1>8. CASE InsertBad
  BY <1>8, InsertBadKeeps
<1>9. CASE InsertNoSlash
  BY <1>9, InsertNoSlashKeeps
<1>10. CASE InsertOutOfRange
  BY <1>10, InsertOutOfRangeKeeps
<1>11. CASE InsertParam
  BY <1>11, InsertParamKeeps
<1>12. CASE InsertCatchAll
  BY <1>12, InsertCatchAllKeeps
<1>13. CASE UNCHANGED treeVars
  <2>1. /\ nodes' = nodes /\ stage' = stage /\ full' = full /\ node' = node /\ path' = path
        /\ numParams' = numParams /\ i' = i /\ offset' = offset /\ empty' = empty
        /\ outcome' = outcome /\ accepted' = accepted /\ panicked' = panicked /\ calls' = calls
    BY <1>13 DEF treeVars
  <2>2. Locals'
    BY <2>1 DEF TreeInv, Locals
  <2>3. Idling'
    BY <2>1 DEF TreeInv, Idling
  <2>4. PICK d : Deep(nodes, d) /\ Walking(d) /\ Inserting(d)
    BY DEF TreeInv
  <2>5. Deep(nodes, d)' /\ Walking(d)'
    BY <2>1, <2>4 DEF Walking
  <2>6. Inserting(d)'
    BY <2>1, <2>4 DEF Inserting
  <2>7. (Tree(nodes) /\ Sorted(nodes) /\ Roomy(nodes))'
    BY <2>1 DEF TreeInv
  <2> QED
    BY <2>2, <2>3, <2>5, <2>6, <2>7 DEF TreeInv
<1> QED
  BY <1>1, <1>2, <1>3, <1>4, <1>5, <1>6, <1>7, <1>8, <1>9, <1>10, <1>11, <1>12, <1>13
  DEF TreeNext

\* It has the types in it.
LEMMA TreeInvTypes ==
    ASSUME TreeInv
    PROVE  TreeTypeOK
<1>1. Locals /\ Typed(nodes) /\ nodes \in Seq(Node) /\ DOMAIN nodes = 1..Len(nodes)
  BY TreeInvGives, TreeIs DEF TreeInv
<1>2. ASSUME NEW m \in DOMAIN nodes
      PROVE  ToSet(nodes[m].children) \subseteq DOMAIN nodes
  <2>1. /\ \A j \in 1..Len(nodes[m].children) : nodes[m].children[j] \in Kids(nodes[m])
        /\ \A k \in Kids(nodes[m]) : k \in 1..Len(nodes)
        /\ nodes[m] \in Node
    BY <1>1, KidsIn
  <2>2. nodes[m].children \in Seq(Nat)
    BY <2>1, NodeFields
  <2>3. DOMAIN nodes[m].children = 1..Len(nodes[m].children)
    BY <2>2
  <2> QED
    BY <1>1, <2>1, <2>3 DEF ToSet
<1> QED
  BY <1>1, <1>2 DEF Locals, TreeTypeOK

\* What checkMaxParams finds below a node: what the child that needs most needs.
LEMMA Below ==
    ASSUME TreeInv, NEW m \in 1..Len(nodes)
    PROVE  \E b \in Nat :
             /\ ParamsDown(m) = b + Own(nodes[m])
             /\ b = 0 \/ \E k \in Kids(nodes[m]) : b = nodes[k].maxParams
             /\ \A k \in Kids(nodes[m]) : nodes[k].maxParams <= b
<1> DEFINE s == {0} \cup {nodes[k].maxParams : k \in ToSet(nodes[m].children)}
<1>1. Tree(nodes) /\ Typed(nodes) /\ nodes[m] \in Node /\ ParamLimit \in Nat
  BY TreeInvGives, KidsIn
<1>2. nodes[m].children \in Seq(Nat)
  BY <1>1, NodeFields
<1>3. ToSet(nodes[m].children) = Kids(nodes[m])
  <2>1. DOMAIN nodes[m].children = 1..Len(nodes[m].children)
    BY <1>2
  <2> QED
    BY <2>1 DEF ToSet, Kids
<1>4. \A k \in Kids(nodes[m]) : nodes[k].maxParams \in 0..ParamLimit
  <2> SUFFICES ASSUME NEW k \in Kids(nodes[m])
      PROVE  nodes[k].maxParams \in 0..ParamLimit
    OBVIOUS
  <2>1. k \in 1..Len(nodes)
    BY <1>1, KidsIn
  <2>2. nodes[k] \in Node
    BY <1>1, <2>1, KidsIn
  <2> QED
    BY <2>2, NodeFields
<1>5. s = {0} \cup {nodes[k].maxParams : k \in Kids(nodes[m])}
  BY <1>3
<1>6. s \in SUBSET (0..ParamLimit) /\ s # {}
  BY <1>4, <1>5, NoneIs
<1>7. Max(s) \in s /\ (\A x \in s : x <= Max(s)) /\ Max(s) \in Nat
  <2> HIDE DEF s
  <2>1. Max(s) \in s /\ \A x \in s : x <= Max(s)
    BY <1>1, <1>6, GreatestOf
  <2>2. Max(s) \in 0..ParamLimit
    BY <1>6, <2>1
  <2>3. Max(s) \in Nat
    BY <1>1, <2>2
  <2> QED
    BY <2>1, <2>3
<1>8. ParamsDown(m) = IF IsWild(nodes[m]) THEN Max(s) + 1 ELSE Max(s)
  BY DEF ParamsDown, IsWild
<1> HIDE DEF s
<1>9. ParamsDown(m) = Max(s) + Own(nodes[m])
  <2>1. CASE IsWild(nodes[m])
    BY <1>8, <2>1 DEF Own
  <2>2. CASE ~IsWild(nodes[m])
    BY <1>7, <1>8, <2>2 DEF Own
  <2> QED
    BY <2>1, <2>2
<1>10. Max(s) = 0 \/ \E k \in Kids(nodes[m]) : Max(s) = nodes[k].maxParams
  BY <1>5, <1>7
<1>11. \A k \in Kids(nodes[m]) : nodes[k].maxParams <= Max(s)
  BY <1>5, <1>7
<1> QED
  BY <1>7, <1>9, <1>10, <1>11

\* It gives the order of siblings, the capacity and the count.
LEMMA TreeInvKept ==
    ASSUME TreeInv
    PROVE  WellKept
<1>1. /\ Tree(nodes) /\ Typed(nodes) /\ Sorted(nodes) /\ Roomy(nodes) /\ Len(nodes) \in Nat
      /\ nodes \in Seq(Node) /\ DOMAIN nodes = 1..Len(nodes) /\ path \in Seq(STRING)
      /\ Len(path) \in Nat /\ numParams \in Nat
  BY TreeInvGives, TreeIs
<1>2. Prioritized
  BY <1>1 DEF Prioritized, Sorted, SortedAt
<1>3. Capacity
  <2> SUFFICES ASSUME stage = "idle", NEW m \in 1..Len(nodes)
      PROVE  /\ nodes[m].nType \in {"param", "catchAll"} => nodes[m].maxParams >= ParamsDown(m)
             /\ panicked = {} /\ m # Root => nodes[m].maxParams = ParamsDown(m)
    BY <1>1 DEF Capacity
  <2>1. PICK b \in Nat :
          /\ ParamsDown(m) = b + Own(nodes[m])
          /\ b = 0 \/ \E k \in Kids(nodes[m]) : b = nodes[k].maxParams
          /\ \A k \in Kids(nodes[m]) : nodes[k].maxParams <= b
    BY Below
  <2>2. nodes[m].maxParams \in Nat /\ Own(nodes[m]) \in Nat
    BY <1>1, KidsIn, NodeFields, OwnIs
  <2>3. \A k \in Kids(nodes[m]) : nodes[k].maxParams \in Nat
    <3> SUFFICES ASSUME NEW k \in Kids(nodes[m])
        PROVE  nodes[k].maxParams \in Nat
      OBVIOUS
    <3>1. k \in 1..Len(nodes)
      BY <1>1, KidsIn
    <3>2. nodes[k] \in Node
      BY <1>1, <3>1, KidsIn
    <3> QED
      BY <3>2, NodeFields
  <2>4. nodes[m].nType \in {"param", "catchAll"} => m # Root
    BY <1>1 DEF Tree, Shaped
  <2>5. ASSUME m # Root
        PROVE  nodes[m].maxParams >= ParamsDown(m)
    <3>1. m \in 2..Len(nodes)
      BY <1>1, <2>5 DEF Root
    <3>2. /\ Own(nodes[m]) <= nodes[m].maxParams
          /\ \A k \in Kids(nodes[m]) : Own(nodes[m]) + nodes[k].maxParams <= nodes[m].maxParams
      BY <1>1, <3>1 DEF Roomy, RoomyAt
    <3> QED
      BY <2>1, <2>2, <2>3, <3>2
  <2>6. ASSUME panicked = {}, m # Root
        PROVE  nodes[m].maxParams <= ParamsDown(m)
    <3>1. m \in 2..Len(nodes)
      BY <1>1, <2>6 DEF Root
    <3>2. Tight(nodes, Root, 0)
      BY <2>6 DEF TreeInv, Idling
    <3>3. Needed(nodes, m)
      BY <2>6, <3>1, <3>2 DEF Tight
    <3>4. CASE nodes[m].maxParams <= Own(nodes[m])
      BY <2>1, <2>2, <3>4
    <3>5. ASSUME NEW k \in Kids(nodes[m]), nodes[m].maxParams <= Own(nodes[m]) + nodes[k].maxParams
          PROVE  nodes[m].maxParams <= ParamsDown(m)
      BY <2>1, <2>2, <2>3, <3>5
    <3> QED
      BY <3>3, <3>4, <3>5 DEF Needed
  <2>7. ParamsDown(m) \in Nat
    BY <2>1, <2>2
  <2>8. ASSUME panicked = {}, m # Root
        PROVE  nodes[m].maxParams = ParamsDown(m)
    BY <2>2, <2>5, <2>6, <2>7, <2>8
  <2> QED
    BY <2>4, <2>5, <2>8
<1>4. Counted
  <2>1. Counted <=> Cardinality(WildIn(path, i)) >= numParams
    BY DEF Counted, WildIn
  <2>2. i \in Nat
    <3>1. i \in 1..(Len(path) + 1)
      BY DEF TreeInv, Locals
    <3> QED
      BY <1>1, <3>1
  <2>3. Cardinality(WildIn(path, i)) \in Nat
    BY <1>1, <2>2, WildInFinite
  <2>4. CASE stage = "idle"
    <3>1. numParams = 0
      BY <2>4 DEF TreeInv, Idling
    <3> QED
      BY <2>1, <2>3, <3>1
  <2>5. CASE stage = "walk"
    <3>1. PICK d : Deep(nodes, d) /\ Walking(d)
      BY DEF TreeInv
    <3>2. /\ i = 1
          /\ numParams = Least(Cardinality(WildIn(path, 1)) - Own(nodes[node]), ParamLimit - d[node])
      BY <2>5, <3>1 DEF Walking
    <3>3. Own(nodes[node]) \in Nat
      BY OwnIs
    <3>4. node \in 1..Len(nodes) /\ ParamLimit \in Nat
      BY TreeInvGives
    <3>5. d[node] \in 0..ParamLimit
      BY <3>1, <3>4 DEF Deep
    <3> QED
      BY <2>1, <2>3, <3>2, <3>3, <3>4, <3>5 DEF Least
  <2>6. CASE stage = "insert"
    <3>1. PICK d : Placing(nodes, node, path, numParams, i, offset, d)
      BY <2>6, PlacedIs
    <3>2. numParams <= Cardinality(WildIn(path, i))
      BY <3>1, PlacedCounts
    <3> QED
      BY <1>1, <2>1, <2>3, <3>2
  <2> QED
    BY <2>4, <2>5, <2>6 DEF TreeInv, Locals
<1> QED
  BY <1>2, <1>3, <1>4 DEF WellKept

\* Typing of the route tree: every child is a node of it, numParams stays a uint8, and
\* i and offset of insertChild within the path (tree.go:104, tree.go:206).
THEOREM TreeTypesCorrect == TreeSpec => []TreeTypeOK
<1>1. TreeInit => TreeInv
  BY TreeInvInit
<1>2. TreeInv /\ [TreeNext]_treeVars => TreeInv'
  BY TreeInvNext
<1>3. TreeInv => TreeTypeOK
  BY TreeInvTypes
<1> QED
  BY <1>1, <1>2, <1>3, PTL DEF TreeSpec

\* Whatever is registered, in any order, siblings are in descending order of priority
\* (incrementChildPrio), maxParams is enough for every parameter below a wildcard, even
\* when a route was refused halfway, and exact as long as none was, and numParams, the
\* capped count of wildcards, never wraps around (tree.go:66, tree.go:104, tree.go:206).
THEOREM AlwaysWellKept == TreeSpec => []WellKept
<1>1. TreeInit => TreeInv
  BY TreeInvInit
<1>2. TreeInv /\ [TreeNext]_treeVars => TreeInv'
  BY TreeInvNext
<1>3. TreeInv => WellKept
  BY TreeInvKept
<1> QED
  BY <1>1, <1>2, <1>3, PTL DEF TreeSpec

=============================================================================
