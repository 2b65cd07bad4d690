----------------------------- MODULE PathRules -----------------------------
(***************************************************************************)
(* What CleanPath (src/router/path.go) makes of a path, element by element *)
(* instead of byte by byte.  MCParts compares the two.                 *)
(***************************************************************************)
EXTENDS Integers, SequencesExt

\* Positions at which an element, a longest part without "/", begins and ends.
Begins(s) == {i \in DOMAIN s : s[i] # "/" /\ (i = 1 \/ s[i - 1] = "/")}
Element(s, i) ==
    LET ends == {j \in i..Len(s) : j = Len(s) \/ s[j + 1] = "/"}
    IN  SubSeq(s, i, Min(ends))
Elements(s) ==
    LET order == SetToSortSeq(Begins(s), <)
    IN  [k \in DOMAIN order |-> Element(s, order[k])]

\* Rules 2 to 4: "." is dropped, ".." drops the element before it, if any.
Resolve(kept, e) ==
    CASE e = <<".">> -> kept
      [] e = <<".", ".">> -> IF kept = <<>> THEN kept ELSE Front(kept)
      [] OTHER -> Append(kept, e)

\* A path that ends in "/", unless it is too short, or in "." keeps a "/" there.
EndsInSlash(s) ==
    \/ Len(s) > 2 /\ Last(s) = "/"
    \/ s # <<>> /\ Last(s) = "." /\ (Len(s) = 1 \/ s[Len(s) - 1] = "/")

Clean(s) ==
    LET kept == FoldLeft(Resolve, <<>>, Elements(s))
        body == FlattenSeq([k \in DOMAIN kept |-> <<"/">> \o kept[k]])
    IN  IF kept = <<>> THEN <<"/">>
        ELSE body \o (IF EndsInSlash(s) THEN <<"/">> ELSE <<>>)

=============================================================================
