---------------------------- MODULE RouterRules ----------------------------
(***************************************************************************)
(* What a router is to find, from the routes alone, and whether it does.   *)
(***************************************************************************)
EXTENDS Router

\* What a route makes of a path: {} if it does not match, else its parameters.  A
\* parameter takes a segment, which is empty only if something follows it; a
\* catch-all takes everything from its "/" on.
RECURSIVE Binding(_, _)
Binding(route, q) ==
    LET name == SegmentLen(route)
        value == SegmentLen(q)
    IN  CASE route = <<>> -> IF q = <<>> THEN {<<>>} ELSE {}
          [] route # <<>> /\ q = <<>> -> {}
          [] q # <<>> /\ IsPrefix(<<":">>, route) ->
               {<<Value(SubSeq(route, 2, name), SubSeq(q, 1, value))>> \o others :
                  others \in Binding(Cut(route, name + 1), Cut(q, value + 1))}
          [] q # <<>> /\ IsPrefix(<<"/", "*">>, route) ->
               IF q[1] = "/" THEN {<<Value(Cut(route, 3), q)>>} ELSE {}
          [] OTHER -> IF q[1] = route[1] THEN Binding(Tail(route), Tail(q)) ELSE {}

Matching(q) == {route \in accepted : Binding(route, q) # {}}

\* getValue finds for every path the one route that matches it, with the right
\* parameters, and nothing else, whatever was registered in whatever order and
\* whatever was refused halfway; it never panics.
Exact ==
    stage = "idle" =>
      \A q \in Queries :
        LET got == getValue(q)
        IN  /\ ~got.panics
            /\ got.handle = Matching(q)
            /\ \A route \in got.handle : Binding(route, q) = {got.params}

\* Equal up to a "/" at the end.
EqualButSlash(s, t) == s = t \/ s = Append(t, "/") \/ t = Append(s, "/")

\* Handle runs a handler under another path than the one asked for only if that one
\* has none, and then the path is the clean one up to letter case and a "/" at the
\* end, and the handler's route matches it.
FixedHonestly ==
    stage = "idle" =>
      \A q \in Queries :
        LET ran == Handle(q)
        IN  /\ ran.handle = Matching(ran.path)
            /\ ran.handle # {} /\ ran.path # q =>
                 /\ Matching(q) = {}
                 /\ EqualButSlash(ToLower(ran.path), ToLower(Cleaned[q]))

=============================================================================
