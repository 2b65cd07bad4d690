------------------------------- MODULE Router -------------------------------
(***************************************************************************)
(* Looking up the routes of the tree: getValue and findCaseInsensitivePath *)
(* (src/router/tree.go), and Router.Handle, which tries both               *)
(* (src/router/router.go).  Lookups change nothing, so they are operators; *)
(* the recommendation of getValue to redirect, which Router never uses, is *)
(* left out.                                                               *)
(***************************************************************************)
EXTENDS RouteTree, PathRules

\* The paths that are looked up, and what CleanPath makes of them.
CONSTANT Queries
Cleaned == [q \in Queries |-> Clean(q)]

\* How getValue comes out: a handler or none, and its parameters.
Found(handle, params) == [handle |-> handle, params |-> params, panics |-> FALSE]
NotFound == Found({}, <<>>)
LookupPanics == [NotFound EXCEPT !.panics = TRUE]

Value(wildcard, value) == [key |-> wildcard, value |-> value]

\* The length of the segment a path starts with.
SegmentLen(q) == Min({j \in 0..Len(q) : j = Len(q) \/ q[j + 1] = "/"})

\* Children by their first byte, in order.
ChildrenAt(m, c) ==
    LET at == {pos \in DOMAIN nodes[m].indices : nodes[m].indices[pos] = c}
    IN  IF at = {} THEN {} ELSE {nodes[m].children[Min(at)]}

\* getValue from node m on; room is made for parameters at the first wildcard.
RECURSIVE Lookup(_, _, _, _)
Lookup(m, q, params, room) ==
    LET here == nodes[m]
        rest == Cut(q, Len(here.path) + 1)
        child == nodes[here.children[1]]
        capacity == IF params = <<>> THEN child.maxParams ELSE room
        end == SegmentLen(rest)
        value == Append(params, Value(Tail(child.path), SubSeq(rest, 1, end)))
    IN  CASE ~IsPrefix(here.path, q) -> NotFound
          [] rest = <<>> -> Found(here.handle, params)
          [] rest # <<>> /\ ~here.wildChild ->
               IF ChildrenAt(m, rest[1]) = {}
               THEN NotFound
               ELSE Lookup(CHOOSE c \in ChildrenAt(m, rest[1]) : TRUE, rest, params, room)
          [] rest # <<>> /\ here.wildChild /\ child.nType \notin {"param", "catchAll"} ->
               LookupPanics
          [] rest # <<>> /\ here.wildChild /\ Len(params) >= capacity -> LookupPanics
          [] rest # <<>> /\ here.wildChild /\ child.nType = "catchAll" ->
               Found(child.handle, Append(params, Value(Cut(child.path, 3), rest)))
          [] OTHER ->
               IF end = Len(rest) THEN Found(child.handle, value)
               ELSE IF child.children = <<>> THEN NotFound
               ELSE Lookup(child.children[1], Cut(rest, end + 1), value, capacity)

getValue(q) == Lookup(Root, q, <<>>, 0)

-----------------------------------------------------------------------------
\* Letter case: ToLower of one byte, of a path.
Lower(c) == CASE c = "A" -> "a" [] c = "B" -> "b" [] OTHER -> c
ToLower(s) == [j \in DOMAIN s |-> Lower(s[j])]

\* How findCaseInsensitivePath comes out.
Fixed(s) == [path |-> s, found |-> TRUE]
NotFixed == [path |-> <<>>, found |-> FALSE]
FixedFrom(prefix, result) == IF result.found THEN Fixed(prefix \o result.path) ELSE NotFixed

\* The node reached has the route with a "/" more.
SlashBelow(m) ==
    \E c \in ChildrenAt(m, "/") :
      \/ Len(nodes[c].path) = 1 /\ nodes[c].handle # {}
      \/ nodes[c].nType = "catchAll" /\ nodes[nodes[c].children[1]].handle # {}

\* findCaseInsensitivePath from node m on, with fixTrailingSlash, as Router calls it.
RECURSIVE FindCI(_, _)
FindCI(m, q) ==
    LET here == nodes[m]
        len == Len(here.path)
        rest == Cut(q, len + 1)
        child == nodes[here.children[1]]
        end == SegmentLen(rest)
        below == child.children
        prefix == here.path \o SubSeq(rest, 1, end)
        tries == {pos \in DOMAIN here.indices :
                    Lower(here.indices[pos]) = Lower(rest[1]) /\ FindCI(here.children[pos], rest).found}
    IN  CASE Len(q) < len \/ ToLower(SubSeq(q, 1, len)) # ToLower(here.path) ->
               IF q = <<"/">> THEN Fixed(<<>>)
               ELSE IF /\ Len(q) + 1 = len
                       /\ Last(here.path) = "/"
                       /\ ToLower(q) = ToLower(Front(here.path))
                       /\ here.handle # {}
                    THEN Fixed(here.path)
                    ELSE NotFixed
          [] Len(q) = len /\ ToLower(q) = ToLower(here.path) ->
               IF here.handle # {} THEN Fixed(here.path)
               ELSE IF SlashBelow(m) THEN Fixed(Append(here.path, "/"))
               ELSE NotFixed
          [] Len(q) > len /\ IsPrefix(ToLower(here.path), ToLower(q)) /\ ~here.wildChild ->
               IF tries # {}
               THEN FixedFrom(here.path, FindCI(here.children[Min(tries)], rest))
               ELSE IF rest = <<"/">> /\ here.handle # {} THEN Fixed(here.path) ELSE NotFixed
          [] OTHER ->
               IF child.nType = "catchAll" THEN Fixed(here.path \o rest)
               ELSE IF end < Len(rest)
                    THEN IF below # <<>>
                         THEN FixedFrom(prefix, FindCI(below[1], Cut(rest, end + 1)))
                         ELSE IF Len(rest) = end + 1 THEN Fixed(prefix) ELSE NotFixed
               ELSE IF child.handle # {} THEN Fixed(prefix)
               ELSE IF /\ Len(below) = 1
                       /\ nodes[below[1]].path = <<"/">>
                       /\ nodes[below[1]].handle # {}
                    THEN Fixed(Append(prefix, "/"))
                    ELSE NotFixed

findCaseInsensitivePath(q) == FindCI(Root, q)

-----------------------------------------------------------------------------
HasRoute(q) == getValue(q).handle # {}

\* Slip: the path is fixed before it is looked up as it is.
HandleFixed(q) ==
    LET fixed == findCaseInsensitivePath(Cleaned[q])
    IN  CASE q # <<"/">> /\ fixed.found ->
               [handle |-> getValue(fixed.path).handle, path |-> fixed.path]
          [] OTHER -> [handle |-> getValue(q).handle, path |-> q]

\* Router.Handle: the handler that runs, or {}, and the path it is run with.
Handle(q) ==
    LET fixed == findCaseInsensitivePath(Cleaned[q])
    IN  CASE HasRoute(q) -> [handle |-> getValue(q).handle, path |-> q]
          [] ~HasRoute(q) /\ q # <<"/">> /\ fixed.found ->
               [handle |-> getValue(fixed.path).handle, path |-> fixed.path]
          [] OTHER -> [handle |-> {}, path |-> q]

=============================================================================
