----------------------------- MODULE RouteTree -----------------------------
(***************************************************************************)
(* The route tree of the router (src/router/tree.go): addRoute and         *)
(* insertChild, one action per turn of their loops.  A node is shared by   *)
(* nobody and never dropped, so pointers are indexes into nodes.  A panic  *)
(* leaves the tree as it is at that point; the caller recovers from it, as *)
(* the tests do, and goes on registering routes.                           *)
(***************************************************************************)
EXTENDS Integers, SequencesExt

CONSTANTS
    Routes,             \* the paths that are registered, sequences of bytes
    MaxRegistrations,   \* how often Register is called
    ParamLimit          \* the largest uint8, 255

RoutesAssumption ==
    /\ \A route \in Routes : route \in Seq(STRING)
    /\ MaxRegistrations \in Nat
    /\ ParamLimit \in Nat \ {0}
ASSUME RoutesAssumed == RoutesAssumption

VARIABLES
    nodes,              \* the tree; nodes[Root] is its root
    stage,              \* where Register is
    full,               \* fullPath, the path that is being registered
    node,               \* the node addRoute or insertChild has come to
    path,               \* what is left of full below node
    numParams,          \* the wildcards in path, or in what is left of it
    i,                  \* in insertChild, the next byte of path to look at
    offset,             \* in insertChild, the bytes of path handled already
    empty,              \* the tree was empty when Register was called
    outcome,            \* how the last Register came out
    accepted,           \* the routes whose Register has returned
    panicked,           \* the routes whose Register has panicked
    calls               \* how often Register was called

treeVars == <<nodes, stage, full, node, path, numParams, i, offset, empty, outcome,
              accepted, panicked, calls>>
locals == <<full, empty, accepted, panicked, calls>>

Root == 1
Wild == {":", "*"}

\* A handler is named by the path it was registered with; no handler is {}.
Handlers == {{}} \cup {{route} : route \in Routes}
Node ==
    [path : Seq(STRING), wildChild : BOOLEAN, nType : {"static", "root", "param", "catchAll"},
     maxParams : 0..ParamLimit, indices : Seq(STRING), children : Seq(Nat),
     handle : Handlers, priority : Nat]
NewNode ==
    [path |-> <<>>, wildChild |-> FALSE, nType |-> "static", maxParams |-> 0,
     indices |-> <<>>, children |-> <<>>, handle |-> {}, priority |-> 0]

TreeTypeOK ==
    /\ nodes \in Seq(Node)
    /\ \A m \in DOMAIN nodes : ToSet(nodes[m].children) \subseteq DOMAIN nodes
    /\ stage \in {"idle", "walk", "insert"}
    /\ full \in Routes \cup {<<>>}
    /\ node \in DOMAIN nodes
    /\ path \in Seq(STRING)
    /\ numParams \in 0..ParamLimit
    /\ i \in 1..(Len(path) + 1)
    /\ offset \in 0..Len(path)
    /\ empty \in BOOLEAN
    /\ outcome \in {"none", "returned", "panic", "runtime error"}
    /\ accepted \subseteq Routes
    /\ panicked \subseteq Routes
    /\ calls \in 0..MaxRegistrations

TreeInit ==
    /\ nodes = <<NewNode>>
    /\ stage = "idle"
    /\ full = <<>>
    /\ node = Root
    /\ path = <<>>
    /\ numParams = 0
    /\ i = 1
    /\ offset = 0
    /\ empty = FALSE
    /\ outcome = "none"
    /\ accepted = {}
    /\ panicked = {}
    /\ calls = 0

-----------------------------------------------------------------------------
\* countParams: capped, as it fills a uint8; numParams-- wraps around.
countParams(route) ==
    Min({ParamLimit, Cardinality({j \in DOMAIN route : route[j] \in Wild})})
Decremented == (numParams - 1) % (ParamLimit + 1)

Cut(s, from) == SubSeq(s, from, Len(s))

AddPriority(t, m) == [t EXCEPT ![m].priority = @ + 1]
RaiseMaxParams(t, m) == [t EXCEPT ![m].maxParams = Max({@, numParams})]

Moved(s, from, to) == InsertAt(RemoveAt(s, from), to, s[from])

\* Slip: the child moves without its index.
MoveWithoutIndex(t, m, pos) ==
    LET children == t[m].children
        prio == t[children[pos]].priority + 1
        newPos == Min({k \in 1..pos : \A j \in k..(pos - 1) : t[children[j]].priority < prio})
    IN  [AddPriority(t, children[pos]) EXCEPT ![m].children = Moved(@, pos, newPos)]

\* incrementChildPrio: the child moves before its siblings of lower priority.
incrementChildPrio(t, m, pos) ==
    LET children == t[m].children
        prio == t[children[pos]].priority + 1
        newPos == Min({k \in 1..pos : \A j \in k..(pos - 1) : t[children[j]].priority < prio})
    IN  [AddPriority(t, children[pos]) EXCEPT
            ![m].children = Moved(@, pos, newPos),
            ![m].indices = Moved(@, pos, newPos)]

\* How far path and the node's path agree.
Common ==
    Max({k \in 0..Min({Len(path), Len(nodes[node].path)}) :
           \A j \in 1..k : path[j] = nodes[node].path[j]})

\* Slip: the lower half of a split node makes no room for parameters.
SplitWithoutRoom(t) ==
    LET here == t[node]
    IN  IF Common = Len(here.path)
        THEN t
        ELSE Append(
               [t EXCEPT ![node] =
                  [here EXCEPT !.path = SubSeq(path, 1, Common),
                               !.wildChild = FALSE,
                               !.indices = <<here.path[Common + 1]>>,
                               !.children = <<Len(t) + 1>>,
                               !.handle = {}]],
               [here EXCEPT !.path = Cut(here.path, Common + 1),
                            !.nType = "static",
                            !.maxParams = 0,
                            !.priority = here.priority - 1])

\* The edge to node is split after what is common, if that is not all of it.
Split(t) ==
    LET here == t[node]
        childParams == {t[here.children[j]].maxParams : j \in DOMAIN here.children}
    IN  IF Common = Len(here.path)
        THEN t
        ELSE Append(
               [t EXCEPT ![node] =
                  [here EXCEPT !.path = SubSeq(path, 1, Common),
                               !.wildChild = FALSE,
                               !.indices = <<here.path[Common + 1]>>,
                               !.children = <<Len(t) + 1>>,
                               !.handle = {}]],
               [here EXCEPT !.path = Cut(here.path, Common + 1),
                            !.nType = "static",
                            !.maxParams = Max({0} \cup childParams),
                            !.priority = here.priority - 1])

\* The tree, and the path below node, when a turn of addRoute's loop has come so far.
Opened == Split(RaiseMaxParams(nodes, node))
Rest == Cut(path, Common + 1)

\* Register is over.
Over(t) ==
    /\ nodes' = t
    /\ stage' = "idle"
    /\ full' = <<>>
    /\ node' = Root
    /\ path' = <<>>
    /\ numParams' = 0
    /\ i' = 1
    /\ offset' = 0
    /\ empty' = FALSE
    /\ UNCHANGED calls
Returns(t) ==
    /\ Over(t)
    /\ outcome' = "returned"
    /\ accepted' = accepted \cup {full}
    /\ UNCHANGED panicked
Panics(t, how) ==
    /\ Over(t)
    /\ outcome' = how
    /\ panicked' = panicked \cup {full}
    /\ UNCHANGED accepted

-----------------------------------------------------------------------------
Register(route) ==
    /\ stage = "idle"
    /\ calls < MaxRegistrations
    /\ nodes' = AddPriority(nodes, Root)
    /\ empty' = (nodes[Root].path = <<>> /\ nodes[Root].children = <<>>)
    /\ stage' = IF empty' THEN "insert" ELSE "walk"
    /\ full' = route
    /\ node' = Root
    /\ path' = route
    /\ numParams' = countParams(route)
    /\ i' = 1
    /\ offset' = 0
    /\ calls' = calls + 1
    /\ UNCHANGED <<outcome, accepted, panicked>>

\* continue walk
Walk(t, m, rest, params) ==
    /\ nodes' = t
    /\ node' = m
    /\ path' = rest
    /\ numParams' = params
    /\ UNCHANGED <<locals, stage, i, offset, outcome>>

\* Slip: a wildcard is taken for one it only begins with.
SomeWildcard(wildcard) == IsPrefix(wildcard, Rest)

\* The path ends at this node.
Leaf ==
    /\ stage = "walk"
    /\ Rest = <<>>
    /\ IF Opened[node].handle # {}
       THEN Panics(Opened, "panic")
       ELSE Returns([Opened EXCEPT ![node].handle = {full}])

\* There is a wildcard below it: the path must go on with the same one.
SameWildcard(wildcard) ==
    /\ IsPrefix(wildcard, Rest)
    /\ Len(Rest) > Len(wildcard) => Rest[Len(wildcard) + 1] = "/"
WalkWildcard ==
    /\ stage = "walk"
    /\ Rest # <<>>
    /\ Opened[node].wildChild
    /\ LET child == Opened[node].children[1]
           t == RaiseMaxParams(AddPriority(Opened, child), child)
       IN  IF SameWildcard(t[child].path)
           THEN Walk(t, child, Rest, Decremented)
           ELSE Panics(t, "panic")

\* The slash after a parameter.
SlashAfterParam ==
    Opened[node].nType = "param" /\ Rest[1] = "/" /\ Len(Opened[node].children) = 1
WalkSlash ==
    /\ stage = "walk"
    /\ Rest # <<>>
    /\ ~Opened[node].wildChild
    /\ SlashAfterParam
    /\ LET child == Opened[node].children[1]
       IN  Walk(AddPriority(Opened, child), child, Rest, numParams)

\* Some child starts with the next byte.
NextByte == {pos \in DOMAIN Opened[node].indices : Opened[node].indices[pos] = Rest[1]}
WalkChild ==
    /\ stage = "walk"
    /\ Rest # <<>>
    /\ ~Opened[node].wildChild
    /\ ~SlashAfterParam
    /\ NextByte # {}
    /\ LET pos == Min(NextByte)
       IN  Walk(incrementChildPrio(Opened, node, pos), Opened[node].children[pos], Rest, numParams)

\* No child does: one is made, unless the path goes on with a wildcard.
StartInsert ==
    /\ stage = "walk"
    /\ Rest # <<>>
    /\ ~Opened[node].wildChild
    /\ ~SlashAfterParam
    /\ NextByte = {}
    /\ LET child == Len(Opened) + 1
           t == Append([Opened EXCEPT ![node].indices = Append(@, Rest[1]),
                                      ![node].children = Append(@, child)],
                       [NewNode EXCEPT !.maxParams = numParams])
       IN  IF Rest[1] \in Wild
           THEN nodes' = Opened /\ node' = node
           ELSE nodes' = incrementChildPrio(t, node, Len(t[node].indices)) /\ node' = child
    /\ path' = Rest
    /\ stage' = "insert"
    /\ UNCHANGED <<locals, numParams, i, offset, outcome>>

-----------------------------------------------------------------------------
\* insertChild: the next wildcard, and where it ends.
Wildcards == {j \in i..Len(path) : path[j] \in Wild}
At == Min(Wildcards)
End == Min({j \in (At + 1)..(Len(path) + 1) : j > Len(path) \/ path[j] = "/"})

\* No wildcard is left: the rest of the path goes to the leaf.
InsertRest ==
    /\ stage = "insert"
    /\ numParams = 0
    /\ LET t == [nodes EXCEPT ![node].path = Cut(path, offset + 1), ![node].handle = {full}]
       IN  Returns(IF empty THEN [t EXCEPT ![Root].nType = "root"] ELSE t)

\* Two wildcards in a segment, children that would become unreachable, no name.
BadWildcard ==
    \/ \E j \in (At + 1)..(End - 1) : path[j] \in Wild
    \/ nodes[node].children # <<>>
    \/ End - At < 2
\* A catch-all that is not last, or on a segment that has a handle.
BadCatchAll ==
    \/ End # Len(path) + 1
    \/ numParams > 1
    \/ nodes[node].path # <<>> /\ Last(nodes[node].path) = "/"

InsertBad ==
    /\ stage = "insert"
    /\ numParams > 0
    /\ Wildcards # {}
    /\ BadWildcard \/ (path[At] = "*" /\ BadCatchAll)
    /\ Panics(nodes, "panic")

InsertNoSlash ==
    /\ stage = "insert"
    /\ numParams > 0
    /\ Wildcards # {}
    /\ ~BadWildcard
    /\ path[At] = "*"
    /\ ~BadCatchAll
    /\ At > 1
    /\ path[At - 1] # "/"
    /\ Panics(nodes, "panic")

\* path[i] for an i outside path: numParams counts a wildcard that is not there, or
\* nothing is before the catch-all where a "/" is looked for.
InsertOutOfRange ==
    /\ stage = "insert"
    /\ numParams > 0
    /\ Wildcards # {} => ~BadWildcard /\ path[At] = "*" /\ ~BadCatchAll /\ At = 1
    /\ Panics(nodes, "runtime error")

\* A parameter, and if the path goes on behind it the node for that.
InsertParam ==
    /\ stage = "insert"
    /\ numParams > 0
    /\ Wildcards # {}
    /\ ~BadWildcard
    /\ path[At] = ":"
    /\ LET child == Len(nodes) + 1
           start == IF At > 1 THEN At - 1 ELSE offset
           above == IF At > 1 THEN SubSeq(path, offset + 1, At - 1) ELSE nodes[node].path
           param == [NewNode EXCEPT !.nType = "param", !.maxParams = numParams, !.priority = 1]
           t == [nodes EXCEPT ![node].path = above,
                              ![node].children = <<child>>,
                              ![node].wildChild = TRUE]
       IN  IF End <= Len(path)
           THEN /\ nodes' = t \o
                     <<[param EXCEPT !.path = SubSeq(path, start + 1, End - 1),
                                     !.children = <<child + 1>>],
                       [NewNode EXCEPT !.maxParams = Decremented, !.priority = 1]>>
                /\ node' = child + 1
                /\ offset' = End - 1
           ELSE /\ nodes' = Append(t, param)
                /\ node' = child
                /\ offset' = start
    /\ numParams' = Decremented
    /\ i' = At + 1
    /\ UNCHANGED <<locals, stage, path, outcome>>

\* A catch-all: a node without a path, and below it one for the variable.
InsertCatchAll ==
    /\ stage = "insert"
    /\ numParams > 0
    /\ Wildcards # {}
    /\ ~BadWildcard
    /\ path[At] = "*"
    /\ ~BadCatchAll
    /\ At > 1
    /\ path[At - 1] = "/"
    /\ LET child == Len(nodes) + 1
           catchAll == [NewNode EXCEPT !.nType = "catchAll", !.maxParams = 1, !.priority = 1]
           t == [nodes EXCEPT ![node].path = SubSeq(path, offset + 1, At - 2),
                              ![node].children = <<child>>,
                              ![node].indices = <<"/">>,
                              ![Root].nType = IF empty THEN "root" ELSE @]
       IN  Returns(t \o
             <<[catchAll EXCEPT !.wildChild = TRUE, !.children = <<child + 1>>],
               [catchAll EXCEPT !.path = Cut(path, At - 1), !.handle = {full}]>>)

TreeNext ==
    \/ \E route \in Routes : Register(route)
    \/ Leaf \/ WalkWildcard \/ WalkSlash \/ WalkChild \/ StartInsert
    \/ InsertRest \/ InsertBad \/ InsertNoSlash \/ InsertOutOfRange
    \/ InsertParam \/ InsertCatchAll

TreeSpec == TreeInit /\ [][TreeNext]_treeVars

-----------------------------------------------------------------------------
\* What may be registered, from the paths alone.  j is in a wildcard of route:
InWildcard(route, j) ==
    \E k \in 1..j : route[k] \in Wild /\ \A m \in k..j : route[m] # "/"

\* Wildcards have names, one to a segment; a catch-all is a segment, the last one.
Malformed(route) ==
    \E k \in DOMAIN route :
      /\ route[k] \in Wild
      /\ \/ k = Len(route)
         \/ route[k + 1] \in Wild \cup {"/"}
         \/ k > 1 /\ InWildcard(route, k - 1)
         \/ route[k] = "*" /\ (k = 1 \/ route[k - 1] # "/")
         \/ route[k] = "*" /\ \E j \in k..Len(route) : route[j] = "/"

\* Where two routes part, neither may be in a wildcard, except that one of them
\* may end where the other one goes on with a parameter.
Agree(r, s) == Max({k \in 0..Min({Len(r), Len(s)}) : SubSeq(r, 1, k) = SubSeq(s, 1, k)})
PartsInWildcard(r, s) ==
    LET k == Agree(r, s)
    IN  /\ k < Len(r)
        /\ InWildcard(r, k + 1)
        /\ ~(k = Len(s) /\ r[k + 1] = ":")
Conflict(r, s) == r = s \/ PartsInWildcard(r, s) \/ PartsInWildcard(s, r)

-----------------------------------------------------------------------------
\* A route that goes on behind the catch-all of another one: insertChild never
\* sees the catch-all, as addRoute walks through it (tree.go:147).
BehindCatchAll(r, s) == r # s /\ IsPrefix(s, r) /\ \E k \in DOMAIN s : s[k] = "*"

\* As many wildcards as can be counted.
Countable(route) == Cardinality({j \in DOMAIN route : route[j] \in Wild}) <= ParamLimit

\* Routes are registered exactly when nothing is wrong with them: those in the
\* tree are well formed, but for one behind a catch-all, and in no conflict,
\* whatever the order they came in, and the first one to be refused is malformed
\* or in conflict with one of them.
AcceptedRightly ==
    (\A r \in accepted \cup panicked : Countable(r)) =>
      /\ \A r \in accepted : Malformed(r) => \E s \in accepted : BehindCatchAll(r, s)
      /\ \A r, s \in accepted : r # s => ~Conflict(r, s)
      /\ Cardinality(panicked) = 1 => LET r == CHOOSE x \in panicked : TRUE
                                     IN  Malformed(r) \/ \E s \in accepted : Conflict(r, s)

\* checkPriorities (tree_test.go): as long as nothing was refused the priority of
\* a node is the number of handlers in its subtree.
Tallied ==
    stage = "idle" /\ panicked = {} =>
      \A m \in DOMAIN nodes :
        nodes[m].priority = FoldLeft(LAMBDA sum, child : sum + nodes[child].priority,
                                     Cardinality(nodes[m].handle), nodes[m].children)

\* Every route is in the tree, and counted once in every node above it, or refused.
RegisteredRightly == AcceptedRightly /\ Tallied

\* numParams, a uint8 counted down at every wildcard, never counts one that is not
\* there, and so never wraps around, however many wildcards a path has.
Counted == Cardinality({j \in i..Len(path) : path[j] \in Wild}) >= numParams

\* Siblings are in descending order of their priorities.
Prioritized ==
    \A m \in DOMAIN nodes : \A j \in 2..Len(nodes[m].children) :
      nodes[nodes[m].children[j]].priority <= nodes[nodes[m].children[j - 1]].priority

\* What checkMaxParams computes: the largest number of parameters on the way down.
ParamsDown(m) ==
    LET below == Max({0} \cup {nodes[child].maxParams : child \in ToSet(nodes[m].children)})
    IN  IF nodes[m].nType \in {"param", "catchAll"} /\ ~nodes[m].wildChild
        THEN below + 1
        ELSE below

\* Where getValue makes room for parameters, at a wildcard, maxParams is enough for
\* all there are on the way down, even when a route was refused halfway; as long as
\* none was, every node but the root has it exact.
Capacity ==
    stage = "idle" =>
      \A m \in DOMAIN nodes :
        /\ nodes[m].nType \in {"param", "catchAll"} => nodes[m].maxParams >= ParamsDown(m)
        /\ panicked = {} /\ m # Root => nodes[m].maxParams = ParamsDown(m)

\* What is kept beside the routes is right for them, and never less than a lookup
\* will need.
WellKept == Prioritized /\ Capacity /\ Counted

=============================================================================
