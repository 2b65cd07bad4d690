# sshh in TLA+

`sshh` is a Go library for SSH servers. A program gives it a `Config` (address,
authentication callbacks, a `Dispatcher`); the library accepts TCP connections,
does the SSH handshake on each, and gives every channel a client opens to the
dispatcher, which finds a handler by the channel's type, by name or by URL. The
SSH protocol itself, both its ends, is `crypto/ssh`, which the repository
carries with it.

This directory models the server, the dispatchers and the URL router, and
`crypto/ssh` from its packets to the line editor and the agent; checks the models
with TLC; and proves the main properties of fourteen of them with TLAPS. Paths are
relative to the repository; `G/` stands for `src/Godeps/_workspace/src/`, the
vendored libraries, and `S/` for `G/golang.org/x/crypto/ssh/`.

## The system

| Part | Source | State | Operations | Module |
|---|---|---|---|---|
| Server | `src/server.go` 16-112 | listening socket, root reaper | `New`, `Start`, `Stop`, goroutine `listen` | `Server` |
| Connection | `src/server.go` 114-179 | socket, its own reaper, the loop `OUTER` | `Execute` with its deferred calls | `Server` |
| Task supervision | `G/github.com/blacklabeldata/grim/reaper.go` | a `WaitGroup` and a context | `Spawn`, `SpawnFunc`, `Kill`, `Wait` | `TaskGroup`, `Server` |
| Cancellation | `G/golang.org/x/net/context/context.go` | a tree of contexts | `WithCancel`, `cancel` | `Server` |
| Dispatchers | `src/dispatcher.go`, `src/rejects.go` | the channel's `decided` flag | both `Dispatch` methods | `DispatchLife`, `Dispatcher` |
| Path cleaning | `src/router/path.go` | indexes, a lazily made buffer | `CleanPath`, `bufApp` | `CleanPath`, `PathRules` |
| Route tree | `src/router/tree.go` | the tree of nodes | `addRoute`, `insertChild` | `RouteTree` |
| Router | `src/router/router.go`, lookups of `tree.go` | a tree, `NotFound`, `PanicHandler` | `HasRoute`, `Handle`, `getValue`, `findCaseInsensitivePath` | `Router`, `RouterRules` |
| Channel data | `S/channel.go`, `S/buffer.go`, `S/common.go` 290-356 | windows, buffers, streams | `WriteExtended`, `ReadExtended`, `CloseWrite`, `Close`, their packets | `ByteStream`, `Channel` |
| Multiplexer | `S/mux.go`, control messages of `S/channel.go` | the list of channels, requests under way | `OpenChannel`, `Accept`, `Reject`, `Close`, `SendRequest`, `Reply`, `loop` | `Mux` |
| Key exchange | `S/handshake.go`, `S/transport.go` | keys, thresholds, `incoming` | `readLoop`, `enterKeyExchange`, `writePacket` | `Handshake` |
| Authentication | `S/server.go`, `S/client_auth.go` | the user, the cache of keys, methods tried | `serverAuthenticate`, `clientAuthenticate` | `Login` |
| Port forwarding | `S/client.go`, `S/tcpip.go` | `forwardList`, listeners | `ListenTCP`, `Accept`, `Close`, two goroutines | `Forwards` |
| Sessions | `S/session.go` | exit status, copies of three streams | `Start`, `Wait` and what they start | `Session` |
| Messages | `S/messages.go` | | `Marshal`, `Unmarshal`, `decode` | `Codec` |
| Packets | `S/transport.go`, `S/cipher.go`, `S/mac.go` | sequence numbers, positions in the key stream | version line, three ciphers, change of ciphers | `Packets` |
| Algorithms | `S/common.go`, `S/handshake.go` | what each end offers | `findAgreedAlgorithms`, `prepareKeyChange` | `Negotiation` |
| Certificates | `S/certs.go` | | `SignCert`, `CheckHostKey`, `Authenticate`, `CheckCert` | `Certs` |
| Line editor | `S/terminal/terminal.go` | line, cursor, history | keys, `ReadLine`, `ReadPassword`, `Write` | `Terminal` |
| Agent | `S/agent/*.go` | keyring, a mutex per client | keyring, server, client, forwarding | `Agent` |

How they interact: `listen` spawns one `Execute` per TCP connection in the root
reaper; `Execute` does the key exchange and the login, reads new channels from the
multiplexer and spawns one `Dispatch` per channel in a reaper of its own; `Dispatch`
asks the `Router`, which cleans paths and looks them up in the tree, accepts the
channel and runs a handler on it. Packets come up through `Packets`, `Handshake`
(whose `incoming` the multiplexer reads), `Mux` and `Channel`; a client's sessions,
forwards and agent channels are users of its multiplexer.

What is hard about it, and what has to be true:

* **Shutdown crosses three levels of goroutines.** Every goroutine, however late it
  was spawned, must find its context done; the wait group must not be raised from
  zero under `Wait`; `Stop` returns only when everything is over, and returns.
* **Bounded channels between goroutines that wait for each other**: the mux and
  `Execute`, the mux and the read loop of the handshake, `forwardList` and the
  listeners, the copies of a session and its `Wait`.
* **One handler's end is everybody's end.** `Dispatch` closes the connection, not only
  its channel, while siblings are between a check and `Accept`.
* **Two ends act at once**: both close a channel, both start a key exchange, both give
  numbers to channels; and packets of before are still on their way.
* **Answers without a number**: replies to requests and replies of the agent belong to
  whoever waits.
* **Answers that are kept** (the cache of public keys) **or come by two ways** (the exit
  status and the output) must fit the question and the moment they are used in.
* **Two implementations of one rule**: windows at both ends, `intLength` and
  `marshalInt`, three ciphers and one reader, the choice of algorithms, the cursor of
  the terminal and where the editor believes it is.
* **Index arithmetic**: `CleanPath`, the tree's priorities, indices and counts,
  ring buffers, unsigned times compared as signed ones.

`PROJECT.json` lists these at their lines under `hazards`, each with the properties
that would catch it or the reason why none does.

## The modules

    TaskGroup  <--refined by--  Server  --refines-->  DispatchLife  <--refined by--  Dispatcher
    RouteTree  <--extended by-- Router <--extended by-- RouterRules
                                Router --uses--> PathRules <--compared with-- CleanPath
    ByteStream <--refined by--  Channel
    ServerProofs(Server)    RouterProofs(CleanPath, RouteTree)    ChannelProofs(Channel)
    MuxProofs(Mux)          HandshakeProofs(Handshake)            LoginProofs(Login)
    Client(Agent, Forwards, Session)                          <-- ClientProofs
    Parts(Dispatcher, Negotiation, Certs, Packets, Terminal)  <-- PartsProofs
    MCServer(Server)   MCMux(Mux)   MCAgent(Agent)   MCTransport(Login, Handshake)
    MCClient(Client)   MCParts(Parts, CleanPath, RouteTree, RouterRules, Codec)

Three modules are abstract, and each is what another component relies on.
`TaskGroup` is what a reaper promises its owner. `DispatchLife` joins the server and
the dispatchers: `Server` has a small `Dispatch` of its own (refuse, accept, handle,
close, done), and both it and the real dispatchers implement `DispatchLife`: a
handler runs only on a channel that could be accepted while the connection was open,
and after `Dispatch` the connection is closed and stays so. `ByteStream` is the stream
of at most a window that `Channel` implements. In the same way `Router` takes `Clean`
from `PathRules` in the place of running `CleanPath`, and `Correct` entitles it to.

The modules of `crypto/ssh` are cut where one layer cannot see another: `Handshake`
knows packets by their key and number, `Packets` by their length and cipher, `Codec`
by their fields; `Mux` does not see data nor `Channel` numbers; `Login` runs between
two exchanges of keys. What a layer takes from the one below it is what that one is
checked for: `Mux` and `Channel` have ordered wires because `Handshake` has
`Delivered`, `Handshake` one key per packet because `Packets` has `InStep`.

`Client` and `Parts` put components side by side, each with its own variables, and name what
they promise, so that runs and theorems speak of the same properties. `Login` and
`RouteTree` have names of their own for what other modules call `Init`, `Next` and `Spec`,
because `MCTransport` extends `Handshake` too, and `MCParts` `Parts`.

`MCTransport`, `MCClient` and `MCParts` put parts that do not interact into one run:
a variable `part` is chosen at the start, the parts not chosen stay idle (at 0, or in
one of their initial states where a property of theirs is evaluated), and the state
space is the sum of those of the parts. Nothing is lost by that: every behaviour of
every part is a behaviour of the run.

Operators whose comment says "slip", "mutant" or "plausible bug" are the code as
it might have been with one mistake: a forgotten `Kill`, a child inserted without its
index. Each shows that a property would notice. No specification uses them.

### Server

* `stopPC`, `lpc`, `hpc`, `chan`: where the caller of `Stop`, `listen`, each
  `Execute` and each `Dispatch` are. `hpc` goes through the deferred calls in the
  order Go runs them: `kill`, `connwait`, `connclose`, `gwait`, `finish`.
* `wg`, `gwg`: the wait groups of the root reaper and of each connection's.
* `rootDone`, `kids`, `ctxDone`, `chanDone`: the context tree. `cancel` closes the
  parent's `Done` first and then its children's one by one under a lock, so
  cancellation is a step for the root (`StopKill`, `CancelParent`), and one for
  every child it reaches (`CancelTask`, `CancelChan`). `WithCancel` on that
  context waits for the lock (`RootSettled`) and gives a context that is done.
* `listener`, `peer`, `sock`: the listening socket, the client's and the server's
  end of each connection. `mux`, `queue`: the mux goroutine and `incomingChannels`.
* `held`: what is in the other bounded Go channels that the mux sends to, the inboxes:
  `incomingRequests` and `globalResponses` of a connection (`S/mux.go:283`, 290) and
  `incomingRequests` and `msg` of a channel (`S/channel.go:448`, 450), be the channel
  accepted or not. A message more than fits blocks the mux (`MuxSend`) until somebody
  receives (`Receive`). `Sent` says for which of them a client sends anything, so that
  a run has those it is about.

A `select` with several cases ready takes any. The client connects, opens channels,
sends requests, closes or stays silent as it likes; a handler returns as it likes; the
handshake succeeds or fails as one step (its inside is `Handshake` and `Login`).

### Dispatcher, CleanPath, RouteTree, Router

A channel type is the set of its defects, out of what `UrlDispatcher` checks. `Decide`
is `Accept` and `Reject` with the `decided` flag; `late` remembers the channels that
were rejected after they had been accepted. `CleanPath` has the function's variables
(in `MCParts`, `phase` is its `pc`), one action per case of the switch; a byte the code
never wrote is `Zero`. In `RouteTree`, `nodes` is the tree, pointers are positions in
it, a handler is named by its path, and there is one action per turn of `walk` and of
`insertChild`'s scan (`stage`); `numParams` wraps at `ParamLimit + 1`, as a `uint8` does at 256.
A panic leaves the tree as it is: the caller recovers, as the tests do, and goes on
registering. Lookups change nothing and are recursive operators on the tree.

### Channel and Mux

`Channel` is one direction: the writing end `w`, the reading end `r`, three streams
(`data`, `stderr` and any other extended one) over one window. A byte is its position in
its stream. `wire` and `back` are the packets on their way, `win` and `myWindow`
the windows, `space` what a `Write` has reserved and not yet sent. `Reserve`, `Send`,
`HandleData`, `Read`, `Credit` and `Tell` are separate because two locks and the
connection lie between them.

`Mux` has both ends, their lists (`chans`) with the numbers they give (`local`,
`remote`), `decided`, `sentClose`, `closed`, one queue of responses (`msg`) and of
requests per channel and for the connection. A channel keeps its identity, so that
what a packet reaches by its number can be compared with what it was sent for.

### Handshake and Login

`Handshake` has the program counters of both read loops (`rp`) and of two writers at
each end (`wp`: the mux and the user), the counts against the threshold, `incoming`
with its capacity, and the keys, named by the two `kexInit`s they were made from. A
critical section of `mu` is a step. `Login` has both ends after the first exchange;
the client is that of this package (`honest`) or any other that sends every packet
there is, signed with keys it holds. Permissions are the call of the callback that
gave them, so that `Vouched` can say for whom it was.

### Forwards, Session, Agent

`Forwards` follows a channel from the mux through both goroutines of the client to the
listener it was meant for, with the lock of `forwardList` held over the last send.
`Accept` of a listener also fails when that of the channel does (`S/tcpip.go:259-262`),
and the goroutine that calls it may then stop: such a listener is `Full` as soon as one
more channel comes, and the list is held up (`Jammed`) with the next.
`Session` has the command, the goroutine that reads its exit status, the copies of the
streams, and the caller's `Wait`. A copy fails with the caller's reader or writer
(`faults`), with the connection (`broken`), also in the `CloseWrite` after the last byte
of the input, or with a closed channel; `wait` gives up at an exit-signal that it cannot
parse (`Malformed`). `Agent` has the keyring, the connections to it, and the
callers of the client with the mutex between them; the program that made the keyring
uses it directly.

### Codec, Packets, Negotiation, Certs, Terminal

Functions and small protocols over their inputs: every message cut, padded or changed in a
byte, which may make a length of it so large that `parseString` panics; a stream of
packets under changing ciphers; offers of an end of this package or a foreign one, from
which each end chooses by its own view (`Sides`, `Usable`); certificates changed on their
way and shown at every time; keys typed into an editor whose screen, a VT100 with the
wrapping of one, is modelled beside it.

## What TLC checks

"Violated" runs end in the counterexample they are expected to end in.

| Run | What it shows |
|---|---|
| `server_conns` | Two connections, one with a channel, against `Start`, `Stop` and a cancelled `Config.Context` in every order: `Kill` reaches late comers too (`KillReachesAll`), after `Stop` all is over (`StopComplete`), no wait group is raised from zero under `Wait` (`AddBeforeWait`), the root reaper implements `TaskGroup` (`RootReaper`). The client of the other sends replies nobody asked for, which block its mux. |
| `server_chans` | Three channels through a buffer of two: `Execute` leaves no socket, mux or dispatch behind (`ExecuteLeavesNothing`), its reaper implements `TaskGroup` (`ConnReapers`). |
| `server_live` | Two channels through a buffer of one, requests on one of them from before it is accepted. The end of one `Dispatch` ends the connection unless its mux is blocked for good (`DispatchEndsConnection`); `Stop` returns if from some time on no client is connected and no mux is blocked for good (`StopReturnsUnlessStuck`). |
| `stop_full_queue` | Violated: `Stop` returns once all clients have left, whatever the mux is doing (`StopReturnsOnceAllLeft`). |
| `channel` | No packet is ever refused by the other end (`Accepted`), the windows agree (`WindowsAgree`), the data are a lossless stream of at most a window (`Streaming`), writes and closes finish (`OperationsFinish`). |
| `mux` | Packets and replies reach what they were sent for, though numbers are used again (`ForTheRightOne`); both ends agree on the open channels (`SameChannels`); nobody waits for ever, but an `OpenChannel` that came after the end of the mux (`Settled`). |
| `transport` | Key exchanges: every packet is read under its own key, and a key does not serve too long (`KeysRight`), a change of keys loses nothing (`Delivered`), writes return unless a mux is stuck (`WritesReturn`). Logins: nobody is let in unvouched (`Vouched`), the ends agree and the client tries all it can (`OutcomeTrue`), and comes to an end (`LoginEnds`). |
| `rekey_stuck` | Violated: an exchange that has begun ends (`ChangeEnds`). |
| `client` | Forwards: the list is exact (`ListExact`), channels are answered and `Accept` returns when the connection is lost, unless a listener that nobody serves any more holds up the list (`EveryoneServed`). Session: `Wait` returns after all output or with an error that has its cause, and with the right verdict (`WaitTrue`). Agent: callers get the answers to their own calls, and nothing out of a locked keyring (`AnswersRight`). Session and Agent: calls return (`CallsReturn`). |
| `remove_keeps` | Violated: `Remove` removes all identities with its key (`RemoveRemoves`). |
| `parts` | CleanPath: the result is what `PathRules` says and a fixed point (`Correct`). Dispatchers: `EveryChannelDecided`, `Truthful`, and both implement `DispatchLife` (`Lives`). Tree: what is accepted is well formed and free of conflicts in every order (`RegisteredRightly`); priorities are sums over the subtrees (in `RegisteredRightly` too), siblings are in order of them, `maxParams` is enough and without a refusal exact, and no count wraps (`WellKept`). Router: a lookup finds the one route that matches, with its parameters (`Exact`), and another path is served only if the one asked for has no route (`FixedHonestly`). Codec: what decodes is what was sent, and only a length that wraps panics (`DecodesExactly`). Algorithms: what each end finds by its own view is the first common one, and the same (`SameChoice`). `InStep`, `AcceptsTheValid`, `EditorTrue` for the packets, the certificates and the editor. |
| `one_direction` | Violated: each end writes with what the other reads with, whatever the other offers (`DirectionsMatch`). |

### Bounds, and why they are enough

* Server: two connections are what it takes for one to be accepted late while another
  is in its last wait. On one connection three channels over a buffer of two make one
  that is dispatched, one that is queued and one that the mux is blocked on. Nothing
  compares them beyond that, and the theorems hold for any number. `ChanBuf` and
  `InboxBuf` of 1 or 2 instead of 16: what matters is empty, neither and full. Each
  run sends for one inbox at most (`Sent`): all four kinds block in the same way, a send
  to a full Go channel, and the mux is in one send at a time; which of them it is in makes
  no difference to anybody but the one who receives. The safety theorems are for any
  `Sent`.
* `channel`: a window of two, packets of two and three bytes: a window that fills, a
  write split over packets, a write that gets less than it asked for, credit that
  comes in pieces. `MaxWin` is one more than the window, so that one adjustment too
  many overflows. Proved for all values.
* `mux`: two channels, one from each end, so that a number is given twice; two requests,
  so that one can be answered late.
* `transport`: a threshold of one packet makes every second packet start a change,
  from both ends; `incoming` holds one instead of 16. Two users, a key that is good and
  one whose algorithm is not, a cache of one entry, one challenge. Proved for all
  values.
* `client`: two listeners that want one address; three channels, one for each buffer
  on the way; one write to each stream and one read of the input, every exit, with a signal
  that has a number, one that cannot be parsed, or none; two callers of one connection, two
  identities.
  The safety of all three is proved for all values.
* `parts`: paths of up to six bytes (each case of `CleanPath` looks three bytes ahead and
  one element back); sequences of four registrations out of eighteen paths that make
  every turn of the loops happen, and of three for lookups; a `ParamLimit` of 2
  instead of 255, and apart from those, routes of three wildcards, which it cannot count;
  lists of up to two algorithms (`Longest`) out of three ciphers of which this package has
  two, and without a bound in the proof;
  bytes of two bits and lengths of two bytes, which keep every boundary of the encodings;
  payloads on both sides of each boundary of the three paddings; sequence numbers that wrap
  after two; a screen of two columns and lines of three characters, which wrap in every
  way.

`SYMMETRY` is used in `server_chans` alone, for safety. Of listeners, channels and
callers that differ in nothing but their names, liveness is checked for one.
`CHECK_DEADLOCK FALSE` is for what ends (functions, logins, sessions) and for
the runs of `Server`, in all of which the mux can hang.

### Fairness

Every fairness condition says that a goroutine of the package that can take a step
takes one, as the Go scheduler sees to. None obliges a client, a user, a network or a
caller to do anything:

* `Server`: weak fairness of `listen` (whose `Accept` comes back every `Deadline`), of
  `Execute` with its handshake, of `Stop` once called, of cancellation, of the mux's
  send of a channel and its teardown, and of `Dispatch`. `HandshakeEOF`: the handshake
  ends only once the client has gone. `HandlerObeys`: a handler returns once its
  context is done or its channel is at its end, the contract of `grim.TaskFunc`.
  `Receive`: only the inboxes in `Drained` are read. Strong fairness
  of `MuxEOF` alone: reading the end of the stream competes with reading packets
  before it, of which there are only finitely many.
* `Channel`: who has begun a write or reads, and both muxes. `Handshake`: both read
  loops, both muxes and every `writePacket`. `Login`: both ends.
* `Forwards`: both goroutines, `closeAll`, and the callers of `Accept` until it fails, as
  `Listen` demands. `Session`: the goroutines of the package. `Agent`: replies are
  read, connections dialled and served.

`Mux` has none: `Settled` says of every state in which nothing more can happen unasked
that nobody waits in it. What happens unasked uses up packets, requests and decisions,
so that such a state is reached.

## What is proved

For all values of the constants, under the named assumptions of the modules, which TLC
evaluates for the constants of the runs. `RoutesAssumption` asks only that
routes are sequences of bytes and that the limit of the count is not 0.
`HandshakeAssumption`, `ClientAssumption` and `PartsAssumption` say what the code and the
use of it grant: that `incoming` and the other Go channels have room for one; that the
marks for "none" and for a bad address are no values; that exit statuses are numbers, 0
among them, and that the numbers of signals are not 0; that the clock and the times of
certificates have some width; of packets that the padding of a block fits the byte that
holds its length, and that a payload, padded, is within `maxPacket`; and of the terminal
that it has a column, a prompt and a history, and the model's screen the rows for the
longest line.

| Module | Theorem | Says |
|---|---|---|
| `ServerProofs` | `Invariance`, `TypeCorrect` | the inductive invariant; types, and no wait group is negative |
| | `WaitGroupsExact` | `[]WaitGroupExact` |
| | `KillIsComplete`, `ExecuteIsClean`, `StopIsComplete` | `[]KillReachesAll`, `[]ExecuteLeavesNothing`, `[]StopComplete` |
| | `AddsBeforeWaits` | the action property `AddBeforeWait` |
| | `RootRefinement`, `ConnRefinement`, `DispatchRefinement` | both kinds of reaper implement `TaskGroup`, the dispatches `DispatchLife` |
| `RouterProofs` | `TypeCorrect`, `IndexesInRange`, `ReturnsSlashed` | for paths of any length over any bytes (`PathsAssumption`): types, no index out of range, a well-formed result |
| | `TreeTypesCorrect`, `AlwaysWellKept` | `[]TreeTypeOK`, `[]WellKept` of `RouteTree`, for any routes, any number of them and any `ParamLimit` |
| `ChannelProofs` | `TypeCorrect`, `NothingRefused`, `WindowsAlwaysAgree`, `EOFAlwaysMeansAll` | types, `[]Accepted`, `[]WindowsAgree`, `[]EOFMeansAll` |
| | `Implements` | `Channel` implements `ByteStream` |
| `MuxProofs` | `TypeCorrect`, `AlwaysForTheRightOne`, `AlwaysSameChannels` | `[]TypeOK`, `[]ForTheRightOne`, `[]SameChannels`, for any number of channels and requests |
| `HandshakeProofs` | `TypeCorrect`, `KeysAlwaysRight`, `EverythingDelivered` | `[]TypeOK`, `[]KeysRight`, `[]Delivered`, for any threshold, capacity and number of packets and exchanges |
| `LoginProofs` | `EntrantsVouched`, `EndsAgree`, `OutcomeAlwaysTrue` | `[]Vouched`, `[]Agreement`, `[]OutcomeTrue` |
| `ClientProofs` | `AnswersAreRight` | `[]AnswersRight` of `Agent` |
| | `ListAlwaysExact` | `[]ListExact` of `Forwards` |
| | `WaitAlwaysTrue` | `[]WaitTrue` of `Session` |
| `PartsProofs` | `TypeCorrect`, `AnswersTrue`, `AllDecided`, `PanicsContained` | `[]TypeOK`, `[]Truthful`, `[]EveryChannelDecided`, `[]PanicContained` of `Dispatcher` |
| | `LifeRefinement` | both dispatchers implement `DispatchLife` |
| | `ChoiceAlwaysSame` | `[]SameChoice` of `Negotiation`, for lists of any length that name an algorithm once, and any foreign end |
| | `ValidAlwaysAccepted` | `[]AcceptsTheValid` of `Certs`, for times of any width |
| | `AlwaysInStep` | `[]InStep` of `Packets`, for any lengths, blocks and wraps |
| | `HistoryAlwaysTrue` | `[]HistoryTrue` of `Terminal`, for a history of any length |

The properties without a run of their own (`WaitGroupExact`, `PanicContained`,
`InRange`, `Slashed`, `EOFMeansAll`, `DispatchLives`, `Agreement`, `HistoryTrue` and the
`TypeOK`s) are weaker than, or were found with, ones that have one, and need none:
they are proved.

None of the safety properties is inductive. The invariants (`IInv` in each module) add:

* `ServerProofs`: how the program counters bound everything else. `ConnShape`: an
  `Execute` that has reached `gwait` has a closed socket and a mux that is over, which
  only the order of the deferred calls gives. `DispatchShape`: a `Dispatch` runs only
  within its `Execute`, so the root group at zero means that all is over.
  `ContextShape`: every live task has a done context or is among the `kids` that a
  cancellation will reach, and after `Kill` `kids` is empty for good; `KilledShape`
  does the same one level down. `WaitGroupExact` goes by cardinalities: a step moves
  at most one task in or out of the live ones (`RootMove`, `Counted`), and counts it.
* `RouterProofs`, `CleanPath`: the writer can be one ahead of the reader in a path without
  its first `/` (`Off`), into a buffer that was made one longer (`Fits`); `Behind` is
  `w <= r + Off` and where it is strict; `CleanSoFar` says that the bytes before `w`
  are a clean path already.
* The tree (`TreeInv`): every node but the root has one parent, a node with a wildcard
  child has that one only, and the children of a plain node have an index each (`Tree`), so
  that a change of one node is a change of one place. `Roomy` says that `maxParams` is
  never less than a node and any child of it need, `Tight` that it is not more than one of
  them needs. While a route is being registered, the latter fails in one place: nodes
  above already have the room for the wildcards still to come. That place is `node` in
  `insertChild` (`Tight`, with `numParams` more), and in `addRoute` also its parent
  (`TightAbove`). After a panic nobody takes that room back, hence the premise of exactness
  in `WellKept`. `Deep` counts the wildcards above each node, because `countParams` stops at
  `ParamLimit`: the text of a plain node contains a wildcard only below that many, where
  `numParams` has come to 0. `Idling`, `Walking` and `Inserting` tie `numParams` to the
  wildcards in the rest of the path, as far as the count went. Siblings stay in order
  because `incrementChildPrio` moves the child past exactly those it has overtaken
  (`Overtaken`).
* `ChannelProofs`: a ledger. What is on a path continues what the other end has received
  (`WireJoins`, `BackJoins`), so that received and on the way make sent, of bytes and
  of adjustments; bytes read become credited, then told, and what the writer may still
  send never exceeds what it has heard (`Ledger`). Nothing follows a close on a path
  (`Last`), so no packet meets a forgotten channel (`Forgotten`).
* `MuxProofs`: an end frees a number when the last packet that the other sends for the
  channel comes (`Gone`, with `Ordered` for what may follow what), so that none comes to a
  number that is given again; an end learns the number of the other before it uses it
  (`Addressed`, `Confirmed`). That `chanList.add` finds a free number at all is a
  pigeonhole (`Least`). Of a request that waits there is one trace at most, as a packet,
  in the queue of the other end, as reply or as response (`One`), and what is closed is in
  no list any more and gets none (`Closed`). For `SameChannels`, a close that was sent is
  on its way for as long as the other end lists the channel (`Closing`), and what is
  listed is being opened, open or rejected (`Standing`).
* `HandshakeProofs`: what an end writes has a fixed order (data, init, one message of the
  exchange, newkeys, data under the next key), so a packet's key and type give its place
  in it (`Before`, `After`), and the places of the end that writes (`Out`) and of the one
  that reads (`In`) are joined by what is on the way (`Stream`). `Keyed` ties keys and
  inits to the read loop; `Served` adds the writers who have already passed the look at
  the threshold to what the key has served for. For `Delivered`, the packets of the
  mux are numbered through three places, `incoming`, the read loop's hand and the wire
  (`InOrder`).
* `LoginProofs`: whatever accepts is a call of this attempt, or one of the cache
  (`OfKeys`), and a good signature is by a key the client holds (`Signed`); a server
  that challenges has the callback for it (`Challenged`). For the agreement, client
  and server take turns (`Turns`). For what the client has tried, what the server reads
  is what the client waits for (`Matches`), each failure has a refusal for its reason, be
  it one the cache remembers (`Told`), and what was tried was refused (`Tried`).
* `ClientProofs`, the agent: `client.mu` makes the one who waits the one who holds the
  connection (`Held`), where at most one request or reply is under way, and it is his
  (`Owed`). A reply that a caller has seen made by a locked keyring says nothing (`Silent`).
* The forwards: `remove` goes by the address, and finds the right entry because, from the
  server's answer until the server is told of the end, nobody else can have the address
  (`Owned`).
* The sessions: what `wait` has read and what it has still to read make what the exit
  sent (`Heard`), so that its verdict is about all of it, or comes early at what cannot be
  parsed (`Judged`, `Truth`, `Over`); the errors under way and those collected count the
  copies that are done (`Counted`); a copy that is done has moved all its stream, or has
  an error and a cause for it (`Copied`, `Excused`).
* `PartsProofs`, the dispatchers: a channel is undecided until it is refused or accepted
  and decided while it is handled, so that a late `Reject` can only come upon "confirm".
* The history: the line that was read `n` lines ago is in the place `n` before `head`, round
  the ring (`Place`, `Holds`); `Add` moves every line one place away from `head` and
  overwrites only the one that has no `n` any more (`PlaceMoves`).
* The algorithms: each end goes by its own two messages and its own ciphers (`Found`).
  Both come to one choice because they tell apart whose message is whose, and because a
  list with other ciphers than this package's is never that of the end that lacks them, so
  that passing over them skips nothing in common (`UsableAlike`, `AgreedAlike`). The
  certificates: a verdict rests on what cannot change while it stands (`CertInv`), and the
  signed comparisons say what the unsigned ones do, in each half of the numbers
  (`TimesRight`).
* The packets: from the reader to the writer each frame begins where the one before has
  ended (`Joined`). Between the two ends, there is at most one change of keys, and the
  cipher that is pending is the one the other has taken or will take (`Counts`); as
  ciphers are numbered, the reader has the one that a frame was made with. The lengths of
  a frame follow from its payload's (`Legal`), for which the remainders of the padding
  are worked out once for each cipher.

Only model-checked, and why:

* liveness (`DispatchEndsConnection`, `StopReturnsUnlessStuck`, `OperationsFinish`,
  `WritesReturn`, `LoginEnds`, `EveryoneServed`, `CallsReturn`), and `Settled`, which speaks
  of `ENABLED`: beyond the prover;
* `RegisteredRightly`, `Exact`, `FixedHonestly`: the sum of the priorities below a node
  is a fold, and the lookups and what they are compared with recurse over the tree and
  the path;
* `Correct`, `DecodesExactly`: inductions over the input, and `PathRules` and `Codec`
  recurse over it;
* of `EditorTrue`, `ScreenTrue`: the screen that the terminal is compared with is the
  fold of all that was written to it.

## Where the code departs from what it says

With a run of its own, quoted under `findings`:

* `stop_full_queue`. Once `OUTER` has ended nobody reads `channels`. A mux that is
  sending a channel to a full `incomingChannels` (`S/mux.go:319`) never reads the end of
  its connection, so `sshConn.Wait` never returns, nor does `Stop`. The four inboxes
  (`held`) hang it in the same way: a second reply that nobody asked for, a message to a
  channel that is not accepted, requests a handler does not read. Hence the premises of
  `DispatchEndsConnection` and `StopReturnsUnlessStuck`.
* `rekey_stuck`. The mux writes while it reads, and `writePacket` waits for the exchange;
  when `incoming` is full the read loop waits for the mux (`S/handshake.go:142`), and the
  exchange never ends. `WritesReturn` therefore has `Stuck` in its premise.
* `remove_keeps`. `keyring.Remove` slices the wrong end (`S/agent/keyring.go:66`): it
  keeps the last identity only, and with a single one loops for ever, the mutex held.
* `one_direction`. A server whose peer offers different ciphers for the two directions
  writes with the one meant for reading (`S/transport.go:96`).

Seen in the models, without a run of their own:

* Server: `Stop` waits for clients: `sshConn.Wait` comes before `sshConn.Close`
  (`src/server.go:147`) and the handshake has no deadline; hence the premise that they
  have left in `StopReturnsUnlessStuck`. Contexts of ended connections stay in `kids`
  until the root is cancelled (`reaper.go:81`): memory only. A server stopped before it
  was started keeps its listening socket. Consumers of global requests
  (`src/server.go:150`) may outlive `Stop` by a moment, draining a channel the mux has
  closed.
* Dispatchers: `SimpleDispatcher` returns from a channel it has no handler for without a
  word, and recovers no panic: its `recover` is not in a deferred function. `Reject`
  after `Accept` sends nothing: no client is ever told `ChannelHandleError` or
  `ChannelAcceptError`.
* Paths: `a/` is cleaned to `/a`, while `aa/` keeps its slash (`path.go:44`). A catch-all
  with nothing before it makes `insertChild` read `path[-1]` (`tree.go:279`). A path
  that goes on behind a catch-all is accepted if the catch-all was registered before
  (`tree.go:147`). A route refused halfway leaves its wildcards in the tree. With 256
  wildcards in a path the count is at zero before the path is, and a registered
  handler can be overwritten (`tree.go:190`). The case-insensitive search returns from
  the first child that claims a match (`tree.go:552`).
* Mux: `Reject` leaves the channel in its list (`S/channel.go:519`).
* Handshake: after a failed exchange `writePacket` returns `writeError` without unlocking
  `mu` (`S/handshake.go:263`), and later writers hang; `prepareKeyChange`'s error is
  ignored (346).
* Login: `AuthLogCallback` is not called for a bad signature though `S/server.go:65` speaks
  of all attempts; attempts are not limited.
* Forwards: a listener added after `closeAll` waits in `Accept` for ever (`AcceptEnds`
  excludes it); a program that takes the error of one channel's `Accept` for the end of
  the listener (`S/tcpip.go:261`) can hang the connection (`Jammed`). Session: a second
  `Wait` blocks; a command that succeeds without reading its input gives an error, and so
  does one whose input was all copied when the connection broke before `CloseWrite`
  (`S/session.go:461`); after an exit-signal that it cannot parse nobody reads the
  requests any more; an exit-status shorter than four bytes panics (404). Agent: `Unlock`
  is read as a lock message and always fails over the wire; the server accepts RSA keys
  only; a relay that cannot reach its agent leaves the channel open.
* Messages: at the four largest lengths of a string `parseString` panics
  (`S/messages.go:490`), where `Unmarshal` promises an error (283): the exception in
  `DecodesExactly`.
* Packets: the writer's limit exceeds the reader's by the padding (`S/cipher.go:194`), and
  only the stream ciphers' writer checks it; CBC is in no list of `cipherModes`, so that
  it is never negotiated. Certificates with `ValidBefore` in the upper half of its range
  count as expired, except for the value that means never. Terminal: `DeleteLine`
  prints spaces without echo; the length of a line is not tested during a paste.

## Not modelled

* The mathematics of keys, signatures and key exchange (`S/keys.go`, `S/kex.go`): their
  values are opaque, and only their owner can make them.
* `Config`, handler types and interfaces: no state. The example, which is written against
  an older interface of the library and does not build with it.
* Deadlines, timers and values of contexts, which the server does not use.
* `getValue`'s recommendation to redirect, which `Router` ignores; letter case beyond one
  pair of bytes; UTF-8. Registering while requests are served, which `addRoute` ("Not
  concurrency-safe!") leaves to the caller.
* Of the terminal, the parsing of escape sequences, auto-completion, a change of its size
  and of the prompt in the middle of a line; of sessions, requests before the command; of
  the client, `Dial`, which opens a channel like any other; of messages that a peer forms
  badly, all but the exit-signal and what `Codec` is given.
* Of the negotiation, a first key exchange message that a peer has guessed; MACs, which
  `findCommonAlgorithm` chooses like the rest.
* The other vendored libraries: logging, colours and test tooling.

## Plan

What remains worth doing:

* The composition of `Handshake` with `Mux`, for a client that stops reading. Each is proved
  against the wires that the other promises; together they have too many states for TLC,
  and a proof would need an invariant over both.
* That the wildcards of `RegisteredRightly` do not conflict, for every tree: `OneWildcard`
  of `RouterProofs` is half of it for the node where a route is put.
