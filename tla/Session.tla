------------------------------ MODULE Session ------------------------------
(***************************************************************************)
(* A command run over a session channel (crypto/ssh: Session).  The caller *)
(* starts the command and waits for it; one goroutine reads the requests   *)
(* of the channel for the exit status, one copies standard input to the    *)
(* channel, and one each copies standard output and standard error from    *)
(* it.  Any of the three may be left to a pipe that the caller uses        *)
(* itself; an input of the caller's is fed to the copy through io.Pipe by  *)
(* a further goroutine, since reading it may never end.  The caller's      *)
(* readers and writers may fail.                                           *)
(*                                                                         *)
(* The command writes, reads its input or not, and exits in any way, which *)
(* the server may tell in a request nobody can parse; the server closes    *)
(* the channel after that, or the connection breaks: writing to it then    *)
(* fails, a while before the multiplexer closes the channel or after.      *)
(***************************************************************************)
EXTENDS Integers, Sequences, FiniteSets, SequencesExt

CONSTANTS
    Writes,     \* writes of the command to one stream (a bound)
    Reads,      \* reads of the caller's input that bring something (a bound)
    Statuses,   \* exit statuses
    Signals,    \* those the package numbers, and the others
    Number      \* and what it numbers them

\* An exit-signal that cannot be parsed, in the place of its signal.
Malformed == "malformed"

SessionAssumption ==
    /\ Writes \in Nat /\ Reads \in Nat
    /\ Statuses \subseteq Nat /\ 0 \in Statuses
    /\ Malformed \notin Signals
    /\ DOMAIN Number \subseteq Signals /\ \A g \in DOMAIN Number : Number[g] \in Nat \ {0}

Outputs == {"stdout", "stderr"}
Streams == Outputs \cup {"stdin"}
Nothing == -1

VARIABLES
    piped,      \* streams left to a pipe
    input,      \* the caller's Stdin: "nil" (an empty one), or "user"
    endless,    \* it blocks for ever once all its reads are done
    remote,     \* the command: "idle", "asked", "running", "exited"
    open,       \* the channel
    broken,     \* what is written to the connection fails
    reqs,       \* requests on the channel, not read yet
    ended,      \* what the exit-status and exit-signal sent say: <<status, signal>>
    seen,       \* what wait has read of them
    exitStatus, \* the channel of capacity one: <<>> or the error of wait
    written,    \* writes of the command to each stream that have arrived
    copied,     \* those that have reached the caller
    copying,    \* what each copy does: "none", "copying" or "done"
    errors,     \* one error of every copy that is done
    faults,     \* streams of which the caller's reader or writer has failed
    fed,        \* reads of the caller's input written to io.Pipe
    moved,      \* those copied on to the channel
    pipe,       \* io.Pipe: "none", "open", "closed", or "failed" with the reader's error
    caller,     \* "new", "asking", "started", "waiting", "collecting", "returned"
    waitErr,    \* what Wait has got
    copyErr,
    collected

setup  == <<piped, input, endless>>
server == <<remote, ended, written>>
stdin  == <<fed, moved, pipe>>
conn   == <<open, broken>>
waits  == <<caller, waitErr, copyErr, collected>>
vars   == <<setup, server, conn, reqs, seen, exitStatus, copied, copying, errors, faults, stdin,
            waits>>

NoStatus == <<Nothing, "">>     \* no exit status, no signal
Lost == -2                  \* the error of Start

Init ==
    /\ piped \in SUBSET Streams
    /\ input \in {"nil", "user"} /\ (input = "user" => "stdin" \notin piped)
    /\ endless \in BOOLEAN /\ (endless => input = "user")
    /\ remote = "idle" /\ open = TRUE /\ broken = FALSE /\ reqs = <<>>
    /\ ended = NoStatus /\ seen = NoStatus /\ exitStatus = <<>>
    /\ written = [s \in Outputs |-> 0] /\ copied = [s \in Outputs |-> 0]
    /\ copying = [s \in Streams |-> "none"] /\ errors = <<>> /\ faults = {}
    /\ fed = 0 /\ moved = 0 /\ pipe = "none"
    /\ caller = "new" /\ waitErr = Nothing /\ copyErr = FALSE /\ collected = 0

CopyFuncs == Streams \ piped

-----------------------------------------------------------------------------
\* Start and Shell ask for the command, and set up the streams once granted;
\* a refusal leaves the session as it was, to be asked again.
Ask ==
    /\ caller = "new"
    /\ IF open /\ ~broken
       THEN caller' = "asking" /\ remote' = "asked" /\ UNCHANGED waitErr
       ELSE caller' = "returned" /\ waitErr' = Lost /\ UNCHANGED remote
    /\ UNCHANGED <<setup, ended, written, conn, reqs, seen, exitStatus, copied, copying, errors,
                   faults, stdin, copyErr, collected>>

Refuse ==
    /\ remote = "asked" /\ open
    /\ remote' = "idle" /\ caller' = "new"
    /\ UNCHANGED <<setup, ended, written, conn, reqs, seen, exitStatus, copied, copying, errors,
                   faults, stdin, waitErr, copyErr, collected>>

StartFails ==
    /\ caller = "asking" /\ remote = "asked" /\ ~open
    /\ caller' = "returned" /\ waitErr' = Lost
    /\ UNCHANGED <<setup, server, conn, reqs, seen, exitStatus, copied, copying, errors,
                   faults, stdin, copyErr, collected>>

Start ==
    /\ remote = "asked" /\ open /\ caller = "asking"
    /\ remote' = "running"
    /\ caller' = "waiting"
    /\ copying' = [s \in Streams |-> IF s \in CopyFuncs THEN "copying" ELSE "none"]
    /\ pipe' = IF input = "user" THEN "open" ELSE "none"
    /\ UNCHANGED <<setup, ended, written, conn, reqs, seen, exitStatus, copied, errors, faults,
                   fed, moved, waitErr, copyErr, collected>>

-----------------------------------------------------------------------------
\* The command, and the end of its channel.
Write(s) ==
    /\ remote = "running" /\ open /\ written[s] < Writes
    /\ written' = [written EXCEPT ![s] = @ + 1]
    /\ UNCHANGED <<setup, remote, ended, conn, reqs, seen, exitStatus, copied, copying, errors,
                   faults, stdin, waits>>

Exit ==
    /\ remote = "running" /\ open
    /\ remote' = "exited"
    /\ ended' \in (Statuses \cup {Nothing}) \X (Signals \cup {"", Malformed})
    /\ reqs' = (IF ended'[1] = Nothing THEN <<>> ELSE <<<<"exit-status", ended'[1]>>>>)
               \o (IF ended'[2] = "" THEN <<>> ELSE <<<<"exit-signal", ended'[2]>>>>)
    /\ UNCHANGED <<setup, written, conn, seen, exitStatus, copied, copying, errors, faults, stdin,
                   waits>>

Break ==
    /\ open /\ ~broken
    /\ broken' = TRUE
    /\ UNCHANGED <<setup, server, open, reqs, seen, exitStatus, copied, copying, errors, faults,
                   stdin, waits>>

Close ==
    /\ open
    /\ open' = FALSE
    /\ UNCHANGED <<setup, server, broken, reqs, seen, exitStatus, copied, copying, errors, faults,
                   stdin, waits>>

-----------------------------------------------------------------------------
\* wait reads the requests until the channel is closed, or one cannot be parsed.
WaitRequest ==
    /\ exitStatus = <<>> /\ reqs # <<>>
    /\ reqs' = Tail(reqs)
    /\ IF Head(reqs)[1] = "exit-signal" /\ Head(reqs)[2] = Malformed
       THEN exitStatus' = <<Nothing>> /\ UNCHANGED seen
       ELSE /\ seen' = IF Head(reqs)[1] = "exit-status" THEN <<Head(reqs)[2], seen[2]>>
                       ELSE <<seen[1], Head(reqs)[2]>>
            /\ UNCHANGED exitStatus
    /\ UNCHANGED <<setup, server, conn, copied, copying, errors, faults, stdin, waits>>

\* Its verdict: 0 is nil, and Nothing an error of its own.
Verdict(m) ==
    CASE m[1] # Nothing -> m[1]
      [] m = NoStatus -> Nothing
      [] OTHER -> 128 + (IF m[2] \in DOMAIN Number THEN Number[m[2]] ELSE 0)

WaitVerdict ==
    /\ exitStatus = <<>> /\ reqs = <<>> /\ ~open
    /\ exitStatus' = <<Verdict(seen)>>
    /\ UNCHANGED <<setup, server, conn, reqs, seen, copied, copying, errors, faults, stdin, waits>>

-----------------------------------------------------------------------------
EndCopy(s, failed) ==
    /\ copying' = [copying EXCEPT ![s] = "done"]
    /\ errors' = Append(errors, failed)

\* The copies.  Output: until the channel is closed and drained, the window cannot be
\* adjusted after what was read, or the caller's writer fails.
CopyOut(s) ==
    /\ copying[s] = "copying"
    /\ \/ /\ copied[s] < written[s] /\ ~(broken /\ open)
          /\ copied' = [copied EXCEPT ![s] = @ + 1] /\ UNCHANGED <<copying, errors, faults>>
       \/ /\ copied[s] < written[s] /\ broken
          /\ copied' = [copied EXCEPT ![s] = @ + 1] /\ EndCopy(s, TRUE) /\ UNCHANGED faults
       \/ /\ copied[s] < written[s]
          /\ faults' = faults \cup {s} /\ EndCopy(s, TRUE) /\ UNCHANGED copied
       \/ /\ copied[s] = written[s] /\ ~open
          /\ EndCopy(s, FALSE) /\ UNCHANGED <<copied, faults>>
    /\ UNCHANGED <<setup, server, conn, reqs, seen, exitStatus, stdin, waits>>

\* The caller's input, through io.Pipe: a write waits for the copy to read it.
Feed ==
    /\ pipe = "open" /\ fed = moved
    /\ \/ fed < Reads /\ fed' = fed + 1 /\ UNCHANGED <<pipe, faults>>
       \/ ~endless /\ pipe' = "closed" /\ UNCHANGED <<fed, faults>>
       \/ ~endless /\ pipe' = "failed" /\ faults' = faults \cup {"stdin"} /\ UNCHANGED fed
    /\ UNCHANGED <<setup, server, conn, reqs, seen, exitStatus, copied, copying, errors, moved, waits>>

\* What is fed may still be taken when Wait closes the pipe.  A write to a closed channel
\* fails.  The end of the input is passed on, which fails with the connection, also while a
\* channel that was lost with it is closed: sentClose comes last.
CopyIn ==
    /\ copying["stdin"] = "copying"
    /\ \/ /\ fed > moved /\ open /\ ~broken
          /\ moved' = moved + 1 /\ UNCHANGED <<copying, errors>>
       \/ /\ fed > moved /\ (~open \/ broken)
          /\ EndCopy("stdin", TRUE) /\ UNCHANGED moved
       \/ /\ pipe # "open"
          /\ \E failed \in {pipe = "failed", pipe = "failed" \/ broken} : EndCopy("stdin", failed)
          /\ UNCHANGED moved
    /\ UNCHANGED <<setup, server, conn, reqs, seen, exitStatus, copied, faults, fed, pipe, waits>>

-----------------------------------------------------------------------------
\* Wait takes the verdict, closes the pipe of the input, and collects the
\* copies.  (Mutants: the pipe is left open; the copies are not collected.)
PipeLeftOpen == pipe
PipeClosed == IF pipe = "open" THEN "closed" ELSE pipe

WaitExit ==
    /\ caller = "waiting" /\ exitStatus # <<>>
    /\ waitErr' = exitStatus[1]
    /\ pipe' = PipeClosed
    /\ caller' = "collecting"
    /\ UNCHANGED <<setup, server, conn, reqs, seen, exitStatus, copied, copying, errors, faults,
                   fed, moved, copyErr, collected>>

CollectsNone == TRUE
CollectsAll == collected = Cardinality(CopyFuncs)

WaitCopies ==
    /\ caller = "collecting"
    /\ IF CollectsAll THEN caller' = "returned" /\ UNCHANGED <<errors, copyErr, collected>>
       ELSE /\ errors # <<>>
            /\ errors' = Tail(errors)
            /\ copyErr' = (copyErr \/ Head(errors))
            /\ collected' = collected + 1
            /\ UNCHANGED caller
    /\ UNCHANGED <<setup, server, conn, reqs, seen, exitStatus, copied, copying, faults, stdin,
                   waitErr>>

Done == caller = "returned" /\ UNCHANGED vars

Package ==
    \/ WaitRequest \/ WaitVerdict \/ CopyIn \/ WaitExit \/ WaitCopies \/ StartFails
    \/ \E s \in Outputs : CopyOut(s)

Next ==
    \/ Ask \/ Refuse \/ Start \/ Exit \/ Break \/ Close \/ Feed \/ Done
    \/ \E s \in Outputs : Write(s)
    \/ Package

Spec == Init /\ [][Next]_vars

\* Only the goroutines of the package are sure to run.
Fairness == WF_vars(Package)
FairSpec == Spec /\ Fairness

-----------------------------------------------------------------------------
\* When Wait returns, all the command has written has been copied, or it returns an
\* error and the stream's own writer or the connection has failed; it returns nil exactly
\* when the command has said 0, in requests that could be read, and no copy has failed
\* (session.go:369, "The returned error is nil if the command runs, has no
\* problems copying stdin, stdout, and stderr, and exits with a zero exit
\* status."): the exit status and the data race each other to the caller.  A copy
\* fails only with input left, a reader or writer of the caller's, or the connection.
WaitTrue ==
    caller = "returned" /\ waitErr # Lost =>
        /\ \A s \in Outputs \ piped :
             copied[s] = written[s] \/ (copyErr /\ (broken \/ s \in faults))
        /\ waitErr = 0 <=> ended[1] = 0 /\ ended[2] # Malformed
        /\ copyErr => fed > moved \/ broken \/ faults # {}

\* Wait returns once the channel is closed, even when the caller's input
\* never ends: this is what io.Pipe and its writer are for (session.go:140).
WaitReturns == caller \in {"waiting", "collecting"} /\ ~open ~> caller = "returned"

=============================================================================
