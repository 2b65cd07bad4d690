----------------------------- MODULE TaskGroup -----------------------------
(***************************************************************************)
(* What a grim reaper promises the goroutine that owns it: tasks run until *)
(* they finish, a finished task does not come back, and the owner's Kill   *)
(* and Wait together return only when nothing it spawned is left running.  *)
(* Server.tla is shown to implement it twice: the server's reaper, whose   *)
(* tasks are listen and one Execute per connection, and the reaper of each *)
(* connection, whose tasks are its Dispatch calls.                         *)
(***************************************************************************)

CONSTANT Tasks

VARIABLES
    running,    \* tasks whose goroutine has been started and has not ended
    finished,   \* tasks whose goroutine has ended
    killed,     \* Kill has been called, or a parent context was cancelled
    returned    \* the owner's Wait has returned

vars == <<running, finished, killed, returned>>

TypeOK ==
    /\ running \subseteq Tasks
    /\ finished \subseteq Tasks
    /\ killed \in BOOLEAN
    /\ returned \in BOOLEAN

Init ==
    /\ running = {}
    /\ finished = {}
    /\ killed = FALSE
    /\ returned = FALSE

\* Spawning is still possible once killed (the task then finds its context
\* done), but not once Wait has returned.
Spawn(t) ==
    /\ t \notin running \cup finished
    /\ ~returned
    /\ running' = running \cup {t}
    /\ UNCHANGED <<finished, killed, returned>>

Finish(t) ==
    /\ t \in running
    /\ running' = running \ {t}
    /\ finished' = finished \cup {t}
    /\ UNCHANGED <<killed, returned>>

Kill ==
    /\ ~killed
    /\ killed' = TRUE
    /\ UNCHANGED <<running, finished, returned>>

Return ==
    /\ killed
    /\ ~returned
    /\ running = {}
    /\ returned' = TRUE
    /\ UNCHANGED <<running, finished, killed>>

Next ==
    \/ Kill
    \/ Return
    \/ \E t \in Tasks : Spawn(t) \/ Finish(t)

Spec == Init /\ [][Next]_vars

=============================================================================
