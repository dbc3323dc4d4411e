--------------------------- MODULE WorkspaceTurns ---------------------------
(***************************************************************************)
(* What the lease protocol of the files worker promises, without leases,   *)
(* clocks or processes that die (the comment of scheduler.ts:8-16): the    *)
(* sources of a workspace take turns.  FilesLease implements it.           *)
(***************************************************************************)
CONSTANTS
    Workers,  \* files-worker processes
    Sources,  \* rows of file_sources
    Org,      \* the workspace of each source
    Nobody    \* a source that is not having its turn

VARIABLES
    turn,     \* the worker that may work on each source
    waiting   \* the sources that wait for a turn

vars == <<turn, waiting>>

Init ==
    /\ turn = [s \in Sources |-> Nobody]
    /\ waiting = {}

Idle(o) == \A s \in Sources : Org[s] = o => turn[s] = Nobody

\* A waiting source gets its turn when no other of its workspace has one.
Take(w, s) ==
    /\ s \in waiting
    /\ Idle(Org[s])
    /\ turn' = [turn EXCEPT ![s] = w]
    /\ UNCHANGED waiting

\* Turns end, given back or forgotten: never handed on to another worker.
GiveUp(S) ==
    /\ turn' = [s \in Sources |-> IF s \in S THEN Nobody ELSE turn[s]]
    /\ UNCHANGED waiting

Ask(s) ==
    /\ waiting' = waiting \cup {s}
    /\ UNCHANGED turn

Withdraw(s) ==
    /\ waiting' = waiting \ {s}
    /\ UNCHANGED turn

Next ==
    \/ \E s \in Sources :
          \/ \E w \in Workers : Take(w, s)
          \/ Ask(s)
          \/ Withdraw(s)
    \/ \E S \in SUBSET Sources : GiveUp(S)

Spec == Init /\ [][Next]_vars

-----------------------------------------------------------------------------
\* One source of a workspace at a time: "never run the same source twice"
\* (scheduler.ts:10-12), for the whole workspace.
OneTurn ==
    \A s, t \in Sources :
        Org[s] = Org[t] /\ turn[s] # Nobody /\ turn[t] # Nobody => s = t
=============================================================================
