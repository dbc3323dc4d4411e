----------------------------- MODULE FilesLease -----------------------------
(***************************************************************************)
(* The lease protocol of the files-worker scheduler                        *)
(* (packages/backend/src/ee/file-search/sync/scheduler.ts): several worker *)
(* processes share the file_sources table, claim a due source of a         *)
(* workspace with a lease, run one slice of its sync, renew the lease      *)
(* while the slice runs and release it afterwards, or when they stop.      *)
(*                                                                         *)
(* Time is counted in renewal intervals (2 minutes): left[s] is how many   *)
(* of them remain before lease_until of s; 0 stands for NULL or the past.  *)
(* A worker here is one process: its id holds random bytes, so a restarted *)
(* process is another worker.  What a slice does to the source is          *)
(* for FileSync; here it only ends, and leaves its source due or not.      *)
(***************************************************************************)
EXTENDS Naturals, FiniteSets

CONSTANTS
    Workers,      \* files-worker processes, each started at most once
    Sources,      \* rows of file_sources
    Workspaces,   \* organizations
    Org,          \* the workspace of each source
    Concurrency,  \* FILES_WORKER_CONCURRENCY
    LeaseTerm,    \* LEASE_MIN in renewal intervals (10 min / 2 min = 5)
    MaxFaults,    \* bound: database statements of the protocol that fail
    Stopping,     \* whether workers are stopped gracefully (deploys)
    SlowSlices,   \* whether a slice can outlast STOP_WAIT_MS
    NoWorker      \* lease_owner = NULL

ASSUME LeaseAssumption ==
    /\ Org \in [Sources -> Workspaces]
    /\ Concurrency \in Nat \ {0}
    /\ LeaseTerm \in Nat \ {0}
    /\ MaxFaults \in Nat
    /\ Stopping \in BOOLEAN
    /\ SlowSlices \in BOOLEAN
    /\ NoWorker \notin Workers
    /\ IsFiniteSet(Workers)
    /\ IsFiniteSet(Sources)

VARIABLES
    owner,    \* file_sources.lease_owner
    left,     \* renewal intervals until file_sources.lease_until
    due,      \* sources that are eligible, active and past next_sync_at
    ahead,    \* for a due source, the due ones with an earlier next_sync_at
    status,   \* the process: off, up, stopping, releasing, stopped, crashed
    todo,     \* candidates of the tick in progress, as the survey read them
    slots,    \* claims the tick in progress may still make
    slice,    \* what the process does with a source
    held,     \* Scheduler.leases: what the process believes it holds
    owed,     \* renewals whose timer has fired and that are not sent yet
    awaited,  \* slices stop() waits for, then the releases it waits for
    faults    \* failed statements so far

rows    == <<owner, left>>
queue   == <<due, ahead>>
procs   == <<status, todo, slots, slice, held, owed, awaited>>
vars    == <<owner, left, due, ahead, status, todo, slots, slice, held, owed,
             awaited, faults>>

Alive       == {"up", "stopping", "releasing"}
SliceStates == {"none", "claiming", "claimed", "running", "releasing"}
\* A slice that is claimed or runs, not yet over.
Working     == {"claiming", "claimed", "running"}

\* A surveyed source with the surveyed sources more overdue than it.
Candidates  == [src : Sources, after : SUBSET Sources]

TypeOK ==
    /\ owner \in [Sources -> Workers \cup {NoWorker}]
    /\ left \in [Sources -> 0 .. LeaseTerm]
    /\ due \in SUBSET Sources
    /\ ahead \in [Sources -> SUBSET Sources]
    /\ status \in [Workers -> Alive \cup {"off", "stopped", "crashed"}]
    /\ todo \in [Workers -> SUBSET Candidates]
    /\ slots \in [Workers -> 0 .. Concurrency]
    /\ slice \in [Workers -> [Sources -> SliceStates]]
    /\ held \in [Workers -> SUBSET Sources]
    /\ owed \in [Workers -> SUBSET Sources]
    /\ awaited \in [Workers -> SUBSET Sources]
    /\ faults \in 0 .. MaxFaults

Init ==
    /\ owner = [s \in Sources |-> NoWorker]
    /\ left = [s \in Sources |-> 0]
    /\ due = {}
    /\ ahead = [s \in Sources |-> {}]
    /\ status = [w \in Workers |-> "off"]
    /\ todo = [w \in Workers |-> {}]
    /\ slots = [w \in Workers |-> 0]
    /\ slice = [w \in Workers |-> [s \in Sources |-> "none"]]
    /\ held = [w \in Workers |-> {}]
    /\ owed = [w \in Workers |-> {}]
    /\ awaited = [w \in Workers |-> {}]
    /\ faults = 0

-----------------------------------------------------------------------------
(* What the claim and the survey read.                                     *)

InState(w, st) == {s \in Sources : slice[w][s] = st}
\* Claims of the tick in progress, answered or not.
Claims(w)      == InState(w, "claiming") \cup InState(w, "claimed")
\* Scheduler.running: an entry stays until its release has been tried.
Running(w)     == InState(w, "running") \cup InState(w, "releasing")

Live(s) == left[s] > 0

\* NOT EXISTS a live lease in the workspace.
WorkspaceFree_RowOnly(o) == TRUE
WorkspaceFree(o) == \A s \in Sources : Org[s] = o => ~Live(s)

\* ORDER BY next_sync_at LIMIT 1
MostOverdue_Unordered(C) == C
MostOverdue(C) == {s \in C : ahead[s] \cap C = {}}

\* The rows the claim's sub-select can return for workspace o.
Claimable(o) ==
    {s \in MostOverdue({t \in due : Org[t] = o /\ ~Live(t)}) : WorkspaceFree(o)}

\* The candidates the tick tries next: sorted as the survey read them.
NextUp(w) == {c \in todo[w] : \A d \in todo[w] : d.src \notin c.after}

\* Workspaces this process believes it holds a lease in.
Busy(w) == {Org[s] : s \in held[w]}

-----------------------------------------------------------------------------
(* The queue of due sources, as schedule, requests and admins move it.     *)

Enqueue(D, A, s) == [A EXCEPT ![s] = D \ {s}]
Dequeue(A, s)    == [t \in Sources |-> IF t = s THEN {} ELSE A[t] \ {s}]

\* next_sync_at is reached, or a sync is requested (next_sync_at = now).
BecomeDue(s) ==
    /\ s \notin due
    /\ due' = due \cup {s}
    /\ ahead' = Enqueue(due, ahead, s)
    /\ UNCHANGED <<rows, procs, faults>>

\* An admin pauses or deactivates the source.
Withdraw(s) ==
    /\ s \in due
    /\ due' = due \ {s}
    /\ ahead' = Dequeue(ahead, s)
    /\ UNCHANGED <<rows, procs, faults>>

-----------------------------------------------------------------------------
(* One tick of a worker.                                                   *)

Start(w) ==
    /\ status[w] = "off"
    /\ status' = [status EXCEPT ![w] = "up"]
    /\ UNCHANGED <<rows, queue, todo, slots, slice, held, owed, awaited, faults>>

\* Slots of a tick, computed once at its start.
Room_IgnoresRunning(w) == Concurrency
Room_OffByOne(w) == Concurrency - Cardinality(Running(w)) + 1
Room(w) == Concurrency - Cardinality(Running(w))

\* claimDue: no candidate is left, or claimed.length >= slots.
TickOver(T, n) == T = {} \/ n <= 0

\* Scheduler.leases gets the claimed source.
Remember_Forgotten(w, s) == UNCHANGED held
Remember(w, s) == held' = [held EXCEPT ![w] = @ \cup {s}]

\* claimDue goes on with candidates T and n slots.  When it has none left the
\* tick starts every claimed slice at once: nothing is awaited in between, and
\* the stopped flag is not read again.
Proceed(w, st, T, n) ==
    IF TickOver(T, n)
    THEN /\ slice' = [slice EXCEPT ![w] =
                        [s \in Sources |-> IF st[s] = "claimed" THEN "running" ELSE st[s]]]
         /\ todo' = [todo EXCEPT ![w] = {}]
         /\ slots' = [slots EXCEPT ![w] = 0]
    ELSE /\ slice' = [slice EXCEPT ![w] = st]
         /\ todo' = [todo EXCEPT ![w] = T]
         /\ slots' = [slots EXCEPT ![w] = n]

\* The next claim is sent when the last one has been answered.
CanClaim(w, c) ==
    /\ status[w] \in Alive
    /\ InState(w, "claiming") = {}
    /\ c \in NextUp(w)

\* tick: the survey reads one candidate of every free workspace, and claimDue
\* drops the workspaces it already holds.
Survey(w) ==
    LET found == UNION {Claimable(o) : o \in Workspaces \ Busy(w)}
    IN  /\ status[w] = "up"
        /\ todo[w] = {} /\ Claims(w) = {}
        /\ Room(w) > 0
        /\ found # {}
        /\ todo' = [todo EXCEPT ![w] =
                       {[src |-> s, after |-> ahead[s] \cap found] : s \in found}]
        /\ slots' = [slots EXCEPT ![w] = Room(w)]
        /\ UNCHANGED <<rows, queue, status, slice, held, owed, awaited, faults>>

\* claimIn: the transaction checks every lease condition again and commits; a
\* claimed source may be another one of the workspace than the survey's.
ClaimIn(w, c, s) ==
    /\ CanClaim(w, c)
    /\ s \in Claimable(Org[c.src])
    /\ owner' = [owner EXCEPT ![s] = w]
    /\ left' = [left EXCEPT ![s] = LeaseTerm]
    /\ slice' = [slice EXCEPT ![w][s] = "claiming"]
    /\ todo' = [todo EXCEPT ![w] = @ \ {c}]
    /\ UNCHANGED <<queue, status, slots, held, owed, awaited, faults>>

\* The answer of that commit has come: only now does the process know.
ClaimAnswered(w, s) ==
    /\ slice[w][s] = "claiming"
    /\ Remember(w, s)
    /\ Proceed(w, [slice[w] EXCEPT ![s] = "claimed"], todo[w], slots[w] - 1)
    /\ UNCHANGED <<rows, queue, status, owed, awaited, faults>>

\* The answer is lost: the row stays claimed and the process never knows.
ClaimAnswerLost(w, s) ==
    /\ slice[w][s] = "claiming"
    /\ faults < MaxFaults
    /\ faults' = faults + 1
    /\ Proceed(w, [slice[w] EXCEPT ![s] = "none"], todo[w], slots[w])
    /\ UNCHANGED <<rows, queue, status, held, owed, awaited>>

\* The transaction updates no row: the candidate is gone.
ClaimMiss(w, c) ==
    /\ CanClaim(w, c)
    /\ Claimable(Org[c.src]) = {}
    /\ Proceed(w, slice[w], todo[w] \ {c}, slots[w])
    /\ UNCHANGED <<rows, queue, status, held, owed, awaited, faults>>

\* The transaction fails, or another worker holds the advisory lock.
ClaimFails(w, c) ==
    /\ CanClaim(w, c)
    /\ faults < MaxFaults
    /\ faults' = faults + 1
    /\ Proceed(w, slice[w], todo[w] \ {c}, slots[w])
    /\ UNCHANGED <<rows, queue, status, held, owed, awaited>>

-----------------------------------------------------------------------------
(* runSource: the slice, its renewals and its release.                     *)

\* The slice ends: more is left (next_sync_at = now), the source waits for its
\* next sync, or the run threw and next_sync_at is what it was.
EndSlice(w, s) ==
    /\ slice[w][s] = "running"
    /\ slice' = [slice EXCEPT ![w][s] = "releasing"]
    /\ owed' = [owed EXCEPT ![w] = @ \ {s}]
    /\ \/ /\ due' = due \cup {s}
          /\ ahead' = Enqueue(due, Dequeue(ahead, s), s)
          /\ UNCHANGED faults
       \/ /\ due' = due \ {s}
          /\ ahead' = Dequeue(ahead, s)
          /\ UNCHANGED faults
       \/ /\ faults < MaxFaults
          /\ faults' = faults + 1
          /\ UNCHANGED queue
    /\ UNCHANGED <<rows, status, todo, slots, held, awaited>>

\* UPDATE ... SET lease_owner = NULL, lease_until = NULL WHERE lease_owner = me
ClearLease(w, s) ==
    IF owner[s] = w
    THEN /\ owner' = [owner EXCEPT ![s] = NoWorker]
         /\ left' = [left EXCEPT ![s] = 0]
    ELSE UNCHANGED rows

\* The slice's promise settles: stop(), which waits for it, goes on to release
\* every lease of the process when it was the last one.
Settle(w, s) ==
    IF status[w] = "stopping" /\ awaited[w] \subseteq {s}
    THEN /\ status' = [status EXCEPT ![w] = "releasing"]
         /\ awaited' = [awaited EXCEPT ![w] = held'[w]]
    ELSE /\ awaited' = [awaited EXCEPT ![w] = IF status[w] = "stopping" THEN @ \ {s} ELSE @]
         /\ UNCHANGED status

\* Scheduler.leases loses the entry only when the UPDATE is answered.
Release(w, s) ==
    /\ slice[w][s] = "releasing"
    /\ ClearLease(w, s)
    /\ slice' = [slice EXCEPT ![w][s] = "none"]
    /\ held' = [held EXCEPT ![w] = @ \ {s}]
    /\ Settle(w, s)
    /\ UNCHANGED <<queue, todo, slots, owed, faults>>

\* The UPDATE fails, or its answer is lost: the process keeps the entry, and
\* claimDue skips the workspace from then on.
ReleaseFails(w, s) ==
    /\ slice[w][s] = "releasing"
    /\ faults < MaxFaults
    /\ faults' = faults + 1
    /\ ClearLease(w, s) \/ UNCHANGED rows
    /\ slice' = [slice EXCEPT ![w][s] = "none"]
    /\ UNCHANGED held
    /\ Settle(w, s)
    /\ UNCHANGED <<queue, todo, slots, owed>>

\* The UPDATE asks for the owner only: an expired lease nobody took is live
\* again afterwards.
Renew(w, s) ==
    /\ s \in owed[w]
    /\ owed' = [owed EXCEPT ![w] = @ \ {s}]
    /\ left' = IF owner[s] = w THEN [left EXCEPT ![s] = LeaseTerm] ELSE left
    /\ UNCHANGED <<owner, queue, status, todo, slots, slice, held, awaited, faults>>

RenewFails(w, s) ==
    /\ s \in owed[w]
    /\ faults < MaxFaults
    /\ faults' = faults + 1
    /\ owed' = [owed EXCEPT ![w] = @ \ {s}]
    /\ UNCHANGED <<rows, queue, status, todo, slots, slice, held, awaited>>

\* Slices whose renewal timer runs.
Timers_NotSet(w) == {}
Timers(w) == InState(w, "running")

\* One renewal interval passes: every lease is that much older and every
\* renewal timer fires.  A tick's claims take less than an interval, and a
\* renewal is sent before the next one is owed.
Advance ==
    /\ \A w \in Workers : owed[w] = {} /\ Claims(w) = {}
    /\ \E s \in Sources : Live(s)
    /\ left' = [s \in Sources |-> IF left[s] > 0 THEN left[s] - 1 ELSE 0]
    /\ owed' = [w \in Workers |-> Timers(w)]
    /\ UNCHANGED <<owner, queue, status, todo, slots, slice, held, awaited, faults>>

-----------------------------------------------------------------------------
(* A worker stops, or dies.                                                *)

\* Bound: the deployment keeps one worker that is neither stopped nor dead.
Replaceable(w) == \E v \in Workers \ {w} : status[v] \in {"off", "up"}

\* stop(): no further tick begins; the one in progress goes on.  With no slice
\* to wait for, the leases in the map are released at once.
Stop(w) ==
    /\ Stopping /\ Replaceable(w)
    /\ status[w] = "up"
    /\ status' = [status EXCEPT ![w] = IF Running(w) = {} THEN "releasing" ELSE "stopping"]
    /\ awaited' = [awaited EXCEPT ![w] = IF Running(w) = {} THEN held[w] ELSE Running(w)]
    /\ UNCHANGED <<rows, queue, todo, slots, slice, held, owed, faults>>

\* STOP_WAIT_MS is over: the leases are released while slices still run.
StopWaitOver(w) ==
    /\ SlowSlices
    /\ status[w] = "stopping"
    /\ status' = [status EXCEPT ![w] = "releasing"]
    /\ awaited' = [awaited EXCEPT ![w] = held[w]]
    /\ UNCHANGED <<rows, queue, todo, slots, slice, held, owed, faults>>

StopRelease(w, s) ==
    /\ status[w] = "releasing"
    /\ s \in awaited[w]
    /\ ClearLease(w, s)
    /\ held' = [held EXCEPT ![w] = @ \ {s}]
    /\ awaited' = [awaited EXCEPT ![w] = @ \ {s}]
    /\ UNCHANGED <<queue, status, todo, slots, slice, owed, faults>>

StopReleaseFails(w, s) ==
    /\ status[w] = "releasing"
    /\ s \in awaited[w]
    /\ faults < MaxFaults
    /\ faults' = faults + 1
    /\ ClearLease(w, s) \/ UNCHANGED rows
    /\ awaited' = [awaited EXCEPT ![w] = @ \ {s}]
    /\ UNCHANGED <<queue, status, todo, slots, slice, held, owed>>

\* The process is gone and its memory with it.
Gone(w, st) ==
    /\ status' = [status EXCEPT ![w] = st]
    /\ todo' = [todo EXCEPT ![w] = {}]
    /\ slots' = [slots EXCEPT ![w] = 0]
    /\ slice' = [slice EXCEPT ![w] = [s \in Sources |-> "none"]]
    /\ held' = [held EXCEPT ![w] = {}]
    /\ owed' = [owed EXCEPT ![w] = {}]
    /\ awaited' = [awaited EXCEPT ![w] = {}]
    /\ UNCHANGED <<rows, queue, faults>>

Exit(w) ==
    /\ status[w] = "releasing"
    /\ awaited[w] = {}
    /\ Gone(w, "stopped")

Crash(w) ==
    /\ status[w] \in Alive /\ Replaceable(w)
    /\ Gone(w, "crashed")

-----------------------------------------------------------------------------
Tick(w) ==
    \/ Survey(w)
    \/ \E c \in todo[w] :
          \/ \E s \in Sources : ClaimIn(w, c, s)
          \/ ClaimMiss(w, c)
          \/ ClaimFails(w, c)
    \/ \E s \in Sources : ClaimAnswered(w, s) \/ ClaimAnswerLost(w, s)

RunSource(w, s) ==
    \/ EndSlice(w, s)
    \/ Release(w, s)
    \/ ReleaseFails(w, s)
    \/ Renew(w, s)
    \/ RenewFails(w, s)

Shutdown(w) ==
    \/ Stop(w)
    \/ StopWaitOver(w)
    \/ \E s \in awaited[w] : StopRelease(w, s) \/ StopReleaseFails(w, s)
    \/ Exit(w)
    \/ Crash(w)

Next ==
    \/ \E s \in Sources : BecomeDue(s) \/ Withdraw(s)
    \/ \E w \in Workers : Start(w) \/ Tick(w) \/ Shutdown(w)
    \/ \E w \in Workers, s \in Sources : RunSource(w, s)
    \/ Advance

Spec == Init /\ [][Next]_vars

\* The loop ticks every TICK_MS, a slice's work and every statement end, and
\* time passes: claims and renewals only put Advance off, so it is strongly
\* fair.  Nothing forces a source to be due, a stop or a crash.
Fairness ==
    /\ \A w \in Workers : WF_vars(Start(w)) /\ WF_vars(Tick(w))
    /\ \A w \in Workers, s \in Sources :
          /\ WF_vars(EndSlice(w, s))
          /\ WF_vars(Release(w, s) \/ ReleaseFails(w, s))
          /\ WF_vars(Renew(w, s) \/ RenewFails(w, s))
    /\ SF_vars(Advance)

FairSpec == Spec /\ Fairness

-----------------------------------------------------------------------------
(* Properties.                                                             *)

\* "never two of the same workspace" (scheduler.ts:14-15), in the database: a
\* workspace never has two live leases.  It needs the advisory lock's check of
\* the whole workspace and that a renewal never revives an expired lease.
OneLivePerWorkspace ==
    \A s, t \in Sources : Org[s] = Org[t] /\ Live(s) /\ Live(t) => s = t

\* The same promise for the work itself, "never run the same source twice"
\* (scheduler.ts:10-12): two slices of a workspace never run at once, in one
\* worker or in two.
OneRunPerWorkspace ==
    \A w, v \in Workers, s, t \in Sources :
        slice[w][s] = "running" /\ slice[v][t] = "running" /\ Org[s] = Org[t]
            => w = v /\ s = t

\* A slice holds its source's lease for as long as it runs in a worker that is
\* not releasing its leases: fewer renewals failed than a lease outlives
\* (LEASE_MIN against the 2 minutes of runSource, scheduler.ts:255-257).
RunningHoldsLease ==
    \A w \in Workers, s \in Sources :
        status[w] \in {"up", "stopping"} /\ slice[w][s] = "running"
            => owner[s] = w /\ Live(s)

\* FILES_WORKER_CONCURRENCY: the slots of a tick are computed before its
\* claims, which wait for the database while slices start and end.
WithinConcurrency ==
    \A w \in Workers : Cardinality(Running(w)) <= Concurrency

\* Scheduler.leases and the rows name the same leases, but for the moment
\* between a claim's commit and its answer (scheduler.ts:198-200) and, for ever
\* after, for a statement that failed or whose answer was lost: a living worker
\* knows every lease it owns, so that stop() releases it (scheduler.ts:91), and
\* keeps no entry without a slice, which would make it skip the workspace
\* (scheduler.ts:190-192).
LeasesAccounted ==
    \A w \in Workers, s \in Sources :
        faults = 0 /\ status[w] \in Alive =>
            /\ owner[s] = w => s \in held[w] \/ slice[w][s] = "claiming"
            /\ s \in held[w] => slice[w][s] # "none"

\* The strengthening the proofs use: a slice that owns its lease has as many
\* intervals left as renewals did not fail, one less while its renewal is owed;
\* a worker that is not releasing its leases owns those of its slices (the
\* renewal timer of scheduler.ts:255-257 against LEASE_MIN and the claim's test
\* of lease_until).
LeaseMargin ==
    \A w \in Workers, s \in Sources :
        owner[s] = w /\ (slice[w][s] \in Working \/ s \in owed[w])
            => left[s] + faults + (IF s \in owed[w] THEN 1 ELSE 0) >= LeaseTerm
SlicesOwned ==
    \A w \in Workers, s \in Sources :
        /\ slice[w][s] # "none" => status[w] \in Alive
        /\ status[w] \in {"up", "stopping"} /\ slice[w][s] \in Working
              => owner[s] = w
LeaseInv == OneLivePerWorkspace /\ LeaseMargin /\ SlicesOwned

\* The lease protocol is turn taking (scheduler.ts:8-16): a worker gets a source
\* only when no worker has one of its workspace, only while the source is due,
\* and never from another worker without the turn having ended.
Turns == INSTANCE WorkspaceTurns WITH
    Nobody  <- NoWorker,
    turn    <- [s \in Sources |-> IF Live(s) THEN owner[s] ELSE NoWorker],
    waiting <- due

TakesTurns == Turns!Spec

\* Every due source is claimed in the end, whoever else is due, whatever
\* worker dies: "a crashed worker's lease simply expires" (scheduler.ts:12).
DueIsClaimed ==
    \A s \in Sources :
        s \in due ~> s \notin due \/ \E w \in Workers : slice[w][s] = "claiming"
=============================================================================
