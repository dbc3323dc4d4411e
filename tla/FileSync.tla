------------------------------ MODULE FileSync ------------------------------
(***************************************************************************)
(* One file source: the slices the worker runs on it (SyncRunner.run) and  *)
(* what administrators and the licence do to it meanwhile                  *)
(* (FileSearchService).  The slice reads the source once and writes it     *)
(* many times; every await is a step boundary, so an administrator's       *)
(* change can fall between any two of them.                                *)
(*                                                                         *)
(* Files are counted, not named: pending and failed entries of the source. *)
(* That a single worker runs the source is FilesLease's subject; the lease *)
(* here only remembers a dead worker.  The source is one that was          *)
(* activated: drafts have no schedule and no slice reads them.             *)
(***************************************************************************)
EXTENDS Naturals

CONSTANTS
    MaxFiles,     \* bound: entries a listing can leave pending or failed
    BatchSize,    \* files per batch (10 in the code)
    PurgeAfter,   \* days a licence pause keeps the index (30 in the code)
    Lapses,       \* whether the workspace's plan can lose File Search
    TextLimit,    \* whether the plan limits the indexed text
    MaxAdmin,     \* bound: administrator actions
    MaxOutages,   \* bound: server or extractor failures
    MaxFaults,    \* bound: failing database statements
    MaxCrashes    \* bound: worker crashes

ASSUME SyncAssumption ==
    /\ MaxFiles \in Nat \ {0} /\ BatchSize \in Nat \ {0} /\ PurgeAfter \in Nat
    /\ Lapses \in BOOLEAN /\ TextLimit \in BOOLEAN
    /\ {MaxAdmin, MaxOutages, MaxFaults, MaxCrashes} \subseteq Nat

VARIABLES
    src,       \* the file_sources row
    pending,   \* file_entries of the source with status pending
    failed,    \* ... with status failed
    index,     \* whether the source has entries at all
    age,       \* days since paused_at, for a licence pause
    licence,   \* access.allowed
    worker,    \* the worker process: up, down, or skipping this source
    lease,     \* free, mine (a slice runs), dead (live, but nobody works)
    row,       \* file_sync_runs: status of the slice's row, partial rows, rows
               \* that say running although no slice does
    pc,        \* next await of the slice
    saw,       \* the slice's copy of src
    cont,      \* the slice's "continuing"
    batch,     \* files left in the slice's batch
    back,      \* where the slice goes on after a pause
    fin,       \* what the slice read before it concludes
    asking,    \* the state syncNow read before it writes, or "none"
    selecting, \* how far setSelection has come: no, saved, over
    ghost,     \* what administrators asked for and who was told, see below
    budget     \* bounded steps left

vars == <<src, pending, failed, index, age, licence, worker, lease, row, pc,
          saw, cont, batch, back, fin, asking, selecting, ghost, budget>>
requests == <<asking, selecting>>
files   == <<pending, failed, index>>
local   == <<saw, cont, batch, back, fin>>
outside == <<age, licence, worker, lease, requests, budget>>

States   == {"active", "syncing", "paused_quota", "paused_licence",
             "paused_error", "paused_admin"}
Eligible_NotSyncing == {"active", "paused_quota", "paused_licence", "paused_error"}
Eligible == {"active", "syncing", "paused_quota", "paused_licence", "paused_error"}
Paused   == {"paused_quota", "paused_licence", "paused_error", "paused_admin"}

SourceRow == [state : States,
              next  : {"now", "later"},          \* next_sync_at against now
              cont  : BOOLEAN,                   \* stats.continuePending
              fails : 0 .. 3,                    \* stats.consecutiveFailures, 3 = or more
              told  : BOOLEAN]                   \* pause_notified_at # NULL
RunRow == [own     : {"none", "running", "partial", "paused", "failed", "succeeded"},
           partial : 0 .. 2,                     \* partial rows, 2 = or more
           orphan  : BOOLEAN]
Ghost  == [order  : {"no", "quiet", "working", "busy"},  \* an admin's pause stands,
                                \* and what was going on when it came
           edited : BOOLEAN,   \* no listing since the selection of a source that
                                \* was not syncing changed between two slices
           mails  : 0 .. 2]    \* e-mails of pauses for the quota since a listing last
                                \* fitted or the licence came or went, 2 = or more
Steps  == {"idle", "read", "licence", "open", "mark", "connect", "unreachable",
           "list", "over", "work", "batch", "finish", "conclude", "continue",
           "settle", "close_failed", "close_partial", "caught", "refused",
           "mail", "tell", "mail_error", "release"}

TypeOK ==
    /\ src \in SourceRow /\ saw \in SourceRow
    /\ pending \in 0 .. MaxFiles /\ failed \in 0 .. MaxFiles
    /\ index \in BOOLEAN /\ age \in 0 .. PurgeAfter + 1
    /\ licence \in BOOLEAN /\ worker \in {"up", "down", "skips"}
    /\ lease \in {"free", "mine", "dead"}
    /\ row \in RunRow /\ pc \in Steps /\ cont \in BOOLEAN
    /\ batch \in 0 .. BatchSize /\ back \in {"release", "batch"}
    /\ fin \in [left : BOOLEAN, seen : States]
    /\ ghost \in Ghost
    /\ asking \in States \cup {"none"} /\ selecting \in {"no", "saved", "over"}
    /\ budget \in [admin : 0 .. MaxAdmin, outage : 0 .. MaxOutages,
                   fault : 0 .. MaxFaults, crash : 0 .. MaxCrashes]

NewSource == [state |-> "active", next |-> "now", cont |-> FALSE, fails |-> 0, told |-> FALSE]

Init ==
    /\ src = NewSource /\ saw = NewSource
    /\ pending = 0 /\ failed = 0 /\ index = FALSE /\ age = 0
    /\ licence = TRUE /\ worker = "up" /\ lease = "free"
    /\ row = [own |-> "none", partial |-> 0, orphan |-> FALSE]
    /\ pc = "idle" /\ cont = FALSE /\ batch = 0 /\ back = "release"
    /\ fin = [left |-> FALSE, seen |-> "active"]
    /\ asking = "none" /\ selecting = "no"
    /\ ghost = [order |-> "no", edited |-> FALSE, mails |-> 0]
    /\ budget = [admin |-> MaxAdmin, outage |-> MaxOutages,
                 fault |-> MaxFaults, crash |-> MaxCrashes]

-----------------------------------------------------------------------------
AtMost(n, max) == IF n > max THEN max ELSE n
At(step)       == worker = "up" /\ pc = step
Go(step)       == pc' = step
Spend(what)    == budget[what] > 0 /\ budget' = [budget EXCEPT ![what] = @ - 1]

\* UPDATE of the source.
Write(new) == src' = new /\ UNCHANGED ghost

\* UPDATE with which e-mails about the quota start afresh.
WriteAfresh(new) == src' = new /\ ghost' = [ghost EXCEPT !.mails = 0]

\* finishRun of the slice's row.
Finished(r, status) ==
    [r EXCEPT !.own = status,
              !.partial = IF status = "partial" THEN AtMost(@ + 1, 2) ELSE @]

-----------------------------------------------------------------------------
(* The slice, up to the connection.                                        *)

Claim ==
    /\ At("idle") /\ lease = "free"
    /\ src.state \in Eligible /\ src.next = "now"
    /\ lease' = "mine" /\ Go("read")
    /\ UNCHANGED <<src, files, age, licence, worker, row, local, requests, ghost, budget>>

\* The claim commits and its answer is lost: a lease nobody works under.
ClaimLost ==
    /\ At("idle") /\ lease = "free" /\ Spend("fault")
    /\ src.state \in Eligible /\ src.next = "now"
    /\ lease' = "dead"
    /\ UNCHANGED <<src, files, age, licence, worker, row, pc, local, requests, ghost>>

\* States run() does not go on with.
SkipStates_NoAdmin == {"draft"}
SkipStates == {"draft", "paused_admin"}

Read ==
    /\ At("read")
    /\ saw' = src
    /\ Go(IF src.state \in SkipStates THEN "release" ELSE "licence")
    /\ UNCHANGED <<src, files, outside, row, cont, batch, back, fin, ghost>>

\* pause(): the state, paused_at and tomorrow's check; the e-mail follows
\* unless notifiedAt is given.
PauseFor(state, notified, return) ==
    /\ src' = [src EXCEPT !.state = state, !.next = "later"]
    /\ age' = 0
    /\ back' = return
    /\ Go(IF notified THEN return ELSE "mail")

LicenceDenied ==
    /\ At("licence") /\ ~licence
    /\ PauseFor("paused_licence", FALSE, "release")
    /\ ghost' = [ghost EXCEPT !.mails = 0]
    /\ UNCHANGED <<files, licence, worker, lease, requests, budget, row, saw, cont, batch, fin>>

\* Whether the slice goes on with the queue instead of listing the folder.
Continuing_AnyState(s) == s.cont /\ pending > 0
Continuing(s) == s.cont /\ pending > 0 /\ s.state = "syncing"

LicenceGranted ==
    /\ At("licence") /\ licence
    /\ IF saw.state = "paused_licence"
       THEN WriteAfresh([src EXCEPT !.state = "active", !.told = FALSE])
       ELSE UNCHANGED <<src, ghost>>
    /\ cont' = Continuing(saw)
    /\ Go("open")
    /\ UNCHANGED <<files, outside, row, saw, batch, back, fin>>

\* The row a continuing slice reopens, or a new one.
OpenRun ==
    /\ At("open")
    /\ \E p \in 0 .. 2 :
          /\ IF cont /\ row.partial > 0
             THEN p = row.partial - 1 \/ (row.partial = 2 /\ p = 2)
             ELSE p = row.partial
          /\ row' = [row EXCEPT !.own = "running", !.partial = p]
    /\ Go("mark")
    /\ UNCHANGED <<src, files, outside, local, ghost>>

MarkSyncing ==
    /\ At("mark")
    /\ Write([src EXCEPT !.state = IF saw.state = "paused_quota" THEN "paused_quota" ELSE "syncing"])
    /\ Go("connect")
    /\ UNCHANGED <<files, outside, row, local>>

Connect ==
    /\ At("connect")
    /\ Go(IF cont THEN "work" ELSE "list")
    /\ UNCHANGED <<src, files, outside, row, local, ghost>>

ConnectFails ==
    /\ At("connect") /\ Spend("outage")
    /\ Go("refused")
    /\ UNCHANGED <<src, files, age, licence, worker, lease, row, requests, local, ghost>>

Refused ==
    /\ At("refused")
    /\ row' = Finished(row, "failed")
    /\ Go("unreachable")
    /\ UNCHANGED <<src, files, outside, local, ghost>>

\* The failure count and the state come from the copy read at the start.
Unreachable ==
    LET fails == AtMost(saw.fails + 1, 3)
    IN  /\ At("unreachable")
        /\ Write([src EXCEPT
               !.state = IF fails = 3 THEN "paused_error"
                         ELSE IF saw.state = "paused_quota" THEN "paused_quota" ELSE "active",
               !.next = "later", !.fails = fails, !.cont = FALSE])
        /\ Go(IF fails = 3 THEN "mail_error" ELSE "release")
        /\ UNCHANGED <<files, outside, row, local>>

-----------------------------------------------------------------------------
(* The listing.                                                            *)

\* The listing fits the plan: entries are deleted, created and queued, and
\* files that failed count as changed.  stats is written from the old copy.
List ==
    /\ At("list")
    /\ pending' \in 0 .. MaxFiles /\ failed' = 0 /\ index' = TRUE
    /\ LET new == [src EXCEPT !.fails = 0, !.cont = saw.cont]
       IN  IF saw.state = "paused_quota"
           THEN src' = [new EXCEPT !.state = "syncing", !.told = FALSE]
           ELSE src' = new
    /\ ghost' = [ghost EXCEPT !.edited = FALSE, !.mails = 0]
    /\ Go("work")
    /\ UNCHANGED <<outside, row, local>>

\* It does not fit: nothing is applied, the run ends as paused.
ListOver_RunLeftOpen ==
    /\ At("list")
    /\ src' = [src EXCEPT !.fails = 0, !.cont = saw.cont]
    /\ ghost' = [ghost EXCEPT !.edited = FALSE]
    /\ Go("over")
    /\ UNCHANGED <<files, outside, row, local>>
ListOver ==
    /\ At("list")
    /\ src' = [src EXCEPT !.fails = 0, !.cont = saw.cont]
    /\ row' = Finished(row, "paused")
    /\ ghost' = [ghost EXCEPT !.edited = FALSE]
    /\ Go("over")
    /\ UNCHANGED <<files, outside, local>>

\* pauseNotifiedAt as read at the start decides whether an e-mail is due.
Notified_Never == FALSE
Notified == saw.told

Over ==
    /\ At("over")
    /\ PauseFor("paused_quota", Notified, "release")
    /\ UNCHANGED <<files, licence, worker, lease, requests, budget, row, saw, cont, batch, fin, ghost>>

-----------------------------------------------------------------------------
(* The queue.                                                              *)

TakeBatch ==
    /\ At("work") /\ pending > 0
    /\ batch' = AtMost(pending, BatchSize) /\ Go("batch")
    /\ UNCHANGED <<src, files, outside, row, saw, cont, back, fin, ghost>>

QueueEmpty ==
    /\ At("work") /\ pending = 0 /\ Go("finish")
    /\ UNCHANGED <<src, files, outside, row, local, ghost>>

\* processOne: the file is indexed, known by name, given up, or failed.
FileDone ==
    /\ At("batch") /\ batch > 0 /\ pending > 0
    /\ batch' = batch - 1 /\ pending' = pending - 1
    /\ failed' \in {failed, AtMost(failed + 1, MaxFiles)}
    /\ UNCHANGED <<src, index, outside, row, pc, saw, cont, back, fin, ghost>>

\* processOne: the text does not fit the plan; the batch goes on regardless.
TextQuota ==
    /\ At("batch") /\ batch > 0 /\ TextLimit
    /\ batch' = batch - 1
    /\ PauseFor("paused_quota", FALSE, "batch")
    /\ UNCHANGED <<files, licence, worker, lease, requests, budget, row, saw, cont, fin, ghost>>

\* The state is read after every batch; the slice ends after SLICE_FILES.
EndBatch ==
    /\ At("batch") /\ batch = 0
    /\ \/ Go("finish")
       \/ src.state \notin {"paused_quota", "paused_admin"} /\ Go("work")
    /\ UNCHANGED <<src, files, outside, row, local, ghost>>

Finish ==
    /\ At("finish")
    /\ fin' = [left |-> pending > 0, seen |-> src.state]
    /\ Go("conclude")
    /\ UNCHANGED <<src, files, outside, row, saw, cont, batch, back, ghost>>

\* finishRun, with requeueFailed on success.
ConcludePaused ==
    /\ At("conclude") /\ fin.seen = "paused_quota"
    /\ row' = Finished(row, "paused")
    /\ Go("release")
    /\ UNCHANGED <<src, files, outside, local, ghost>>

ConcludePartial ==
    /\ At("conclude") /\ fin.seen # "paused_quota" /\ fin.left
    /\ row' = Finished(row, "partial")
    /\ Go("continue")
    /\ UNCHANGED <<src, files, outside, local, ghost>>

ConcludeDone ==
    /\ At("conclude") /\ fin.seen # "paused_quota" /\ ~fin.left
    /\ row' = Finished(row, "succeeded")
    /\ pending' = AtMost(pending + failed, MaxFiles) /\ failed' = 0
    /\ Go("continue")
    /\ UNCHANGED <<src, index, outside, local, ghost>>

MarkContinuation ==
    /\ At("continue")
    /\ src' = [src EXCEPT !.cont = fin.left]
    /\ Go("settle")
    /\ UNCHANGED <<files, outside, row, local, ghost>>

\* The state and the schedule a concluded slice leaves.
NextAfter_Never(left) == IF left THEN "now" ELSE "none"
NextAfter_Later(left) == "later"
NextAfter(left) == IF left THEN "now" ELSE "later"

StateAfter_Always(f) == IF f.left THEN "syncing" ELSE "active"
StateAfter(f) ==
    IF f.seen = "paused_admin" THEN "paused_admin"
    ELSE IF f.left THEN "syncing" ELSE "active"

Settle ==
    /\ At("settle")
    /\ Write([src EXCEPT
           !.state = StateAfter(fin),
           !.next = NextAfter(fin.left)])
    /\ Go("release")
    /\ UNCHANGED <<files, outside, row, local>>

-----------------------------------------------------------------------------
(* Failures, e-mails and the end of a slice.                               *)

\* The try block of run(); a pause for the quota (its run has a row by then)
\* sends its e-mail inside it, a pause for the licence before it.
InTry ==
    \/ pc \in {"list", "over", "work", "batch", "finish", "conclude", "continue", "settle"}
    \/ pc \in {"mail", "tell"} /\ row.own # "none"

Throw(what, step) ==
    /\ worker = "up" /\ Spend(what) /\ Go(step)
    /\ UNCHANGED <<src, files, age, licence, worker, lease, row, requests, local, ghost>>

ExtractorDown   == pc = "batch" /\ batch > 0 /\ Throw("outage", "close_partial")
ServerFails     == pc = "list" /\ Throw("outage", "close_failed")
StatementFails  == InTry /\ Throw("fault", "close_failed")

\* finishRun in the catch block: partial when the extractor is down.
CloseRun ==
    /\ At("close_failed") \/ At("close_partial")
    /\ row' = Finished(row, IF pc = "close_partial" THEN "partial" ELSE "failed")
    /\ Go("caught")
    /\ UNCHANGED <<src, files, outside, local, ghost>>

Caught ==
    /\ At("caught")
    /\ Write([src EXCEPT !.state = "active", !.next = "later",
                         !.fails = saw.fails, !.cont = FALSE])
    /\ Go("release")
    /\ UNCHANGED <<files, outside, row, local>>

\* A statement outside the try block fails: run() throws to runSource.
Escape ==
    /\ \/ pc \in {"read", "licence", "open", "mark", "refused", "unreachable",
                 "close_failed", "close_partial", "caught", "mail_error"}
       \/ pc \in {"mail", "tell"} /\ row.own = "none"
    /\ Throw("fault", "release")

\* notify(); without a mailer or an address nothing is sent.
Mail ==
    /\ At("mail")
    /\ \/ ghost' = [ghost EXCEPT !.mails = AtMost(@ + 1, 2)] /\ Go("tell")
       \/ UNCHANGED ghost /\ Go(back)
    /\ UNCHANGED <<src, files, outside, row, local>>

\* notify() sent something: pause_notified_at is set.
Tell ==
    /\ At("tell")
    /\ src' = [src EXCEPT !.told = TRUE]
    /\ Go(back)
    /\ UNCHANGED <<files, outside, row, local, ghost>>

\* From the third failure on every check sends an e-mail and remembers none.
MailError ==
    /\ At("mail_error") /\ Go("release")
    /\ UNCHANGED <<src, files, outside, row, local, ghost>>

\* The slice is over: its memory is gone, its row stays as it was last written.
Forget ==
    /\ Go("idle")
    /\ row' = [row EXCEPT !.own = "none", !.orphan = @ \/ row.own = "running"]
    /\ saw' = NewSource /\ cont' = FALSE /\ batch' = 0 /\ back' = "release"
    /\ fin' = [left |-> FALSE, seen |-> "active"]

Release ==
    /\ At("release")
    /\ lease' = "free" /\ Forget
    /\ UNCHANGED <<src, files, age, licence, worker, requests, ghost, budget>>

\* The release fails, or only its answer is lost: the worker keeps the entry in
\* its map and skips the workspace until it is restarted.
ReleaseFails ==
    /\ At("release") /\ Spend("fault")
    /\ lease' \in {"dead", "free"} /\ worker' = "skips" /\ Forget
    /\ UNCHANGED <<src, files, age, licence, requests, ghost>>

-----------------------------------------------------------------------------
(* The worker process and time.                                            *)

\* A kill leaves the lease of the slice, a deploy (Scheduler.stop) releases it.
Crash ==
    /\ worker # "down" /\ Spend("crash")
    /\ worker' = "down" /\ Forget
    /\ IF lease = "mine" THEN lease' \in {"dead", "free"} ELSE UNCHANGED lease
    /\ UNCHANGED <<src, files, age, licence, requests, ghost>>

LeaseExpires ==
    /\ lease = "dead" /\ lease' = "free"
    /\ UNCHANGED <<src, files, age, licence, worker, row, pc, local, requests, ghost, budget>>

\* closeInterruptedRuns, then the loop: a row is closed unless the source has
\* a live lease.
Restart ==
    /\ worker = "down" /\ worker' = "up"
    /\ row' = IF row.orphan /\ lease = "free"
              THEN [row EXCEPT !.orphan = FALSE, !.partial = AtMost(@ + 1, 2)]
              ELSE row
    /\ UNCHANGED <<src, files, age, licence, lease, pc, local, requests, ghost, budget>>

\* The time next_sync_at names comes, for a licence pause a day later.
Due ==
    /\ pc = "idle" /\ src.next = "later"
    /\ src' = [src EXCEPT !.next = "now"]
    /\ age' = IF src.state = "paused_licence" THEN AtMost(age + 1, PurgeAfter + 1) ELSE age
    /\ UNCHANGED <<files, licence, worker, lease, row, pc, local, requests, ghost, budget>>

\* A day on which no worker claimed the paused source.
IdleDay ==
    /\ src.state = "paused_licence" /\ src.next = "now"
    /\ worker # "up" \/ lease = "dead"
    /\ age <= PurgeAfter /\ age' = age + 1
    /\ UNCHANGED <<src, files, licence, worker, lease, row, pc, local, requests, ghost, budget>>

\* sweepWorkspace: the index of a long licence pause is removed.
Sweep ==
    /\ worker # "down" /\ index
    /\ src.state = "paused_licence" /\ age > PurgeAfter
    /\ index' = FALSE /\ pending' = 0 /\ failed' = 0
    /\ UNCHANGED <<src, outside, row, pc, local, ghost>>

-----------------------------------------------------------------------------
(* Administrators and the licence.                                         *)

\* An administrator's change; order says whether a pause stands after it.
Admin(new, order) ==
    /\ src' = new
    /\ ghost' = [ghost EXCEPT !.order = order]
    /\ UNCHANGED <<files, age, licence, worker, lease, row, pc, local>>

\* resume(); activate() after an edit writes the same columns.  assertAllowed
\* answers from a cache, so the licence may already be gone.
Resume ==
    /\ Spend("admin")
    /\ Admin([src EXCEPT !.state = "active", !.next = "now"], "no")
    /\ UNCHANGED requests

\* A syncNow that found the source paused wakes it, whatever its state is then.
Wakes == Paused \ {"paused_licence"}

Pause ==
    /\ Spend("admin")
    /\ Admin([src EXCEPT !.state = "paused_admin"],
             CASE asking \in Wakes                  -> "busy"
               [] pc \in {"idle", "read", "release"}  -> "quiet"
               [] pc \in {"work", "batch", "finish"}  -> "working"
               [] OTHER                               -> "busy")
    /\ UNCHANGED requests

\* syncNow reads the source, then writes what that state calls for.
AskSync ==
    /\ asking = "none" /\ src.state # "syncing" /\ Spend("admin")
    /\ asking' = src.state
    /\ UNCHANGED <<src, files, age, licence, worker, lease, row, pc, local, selecting, ghost>>

SyncNow ==
    /\ asking # "none" /\ asking' = "none"
    /\ IF asking \in Wakes
       THEN Admin([src EXCEPT !.state = "active", !.next = "now"], "no")
       ELSE Admin([src EXCEPT !.next = "now"], ghost.order)
    /\ UNCHANGED <<selecting, budget>>

\* setSelection writes the settings, then reads the source and brings a sync
\* forward that the quota paused.
SetSelection ==
    /\ selecting = "no" /\ Spend("admin")
    /\ selecting' = "saved"
    /\ ghost' = [ghost EXCEPT !.edited = @ \/ (pc = "idle" /\ src.state # "syncing")]
    /\ UNCHANGED <<src, files, age, licence, worker, lease, row, pc, local, asking>>

ReadSelected ==
    /\ selecting = "saved"
    /\ selecting' = IF src.state = "paused_quota" THEN "over" ELSE "no"
    /\ UNCHANGED <<src, files, age, licence, worker, lease, row, pc, local, asking, ghost, budget>>

BringForward ==
    /\ selecting = "over" /\ selecting' = "no"
    /\ src' = [src EXCEPT !.next = "now"]
    /\ UNCHANGED <<files, age, licence, worker, lease, row, pc, local, asking, ghost, budget>>

LicenceChange ==
    /\ Lapses /\ Spend("admin")
    /\ licence' = ~licence
    /\ UNCHANGED <<src, files, age, worker, lease, row, pc, local, requests, ghost>>

-----------------------------------------------------------------------------
Slice ==
    \/ Read \/ LicenceDenied \/ LicenceGranted \/ OpenRun \/ MarkSyncing
    \/ Connect \/ Refused \/ Unreachable \/ List \/ ListOver \/ Over
    \/ TakeBatch \/ QueueEmpty \/ FileDone \/ TextQuota \/ EndBatch
    \/ Finish \/ ConcludePaused \/ ConcludePartial \/ ConcludeDone
    \/ MarkContinuation \/ Settle \/ CloseRun \/ Caught
    \/ Mail \/ Tell \/ MailError \/ Release

Trouble ==
    \/ ClaimLost \/ ConnectFails \/ ExtractorDown \/ ServerFails \/ StatementFails
    \/ Escape \/ ReleaseFails \/ Crash

Administration ==
    \/ Resume \/ Pause \/ AskSync \/ SyncNow
    \/ SetSelection \/ ReadSelected \/ BringForward \/ LicenceChange

Next ==
    \/ Claim \/ Slice \/ Trouble
    \/ LeaseExpires \/ Restart \/ Due \/ IdleDay \/ Sweep
    \/ Administration

Spec == Init /\ [][Next]_vars

\* The loop claims what is due (FilesLease, DueIsClaimed) unless its release
\* failed, a slice's awaits end, leases expire, a dead worker is restarted and
\* the sweep runs.
Fairness ==
    /\ WF_vars(Claim) /\ WF_vars(Slice) /\ WF_vars(LeaseExpires)
    /\ WF_vars(Restart) /\ WF_vars(Due) /\ WF_vars(Sweep)

FairSpec == Spec /\ Fairness
-----------------------------------------------------------------------------
(* Properties.                                                             *)

\* Nothing but the sources' servers has failed so far.
Undisturbed == budget.fault = MaxFaults /\ budget.crash = MaxCrashes

\* Nothing but processes has failed so far.
Unfailing == budget.outage = MaxOutages /\ budget.fault = MaxFaults

\* An administrator's pause stays when it comes between slices, before the
\* slice reads the source (run() skips it) or while the queue is worked on (the
\* state is read again at the end and settled as paused), although workers
\* crash and syncNow may act on an older reading of an active source.  Needs
\* that no statement, no server and no text limit fails the slice; and that no
\* syncNow that found the source paused is under way when the pause comes: it
\* would wake the source (file-search.service.ts:504-513).
PauseIsKept ==
    Unfailing /\ ghost.order \in {"quiet", "working"} => src.state = "paused_admin"

\* A source that outgrows its plan is told once (PauseNotifier, "once per
\* pause"), until a listing fits again: not again by the daily checks, a manual
\* sync, another selection, an outage, or three outages that pause it for
\* another reason and end.  The licence coming or going starts afresh.  A text
\* limit tells the pause per file (sync-runner.ts:405-418); the e-mails of
\* pauses for the connection and the licence are not counted, every check
\* sends them again.
QuotaToldOnce == Undisturbed => ghost.mails <= 1

\* Every slice that ends has closed its row of the history, whether it was
\* skipped, refused, paused, over a quota or thrown out of its try block.
RunRowClosed == Undisturbed /\ pc = "idle" => ~row.orphan

\* A slice that skips the listing finds the row of the sync it continues, so
\* that the history shows one row per sync (sync-runner.ts run).
ContinuationReopens ==
    Undisturbed /\ pc = "open" /\ cont => row.partial > 0

\* "a changed selection always lists the folder again" (sync-runner.ts run):
\* when the selection of a source that is not syncing changes between slices,
\* no slice works on the queue of the old one, although the marker of an
\* unfinished sync outlives a pause.
SelectionIsListed ==
    Undisturbed /\ ghost.edited => ~(pc \in {"work", "batch"} /\ cont)

\* A source left in syncing between two slices is due at once, also after a
\* crash: "The sync itself continues on its own" (files-worker.service.ts).
SyncingIsContinued == pc = "idle" /\ src.state = "syncing" => src.next = "now"

\* Whatever is queued is worked off or the source is paused, although servers,
\* statements and workers fail in between; a worker whose release of the source
\* failed skips it, until it is restarted.
Drains == pending > 0 ~> pending = 0 \/ src.state \in Paused \/ worker = "skips"

\* "Licence pause: the index is kept 30 days, then removed" (scheduler.ts),
\* when the licence never comes back.
LicencePurge == []<>(licence \/ ~index \/ src.state = "paused_admin")
=============================================================================
