------------------------------ MODULE FileSetup ------------------------------
(***************************************************************************)
(* The setup of one File Search connector: the draft of the wizard, the    *)
(* scans of its folder that the files worker runs                          *)
(* (packages/backend/src/ee/file-search/scan/scan-runner.ts), the          *)
(* activation (file-search.service.ts) and the sweep of drafts nobody      *)
(* finished (scheduler.ts).  None of them is one transaction, and the      *)
(* connector's settings are read at the start of each and written whole at *)
(* its end.                                                                *)
(*                                                                         *)
(* A single worker process runs the scans, as the deployment has it        *)
(* (docker-compose.cloud.yml); it crashes and comes back.  The settings    *)
(* are the set of the administrators' changes they contain.                *)
(***************************************************************************)
EXTENDS Naturals, FiniteSets

CONSTANTS
    Tools,     \* the tools of a connector, 1 .. Tools, each named after a prefix
    Prefixes,  \* bound: the prefixes activations ask for, 1 .. Prefixes
    MaxScans,  \* bound: scans
    MaxLooks,  \* bound: looks for a cancel in one listing
    Slots,     \* MAX_SCANS
    MaxEdits,  \* bound: changes of the settings by administrators
    MaxCalls,  \* bound: activation requests
    MaxRequests, \* bound: both, and descriptions asked for again, together
    MaxFaults  \* bound: statements that fail, and crashes

ASSUME SetupAssumption ==
    /\ Tools \in Nat \ {0} /\ Prefixes \in Nat \ {0} /\ Slots \in Nat \ {0}
    /\ {MaxScans, MaxLooks, MaxEdits, MaxCalls, MaxRequests, MaxFaults} \subseteq Nat

\* Scans and requests are numbered in the order they come.
Scans == 1 .. MaxScans
Calls == 1 .. MaxCalls
Edits == 1 .. MaxEdits

VARIABLES
    conn,     \* the connectors row and its mcp_tools
    source,   \* setup_state of its file_sources row: draft or active
    doomed,   \* the sweep has read the draft and deletes it next
    scan,     \* the file_scans rows
    asked,    \* startScan requests that found no scan queued or running
    job,      \* what the worker does with a scan
    act,      \* the activation requests
    edit,     \* the requests that change the settings
    heeded,   \* scans cancelled where a cancel is seen (history)
    spoilt,   \* an activation failed half way or met one of another prefix, since
              \* the last that began with none beside it (history)
    budget    \* bounded steps left

vars == <<conn, source, doomed, scan, asked, job, act, edit, heeded, spoilt, budget>>

Settings == SUBSET Edits
Names    == (1 .. Prefixes) \X (1 .. Tools)
Ended    == {"none", "done", "failed", "cancelled"}
Open     == {"queued", "running", "describing", "describing_running"}
JobSteps == {"none", "start", "list", "untick", "finish", "catch", "redraft"}
ActSteps == {"new", "over", "delete", "create", "connector", "source"}
EditSteps == {"new", "read", "over"}

Jobs == {s \in Scans : job[s].at # "none"}

TypeOK ==
    /\ conn \in [there : BOOLEAN, active : BOOLEAN, settings : Settings,
                 tools : SUBSET Names]
    /\ source \in {"draft", "active"}
    /\ doomed \in BOOLEAN
    /\ scan \in [Scans -> Ended \cup Open]
    /\ asked \in 0 .. MaxScans
    /\ job \in [Scans -> [at : JobSteps, looks : 0 .. MaxLooks, draft : BOOLEAN,
                         settings : Settings]]
    /\ Cardinality(Jobs) <= Slots
    /\ act \in [Calls -> [at : ActSteps, prefix : 1 .. Prefixes, tool : 1 .. Tools,
                         settings : Settings]]
    /\ edit \in [Edits -> [at : EditSteps, settings : Settings]]
    /\ heeded \in SUBSET Scans /\ spoilt \in BOOLEAN
    /\ budget \in [requests : 0 .. MaxRequests, faults : 0 .. MaxFaults]

JobAt(st) == [at |-> st, looks |-> 0, draft |-> TRUE, settings |-> {}]
NoJob     == JobAt("none")
Call(st)  == [at |-> st, prefix |-> 1, tool |-> 1, settings |-> {}]

\* The draft createDraft leaves.
Init ==
    /\ conn = [there |-> TRUE, active |-> FALSE, settings |-> {}, tools |-> {}]
    /\ source = "draft" /\ doomed = FALSE
    /\ scan = [s \in Scans |-> "none"] /\ asked = 0
    /\ job = [s \in Scans |-> NoJob] /\ act = [x \in Calls |-> Call("new")]
    /\ edit = [e \in Edits |-> [at |-> "new", settings |-> {}]]
    /\ heeded = {} /\ spoilt = FALSE
    /\ budget = [requests |-> MaxRequests, faults |-> MaxFaults]

-----------------------------------------------------------------------------
Spend(what) == budget[what] > 0 /\ budget' = [budget EXCEPT ![what] = @ - 1]
In(s, st)      == scan[s] = st
Status(s, st)  == scan' = [scan EXCEPT ![s] = st]
Working(s, st) == job[s].at = st /\ conn.there
Goto(s, st)    == job' = [job EXCEPT ![s].at = st]
Leave(s, st)   == job' = [job EXCEPT ![s] = JobAt(st)]
EndJob(s)      == Leave(s, "none")
Done           == {s \in Scans : In(s, "done")}

request == <<act, edit, spoilt>>
row     == <<source, doomed>>

-----------------------------------------------------------------------------
(* The administrators and the wizard.                                      *)

\* startScan; a scan that is queued or running is answered instead.
AskScan ==
    /\ conn.there /\ \A s \in Scans : scan[s] \notin {"queued", "running"}
    /\ asked < Cardinality({s \in Scans : In(s, "none")}) /\ asked' = asked + 1
    /\ UNCHANGED <<conn, row, scan, job, request, heeded, budget>>

StartScan(s) ==
    /\ conn.there /\ In(s, "none") /\ (s > 1 => ~In(s - 1, "none"))
    /\ Status(s, "queued")
    /\ asked > 0 /\ asked' = asked - 1
    /\ UNCHANGED <<conn, row, job, request, heeded, budget>>

\* redescribe: of a scan that succeeded, however old it is.
Redescribe(s) ==
    /\ In(s, "done") /\ Spend("requests")
    /\ Status(s, "describing")
    /\ UNCHANGED <<conn, row, asked, job, request, heeded>>

\* cancelScan.  The listing looks for it now and then; heeded remembers that
\* the cancel came before the last of these looks.
CancelScan(s) ==
    /\ scan[s] \in {"queued", "running"}
    /\ Status(s, "cancelled")
    /\ heeded' = IF In(s, "queued") \/ (job[s].at = "list" /\ job[s].looks > 0)
                 THEN heeded \cup {s} ELSE heeded
    /\ UNCHANGED <<conn, row, asked, job, request, budget>>

\* updateSource or setSelection: the settings are read ...
ReadSettings(e) ==
    /\ conn.there /\ edit[e].at = "new" /\ (e > 1 => edit[e - 1].at # "new")
    /\ Spend("requests")
    /\ edit' = [edit EXCEPT ![e] = [at |-> "read", settings |-> conn.settings]]
    /\ UNCHANGED <<conn, row, scan, asked, job, act, spoilt, heeded>>

\* ... and written whole, with the change.
Edit(e) ==
    /\ conn.there /\ edit[e].at = "read"
    /\ conn' = [conn EXCEPT !.settings = edit[e].settings \cup {e}]
    /\ edit' = [edit EXCEPT ![e] = [at |-> "over", settings |-> {}]]
    /\ UNCHANGED <<row, scan, asked, job, act, spoilt, heeded, budget>>

-----------------------------------------------------------------------------
(* activate                                                                *)

CallTo(x, st) == act' = [act EXCEPT ![x].at = st]

Underway == {x \in Calls : act[x].at \notin {"new", "over"}}

\* The connector is read and checked against the last listing.  The prefix of the
\* tools is the request's or, without one, the connector's.
BeginActivate(x) ==
    /\ act[x].at = "new" /\ (x > 1 => act[x - 1].at # "new")
    /\ conn.there /\ Done # {} /\ Spend("requests")
    /\ \E p \in 1 .. Prefixes :
          /\ act' = [act EXCEPT ![x] = [at |-> "delete", prefix |-> p, tool |-> 1,
                                       settings |-> conn.settings]]
          /\ spoilt' = (Underway # {} /\ (spoilt \/ \E y \in Underway : act[y].prefix # p))
    /\ UNCHANGED <<conn, row, scan, asked, job, edit, heeded>>

DeleteTools(x) ==
    /\ act[x].at = "delete" /\ conn.there
    /\ conn' = [conn EXCEPT !.tools = {}] /\ CallTo(x, "create")
    /\ UNCHANGED <<row, scan, asked, job, edit, heeded, spoilt, budget>>

Named(x) == <<act[x].prefix, act[x].tool>>

\* One tool after the other.
CreateTool(x) ==
    LET t == act[x].tool
    IN  /\ act[x].at = "create" /\ conn.there /\ Named(x) \notin conn.tools
        /\ conn' = [conn EXCEPT !.tools = @ \cup {Named(x)}]
        /\ act' = [act EXCEPT ![x].tool = IF t = Tools THEN t ELSE t + 1,
                              ![x].at = IF t = Tools THEN "connector" ELSE "create"]
        /\ UNCHANGED <<row, scan, asked, job, edit, heeded, spoilt, budget>>

\* P2002: another activation has created the tool, this one is refused.
LeftTools_Cleared == {}
LeftTools == conn.tools

Refuse(x) ==
    /\ act[x].at = "create" /\ conn.there /\ Named(x) \in conn.tools
    /\ conn' = [conn EXCEPT !.tools = LeftTools]
    /\ act' = [act EXCEPT ![x] = Call("over")]
    /\ UNCHANGED <<row, scan, asked, job, edit, heeded, spoilt, budget>>

ActivateConnector(x) ==
    /\ act[x].at = "connector" /\ conn.there
    /\ conn' = [conn EXCEPT !.active = TRUE, !.settings = act[x].settings]
    /\ act' = [act EXCEPT ![x].at = "source", ![x].settings = {}]
    /\ UNCHANGED <<row, scan, asked, job, edit, heeded, spoilt, budget>>

ActivateSource(x) ==
    /\ act[x].at = "source" /\ conn.there
    /\ source' = "active" /\ act' = [act EXCEPT ![x] = Call("over")]
    /\ UNCHANGED <<conn, doomed, scan, asked, job, edit, heeded, spoilt, budget>>

\* A statement fails, the server dies, or the connector is gone.
ActivateFails(x) ==
    /\ act[x].at \notin {"new", "over"}
    /\ (conn.there /\ Spend("faults")) \/ (~conn.there /\ UNCHANGED budget)
    /\ spoilt' = TRUE /\ act' = [act EXCEPT ![x] = Call("over")]
    /\ UNCHANGED <<conn, row, scan, asked, job, edit, heeded>>

-----------------------------------------------------------------------------
(* The worker                                                              *)

\* survey: a scan created 15 minutes ago that is still running and not the
\* worker's own.  How old a scan is is left out.
Stale_QueuedOnly == {"running"}
Stale == {"running", "describing_running"}
Own_Forgotten(s) == FALSE
Own(s) == job[s].at # "none"

FailStale(s) ==
    /\ scan[s] \in Stale /\ ~Own(s)
    /\ Status(s, "failed")
    /\ UNCHANGED <<conn, row, asked, job, request, heeded, budget>>

\* pickScans, and the job it starts.
Room_Unlimited == TRUE
Room == Cardinality(Jobs) < Slots

Pick(s) ==
    /\ Room
    /\ \/ In(s, "queued") /\ Status(s, "running") /\ Goto(s, "start")
       \/ In(s, "describing") /\ Status(s, "describing_running") /\ Goto(s, "redraft")
    /\ UNCHANGED <<conn, row, asked, request, heeded, budget>>

\* run: the scan and the connector are read, and the row says running, though it
\* was cancelled since the claim.  The folders there will be, and the time the
\* listing has, decide how often it looks for a cancel.
Start(s) ==
    /\ Working(s, "start")
    /\ \E n \in 0 .. MaxLooks :
          job' = [job EXCEPT ![s] = [at |-> "list", looks |-> n, draft |-> ~conn.active,
                                     settings |-> conn.settings]]
    /\ Status(s, "running")
    /\ UNCHANGED <<conn, row, asked, request, heeded, budget>>

\* walk: the cancel is looked for before every 20th folder, the first one
\* included, and not when the listing ends.  While samples are read it only ends
\* the sampling.
Cancelled_Ignored(s) == FALSE
Cancelled(s) == In(s, "cancelled")

Look(s) ==
    /\ Working(s, "list") /\ job[s].looks > 0
    /\ IF Cancelled(s) THEN EndJob(s) ELSE job' = [job EXCEPT ![s].looks = @ - 1]
    /\ UNCHANGED <<conn, row, scan, asked, request, heeded, budget>>

Listed(s) ==
    /\ Working(s, "list") /\ job[s].looks = 0 /\ Goto(s, "untick")
    /\ UNCHANGED <<conn, row, scan, asked, request, heeded, budget>>

\* The archive folders of a draft are unticked, in the settings as they were
\* when the scan began, unless these leave out folders already.
Unticks_Active(j) == TRUE
Unticks(j) == j.draft

Untick(s) ==
    /\ Working(s, "untick") /\ Leave(s, "finish")
    /\ \/ Unticks(job[s]) /\ conn' = [conn EXCEPT !.settings = job[s].settings]
       \/ UNCHANGED conn
    /\ UNCHANGED <<row, scan, asked, request, heeded, budget>>

\* The description is drafted, and the result is written whatever became of the
\* row.  (instructionsDraft is left out.)
Finish(s) ==
    /\ Working(s, "finish") /\ Status(s, "done") /\ EndJob(s)
    /\ UNCHANGED <<conn, row, asked, request, heeded, budget>>

\* redescribe writes its result without looking at the row, too.
Redraft(s) ==
    /\ Working(s, "redraft") /\ Status(s, "done") /\ EndJob(s)
    /\ UNCHANGED <<conn, row, asked, request, heeded, budget>>

\* The server cannot be opened or listed, or a statement of run's try block
\* fails ...
ScanFails(s) ==
    /\ job[s].at \in {"list", "untick", "finish"}
    /\ Spend("faults") /\ Leave(s, "catch")
    /\ UNCHANGED <<conn, row, scan, asked, request, heeded>>

Catch(s) ==
    /\ Working(s, "catch") /\ Status(s, "failed") /\ EndJob(s)
    /\ UNCHANGED <<conn, row, asked, request, heeded, budget>>

\* ... or outside of it, in redescribe, or with the worker: the row stays.
JobDies(s) ==
    /\ job[s].at # "none" /\ EndJob(s)
    /\ (conn.there /\ Spend("faults")) \/ (~conn.there /\ UNCHANGED budget)
    /\ UNCHANGED <<conn, row, scan, asked, request, heeded>>

-----------------------------------------------------------------------------
(* Time, and the sweep of drafts                                           *)

\* A draft older than 7 days; how old it is is left out.
SweepReads ==
    /\ conn.there /\ ~doomed /\ source = "draft" /\ ~conn.active
    /\ doomed' = TRUE
    /\ UNCHANGED <<conn, source, scan, asked, job, request, heeded, budget>>

\* deleteMany: the connector, its source, its scans and its tools, unless it
\* was activated meanwhile.
Spared_Never == FALSE
Spared == conn.active

SweepDeletes ==
    /\ doomed /\ doomed' = FALSE
    /\ IF Spared \/ ~conn.there THEN UNCHANGED <<conn, scan>>
       ELSE /\ conn' = [conn EXCEPT !.there = FALSE, !.tools = {}]
            /\ scan' = [s \in Scans |-> "none"]
    /\ UNCHANGED <<source, asked, job, request, heeded, budget>>

-----------------------------------------------------------------------------
Administrators ==
    \/ AskScan
    \/ \E e \in Edits : ReadSettings(e) \/ Edit(e)
    \/ \E s \in Scans : StartScan(s) \/ Redescribe(s) \/ CancelScan(s)
    \/ \E x \in Calls : BeginActivate(x)

Activate(x) ==
    \/ DeleteTools(x) \/ CreateTool(x) \/ Refuse(x)
    \/ ActivateConnector(x) \/ ActivateSource(x)

Job(s) ==
    \/ Start(s) \/ Look(s) \/ Listed(s) \/ Untick(s) \/ Finish(s)
    \/ Redraft(s) \/ Catch(s)

Worker(s) == FailStale(s) \/ Pick(s) \/ Job(s)

Next ==
    \/ Administrators
    \/ \E x \in Calls : Activate(x) \/ ActivateFails(x)
    \/ \E s \in Scans : Worker(s) \/ ScanFails(s) \/ JobDies(s)
    \/ SweepReads \/ SweepDeletes

Spec == Init /\ [][Next]_vars

\* The worker ticks, what it awaits ends, and time passes.
Fairness == \A s \in Scans : WF_vars(Worker(s))

FairSpec == Spec /\ Fairness
-----------------------------------------------------------------------------
(* Properties.                                                             *)

\* A scan that was cancelled while it waited, or while its listing had still to
\* look for a cancel, never comes back as a result (file-search.service.ts:271-277,
\* walk.ts:40-43, scan-runner.ts:95, 120-123).  A cancel between the claim and the
\* first write of the job (scan-runner.ts:55), or after the last look, is lost: a
\* listing of up to 20 folders looks once, before the first of them.
CancelStops ==
    \A s \in heeded : scan[s] \in {"cancelled", "failed", "none"}

\* "A scan that has been running for 15 minutes belongs to a worker that died"
\* (scheduler.ts:158-161): what the survey declared failed is never finished
\* after all.
FailedStays ==
    [][\A s \in Scans : In(s, "failed") => scan'[s] \in {"failed", "none"}]_vars

\* A draft that is activated after the sweep has read it, and before the sweep
\* deletes it, stays (scheduler.ts:316-332): a connector that answers is there.
ActiveIsKept == conn.active => conn.there

\* The source of the schedule is a connector that answers, with all of the tools
\* of one prefix, also when two administrators activate it at once and one of them
\* is refused (file-search.service.ts:399-427, each statement a transaction of its
\* own).  Excepted are an activation that failed half way and two at once that
\* asked for different prefixes (376): nobody is refused then, and either may
\* delete tools the other has made.  The next activation that begins alone mends
\* both.
SourceHasTools ==
    source = "active" /\ ~spoilt /\ Underway = {}
        => conn.active /\ \E p \in 1 .. Prefixes : conn.tools = {p} \X (1 .. Tools)

\* What an administrator changed is undone only by somebody who had read the
\* settings before: an activation, another change, or a scan that began when the
\* connector was a draft (scan-runner.ts:181-187, file-search.service.ts:228-232,
\* 328-335, 374, 417-420).  A scan of an active connector leaves its settings
\* alone, however long it takes.
EditsKept ==
    [][\A e \in conn.settings \ conn'.settings :
          \/ \E s \in Scans : /\ job[s].at = "untick" /\ job'[s].at = "finish"
                             /\ job[s].draft /\ e \notin job[s].settings
          \/ \E x \in Calls : /\ act[x].at = "connector" /\ act'[x].at = "source"
                             /\ e \notin act[x].settings
          \/ \E f \in Edits \ {e} : /\ edit[f].at = "read" /\ edit'[f].at = "over"
                                   /\ e \notin edit[f].settings]_vars

\* Every scan and every description ends, whatever fails: in the worker, in the
\* row or with the process (scheduler.ts:158-161, scan-runner.ts:220-223).
ScanEnds ==
    \A s \in Scans : scan[s] \in Open ~> scan[s] \in Ended
=============================================================================
