--------------------------- MODULE FileSetupProofs ---------------------------
(***************************************************************************)
(* Proofs about FileSetup.                                                 *)
(***************************************************************************)
EXTENDS FileSetup, FiniteSetTheorems, TLAPS

-----------------------------------------------------------------------------
(* The records: conn, the jobs, the requests and the budget.               *)

Conn   == [there : BOOLEAN, active : BOOLEAN, settings : Settings,
           tools : SUBSET Names]
Budget == [requests : 0 .. MaxRequests, faults : 0 .. MaxFaults]
JobRow == [at : JobSteps, looks : 0 .. MaxLooks, draft : BOOLEAN, settings : Settings]
ActRow == [at : ActSteps, prefix : 1 .. Prefixes, tool : 1 .. Tools, settings : Settings]
EditRow == [at : EditSteps, settings : Settings]

LEMMA ConnFields ==
    ASSUME NEW c \in Conn
    PROVE  /\ c.there \in BOOLEAN /\ c.active \in BOOLEAN /\ c.settings \in Settings
           /\ c.tools \in SUBSET Names
BY DEF Conn

LEMMA ConnUpdates ==
    ASSUME NEW c \in Conn
    PROVE  /\ \A T \in SUBSET Names :
                 /\ [c EXCEPT !.tools = T] \in Conn
                 /\ [c EXCEPT !.there = FALSE, !.tools = T] \in Conn
           /\ \A S \in Settings : /\ [c EXCEPT !.settings = S] \in Conn
                                  /\ [c EXCEPT !.active = TRUE, !.settings = S] \in Conn
BY DEF Conn

LEMMA JobFields ==
    ASSUME NEW j \in JobRow
    PROVE  /\ j.at \in JobSteps /\ j.draft \in BOOLEAN /\ j.settings \in Settings
           /\ j.looks \in 0 .. MaxLooks
           /\ \A st \in JobSteps : [j EXCEPT !.at = st] \in JobRow /\ [j EXCEPT !.at = st].at = st
           /\ \A n \in 0 .. MaxLooks :
                 [j EXCEPT !.looks = n] \in JobRow /\ [j EXCEPT !.looks = n].at = j.at
BY DEF JobRow

LEMMA ActFields ==
    ASSUME NEW x \in ActRow
    PROVE  /\ x.at \in ActSteps /\ x.tool \in 1 .. Tools /\ x.settings \in Settings
           /\ x.prefix \in 1 .. Prefixes /\ <<x.prefix, x.tool>> \in Names
           /\ \A st \in ActSteps : [x EXCEPT !.at = st] \in ActRow
           /\ \A st \in ActSteps, t \in 1 .. Tools : [x EXCEPT !.tool = t, !.at = st] \in ActRow
           /\ \A st \in ActSteps, S \in Settings : [x EXCEPT !.at = st, !.settings = S] \in ActRow
BY DEF ActRow, Names

LEMMA Constants ==
    /\ Tools \in Nat \ {0} /\ Prefixes \in Nat \ {0} /\ Slots \in Nat \ {0}
    /\ MaxScans \in Nat /\ MaxLooks \in Nat /\ MaxEdits \in Nat /\ MaxCalls \in Nat
    /\ MaxRequests \in Nat /\ MaxFaults \in Nat
    /\ {} \in Settings /\ 1 \in 1 .. Tools /\ 1 \in 1 .. Prefixes /\ 0 \in 0 .. MaxLooks
    /\ \A st \in JobSteps : JobAt(st) \in JobRow /\ JobAt(st).at = st
    /\ "none" \in JobSteps /\ NoJob \in JobRow /\ NoJob.at = "none"
    /\ \A st \in ActSteps : Call(st) \in ActRow
<1>1. /\ {} \in Settings /\ 1 \in 1 .. Tools /\ 1 \in 1 .. Prefixes /\ 0 \in 0 .. MaxLooks
      /\ "none" \in JobSteps
  BY SetupAssumption DEF Settings, JobSteps
<1>2. \A st \in JobSteps : JobAt(st) \in JobRow /\ JobAt(st).at = st
  BY <1>1 DEF JobAt, JobRow
<1>3. \A st \in ActSteps : Call(st) \in ActRow
  BY <1>1 DEF Call, ActRow
<1> QED
  BY <1>1, <1>2, <1>3, SetupAssumption DEF NoJob

LEMMA SpendType ==
    ASSUME budget \in Budget, NEW what \in {"requests", "faults"}, Spend(what)
    PROVE  budget' \in Budget
<1>1. CASE what = "requests"
  BY <1>1, Constants DEF Budget, Spend
<1>2. CASE what = "faults"
  BY <1>2, Constants DEF Budget, Spend
<1> QED
  BY <1>1, <1>2

-----------------------------------------------------------------------------
(* Type correctness.                                                       *)

ScanStates == Ended \cup Open

LEMMA JobSet ==
    ASSUME NEW S \in SUBSET Scans
    PROVE  /\ IsFiniteSet(S) /\ Cardinality(S) \in Nat
           /\ \A T \in SUBSET S : Cardinality(T) <= Cardinality(S)
<1>1. IsFiniteSet(Scans)
  BY FS_Interval, Constants DEF Scans
<1>2. IsFiniteSet(S)
  BY <1>1, FS_Subset
<1> QED
  BY <1>2, FS_Subset, FS_CardinalityType

\* A step of a job, or its end, starts no other job.
LEMMA JobsSame ==
    ASSUME TypeOK, NEW s \in Scans, NEW j \in JobRow, job[s].at # "none" \/ j.at = "none",
           job' = [job EXCEPT ![s] = j]
    PROVE  job' \in [Scans -> JobRow] /\ Cardinality(Jobs') <= Slots
<1>1. job \in [Scans -> JobRow] /\ Cardinality(Jobs) <= Slots
  BY DEF TypeOK, JobRow
<1>2. Jobs \in SUBSET Scans /\ Jobs' \in SUBSET Jobs
  BY <1>1 DEF Jobs
<1>3. /\ Cardinality(Jobs') <= Cardinality(Jobs)
      /\ Cardinality(Jobs) \in Nat /\ Cardinality(Jobs') \in Nat
  <2>1. Jobs' \in SUBSET Scans
    BY <1>2
  <2> QED
    BY <1>2, <2>1, JobSet
<1> QED
  BY <1>1, <1>3, Constants

\* A job is started when there is room.
LEMMA JobsMore ==
    ASSUME TypeOK, Room, NEW s \in Scans, NEW j \in JobRow, job' = [job EXCEPT ![s] = j]
    PROVE  job' \in [Scans -> JobRow] /\ Cardinality(Jobs') <= Slots
<1>1. job \in [Scans -> JobRow] /\ Cardinality(Jobs) < Slots
  BY DEF TypeOK, JobRow, Room
<1>2. Jobs \in SUBSET Scans /\ Jobs' \in SUBSET (Jobs \cup {s}) /\ Jobs \cup {s} \in SUBSET Scans
  BY <1>1 DEF Jobs
<1>3. /\ IsFiniteSet(Jobs) /\ Cardinality(Jobs) \in Nat
      /\ Cardinality(Jobs \cup {s}) \in Nat /\ Cardinality(Jobs') \in Nat
      /\ Cardinality(Jobs') <= Cardinality(Jobs \cup {s})
  <2>1. Jobs' \in SUBSET Scans
    BY <1>2
  <2> QED
    BY <1>2, <2>1, JobSet
<1>4. Cardinality(Jobs \cup {s}) = IF s \in Jobs THEN Cardinality(Jobs) ELSE Cardinality(Jobs) + 1
  BY <1>3, FS_AddElement
<1> QED
  BY <1>1, <1>3, <1>4, Constants

LEMMA SetupTypeInit == Init => TypeOK
<1> SUFFICES ASSUME Init PROVE TypeOK
  OBVIOUS
<1>1. Jobs = {}
  BY Constants DEF Init, Jobs
<1>2. Cardinality(Jobs) <= Slots
  BY <1>1, FS_EmptySet, Constants
<1>3. conn \in Conn
  BY Constants DEF Init, Conn
<1>4. job \in [Scans -> JobRow] /\ act \in [Calls -> ActRow] /\ edit \in [Edits -> EditRow]
  BY Constants DEF Init, ActSteps, EditRow, EditSteps
<1>5. budget \in Budget
  BY Constants DEF Init, Budget
<1>6. asked \in 0 .. MaxScans /\ scan \in [Scans -> Ended \cup Open]
  BY Constants DEF Init, Ended
<1> QED
  BY <1>2, <1>3, <1>4, <1>5, <1>6 DEF Init, TypeOK, Conn, JobRow, ActRow, EditRow, Budget

\* TypeOK with the records by their names.
Typed ==
    /\ conn \in Conn /\ source \in {"draft", "active"} /\ doomed \in BOOLEAN
    /\ scan \in [Scans -> ScanStates] /\ asked \in 0 .. MaxScans
    /\ job \in [Scans -> JobRow] /\ Cardinality(Jobs) <= Slots
    /\ act \in [Calls -> ActRow] /\ edit \in [Edits -> EditRow] /\ heeded \in SUBSET Scans /\ spoilt \in BOOLEAN
    /\ budget \in Budget

LEMMA TypeParts == TypeOK <=> Typed
BY DEF TypeOK, Typed, Conn, JobRow, ActRow, EditRow, Budget, ScanStates

LEMMA JobsKept ==
    ASSUME Typed, job' = job
    PROVE  Cardinality(Jobs') <= Slots
BY DEF Typed, Jobs

LEMMA AdministratorTypes ==
    ASSUME Typed, Administrators
    PROVE  Typed'
<1>a. job' = job /\ Cardinality(Jobs') <= Slots
  <2>1. job' = job
    BY DEF Administrators, AskScan, StartScan, Redescribe, CancelScan, ReadSettings, Edit, BeginActivate
  <2> QED
    BY <2>1, JobsKept
<1> USE <1>a DEF row, request, Typed
<1>1. CASE AskScan
  <2> DEFINE S == {s \in Scans : In(s, "none")}
  <2>1. Cardinality(S) \in Nat /\ Cardinality(S) <= MaxScans
    <3>1. Cardinality(Scans) = MaxScans
      BY FS_Interval, Constants DEF Scans
    <3>2. S \in SUBSET Scans /\ Scans \in SUBSET Scans
      OBVIOUS
    <3> QED
      BY <3>1, <3>2, JobSet
  <2>2. asked < Cardinality(S) /\ asked' = asked + 1
    BY <1>1 DEF AskScan
  <2>3. asked' \in 0 .. MaxScans
    BY <2>1, <2>2, Constants
  <2> QED
    BY <1>1, <2>3 DEF AskScan
<1>2. ASSUME NEW s \in Scans, StartScan(s) PROVE Typed'
  BY <1>2, Constants DEF StartScan, Status, ScanStates, Open
<1>3. ASSUME NEW s \in Scans, Redescribe(s) PROVE Typed'
  <2>1. budget' \in Budget
    BY <1>3, SpendType DEF Redescribe
  <2> QED
    BY <1>3, <2>1 DEF Redescribe, Status, ScanStates, Open
<1>4. ASSUME NEW s \in Scans, CancelScan(s) PROVE Typed'
  BY <1>4 DEF CancelScan, Status, ScanStates, Ended
<1>5. ASSUME NEW e \in Edits, ReadSettings(e) PROVE Typed'
  <2>1. [at |-> "read", settings |-> conn.settings] \in EditRow
    BY ConnFields DEF EditRow, EditSteps
  <2>2. budget' \in Budget
    BY <1>5, SpendType DEF ReadSettings
  <2> QED
    BY <1>5, <2>1, <2>2 DEF ReadSettings
<1>6. ASSUME NEW e \in Edits, Edit(e) PROVE Typed'
  <2>1. edit[e].settings \cup {e} \in Settings
    BY DEF EditRow, Settings
  <2>2. conn' \in Conn
    BY <1>6, <2>1, ConnUpdates DEF Edit
  <2>3. [at |-> "over", settings |-> {}] \in EditRow
    BY Constants DEF EditRow, EditSteps
  <2> QED
    BY <1>6, <2>2, <2>3 DEF Edit
<1>7. ASSUME NEW x \in Calls, BeginActivate(x) PROVE Typed'
  <2>1. PICK p \in 1 .. Prefixes :
          /\ act' = [act EXCEPT ![x] = [at |-> "delete", prefix |-> p, tool |-> 1,
                                       settings |-> conn.settings]]
          /\ spoilt' = (Underway # {} /\ (spoilt \/ \E y \in Underway : act[y].prefix # p))
    BY <1>7 DEF BeginActivate
  <2>2. [at |-> "delete", prefix |-> p, tool |-> 1, settings |-> conn.settings] \in ActRow
    BY ConnFields, Constants DEF ActRow, ActSteps
  <2>3. spoilt' \in BOOLEAN
    BY <2>1
  <2>4. budget' \in Budget
    BY <1>7, SpendType DEF BeginActivate
  <2> QED
    BY <1>7, <2>1, <2>2, <2>3, <2>4 DEF BeginActivate
<1> QED
  BY <1>1, <1>2, <1>3, <1>4, <1>5, <1>6, <1>7 DEF Administrators

LEMMA ActivateTypes ==
    ASSUME Typed, NEW x \in Calls, Activate(x) \/ ActivateFails(x)
    PROVE  Typed'
<1>a. job' = job /\ Cardinality(Jobs') <= Slots
  <2>1. job' = job
    BY DEF Activate, DeleteTools, CreateTool, Refuse, ActivateConnector, ActivateSource, ActivateFails
  <2> QED
    BY <2>1, JobsKept
<1>b. act[x] \in ActRow /\ conn.tools \in SUBSET Names
  BY ConnFields DEF Typed
<1> USE <1>a DEF row, Typed
<1>1. CASE DeleteTools(x)
  BY <1>1, <1>b, ConnUpdates, ActFields DEF DeleteTools, CallTo, ActSteps
<1>2. CASE CreateTool(x)
  <2> DEFINE t == act[x].tool
             name == Named(x)
             st == IF t = Tools THEN "connector" ELSE "create"
             n == IF t = Tools THEN t ELSE t + 1
  <2>1. t \in 1 .. Tools /\ name \in Names /\ n \in 1 .. Tools /\ st \in ActSteps
    <3>1. t \in 1 .. Tools /\ name \in Names
      BY <1>b, ActFields DEF Named
    <3>2. n \in 1 .. Tools
      BY <3>1, Constants
    <3> QED
      BY <3>1, <3>2 DEF ActSteps
  <2>2. act' = [act EXCEPT ![x] = [act[x] EXCEPT !.tool = n, !.at = st]]
    BY <1>2 DEF CreateTool
  <2>3. [act[x] EXCEPT !.tool = n, !.at = st] \in ActRow
    BY <1>b, <2>1, ActFields
  <2>4. conn' = [conn EXCEPT !.tools = conn.tools \cup {name}]
    BY <1>2 DEF CreateTool
  <2>5. conn.tools \cup {name} \in SUBSET Names
    BY <1>b, <2>1
  <2>6. conn' \in Conn
    BY <2>4, <2>5, ConnUpdates
  <2>7. UNCHANGED <<source, doomed, scan, asked, edit, heeded, spoilt, budget>>
    BY <1>2 DEF CreateTool
  <2> HIDE DEF t, name, st, n
  <2> QED
    BY <2>2, <2>3, <2>6, <2>7
<1>3. CASE Refuse(x)
  BY <1>3, <1>b, ConnUpdates, Constants DEF Refuse, LeftTools, ActSteps
<1>4. CASE ActivateConnector(x)
  <2>1. act[x].settings \in Settings /\ "source" \in ActSteps /\ {} \in Settings
    BY <1>b, ActFields, Constants DEF ActSteps
  <2>2. conn' = [conn EXCEPT !.active = TRUE, !.settings = act[x].settings]
    BY <1>4 DEF ActivateConnector
  <2>3. act' = [act EXCEPT ![x] = [act[x] EXCEPT !.at = "source", !.settings = {}]]
    BY <1>4 DEF ActivateConnector
  <2>4. [act[x] EXCEPT !.at = "source", !.settings = {}] \in ActRow
    BY <1>b, <2>1, ActFields
  <2>5. conn' \in Conn
    BY <2>1, <2>2, ConnUpdates
  <2> QED
    BY <1>4, <2>3, <2>4, <2>5 DEF ActivateConnector
<1>5. CASE ActivateSource(x)
  BY <1>5, Constants DEF ActivateSource, ActSteps
<1>6. CASE ActivateFails(x)
  BY <1>6, Constants, SpendType DEF ActivateFails, ActSteps
<1> QED
  BY <1>1, <1>2, <1>3, <1>4, <1>5, <1>6 DEF Activate

\* What a step does to the jobs.
JobsTo(s) ==
    \/ UNCHANGED job
    \/ \E j \in JobRow : /\ job[s].at # "none" \/ j.at = "none"
                         /\ job' = [job EXCEPT ![s] = j]

LEMMA WorkerTypes ==
    ASSUME Typed, NEW s \in Scans, Worker(s) \/ ScanFails(s) \/ JobDies(s)
    PROVE  Typed'
<1>b. job[s] \in JobRow /\ (\A st \in JobSteps : [job[s] EXCEPT !.at = st] \in JobRow)
      /\ conn.active \in BOOLEAN /\ conn.settings \in Settings
  BY JobFields, ConnFields DEF Typed
<1>c. ASSUME JobsTo(s) PROVE job' \in [Scans -> JobRow] /\ Cardinality(Jobs') <= Slots
  BY <1>c, JobsSame, JobsKept, TypeParts DEF JobsTo, Typed
<1>d. ASSUME NEW st \in ScanStates, Status(s, st) PROVE scan' \in [Scans -> ScanStates]
  BY <1>d DEF Status, Typed
<1>e. {"running", "describing_running", "done", "failed"} \subseteq ScanStates
  BY DEF ScanStates, Ended, Open
<1>f. ASSUME EndJob(s) PROVE JobsTo(s)
  BY <1>f, Constants DEF EndJob, Leave, NoJob, JobsTo
<1>g. ASSUME NEW st \in JobSteps, Goto(s, st), job[s].at # "none" PROVE JobsTo(s)
  BY <1>b, <1>g DEF Goto, JobsTo, Typed
<1>h. ASSUME NEW st \in JobSteps, Leave(s, st), job[s].at # "none" PROVE JobsTo(s)
  BY <1>h, Constants DEF Leave, JobsTo
<1> USE DEF row, request
<1>1. CASE FailStale(s)
  BY <1>1, <1>c, <1>d, <1>e DEF FailStale, JobsTo, Typed
<1>2. CASE Pick(s)
  <2>1. Room /\ UNCHANGED <<conn, source, doomed, asked, act, edit, spoilt, heeded, budget>>
        /\ scan' \in [Scans -> ScanStates]
    BY <1>2, <1>d, <1>e DEF Pick
  <2>2. \E j \in JobRow : job' = [job EXCEPT ![s] = j]
    BY <1>2, <1>b DEF Pick, Goto, JobSteps, Typed
  <2>3. job' \in [Scans -> JobRow] /\ Cardinality(Jobs') <= Slots
    BY <2>1, <2>2, JobsMore, TypeParts
  <2> QED
    BY <2>1, <2>3 DEF Typed
<1>3. CASE Start(s)
  <2>1. \A n \in 0 .. MaxLooks :
          [at |-> "list", looks |-> n, draft |-> ~conn.active, settings |-> conn.settings]
             \in JobRow
    BY <1>b DEF JobRow, JobSteps
  <2>2. JobsTo(s)
    BY <1>3, <2>1 DEF Start, Working, JobsTo
  <2> QED
    BY <1>3, <1>c, <1>d, <1>e, <2>2 DEF Start, Typed
<1>4. CASE Look(s) \/ Listed(s)
  <2>1. JobsTo(s)
    <3>1. CASE EndJob(s)
      BY <1>f, <3>1
    <3>2. CASE Listed(s)
      BY <1>g, <3>2 DEF Listed, Working, JobSteps
    <3>3. CASE Look(s) /\ job' = [job EXCEPT ![s].looks = @ - 1]
      <4>1. job[s].looks \in 0 .. MaxLooks /\ job[s].looks > 0 /\ job[s].at # "none"
        BY <1>b, <3>3, JobFields DEF Look, Working
      <4>2. job[s].looks - 1 \in 0 .. MaxLooks
        BY <4>1, Constants
      <4>3. [job[s] EXCEPT !.looks = job[s].looks - 1] \in JobRow
        BY <1>b, <4>2, JobFields
      <4>4. job' = [job EXCEPT ![s] = [job[s] EXCEPT !.looks = job[s].looks - 1]]
        BY <3>3
      <4> QED
        BY <4>1, <4>3, <4>4 DEF JobsTo
    <3> QED
      BY <1>4, <3>1, <3>2, <3>3 DEF Look
  <2> QED
    BY <1>4, <1>c, <2>1 DEF Look, Listed, Typed
<1>5. CASE Untick(s)
  <2>1. JobsTo(s)
    BY <1>5, <1>h DEF Untick, Working, JobSteps
  <2>2. conn' \in Conn
    <3>1. conn \in Conn /\ job[s].settings \in Settings
      BY <1>b, JobFields DEF Typed
    <3>2. [conn EXCEPT !.settings = job[s].settings] \in Conn
      BY <3>1, ConnUpdates
    <3> QED
      BY <1>5, <3>1, <3>2 DEF Untick
  <2> QED
    BY <1>5, <1>c, <2>1, <2>2 DEF Untick, Typed
<1>6. CASE Finish(s) \/ Redraft(s)
  <2>1. JobsTo(s) /\ scan' \in [Scans -> ScanStates]
    BY <1>6, <1>d, <1>e, <1>f DEF Finish, Redraft
  <2> QED
    BY <1>6, <1>c, <2>1 DEF Finish, Redraft, Typed
<1>7. CASE Catch(s)
  <2>1. JobsTo(s) /\ scan' \in [Scans -> ScanStates]
    BY <1>7, <1>d, <1>e, <1>f DEF Catch
  <2> QED
    BY <1>7, <1>c, <2>1 DEF Catch, Typed
<1>8. CASE ScanFails(s)
  <2>1. JobsTo(s) /\ budget' \in Budget
    BY <1>8, <1>h, SpendType DEF ScanFails, JobSteps, Typed
  <2> QED
    BY <1>8, <1>c, <2>1 DEF ScanFails, Typed
<1>9. CASE JobDies(s)
  <2>1. JobsTo(s) /\ budget' \in Budget
    BY <1>9, <1>f, SpendType DEF JobDies, Typed
  <2> QED
    BY <1>9, <1>c, <2>1 DEF JobDies, Typed
<1> QED
  BY <1>1, <1>2, <1>3, <1>4, <1>5, <1>6, <1>7, <1>8, <1>9 DEF Worker, Job

LEMMA SetupTypeNext == Typed /\ [Next]_vars => Typed'
<1> SUFFICES ASSUME Typed, [Next]_vars PROVE Typed'
  OBVIOUS
<1>1. CASE SweepReads
  BY <1>1, JobsKept DEF SweepReads, Typed, request
<1>2. CASE SweepDeletes
  <2>1. conn' \in Conn
    <3>1. conn \in Conn /\ {} \in SUBSET Names
      BY DEF Typed
    <3>2. [conn EXCEPT !.there = FALSE, !.tools = {}] \in Conn
      BY <3>1, ConnUpdates
    <3> QED
      BY <1>2, <3>1, <3>2 DEF SweepDeletes
  <2>2. scan' \in [Scans -> ScanStates]
    BY <1>2 DEF SweepDeletes, Typed, ScanStates, Ended
  <2> QED
    BY <1>2, <2>1, <2>2, JobsKept DEF SweepDeletes, Typed, request
<1>3. CASE UNCHANGED vars
  BY <1>3, JobsKept DEF vars, Typed
<1> QED
  BY <1>1, <1>2, <1>3, AdministratorTypes, ActivateTypes, WorkerTypes DEF Next

\* Rows, jobs and requests keep their shape, and the worker never runs more scans
\* than it has slots (scheduler.ts pickScans), for any number of scans, requests
\* and failures.
THEOREM TypeCorrect == Spec => []TypeOK
BY SetupTypeInit, SetupTypeNext, TypeParts, PTL DEF Spec

-----------------------------------------------------------------------------
(* Scans and their jobs.  A job belongs to a scan that is not settled, so  *)
(* what is failed, done or deleted is written by no job; and a cancel that *)
(* is seen in the listing leaves the job only ways to end.                 *)

ScanInv ==
    /\ conn.active => conn.there
    /\ ~conn.there => \A s \in Scans : scan[s] = "none"
    /\ \A s \in Scans :
          /\ scan[s] \in {"queued", "done", "failed", "describing"} => job[s].at = "none"
          /\ conn.there /\ scan[s] = "none" => job[s].at = "none" /\ s \notin heeded
          /\ s \in heeded => /\ scan[s] \in {"cancelled", "failed", "none"}
                             /\ job[s].at \in {"none", "list", "catch"}
                             /\ job[s].at = "list" => job[s].looks > 0

LEMMA ScanInit == Init => ScanInv
BY Constants DEF Init, ScanInv

\* Requests and activations leave the jobs alone.
LEMMA ScanRequests ==
    ASSUME Typed, ScanInv,
           Administrators \/ \E x \in Calls : Activate(x) \/ ActivateFails(x)
    PROVE  ScanInv'
<1>1. CASE AskScan
  BY <1>1 DEF AskScan, ScanInv
<1>2. ASSUME NEW s \in Scans, StartScan(s) \/ Redescribe(s) PROVE ScanInv'
  BY <1>2 DEF Typed, StartScan, Redescribe, In, Status, ScanInv
<1>3. ASSUME NEW s \in Scans, CancelScan(s) PROVE ScanInv'
  <2>1. /\ conn' = conn /\ job' = job /\ scan' = [scan EXCEPT ![s] = "cancelled"]
        /\ scan[s] \in {"queued", "running"}
        /\ heeded' = IF scan[s] = "queued" \/ (job[s].at = "list" /\ job[s].looks > 0)
                     THEN heeded \cup {s} ELSE heeded
    BY <1>3 DEF CancelScan, Status, In
  <2>2. conn.there
    BY <2>1 DEF ScanInv
  <2> QED
    BY <2>1, <2>2 DEF Typed, ScanInv
<1>4. ASSUME NEW e \in Edits, ReadSettings(e) \/ Edit(e) PROVE ScanInv'
  <2>1. conn'.active = conn.active /\ conn'.there = conn.there
    BY <1>4 DEF ReadSettings, Edit, Typed, Conn
  <2> QED
    BY <1>4, <2>1 DEF ReadSettings, Edit, ScanInv
<1>5. ASSUME NEW x \in Calls, BeginActivate(x) \/ ActivateSource(x) \/ ActivateFails(x)
      PROVE  ScanInv'
  BY <1>5 DEF BeginActivate, ActivateSource, ActivateFails, ScanInv
<1>6. ASSUME NEW x \in Calls,
             DeleteTools(x) \/ CreateTool(x) \/ Refuse(x) \/ ActivateConnector(x)
      PROVE  ScanInv'
  <2>1. conn.there /\ conn'.there = conn.there /\ UNCHANGED <<scan, job, heeded>>
    BY <1>6 DEF DeleteTools, CreateTool, Refuse, ActivateConnector, Typed, Conn
  <2> QED
    BY <2>1 DEF ScanInv
<1> QED
  BY <1>1, <1>2, <1>3, <1>4, <1>5, <1>6 DEF Administrators, Activate

LEMMA ScanWorker ==
    ASSUME Typed, ScanInv, NEW s \in Scans, Worker(s) \/ ScanFails(s) \/ JobDies(s)
    PROVE  ScanInv'
<1>0. /\ job \in [Scans -> JobRow] /\ scan \in [Scans -> ScanStates]
      /\ NoJob.at = "none" /\ heeded' = heeded
  BY Constants DEF Typed, Worker, Job, FailStale, Pick, Start, Look, Listed, Untick, Finish,
                   Redraft, Catch, ScanFails, JobDies, request
<1>a. ASSUME NEW st \in JobSteps, Goto(s, st)
      PROVE  job'[s].at = st /\ \A r \in Scans \ {s} : job'[r] = job[r]
  BY <1>0, <1>a, JobFields DEF Goto
<1>b. ASSUME EndJob(s) PROVE job'[s].at = "none" /\ \A r \in Scans \ {s} : job'[r] = job[r]
  BY <1>0, <1>b, Constants DEF EndJob, Leave
<1>c. ASSUME NEW st \in JobSteps, Leave(s, st)
      PROVE  job'[s].at = st /\ \A r \in Scans \ {s} : job'[r] = job[r]
  BY <1>0, <1>c, Constants DEF Leave
<1>1. CASE FailStale(s)
  <2>1. conn.there /\ job[s].at = "none"
    BY <1>1 DEF FailStale, Stale, Own, ScanInv
  <2> QED
    BY <1>0, <1>1, <2>1 DEF FailStale, Stale, Status, ScanInv
<1>2. CASE Pick(s)
  <2>1. conn' = conn /\ conn.there
    BY <1>2 DEF Pick, In, ScanInv
  <2>2. CASE In(s, "queued") /\ Status(s, "running") /\ Goto(s, "start")
    BY <1>0, <1>a, <2>1, <2>2 DEF In, Status, ScanInv, JobSteps
  <2>3. CASE In(s, "describing") /\ Status(s, "describing_running") /\ Goto(s, "redraft")
    BY <1>0, <1>a, <2>1, <2>3 DEF In, Status, ScanInv, JobSteps
  <2> QED
    BY <1>2, <2>2, <2>3 DEF Pick
<1>3. CASE Start(s)
  <2>1. job'[s].at = "list" /\ \A r \in Scans \ {s} : job'[r] = job[r]
    BY <1>0, <1>3 DEF Start
  <2>2. /\ conn' = conn /\ conn.there /\ job[s].at = "start"
        /\ scan' = [scan EXCEPT ![s] = "running"]
    BY <1>3 DEF Start, Working, Status
  <2> QED
    BY <1>0, <2>1, <2>2 DEF ScanInv
<1>4. CASE Look(s)
  <2>1. conn' = conn /\ conn.there /\ job[s].at = "list" /\ scan' = scan
    BY <1>4 DEF Look, Working
  <2>2. CASE EndJob(s)
    <3>1. job'[s].at = "none" /\ \A r \in Scans \ {s} : job'[r] = job[r]
      BY <1>b, <2>2
    <3> QED
      BY <1>0, <2>1, <3>1 DEF ScanInv
  <2>3. CASE ~Cancelled(s) /\ job' = [job EXCEPT ![s].looks = @ - 1]
    <3>1. s \notin heeded
      BY <2>1, <2>3 DEF ScanInv, Cancelled, In
    <3>2. job'[s].at = "list" /\ \A r \in Scans \ {s} : job'[r] = job[r]
      BY <1>0, <2>1, <2>3 DEF JobRow
    <3> QED
      BY <1>0, <2>1, <3>1, <3>2 DEF ScanInv
  <2> QED
    BY <1>4, <2>2, <2>3 DEF Look
<1>10. CASE Listed(s)
  <2>1. /\ conn' = conn /\ conn.there /\ job[s].at = "list" /\ scan' = scan
        /\ s \notin heeded
    BY <1>10 DEF Listed, Working, ScanInv
  <2>2. job'[s].at = "untick" /\ \A r \in Scans \ {s} : job'[r] = job[r]
    BY <1>10, <1>a DEF Listed, JobSteps
  <2> QED
    BY <1>0, <2>1, <2>2 DEF ScanInv
<1>5. CASE Untick(s)
  <2>1. /\ conn.there /\ conn'.there = conn.there /\ conn'.active = conn.active
        /\ job[s].at = "untick" /\ scan' = scan
    BY <1>5 DEF Untick, Working, Typed, Conn
  <2>2. job'[s].at = "finish" /\ \A r \in Scans \ {s} : job'[r] = job[r]
    BY <1>5, <1>c DEF Untick, JobSteps
  <2> QED
    BY <1>0, <2>1, <2>2 DEF ScanInv
<1>6. CASE Finish(s) \/ Redraft(s)
  <2>1. /\ conn' = conn /\ conn.there /\ job[s].at \in {"finish", "redraft"}
        /\ scan' = [scan EXCEPT ![s] = "done"]
    BY <1>6 DEF Finish, Redraft, Working, Status
  <2>2. job'[s].at = "none" /\ \A r \in Scans \ {s} : job'[r] = job[r]
    BY <1>6, <1>b DEF Finish, Redraft
  <2> QED
    BY <1>0, <2>1, <2>2 DEF ScanInv
<1>7. CASE Catch(s)
  <2>1. /\ conn' = conn /\ conn.there /\ job[s].at = "catch"
        /\ scan' = [scan EXCEPT ![s] = "failed"]
    BY <1>7 DEF Catch, Working, Status
  <2>2. job'[s].at = "none" /\ \A r \in Scans \ {s} : job'[r] = job[r]
    BY <1>7, <1>b DEF Catch
  <2>3. scan[s] # "none"
    BY <2>1 DEF ScanInv
  <2> QED
    BY <1>0, <2>1, <2>2, <2>3 DEF ScanInv
<1>8. CASE ScanFails(s)
  <2>1. conn' = conn /\ job[s].at \in {"list", "untick", "finish"} /\ scan' = scan
    BY <1>8 DEF ScanFails
  <2>2. job'[s].at = "catch" /\ \A r \in Scans \ {s} : job'[r] = job[r]
    BY <1>8, <1>c DEF ScanFails, JobSteps
  <2> QED
    BY <1>0, <2>1, <2>2 DEF ScanInv
<1>9. CASE JobDies(s)
  <2>1. conn' = conn /\ scan' = scan
    BY <1>9 DEF JobDies
  <2>2. job'[s].at = "none" /\ \A r \in Scans \ {s} : job'[r] = job[r]
    BY <1>9, <1>b DEF JobDies
  <2> QED
    BY <1>0, <2>1, <2>2 DEF ScanInv
<1> QED
  BY <1>1, <1>2, <1>3, <1>4, <1>5, <1>6, <1>7, <1>8, <1>9, <1>10 DEF Worker, Job

LEMMA ScanNext == Typed /\ ScanInv /\ [Next]_vars => ScanInv'
<1> SUFFICES ASSUME Typed, ScanInv, [Next]_vars PROVE ScanInv'
  OBVIOUS
<1>1. CASE SweepReads \/ UNCHANGED vars
  BY <1>1 DEF SweepReads, vars, ScanInv, request
<1>2. CASE SweepDeletes
  <2>1. CASE conn' = conn /\ scan' = scan
    BY <1>2, <2>1 DEF SweepDeletes, ScanInv, request
  <2>2. CASE ~Spared /\ conn' = [conn EXCEPT !.there = FALSE, !.tools = {}]
             /\ scan' = [s \in Scans |-> "none"]
    <3>1. ~conn'.there /\ ~conn'.active
      BY <2>2 DEF Spared, Typed, Conn
    <3>2. heeded' = heeded /\ job' = job
      BY <1>2 DEF SweepDeletes
    <3> QED
      BY <2>2, <3>1, <3>2 DEF ScanInv
  <2> QED
    BY <1>2, <2>1, <2>2 DEF SweepDeletes
<1> QED
  BY <1>1, <1>2, ScanRequests, ScanWorker DEF Next

\* A scan cancelled while it waits, or while its listing has still to look for a
\* cancel, never comes back as a result (walk.ts:40-43, scan-runner.ts:95,
\* 120-123), whatever fails.
THEOREM CancelsHold == Spec => []CancelStops
<1>1. Typed /\ ScanInv => CancelStops
  BY DEF Typed, ScanInv, CancelStops
<1> QED
  BY <1>1, ScanInit, ScanNext, SetupTypeInit, SetupTypeNext, TypeParts, PTL DEF Spec

\* The sweep of old drafts never takes a connector that has been activated
\* (scheduler.ts:316-332).
THEOREM ActiveConnectorsStay == Spec => []ActiveIsKept
<1>1. ScanInv => ActiveIsKept
  BY DEF ScanInv, ActiveIsKept
<1> QED
  BY <1>1, ScanInit, ScanNext, SetupTypeInit, SetupTypeNext, TypeParts, PTL DEF Spec

\* What the survey has declared failed is never finished after all
\* (scheduler.ts:158-161): no job is left that could.
THEOREM FailedScansStay == Spec => FailedStays
<1> DEFINE Stays == \A s \in Scans : In(s, "failed") => scan'[s] \in {"failed", "none"}
<1>1. Typed /\ ScanInv /\ [Next]_vars => [Stays]_vars
  <2> SUFFICES ASSUME Typed, ScanInv, [Next]_vars, NEW r \in Scans, scan[r] = "failed"
               PROVE  scan'[r] \in {"failed", "none"}
    BY DEF In
  <2>0. conn.there /\ job[r].at = "none" /\ scan \in [Scans -> ScanStates]
    BY DEF ScanInv, Typed
  <2>1. ASSUME NEW s \in Scans, StartScan(s) \/ Redescribe(s) \/ CancelScan(s)
        PROVE  scan'[r] = "failed"
    BY <2>0, <2>1 DEF StartScan, Redescribe, CancelScan, In, Status
  <2>2. ASSUME NEW s \in Scans, Worker(s) \/ ScanFails(s) \/ JobDies(s)
        PROVE  scan'[r] = "failed"
    BY <2>0, <2>2 DEF Worker, Job, FailStale, Stale, Pick, Start, Look, Listed, Untick,
           Finish, Redraft, Catch, ScanFails, JobDies, Working, In, Status
  <2>3. ASSUME NEW x \in Calls, BeginActivate(x) \/ Activate(x) \/ ActivateFails(x)
        PROVE  scan'[r] = "failed"
    BY <2>3 DEF BeginActivate, Activate, DeleteTools, CreateTool, Refuse, ActivateConnector,
           ActivateSource, ActivateFails, row
  <2>4. CASE AskScan \/ SweepReads \/ SweepDeletes \/ UNCHANGED vars
    BY <2>4 DEF AskScan, SweepReads, SweepDeletes, vars
  <2>5. ASSUME NEW e \in Edits, ReadSettings(e) \/ Edit(e) PROVE scan'[r] = "failed"
    BY <2>5 DEF ReadSettings, Edit
  <2> QED
    BY <2>1, <2>2, <2>3, <2>4, <2>5 DEF Next, Administrators
<1> QED
  BY <1>1, ScanInit, ScanNext, SetupTypeInit, SetupTypeNext, TypeParts, PTL
  DEF Spec, FailedStays

-----------------------------------------------------------------------------
(* Activations beside each other.  Those under way have one prefix, and    *)
(* whatever tool of it is missing will be made by one that meets no tool   *)
(* before it: only one that has its own tools ahead of it is refused.      *)

Covers(x, p, u) ==
    \/ act[x].at = "delete"
    \/ /\ act[x].at = "create" /\ act[x].tool <= u
       /\ \A t \in 1 .. Tools : act[x].tool <= t /\ t <= u => <<p, t>> \notin conn.tools

Deleted == \E x \in Calls : act[x].at \in {"create", "connector", "source"}
Begun   == source = "active" \/ Deleted

Sound(p) ==
    /\ \A x \in Underway : act[x].prefix = p
    /\ Deleted \/ Underway = {} => conn.tools \subseteq {p} \X (1 .. Tools)
    /\ Begun => \A u \in 1 .. Tools : <<p, u>> \in conn.tools \/ \E x \in Calls : Covers(x, p, u)

ToolInv ==
    /\ source = "active" => conn.active
    /\ \A x \in Calls : /\ act[x].at = "source" => conn.active
                        /\ act[x].at = "delete" => act[x].tool = 1
    /\ conn.there /\ ~spoilt => \E p \in 1 .. Prefixes : Sound(p)

LEMMA ToolInit == Init => ToolInv
<1> SUFFICES ASSUME Init PROVE ToolInv
  OBVIOUS
<1>1. /\ \A x \in Calls : act[x].at = "new"
      /\ conn.tools = {} /\ source = "draft"
  BY DEF Init, Call
<1>2. Underway = {} /\ ~Begun
  BY <1>1 DEF Underway, Begun, Deleted
<1>3. Sound(1)
  BY <1>1, <1>2 DEF Sound
<1> QED
  BY <1>1, <1>3, Constants DEF ToolInv

\* Steps that leave activations and tools alone.
LEMMA ToolSame ==
    ASSUME ToolInv, UNCHANGED <<source, act, spoilt>>, conn'.tools = conn.tools,
           conn'.active = conn.active, conn'.there => conn.there
    PROVE  ToolInv'
<1>1. \A p \in 1 .. Prefixes : Sound(p) => Sound(p)'
  BY DEF Sound, Begun, Deleted, Underway, Covers
<1> QED
  BY <1>1 DEF ToolInv

\* The prefix of an activation that has deleted the tools and is not over yet.
LEMMA ToolStep ==
    ASSUME Typed, ToolInv, NEW x \in Calls, act[x].at \in {"create", "connector", "source"},
           conn'.there = conn.there, spoilt' = spoilt, conn'.active \/ ~conn.active,
           source' = "active" => conn'.active,
           \A y \in Calls : act'[y].at = "source" => conn'.active,
           \A y \in Calls : act'[y].at = "delete" => act'[y].tool = 1,
           ASSUME NEW p \in 1 .. Prefixes, act[x].prefix = p, Sound(p)
           PROVE  Sound(p)'
    PROVE  ToolInv'
<1>1. ASSUME NEW p \in 1 .. Prefixes, Sound(p) PROVE Sound(p)'
  <2>1. x \in Underway
    BY DEF Underway
  <2>2. act[x].prefix = p
    BY <1>1, <2>1 DEF Sound
  <2> QED
    BY <1>1, <2>2
<1> QED
  BY <1>1 DEF ToolInv

LEMMA ToolBegin ==
    ASSUME Typed, ToolInv, NEW x \in Calls, BeginActivate(x)
    PROVE  ToolInv'
<1>1. PICK q \in 1 .. Prefixes :
        /\ act' = [act EXCEPT ![x] = [at |-> "delete", prefix |-> q, tool |-> 1,
                                     settings |-> conn.settings]]
        /\ spoilt' = (Underway # {} /\ (spoilt \/ \E y \in Underway : act[y].prefix # q))
  BY DEF BeginActivate
<1>2. /\ act'[x].at = "delete" /\ act'[x].prefix = q /\ act'[x].tool = 1 /\ act[x].at = "new"
      /\ \A y \in Calls \ {x} : act'[y] = act[y]
  BY <1>1 DEF Typed, BeginActivate
<1>3. conn' = conn /\ source' = source
  BY DEF BeginActivate, row
<1>4. Underway' = Underway \cup {x}
  BY <1>2 DEF Underway
<1>5. Deleted' <=> Deleted
  BY <1>2 DEF Deleted
<1>6. ASSUME conn.there, ~spoilt' PROVE Sound(q)'
  <2>1. \A y \in Underway : act[y].prefix = q /\ y # x
    BY <1>1, <1>2, <1>6 DEF Underway
  <2>2. \A y \in Underway' : act'[y].prefix = q
    BY <1>2, <1>4, <2>1 DEF Underway
  <2>3. \A u \in 1 .. Tools : Covers(x, q, u)'
    BY <1>2 DEF Covers
  <2>4. Deleted => conn.tools \subseteq {q} \X (1 .. Tools)
    <3>1. SUFFICES ASSUME Deleted PROVE conn.tools \subseteq {q} \X (1 .. Tools)
      OBVIOUS
    <3>2. PICK y \in Calls : act[y].at \in {"create", "connector", "source"}
      BY <3>1 DEF Deleted
    <3>3. y \in Underway
      BY <3>2 DEF Underway
    <3>4. ~spoilt
      BY <1>1, <1>6, <3>3
    <3>5. PICK p \in 1 .. Prefixes : Sound(p)
      BY <1>6, <3>4 DEF ToolInv
    <3>6. p = q
      BY <2>1, <3>3, <3>5 DEF Sound
    <3> QED
      BY <3>1, <3>5, <3>6 DEF Sound
  <2> QED
    BY <1>3, <1>4, <1>5, <2>2, <2>3, <2>4 DEF Sound
<1> QED
  BY <1>2, <1>3, <1>6 DEF ToolInv

LEMMA ToolCreate ==
    ASSUME Typed, ToolInv, NEW x \in Calls, CreateTool(x)
    PROVE  ToolInv'
<1> DEFINE t == act[x].tool
<1>0. /\ conn \in Conn /\ act \in [Calls -> ActRow] /\ act[x] \in ActRow
      /\ t \in 1 .. Tools
  BY ActFields DEF Typed
<1>1. /\ act[x].at = "create" /\ \A y \in Calls \ {x} : act'[y] = act[y]
      /\ conn.there /\ act'[x].prefix = act[x].prefix
      /\ t = Tools => act'[x].at = "connector"
      /\ t # Tools => act'[x].at = "create" /\ act'[x].tool = t + 1
  BY <1>0 DEF CreateTool, ActRow
<1>2. /\ conn'.tools = conn.tools \cup {<<act[x].prefix, t>>} /\ conn'.active = conn.active
      /\ conn'.there = conn.there /\ UNCHANGED <<source, spoilt>>
  BY <1>0 DEF CreateTool, Named, Conn, row
<1>a. conn'.active \/ ~conn.active
  BY <1>2
<1>b. source' = "active" => conn'.active
  BY <1>2 DEF ToolInv
<1>c. \A y \in Calls : act'[y].at = "source" => conn'.active
  BY <1>1, <1>2 DEF ToolInv
<1>d. \A y \in Calls : act'[y].at = "delete" => act'[y].tool = 1
  BY <1>1 DEF ToolInv
<1>3. ASSUME NEW p \in 1 .. Prefixes, act[x].prefix = p, Sound(p) PROVE Sound(p)'
  <2>0. Deleted /\ Begun /\ Underway' = Underway
    BY <1>1 DEF Deleted, Begun, Underway
  <2>1. \A y \in Underway' : act'[y].prefix = p
    BY <1>1, <1>3, <2>0 DEF Sound, Underway
  <2>2. conn'.tools \subseteq {p} \X (1 .. Tools)
    BY <1>0, <1>2, <1>3, <2>0 DEF Sound
  <2>3. ASSUME NEW u \in 1 .. Tools, <<p, u>> \notin conn'.tools
        PROVE  \E y \in Calls : Covers(y, p, u)'
    <3>1. PICK y \in Calls : Covers(y, p, u)
      BY <1>2, <1>3, <2>0, <2>3 DEF Sound
    <3>2. u # t /\ act[y].tool \in 1 .. Tools
      BY <1>0, <1>2, <1>3, <2>3, ActFields DEF Typed
    <3>3. CASE act[y].at = "delete"
      BY <1>1, <3>3 DEF Covers
    <3>4. CASE act[y].at # "delete" /\ (u < t \/ t < act[y].tool)
      <4>1. y # x
        BY <1>0, <1>1, <3>1, <3>4 DEF Covers
      <4>2. act'[y] = act[y] /\ \A v \in 1 .. Tools : act[y].tool <= v /\ v <= u => v # t
        BY <1>1, <3>2, <3>4, <4>1
      <4> QED
        BY <1>2, <3>1, <3>4, <4>2 DEF Covers
    <3>5. CASE act[y].at # "delete" /\ act[y].tool <= t /\ t <= u
      <4>1. t # Tools /\ t + 1 <= u
        BY <1>0, <3>2, <3>5, Constants
      <4>2. act'[x].at = "create" /\ act'[x].tool = t + 1
        BY <1>1, <4>1
      <4>3. ASSUME NEW v \in 1 .. Tools, t + 1 <= v, v <= u
            PROVE  <<p, v>> \notin conn.tools \cup {<<p, t>>}
        <5>1. act[y].tool <= v /\ v # t
          BY <1>0, <3>2, <3>5, <4>3
        <5> QED
          BY <3>1, <3>5, <4>3, <5>1 DEF Covers
      <4> HIDE DEF t
      <4> QED
        BY <1>2, <1>3, <4>1, <4>2, <4>3 DEF Covers
    <3> QED
      BY <1>0, <3>2, <3>3, <3>4, <3>5
  <2> QED
    BY <2>1, <2>2, <2>3 DEF Sound
<1> HIDE DEF t
<1> QED
  BY <1>1, <1>2, <1>3, <1>a, <1>b, <1>c, <1>d, ToolStep

LEMMA ToolCall ==
    ASSUME Typed, ToolInv, NEW x \in Calls, Activate(x) \/ ActivateFails(x)
    PROVE  ToolInv'
<1>0. /\ conn \in Conn /\ act \in [Calls -> ActRow] /\ act[x] \in ActRow
      /\ act[x].tool \in 1 .. Tools
  BY ActFields DEF Typed
<1>1. CASE DeleteTools(x)
  <2>1. /\ act[x].at = "delete" /\ act'[x].at = "create" /\ act'[x].tool = act[x].tool
        /\ act'[x].prefix = act[x].prefix /\ \A y \in Calls \ {x} : act'[y] = act[y]
    BY <1>0, <1>1 DEF DeleteTools, CallTo, ActRow
  <2>2. /\ conn'.tools = {} /\ conn'.active = conn.active /\ conn'.there = conn.there
        /\ UNCHANGED <<source, spoilt>>
    BY <1>0, <1>1 DEF DeleteTools, Conn, row
  <2>3. Underway' = Underway
    BY <2>1 DEF Underway
  <2>4. ASSUME NEW p \in 1 .. Prefixes, Sound(p) PROVE Sound(p)'
    <3>1. \A u \in 1 .. Tools : Covers(x, p, u)'
      BY <2>1, <2>2 DEF ToolInv, Covers
    <3>2. \A y \in Underway' : act'[y].prefix = p
      BY <2>1, <2>3, <2>4 DEF Sound, Underway
    <3> QED
      BY <2>2, <3>1, <3>2 DEF Sound
  <2> QED
    BY <2>1, <2>2, <2>4 DEF ToolInv
<1>2. CASE CreateTool(x)
  BY <1>2, ToolCreate
<1>3. CASE Refuse(x)
  <2>1. /\ act[x].at = "create" /\ Named(x) \in conn.tools /\ conn.there
        /\ act'[x].at = "over" /\ \A y \in Calls \ {x} : act'[y] = act[y]
    BY <1>0, <1>3 DEF Refuse, Call
  <2>2. /\ conn'.tools = conn.tools /\ conn'.active = conn.active /\ conn'.there = conn.there
        /\ UNCHANGED <<source, spoilt>>
    BY <1>0, <1>3 DEF Refuse, LeftTools, Conn, row
  <2>3. Deleted /\ Begun /\ Underway' = Underway \ {x}
    BY <2>1 DEF Deleted, Begun, Underway
  <2>4. ASSUME NEW p \in 1 .. Prefixes, act[x].prefix = p, Sound(p) PROVE Sound(p)'
    <3>1. \A u \in 1 .. Tools : ~Covers(x, p, u)
      BY <1>0, <2>1, <2>4 DEF Covers, Named
    <3>2. \A u \in 1 .. Tools, y \in Calls \ {x} : Covers(y, p, u) => Covers(y, p, u)'
      BY <2>1, <2>2 DEF Covers
    <3>3. \A y \in Underway' : act'[y].prefix = p
      BY <2>1, <2>3, <2>4 DEF Sound, Underway
    <3>4. \A u \in 1 .. Tools : <<p, u>> \in conn.tools \/ \E y \in Calls \ {x} : Covers(y, p, u)
      BY <2>3, <2>4, <3>1 DEF Sound
    <3> QED
      BY <2>2, <2>3, <2>4, <3>2, <3>3, <3>4 DEF Sound
  <2>5. \A y \in Calls : /\ act'[y].at = "source" => conn'.active
                         /\ act'[y].at = "delete" => act'[y].tool = 1
    BY <2>1, <2>2 DEF ToolInv
  <2>6. (conn'.active \/ ~conn.active) /\ (source' = "active" => conn'.active)
    BY <2>2 DEF ToolInv
  <2> QED
    BY <2>1, <2>2, <2>4, <2>5, <2>6, ToolStep
<1>4. CASE ActivateConnector(x)
  <2>1. /\ act[x].at = "connector" /\ act'[x].at = "source" /\ act'[x].prefix = act[x].prefix
        /\ \A y \in Calls \ {x} : act'[y] = act[y]
    BY <1>0, <1>4 DEF ActivateConnector, ActRow
  <2>2. /\ conn'.tools = conn.tools /\ conn'.active /\ conn'.there = conn.there
        /\ UNCHANGED <<source, spoilt>>
    BY <1>0, <1>4 DEF ActivateConnector, Conn, row
  <2>3. Deleted /\ Begun /\ Underway' = Underway
    BY <2>1 DEF Deleted, Begun, Underway
  <2>4. ASSUME NEW p \in 1 .. Prefixes, act[x].prefix = p, Sound(p) PROVE Sound(p)'
    <3>1. \A u \in 1 .. Tools, y \in Calls : Covers(y, p, u) => Covers(y, p, u)'
      BY <2>1, <2>2 DEF Covers
    <3>2. \A y \in Underway' : act'[y].prefix = p
      BY <2>1, <2>3, <2>4 DEF Sound, Underway
    <3> QED
      BY <2>2, <2>3, <2>4, <3>1, <3>2 DEF Sound
  <2> QED
    BY <2>1, <2>2, <2>4, ToolStep DEF ToolInv
<1>5. CASE ActivateSource(x)
  <2>1. /\ act[x].at = "source" /\ act'[x].at = "over" /\ conn' = conn /\ spoilt' = spoilt
        /\ \A y \in Calls \ {x} : act'[y] = act[y]
    BY <1>0, <1>5 DEF ActivateSource, Call
  <2>2. Deleted /\ Begun /\ Underway' = Underway \ {x}
    BY <2>1 DEF Deleted, Begun, Underway
  <2>3. conn.active
    BY <2>1 DEF ToolInv
  <2>4. ASSUME NEW p \in 1 .. Prefixes, act[x].prefix = p, Sound(p) PROVE Sound(p)'
    <3>1. \A u \in 1 .. Tools, y \in Calls : Covers(y, p, u) => Covers(y, p, u)'
      BY <2>1 DEF Covers
    <3>2. \A y \in Underway' : act'[y].prefix = p
      BY <2>1, <2>2, <2>4 DEF Sound, Underway
    <3> QED
      BY <2>1, <2>2, <2>4, <3>1, <3>2 DEF Sound
  <2> QED
    BY <2>1, <2>3, <2>4, ToolStep DEF ToolInv
<1>6. CASE ActivateFails(x)
  <2>1. /\ act'[x].at = "over" /\ spoilt' = TRUE /\ UNCHANGED <<conn, source>>
        /\ \A y \in Calls \ {x} : act'[y] = act[y]
    BY <1>0, <1>6 DEF ActivateFails, Call, row
  <2> QED
    BY <2>1 DEF ToolInv
<1> QED
  BY <1>1, <1>2, <1>3, <1>4, <1>5, <1>6 DEF Activate

LEMMA ToolNext == Typed /\ ScanInv /\ ToolInv /\ [Next]_vars => ToolInv'
<1> SUFFICES ASSUME Typed, ScanInv, ToolInv, [Next]_vars PROVE ToolInv'
  OBVIOUS
<1>1. CASE AskScan \/ SweepReads \/ UNCHANGED vars
  BY <1>1, ToolSame DEF Typed, Conn, AskScan, SweepReads, vars, row, request
<1>2. ASSUME NEW s \in Scans, StartScan(s) \/ Redescribe(s) \/ CancelScan(s) PROVE ToolInv'
  BY <1>2, ToolSame DEF StartScan, Redescribe, CancelScan, row, request
<1>3. ASSUME NEW s \in Scans, Worker(s) \/ ScanFails(s) \/ JobDies(s) PROVE ToolInv'
  <2>1. UNCHANGED <<source, act, spoilt>>
    BY <1>3 DEF Worker, Job, FailStale, Pick, Start, Look, Listed, Untick, Finish, Redraft,
                Catch, ScanFails, JobDies, row, request
  <2>2. conn'.tools = conn.tools /\ conn'.active = conn.active /\ conn'.there = conn.there
    BY <1>3 DEF Typed, Conn, Worker, Job, FailStale, Pick, Start, Look, Listed, Untick,
                Finish, Redraft, Catch, ScanFails, JobDies
  <2> QED
    BY <2>1, <2>2, ToolSame
<1>4. CASE SweepDeletes
  <2>1. CASE conn' = conn
    BY <1>4, <2>1, ToolSame DEF SweepDeletes, request
  <2>2. CASE ~Spared /\ conn' = [conn EXCEPT !.there = FALSE, !.tools = {}]
    <3>1. ~conn'.there /\ ~conn.active /\ UNCHANGED <<source, act, spoilt>>
          /\ conn'.active = conn.active
      BY <1>4, <2>2 DEF SweepDeletes, Spared, Typed, Conn, request
    <3> QED
      BY <3>1 DEF ToolInv
  <2> QED
    BY <1>4, <2>1, <2>2 DEF SweepDeletes
<1>5. ASSUME NEW e \in Edits, ReadSettings(e) \/ Edit(e) PROVE ToolInv'
  <2>1. UNCHANGED <<source, act, spoilt>>
    BY <1>5 DEF ReadSettings, Edit, row
  <2>2. conn'.tools = conn.tools /\ conn'.active = conn.active /\ conn'.there = conn.there
    BY <1>5 DEF Typed, Conn, ReadSettings, Edit
  <2> QED
    BY <2>1, <2>2, ToolSame
<1> QED
  BY <1>1, <1>2, <1>3, <1>4, <1>5, ToolBegin, ToolCall DEF Next, Administrators

\* However many activations of one prefix run beside each other, and whichever of
\* them is refused, the source that is scheduled has a connector that answers with
\* all of its tools once they are over (file-search.service.ts:399-427), unless one
\* of them failed half way or asked for another prefix.
THEOREM ToolsAreComplete == Spec => []SourceHasTools
<1>1. Typed /\ ScanInv /\ ToolInv => SourceHasTools
  <2> SUFFICES ASSUME Typed, ScanInv, ToolInv, source = "active", ~spoilt, Underway = {}
               PROVE  conn.active /\ \E p \in 1 .. Prefixes : conn.tools = {p} \X (1 .. Tools)
    BY DEF SourceHasTools
  <2>1. conn.active /\ conn.there
    BY DEF ToolInv, ScanInv
  <2>2. PICK p \in 1 .. Prefixes : Sound(p)
    BY <2>1 DEF ToolInv
  <2>3. \A x \in Calls, u \in 1 .. Tools : ~Covers(x, p, u)
    BY DEF Underway, Covers
  <2>4. \A u \in 1 .. Tools : <<p, u>> \in conn.tools
    BY <2>2, <2>3 DEF Sound, Begun
  <2>5. conn.tools \subseteq {p} \X (1 .. Tools)
    BY <2>2 DEF Sound
  <2>6. conn.tools = {p} \X (1 .. Tools)
    BY <2>4, <2>5
  <2> QED
    BY <2>1, <2>6
<1> QED
  BY <1>1, ToolInit, ToolNext, ScanInit, ScanNext, SetupTypeInit, SetupTypeNext, TypeParts,
     PTL DEF Spec

-----------------------------------------------------------------------------
(* The settings of the connector.                                          *)

\* Settings an administrator saved are undone only by an activation, another change
\* or the scan of a draft that had read the connector before
\* (scan-runner.ts:181-187, file-search.service.ts:228-232, 328-335, 374).
THEOREM EditsStay == Spec => EditsKept
<1> DEFINE Undone(e) ==
      \/ \E s \in Scans : /\ job[s].at = "untick" /\ job'[s].at = "finish"
                         /\ job[s].draft /\ e \notin job[s].settings
      \/ \E x \in Calls : /\ act[x].at = "connector" /\ act'[x].at = "source"
                         /\ e \notin act[x].settings
      \/ \E f \in Edits \ {e} : /\ edit[f].at = "read" /\ edit'[f].at = "over"
                               /\ e \notin edit[f].settings
    Keeps == \A e \in conn.settings \ conn'.settings : Undone(e)
<1>1. Typed /\ [Next]_vars => [Keeps]_vars
  <2> SUFFICES ASSUME Typed, [Next]_vars,
                      NEW e \in conn.settings, e \notin conn'.settings
               PROVE  Undone(e)
    OBVIOUS
  <2>0. /\ conn \in Conn /\ job \in [Scans -> JobRow] /\ act \in [Calls -> ActRow]
        /\ edit \in [Edits -> EditRow]
    BY DEF Typed
  <2>1. conn'.settings # conn.settings /\ conn' # conn
    OBVIOUS
  <2>2. ~(SweepReads \/ SweepDeletes \/ UNCHANGED vars)
    <3>1. [conn EXCEPT !.there = FALSE, !.tools = {}].settings = conn.settings
      BY <2>0 DEF Conn
    <3> QED
      BY <2>1, <3>1 DEF SweepReads, SweepDeletes, vars
  <2>3. ASSUME NEW x \in Calls, BeginActivate(x) \/ Activate(x) \/ ActivateFails(x)
        PROVE  Undone(e)
    <3>1. CASE ActivateConnector(x)
      <4>1. /\ act[x].at = "connector" /\ act'[x].at = "source"
            /\ conn'.settings = act[x].settings
        BY <2>0, <3>1 DEF ActivateConnector, Conn, ActRow
      <4> QED
        BY <4>1
    <3>2. CASE ~ActivateConnector(x)
      <4>1. conn'.settings = conn.settings
        BY <2>0, <2>3, <3>2 DEF BeginActivate, Activate, DeleteTools, CreateTool, Refuse,
                                ActivateSource, ActivateFails, Conn
      <4> QED
        BY <2>1, <4>1
    <3> QED
      BY <3>1, <3>2
  <2>4. ASSUME NEW s \in Scans, Worker(s) \/ ScanFails(s) \/ JobDies(s) PROVE Undone(e)
    <3>1. CASE Untick(s)
      <4>1. /\ job[s].at = "untick" /\ job'[s].at = "finish" /\ job[s].draft
            /\ conn'.settings = job[s].settings
        BY <2>0, <2>1, <3>1, Constants DEF Untick, Unticks, Working, Leave, Conn, JobSteps
      <4> QED
        BY <4>1
    <3>2. CASE ~Untick(s)
      <4>1. conn' = conn
        BY <2>4, <3>2 DEF Worker, Job, FailStale, Pick, Start, Look, Listed, Finish, Redraft,
                          Catch, ScanFails, JobDies
      <4> QED
        BY <2>1, <4>1
    <3> QED
      BY <3>1, <3>2
  <2>5. ASSUME NEW f \in Edits, Edit(f) PROVE Undone(e)
    <3>1. /\ edit[f].at = "read" /\ edit'[f].at = "over"
          /\ conn'.settings = edit[f].settings \cup {f}
      BY <2>0, <2>5 DEF Edit, Conn
    <3>2. f # e /\ e \notin edit[f].settings /\ e \in Edits
      BY <2>0, <3>1 DEF Conn, Settings
    <3> QED
      BY <3>1, <3>2
  <2>6. CASE AskScan
    BY <2>1, <2>6 DEF AskScan
  <2>7. ASSUME NEW s \in Scans, StartScan(s) \/ Redescribe(s) \/ CancelScan(s)
        PROVE  Undone(e)
    BY <2>1, <2>7 DEF StartScan, Redescribe, CancelScan
  <2>8. ASSUME NEW f \in Edits, ReadSettings(f) PROVE Undone(e)
    BY <2>1, <2>8 DEF ReadSettings
  <2> HIDE DEF Undone
  <2> QED
    BY <2>2, <2>3, <2>4, <2>5, <2>6, <2>7, <2>8 DEF Next, Administrators
<1> QED
  BY <1>1, SetupTypeInit, SetupTypeNext, TypeParts, PTL DEF Spec, EditsKept

=============================================================================
