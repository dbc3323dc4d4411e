# AnythingMCP: formal models

TLA+ models, model-checking runs and machine-checked proofs for the backend of
AnythingMCP (`packages/backend`). They cover File Search with its worker process
and File Share, where the backend has most of its concurrency (several processes
share tables through leases, long jobs are cut into slices, and users, workers
and file servers change the same rows at the same time), and the renewal of the
rotating OAuth2 tokens its connectors depend on.

All source paths below are relative to `src/packages/backend/src/` of the
repository unless they start with another directory.

## 1. Inventory

The backend is a NestJS application on Postgres (Prisma). One backend process
answers HTTP and MCP calls; cron services run in it; a second process, the
files-worker, indexes files. They share state only through Postgres and an
object store.

| Component | State it keeps | Operations and interactions | Hard behaviour | What makes it correct |
| --- | --- | --- | --- | --- |
| Files worker: scheduler (`ee/file-search/sync/scheduler.ts`, `files-worker.service.ts`) | leases in `file_sources`, in memory the leases held, the running slices | tick: survey, claim, run a slice, renew, release; stop; kick from the backend | several workers, crash with a lease, deploy in the middle of a tick, failing statements | one live lease and one slice per workspace, bounded concurrency, every due source is claimed |
| Files worker: sync run (`ee/file-search/sync/sync-runner.ts`, `walk.ts`, `notifier.ts`) | setup state, schedule, counters and statistics of a source, `file_sync_runs` | run one slice: check the plan, list the server, apply the listing, index 25 files, finish; pauses and e-mails | admin actions and other workers between its awaits, crash between steps, a listing that fails half-way | an admin's pause is never lost, a run ends in one final state, a source never stays without next step |
| File Search administration (`file-search/file-search.service.ts`) | drafts, selection, schedule, limits | draft, select, activate, sync now, pause, resume, schedule, cancel a scan | check-then-act against the limits of the plan, races with the worker | pauses hold, limits hold, an activated source is scheduled |
| File index (`processOne`, `markFailed`, `requeueFailed` of `sync-runner.ts`) | `file_entries`, `file_chunks` | list, compare, extract, store the text, give up after three failures | file changed between list and read, extractor unavailable, retries across slices, crash after the text was stored | what is marked indexed is findable with its current text, retries end, quota kept |
| Folder scan (`ee/file-search/scan/scan-runner.ts`, `scheduler.ts` pickScans) | `file_scans` | queue, claim, walk, sample, describe, cancel | cancel against completion, a dead worker's scan, two workers | a cancelled scan stays cancelled, every scan ends |
| File Share (`file-search/file-share.service.ts`) | `file_shares`, stored objects | create, issue a download, open, revoke, sweep | limits checked before the write, storage and row change apart, sweep against download | no stored file without a row, plan limits kept, every expired file is deleted |
| File Search queries (`file-search/file-search-query.service.ts`, `file-search.engine.ts`) | none | search, open, list | reads only | answers only from the workspace's own rows |
| Connector token services (`connectors/engines/oauth2-token.service.ts`, `login-token.service.ts`, `bearer-token-renewal.service.ts`, `tiktok-shop-token.service.ts`, `shopee-token`) | access and refresh tokens, in-flight refreshes | get a token, refresh, store the rotated refresh token | concurrent calls and processes refresh the same single-use refresh token | one refresh at a time, a rotated token is never overwritten by an older one |
| MCP sessions and connection grants (`mcp-servers/`) | sessions in memory, grants | open, touch, evict, revoke | limits and revocation against open sessions | a revoked connection sees nothing |
| MCP endpoint and tools (`mcp-server/`) | rate-limit windows, shared toolsets | list and call tools, rate limits, code execution | concurrent calls, caches | per-key limits hold |
| OAuth server and login (`auth/`) | codes, refresh tokens, recovery codes, verification tokens | authorize, exchange, refresh, revoke | single-use codes and tokens under concurrency | a code or token is redeemed once |
| Licences (`license/`, `ee/licensing/`) | licence state, trials, plan limits | activate, refresh, release, check | remote service down, grace periods, caches | the plan never outlives its grace |
| Cron services (`ee/cloud/onboarding-cron.service.ts`, `kg-cron.service.ts`) | per-user progress of e-mails, learning batches | periodic batches with claims | overlapping runs, crash between send and mark | each step once |
| Knowledge graph (`knowledge-graph/`) | nodes, edges, skills, proposals | learn, propose, accept, render | concurrent learning and edits | accepted facts are kept |
| Identity providers, SSO, SCIM (`identity-providers/`) | providers, role mappings | login, provision, deprovision, role sync | directory changes against local edits | the last administrator stays |
| Users and organizations (`users/`, `organizations/`, `roles/`) | members, invitations, roles, keys | invite, accept, remove, transfer | last-admin rule under concurrency | each workspace keeps an administrator |
| Memory, knowledge folders, settings, alerts, audit, health, public statistics | rows | CRUD, e-mails, logs | little | out of scope for a state model |
| REST, database, e-mail and other connector engines (`connectors/engines/`) | none of their own | translate a tool call into a request | input-dependent formatting | out of scope for a state model |
| Adapters catalogue (`adapters/`) | generated JSON | none | none | data |
| Frontend, CLI, deploy scripts, code runner, file extractor (Python) | their own | outside the backend | | outside this project |


## 2. What is modelled

| Module | Models | Extended by |
| --- | --- | --- |
| `FilesLease` | the lease protocol of the workers (`scheduler.ts`) | `MCFilesLease` (instances), `FilesLeaseProofs` |
| `WorkspaceTurns` | what that protocol promises: the sources of a workspace take turns | implemented by `FilesLease` (`TakesTurns`), `WorkspaceTurnsProofs` |
| `FileSync` | one source: the slices of its sync, its administrators, licence and worker (`sync-runner.ts` run, pause, finishRun; `file-search.service.ts`) | `MCFileSync`, `FileSyncProofs` |
| `FileIndex` | one file: its row and its text through listings and attempts (`sync-runner.ts` processOne, markFailed, requeueFailed) | `MCFileIndex`, `FileIndexProofs` |
| `FileSetup` | one connector before and around its sync: draft, scans, activation, sweep of drafts (`scan-runner.ts`, `file-search.service.ts`, `scheduler.ts`) | `FileSetupProofs` |
| `FileShare` | links to stored files, their revocation and the sweep (`file-share.service.ts`) | `MCFileShare`, `FileShareProofs` |
| `TokenRefresh` | one connector's rotating refresh token, renewed by several server processes (`oauth2-token.service.ts`, `connector-auth-status.service.ts`) | `MCTokenRefresh`, `TokenRefreshProofs` |
| `TokenChain` | what those renewals promise: a token obtained is stored, or lost, before the next one of its authorization is obtained | implemented by `TokenRefresh` (`RenewalsAreChained`) |

The first four cut the sync along its data. `FilesLease` knows of a slice only that
it runs and leaves its source due or not; it shows that one slice of a workspace
runs at a time. `FileSync` takes that for granted (its variable `lease` only
remembers a dead worker) and follows the row of one source through the awaits of
a slice, with files as numbers. `FileIndex` takes for granted that one slice at
a time writes the row of a file, and follows one file with its contents.
`FileSetup` ends where `FileSync` begins: with an activated source. `FileShare`
and `TokenRefresh` share no state with the others.

Every action stands for the code between two awaits at which something else can
happen. A definition named `X_Something` before a definition `X` is a deliberately
wrong variant of it: replacing `X` by it must break the property it is listed
with, which shows that the property depends on that line of code.

### FilesLease

| State | Code |
| --- | --- |
| `owner`, `left` | `lease_owner`, `lease_until` of `file_sources`, the latter as renewal intervals (2 minutes) that remain |
| `due`, `ahead` | the rows that `ELIGIBLE`, `is_active` and `next_sync_at <= now()` select, and their order by `next_sync_at` |
| `todo`, `slots` | the candidates of the tick in progress, claims it may still make |
| `slice`, `held` | `Scheduler.running`, `Scheduler.leases` |
| `owed` | renewal timers that have fired |
| `status`, `awaited` | the process, and what `stop()` waits for |

`Survey` is a tick up to `claimDue`. `ClaimIn` is the transaction under the
workspace's advisory lock, up to its commit; `ClaimAnswered` is what follows its
answer, so the entry of the map comes later than the row, and with the last claim
of a tick its slices start in the same step, as there is no await between them.
`ClaimAnswerLost` is a claim that committed and fails all the same, `ClaimMiss` and
`ClaimFails` claims that take no row. `EndSlice`, `Release`, `ReleaseFails`,
`Renew`, `RenewFails` are `runSource`. `Stop`, `StopWaitOver`, `StopRelease`,
`StopReleaseFails`, `Exit` are `stop()`: with no slice running it goes on to the
releases at once, and it is interleaved with a tick in progress, because the tick
does not read `stopped` again. `Advance` is the passing of a renewal interval:
every lease ages and every timer fires. A statement that fails, or whose answer is
lost, is an action of its own, bounded by `MaxFaults`. The commit of a release and
the removal of its entry are one step, because only the slice that ends and `stop()`
touch that entry.

Assumed: a tick claims within one renewal interval, and a renewal is answered
before the next is due (guards of `Advance`).

### FileSync

`src` is the row of `file_sources` (state, whether `next_sync_at` has come, the
marker of an unfinished sync, the failure count, whether the pause was told),
`saw` the copy `run()` read at its start, `pc` the next await. `row` is the
history: the status of the slice's own run, how many runs are partial, and
whether one says running although no slice does. `pending` and `failed` count
entries.

`Claim` is the scheduler's, `ClaimLost` one whose answer was lost: the lease is
there and nobody works. After `ReleaseFails` the worker keeps the entry of its map and
skips the source (`worker = "skips"`) until it restarts.
`Read` to `MarkSyncing` are the beginning of `run()`, `Connect`, `ConnectFails`,
`Refused`, `Unreachable` the connection, `List` and `ListOver` the listing and
the quota check, `TakeBatch`, `FileDone`, `TextQuota`, `EndBatch` the queue,
`Finish` to `Settle` the end. `Throw` leads from any await of the try block to
`CloseRun` and `Caught`, the catch block; `Escape` is a failing statement outside
it. `PauseFor`, `Mail`, `Tell` are `pause()` with its e-mail. `Resume`, `Pause`,
`AskSync` then `SyncNow` (its read and its write), `SetSelection` then `ReadSelected`
then `BringForward` (the settings, the read of the source, its schedule) and
`LicenceChange` may fall between any two of these. One `syncNow` and one
`setSelection` are under way at a time.

`ghost` holds what no code stores and the properties need: whether an
administrator's pause stands and what the slice was doing when it came, whether
a changed selection has been listed, and the e-mails about the quota since a listing
fitted or the licence came back.

### FileIndex

`disk` is the file on the server; each change gives it a new stamp (size and
modification time, or ETag). `entry` is the row with its chunks: a content
stands for its own SHA-256 and for the text extracted from it, so "the hash of
the row" and "the text in the index" are compared directly. `counted` is
`textChars`. Contents come in four kinds, told apart by the extractor: with
text, with a password, unsupported, without text. `seen` is the walk's entry,
`copy` the row as the batch read it, `buf` the download. `ApplyChanged` writes the
row of a changed file and `DropChunks` deletes its chunks: two transactions. `Cut` ends a slice at
any await: a crash, a quota, an exception, or other files first. `misses` is a
history variable: the attempts made for the present version.

### WorkspaceTurns

`turn` says which worker may work on each source, `waiting` which sources wait.
The refinement maps `turn` to the owner of every live lease and `waiting` to
`due`: claims take turns; releases and leases that expire end them; a renewal
keeps its turn because the lease it renews is still live, which is what makes the
refinement more than a renaming.

### FileSetup

| State | Code |
| --- | --- |
| `conn` | the row of `connectors` (is there, `is_active`, its settings) and its `mcp_tools` |
| `source`, `doomed` | `setup_state` of the source; the sweep has read the draft |
| `scan`, `asked` | `status` of the `file_scans` rows; `startScan` requests past their check |
| `job` | the await of the worker in each scan, with what it read at its start |
| `act` | activation requests: the prefix they name the tools with, the next statement, the next tool, the settings read |
| `edit` | requests that change the settings (`updateSource`, `setSelection`), with the settings they have read |

Settings are the set of administrators' changes they contain, so an older copy written
back lacks some. `AskScan` and `StartScan` are `startScan`'s read and write,
`ReadSettings` and `Edit` those of a change of the settings, `Redescribe` and
`CancelScan` the other requests. `BeginActivate` to `ActivateSource` are the
statements of `activate`, `Refuse` its unique-name error, which two activations meet
only when they name their tools alike. `FailStale` and `Pick` are the scheduler's
survey and `pickScans`, `Start` to `Finish` the job: `Look` is the listing's look for a
cancel, before every 20th folder, `Listed` the end of the listing, which does not look;
`Redraft` is the second description. `SweepReads` and `SweepDeletes` are the read and the deletion of old
drafts. Ages are left out: a scan may count as 15 minutes old at once, a draft as 7
days old. One worker process runs scans, which is how the cloud deployment starts it
(`docker-compose.cloud.yml`); several jobs of it may run side by side up to `Slots`.

### FileShare

`stored` is what the object store holds; `rows`, `expired`, `revoked`, `purged` are
the rows of `file_shares` and their three times; `making`, `revoking`, `todo` and
`deleted` are the requests and sweeps in progress. Every link is one create request
and one unit of storage. `Check`, `Put`, `CreateRow`, `Undo` are `create`;
`RevokeRow`, `RevokeFile`, `RevokeMark` are `revoke`; `Survey`, `SweepFile`,
`SweepMark` are the sweep, by any number of workers. Failures are counted in two
sorts: `slips` are those after which the code leaves a file behind, `hiccups` the
others. Which failure is which is a claim about the code, and `OrphansCounted`
checks it. A request ends `done`, with the link for its maker, or `failed`; a failed
put leaves nothing, or its file, whole or in part.

### TokenRefresh

A token is `[fam, gen]`: the authorization it descends from and the rotations since.
The provider accepts the newest token of each authorization (`accepted`) until access
is withdrawn.

| State | Code |
| --- | --- |
| `tok`, `ref` | the refresh token in `connectors.auth_config`; `auth_status_ref` of a row marked `needs_reauth` |
| `cache`, `refused` | `tokenCache` and `refused` of each process |
| `pc`, `sent`, `pending`, `saved` | the await of the renewal, the token it asked with, and its `PendingRotation` |
| `tx`, `lock` | its transaction, and the advisory lock the transaction holds |
| `admin` | what is left of storing a new authorization |

A write in an open transaction holds the lock of the row until `Finish`, and every
write from another connection waits for it: also the process's own (`ClearWaits`).
`Timeout` is the end of a transaction after 30 seconds; the callback goes on in it
and fails at its next statement. `Authorize` is `updateAuthConfigMerge` with new
tokens, as one step. `Begin` may run without the lock when no connection
is to be had. Faults come in six kinds, each at most once in a behaviour.

### TokenChain

`stored` is the token of the connector, `heirs` the tokens obtained and still to be
stored. The refinement maps them to `tok` and to what the processes that have rotated a
token and not finished with it hold (`Keeps`). A rotation obtains a token, also one of an
authorization that has been replaced meanwhile; the commit, a write without a lock and the
second write store one; a crash, or a second write that fails, loses one. A lost answer is
a stutter: the token never reached a process.

## 3. The runs

| Run | Instance | Shows | Distinct states |
| --- | --- | --- | --- |
| `FilesLease_stop` | 2 workers, 2 sources of one workspace, 1 failing statement, graceful stops, slices that outlast `STOP_WAIT_MS` | `OneLivePerWorkspace`, `LeasesAccounted`, `RunningHoldsLease`; `TakesTurns`: implements `WorkspaceTurns` | 44 thousand |
| `FilesLease_live` | 2 workers with one slot, 3 sources, 2 workspaces, crashes, fairness | `TypeOK`, `OneRunPerWorkspace`, `WithinConcurrency`, `DueIsClaimed` | 30 thousand |
| `FilesLease_handover` | 2 workers with two slots, 3 sources, 2 workspaces, graceful stops | violates `OneRunPerWorkspace` | |
| `FileSync_pause` | 2 administrator actions, 3 outages of server or extractor, 1 crash | `TypeOK`, `PauseIsKept`, `QuotaToldOnce` | 3.9 million |
| `FileSync_drain` | one administrator action, licence changes, a text limit, one failure of each kind, one crash, fairness | `RunRowClosed`, `ContinuationReopens`, `SelectionIsListed`, `SyncingIsContinued`, `Drains` | 1.4 million |
| `FileSync_purge` | a licence that lapses, fairness | violates `LicencePurge` | |
| `FileIndex_files` | two readable contents and one of each other kind, 2 changes, a file that outgrows the plan, 2 failing downloads, 2 failing extractions, 1 slice cut short | `TypeOK`, `IndexedReadable`, `InSync`, `CountsText`, `ByNameOnly`, `ThreeAttempts` | 2.7 million |
| `FileIndex_hash` | the same without failures | violates `IndexedHasText` | |
| `FileSetup` | 2 tools, 2 prefixes, 2 scans, one look for a cancel, 1 slot, 2 activations and 2 edits, 3 of these and second descriptions together, 1 failure or crash, fairness | `TypeOK`, `CancelStops`, `ActiveIsKept`, `SourceHasTools`, `FailedStays`, `EditsKept`, `ScanEnds` | 631 thousand |
| `FileShare` | 3 links: one of the connector, one without expiry, one that cannot be deleted; room for one file, 2 requests at a time, sweeps of 2, 1 worker, 2 failures, fairness | `TypeOK`, `OrphansCounted`, `WorkingHasFile`, `QuotaHolds`, `FilesGo` | 775 thousand |
| `TokenRefresh_faults` | 2 processes, one new authorization, one rotation of each, one fault of any kind, fairness | `TypeOK`, `TokenKept`, `BlockedRightly`, `SpentOnce`, `RenewalsEnd`; `RenewalsAreChained`: implements `TokenChain` | 538 thousand |
| `TokenRefresh_spent` | 2 processes, no faults, 2 rotations | violates `NeverSpentTwice` | |

Why the bounds suffice. Leases: two workers and two sources of a workspace are
the smallest instance with a conflict; a third source in another workspace makes
slots and the choice between workspaces matter. A lease of 3 intervals with one
failing statement has the margin of the code's 5 intervals (10 minutes against 2)
that the proof needs: fewer failures than `LeaseTerm - 1`. Sync: two files in
batches of one give a first and a later slice, an empty queue and a remainder;
two administrator actions allow a pause and a request acting on an older reading
of the source in one slice, and three failures put a source into `paused_error`. Index:
two contents let a file change and change back, which is what the hash decides;
four failing attempts around one change are more than `MAX_ATTEMPTS`. Setup: two
activations meet between any two of their statements, two tools let one of them be
half through, two scans are one queued next to one that runs, and two edits
undo each other. Share: two requests
pass the limit of one file together, and one file that cannot be deleted comes back
in sweeps of two. Tokens: two processes are the two halves of a deploy; one rotation
of the first authorization and one of a second allow a token to be spent, refused,
stored late and overwritten.

What a property assumes beyond its module. `PauseIsKept` needs that no text limit hits
the slice in which the pause comes, `OneRunPerWorkspace` that no worker is stopped in the
middle of a tick, `DueIsClaimed` that no statement fails; the constants of their runs say
so. The other conditions are part of the properties: nothing but processes has failed
(`Unfailing` of `PauseIsKept`), no `syncNow` that found the source paused is under
way (`ghost.order`), no slice ended between the two transactions of a changed file
(`budget.torn` of `ByNameOnly`), no statement of the lease protocol has failed
(`LeasesAccounted`), the worker does not skip the source (`Drains`), the file has always been readable (`budget.clean` of
`InSync`, `IndexedReadable`, `CountsText`), no slice was cut short (`ThreeAttempts`),
and the faults named in `TokenKept`, `SpentOnce` and `SourceHasTools`. Section 6 says what happens otherwise.

Deadlock is checked for `FilesLease` and `FileIndex`. In `FileSync` a source that
an administrator paused rests until somebody resumes it; in `FileSetup`, `FileShare`
and `TokenRefresh` requests, scans, links and rotations are bounded, and a behaviour
ends when they are used up. Those runs allow deadlock; that nothing hangs before is
what `Drains`, `ScanEnds`, `FilesGo` and `RenewalsEnd` check.

### Fairness

`FilesLease`: the loop ticks every `TICK_MS`, a slice is bounded by its time and
file limits, every statement is answered or fails, timers fire: weak fairness of
`Start`, `Tick`, `EndSlice`, releases and renewals. Time (`Advance`) is only
ever put off by a claim or a renewal in progress, so it is strongly fair.
Nothing is assumed about becoming due, stops and crashes, except that one worker
is left (`Replaceable`): the container's restart policy.

`FileSync`: weak fairness of the claim (which is what `DueIsClaimed` provides while no statement
fails; after a release that failed the claim is not enabled until a restart), of
the slice's own steps, of the expiry of a dead worker's lease, of the restart of
the worker, of the coming of `next_sync_at` and of the sweep. Administrators, the
licence and failures are not fair.

`FileSetup`: weak fairness of the worker in each scan (it ticks, and what it awaits
ends). Administrators, activations, failures and the sweep of drafts are not fair.

`FileShare`: weak fairness of every request already begun and of the sweep of every
worker, which its timer starts every 10 minutes. Nothing makes a link expire.

`TokenRefresh`: weak fairness of the steps of a renewal, and of the timeout of a
transaction that waits for a lock. A renewal that does not wait is not assumed to
time out, and nobody is assumed to start one.

## 4. The proofs

Checked by TLAPS for every value of the constants that satisfies the named
assumption of the module.

| Theorem | States |
| --- | --- |
| `FilesLeaseProofs!TypeCorrect` | `[]TypeOK` |
| `FilesLeaseProofs!OneLiveLease` | `[]OneLivePerWorkspace`, if `MaxFaults + 1 < LeaseTerm` |
| `FilesLeaseProofs!SliceHoldsLease` | `[]RunningHoldsLease`, under the same bound |
| `FilesLeaseProofs!SlicesMeetOnlyAtStop` | under the same bound and with graceful stops: two slices of a workspace run at once only when a worker that runs one of them is releasing its leases |
| `FilesLeaseProofs!OneSlicePerWorkspace` | `[]OneRunPerWorkspace`, under the same bound and without graceful stops |
| `FilesLeaseProofs!LeasesAreTurns` | `TakesTurns`, that is `WorkspaceTurns!Spec`, under the same bound, graceful stops included |
| `FilesLeaseProofs!WorkerKnowsItsLeases` | `[]LeasesAccounted` |
| `FilesLeaseProofs!ConcurrencyRespected` | `[]WithinConcurrency` |
| `WorkspaceTurnsProofs!TurnsExclude` | of the abstract specification: two sources of a workspace never have their turn at once |
| `FileSyncProofs!TypeCorrect` | `[]TypeOK` |
| `FileSyncProofs!SyncingContinues` | `[]SyncingIsContinued` |
| `FileSyncProofs!PauseStays` | `[]PauseIsKept`, if there is no text limit |
| `FileSyncProofs!RowsAreClosed` | `[]RunRowClosed` |
| `FileSyncProofs!ContinuationFindsItsRun` | `[]ContinuationReopens` |
| `FileSyncProofs!SelectionListed` | `[]SelectionIsListed` |
| `FileSyncProofs!OneQuotaMail` | `[]QuotaToldOnce`, if there is no text limit |
| `FileIndexProofs!TypeCorrect` | `[]TypeOK` |
| `FileIndexProofs!NamesOnly` | `[]ByNameOnly` |
| `FileIndexProofs!ReadableIsFound` | `[]IndexedReadable` |
| `FileIndexProofs!IndexedText` | `[]InSync` |
| `FileIndexProofs!CountedText` | `[]CountsText` |
| `FileIndexProofs!TriedThrice` | `[]ThreeAttempts` |
| `FileSetupProofs!TypeCorrect` | `[]TypeOK`, the limit of the slots included |
| `FileSetupProofs!CancelsHold` | `[]CancelStops` |
| `FileSetupProofs!ActiveConnectorsStay` | `[]ActiveIsKept` |
| `FileSetupProofs!FailedScansStay` | `FailedStays` (an action property) |
| `FileSetupProofs!ToolsAreComplete` | `[]SourceHasTools` |
| `FileSetupProofs!EditsStay` | `EditsKept` (an action property) |
| `FileShareProofs!TypeCorrect` | `[]TypeOK` |
| `FileShareProofs!LinksHaveFiles` | `[]WorkingHasFile` |
| `FileShareProofs!LimitHolds` | `[]QuotaHolds` |
| `FileShareProofs!OrphansHaveCauses` | `[]OrphansCounted` |
| `TokenRefreshProofs!TypeCorrect` | `[]TypeOK` |
| `TokenRefreshProofs!RefusalsAreReal` | `[]BlockedRightly` |
| `TokenRefreshProofs!NoTokenSpentTwice` | `[]SpentOnce` |
| `TokenRefreshProofs!TokensMoveForward` | `NeverOlder`: within one authorization the stored token is never replaced by an older one, under all faults |
| `TokenRefreshProofs!RotationKeepsToken` | `[]TokenKept` |
| `TokenRefreshProofs!RenewalsFollowChain` | `RenewalsAreChained`, that is `TokenChain!Spec`, under all faults |

*Leases.* `OneLivePerWorkspace` is not inductive: `Renew` could make a second
lease of the workspace live when the renewed one had expired. `LeaseInv` adds how
much of a lease is left: as many intervals as renewals did not fail, one less
while a renewal is owed (`LeaseMargin`); and that a worker which is not releasing its
leases owns those of its slices (`SlicesOwned`). With the bound on failures a
renewed lease was therefore still live. The same margin makes a renewal a stutter
of `WorkspaceTurns`; a claim becomes a turn because the workspace had no live lease,
every other change of a lease the end of one. That turns exclude each other is proved
of the abstract specification alone. With graceful stops slices may meet (run
`FilesLease_handover`); `SlicesMeetOnlyAtStop` says that this is the only way, and
`OneSlicePerWorkspace` follows from it. `LeasesAccounted` is inductive with
`OffOwnsNothing`: a process that has not started owns no lease, because no worker id is
used twice. For the concurrency, `SlotsLeft` counts the slots a tick has left together
with the slices a worker has claimed, runs or releases (`Taken`): a claim turns one into
the other, and a slice that ends meanwhile only makes room.

*Sync.* `SyncingIsContinued` says nothing of a slice in progress; `DueInv` says
that a source in `syncing` is always due, and that a slice which has not listed
yet has not moved the schedule. `PauseInv` says where the slice can be after a
pause that came between slices (on its way out) or during the queue (before its
last read, or after having read the pause); it holds as long as nothing but
processes has failed, and a failure is never forgotten (`FailuresCounted`).
The next three hold as long as no statement has failed and no worker has died.
`RowInv` says at which awaits the row of the history may say running (`RowOpen`, which
includes the e-mail of a text quota, sent in the middle of a batch). `PartialInv`
follows the marker of an unfinished sync together with the state `syncing`, in the row
and in the slice's copy of it: the marker alone outlives a pause and proves nothing, and
`Unsynced` says where the slice has left `syncing` behind. `EditedInv` says where a slice
can be while a changed selection waits for its listing, which is before the queue, and
that no copy of the source it holds is still `syncing`. `MailInv` says that
`pause_notified_at` remembers the e-mail about the quota until a listing fits or the
licence comes back, and that the copy a slice acts on is not older than the last e-mail.
With a text limit the promise does not hold: every file of
a batch that does not fit sends the e-mail again (section 6), hence the assumption.

*Index.* `IndexInv` is the type together with the bound on attempts at each await
and the kind of content in the buffer. For the three properties of readable files
the invariant `SyncInv` says that the hash of a row with text names that text, and that a
row which is not pending has been worked off with the stamp the walk saw. For
`CountedText` it also shows that such a file never comes to the deletion of its chunks
(`NeverDrops`), which is where the count of other files goes wrong. For `TriedThrice`,
`CountKept` says that the row never counts less than the attempts made, and that
no listing meets a failed row.

*Setup.* `ScanInv` says that a job belongs to a scan that is not settled, and that
the job of a heeded cancel is still listing and has a look left, so it sees the cancel.
For the tools, `ToolInv` says that the activations under way share one prefix, and that
every tool of it that is missing, once the old ones are deleted, is
*covered* by an activation which is about to create it and meets no tool on its way
there: two activations cannot refuse each other and leave a gap, because the one
that is refused met a tool of the other. Covering is stated by the tools between
the one an activation is at and the missing one, which makes it inductive without
an induction over the tools.

*Share.* `StageInv` says what each stage of a request, a revoke and a sweep has
behind it. `LimitInv` counts working links and requests past their check together,
because writing a row turns one into the other. `LostInv` counts as lost what
`Forgotten` counts and what a revoke is about to mark although it could not delete
it: the slip happens with the failing delete, the file is forgotten only with the
mark.

*Tokens.* `RefusalInv` says that no process and no row knows a generation newer than
the one the provider accepts, so that a refused token is never issued again. `CalmInv`
says that, while nothing has failed, a process past the lock holds it (`Alone`), that
it asks with an accepted token, and that a token not yet stored is in the hands of
the holder of the lock.

`TokensMoveForward` and `RotationKeepsToken` rest on the course of one renewal, process by
process (`Way`): which transaction, lock, rotation and past faults belong to each await.
`OnlyKeeper` then says, under all faults, that a process which has rotated a token and
still has to store it (`Keeps`) is the only one that knows it, that nobody else keeps one
of the same authorization, and that the row is behind it: a write can therefore only move
the row forward. It needs that the provider accepts one token of an authorization at most
(`OneAccepted`, from `RefusalInv`) and none of a withdrawn one (`RevokedInv`).
`TokenKept` adds `Inherited`: the row's token is good, or its heir is with its keeper. Only
the faults `TokenKept` names make a keeper lose its token (`KeptOrWritten`). With the same
invariant every step maps to one of `TokenChain`: because no two processes keep a token of
one authorization, what one of them stores or loses is gone from the heirs, and what
another one obtains has no older heir beside it (`RenewalsFollowChain`).

Only model-checked: the liveness properties `DueIsClaimed`, `Drains`, `ScanEnds`, `FilesGo`
and `RenewalsEnd`, which the prover cannot reach. Every invariant and every action
property of a passing run is proved. `NeverOlder` has no run: an older token can only come
back after two rotations of one authorization, an instance too large to check together
with `RenewalsEnd`. `RenewalsAreChained`, which has one, does not need two: a token that
is stored a second time is a step that `TokenChain` does not have.

## 5. What is not modelled

- `createDraft` and its plan limit, the count of manual syncs, the servers a
  connector is put on, the deletion of a connector other than by the sweep,
  deactivated connectors, changes of the schedule.
- Counters, reasons and statistics other than the marker of an unfinished sync
  and the failure count; wording of e-mails.
- Changes of the connector's settings without tokens beside a renewal: they write back
  the whole `auth_config` they have read (`connectors.service.ts:275-287`), and so may
  put an older refresh token in the place of a rotated one.
- Several `syncNow` or `setSelection` requests at once; an activation or an edit that
  reads and writes on one source several times.
- Row-level security and tenants beyond the workspace of a source.
- Several files of one source at once: `FileSync` counts them, `FileIndex` has
  one. That a file at the head of the queue holds up the others is in neither.
- The back-pressure between files, which only delays.
- What a scan finds: tree, samples and description. Ages of scans and drafts.
- Downloads of shared files and their counter, and the links a connector may make
  in a day.
- Grants without a refresh token, the tokens of single users, the login, bearer,
  TikTok and Shopee token services, which have locks of their own.
- All components with status `not_modelled` in `PROJECT.json`, with the reason.
  Most of the backend's code, and all of its frontend, command line and catalogue,
  reads, translates or renders: it has no state whose steps interleave, and a model
  of it would restate it.

## 6. Where code and documentation disagree

Shown by a run that violates the quoted promise:

- `FilesLease_handover`: a tick in progress while `stop()` releases the leases
  starts its slice afterwards (`scheduler.ts:139`), beside the next worker's.
- `FileSync_purge`: the daily check of a source paused for its licence renews
  `paused_at` (`sync-runner.ts:507`), so the index is not removed after 30 days.
- `FileIndex_hash`: a file found by name only, touched without a change of
  content, is marked indexed without text (`sync-runner.ts:384`).
- `TokenRefresh_spent`: a renewal that clears a recorded refusal writes the row of
  the connector on another connection (`oauth2-token.service.ts:633`) than the
  transaction that has just written it, and waits for itself until the transaction
  times out. The rotated token is rolled back with it, and another process may ask
  with the token that is spent before it is stored again.

Seen while modelling, and the reason for a precondition of a property, without a
run of its own:

- A worker keeps a workspace in its map of leases when a release failed
  (`scheduler.ts:248`), and skips the workspace until it restarts; a claim whose answer
  is lost (`scheduler.ts:203`) leaves a lease that `stop()` does not release; a slice whose
  renewals all failed goes on beside another worker's (`scheduler.ts:255`).
- A pause that comes while a slice is starting, listing or failing is overwritten
  from the slice's old copy of the source (`sync-runner.ts:137`, `:355`); a `syncNow`
  that read a source paused for its quota or an error writes `active` over a pause that
  came after its reading (`file-search.service.ts:490`, `:511`).
- `notifier.ts:7` says that the e-mail goes out once per pause. Only the pause for the
  quota remembers that it was told. The e-mail of a licence pause is sent by every daily
  check (`sync-runner.ts:109`), that of a source paused for its connection by every check
  that fails again (`:158-172`); and because `resume` and `activate` do not clear
  `pause_notified_at`, a second pause for the quota may go untold when no listing has
  fitted in between. Every file of a batch that does not fit sends the e-mail of a text quota, by every file of the batch that does not fit: the pause
  of `processOne` passes `null` for `pauseNotifiedAt` and the batch goes on (`:408`). The
  proof of `OneQuotaMail` needs the absence of a text limit for this reason; with
  batches of one file TLC finds nothing.
- A sync requested while a slice runs is rescheduled away when the slice ends
  (`sync-runner.ts:332`); a selection changed during an unfinished sync is listed
  only when its queue is empty (`sync-runner.ts:122`).
- A worker that restarts before the dead worker's lease has expired leaves that
  run on running (`files-worker.service.ts:71`).
- A run that ends early leaves a file failed, and the next listing gives it new
  attempts (`sync-runner.ts:196`); a file given up keeps the text of an earlier
  version, which searches go on finding (`file-search-query.service.ts:110-120` does not
  look at the status) although `sync-runner.ts:458` says "found by name only"; a slice that
  ends between the row and the chunks of a changed file leaves the old text for good
  (`:269-272`); one that outgrows the plan keeps its `textChars` (`:272`);
  a folder that could not be listed loses its files (`:237`).
- A cancel between the claim of a scan and its first write, or after the last look of
  its listing, is overwritten (`scan-runner.ts:55`, `:205`). The listing looks before
  every 20th folder and not at its end (`walk.ts:40-43`), so a scan of up to 20 folders
  looks once, before the first.
- Two changes of the settings at once undo each other (`file-search.service.ts:228-232`,
  `:328-335`).
- A scan of a draft that ends after the activation overwrites the settings of the
  connector that is active now (`scan-runner.ts:185`), and a
  later scan of a draft unticks the archive folders again when the administrator has
  ticked all of them, although the comment speaks of the first scan.
- An activation that fails half way, or is killed, leaves a connector without some
  of its tools, active or not (`file-search.service.ts:399`). Two at once with different
  prefixes (`:376`) meet no unique name: both succeed, and either may have deleted tools
  of the other.
- With two workers, the second description of an old scan is failed at once by the
  survey of the worker that does not run it: the 15 minutes count from the creation
  of the scan (`scheduler.ts:158`). The deployments start one worker.
- Files that cannot be deleted come back in every sweep and can fill its 200 rows
  (`file-share.service.ts:416`); a revoke whose delete failed marks the file as
  deleted (`:386`). A put that fails after it has written something leaves a file
  nobody deletes, as it is outside the try block (`:209`); a row whose answer is lost
  works without its file, which the clean-up deletes (`:239-241`).
- A process that was refused itself keeps refusing the calls for up to 10 minutes,
  although another process has stored a token that is accepted
  (`oauth2-token.service.ts:685`).
- `forget()` (`oauth2-token.service.ts:745`) does not stop a renewal in flight, which
  stores its token over that of a new authorization when it ends.

## 7. Plan

1. Proofs: the safety half of the liveness properties, that is, what a slice, a sweep or
   a renewal never goes back behind; an abstract specification of a link,
   with a refinement like those of `WorkspaceTurns` and `TokenChain`.
2. `FileQueue`: several files of one source in a batch, the extractor going down
   and coming back; liveness: every readable file is indexed in the end.
3. `OneTimeCode` (authorization codes and refresh tokens of the OAuth server), the
   last-administrator rule, the leases of the two cron services.
