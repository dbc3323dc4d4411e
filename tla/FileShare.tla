----------------------------- MODULE FileShare -----------------------------
(***************************************************************************)
(* File Share (packages/backend/src/file-search/file-share.service.ts) in  *)
(* one workspace: links to stored files.  A request stores the file and    *)
(* then writes the link's row; a link ends when it expires or is revoked,  *)
(* and then its file goes: at once when it is revoked, and otherwise by    *)
(* the sweep the files workers run every 10 minutes.  Files and rows live  *)
(* in two stores that no transaction spans.                                *)
(*                                                                         *)
(* Every link stands for one create request.  Sizes are counted in files.  *)
(***************************************************************************)
EXTENDS Naturals, FiniteSets

CONSTANTS
    Links,         \* links, one create request each
    Workers,       \* files-worker processes that sweep
    FromConnector, \* links to a file of the connector (source = connector)
    Forever,       \* internal links without an expiry
    Undeletable,   \* links whose file the storage refuses to delete for good
    MaxStored,     \* the plan's maxStoredBytes
    MaxRequests,   \* create requests handled at the same time
    SweepLimit,    \* links one sweep takes (200)
    MaxFailures,   \* bound: failures
    None           \* no link

ASSUME ShareAssumption ==
    /\ IsFiniteSet(Links) /\ None \notin Links
    /\ FromConnector \subseteq Links /\ Forever \subseteq Links
    /\ Undeletable \subseteq Links
    /\ MaxStored \in Nat
    /\ MaxRequests \in Nat \ {0} /\ SweepLimit \in Nat \ {0}
    /\ MaxFailures \in Nat

VARIABLES
    stored,    \* links whose file the storage holds
    rows,      \* rows of file_shares
    expired,   \* rows past expires_at
    revoked,   \* rows with revoked_at
    purged,    \* rows with purged_at
    making,    \* the create request of a link
    revoking,  \* a revoke request of a link
    todo,      \* what the sweep of a worker has still to handle
    deleted,   \* the file the sweep has deleted and not marked yet
    connector, \* the workspace's File Search connector exists
    slips,     \* failures after which a file can be left without a row
    hiccups    \* other failures

vars == <<stored, rows, expired, revoked, purged, making, revoking,
          todo, deleted, connector, slips, hiccups>>

TypeOK ==
    /\ stored \in SUBSET Links /\ rows \in SUBSET Links
    /\ expired \in SUBSET Links
    /\ revoked \in SUBSET Links /\ purged \in SUBSET Links
    /\ making \in [Links -> {"new", "checked", "put", "undo", "done", "failed"}]
    /\ revoking \in [Links -> {"no", "delete", "mark"}]
    /\ todo \in [Workers -> {S \in SUBSET Links : Cardinality(S) <= SweepLimit}]
    /\ deleted \in [Workers -> Links \cup {None}]
    /\ connector \in BOOLEAN
    /\ slips \in 0 .. MaxFailures /\ hiccups \in 0 .. MaxFailures

Init ==
    /\ stored = {} /\ rows = {}
    /\ expired = {} /\ revoked = {} /\ purged = {}
    /\ making = [l \in Links |-> "new"]
    /\ revoking = [l \in Links |-> "no"]
    /\ todo = [w \in Workers |-> {}]
    /\ deleted = [w \in Workers |-> None]
    /\ connector = TRUE /\ slips = 0 /\ hiccups = 0

Fails  == slips + hiccups < MaxFailures
Slip   == Fails /\ slips' = slips + 1 /\ UNCHANGED hiccups
Hiccup == Fails /\ hiccups' = hiccups + 1 /\ UNCHANGED slips
NoFault == UNCHANGED <<slips, hiccups>>

-----------------------------------------------------------------------------
(* What the requests and the sweep read.                                   *)

\* Links whose files the plan's limit counts: the running ones, also those
\* without an expiry.
Stored_Expiring == (rows \ (revoked \cup purged \cup expired)) \ Forever
Stored == rows \ (revoked \cup purged \cup expired)

\* state() of a row: links that answer with their file.
Active == rows \ (revoked \cup purged \cup expired)

\* Requests between the check of the limits and their answer.
InFlight == {l \in Links : making[l] \in {"checked", "put", "undo"}}

\* Rows whose link is over and whose file has not been marked as deleted.
Ended_All == rows \ purged
Ended_Expired == (rows \cap expired) \ purged
Ended == (rows \cap (expired \cup revoked)) \ purged

\* An unordered SELECT with a LIMIT: any rows it may return.
Batches_Unlimited == {Ended}
Batches ==
    {S \in SUBSET Ended :
        Cardinality(S) = IF Cardinality(Ended) < SweepLimit
                           THEN Cardinality(Ended) ELSE SweepLimit}

-----------------------------------------------------------------------------
(* create                                                                  *)

Request(l, st) == making' = [making EXCEPT ![l] = st]

\* limits and usage.  Whatever else refuses a request (the plan, the size, the
\* links of the day) changes nothing, so the request is not made here.
Check(l) ==
    /\ making[l] = "new" /\ Cardinality(InFlight) < MaxRequests
    /\ connector \/ l \notin FromConnector
    /\ Cardinality(Stored) + 1 <= MaxStored
    /\ Request(l, "checked") /\ NoFault
    /\ UNCHANGED <<stored, rows, expired, revoked, purged, revoking,
                   todo, deleted, connector>>

\* storage.put.  A put that fails ends the request: it leaves nothing, or the
\* file, in part when the disk is full or whole when only the answer was lost.
Put(l) ==
    /\ making[l] = "checked"
    /\ \/ stored' = stored \cup {l} /\ Request(l, "put") /\ NoFault
       \/ UNCHANGED stored /\ Request(l, "failed") /\ NoFault
       \/ stored' = stored \cup {l} /\ Request(l, "failed") /\ Slip
    /\ UNCHANGED <<rows, expired, revoked, purged, revoking, todo,
                   deleted, connector>>

\* fileShare.create: refused once the connector of the file is gone, and it
\* may fail, also after the row was committed (the answer is lost).
CreateRow(l) ==
    /\ making[l] = "put"
    /\ \/ /\ connector \/ l \notin FromConnector
          /\ rows' = rows \cup {l}
          /\ \/ Request(l, "done") /\ NoFault
             \/ Request(l, "undo") /\ Slip
       \/ /\ \/ ~connector /\ l \in FromConnector /\ NoFault
             \/ Hiccup
          /\ Request(l, "undo") /\ UNCHANGED rows
    /\ UNCHANGED <<stored, expired, revoked, purged, revoking, todo, deleted,
                   connector>>

\* A row that could not be written takes its file with it.
Undone_Kept(l) == stored
Undone(l) == stored \ {l}

Undo(l) ==
    /\ making[l] = "undo" /\ Request(l, "failed")
    /\ \/ l \notin Undeletable /\ stored' = Undone(l) /\ NoFault
       \/ l \in Undeletable /\ UNCHANGED stored /\ NoFault
       \/ Slip /\ UNCHANGED stored
    /\ UNCHANGED <<rows, expired, revoked, purged, revoking, todo,
                   deleted, connector>>

\* The server process ends while it handles the request.
CreateCrash(l) ==
    /\ making[l] \in {"checked", "put", "undo"}
    /\ Request(l, "failed") /\ Slip
    /\ UNCHANGED <<stored, rows, expired, revoked, purged, revoking,
                   todo, deleted, connector>>

-----------------------------------------------------------------------------
(* revoke                                                                  *)

Revoking(l, st) == revoking' = [revoking EXCEPT ![l] = st]

\* The link is revoked first, ...  (A revoke of a link whose file is marked as
\* deleted changes nothing.)
RevokeRow(l) ==
    /\ revoking[l] = "no" /\ l \in rows \ purged
    /\ revoked' = revoked \cup {l} /\ Revoking(l, "delete") /\ NoFault
    /\ UNCHANGED <<stored, rows, expired, purged, making, todo,
                   deleted, connector>>

\* ... its file is deleted, which may fail without stopping the request, ...
RevokeFile(l) ==
    /\ revoking[l] = "delete" /\ Revoking(l, "mark")
    /\ \/ l \notin Undeletable /\ stored' = stored \ {l} /\ NoFault
       \/ l \in Undeletable /\ UNCHANGED stored /\ NoFault
       \/ Slip /\ UNCHANGED stored
    /\ UNCHANGED <<rows, expired, revoked, purged, making, todo,
                   deleted, connector>>

\* ... and the row is marked; the update fails when the row is gone.
RevokeMark(l) ==
    /\ revoking[l] = "mark" /\ Revoking(l, "no")
    /\ \/ purged' = purged \cup ({l} \cap rows) /\ NoFault
       \/ Hiccup /\ UNCHANGED purged
    /\ UNCHANGED <<stored, rows, expired, revoked, making, todo,
                   deleted, connector>>

RevokeCrash(l) ==
    /\ revoking[l] # "no" /\ Revoking(l, "no") /\ Hiccup
    /\ UNCHANGED <<stored, rows, expired, revoked, purged, making,
                   todo, deleted, connector>>

-----------------------------------------------------------------------------
(* The sweep of a worker                                                   *)

Idle(w) == todo[w] = {} /\ deleted[w] = None

\* Only workspaces with a File Search connector are swept.
Survey(w) ==
    /\ Idle(w) /\ connector /\ Ended # {}
    /\ \E S \in Batches : todo' = [todo EXCEPT ![w] = S]
    /\ NoFault
    /\ UNCHANGED <<stored, rows, expired, revoked, purged, making,
                   revoking, deleted, connector>>

\* Storage first: the row is marked once the file is gone.
MarksFirst_Always(w, l) == TRUE
MarksFirst(w, l) == FALSE

SweepFile(w, l) ==
    /\ deleted[w] = None /\ l \in todo[w]
    /\ todo' = [todo EXCEPT ![w] = @ \ {l}]
    /\ \/ /\ l \notin Undeletable /\ NoFault
          /\ stored' = stored \ {l} /\ deleted' = [deleted EXCEPT ![w] = l]
       \/ /\ (l \in Undeletable /\ NoFault) \/ Hiccup
          /\ UNCHANGED <<stored, deleted>>
    /\ purged' = IF MarksFirst(w, l) THEN purged \cup ({l} \cap rows) ELSE purged
    /\ UNCHANGED <<rows, expired, revoked, making, revoking, connector>>

SweepMark(w) ==
    /\ deleted[w] # None /\ deleted' = [deleted EXCEPT ![w] = None]
    /\ \/ purged' = purged \cup ({deleted[w]} \cap rows) /\ NoFault
       \/ Hiccup /\ UNCHANGED purged
    /\ UNCHANGED <<stored, rows, expired, revoked, making, revoking,
                   todo, connector>>

SweepCrash(w) ==
    /\ ~Idle(w) /\ Hiccup
    /\ todo' = [todo EXCEPT ![w] = {}]
    /\ deleted' = [deleted EXCEPT ![w] = None]
    /\ UNCHANGED <<stored, rows, expired, revoked, purged, making,
                   revoking, connector>>

-----------------------------------------------------------------------------
(* Time, and the connector                                                 *)

\* (That of a revoked link changes nothing.)
Expire(l) ==
    /\ l \in rows \ (Forever \cup expired \cup revoked)
    /\ expired' = expired \cup {l} /\ NoFault
    /\ UNCHANGED <<stored, rows, revoked, purged, making, revoking,
                   todo, deleted, connector>>

\* Deleting the connector deletes the rows of its links (onDelete: Cascade).
DropConnector ==
    /\ connector /\ connector' = FALSE
    /\ rows' = rows \ FromConnector
    /\ NoFault
    /\ UNCHANGED <<stored, expired, revoked, purged, making, revoking, todo,
                   deleted>>

Handle(l) ==
    \/ Put(l) \/ CreateRow(l) \/ Undo(l) \/ RevokeFile(l) \/ RevokeMark(l)

Sweep(w) == Survey(w) \/ SweepMark(w) \/ \E l \in Links : SweepFile(w, l)

Next ==
    \/ \E l \in Links :
          \/ Check(l) \/ Handle(l) \/ CreateCrash(l)
          \/ RevokeRow(l) \/ RevokeCrash(l) \/ Expire(l)
    \/ \E w \in Workers : Sweep(w) \/ SweepCrash(w)
    \/ DropConnector

Spec == Init /\ [][Next]_vars

\* A request that runs goes on; a worker that is up sweeps every 10 minutes.
FairSpec ==
    /\ Spec
    /\ \A l \in Links : WF_vars(Handle(l))
    /\ \A w \in Workers : WF_vars(Sweep(w))

-----------------------------------------------------------------------------
(* Properties.                                                             *)

\* Files that nothing will delete any more: their row is missing or already
\* marked, and no request and no sweep still has them in hand.  Those of a
\* deleted connector and those the storage refuses are counted apart.
Forgotten ==
    {l \in stored \ Undeletable :
        /\ l \notin rows \/ l \in purged
        /\ connector \/ l \notin FromConnector
        /\ making[l] \notin {"put", "undo"}
        /\ revoking[l] # "delete"
        /\ \A w \in Workers : l \notin todo[w]}

\* Files and rows part only where the code does not make up for a failure
\* (file-share.service.ts:209-242, 385-387, 420-428): a put that fails after it has
\* written something, which is outside of create's try block (209), a request
\* killed half way, a clean-up or the delete of a revoke that fails.  A row that
\* cannot be written, a revoke killed half way, a sweep killed or failing anywhere,
\* and a revoke racing a sweep, leave no file behind.
OrphansCounted == Cardinality(Forgotten) <= slips

\* A link somebody was given has its file as long as it works, whatever fails or is
\* killed and whatever revokes, clean-ups and sweeps run next to it
\* (file-share.service.ts:209-242 store the file before the row, and 414 takes only
\* links that are over).  A request that was answered by an error may have left a
\* row that works and has no file: its row was committed, only the answer was lost,
\* and the clean-up deleted the file (239-241).
WorkingHasFile == \A l \in Active : making[l] = "done" => l \in stored

\* Requests that check the limits together pass them by at most one less than
\* their number (file-share.service.ts:190-198 read the usage long before the
\* row is written).
QuotaHolds == Cardinality(Active) <= MaxStored + MaxRequests - 1

\* While the workspace has its connector, the file of a link that is over is
\* deleted in the end, by the revoke or by a sweep, even when a revoke or a
\* sweep dies half way and when some files can never be deleted, as long as
\* these do not fill a sweep (file-share.service.ts:410-431).  A revoke whose
\* delete failed marks the row all the same (386-387): its file stays.
FilesGo ==
    \A l \in Links \ Undeletable :
        (l \in (rows \cap stored) \ (Active \cup purged))
        ~> (l \notin stored \/ l \in purged \/ ~connector)

=============================================================================
