------------------------------ MODULE FileIndex ------------------------------
(***************************************************************************)
(* One file of a source: the file on the server, its row in file_entries   *)
(* and its text in file_chunks, through the listings and the queue of      *)
(* SyncRunner.run and processOne.                                          *)
(*                                                                         *)
(* Only the slice that holds the source's lease writes the row (FilesLease *)
(* and FileSync), so there is one slice; the file changes at any moment.   *)
(* Contents are members of small sets, told apart by what the extractor    *)
(* makes of them; a content stands for its own SHA-256 and for its text.   *)
(***************************************************************************)
EXTENDS Naturals

CONSTANTS
    Readable,     \* contents the extractor gets text from
    Locked,       \* ... that need a password
    Unsupported,  \* ... it cannot read
    Blank,        \* ... it reads and finds no text in
    None,
    MaxTries,     \* MAX_ATTEMPTS, 3 in the code
    MaxEdits,     \* bound: changes of the file
    Grows,        \* whether the file can outgrow the plan's file size
    MaxOutages,   \* bound: failing downloads and folder listings
    MaxUnread,    \* bound: failing extractions
    MaxCuts       \* bound: slices that end early (crash, quota, failure)

Texts == Readable \cup Locked \cup Unsupported \cup Blank

ASSUME IndexAssumption ==
    /\ None \notin Texts
    /\ Readable \cap (Locked \cup Unsupported \cup Blank) = {}
    /\ MaxTries \in Nat \ {0} /\ MaxEdits \in Nat
    /\ Grows \in BOOLEAN /\ MaxOutages \in Nat
    /\ MaxUnread \in Nat /\ MaxCuts \in Nat

VARIABLES
    disk,     \* the file on the server
    entry,    \* its row, with the chunks of it
    pc,       \* next await of the slice
    seen,     \* what the walk saw of the file
    copy,     \* the row as the batch read it
    buf,      \* the content downloaded
    misses,   \* failed attempts since the row last got a new stamp or a text
    moved,    \* whether the file changed since the walk
    budget    \* bounded steps left; clean: every content so far was readable
              \* and within the plan's file size, every extraction worked; torn:
              \* a slice ended between the two transactions of a changed file

vars == <<disk, entry, pc, seen, copy, buf, misses, moved, budget>>
memory == <<seen, copy, buf>>

Statuses == {"none", "pending", "indexed", "name_only", "skipped_size", "failed", "gave_up"}
Disk  == [there : BOOLEAN,
          stamp : 0 .. MaxEdits,      \* size and mtime, or the ETag
          text  : Texts,
          big   : BOOLEAN]            \* larger than the plan's file size
Entry == [status   : Statuses,        \* "none": no row
          stamp    : 0 .. MaxEdits,
          sha256   : Texts \cup {None},
          attempts : 0 .. MaxTries,
          chunks   : Readable \cup {None},
          counted  : Readable \cup {None}]   \* the text textChars counts
Steps == {"idle", "partial", "walk", "apply", "drop", "queue", "fetch", "compare", "extract",
          "store", "finish", "requeue"}

NoEntry == [status |-> "none", stamp |-> 0, sha256 |-> None, attempts |-> 0,
            chunks |-> None, counted |-> None]

TypeOK ==
    /\ disk \in Disk /\ entry \in Entry /\ copy \in Entry
    /\ pc \in Steps
    /\ seen \in [there : BOOLEAN, stamp : 0 .. MaxEdits, big : BOOLEAN]
    /\ buf \in Texts \cup {None}
    /\ misses \in 0 .. MaxTries + 1 /\ moved \in BOOLEAN
    /\ budget \in [edits : 0 .. MaxEdits, outages : 0 .. MaxOutages,
                    unread : 0 .. MaxUnread, cuts : 0 .. MaxCuts,
                    clean : BOOLEAN, torn : BOOLEAN]

NotSeen == [there |-> FALSE, stamp |-> 0, big |-> FALSE]

Init ==
    /\ disk \in [there : {TRUE}, stamp : {0}, text : Texts, big : {FALSE}]
    /\ entry = NoEntry /\ pc = "idle"
    /\ seen = NotSeen /\ copy = NoEntry /\ buf = None
    /\ misses = 0 /\ moved = FALSE
    /\ budget = [edits |-> MaxEdits, outages |-> MaxOutages,
                 unread |-> MaxUnread, cuts |-> MaxCuts,
                 clean |-> disk.text \in Readable, torn |-> FALSE]

-----------------------------------------------------------------------------
At(step)    == pc = step
Go(step)    == pc' = step
Spend(what) == budget[what] > 0 /\ budget' = [budget EXCEPT ![what] = @ - 1]
Missed      == misses' = IF misses > MaxTries THEN misses ELSE misses + 1

\* The server: a new content, size or both, or the file comes and goes.
Edit ==
    /\ budget.edits > 0
    /\ \E there \in BOOLEAN, text \in Texts, big \in {FALSE, Grows} :
          /\ disk' = [there |-> there, stamp |-> disk.stamp + 1, text |-> text, big |-> big]
          /\ budget' = [budget EXCEPT !.edits = @ - 1,
                                      !.clean = @ /\ text \in Readable /\ ~big]
    /\ moved' = TRUE
    /\ UNCHANGED <<entry, pc, memory, misses>>

-----------------------------------------------------------------------------
(* The listing.                                                            *)

\* A slice lists the source; one that follows an unfinished sync may continue
\* the queue instead.
Begin ==
    /\ \/ At("idle") /\ Go("walk")
       \/ At("partial") /\ Go("walk")
       \/ At("partial") /\ entry.status = "pending" /\ Go("queue")
    /\ UNCHANGED <<disk, entry, memory, misses, moved, budget>>

\* The walk sees the file as it is.
Walk ==
    /\ At("walk")
    /\ seen' = IF disk.there THEN [there |-> TRUE, stamp |-> disk.stamp, big |-> disk.big]
               ELSE NotSeen
    /\ moved' = FALSE /\ Go("apply")
    /\ UNCHANGED <<disk, entry, copy, buf, misses, budget>>

\* Its folder cannot be listed, or the walk ran out of time or entries.
WalkMisses ==
    /\ At("walk") /\ Spend("outages")
    /\ seen' = NotSeen
    /\ moved' = FALSE /\ Go("apply")
    /\ UNCHANGED <<disk, entry, copy, buf, misses>>

\* The listing's comparison with the row: kind = 'same'.
Unchanged_IgnoresStamp == entry.status # "failed"
Unchanged == seen.stamp = entry.stamp /\ entry.status # "failed"

Listed == IF seen.big THEN "skipped_size" ELSE "pending"

ApplyGone ==
    /\ At("apply") /\ ~seen.there
    /\ entry' = NoEntry /\ misses' = 0 /\ Go("queue")
    /\ UNCHANGED <<disk, memory, moved, budget>>

ApplyNew ==
    /\ At("apply") /\ seen.there /\ entry.status = "none"
    /\ entry' = [NoEntry EXCEPT !.status = Listed, !.stamp = seen.stamp]
    /\ misses' = 0 /\ Go("queue")
    /\ UNCHANGED <<disk, memory, moved, budget>>

ApplySame ==
    /\ At("apply") /\ seen.there /\ entry.status # "none" /\ Unchanged
    /\ Go("queue")
    /\ UNCHANGED <<disk, entry, memory, misses, moved, budget>>

\* Whether the listing deletes the chunks of a changed file, their textChars stay.
Drops_Always(status) == TRUE
Drops_Never(status) == FALSE
Drops(status) == status # "pending"

\* The row in one transaction ...
ApplyChanged ==
    /\ At("apply") /\ seen.there /\ entry.status # "none" /\ ~Unchanged
    /\ entry' = [entry EXCEPT !.status = Listed, !.stamp = seen.stamp, !.attempts = 0]
    /\ misses' = IF seen.stamp = entry.stamp THEN misses ELSE 0
    /\ Go(IF Drops(Listed) THEN "drop" ELSE "queue")
    /\ UNCHANGED <<disk, memory, moved, budget>>

\* ... and the chunks of a file that is not queued in another.
DropChunks ==
    /\ At("drop")
    /\ entry' = [entry EXCEPT !.chunks = None]
    /\ Go("queue")
    /\ UNCHANGED <<disk, memory, misses, moved, budget>>

-----------------------------------------------------------------------------
(* processOne.                                                             *)

Take ==
    /\ At("queue") /\ entry.status = "pending"
    /\ copy' = entry /\ Go("fetch")
    /\ UNCHANGED <<disk, entry, seen, buf, misses, moved, budget>>

QueueEmpty ==
    /\ At("queue") /\ entry.status # "pending"
    /\ Go("finish")
    /\ UNCHANGED <<disk, entry, memory, misses, moved, budget>>

\* markFailed of the copy e; a hash is kept when the file is given up.
KeepsHash(attempts) == attempts >= MaxTries

FailedAs_Late(attempts) == IF attempts > MaxTries THEN "gave_up" ELSE "failed"
FailedAs(attempts) == IF attempts >= MaxTries THEN "gave_up" ELSE "failed"

MarkFailed(e, hash) ==
    LET attempts == e.attempts + 1
    IN  entry' = [entry EXCEPT
                     !.attempts = attempts,
                     !.status = FailedAs(attempts),
                     !.sha256 = IF hash # None /\ KeepsHash(attempts) THEN hash ELSE @]

Download ==
    /\ At("fetch") /\ disk.there /\ ~disk.big
    /\ buf' = disk.text /\ Go("compare")
    /\ UNCHANGED <<disk, entry, seen, copy, misses, moved, budget>>

\* The server fails, or the file is gone or larger than when it was listed.
DownloadFails ==
    /\ At("fetch")
    /\ \/ (~disk.there \/ disk.big) /\ UNCHANGED budget
       \/ disk.there /\ Spend("outages")
    /\ MarkFailed(copy, None) /\ Missed /\ Go("queue")
    /\ UNCHANGED <<disk, memory, moved>>

\* The content the row's sha256 names needs no extraction.
Identical ==
    /\ At("compare") /\ buf = copy.sha256
    /\ entry' = [entry EXCEPT !.status = "indexed", !.attempts = 0]
    /\ misses' = 0 /\ Go("queue")
    /\ UNCHANGED <<disk, memory, moved, budget>>

Different ==
    /\ At("compare") /\ buf # copy.sha256
    /\ Go("extract")
    /\ UNCHANGED <<disk, entry, memory, misses, moved, budget>>

ExtractNothing ==
    /\ At("extract") /\ buf \in Unsupported
    /\ entry' = [entry EXCEPT !.status = "name_only", !.sha256 = buf,
                              !.chunks = None, !.counted = None]
    /\ misses' = 0 /\ Go("queue")
    /\ UNCHANGED <<disk, memory, moved, budget>>

ExtractLocked ==
    /\ At("extract") /\ buf \in Locked
    /\ MarkFailed([copy EXCEPT !.attempts = MaxTries - 1], buf)
    /\ Missed /\ Go("queue")
    /\ UNCHANGED <<disk, memory, moved, budget>>

ExtractFails ==
    /\ At("extract") /\ budget.unread > 0
    /\ budget' = [budget EXCEPT !.unread = @ - 1, !.clean = FALSE]
    /\ MarkFailed(copy, buf) /\ Missed /\ Go("queue")
    /\ UNCHANGED <<disk, memory, moved>>

Extract ==
    /\ At("extract") /\ buf \in Readable \cup Blank
    /\ Go("store")
    /\ UNCHANGED <<disk, entry, memory, misses, moved, budget>>

\* Chunks and row in one transaction.
Store ==
    /\ At("store")
    /\ entry' = [entry EXCEPT
           !.status = IF buf \in Readable THEN "indexed" ELSE "name_only",
           !.sha256 = buf, !.attempts = 0,
           !.chunks = IF buf \in Readable THEN buf ELSE None,
           !.counted = IF buf \in Readable THEN buf ELSE None]
    /\ misses' = 0 /\ Go("queue")
    /\ UNCHANGED <<disk, memory, moved, budget>>

-----------------------------------------------------------------------------
(* The end of a slice.                                                     *)

\* The run succeeded: file_sync_runs says so ...
Finish ==
    /\ At("finish")
    /\ Go("requeue")
    /\ UNCHANGED <<disk, entry, memory, misses, moved, budget>>

\* ... and failed files are queued again, to be retried by the next runs.
Requeued_Fresh(e) == [e EXCEPT !.status = "pending", !.attempts = 0]
Requeued(e) == [e EXCEPT !.status = "pending"]

Requeue ==
    /\ At("requeue")
    /\ entry' = IF entry.status = "failed" THEN Requeued(entry) ELSE entry
    /\ Go("idle")
    /\ UNCHANGED <<disk, memory, misses, moved, budget>>

\* The slice ends anywhere without success: the worker dies, the plan's limits
\* pause the source, a statement or the extractor fails, other files are next.
Cut ==
    /\ pc \notin {"idle", "partial"} /\ budget.cuts > 0
    /\ budget' = [budget EXCEPT !.cuts = @ - 1, !.torn = @ \/ pc = "drop"]
    /\ Go("partial")
    /\ UNCHANGED <<disk, entry, memory, misses, moved>>

-----------------------------------------------------------------------------
Listing ==
    \/ Begin \/ Walk \/ WalkMisses
    \/ ApplyGone \/ ApplyNew \/ ApplySame \/ ApplyChanged \/ DropChunks

ProcessOne ==
    \/ Take \/ QueueEmpty \/ Download \/ DownloadFails \/ Identical \/ Different
    \/ ExtractNothing \/ ExtractLocked \/ ExtractFails \/ Extract \/ Store

Next == Edit \/ Listing \/ ProcessOne \/ Finish \/ Requeue \/ Cut

Spec == Init /\ [][Next]_vars

-----------------------------------------------------------------------------
(* Properties.                                                             *)

\* A file marked indexed is findable by the text its sha256 stands for.
IndexedHasText == entry.status = "indexed" => entry.chunks = entry.sha256

\* The same for a file that has always been readable and within the plan's file
\* size: with failing downloads and listings and slices cut short, its row and
\* its chunks still change together (sync-runner.ts:382-386, 419-440).
IndexedReadable == budget.clean => IndexedHasText

\* A file that is found by name only has no text in the index: neither one
\* too large now nor one without readable text answers with an older text, once
\* the listing has deleted the chunks of a row it took from the queue.  Needs
\* that no slice ended between these two (sync-runner.ts:269-272): the next
\* listing finds the row unchanged and leaves its chunks.  (A file given up
\* keeps its older text, markFailed leaves the chunks, although its message says
\* "found by name only".)
ByNameOnly ==
    ~budget.torn /\ pc # "drop" =>
        (entry.status \in {"name_only", "skipped_size", "none"} => entry.chunks = None)

\* When a run has worked off its queue, what is marked indexed is the file as
\* the listing found it, unless the file changed during the run
\* (sync-runner.ts:190-197, 281-306).
InSync ==
    budget.clean /\ pc = "finish" /\ ~moved /\ entry.status = "indexed" =>
        disk.there /\ entry.chunks = disk.text

\* "A file that cannot be read ... after three failures ... stays findable by
\* name until it changes": at most three attempts are made for one version,
\* as long as no slice is cut short.
ThreeAttempts == budget.cuts = MaxCuts => misses <= MaxTries

\* textChars, whose sum the plan's text limit bounds, counts the text that is in
\* the index: replacing a text adjusts both, in one transaction.  (Not so for a
\* file that outgrows the plan's file size, whose chunks go alone.)
CountsText == budget.clean => entry.counted = entry.chunks
=============================================================================
