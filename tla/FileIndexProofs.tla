--------------------------- MODULE FileIndexProofs ---------------------------
(***************************************************************************)
(* Theorems about FileIndex, for every set of contents and every bound.    *)
(***************************************************************************)
EXTENDS FileIndex, TLAPS

(***************************************************************************)
(* The type invariant alone is not inductive: attempts grows by one at     *)
(* each failure and stays within MaxTries because a file at its last       *)
(* attempt is given up and never queued with its count, and because the    *)
(* copy of the row that processOne works on was queued when it was read.   *)
(***************************************************************************)
Busy == {"fetch", "compare", "extract", "store"}

AttemptsLeft == entry.status \in {"pending", "failed"} => entry.attempts < MaxTries
CopyLeft == pc \in Busy => copy.attempts < MaxTries
Buffered == pc \in {"compare", "extract", "store"} => buf \in Texts
Edits == disk.stamp + budget.edits = MaxEdits

-----------------------------------------------------------------------------
(* What the updates of the row and of the budget are.                      *)

Budget == [edits : 0 .. MaxEdits, outages : 0 .. MaxOutages,
           unread : 0 .. MaxUnread, cuts : 0 .. MaxCuts,
           clean : BOOLEAN, torn : BOOLEAN]
Seen == [there : BOOLEAN, stamp : 0 .. MaxEdits, big : BOOLEAN]

Typed ==
    /\ disk \in Disk /\ entry \in Entry /\ copy \in Entry /\ pc \in Steps
    /\ seen \in Seen /\ buf \in Texts \cup {None}
    /\ misses \in 0 .. MaxTries + 1 /\ moved \in BOOLEAN
    /\ budget \in Budget

IndexInv == Typed /\ AttemptsLeft /\ CopyLeft /\ Buffered /\ Edits

LEMMA TypedType == Typed <=> TypeOK
BY DEF Typed, TypeOK, Budget, Seen

LEMMA SpendType ==
    ASSUME budget \in Budget, Spend("outages")
    PROVE  /\ budget' \in Budget /\ budget'.edits = budget.edits
           /\ budget'.clean = budget.clean /\ budget'.torn = budget.torn
           /\ budget'.cuts = budget.cuts
BY IndexAssumption DEF Budget, Spend

LEMMA CutType ==
    ASSUME budget \in Budget, Cut
    PROVE  /\ budget' \in Budget /\ budget'.edits = budget.edits
           /\ budget'.clean = budget.clean /\ budget'.cuts = budget.cuts - 1
           /\ ~budget'.torn => ~budget.torn /\ pc # "drop"
<1>1. /\ budget.cuts \in 0 .. MaxCuts /\ budget.cuts > 0
      /\ budget' = [budget EXCEPT !.cuts = @ - 1, !.torn = @ \/ pc = "drop"]
    BY DEF Budget, Cut
<1>2. budget.cuts - 1 \in 0 .. MaxCuts
    BY <1>1, IndexAssumption
<1>3. PICK c \in BOOLEAN : c = (budget.torn \/ pc = "drop")
    OBVIOUS
<1>4. budget' = [budget EXCEPT !.cuts = budget.cuts - 1, !.torn = c]
    BY <1>1, <1>3 DEF Budget
<1>5. /\ budget' \in Budget /\ budget'.edits = budget.edits
      /\ budget'.clean = budget.clean /\ budget'.cuts = budget.cuts - 1
      /\ budget'.torn = c
  <2>1. LET u == [budget EXCEPT !.cuts = budget.cuts - 1, !.torn = c]
        IN  /\ u \in Budget /\ u.edits = budget.edits /\ u.clean = budget.clean
            /\ u.cuts = budget.cuts - 1 /\ u.torn = c
      BY <1>2 DEF Budget
  <2> QED
      BY <1>4, <2>1, Zenon
<1> QED
    BY <1>3, <1>5

LEMMA UnreadUpdate ==
    ASSUME NEW b \in Budget, NEW n \in 0 .. MaxUnread, NEW c \in BOOLEAN
    PROVE  LET u == [b EXCEPT !.unread = n, !.clean = c]
           IN  /\ u \in Budget /\ u.edits = b.edits /\ u.clean = c /\ u.cuts = b.cuts
               /\ u.torn = b.torn
BY DEF Budget

LEMMA UnreadType ==
    ASSUME budget \in Budget, ExtractFails
    PROVE  /\ budget' \in Budget /\ budget'.edits = budget.edits
           /\ ~budget'.clean /\ budget'.cuts = budget.cuts /\ budget'.torn = budget.torn
<1>1. /\ budget.unread \in 0 .. MaxUnread /\ budget.unread > 0
      /\ budget' = [budget EXCEPT !.unread = @ - 1, !.clean = FALSE]
    BY DEF Budget, ExtractFails
<1>2. budget.unread - 1 \in 0 .. MaxUnread
    BY <1>1, IndexAssumption
<1>3. budget' = [budget EXCEPT !.unread = budget.unread - 1, !.clean = FALSE]
    BY <1>1 DEF Budget
<1> QED
    BY <1>2, <1>3, UnreadUpdate

LEMMA EditType ==
    ASSUME budget \in Budget, disk \in Disk, Edit
    PROVE  /\ budget.edits \in Nat /\ budget.edits > 0
           /\ budget' \in Budget /\ budget'.edits = budget.edits - 1
           /\ budget'.cuts = budget.cuts /\ budget'.torn = budget.torn
           /\ budget'.clean => budget.clean /\ disk'.text \in Readable /\ ~disk'.big
           /\ disk'.text \in Texts /\ disk'.there \in BOOLEAN /\ disk'.big \in BOOLEAN
           /\ disk'.stamp = disk.stamp + 1
           /\ disk' = [there |-> disk'.there, stamp |-> disk'.stamp,
                       text |-> disk'.text, big |-> disk'.big]
<1>1. PICK there \in BOOLEAN, text \in Texts, big \in {FALSE, Grows} :
          /\ disk' = [there |-> there, stamp |-> disk.stamp + 1, text |-> text, big |-> big]
          /\ budget' = [budget EXCEPT !.edits = @ - 1,
                                      !.clean = @ /\ text \in Readable /\ ~big]
    BY DEF Edit
<1>2. /\ budget.edits \in Nat /\ budget.edits > 0
      /\ budget.edits - 1 \in 0 .. MaxEdits /\ budget.clean \in BOOLEAN
    BY IndexAssumption DEF Edit, Budget
<1>3. PICK c \in BOOLEAN : c = (budget.clean /\ text \in Readable /\ ~big)
    OBVIOUS
<1>4. budget' = [budget EXCEPT !.edits = budget.edits - 1, !.clean = c]
    BY <1>1, <1>3 DEF Budget
<1>5. /\ budget' \in Budget /\ budget'.edits = budget.edits - 1
      /\ budget'.cuts = budget.cuts /\ budget'.clean = c /\ budget'.torn = budget.torn
  <2>1. LET u == [budget EXCEPT !.edits = budget.edits - 1, !.clean = c]
        IN  /\ u \in Budget /\ u.edits = budget.edits - 1 /\ u.clean = c
            /\ u.cuts = budget.cuts /\ u.torn = budget.torn
      BY <1>2 DEF Budget
  <2> QED
      BY <1>4, <2>1, Zenon
<1>6. big \in BOOLEAN
    BY IndexAssumption
<1>7. /\ disk'.there = there /\ disk'.text = text /\ disk'.big = big
      /\ disk'.stamp = disk.stamp + 1
    BY <1>1
<1>8. budget'.clean => budget.clean /\ disk'.text \in Readable /\ ~disk'.big
    BY <1>3, <1>5, <1>7
<1>9. disk' = [there |-> disk'.there, stamp |-> disk'.stamp,
               text |-> disk'.text, big |-> disk'.big]
    BY <1>1, <1>7
<1> QED
    BY <1>2, <1>5, <1>6, <1>7, <1>8, <1>9

LEMMA EntryFields ==
    ASSUME NEW e \in Entry
    PROVE  /\ e.status \in Statuses /\ e.stamp \in 0 .. MaxEdits
           /\ e.sha256 \in Texts \cup {None} /\ e.attempts \in 0 .. MaxTries
           /\ e.chunks \in Readable \cup {None}
BY DEF Entry

LEMMA NoEntryType ==
    /\ NoEntry \in Entry /\ NoEntry.status = "none" /\ NoEntry.chunks = None
    /\ NoEntry.attempts = 0
BY IndexAssumption DEF NoEntry, Entry, Statuses

LEMMA NewEntryType ==
    ASSUME NEW st \in {"skipped_size", "pending"}, NEW n \in 0 .. MaxEdits
    PROVE  LET e == [NoEntry EXCEPT !.status = st, !.stamp = n]
           IN  e \in Entry /\ e.status = st /\ e.attempts = 0 /\ e.chunks = None
BY NoEntryType DEF Entry, Statuses

Relisted(e, st, n) == [e EXCEPT !.status = st, !.stamp = n, !.attempts = 0]

LEMMA ChangedEntryType ==
    ASSUME NEW e \in Entry, NEW st \in {"skipped_size", "pending"}, NEW n \in 0 .. MaxEdits
    PROVE  /\ Relisted(e, st, n) \in Entry
           /\ Relisted(e, st, n).status = st
           /\ Relisted(e, st, n).attempts = 0
           /\ Relisted(e, st, n).chunks = e.chunks
           /\ Relisted(e, st, n).sha256 = e.sha256
<1>1. 0 \in 0 .. MaxTries
    BY IndexAssumption
<1> QED
    BY <1>1 DEF Entry, Statuses, Relisted

LEMMA DroppedType ==
    ASSUME NEW e \in Entry
    PROVE  LET f == [e EXCEPT !.chunks = None]
           IN  /\ f \in Entry /\ f.chunks = None
               /\ f.status = e.status /\ f.attempts = e.attempts
BY DEF Entry

LEMMA IdenticalType ==
    ASSUME NEW e \in Entry
    PROVE  LET f == [e EXCEPT !.status = "indexed", !.attempts = 0]
           IN  f \in Entry /\ f.status = "indexed" /\ f.attempts = 0
<1>1. 0 \in 0 .. MaxTries
    BY IndexAssumption
<1> QED
    BY <1>1 DEF Entry, Statuses

LEMMA NothingType ==
    ASSUME NEW e \in Entry, NEW text \in Texts
    PROVE  LET f == [e EXCEPT !.status = "name_only", !.sha256 = text,
                              !.chunks = None, !.counted = None]
           IN  /\ f \in Entry /\ f.status = "name_only" /\ f.chunks = None
               /\ f.attempts = e.attempts
BY DEF Entry, Statuses

LEMMA StoredType ==
    ASSUME NEW e \in Entry, NEW text \in Texts
    PROVE  LET f == [e EXCEPT
                        !.status = IF text \in Readable THEN "indexed" ELSE "name_only",
                        !.sha256 = text, !.attempts = 0,
                        !.chunks = IF text \in Readable THEN text ELSE None,
                        !.counted = IF text \in Readable THEN text ELSE None]
           IN  /\ f \in Entry /\ f.status \in {"indexed", "name_only"} /\ f.attempts = 0
               /\ f.status = "name_only" => f.chunks = None
<1>1. 0 \in 0 .. MaxTries
    BY IndexAssumption
<1>2. CASE text \in Readable
    BY <1>1, <1>2 DEF Entry, Statuses
<1>3. CASE text \notin Readable
    BY <1>1, <1>3 DEF Entry, Statuses
<1> QED
    BY <1>2, <1>3

LEMMA RequeuedType ==
    ASSUME NEW e \in Entry
    PROVE  /\ Requeued(e) \in Entry /\ Requeued(e).status = "pending"
           /\ Requeued(e).attempts = e.attempts
BY DEF Requeued, Entry, Statuses

\* One more attempt is counted, and the last one gives the file up.
LEMMA MarkFailedType ==
    ASSUME entry \in Entry, NEW e, e.attempts \in Nat, e.attempts < MaxTries,
           NEW hash \in Texts \cup {None}, MarkFailed(e, hash)
    PROVE  /\ entry' \in Entry
           /\ entry'.attempts = e.attempts + 1
           /\ entry'.status = FailedAs(e.attempts + 1)
           /\ entry'.status \in {"failed", "gave_up"}
           /\ entry'.status = "failed" => entry'.attempts < MaxTries
<1> DEFINE n == e.attempts + 1
           kept == IF hash # None /\ KeepsHash(n) THEN hash ELSE entry.sha256
<1>1. n \in 0 .. MaxTries
    BY IndexAssumption
<1>2. FailedAs(n) \in {"failed", "gave_up"} /\ (FailedAs(n) = "failed" => n < MaxTries)
    BY <1>1, IndexAssumption DEF FailedAs
<1>3. kept \in Texts \cup {None}
    BY EntryFields
<1>4. entry' = [entry EXCEPT !.attempts = n, !.status = FailedAs(n), !.sha256 = kept]
    BY DEF MarkFailed
<1>5. FailedAs(n) \in Statuses
    BY <1>2 DEF Statuses
<1> HIDE DEF n, kept
<1>6. entry' \in Entry /\ entry'.attempts = n /\ entry'.status = FailedAs(n)
    BY <1>1, <1>3, <1>4, <1>5 DEF Entry
<1> QED
    BY <1>2, <1>6 DEF n

-----------------------------------------------------------------------------
(* Type correctness.                                                       *)

LEMMA MissedType ==
    ASSUME misses \in 0 .. MaxTries + 1, Missed
    PROVE  misses' \in 0 .. MaxTries + 1
BY IndexAssumption DEF Missed

LEMMA IndexInit == Init => IndexInv
<1> SUFFICES ASSUME Init PROVE IndexInv
    OBVIOUS
<1>0. 0 \in 0 .. MaxEdits /\ 0 \in 0 .. MaxTries + 1
    BY IndexAssumption
<1>1. disk \in Disk /\ disk.stamp = 0
    BY <1>0 DEF Init, Disk
<1>2. budget \in Budget /\ budget.edits = MaxEdits
    BY IndexAssumption DEF Init, Budget
<1>3. seen \in Seen /\ misses \in 0 .. MaxTries + 1 /\ moved \in BOOLEAN
    BY <1>0 DEF Init, Seen, NotSeen
<1>4. entry \in Entry /\ copy \in Entry /\ entry.status = "none"
    BY NoEntryType DEF Init
<1>5. pc = "idle" /\ buf \in Texts \cup {None}
    BY DEF Init
<1>6. disk.stamp + budget.edits = MaxEdits
    BY <1>1, <1>2, IndexAssumption
<1> QED
    BY <1>1, <1>2, <1>3, <1>4, <1>5, <1>6
    DEF IndexInv, Typed, AttemptsLeft, CopyLeft, Buffered, Edits, Steps, Busy

LEMMA EditStep == IndexInv /\ Edit => IndexInv'
<1> SUFFICES ASSUME IndexInv, Edit PROVE IndexInv'
    OBVIOUS
<1> USE DEF IndexInv, Typed
<1>1. budget.edits \in Nat /\ budget.edits > 0 /\ budget' \in Budget
      /\ budget'.edits = budget.edits - 1
    BY EditType
<1>3. disk.stamp \in 0 .. MaxEdits /\ disk.stamp + 1 \in 0 .. MaxEdits
    BY <1>1, IndexAssumption DEF Edits, Disk
<1>4. disk' \in Disk /\ disk'.stamp = disk.stamp + 1
    BY <1>3, EditType DEF Disk
<1>5. Edits'
    BY <1>1, <1>3, <1>4, IndexAssumption DEF Edits
<1> QED
    BY <1>1, <1>4, <1>5
    DEF Edit, memory, AttemptsLeft, CopyLeft, Buffered

LEMMA ListingStep == IndexInv /\ Listing => IndexInv'
<1> SUFFICES ASSUME IndexInv, Listing PROVE IndexInv'
    OBVIOUS
<1> USE DEF IndexInv, Typed, memory, At, Go, AttemptsLeft, CopyLeft, Buffered, Edits, Busy, Steps
<1>1. CASE Begin
    BY <1>1 DEF Begin
<1>2. CASE Walk
  <2>1. seen' \in Seen
    BY <1>2, IndexAssumption DEF Walk, Seen, NotSeen, Disk
  <2> QED
    BY <1>2, <2>1 DEF Walk
<1>3. CASE WalkMisses
  <2>1. seen' \in Seen
    BY <1>3, IndexAssumption DEF WalkMisses, Seen, NotSeen
  <2>2. budget' \in Budget /\ budget'.edits = budget.edits
    BY <1>3, SpendType DEF WalkMisses
  <2> QED
    BY <1>3, <2>1, <2>2 DEF WalkMisses
<1>4. CASE ApplyGone
  <2>1. entry' \in Entry /\ entry'.status = "none" /\ misses' \in 0 .. MaxTries + 1
    BY <1>4, NoEntryType, IndexAssumption DEF ApplyGone
  <2> QED
    BY <1>4, <2>1 DEF ApplyGone
<1>5. CASE ApplyNew
  <2>1. Listed \in {"skipped_size", "pending"} /\ seen.stamp \in 0 .. MaxEdits
    BY DEF Listed, Seen
  <2>2. entry' \in Entry /\ entry'.attempts = 0 /\ misses' \in 0 .. MaxTries + 1
    <3>1. entry' = [NoEntry EXCEPT !.status = Listed, !.stamp = seen.stamp]
      BY <1>5 DEF ApplyNew
    <3>2. misses' \in 0 .. MaxTries + 1
      BY <1>5, IndexAssumption DEF ApplyNew
    <3>3. \A st \in {"skipped_size", "pending"}, n \in 0 .. MaxEdits :
            /\ [NoEntry EXCEPT !.status = st, !.stamp = n] \in Entry
            /\ [NoEntry EXCEPT !.status = st, !.stamp = n].attempts = 0
      BY NewEntryType
    <3> QED
      BY <2>1, <3>1, <3>2, <3>3
  <2> QED
    BY <1>5, <2>2, IndexAssumption DEF ApplyNew
<1>6. CASE ApplySame
    BY <1>6 DEF ApplySame
<1>7. CASE ApplyChanged
  <2>1. Listed \in {"skipped_size", "pending"} /\ seen.stamp \in 0 .. MaxEdits
    BY DEF Listed, Seen
  <2>2. entry' \in Entry /\ entry'.attempts = 0
    <3>1. entry' = Relisted(entry, Listed, seen.stamp)
      BY <1>7 DEF ApplyChanged, Relisted
    <3> QED
      BY <2>1, <3>1, ChangedEntryType
  <2>3. misses' \in 0 .. MaxTries + 1
    BY <1>7, IndexAssumption DEF ApplyChanged
  <2> QED
    BY <1>7, <2>2, <2>3, IndexAssumption DEF ApplyChanged
<1>8. CASE DropChunks
  <2>1. entry' \in Entry /\ entry'.status = entry.status /\ entry'.attempts = entry.attempts
    BY <1>8, DroppedType DEF DropChunks
  <2> QED
    BY <1>8, <2>1 DEF DropChunks
<1> QED
    BY <1>1, <1>2, <1>3, <1>4, <1>5, <1>6, <1>7, <1>8 DEF Listing

LEMMA ProcessStep == IndexInv /\ ProcessOne => IndexInv'
<1> SUFFICES ASSUME IndexInv, ProcessOne PROVE IndexInv'
    OBVIOUS
<1> USE DEF IndexInv, Typed, memory, At, Go, AttemptsLeft, CopyLeft, Buffered, Edits, Busy, Steps
<1>0. entry.attempts \in 0 .. MaxTries /\ copy.attempts \in 0 .. MaxTries
    BY EntryFields
<1>1. CASE Take
    BY <1>1 DEF Take
<1>2. CASE QueueEmpty
    BY <1>2 DEF QueueEmpty
<1>3. CASE Download
  <2>1. buf' \in Texts
    BY <1>3 DEF Download, Disk
  <2> QED
    BY <1>3, <2>1 DEF Download
<1>4. CASE DownloadFails
  <2>1. budget' \in Budget /\ budget'.edits = budget.edits
    BY <1>4, SpendType DEF DownloadFails
  <2>2. copy.attempts < MaxTries /\ copy.attempts \in Nat
    BY <1>0, <1>4 DEF DownloadFails
  <2>3. entry' \in Entry /\ (entry'.status = "failed" => entry'.attempts < MaxTries)
        /\ entry'.status \in {"failed", "gave_up"}
    BY <1>4, <2>2, MarkFailedType DEF DownloadFails
  <2>4. misses' \in 0 .. MaxTries + 1
    BY <1>4, MissedType DEF DownloadFails
  <2> QED
    BY <1>4, <2>1, <2>3, <2>4 DEF DownloadFails
<1>5. CASE Identical
  <2>1. entry' \in Entry /\ entry'.status = "indexed" /\ misses' \in 0 .. MaxTries + 1
    <3>1. entry' = [entry EXCEPT !.status = "indexed", !.attempts = 0]
      BY <1>5 DEF Identical
    <3>2. misses' \in 0 .. MaxTries + 1
      BY <1>5, IndexAssumption DEF Identical
    <3> QED
      BY <3>1, <3>2, IdenticalType
  <2> QED
    BY <1>5, <2>1 DEF Identical
<1>6. CASE Different
    BY <1>6 DEF Different
<1>7. CASE ExtractNothing
  <2>1. entry' \in Entry /\ entry'.status = "name_only" /\ misses' \in 0 .. MaxTries + 1
    <3>1. entry' = [entry EXCEPT !.status = "name_only", !.sha256 = buf,
                                 !.chunks = None, !.counted = None]
      BY <1>7 DEF ExtractNothing
    <3>2. misses' \in 0 .. MaxTries + 1
      BY <1>7, IndexAssumption DEF ExtractNothing
    <3>3. buf \in Texts
      BY <1>7 DEF ExtractNothing
    <3> QED
      BY <3>1, <3>2, <3>3, NothingType
  <2> QED
    BY <1>7, <2>1 DEF ExtractNothing
<1>8. CASE ExtractLocked
  <2> DEFINE last == [copy EXCEPT !.attempts = MaxTries - 1]
  <2>1. last.attempts \in Nat /\ last.attempts < MaxTries
    BY IndexAssumption DEF Entry
  <2>2. entry' \in Entry /\ (entry'.status = "failed" => entry'.attempts < MaxTries)
        /\ entry'.status \in {"failed", "gave_up"}
    BY <1>8, <2>1, MarkFailedType DEF ExtractLocked
  <2>3. misses' \in 0 .. MaxTries + 1
    BY <1>8, MissedType DEF ExtractLocked
  <2> QED
    BY <1>8, <2>2, <2>3 DEF ExtractLocked
<1>9. CASE ExtractFails
  <2>1. budget' \in Budget /\ budget'.edits = budget.edits
    BY <1>9, UnreadType
  <2>2. copy.attempts < MaxTries /\ copy.attempts \in Nat /\ buf \in Texts \cup {None}
    BY <1>0, <1>9 DEF ExtractFails
  <2>3. entry' \in Entry /\ (entry'.status = "failed" => entry'.attempts < MaxTries)
        /\ entry'.status \in {"failed", "gave_up"}
    BY <1>9, <2>2, MarkFailedType DEF ExtractFails
  <2>4. misses' \in 0 .. MaxTries + 1
    BY <1>9, MissedType DEF ExtractFails
  <2> QED
    BY <1>9, <2>1, <2>3, <2>4 DEF ExtractFails
<1>10. CASE Extract
    BY <1>10 DEF Extract
<1>11. CASE Store
  <2>1. buf \in Texts
    BY <1>11 DEF Store
  <2>2. entry' \in Entry /\ entry'.status \in {"indexed", "name_only"}
    <3>1. entry' = [entry EXCEPT
                       !.status = IF buf \in Readable THEN "indexed" ELSE "name_only",
                       !.sha256 = buf, !.attempts = 0,
                       !.chunks = IF buf \in Readable THEN buf ELSE None,
                       !.counted = IF buf \in Readable THEN buf ELSE None]
      BY <1>11 DEF Store
    <3> QED
      BY <2>1, <3>1, StoredType
  <2>3. misses' \in 0 .. MaxTries + 1
    BY <1>11, IndexAssumption DEF Store
  <2> QED
    BY <1>11, <2>2, <2>3 DEF Store
<1> QED
    BY <1>1, <1>2, <1>3, <1>4, <1>5, <1>6, <1>7, <1>8, <1>9, <1>10, <1>11 DEF ProcessOne

LEMMA EndStep == IndexInv /\ (Finish \/ Requeue \/ Cut) => IndexInv'
<1> SUFFICES ASSUME IndexInv, Finish \/ Requeue \/ Cut PROVE IndexInv'
    OBVIOUS
<1> USE DEF IndexInv, Typed, memory, At, Go, AttemptsLeft, CopyLeft, Buffered, Edits, Busy, Steps
<1>1. CASE Finish
    BY <1>1 DEF Finish
<1>2. CASE Requeue
  <2>1. entry' \in Entry /\ entry'.attempts = entry.attempts
        /\ (entry'.status \in {"pending", "failed"} => entry.status \in {"pending", "failed"})
    BY <1>2, RequeuedType DEF Requeue
  <2> QED
    BY <1>2, <2>1 DEF Requeue
<1>3. CASE Cut
  <2>1. budget' \in Budget /\ budget'.edits = budget.edits
    BY <1>3, CutType
  <2> QED
    BY <1>3, <2>1 DEF Cut
<1> QED
    BY <1>1, <1>2, <1>3

LEMMA IndexNext == IndexInv /\ [Next]_vars => IndexInv'
<1> SUFFICES ASSUME IndexInv, [Next]_vars PROVE IndexInv'
    OBVIOUS
<1>1. CASE UNCHANGED vars
    BY <1>1 DEF vars, memory, IndexInv, Typed, AttemptsLeft, CopyLeft, Buffered, Edits
<1>2. CASE Next
    BY <1>2, EditStep, ListingStep, ProcessStep, EndStep DEF Next
<1> QED
    BY <1>1, <1>2

\* Every variable keeps its type: the row counts no more than MAX_ATTEMPTS
\* attempts, whatever ends a slice and whenever the file changes.
THEOREM TypeCorrect == Spec => []TypeOK
<1>1. IndexInv => TypeOK
    BY TypedType DEF IndexInv
<1> QED
    BY <1>1, IndexInit, IndexNext, PTL DEF Spec

-----------------------------------------------------------------------------
(* A file found by its name only.                                          *)

\* What ends a slice between the two transactions is not forgotten.
LEMMA TornBefore ==
    ASSUME IndexInv, [Next]_vars, ~budget'.torn
    PROVE  ~budget.torn
<1>0. budget \in Budget /\ disk \in Disk
    BY DEF IndexInv, Typed
<1>1. CASE Edit
    BY <1>0, <1>1, EditType
<1>2. CASE WalkMisses
    BY <1>0, <1>2, SpendType DEF WalkMisses
<1>3. CASE DownloadFails
    BY <1>0, <1>3, SpendType DEF DownloadFails
<1>4. CASE ExtractFails
    BY <1>0, <1>4, UnreadType
<1>5. CASE Cut
    BY <1>0, <1>5, CutType
<1>6. CASE Listing /\ ~WalkMisses
    BY <1>6 DEF Listing, Begin, Walk, ApplyGone, ApplyNew, ApplySame, ApplyChanged, DropChunks
<1>7. CASE ProcessOne /\ ~DownloadFails /\ ~ExtractFails
    BY <1>7 DEF ProcessOne, Take, QueueEmpty, Download, Identical, Different,
                ExtractNothing, ExtractLocked, Extract, Store
<1>8. CASE Finish \/ Requeue \/ UNCHANGED vars
    BY <1>8 DEF Finish, Requeue, vars
<1> QED
    BY <1>1, <1>2, <1>3, <1>4, <1>5, <1>6, <1>7, <1>8 DEF Next

LEMMA ByNameNext == IndexInv /\ ByNameOnly /\ [Next]_vars => ByNameOnly'
<1> SUFFICES ASSUME IndexInv, ByNameOnly, [Next]_vars, ~budget'.torn
             PROVE  ByNameOnly'
    BY DEF ByNameOnly
<1> USE DEF ByNameOnly
<1>0. entry \in Entry /\ budget \in Budget /\ ~budget.torn
    BY TornBefore DEF IndexInv, Typed
<1>1. CASE UNCHANGED entry /\ (pc = "drop" => pc' = "drop")
    BY <1>0, <1>1
<1>10. CASE Cut
    BY <1>0, <1>10, CutType DEF Cut
<1>11. CASE DropChunks
    BY <1>0, <1>11, DroppedType DEF DropChunks
<1>2. CASE ApplyGone
    BY <1>2, NoEntryType DEF ApplyGone
<1>3. CASE ApplyNew
  <2>1. Listed \in {"skipped_size", "pending"} /\ seen.stamp \in 0 .. MaxEdits
    BY DEF IndexInv, Typed, Listed, Seen
  <2>2. \A st \in {"skipped_size", "pending"}, n \in 0 .. MaxEdits :
          [NoEntry EXCEPT !.status = st, !.stamp = n].chunks = None
    BY NewEntryType
  <2> QED
    BY <1>3, <2>1, <2>2 DEF ApplyNew
<1>4. CASE ApplyChanged
  <2>1. Listed \in {"skipped_size", "pending"} /\ seen.stamp \in 0 .. MaxEdits
    BY DEF IndexInv, Typed, Listed, Seen
  <2>2. entry' = Relisted(entry, Listed, seen.stamp)
    BY <1>4 DEF ApplyChanged, Relisted
  <2>3. entry'.status = Listed
    BY <1>0, <2>1, <2>2, ChangedEntryType
  <2>4. pc' = "drop" \/ Listed = "pending"
    BY <1>4 DEF ApplyChanged, Drops, Go
  <2> QED
    BY <2>3, <2>4
<1>5. CASE DownloadFails \/ ExtractLocked \/ ExtractFails
  <2>1. PICK e, hash : MarkFailed(e, hash)
    BY <1>5 DEF DownloadFails, ExtractLocked, ExtractFails
  <2>2. entry'.status = FailedAs(e.attempts + 1)
    BY <1>0, <2>1 DEF MarkFailed, Entry
  <2> QED
    BY <2>2 DEF FailedAs
<1>6. CASE Identical
    BY <1>0, <1>6, IdenticalType DEF Identical
<1>7. CASE ExtractNothing
  <2>1. buf \in Texts
    BY <1>7 DEF ExtractNothing, Texts
  <2>2. entry' = [entry EXCEPT !.status = "name_only", !.sha256 = buf,
                               !.chunks = None, !.counted = None]
    BY <1>7 DEF ExtractNothing
  <2> QED
    BY <1>0, <2>1, <2>2, NothingType
<1>8. CASE Store
  <2>1. buf \in Texts
    BY <1>8 DEF Store, IndexInv, Buffered, At
  <2>2. entry' = [entry EXCEPT
                     !.status = IF buf \in Readable THEN "indexed" ELSE "name_only",
                     !.sha256 = buf, !.attempts = 0,
                     !.chunks = IF buf \in Readable THEN buf ELSE None,
                     !.counted = IF buf \in Readable THEN buf ELSE None]
    BY <1>8 DEF Store
  <2> QED
    BY <1>0, <2>1, <2>2, StoredType
<1>9. CASE Requeue
    BY <1>0, <1>9, RequeuedType DEF Requeue, At
<1> QED
    BY <1>1, <1>2, <1>3, <1>4, <1>5, <1>6, <1>7, <1>8, <1>9, <1>10, <1>11
    DEF Next, vars, memory, At, Go, Edit, Listing, Begin, Walk, WalkMisses, ApplySame,
        ProcessOne, Take, QueueEmpty, Download, Different, Extract, Finish

\* Neither a file too large now, nor one without readable text, nor one that
\* is gone from the listing keeps an older text once the listing has gone over
\* it, unless a slice has ended between the two transactions of a changed file.
THEOREM NamesOnly == Spec => []ByNameOnly
<1>1. Init => ByNameOnly
    BY NoEntryType DEF Init, ByNameOnly
<1> QED
    BY <1>1, IndexInit, IndexNext, ByNameNext, PTL DEF Spec

-----------------------------------------------------------------------------
(* The text of an indexed file is the file's, as long as every content is  *)
(* readable and within the plan's file size and no extraction fails: the   *)
(* cases in which the row's sha256 names a text the index does not hold    *)
(* (the run hash) are the ones left out.                                   *)

Queuing == {"queue", "fetch", "compare", "extract", "store", "finish"}
Holding == {"compare", "extract", "store"}

HashNamesText == entry.chunks = entry.sha256
CopyIsRow == pc \in Busy => copy.sha256 = entry.sha256
InThePast == entry.stamp <= disk.stamp /\ seen.stamp <= disk.stamp
Small == ~disk.big /\ ~seen.big
Legible == disk.text \in Readable /\ (pc \in Holding => buf \in Readable)

\* A version of the file has its own stamp: an indexed row that carries the
\* stamp of the file has its text, and so has what was downloaded meanwhile.
StampNamesText == entry.status = "indexed" /\ entry.stamp = disk.stamp => entry.chunks = disk.text
BufferIsFile ==
    pc \in Holding => /\ entry.stamp = disk.stamp \/ ~moved => buf = disk.text
                      /\ ~moved => disk.there
NeverDrops == pc # "drop"
Looked == pc = "apply" /\ ~moved /\ seen.there => disk.there /\ seen.stamp = disk.stamp
WorkedOff ==
    pc \in Queuing /\ ~moved /\ entry.status = "indexed" =>
        disk.there /\ entry.chunks = disk.text

SyncInv ==
    /\ HashNamesText /\ CopyIsRow /\ InThePast /\ Small /\ Legible
    /\ StampNamesText /\ BufferIsFile /\ NeverDrops /\ Looked /\ WorkedOff

LEMMA SyncListing ==
    ASSUME IndexInv, SyncInv, budget'.clean, Listing
    PROVE  SyncInv'
<1> USE DEF SyncInv, HashNamesText, CopyIsRow, InThePast, Small, Legible, StampNamesText,
            BufferIsFile, NeverDrops, Looked, WorkedOff, Busy, Queuing, Holding, At, Go, memory
<1>0. /\ entry \in Entry /\ disk \in Disk /\ seen \in Seen /\ budget \in Budget
      /\ entry.stamp \in Nat /\ disk.stamp \in Nat /\ seen.stamp \in Nat
    BY DEF IndexInv, Typed, Entry, Disk, Seen
<1>1. CASE Begin
    BY <1>1 DEF Begin
<1>2. CASE Walk
  <2>1. /\ ~seen'.big /\ seen'.stamp <= disk.stamp
        /\ seen'.there => disk.there /\ seen'.stamp = disk.stamp
    BY <1>0, <1>2 DEF Walk, NotSeen
  <2> QED
    BY <1>2, <2>1 DEF Walk
<1>3. CASE WalkMisses
  <2>1. ~seen'.big /\ seen'.stamp <= disk.stamp /\ ~seen'.there
    BY <1>0, <1>3 DEF WalkMisses, NotSeen
  <2> QED
    BY <1>3, <2>1 DEF WalkMisses
<1>4. CASE ApplyGone
  <2>1. entry' = NoEntry /\ NoEntry.status = "none" /\ NoEntry.stamp = 0
        /\ NoEntry.chunks = NoEntry.sha256
    BY <1>4 DEF ApplyGone, NoEntry
  <2> QED
    BY <1>0, <1>4, <2>1 DEF ApplyGone
<1>5. CASE ApplyNew
  <2>1. entry' = [NoEntry EXCEPT !.status = "pending", !.stamp = seen.stamp]
    BY <1>5 DEF ApplyNew, Listed
  <2>2. entry'.status = "pending" /\ entry'.stamp = seen.stamp /\ entry'.chunks = entry'.sha256
    BY <2>1 DEF NoEntry
  <2> QED
    BY <1>0, <1>5, <2>2 DEF ApplyNew
<1>6. CASE ApplySame
    BY <1>0, <1>6 DEF ApplySame, Unchanged
<1>7. CASE ApplyChanged
  <2>1. entry' = Relisted(entry, "pending", seen.stamp) /\ pc' = "queue"
    BY <1>7 DEF ApplyChanged, Listed, Drops, Relisted
  <2>2. entry'.status = "pending" /\ entry'.stamp = seen.stamp /\ entry'.chunks = entry'.sha256
    BY <1>0, <2>1 DEF Relisted, Entry
  <2> QED
    BY <1>0, <1>7, <2>1, <2>2 DEF ApplyChanged
<1>8. CASE DropChunks
    BY <1>8 DEF DropChunks, NeverDrops
<1> QED
    BY <1>1, <1>2, <1>3, <1>4, <1>5, <1>6, <1>7, <1>8 DEF Listing

LEMMA SyncProcess ==
    ASSUME IndexInv, SyncInv, budget'.clean, ProcessOne
    PROVE  SyncInv'
<1> USE DEF SyncInv, HashNamesText, CopyIsRow, InThePast, Small, Legible, StampNamesText,
            BufferIsFile, NeverDrops, Looked, WorkedOff, Busy, Queuing, Holding, At, Go, memory
<1>0. /\ entry \in Entry /\ disk \in Disk /\ budget \in Budget
      /\ entry.stamp \in Nat /\ disk.stamp \in Nat
    BY DEF IndexInv, Typed, Entry, Disk
<1>1. CASE Take
    BY <1>1 DEF Take
<1>2. CASE QueueEmpty
    BY <1>2 DEF QueueEmpty
<1>3. CASE Download
    BY <1>3 DEF Download
<1>4. CASE DownloadFails
  <2>1. /\ entry'.stamp = entry.stamp /\ entry'.sha256 = entry.sha256
        /\ entry'.chunks = entry.chunks /\ entry'.status = FailedAs(copy.attempts + 1)
    BY <1>0, <1>4 DEF DownloadFails, MarkFailed, Entry
  <2>2. entry'.status # "indexed"
    BY <2>1 DEF FailedAs
  <2> QED
    BY <1>4, <2>1, <2>2 DEF DownloadFails
<1>5. CASE Identical
  <2>1. /\ entry'.stamp = entry.stamp /\ entry'.sha256 = entry.sha256
        /\ entry'.chunks = entry.chunks
    BY <1>0, <1>5 DEF Identical, Entry
  <2>2. buf = entry.chunks
    BY <1>5 DEF Identical
  <2> QED
    BY <1>5, <2>1, <2>2 DEF Identical
<1>6. CASE Different
    BY <1>6 DEF Different
<1>7. CASE ExtractNothing \/ ExtractLocked \/ ExtractFails
    BY <1>0, <1>7, UnreadType, IndexAssumption DEF ExtractNothing, ExtractLocked
<1>8. CASE Extract
    BY <1>8 DEF Extract
<1>9. CASE Store
  <2>1. buf \in Readable
    BY <1>9 DEF Store
  <2>2. /\ entry'.stamp = entry.stamp /\ entry'.sha256 = buf /\ entry'.chunks = buf
    BY <1>0, <1>9, <2>1 DEF Store, Entry
  <2> QED
    BY <1>9, <2>2 DEF Store
<1> QED
    BY <1>1, <1>2, <1>3, <1>4, <1>5, <1>6, <1>7, <1>8, <1>9 DEF ProcessOne

LEMMA SyncNext ==
    ASSUME IndexInv, SyncInv, budget'.clean, [Next]_vars
    PROVE  SyncInv'
<1> USE DEF SyncInv, HashNamesText, CopyIsRow, InThePast, Small, Legible, StampNamesText,
            BufferIsFile, NeverDrops, Looked, WorkedOff, Busy, Queuing, Holding, At, Go, memory
<1>0. /\ entry \in Entry /\ disk \in Disk /\ seen \in Seen /\ budget \in Budget
      /\ entry.stamp \in Nat /\ disk.stamp \in Nat /\ seen.stamp \in Nat
    BY DEF IndexInv, Typed, Entry, Disk, Seen
<1>1. CASE UNCHANGED vars
    BY <1>1 DEF vars
<1>2. CASE Edit
  <2>1. disk'.stamp = disk.stamp + 1 /\ ~disk'.big /\ moved' = TRUE /\ disk'.text \in Readable
    BY <1>0, <1>2, EditType DEF Edit
  <2>3. entry.stamp # disk'.stamp
    BY <1>0, <2>1
  <2> QED
    BY <1>0, <1>2, <2>1, <2>3 DEF Edit
<1>3. CASE Finish
    BY <1>3 DEF Finish
<1>4. CASE Requeue
  <2>1. /\ entry'.stamp = entry.stamp /\ entry'.sha256 = entry.sha256
        /\ entry'.chunks = entry.chunks
        /\ entry'.status = "indexed" => entry.status = "indexed"
    BY <1>0, <1>4 DEF Requeue, Requeued, Entry
  <2> QED
    BY <1>4, <2>1 DEF Requeue
<1>5. CASE Cut
    BY <1>5 DEF Cut
<1>6. CASE Listing \/ ProcessOne
    BY <1>6, SyncListing, SyncProcess
<1> QED
    BY <1>1, <1>2, <1>3, <1>4, <1>5, <1>6 DEF Next

LEMMA CleanBefore ==
    ASSUME IndexInv, [Next]_vars, budget'.clean
    PROVE  budget.clean
<1>0. budget \in Budget /\ disk \in Disk
    BY DEF IndexInv, Typed
<1>1. CASE Edit
    BY <1>0, <1>1, EditType
<1>2. CASE WalkMisses
    BY <1>0, <1>2, SpendType DEF WalkMisses
<1>3. CASE DownloadFails
    BY <1>0, <1>3, SpendType DEF DownloadFails
<1>4. CASE ExtractFails
    BY <1>0, <1>4, UnreadType
<1>5. CASE Cut
    BY <1>0, <1>5, CutType
<1>6. CASE Listing /\ ~WalkMisses
    BY <1>6 DEF Listing, Begin, Walk, ApplyGone, ApplyNew, ApplySame, ApplyChanged, DropChunks
<1>7. CASE ProcessOne /\ ~DownloadFails /\ ~ExtractFails
    BY <1>7 DEF ProcessOne, Take, QueueEmpty, Download, Identical, Different,
                ExtractNothing, ExtractLocked, Extract, Store
<1>8. CASE Finish \/ Requeue \/ UNCHANGED vars
    BY <1>8 DEF Finish, Requeue, vars
<1> QED
    BY <1>1, <1>2, <1>3, <1>4, <1>5, <1>6, <1>7, <1>8 DEF Next

LEMMA SyncInit ==
    ASSUME Init, budget.clean
    PROVE  SyncInv
<1>1. NoEntry.chunks = NoEntry.sha256 /\ NoEntry.stamp = 0 /\ NoEntry.status = "none"
    BY DEF NoEntry
<1>2. disk.stamp = 0 /\ disk.big = FALSE /\ disk.text \in Readable
    BY DEF Init
<1>3. seen.stamp = 0 /\ seen.big = FALSE
    BY DEF Init, NotSeen
<1>4. pc = "idle" /\ entry = NoEntry
    BY DEF Init
<1> QED
    BY <1>1, <1>2, <1>3, <1>4
    DEF SyncInv, HashNamesText, CopyIsRow, InThePast, Small, Legible,
        StampNamesText, BufferIsFile, NeverDrops, Looked, WorkedOff, Busy, Queuing, Holding

\* A file that has always been readable is found by the text its sha256 stands
\* for, whatever downloads and listings fail and wherever slices are cut short.
THEOREM ReadableIsFound == Spec => []IndexedReadable
<1> DEFINE Inv == budget.clean => SyncInv
<1>1. Init => Inv
    BY SyncInit
<1>2. Inv => IndexedReadable
    BY DEF SyncInv, HashNamesText, IndexedReadable, IndexedHasText
<1>3. IndexInv /\ Inv /\ [Next]_vars => Inv'
    BY SyncNext, CleanBefore
<1> QED
    BY <1>1, <1>2, <1>3, IndexInit, IndexNext, PTL DEF Spec

\* When a run has worked off its queue, the text of such a file is that of the
\* file as it was listed.
THEOREM IndexedText == Spec => []InSync
<1> DEFINE Inv == budget.clean => SyncInv
<1>1. Init => Inv
    BY SyncInit
<1>2. Inv => InSync
    BY DEF SyncInv, WorkedOff, Queuing, InSync
<1>3. IndexInv /\ Inv /\ [Next]_vars => Inv'
    BY SyncNext, CleanBefore
<1> QED
    BY <1>1, <1>2, <1>3, IndexInit, IndexNext, PTL DEF Spec

\* Failures and hashes leave the text and its count alone.
LEMMA MarkFailedCount ==
    ASSUME entry \in Entry, NEW e, NEW hash, MarkFailed(e, hash)
    PROVE  entry'.counted = entry.counted /\ entry'.chunks = entry.chunks
BY DEF MarkFailed, Entry

LEMMA CountedNext ==
    ASSUME IndexInv, SyncInv, entry.counted = entry.chunks, budget'.clean, budget.clean,
           [Next]_vars
    PROVE  entry'.counted = entry'.chunks
<1>0. entry \in Entry
    BY DEF IndexInv, Typed
<1>1. CASE UNCHANGED entry
    BY <1>1
<1>2. CASE ApplyGone \/ ApplyNew
  <2>1. CASE ApplyGone
    BY <2>1 DEF ApplyGone, NoEntry
  <2>2. CASE ApplyNew
    <3>1. /\ entry'.counted = NoEntry.counted
          /\ entry'.chunks = NoEntry.chunks
      BY <2>2 DEF ApplyNew, NoEntry
    <3> QED
      BY <3>1 DEF NoEntry
  <2> QED
    BY <1>2, <2>1, <2>2
<1>3. CASE ApplyChanged
  <2>1. entry' = [entry EXCEPT !.status = Listed, !.stamp = seen.stamp, !.attempts = 0]
    BY <1>3 DEF ApplyChanged
  <2> QED
    BY <1>0, <2>1 DEF Entry
<1>4. CASE DownloadFails \/ ExtractLocked \/ ExtractFails
  <2>1. PICK e, hash : MarkFailed(e, hash)
    BY <1>4 DEF DownloadFails, ExtractLocked, ExtractFails
  <2> QED
    BY <1>0, <2>1, MarkFailedCount
<1>5. CASE Identical
    BY <1>0, <1>5 DEF Identical, Entry
<1>6. CASE ExtractNothing
    BY <1>0, <1>6 DEF ExtractNothing, Entry
<1>7. CASE Store
    BY <1>0, <1>7 DEF Store, Entry
<1>8. CASE Requeue
    BY <1>0, <1>8 DEF Requeue, Requeued, Entry
<1>9. CASE DropChunks
    BY <1>9 DEF DropChunks, At, SyncInv, NeverDrops
<1> QED
    BY <1>1, <1>2, <1>3, <1>4, <1>5, <1>6, <1>7, <1>8, <1>9
    DEF Next, vars, memory, Edit, Listing, Begin, Walk, WalkMisses, ApplySame, ProcessOne,
        Take, QueueEmpty, Download, Different, Extract, Finish, Cut

\* textChars counts the text in the index, so that the sum the plan's text limit
\* bounds is right, whatever is replaced, fails or is cut short.
THEOREM CountedText == Spec => []CountsText
<1> DEFINE Inv == budget.clean => SyncInv /\ entry.counted = entry.chunks
<1>0. NoEntry.counted = NoEntry.chunks
    BY DEF NoEntry
<1>1. Init => Inv
  <2>1. Init => entry = NoEntry
    BY DEF Init
  <2> QED
    BY <1>0, <2>1, SyncInit
<1>2. Inv => CountsText
    BY DEF CountsText
<1>3. IndexInv /\ Inv /\ [Next]_vars => Inv'
    BY SyncNext, CountedNext, CleanBefore
<1> QED
    BY <1>1, <1>2, <1>3, IndexInit, IndexNext, PTL DEF Spec

-----------------------------------------------------------------------------
(* Three attempts are made for one version of a file, while every slice    *)
(* ends well.  The count in the row is never behind the attempts made, since    *)
(* only a new stamp or a text resets it; no listing meets a failed file,   *)
(* since a run that succeeds queues it again.                              *)

CountKept ==
    /\ misses <= entry.attempts
    /\ pc \in Busy => misses <= copy.attempts
    /\ entry.status = "failed" => pc \in {"queue", "finish", "requeue"}

LEMMA CountNext ==
    ASSUME IndexInv, CountKept, [Next]_vars, budget.cuts = MaxCuts, budget'.cuts = MaxCuts
    PROVE  CountKept'
<1> USE DEF CountKept, At, Go, memory
<1>0. /\ entry \in Entry /\ copy \in Entry /\ misses \in Nat
      /\ entry.attempts \in Nat /\ copy.attempts \in Nat
      /\ budget \in Budget
    BY EntryFields, IndexAssumption DEF IndexInv, Typed
<1>1. CASE UNCHANGED vars
    BY <1>1 DEF vars
<1>2. CASE Edit
    BY <1>2 DEF Edit
<1>3. CASE Begin \/ Walk \/ ApplySame \/ Download \/ Different \/ Extract \/ Finish
    BY <1>3 DEF Begin, Walk, ApplySame, Download, Different, Extract, Finish, Busy
<1>4. CASE WalkMisses
    BY <1>4 DEF WalkMisses, Busy
<1>5. CASE ApplyGone
  <2>1. entry'.status = "none" /\ entry'.attempts = 0
    BY <1>5, NoEntryType DEF ApplyGone
  <2> QED
    BY <1>5, <2>1 DEF ApplyGone, Busy
<1>6. CASE ApplyNew \/ ApplyChanged
  <2>1. Listed \in {"skipped_size", "pending"} /\ seen.stamp \in 0 .. MaxEdits
    BY DEF IndexInv, Typed, Listed, Seen
  <2>2. entry'.status = Listed /\ entry'.attempts = 0
    BY <1>0, <1>6, <2>1, NoEntryType DEF ApplyNew, ApplyChanged, Entry
  <2>3. misses' = 0
    BY <1>6 DEF ApplyNew, ApplyChanged, Unchanged
  <2> QED
    BY <1>6, <2>1, <2>2, <2>3 DEF ApplyNew, ApplyChanged, Drops, Busy
<1>7. CASE Take
    BY <1>0, <1>7 DEF Take, Busy
<1>8. CASE QueueEmpty
    BY <1>8 DEF QueueEmpty, Busy
<1>9. CASE DownloadFails \/ ExtractFails
  <2>1. /\ pc \in Busy /\ pc' = "queue" /\ Missed
        /\ \E hash \in Texts \cup {None} : MarkFailed(copy, hash)
    BY <1>9 DEF DownloadFails, ExtractFails, IndexInv, Typed, Busy
  <2>2. copy.attempts < MaxTries
    BY <2>1 DEF IndexInv, CopyLeft
  <2>3. entry'.attempts = copy.attempts + 1
    BY <1>0, <2>1, <2>2, MarkFailedType
  <2>4. misses' <= copy.attempts + 1
    BY <1>0, <2>1, IndexAssumption DEF Missed
  <2> QED
    BY <2>1, <2>3, <2>4 DEF Busy
<1>10. CASE ExtractLocked
  <2> DEFINE last == [copy EXCEPT !.attempts = MaxTries - 1]
  <2>1. last.attempts = MaxTries - 1 /\ last.attempts \in Nat /\ last.attempts < MaxTries
    BY <1>0, IndexAssumption DEF Entry
  <2>2. entry'.attempts = MaxTries
    <3>1. buf \in Texts \cup {None} /\ MarkFailed(last, buf)
      BY <1>10 DEF ExtractLocked, IndexInv, Typed
    <3>2. entry'.attempts = last.attempts + 1
      BY <1>0, <2>1, <3>1, MarkFailedType
    <3> QED
      BY <2>1, <3>2, IndexAssumption
  <2>3. copy.attempts < MaxTries /\ misses <= copy.attempts
    BY <1>10 DEF ExtractLocked, IndexInv, CopyLeft, Busy
  <2>4. misses' <= MaxTries
    BY <1>0, <1>10, <2>3, IndexAssumption DEF ExtractLocked, Missed
  <2> QED
    BY <1>10, <2>2, <2>4 DEF ExtractLocked, Busy
<1>11. CASE Identical
  <2>1. entry'.status = "indexed" /\ entry'.attempts = 0
    BY <1>0, <1>11, IdenticalType DEF Identical
  <2> QED
    BY <1>11, <2>1 DEF Identical, Busy
<1>12. CASE ExtractNothing
  <2>1. entry'.status = "name_only" /\ entry'.attempts = entry.attempts
    BY <1>0, <1>12 DEF ExtractNothing, Entry
  <2> QED
    BY <1>0, <1>12, <2>1 DEF ExtractNothing, Busy
<1>13. CASE Store
  <2>1. entry'.status \in {"indexed", "name_only"} /\ entry'.attempts = 0
    BY <1>0, <1>13 DEF Store, Entry
  <2> QED
    BY <1>13, <2>1 DEF Store, Busy
<1>14. CASE Requeue
  <2>1. entry'.status # "failed" /\ entry'.attempts = entry.attempts
    BY <1>0, <1>14, RequeuedType DEF Requeue
  <2> QED
    BY <1>14, <2>1 DEF Requeue, Busy
<1>15. CASE Cut
    BY <1>0, <1>15, CutType, IndexAssumption
<1>16. CASE DropChunks
  <2>1. entry'.status = entry.status /\ entry'.attempts = entry.attempts
    BY <1>0, <1>16, DroppedType DEF DropChunks
  <2> QED
    BY <1>0, <1>16, <2>1 DEF DropChunks, Busy
<1> QED
    BY <1>1, <1>2, <1>3, <1>4, <1>5, <1>6, <1>7, <1>8, <1>9, <1>10, <1>11, <1>12, <1>13,
       <1>14, <1>15, <1>16
    DEF Next, Listing, ProcessOne

LEMMA CutsBefore ==
    ASSUME IndexInv, [Next]_vars, budget'.cuts = MaxCuts
    PROVE  budget.cuts = MaxCuts
<1>0. budget \in Budget /\ disk \in Disk
    BY DEF IndexInv, Typed
<1>1. CASE Edit
    BY <1>0, <1>1, EditType
<1>2. CASE WalkMisses
    BY <1>0, <1>2, SpendType DEF WalkMisses
<1>3. CASE DownloadFails
    BY <1>0, <1>3, SpendType DEF DownloadFails
<1>4. CASE ExtractFails
    BY <1>0, <1>4, UnreadType
<1>5. CASE Cut
    BY <1>0, <1>5, CutType, IndexAssumption DEF Budget
<1>6. CASE Listing /\ ~WalkMisses
    BY <1>6 DEF Listing, Begin, Walk, ApplyGone, ApplyNew, ApplySame, ApplyChanged, DropChunks
<1>7. CASE ProcessOne /\ ~DownloadFails /\ ~ExtractFails
    BY <1>7 DEF ProcessOne, Take, QueueEmpty, Download, Identical, Different,
                ExtractNothing, ExtractLocked, Extract, Store
<1>8. CASE Finish \/ Requeue \/ UNCHANGED vars
    BY <1>8 DEF Finish, Requeue, vars
<1> QED
    BY <1>1, <1>2, <1>3, <1>4, <1>5, <1>6, <1>7, <1>8 DEF Next

\* While every slice ends well, no version of a file is tried more than
\* MAX_ATTEMPTS times, however often it changes and whatever fails.
THEOREM TriedThrice == Spec => []ThreeAttempts
<1> DEFINE Inv == budget.cuts = MaxCuts => CountKept
<1>1. Init => Inv
    BY NoEntryType DEF Init, CountKept, Busy
<1>2. IndexInv /\ Inv => ThreeAttempts
    BY EntryFields, IndexAssumption DEF IndexInv, Typed, CountKept, ThreeAttempts
<1>3. IndexInv /\ Inv /\ [Next]_vars => Inv'
    BY CountNext, CutsBefore
<1> QED
    BY <1>1, <1>2, <1>3, IndexInit, IndexNext, PTL DEF Spec
=============================================================================
