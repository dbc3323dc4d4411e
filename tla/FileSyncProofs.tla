--------------------------- MODULE FileSyncProofs ---------------------------
(***************************************************************************)
(* Proofs about FileSync.                                                  *)
(***************************************************************************)
EXTENDS FileSync, TLAPS

-----------------------------------------------------------------------------
(* Type correctness.  The rows stay opaque in the proofs of the actions;   *)
(* these lemmas say what their updates are.                                *)

\* AtMost caps a count.
LEMMA AtMostBounds ==
    ASSUME NEW n \in Nat, NEW max \in Nat
    PROVE  AtMost(n, max) \in 0 .. max
BY DEF AtMost

Due2 == {"now", "later"}

LEMMA SourceFields ==
    ASSUME NEW s \in SourceRow
    PROVE  /\ s.state \in States /\ s.next \in Due2 /\ s.cont \in BOOLEAN
           /\ s.fails \in 0 .. 3 /\ s.told \in BOOLEAN
BY DEF SourceRow, Due2

LEMMA SourceUpdates ==
    ASSUME NEW s \in SourceRow
    PROVE  /\ \A st \in States : [s EXCEPT !.state = st] \in SourceRow
           /\ \A nx \in Due2 : [s EXCEPT !.next = nx] \in SourceRow
           /\ \A c \in BOOLEAN : [s EXCEPT !.cont = c] \in SourceRow
           /\ \A t \in BOOLEAN : [s EXCEPT !.told = t] \in SourceRow
           /\ \A st \in States, nx \in Due2 :
                 [s EXCEPT !.state = st, !.next = nx] \in SourceRow
           /\ \A st \in States, t \in BOOLEAN :
                 [s EXCEPT !.state = st, !.told = t] \in SourceRow
           /\ \A c \in BOOLEAN : [s EXCEPT !.fails = 0, !.cont = c] \in SourceRow
           /\ \A st \in States, nx \in Due2, f \in 0 .. 3, c \in BOOLEAN :
                 [s EXCEPT !.state = st, !.next = nx, !.fails = f, !.cont = c] \in SourceRow
<1>1. \A f \in 0 .. 3, c \in BOOLEAN : [s EXCEPT !.fails = f, !.cont = c] \in SourceRow
    BY DEF SourceRow
<1>2. 0 \in 0 .. 3
    OBVIOUS
<1>3. \A c \in BOOLEAN : [s EXCEPT !.fails = 0, !.cont = c] \in SourceRow
    BY <1>1, <1>2
<1>4. /\ \A st \in States : [s EXCEPT !.state = st] \in SourceRow
      /\ \A nx \in Due2 : [s EXCEPT !.next = nx] \in SourceRow
      /\ \A c \in BOOLEAN : [s EXCEPT !.cont = c] \in SourceRow
      /\ \A t \in BOOLEAN : [s EXCEPT !.told = t] \in SourceRow
      /\ \A st \in States, nx \in Due2 :
            [s EXCEPT !.state = st, !.next = nx] \in SourceRow
      /\ \A st \in States, t \in BOOLEAN :
            [s EXCEPT !.state = st, !.told = t] \in SourceRow
      /\ \A st \in States, nx \in Due2, f \in 0 .. 3, c \in BOOLEAN :
            [s EXCEPT !.state = st, !.next = nx, !.fails = f, !.cont = c] \in SourceRow
    BY DEF SourceRow, Due2
<1> QED
    BY <1>3, <1>4

RunStates == {"none", "running", "partial", "paused", "failed", "succeeded"}

LEMMA RunUpdates ==
    ASSUME NEW r \in RunRow
    PROVE  /\ r.partial \in 0 .. 2 /\ r.orphan \in BOOLEAN
           /\ \A status \in RunStates : Finished(r, status) \in RunRow
           /\ \A status \in RunStates, p \in 0 .. 2 :
                 [r EXCEPT !.own = status, !.partial = p] \in RunRow
           /\ \A status \in RunStates, o \in BOOLEAN :
                 [r EXCEPT !.own = status, !.orphan = o] \in RunRow
           /\ \A o \in BOOLEAN, p \in 0 .. 2 :
                 [r EXCEPT !.orphan = o, !.partial = p] \in RunRow
           /\ AtMost(r.partial + 1, 2) \in 0 .. 2
<1>1. r.partial \in 0 .. 2 /\ r.orphan \in BOOLEAN
    BY DEF RunRow
<1>2. ASSUME NEW status \in RunStates PROVE Finished(r, status) \in RunRow
  <2>1. (IF status = "partial" THEN AtMost(r.partial + 1, 2) ELSE r.partial) \in 0 .. 2
    BY <1>1 DEF AtMost
  <2> QED
    BY <2>1 DEF Finished, RunRow, RunStates
<1>3. /\ \A status \in RunStates, p \in 0 .. 2 :
            [r EXCEPT !.own = status, !.partial = p] \in RunRow
      /\ \A status \in RunStates, o \in BOOLEAN :
            [r EXCEPT !.own = status, !.orphan = o] \in RunRow
      /\ \A o \in BOOLEAN, p \in 0 .. 2 :
            [r EXCEPT !.orphan = o, !.partial = p] \in RunRow
    BY DEF RunRow, RunStates
<1>4. AtMost(r.partial + 1, 2) \in 0 .. 2
    BY <1>1 DEF AtMost
<1> QED
    BY <1>1, <1>2, <1>3, <1>4

LEMMA GhostFields ==
    ASSUME NEW g \in Ghost
    PROVE  /\ g.order \in {"no", "quiet", "working", "busy"}
           /\ g.edited \in BOOLEAN /\ g.mails \in 0 .. 2
BY DEF Ghost

LEMMA GhostUpdates ==
    ASSUME NEW g \in Ghost
    PROVE  /\ [g EXCEPT !.mails = AtMost(g.mails + 1, 2)] \in Ghost
           /\ \A e \in BOOLEAN : [g EXCEPT !.edited = e] \in Ghost
           /\ \A o \in {"no", "quiet", "working", "busy"} : [g EXCEPT !.order = o] \in Ghost
           /\ [g EXCEPT !.mails = 0] \in Ghost
           /\ [g EXCEPT !.edited = FALSE, !.mails = 0] \in Ghost
<1>1. AtMost(g.mails + 1, 2) \in 0 .. 2
    BY DEF Ghost, AtMost
<1>2. [g EXCEPT !.mails = AtMost(g.mails + 1, 2)] \in Ghost
    BY <1>1 DEF Ghost
<1>3. /\ \A e \in BOOLEAN : [g EXCEPT !.edited = e] \in Ghost
      /\ \A o \in {"no", "quiet", "working", "busy"} : [g EXCEPT !.order = o] \in Ghost
    BY DEF Ghost
<1>4. \A h \in Ghost : [h EXCEPT !.mails = 0] \in Ghost
    BY DEF Ghost
<1>5. [g EXCEPT !.edited = FALSE, !.mails = 0] = [[g EXCEPT !.edited = FALSE] EXCEPT !.mails = 0]
    OBVIOUS
<1>6. [g EXCEPT !.edited = FALSE, !.mails = 0] \in Ghost
    BY <1>3, <1>4, <1>5
<1> QED
    BY <1>2, <1>3, <1>4, <1>6

Budget == [admin : 0 .. MaxAdmin, outage : 0 .. MaxOutages,
           fault : 0 .. MaxFaults, crash : 0 .. MaxCrashes]

LEMMA SpendType ==
    ASSUME budget \in Budget, NEW what \in {"admin", "outage", "fault", "crash"}, Spend(what)
    PROVE  budget' \in Budget
<1> USE SyncAssumption
<1>1. CASE what = "admin"
    BY <1>1 DEF Budget, Spend
<1>2. CASE what = "outage"
    BY <1>2 DEF Budget, Spend
<1>3. CASE what = "fault"
    BY <1>3 DEF Budget, Spend
<1>4. CASE what = "crash"
    BY <1>4 DEF Budget, Spend
<1> QED
    BY <1>1, <1>2, <1>3, <1>4

\* TypeOK in two halves: the records, and what is not a record.
Records ==
    /\ src \in SourceRow /\ saw \in SourceRow /\ row \in RunRow /\ ghost \in Ghost
    /\ fin \in [left : BOOLEAN, seen : States] /\ budget \in Budget

Scalars ==
    /\ pending \in 0 .. MaxFiles /\ failed \in 0 .. MaxFiles
    /\ index \in BOOLEAN /\ age \in 0 .. PurgeAfter + 1
    /\ licence \in BOOLEAN /\ worker \in {"up", "down", "skips"}
    /\ lease \in {"free", "mine", "dead"}
    /\ pc \in Steps /\ cont \in BOOLEAN
    /\ batch \in 0 .. BatchSize /\ back \in {"release", "batch"}
    /\ asking \in States \cup {"none"} /\ selecting \in {"no", "saved", "over"}

LEMMA TypeHalves == TypeOK <=> Records /\ Scalars
BY DEF TypeOK, Records, Scalars, Budget

LEMMA TypeInit == Init => TypeOK
<1> SUFFICES ASSUME Init PROVE Records /\ Scalars
    BY TypeHalves
<1>1. NewSource \in SourceRow
    BY DEF NewSource, SourceRow, States
<1>2. row \in RunRow /\ ghost \in Ghost
    BY DEF Init, RunRow, Ghost
<1>3. fin \in [left : BOOLEAN, seen : States] /\ budget \in Budget
    BY SyncAssumption DEF Init, States, Budget
<1>4. Records
    BY <1>1, <1>2, <1>3 DEF Init, Records
<1>5. /\ pending = 0 /\ failed = 0 /\ age = 0 /\ batch = 0
      /\ index = FALSE /\ licence = TRUE /\ cont = FALSE
      /\ worker = "up" /\ lease = "free" /\ pc = "idle"
      /\ back = "release" /\ asking = "none" /\ selecting = "no"
    BY DEF Init
<1>6. index \in BOOLEAN /\ licence \in BOOLEAN /\ cont \in BOOLEAN
    BY <1>5
<1>7. Scalars
    BY <1>5, <1>6, SyncAssumption DEF Scalars, Steps
<1> QED
    BY <1>4, <1>7

LEMMA ScalarsNext == Records /\ Scalars /\ [Next]_vars => Scalars'
<1> SUFFICES ASSUME Records, Scalars, [Next]_vars PROVE Scalars'
    OBVIOUS
<1> USE SyncAssumption DEF Scalars, Steps, At, Go, files, local, outside, requests
<1>1. CASE Claim
    BY <1>1 DEF Claim
<1>2. CASE Read
    BY <1>2 DEF Read
<1>3. CASE LicenceDenied
    BY <1>3 DEF LicenceDenied, PauseFor
<1>4. CASE LicenceGranted
    BY <1>4, SourceFields DEF Records, LicenceGranted, Continuing
<1>5. CASE OpenRun
    BY <1>5 DEF OpenRun
<1>6. CASE MarkSyncing
    BY <1>6 DEF MarkSyncing
<1>7. CASE Connect
    BY <1>7 DEF Connect
<1>8. CASE Refused
    BY <1>8 DEF Refused
<1>9. CASE Unreachable
    BY <1>9 DEF Unreachable, AtMost
<1>10. CASE List
    BY <1>10 DEF List
<1>11. CASE ListOver
    BY <1>11 DEF ListOver
<1>12. CASE Over
    BY <1>12 DEF Over, PauseFor, Notified
<1>13. CASE TakeBatch
    BY <1>13 DEF TakeBatch, AtMost
<1>14. CASE QueueEmpty
    BY <1>14 DEF QueueEmpty
<1>15. CASE FileDone
    BY <1>15 DEF FileDone, AtMost
<1>16. CASE TextQuota
    BY <1>16 DEF TextQuota, PauseFor
<1>17. CASE EndBatch
    BY <1>17 DEF EndBatch
<1>18. CASE Finish
    BY <1>18 DEF Finish
<1>19. CASE ConcludePaused
    BY <1>19 DEF ConcludePaused
<1>20. CASE ConcludePartial
    BY <1>20 DEF ConcludePartial
<1>21. CASE ConcludeDone
    BY <1>21 DEF ConcludeDone, AtMost
<1>22. CASE MarkContinuation
    BY <1>22 DEF MarkContinuation
<1>23. CASE Settle
    BY <1>23 DEF Settle
<1>24. CASE CloseRun
    BY <1>24 DEF CloseRun
<1>25. CASE Caught
    BY <1>25 DEF Caught
<1>26. CASE Mail
    BY <1>26 DEF Mail
<1>27. CASE Tell
    BY <1>27 DEF Tell
<1>28. CASE MailError
    BY <1>28 DEF MailError
<1>29. CASE Release
  <2>1. /\ pc' = "idle" /\ cont' = FALSE /\ batch' = 0 /\ back' = "release"
        /\ lease' = "free" /\ worker' = worker
        /\ UNCHANGED <<pending, failed, index, age, licence, asking, selecting>>
    BY <1>29 DEF Release, Forget
  <2>2. index' \in BOOLEAN /\ licence' \in BOOLEAN /\ cont' \in BOOLEAN
    BY <2>1
  <2> QED
    BY <2>1, <2>2
<1>30. CASE ConnectFails
    BY <1>30 DEF ConnectFails
<1>31. CASE ExtractorDown
    BY <1>31 DEF ExtractorDown, Throw
<1>32. CASE ServerFails
    BY <1>32 DEF ServerFails, Throw
<1>33. CASE StatementFails
    BY <1>33 DEF StatementFails, Throw
<1>34. CASE Escape
    BY <1>34 DEF Escape, Throw
<1>35. CASE Crash
  <2>1. /\ pc' = "idle" /\ cont' = FALSE /\ batch' = 0 /\ back' = "release"
        /\ lease' \in {"dead", "free", lease} /\ worker' = "down"
        /\ UNCHANGED <<pending, failed, index, age, licence, asking, selecting>>
    BY <1>35 DEF Crash, Forget
  <2>2. index' \in BOOLEAN /\ licence' \in BOOLEAN /\ cont' \in BOOLEAN
    BY <2>1
  <2> QED
    BY <2>1, <2>2
<1>36. CASE LeaseExpires
    BY <1>36 DEF LeaseExpires
<1>37. CASE Restart
    BY <1>37 DEF Restart
<1>38. CASE Due
    BY <1>38 DEF Due, AtMost
<1>39. CASE IdleDay
    BY <1>39 DEF IdleDay
<1>40. CASE Sweep
  <2>1. /\ index' = FALSE /\ pending' = 0 /\ failed' = 0
        /\ UNCHANGED <<age, licence, worker, lease, pc, cont, batch, back, asking, selecting>>
    BY <1>40 DEF Sweep
  <2>2. index' \in BOOLEAN /\ licence' \in BOOLEAN /\ cont' \in BOOLEAN
    BY <2>1
  <2> QED
    BY <2>1, <2>2
<1>41. CASE Resume
    BY <1>41 DEF Resume, Admin
<1>42. CASE Pause
    BY <1>42 DEF Pause, Admin
<1>43. CASE AskSync
    BY <1>43, SourceFields DEF Records, AskSync
<1>44. CASE SyncNow
    BY <1>44 DEF SyncNow, Admin
<1>45. CASE SetSelection
    BY <1>45 DEF SetSelection
<1>46. CASE LicenceChange
    BY <1>46 DEF LicenceChange
<1>47. CASE UNCHANGED vars
    BY <1>47 DEF vars
<1>48. CASE ClaimLost
    BY <1>48 DEF ClaimLost
<1>49. CASE ReleaseFails
  <2>1. /\ pc' = "idle" /\ cont' = FALSE /\ batch' = 0 /\ back' = "release"
        /\ lease' \in {"dead", "free"} /\ worker' = "skips"
        /\ UNCHANGED <<pending, failed, index, age, licence, asking, selecting>>
    BY <1>49 DEF ReleaseFails, Forget
  <2>2. index' \in BOOLEAN /\ licence' \in BOOLEAN /\ cont' \in BOOLEAN
    BY <2>1
  <2> QED
    BY <2>1, <2>2
<1>50. CASE ReadSelected
    BY <1>50 DEF ReadSelected
<1>51. CASE BringForward
    BY <1>51 DEF BringForward
<1> QED
    BY <1>1, <1>2, <1>3, <1>4, <1>5, <1>6, <1>7, <1>8, <1>9, <1>10, <1>11, <1>12, <1>13, <1>14, <1>15, <1>16, <1>17, <1>18, <1>19, <1>20, <1>21, <1>22, <1>23, <1>24, <1>25, <1>26, <1>27, <1>28, <1>29, <1>30, <1>31, <1>32, <1>33, <1>34, <1>35, <1>36, <1>37, <1>38, <1>39, <1>40, <1>41, <1>42, <1>43, <1>44, <1>45, <1>46, <1>47,
       <1>48, <1>49, <1>50, <1>51
       DEF Next, Slice, Trouble, Administration

LEMMA RecordsNext == Records /\ Scalars /\ [Next]_vars => Records'
<1> SUFFICES ASSUME Records, Scalars, [Next]_vars PROVE Records'
    OBVIOUS
<1> USE DEF Records, local, outside, requests
<1>1. CASE Claim
    BY <1>1 DEF Claim
<1>2. CASE Read
    BY <1>2 DEF Read
<1>3. CASE LicenceDenied
    BY <1>3, SourceFields, SourceUpdates, GhostUpdates DEF LicenceDenied, PauseFor, States, Due2
<1>4. CASE LicenceGranted
  <2>1. UNCHANGED <<saw, row, fin, budget>>
    BY <1>4 DEF LicenceGranted
  <2>2. src' \in SourceRow /\ ghost' \in Ghost
    BY <1>4, SourceUpdates, GhostUpdates DEF LicenceGranted, WriteAfresh, States
  <2> QED
    BY <2>1, <2>2
<1>5. CASE OpenRun
  <2>1. UNCHANGED <<src, saw, ghost, fin, budget>>
    BY <1>5 DEF OpenRun
  <2>2. row' \in RunRow
    <3>1. PICK p \in 0 .. 2 : row' = [row EXCEPT !.own = "running", !.partial = p]
      BY <1>5 DEF OpenRun
    <3> QED
      BY <3>1, RunUpdates DEF RunStates
  <2> QED
    BY <2>1, <2>2
<1>6. CASE MarkSyncing
    BY <1>6, SourceFields, SourceUpdates DEF MarkSyncing, Write, States
<1>7. CASE Connect
    BY <1>7 DEF Connect
<1>8. CASE Refused
    BY <1>8, RunUpdates DEF Refused, RunStates
<1>9. CASE Unreachable
  <2>1. UNCHANGED <<saw, row, fin, budget>>
    BY <1>9 DEF Unreachable
  <2>2. AtMost(saw.fails + 1, 3) \in 0 .. 3
    BY SourceFields DEF AtMost
  <2>3. src' \in SourceRow /\ ghost' \in Ghost
    BY <1>9, <2>2, SourceUpdates DEF Unreachable, Write, States, Due2
  <2> QED
    BY <2>1, <2>3
<1>10. CASE List
  <2> DEFINE new == [src EXCEPT !.fails = 0, !.cont = saw.cont]
  <2>1. UNCHANGED <<saw, row, fin, budget>>
    BY <1>10 DEF List
  <2>2. new \in SourceRow
    <3>1. saw.cont \in BOOLEAN
      BY SourceFields
    <3> QED
      BY <3>1, SourceUpdates
  <2>3. src' \in {new, [new EXCEPT !.state = "syncing", !.told = FALSE]}
    BY <1>10 DEF List
  <2>4. src' \in SourceRow
    BY <2>2, <2>3, SourceUpdates DEF States
  <2>5. ghost' \in Ghost
    BY <1>10, GhostFields, GhostUpdates DEF List
  <2> QED
    BY <2>1, <2>4, <2>5
<1>11. CASE ListOver
  <2>1. UNCHANGED <<saw, fin, budget>>
    BY <1>11 DEF ListOver
  <2>2. src' \in SourceRow
    <3>1. saw.cont \in BOOLEAN
      BY SourceFields
    <3> QED
      BY <1>11, <3>1, SourceUpdates DEF ListOver
  <2>3. row' \in RunRow
    BY <1>11, RunUpdates DEF ListOver, RunStates
  <2>4. ghost' \in Ghost
    BY <1>11, GhostFields, GhostUpdates DEF ListOver
  <2> QED
    BY <2>1, <2>2, <2>3, <2>4
<1>12. CASE Over
    BY <1>12, SourceFields, SourceUpdates DEF Over, PauseFor, Write, States, Due2
<1>13. CASE TakeBatch
    BY <1>13 DEF TakeBatch
<1>14. CASE QueueEmpty
    BY <1>14 DEF QueueEmpty
<1>15. CASE FileDone
    BY <1>15 DEF FileDone
<1>16. CASE TextQuota
    BY <1>16, SourceFields, SourceUpdates DEF TextQuota, PauseFor, Write, States, Due2
<1>17. CASE EndBatch
    BY <1>17 DEF EndBatch
<1>18. CASE Finish
    BY <1>18, SourceFields DEF Finish
<1>19. CASE ConcludePaused
    BY <1>19, RunUpdates DEF ConcludePaused, RunStates
<1>20. CASE ConcludePartial
    BY <1>20, RunUpdates DEF ConcludePartial, RunStates
<1>21. CASE ConcludeDone
    BY <1>21, RunUpdates DEF ConcludeDone, RunStates
<1>22. CASE MarkContinuation
    BY <1>22, SourceFields, SourceUpdates DEF MarkContinuation
<1>23. CASE Settle
    BY <1>23, SourceFields, SourceUpdates DEF Settle, Write, StateAfter, NextAfter, States, Due2
<1>24. CASE CloseRun
    BY <1>24, RunUpdates DEF CloseRun, RunStates
<1>25. CASE Caught
    BY <1>25, SourceFields, SourceUpdates DEF Caught, Write, States, Due2
<1>26. CASE Mail
    BY <1>26, GhostFields, GhostUpdates DEF Mail
<1>27. CASE Tell
    BY <1>27, SourceFields, SourceUpdates DEF Tell
<1>28. CASE MailError
    BY <1>28, GhostFields, GhostUpdates DEF MailError
<1>29. CASE Release
  <2>1. UNCHANGED budget
    BY <1>29 DEF Release
  <2>2. src' \in SourceRow /\ saw' \in SourceRow
    BY <1>29 DEF Release, Forget, NewSource, SourceRow, States
  <2>3. row' \in RunRow
    BY <1>29, RunUpdates DEF Release, Forget, RunStates
  <2>4. ghost' \in Ghost
    BY <1>29 DEF Release
  <2>5. fin' \in [left : BOOLEAN, seen : States]
    BY <1>29 DEF Release, Forget, States
  <2> QED
    BY <2>1, <2>2, <2>3, <2>4, <2>5
<1>30. CASE ConnectFails
    BY <1>30, SpendType DEF ConnectFails
<1>31. CASE ExtractorDown
    BY <1>31, SpendType DEF ExtractorDown, Throw
<1>32. CASE ServerFails
    BY <1>32, SpendType DEF ServerFails, Throw
<1>33. CASE StatementFails
    BY <1>33, SpendType DEF StatementFails, Throw
<1>34. CASE Escape
    BY <1>34, SpendType DEF Escape, Throw
<1>35. CASE Crash
  <2>1. budget' \in Budget
    BY <1>35, SpendType DEF Crash
  <2>2. src' \in SourceRow /\ saw' \in SourceRow
    BY <1>35 DEF Crash, Forget, NewSource, SourceRow, States
  <2>3. row' \in RunRow
    BY <1>35, RunUpdates DEF Crash, Forget, RunStates
  <2>4. ghost' \in Ghost
    BY <1>35 DEF Crash
  <2>5. fin' \in [left : BOOLEAN, seen : States]
    BY <1>35 DEF Crash, Forget, States
  <2> QED
    BY <2>1, <2>2, <2>3, <2>4, <2>5
<1>36. CASE LeaseExpires
    BY <1>36 DEF LeaseExpires
<1>37. CASE Restart
    BY <1>37, RunUpdates DEF Restart, RunStates
<1>38. CASE Due
    BY <1>38, SourceFields, SourceUpdates DEF Due, Due2
<1>39. CASE IdleDay
    BY <1>39 DEF IdleDay
<1>40. CASE Sweep
    BY <1>40 DEF Sweep
<1>41. CASE Resume
    BY <1>41, SourceFields, SourceUpdates, GhostFields, GhostUpdates, SpendType DEF Resume, Admin, States, Due2
<1>42. CASE Pause
    BY <1>42, SourceFields, SourceUpdates, GhostFields, GhostUpdates, SpendType DEF Pause, Admin, States
<1>43. CASE AskSync
    BY <1>43, SpendType DEF AskSync
<1>44. CASE SyncNow
  <2>1. UNCHANGED <<saw, row, fin, budget>>
    BY <1>44 DEF SyncNow, Admin
  <2>2. src' \in SourceRow
    BY <1>44, SourceUpdates DEF SyncNow, Admin, States, Due2
  <2>3. \E o \in {"no", "quiet", "working", "busy"} : ghost' = [ghost EXCEPT !.order = o]
    BY <1>44, GhostFields DEF SyncNow, Admin
  <2> QED
    BY <2>1, <2>2, <2>3, GhostUpdates
<1>45. CASE SetSelection
    BY <1>45, SourceFields, SourceUpdates, GhostFields, GhostUpdates, SpendType DEF SetSelection, Due2
<1>46. CASE LicenceChange
    BY <1>46, SpendType DEF LicenceChange
<1>47. CASE UNCHANGED vars
    BY <1>47 DEF vars
<1>48. CASE ClaimLost
    BY <1>48, SpendType DEF ClaimLost
<1>49. CASE ReleaseFails
  <2>1. budget' \in Budget
    BY <1>49, SpendType DEF ReleaseFails
  <2>2. src' \in SourceRow /\ saw' \in SourceRow
    BY <1>49 DEF ReleaseFails, Forget, NewSource, SourceRow, States
  <2>3. row' \in RunRow
    BY <1>49, RunUpdates DEF ReleaseFails, Forget, RunStates
  <2>4. ghost' \in Ghost
    BY <1>49 DEF ReleaseFails
  <2>5. fin' \in [left : BOOLEAN, seen : States]
    BY <1>49 DEF ReleaseFails, Forget, States
  <2> QED
    BY <2>1, <2>2, <2>3, <2>4, <2>5
<1>50. CASE ReadSelected
    BY <1>50 DEF ReadSelected
<1>51. CASE BringForward
    BY <1>51, SourceFields, SourceUpdates DEF BringForward, Due2
<1> QED
    BY <1>1, <1>2, <1>3, <1>4, <1>5, <1>6, <1>7, <1>8, <1>9, <1>10, <1>11, <1>12, <1>13, <1>14, <1>15, <1>16, <1>17, <1>18, <1>19, <1>20, <1>21, <1>22, <1>23, <1>24, <1>25, <1>26, <1>27, <1>28, <1>29, <1>30, <1>31, <1>32, <1>33, <1>34, <1>35, <1>36, <1>37, <1>38, <1>39, <1>40, <1>41, <1>42, <1>43, <1>44, <1>45, <1>46, <1>47,
       <1>48, <1>49, <1>50, <1>51
       DEF Next, Slice, Trouble, Administration

\* Every variable keeps its type, for every bound: the rows, the slice's
\* memory and what the properties remember.
THEOREM TypeCorrect == Spec => []TypeOK
<1>1. TypeOK /\ [Next]_vars => TypeOK'
  <2> SUFFICES ASSUME TypeOK, [Next]_vars PROVE TypeOK'
      OBVIOUS
  <2>1. Records /\ Scalars
    BY TypeHalves
  <2>2. Records' /\ Scalars'
    BY <2>1, RecordsNext, ScalarsNext
  <2> QED
    BY <2>2, TypeHalves DEF TypeOK, Records, Scalars, Budget
<1> QED
    BY <1>1, TypeInit, PTL DEF Spec

-----------------------------------------------------------------------------
(* A source that is syncing is due.  A slice writes syncing only before it *)
(* lists, at the end of a listing of a source paused for its quota, or     *)
(* together with a next sync of now; until the listing has ended nothing   *)
(* moves the next sync away from the time the claim found.                 *)

Unlisted == {"read", "licence", "open", "mark", "connect", "list"}

DueInv ==
    /\ src.state = "syncing" => src.next = "now"
    /\ pc \in Unlisted => src.next = "now"

LEMMA DueNext == TypeOK /\ DueInv /\ [Next]_vars => DueInv'
<1> SUFFICES ASSUME TypeOK, DueInv, [Next]_vars PROVE DueInv'
    OBVIOUS
<1>0. src \in SourceRow
    BY DEF TypeOK
<1> USE <1>0 DEF DueInv, Unlisted, SourceRow, At, Go, local, outside, requests
<1>1. CASE Claim
    BY <1>1 DEF Claim
<1>2. CASE Read
    BY <1>2 DEF Read, SkipStates
<1>3. CASE LicenceDenied
    BY <1>3 DEF LicenceDenied, PauseFor, Write
<1>4. CASE LicenceGranted
    BY <1>4 DEF LicenceGranted, Write, WriteAfresh
<1>5. CASE OpenRun
    BY <1>5 DEF OpenRun
<1>6. CASE MarkSyncing
    BY <1>6 DEF MarkSyncing, Write
<1>7. CASE Connect
    BY <1>7 DEF Connect
<1>8. CASE Refused
    BY <1>8 DEF Refused
<1>9. CASE Unreachable
    BY <1>9 DEF Unreachable, Write
<1>10. CASE List
    BY <1>10 DEF List
<1>11. CASE ListOver
    BY <1>11 DEF ListOver
<1>12. CASE Over
    BY <1>12 DEF Over, PauseFor, Notified, Write
<1>13. CASE TakeBatch
    BY <1>13 DEF TakeBatch
<1>14. CASE QueueEmpty
    BY <1>14 DEF QueueEmpty
<1>15. CASE FileDone
    BY <1>15 DEF FileDone
<1>16. CASE TextQuota
    BY <1>16 DEF TextQuota, PauseFor, Write
<1>17. CASE EndBatch
    BY <1>17 DEF EndBatch
<1>18. CASE Finish
    BY <1>18 DEF Finish
<1>19. CASE ConcludePaused
    BY <1>19 DEF ConcludePaused
<1>20. CASE ConcludePartial
    BY <1>20 DEF ConcludePartial
<1>21. CASE ConcludeDone
    BY <1>21 DEF ConcludeDone
<1>22. CASE MarkContinuation
    BY <1>22 DEF MarkContinuation
<1>23. CASE Settle
    BY <1>23 DEF Settle, StateAfter, NextAfter, Write
<1>24. CASE CloseRun
    BY <1>24 DEF CloseRun
<1>25. CASE Caught
    BY <1>25 DEF Caught, Write
<1>26. CASE Mail
    BY <1>26 DEF Mail, TypeOK
<1>27. CASE Tell
    BY <1>27 DEF Tell, TypeOK
<1>28. CASE MailError
    BY <1>28 DEF MailError
<1>29. CASE Release
    BY <1>29 DEF Release, Forget
<1>30. CASE ConnectFails
    BY <1>30 DEF ConnectFails
<1>31. CASE ExtractorDown
    BY <1>31 DEF ExtractorDown, Throw
<1>32. CASE ServerFails
    BY <1>32 DEF ServerFails, Throw
<1>33. CASE StatementFails
    BY <1>33 DEF StatementFails, Throw
<1>34. CASE Escape
    BY <1>34 DEF Escape, Throw
<1>35. CASE Crash
    BY <1>35 DEF Crash, Forget
<1>36. CASE LeaseExpires
    BY <1>36 DEF LeaseExpires
<1>37. CASE Restart
    BY <1>37 DEF Restart
<1>38. CASE Due
    BY <1>38 DEF Due
<1>39. CASE IdleDay
    BY <1>39 DEF IdleDay
<1>40. CASE Sweep
    BY <1>40 DEF Sweep
<1>41. CASE Resume
    BY <1>41 DEF Resume, Admin
<1>42. CASE Pause
    BY <1>42 DEF Pause, Admin
<1>43. CASE AskSync
    BY <1>43 DEF AskSync
<1>44. CASE SyncNow
    BY <1>44 DEF SyncNow, Admin
<1>45. CASE SetSelection
    BY <1>45 DEF SetSelection
<1>46. CASE LicenceChange
    BY <1>46 DEF LicenceChange
<1>47. CASE UNCHANGED vars
    BY <1>47 DEF vars
<1>48. CASE ClaimLost
    BY <1>48 DEF ClaimLost
<1>49. CASE ReleaseFails
    BY <1>49 DEF ReleaseFails, Forget
<1>50. CASE ReadSelected
    BY <1>50 DEF ReadSelected
<1>51. CASE BringForward
    BY <1>51 DEF BringForward
<1> QED
    BY <1>1, <1>2, <1>3, <1>4, <1>5, <1>6, <1>7, <1>8, <1>9, <1>10, <1>11, <1>12, <1>13, <1>14, <1>15, <1>16, <1>17, <1>18, <1>19, <1>20, <1>21, <1>22, <1>23, <1>24, <1>25, <1>26, <1>27, <1>28, <1>29, <1>30, <1>31, <1>32, <1>33, <1>34, <1>35, <1>36, <1>37, <1>38, <1>39, <1>40, <1>41, <1>42, <1>43, <1>44, <1>45, <1>46, <1>47,
       <1>48, <1>49, <1>50, <1>51
       DEF Next, Slice, Trouble, Administration

\* A source left in syncing between two slices is due at once, whatever fails,
\* crashes or is changed in between, for every bound.
THEOREM SyncingContinues == Spec => []SyncingIsContinued
<1>1. Init => DueInv
    BY DEF Init, NewSource, DueInv, Unlisted
<1>2. DueInv => SyncingIsContinued
    BY DEF DueInv, SyncingIsContinued
<1> QED
    BY <1>1, <1>2, DueNext, TypeCorrect, PTL DEF Spec

-----------------------------------------------------------------------------
(* An administrator's pause.  One that comes between slices or before the  *)
(* slice reads leaves the slice only the way out; one that comes during    *)
(* the queue is what the slice reads at its end, and is written again.     *)

PauseInv ==
    /\ ghost.order \in {"quiet", "working"} => src.state = "paused_admin"
    /\ ghost.order = "quiet" => pc \in {"idle", "read", "release"}
    /\ ghost.order = "working" =>
          pc \in {"idle", "work", "batch", "finish", "conclude", "continue", "settle", "release"}
    /\ ghost.order = "working" /\ pc \in {"conclude", "continue", "settle"} =>
          fin.seen = "paused_admin"

LEMMA PauseNext ==
    ASSUME ~TextLimit, TypeOK, PauseInv, [Next]_vars, Unfailing'
    PROVE  PauseInv'
<1>0. src \in SourceRow /\ ghost \in Ghost
    BY DEF TypeOK
<1>a. ~Spend("outage") /\ ~Spend("fault")
    BY SyncAssumption DEF TypeOK, Spend, Unfailing
<1> USE <1>0 DEF PauseInv, SourceRow, Ghost, At, Go, local, outside, requests
<1>1. CASE Claim
    BY <1>1 DEF Claim, Eligible
<1>2. CASE Read
    BY <1>2 DEF Read, SkipStates
<1>3. CASE LicenceDenied
    BY <1>3 DEF LicenceDenied, PauseFor, Write
<1>4. CASE LicenceGranted
    BY <1>4 DEF LicenceGranted, Write, WriteAfresh
<1>5. CASE OpenRun
    BY <1>5 DEF OpenRun
<1>6. CASE MarkSyncing
    BY <1>6 DEF MarkSyncing, Write
<1>7. CASE Connect
    BY <1>7 DEF Connect
<1>8. CASE Refused
    BY <1>8 DEF Refused
<1>9. CASE Unreachable
    BY <1>9 DEF Unreachable, Write
<1>10. CASE List
    BY <1>10 DEF List
<1>11. CASE ListOver
    BY <1>11 DEF ListOver
<1>12. CASE Over
    BY <1>12 DEF Over, PauseFor, Notified, Write
<1>13. CASE TakeBatch
    BY <1>13 DEF TakeBatch
<1>14. CASE QueueEmpty
    BY <1>14 DEF QueueEmpty
<1>15. CASE FileDone
    BY <1>15 DEF FileDone
<1>16. CASE TextQuota
    BY <1>16 DEF TextQuota, PauseFor, Write
<1>17. CASE EndBatch
    BY <1>17 DEF EndBatch
<1>18. CASE Finish
    BY <1>18 DEF Finish
<1>19. CASE ConcludePaused
    BY <1>19 DEF ConcludePaused
<1>20. CASE ConcludePartial
    BY <1>20 DEF ConcludePartial
<1>21. CASE ConcludeDone
    BY <1>21 DEF ConcludeDone
<1>22. CASE MarkContinuation
    BY <1>22 DEF MarkContinuation
<1>23. CASE Settle
    BY <1>23 DEF Settle, StateAfter, NextAfter, Write
<1>24. CASE CloseRun
    BY <1>24 DEF CloseRun
<1>25. CASE Caught
    BY <1>25 DEF Caught, Write
<1>26. CASE Mail
    BY <1>26 DEF Mail, TypeOK
<1>27. CASE Tell
    BY <1>27 DEF Tell, TypeOK
<1>28. CASE MailError
    BY <1>28 DEF MailError
<1>29. CASE Release
    BY <1>29 DEF Release, Forget
<1>30. CASE ConnectFails
    BY <1>30 DEF ConnectFails
<1>31. CASE ExtractorDown
    BY <1>31, <1>a DEF ExtractorDown, Throw
<1>32. CASE ServerFails
    BY <1>32 DEF ServerFails, Throw
<1>33. CASE StatementFails
    BY <1>33, <1>a DEF StatementFails, Throw
<1>34. CASE Escape
    BY <1>34 DEF Escape, Throw
<1>35. CASE Crash
    BY <1>35 DEF Crash, Forget
<1>36. CASE LeaseExpires
    BY <1>36 DEF LeaseExpires
<1>37. CASE Restart
    BY <1>37 DEF Restart
<1>38. CASE Due
    BY <1>38 DEF Due
<1>39. CASE IdleDay
    BY <1>39 DEF IdleDay
<1>40. CASE Sweep
    BY <1>40 DEF Sweep
<1>41. CASE Resume
    BY <1>41 DEF Resume, Admin
<1>42. CASE Pause
    BY <1>42 DEF Pause, Admin
<1>43. CASE AskSync
    BY <1>43 DEF AskSync
<1>44. CASE SyncNow
    BY <1>44 DEF SyncNow, Admin
<1>45. CASE SetSelection
    BY <1>45 DEF SetSelection
<1>46. CASE LicenceChange
    BY <1>46 DEF LicenceChange
<1>47. CASE UNCHANGED vars
    BY <1>47 DEF vars
<1>48. CASE ClaimLost
    BY <1>48 DEF ClaimLost
<1>49. CASE ReleaseFails
    BY <1>49 DEF ReleaseFails, Forget
<1>50. CASE ReadSelected
    BY <1>50 DEF ReadSelected
<1>51. CASE BringForward
    BY <1>51 DEF BringForward
<1> QED
    BY <1>1, <1>2, <1>3, <1>4, <1>5, <1>6, <1>7, <1>8, <1>9, <1>10, <1>11, <1>12, <1>13, <1>14, <1>15, <1>16, <1>17, <1>18, <1>19, <1>20, <1>21, <1>22, <1>23, <1>24, <1>25, <1>26, <1>27, <1>28, <1>29, <1>30, <1>31, <1>32, <1>33, <1>34, <1>35, <1>36, <1>37, <1>38, <1>39, <1>40, <1>41, <1>42, <1>43, <1>44, <1>45, <1>46, <1>47,
       <1>48, <1>49, <1>50, <1>51
       DEF Next, Slice, Trouble, Administration

\* The bounded steps are paid for one at a time.
LEMMA BudgetStep ==
    ASSUME [Next]_vars
    PROVE  budget' = budget \/ \E what \in {"admin", "outage", "fault", "crash"} : Spend(what)
<1>1. CASE Slice
    BY <1>1 DEF Slice, Read, LicenceDenied, LicenceGranted, OpenRun, MarkSyncing,
                Connect, Refused, Unreachable, List, ListOver, Over, TakeBatch,
                QueueEmpty, FileDone, TextQuota, EndBatch, Finish, ConcludePaused,
                ConcludePartial, ConcludeDone, MarkContinuation, Settle, CloseRun,
                Caught, Mail, Tell, MailError, Release, PauseFor, outside, requests
<1>2. CASE Trouble
    BY <1>2 DEF Trouble, ClaimLost, ConnectFails, ExtractorDown, ServerFails,
                StatementFails, Escape, ReleaseFails, Crash, Throw
<1>3. CASE Administration
    BY <1>3 DEF Administration, Resume, Pause, AskSync, SyncNow, SetSelection,
                ReadSelected, BringForward, LicenceChange
<1>4. CASE Claim \/ LeaseExpires \/ Restart \/ Due \/ IdleDay \/ Sweep \/ UNCHANGED vars
    BY <1>4 DEF Claim, LeaseExpires, Restart, Due, IdleDay, Sweep, vars, outside
<1> QED
    BY <1>1, <1>2, <1>3, <1>4 DEF Next

\* A failure is not forgotten.
LEMMA FailuresCounted ==
    ASSUME TypeOK, [Next]_vars
    PROVE  /\ Unfailing' => Unfailing
           /\ Undisturbed' => Undisturbed
<1> USE DEF TypeOK, Spend, Unfailing, Undisturbed
<1>2. CASE budget' = budget
  BY <1>2
<1>3. CASE Spend("admin")
  BY <1>3
<1>4. CASE Spend("crash")
  BY <1>4, SyncAssumption
<1>5. CASE Spend("outage")
  BY <1>5, SyncAssumption
<1>6. CASE Spend("fault")
  BY <1>6, SyncAssumption
<1> QED
  BY BudgetStep, <1>2, <1>3, <1>4, <1>5, <1>6

\* A step that pays for a failing statement or a crash disturbs.
LEMMA NothingDisturbs ==
    ASSUME TypeOK, Undisturbed'
    PROVE  ~Spend("fault") /\ ~Spend("crash")
BY SyncAssumption DEF TypeOK, Spend, Undisturbed

\* An administrator's pause that comes between slices or while a slice works
\* on the queue stays until somebody resumes the source, for any number of
\* files, batches, crashes and administrators, as long as nothing else fails.
THEOREM PauseStays ==
    ASSUME ~TextLimit
    PROVE  Spec => []PauseIsKept
<1> DEFINE Inv == Unfailing => PauseInv
<1>1. Init => Inv
    BY DEF Init, PauseInv
<1>2. Inv => PauseIsKept
    BY DEF PauseInv, PauseIsKept
<1>3. TypeOK /\ Inv /\ [Next]_vars => Inv'
    BY PauseNext, FailuresCounted
<1> QED
    BY <1>1, <1>2, <1>3, TypeCorrect, PTL DEF Spec

-----------------------------------------------------------------------------
(* The history.  A row says running from the moment the slice opens it to  *)
(* the finishRun of whatever way out the slice takes; a text quota sends   *)
(* its e-mail while the row is open and comes back to the batch.           *)

\* Where a slice may be while its row says running.
RowOpen ==
    \/ pc \in {"mark", "connect", "refused", "list", "work", "batch", "finish",
               "conclude", "close_failed", "close_partial"}
    \/ pc \in {"mail", "tell"} /\ back = "batch"

RowInv ==
    /\ ~row.orphan
    /\ row.own = "running" => RowOpen

\* What closing a row writes.
LEMMA FinishedRow ==
    ASSUME NEW r \in RunRow, NEW status
    PROVE  /\ Finished(r, status).own = status
           /\ Finished(r, status).orphan = r.orphan
           /\ Finished(r, status).partial =
                 IF status = "partial" THEN AtMost(r.partial + 1, 2) ELSE r.partial
BY DEF Finished, RunRow

LEMMA RowNext ==
    ASSUME TypeOK, RowInv, [Next]_vars, Undisturbed'
    PROVE  RowInv'
<1>0. row \in RunRow
    BY DEF TypeOK
<1>a. ~Spend("fault") /\ ~Spend("crash")
    BY NothingDisturbs
<1> USE <1>0 DEF RowInv, RowOpen, At, Go, local, outside, requests
<1>1. CASE OpenRun
  <2>1. PICK p \in 0 .. 2 : row' = [row EXCEPT !.own = "running", !.partial = p]
    BY <1>1 DEF OpenRun
  <2>2. pc' = "mark"
    BY <1>1 DEF OpenRun
  <2> QED
    BY <2>1, <2>2 DEF RunRow
<1>2. CASE Refused
    BY <1>2, FinishedRow DEF Refused
<1>3. CASE ListOver
    BY <1>3, FinishedRow DEF ListOver
<1>4. CASE ConcludePaused \/ ConcludePartial \/ ConcludeDone
    BY <1>4, FinishedRow DEF ConcludePaused, ConcludePartial, ConcludeDone
<1>5. CASE CloseRun
  <2>1. \E status \in {"partial", "failed"} : row' = Finished(row, status)
    BY <1>5 DEF CloseRun
  <2> QED
    BY <2>1, FinishedRow
<1>6. CASE Release
  <2>1. row.own # "running"
    BY <1>6 DEF Release
  <2>2. row' = [row EXCEPT !.own = "none", !.orphan = @ \/ row.own = "running"]
    BY <1>6 DEF Release, Forget
  <2> QED
    BY <2>1, <2>2 DEF RunRow
<1>7. CASE Restart
    BY <1>7 DEF Restart, RunRow
<1>8. CASE Claim \/ Read \/ LicenceDenied \/ LicenceGranted \/ MarkSyncing \/ Connect
           \/ ConnectFails \/ Unreachable
    BY <1>8 DEF Claim, Read, LicenceDenied, LicenceGranted, MarkSyncing, Connect, ConnectFails,
       Unreachable, PauseFor
<1>9. CASE List \/ ServerFails \/ Over
    BY <1>9 DEF List, ServerFails, Over, PauseFor, Notified, Throw
<1>10. CASE TakeBatch \/ QueueEmpty \/ FileDone \/ TextQuota \/ EndBatch \/ ExtractorDown
    BY <1>10 DEF TakeBatch, QueueEmpty, FileDone, TextQuota, EndBatch, ExtractorDown,
       PauseFor, Throw
<1>11. CASE Finish \/ MarkContinuation \/ Settle \/ Caught
    BY <1>11 DEF Finish, MarkContinuation, Settle, Caught
<1>12. CASE Mail \/ Tell \/ MailError
    BY <1>12 DEF Mail, Tell, MailError, TypeOK
<1>13. CASE ClaimLost \/ StatementFails \/ Escape \/ ReleaseFails \/ Crash
    BY <1>13, <1>a DEF ClaimLost, StatementFails, Escape, ReleaseFails, Crash, Throw
<1>14. CASE LeaseExpires \/ Due \/ IdleDay \/ Sweep \/ UNCHANGED vars
    BY <1>14 DEF LeaseExpires, Due, IdleDay, Sweep, vars
<1>15. CASE Administration
    BY <1>15 DEF Administration, Resume, Pause, AskSync, SyncNow, SetSelection,
       ReadSelected, BringForward, LicenceChange, Admin
<1> QED
    BY <1>1, <1>2, <1>3, <1>4, <1>5, <1>6, <1>7, <1>8, <1>9, <1>10, <1>11, <1>12, <1>13,
       <1>14, <1>15 DEF Next, Slice, Trouble

\* Every slice that is not killed and whose statements succeed leaves a closed
\* row, for any number of files, outages, quotas and changes by administrators.
THEOREM RowsAreClosed == Spec => []RunRowClosed
<1> DEFINE Inv == Undisturbed => RowInv
<1>1. Init => Inv
    BY DEF Init, RowInv
<1>2. Inv => RunRowClosed
    BY DEF RowInv, RunRowClosed
<1>3. TypeOK /\ Inv /\ [Next]_vars => Inv'
    BY RowNext, FailuresCounted
<1> QED
    BY <1>1, <1>2, <1>3, TypeCorrect, PTL DEF Spec

-----------------------------------------------------------------------------
(* The continuation.  stats.continuePending and the state syncing together *)
(* say that the last run of the source ended as partial.  The marker alone *)
(* does not: it outlives a pause.                                          *)

Marked(s) == s.state = "syncing" /\ s.cont

\* Waypoints at which the source is not, or no longer, marked syncing.
Unsynced ==
    /\ pc = "conclude" /\ fin.seen = "paused_quota" => src.state # "syncing"
    /\ pc \in {"mail", "tell"} /\ back = "release" => src.state # "syncing"
    /\ pc = "mail_error" => src.state # "syncing"

HasPartial ==
    /\ pc \in {"idle", "read", "release"} /\ Marked(src) => row.partial > 0
    /\ pc = "licence" /\ Marked(saw) => row.partial > 0
    /\ pc = "open" /\ cont => row.partial > 0
    /\ pc \in {"continue", "settle"} /\ fin.left => row.partial > 0

PartialInv == Unsynced /\ HasPartial

LEMMA PartialNext ==
    ASSUME TypeOK, PartialInv, [Next]_vars, Undisturbed'
    PROVE  PartialInv'
<1>0. src \in SourceRow /\ row \in RunRow /\ row.partial \in 0 .. 2
    BY DEF TypeOK, RunRow
<1>a. ~Spend("fault") /\ ~Spend("crash")
    BY NothingDisturbs
<1> USE <1>0 DEF PartialInv, Unsynced, HasPartial, Marked, SourceRow, At, Go, local, outside, requests
<1>1. CASE Claim \/ Read
    BY <1>1 DEF Claim, Read
<1>2. CASE LicenceDenied
    BY <1>2 DEF LicenceDenied, PauseFor, Write
<1>3. CASE LicenceGranted
  <2>1. pc' = "open" /\ cont' = Continuing(saw) /\ UNCHANGED row /\ pc = "licence"
    BY <1>3 DEF LicenceGranted
  <2>2. cont' => Marked(saw)
    BY <2>1 DEF Continuing
  <2> QED
    BY <2>1, <2>2
<1>4. CASE OpenRun \/ MarkSyncing \/ Connect \/ ConnectFails
    BY <1>4 DEF OpenRun, MarkSyncing, Connect, ConnectFails
<1>5. CASE Refused
    BY <1>5 DEF Refused
<1>6. CASE Unreachable
    BY <1>6 DEF Unreachable, Write
<1>7. CASE List \/ ListOver \/ ServerFails
    BY <1>7 DEF List, ListOver, ServerFails, Throw
<1>8. CASE Over
    BY <1>8 DEF Over, PauseFor, Notified, Write
<1>9. CASE TakeBatch \/ QueueEmpty \/ FileDone \/ EndBatch \/ ExtractorDown
    BY <1>9 DEF TakeBatch, QueueEmpty, FileDone, EndBatch, ExtractorDown, Throw
<1>10. CASE TextQuota
    BY <1>10 DEF TextQuota, PauseFor, Write
<1>11. CASE Finish
    BY <1>11 DEF Finish
<1>12. CASE ConcludePaused
    BY <1>12, FinishedRow DEF ConcludePaused
<1>13. CASE ConcludePartial
  <2>1. row'.partial > 0
    BY <1>13, FinishedRow DEF ConcludePartial, AtMost
  <2> QED
    BY <1>13, <2>1 DEF ConcludePartial
<1>14. CASE ConcludeDone
    BY <1>14 DEF ConcludeDone
<1>15. CASE MarkContinuation
    BY <1>15 DEF MarkContinuation
<1>16. CASE Settle
    BY <1>16 DEF Settle, StateAfter, Write
<1>17. CASE CloseRun
    BY <1>17 DEF CloseRun
<1>18. CASE Caught
    BY <1>18 DEF Caught, Write
<1>19. CASE Mail \/ Tell
    BY <1>19 DEF Mail, Tell, TypeOK
<1>20. CASE MailError
    BY <1>20 DEF MailError
<1>21. CASE Release
    BY <1>21 DEF Release, Forget, RunRow
<1>22. CASE ClaimLost \/ StatementFails \/ Escape \/ ReleaseFails \/ Crash
    BY <1>22, <1>a DEF ClaimLost, StatementFails, Escape, ReleaseFails, Crash, Throw
<1>23. CASE Restart
  <2>1. row.partial > 0 => row'.partial > 0
    BY <1>23 DEF Restart, RunRow, AtMost
  <2>2. UNCHANGED <<src, pc, saw, cont, back, fin>>
    BY <1>23 DEF Restart
  <2> QED
    BY <2>1, <2>2
<1>24. CASE LeaseExpires \/ Due \/ IdleDay \/ Sweep \/ UNCHANGED vars
    BY <1>24 DEF LeaseExpires, Due, IdleDay, Sweep, vars
<1>25. CASE Administration
  <2>1. UNCHANGED <<row, pc, saw, cont, back, fin>>
    BY <1>25 DEF Administration, Resume, Pause, AskSync, SyncNow, SetSelection,
       ReadSelected, BringForward, LicenceChange, Admin
  <2>2. src'.cont = src.cont /\ (src'.state = "syncing" => src.state = "syncing")
    <3>1. CASE Resume \/ Pause
        BY <3>1 DEF Resume, Pause, Admin
    <3>2. CASE SyncNow
        BY <3>2 DEF SyncNow, Admin
    <3>3. CASE AskSync \/ SetSelection \/ ReadSelected \/ BringForward \/ LicenceChange
        BY <3>3 DEF AskSync, SetSelection, ReadSelected, BringForward, LicenceChange
    <3> QED
        BY <1>25, <3>1, <3>2, <3>3 DEF Administration
  <2> QED
    BY <2>1, <2>2
<1> QED
    BY <1>1, <1>2, <1>3, <1>4, <1>5, <1>6, <1>7, <1>8, <1>9, <1>10, <1>11, <1>12, <1>13,
       <1>14, <1>15, <1>16, <1>17, <1>18, <1>19, <1>20, <1>21, <1>22, <1>23, <1>24, <1>25
       DEF Next, Slice, Trouble

\* A slice that skips the listing finds a partial row to reopen, for every
\* number of files and whatever administrators and servers do.
THEOREM ContinuationFindsItsRun == Spec => []ContinuationReopens
<1> DEFINE Inv == Undisturbed => PartialInv
<1>1. Init => Inv
    BY DEF Init, NewSource, PartialInv, Unsynced, HasPartial, Marked
<1>2. Inv => ContinuationReopens
    BY DEF PartialInv, HasPartial, ContinuationReopens
<1>3. TypeOK /\ Inv /\ [Next]_vars => Inv'
    BY PartialNext, FailuresCounted
<1> QED
    BY <1>1, <1>2, <1>3, TypeCorrect, PTL DEF Spec

-----------------------------------------------------------------------------
(* The selection.  Until a listing has seen the new selection the source   *)
(* is not syncing between slices, so no slice continues an old queue.      *)

Edited ==
    /\ pc \in {"idle", "read", "licence", "open", "mark", "connect", "list", "refused",
               "unreachable", "close_failed", "caught", "mail", "tell", "mail_error", "release"}
    /\ pc \in {"idle", "read", "mail", "tell", "mail_error", "release"} => src.state # "syncing"
    /\ pc \in {"mail", "tell"} => back = "release"
    /\ pc = "licence" => saw.state # "syncing"
    /\ pc \in {"open", "mark", "connect"} => ~cont

EditedInv == ghost.edited => Edited

LEMMA EditedNext ==
    ASSUME TypeOK, EditedInv, [Next]_vars, Undisturbed'
    PROVE  EditedInv'
<1>0. src \in SourceRow /\ ghost \in Ghost
    BY DEF TypeOK
<1>a. ~Spend("fault") /\ ~Spend("crash")
    BY NothingDisturbs
<1> USE <1>0 DEF EditedInv, Edited, SourceRow, Ghost, At, Go, local, outside, requests
<1>1. CASE Claim \/ Read
    BY <1>1 DEF Claim, Read
<1>2. CASE LicenceDenied
    BY <1>2 DEF LicenceDenied, PauseFor, Write
<1>3. CASE LicenceGranted
    BY <1>3 DEF LicenceGranted, Write, Continuing
<1>4. CASE OpenRun \/ MarkSyncing \/ Connect \/ ConnectFails \/ Refused
    BY <1>4 DEF OpenRun, MarkSyncing, Connect, ConnectFails, Refused, Write
<1>5. CASE Unreachable
    BY <1>5 DEF Unreachable, Write
<1>6. CASE List \/ ListOver
    BY <1>6 DEF List, ListOver
<1>7. CASE ServerFails
    BY <1>7 DEF ServerFails, Throw
<1>8. CASE Over
    BY <1>8 DEF Over, PauseFor, Write
<1>9. CASE TakeBatch \/ QueueEmpty \/ FileDone \/ EndBatch \/ ExtractorDown
    BY <1>9 DEF TakeBatch, QueueEmpty, FileDone, EndBatch, ExtractorDown, Throw
<1>10. CASE TextQuota
    BY <1>10 DEF TextQuota, PauseFor, Write
<1>11. CASE Finish \/ ConcludePaused \/ ConcludePartial \/ ConcludeDone \/ MarkContinuation
    BY <1>11 DEF Finish, ConcludePaused, ConcludePartial, ConcludeDone, MarkContinuation
<1>12. CASE Settle
    BY <1>12 DEF Settle, Write
<1>13. CASE CloseRun
    BY <1>13 DEF CloseRun
<1>14. CASE Caught
    BY <1>14 DEF Caught, Write
<1>15. CASE Mail \/ Tell \/ MailError
    BY <1>15 DEF Mail, Tell, MailError, TypeOK
<1>16. CASE Release
    BY <1>16 DEF Release, Forget
<1>17. CASE ClaimLost \/ StatementFails \/ Escape \/ ReleaseFails \/ Crash
    BY <1>17, <1>a DEF ClaimLost, StatementFails, Escape, ReleaseFails, Crash, Throw
<1>18. CASE LeaseExpires \/ Restart \/ Due \/ IdleDay \/ Sweep \/ UNCHANGED vars
    BY <1>18 DEF LeaseExpires, Restart, Due, IdleDay, Sweep, vars
<1>19. CASE Administration
  <2>1. ASSUME NEW o, ghost' = [ghost EXCEPT !.order = o]
        PROVE  ghost'.edited = ghost.edited
    BY <2>1
  <2>2. CASE Resume \/ Pause \/ SyncNow
    <3>1. UNCHANGED <<pc, saw, cont, back>> /\ src'.state \in {src.state, "active", "paused_admin"}
      <4>1. CASE Resume \/ Pause
        BY <4>1 DEF Resume, Pause, Admin
      <4>2. CASE SyncNow
        BY <4>2 DEF SyncNow, Admin
      <4> QED
        BY <2>2, <4>1, <4>2
    <3>2. ghost'.edited = ghost.edited
      BY <2>1, <2>2 DEF Resume, Pause, SyncNow, Admin
    <3> QED
      BY <3>1, <3>2
  <2>3. CASE SetSelection
    BY <2>3 DEF SetSelection
  <2>4. CASE AskSync \/ ReadSelected \/ BringForward \/ LicenceChange
    BY <2>4 DEF AskSync, ReadSelected, BringForward, LicenceChange
  <2> QED
    BY <1>19, <2>2, <2>3, <2>4 DEF Administration
<1> QED
    BY <1>1, <1>2, <1>3, <1>4, <1>5, <1>6, <1>7, <1>8, <1>9, <1>10, <1>11, <1>12, <1>13,
       <1>14, <1>15, <1>16, <1>17, <1>18, <1>19 DEF Next, Slice, Trouble

\* A changed selection of a source that is not syncing is listed before a
\* slice works on the queue, for every bound.
THEOREM SelectionListed == Spec => []SelectionIsListed
<1> DEFINE Inv == Undisturbed => EditedInv
<1>1. Init => Inv
    BY DEF Init, EditedInv
<1>2. Inv => SelectionIsListed
    BY DEF EditedInv, Edited, SelectionIsListed
<1>3. TypeOK /\ Inv /\ [Next]_vars => Inv'
    BY EditedNext, FailuresCounted
<1> QED
    BY <1>1, <1>2, <1>3, TypeCorrect, PTL DEF Spec

-----------------------------------------------------------------------------
(* E-mails.  pause_notified_at remembers the e-mail about the quota until  *)
(* the two steps that start afresh clear it; a slice acts on a copy that   *)
(* is not older than the last e-mail.                                      *)

MailInv ==
    /\ ghost.mails <= 1
    /\ ghost.mails > 0 => src.told \/ pc = "tell"
    /\ pc = "mail" => ghost.mails = 0
    /\ pc \in {"licence", "open", "mark", "connect", "list", "over"} /\ src.told => saw.told

LEMMA MailNext ==
    ASSUME ~TextLimit, TypeOK, MailInv, [Next]_vars, Undisturbed'
    PROVE  MailInv'
<1>0. src \in SourceRow /\ ghost \in Ghost
    BY DEF TypeOK
<1>a. ~Spend("fault") /\ ~Spend("crash")
    BY NothingDisturbs
<1> USE <1>0 DEF MailInv, SourceRow, Ghost, At, Go, local, outside, requests
<1>1. CASE Claim \/ Read
    BY <1>1 DEF Claim, Read
<1>2. CASE LicenceDenied
    BY <1>2 DEF LicenceDenied, PauseFor
<1>3. CASE LicenceGranted
  <2>1. pc = "licence" /\ pc' = "open" /\ UNCHANGED saw
    BY <1>3 DEF LicenceGranted
  <2>2. CASE saw.state = "paused_licence"
    <3>1. src' = [src EXCEPT !.state = "active", !.told = FALSE] /\ ghost' = [ghost EXCEPT !.mails = 0]
      BY <1>3, <2>2 DEF LicenceGranted, WriteAfresh
    <3>2. ~src'.told /\ ghost'.mails = 0
      BY <3>1
    <3> QED
      BY <2>1, <3>2
  <2>3. CASE saw.state # "paused_licence"
    BY <1>3, <2>1, <2>3 DEF LicenceGranted
  <2> QED
    BY <2>2, <2>3
<1>4. CASE OpenRun \/ Connect \/ ConnectFails \/ Refused
    BY <1>4 DEF OpenRun, Connect, ConnectFails, Refused
<1>5. CASE MarkSyncing \/ Unreachable
    BY <1>5 DEF MarkSyncing, Unreachable, Write
<1>6. CASE List
    BY <1>6 DEF List
<1>7. CASE ListOver
    BY <1>7 DEF ListOver
<1>8. CASE Over
    BY <1>8 DEF Over, PauseFor, Notified
<1>9. CASE TakeBatch \/ QueueEmpty \/ FileDone \/ EndBatch \/ TextQuota
    BY <1>9 DEF TakeBatch, QueueEmpty, FileDone, EndBatch, TextQuota
<1>10. CASE ServerFails \/ ExtractorDown
    BY <1>10 DEF ServerFails, ExtractorDown, Throw
<1>11. CASE Finish \/ ConcludePaused \/ ConcludePartial \/ ConcludeDone \/ CloseRun
    BY <1>11 DEF Finish, ConcludePaused, ConcludePartial, ConcludeDone, CloseRun
<1>12. CASE MarkContinuation \/ Settle \/ Caught
    BY <1>12 DEF MarkContinuation, Settle, Caught, Write
<1>13. CASE Mail
    BY <1>13 DEF Mail, AtMost, TypeOK
<1>14. CASE Tell
    BY <1>14 DEF Tell, TypeOK
<1>15. CASE MailError
    BY <1>15 DEF MailError
<1>16. CASE Release
    BY <1>16 DEF Release, Forget
<1>17. CASE ClaimLost \/ StatementFails \/ Escape \/ ReleaseFails \/ Crash
    BY <1>17, <1>a DEF ClaimLost, StatementFails, Escape, ReleaseFails, Crash, Throw
<1>18. CASE LeaseExpires \/ Restart \/ Due \/ IdleDay \/ Sweep \/ UNCHANGED vars
    BY <1>18 DEF LeaseExpires, Restart, Due, IdleDay, Sweep, vars
<1>19. CASE Administration
  <2>1. UNCHANGED <<pc, saw>> /\ src'.told = src.told /\ ghost'.mails = ghost.mails
    <3>1. CASE Resume \/ Pause
        BY <3>1 DEF Resume, Pause, Admin
    <3>2. CASE SyncNow
        BY <3>2 DEF SyncNow, Admin
    <3>3. CASE AskSync \/ SetSelection \/ ReadSelected \/ BringForward \/ LicenceChange
        BY <3>3 DEF AskSync, SetSelection, ReadSelected, BringForward, LicenceChange
    <3> QED
        BY <1>19, <3>1, <3>2, <3>3 DEF Administration
  <2> QED
    BY <2>1
<1> QED
    BY <1>1, <1>2, <1>3, <1>4, <1>5, <1>6, <1>7, <1>8, <1>9, <1>10, <1>11, <1>12, <1>13,
       <1>14, <1>15, <1>16, <1>17, <1>18, <1>19 DEF Next, Slice, Trouble

\* Without a text limit, a source that outgrows its plan is told once until a
\* listing fits or the licence comes or goes, whatever checks, outages, manual
\* syncs, pauses and changes of the selection fall into it.
THEOREM OneQuotaMail ==
    ASSUME ~TextLimit
    PROVE  Spec => []QuotaToldOnce
<1> DEFINE Inv == Undisturbed => MailInv
<1>1. Init => Inv
    BY DEF Init, NewSource, MailInv
<1>2. Inv => QuotaToldOnce
    BY DEF MailInv, QuotaToldOnce
<1>3. TypeOK /\ Inv /\ [Next]_vars => Inv'
    BY MailNext, FailuresCounted
<1> QED
    BY <1>1, <1>2, <1>3, TypeCorrect, PTL DEF Spec

=============================================================================
