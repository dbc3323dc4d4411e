--------------------------- MODULE FileShareProofs ---------------------------
(***************************************************************************)
(* Proofs about FileShare.                                                 *)
(***************************************************************************)
EXTENDS FileShare, FiniteSetTheorems, TLAPS

-----------------------------------------------------------------------------
(* Type correctness.                                                       *)

\* Sets of links are finite, and one that shrinks does not count more.
LEMMA LinkSets ==
    ASSUME NEW S \in SUBSET Links
    PROVE  /\ IsFiniteSet(S) /\ Cardinality(S) \in Nat
           /\ \A T \in SUBSET S : IsFiniteSet(T) /\ Cardinality(T) <= Cardinality(S)
           /\ \A T \in SUBSET S : Cardinality(T) \in Nat
<1>1. IsFiniteSet(S)
  BY FS_Subset, ShareAssumption
<1>2. \A T \in SUBSET S : IsFiniteSet(T) /\ Cardinality(T) <= Cardinality(S)
  BY <1>1, FS_Subset
<1> QED
  BY <1>1, <1>2, FS_CardinalityType

LEMMA OneMore ==
    ASSUME NEW S \in SUBSET Links, NEW l \in Links, NEW T \in SUBSET (S \cup {l})
    PROVE  Cardinality(T) <= Cardinality(S) + 1
<1>1. IsFiniteSet(S) /\ Cardinality(S) \in Nat
  BY LinkSets
<1>2. /\ IsFiniteSet(S \cup {l})
      /\ Cardinality(S \cup {l}) <= Cardinality(S) + 1
      /\ Cardinality(S \cup {l}) \in Nat
  <2>1. /\ IsFiniteSet(S \cup {l})
        /\ Cardinality(S \cup {l}) = IF l \in S THEN Cardinality(S) ELSE Cardinality(S) + 1
    BY <1>1, FS_AddElement
  <2> QED
    BY <1>1, <2>1
<1>3. IsFiniteSet(T) /\ Cardinality(T) <= Cardinality(S \cup {l})
  BY <1>2, FS_Subset
<1> QED
  BY <1>1, <1>2, <1>3, FS_CardinalityType

LEMMA BatchSize ==
    ASSUME TypeOK, NEW S \in Batches
    PROVE  S \in SUBSET Links /\ Cardinality(S) <= SweepLimit
<1>1. Ended \in SUBSET Links
  BY DEF TypeOK, Ended
<1>2. Cardinality(Ended) \in Nat
  BY <1>1, LinkSets
<1> QED
  BY <1>1, <1>2, ShareAssumption DEF Batches

LEMMA Counters ==
    ASSUME slips \in 0 .. MaxFailures, hiccups \in 0 .. MaxFailures,
           Slip \/ Hiccup \/ NoFault
    PROVE  slips' \in 0 .. MaxFailures /\ hiccups' \in 0 .. MaxFailures
BY ShareAssumption DEF Slip, Hiccup, NoFault, Fails

\* Every step of a worker takes links off its list or puts a batch there.
LEMMA ListsType ==
    ASSUME TypeOK, NEW w \in Workers, NEW S \in SUBSET Links,
           Cardinality(S) <= SweepLimit, todo' = [todo EXCEPT ![w] = S]
    PROVE  todo' \in [Workers -> {T \in SUBSET Links : Cardinality(T) <= SweepLimit}]
BY DEF TypeOK

LEMMA ShareTypeInit == Init => TypeOK
<1>1. Cardinality({}) = 0 /\ 0 <= SweepLimit
  BY FS_EmptySet, ShareAssumption
<1> QED
  BY <1>1, ShareAssumption DEF Init, TypeOK

\* The steps of a request change neither lists nor marks of a sweep.
LEMMA RequestTypes ==
    ASSUME TypeOK, NEW l \in Links,
           Check(l) \/ Handle(l) \/ CreateCrash(l) \/ RevokeRow(l) \/ RevokeCrash(l) \/ Expire(l)
    PROVE  TypeOK'
<1>1. slips' \in 0 .. MaxFailures /\ hiccups' \in 0 .. MaxFailures
  <2>1. Slip \/ Hiccup \/ NoFault
    BY DEF Check, Handle, Put, CreateRow, Undo, RevokeFile, RevokeMark,
           CreateCrash, RevokeRow, RevokeCrash, Expire
  <2> QED
    BY <2>1, Counters DEF TypeOK
<1>2. todo' = todo /\ deleted' = deleted /\ connector' = connector
  BY DEF Check, Handle, Put, CreateRow, Undo, RevokeFile, RevokeMark,
         CreateCrash, RevokeRow, RevokeCrash, Expire
<1>3. /\ stored' \in SUBSET Links /\ rows' \in SUBSET Links /\ expired' \in SUBSET Links
      /\ revoked' \in SUBSET Links /\ purged' \in SUBSET Links
      /\ making' \in [Links -> {"new", "checked", "put", "undo", "done", "failed"}]
      /\ revoking' \in [Links -> {"no", "delete", "mark"}]
  <2>1. CASE Check(l) \/ CreateCrash(l)
    BY <2>1 DEF TypeOK, Check, CreateCrash, Request
  <2>2. CASE Put(l)
    BY <2>2 DEF TypeOK, Put, Request
  <2>3. CASE CreateRow(l)
    BY <2>3 DEF TypeOK, CreateRow, Request
  <2>4. CASE Undo(l)
    BY <2>4 DEF TypeOK, Undo, Undone, Request
  <2>5. CASE RevokeRow(l) \/ RevokeCrash(l)
    BY <2>5 DEF TypeOK, RevokeRow, RevokeCrash, Revoking
  <2>6. CASE RevokeFile(l)
    BY <2>6 DEF TypeOK, RevokeFile, Revoking
  <2>7. CASE RevokeMark(l)
    BY <2>7 DEF TypeOK, RevokeMark, Revoking
  <2>8. CASE Expire(l)
    BY <2>8 DEF TypeOK, Expire
  <2> QED
    BY <2>1, <2>2, <2>3, <2>4, <2>5, <2>6, <2>7, <2>8 DEF Handle
<1> QED
  BY <1>1, <1>2, <1>3 DEF TypeOK

LEMMA SweepTypes ==
    ASSUME TypeOK, NEW w \in Workers, Sweep(w) \/ SweepCrash(w)
    PROVE  TypeOK'
<1>1. slips' \in 0 .. MaxFailures /\ hiccups' \in 0 .. MaxFailures
  <2>1. Slip \/ Hiccup \/ NoFault
    BY DEF Sweep, Survey, SweepFile, SweepMark, SweepCrash
  <2> QED
    BY <2>1, Counters DEF TypeOK
<1>2. CASE Survey(w)
  <2>1. PICK S \in Batches : todo' = [todo EXCEPT ![w] = S]
    BY <1>2 DEF Survey
  <2> QED
    BY <1>1, <1>2, <2>1, BatchSize, ListsType DEF TypeOK, Survey
<1>3. ASSUME NEW l \in Links, SweepFile(w, l) PROVE TypeOK'
  <2>1. todo[w] \ {l} \in SUBSET Links /\ Cardinality(todo[w] \ {l}) <= SweepLimit
    <3>1. todo[w] \in SUBSET Links /\ Cardinality(todo[w]) <= SweepLimit
      BY DEF TypeOK
    <3>2. /\ Cardinality(todo[w] \ {l}) <= Cardinality(todo[w])
          /\ Cardinality(todo[w]) \in Nat /\ Cardinality(todo[w] \ {l}) \in Nat
      BY <3>1, LinkSets
    <3> QED
      BY <3>1, <3>2, ShareAssumption
  <2>2. todo' = [todo EXCEPT ![w] = todo[w] \ {l}]
    BY <1>3 DEF SweepFile
  <2>3. /\ stored' \in SUBSET Links /\ purged' \in SUBSET Links
        /\ deleted' \in [Workers -> Links \cup {None}]
    BY <1>3 DEF TypeOK, SweepFile
  <2> QED
    BY <1>1, <1>3, <2>1, <2>2, <2>3, ListsType DEF TypeOK, SweepFile
<1>4. CASE SweepMark(w)
  BY <1>1, <1>4 DEF TypeOK, SweepMark
<1>5. CASE SweepCrash(w)
  <2>1. Cardinality({}) <= SweepLimit
    BY FS_EmptySet, ShareAssumption
  <2>2. todo' = [todo EXCEPT ![w] = {}]
    BY <1>5 DEF SweepCrash
  <2> QED
    BY <1>1, <1>5, <2>1, <2>2, ListsType DEF TypeOK, SweepCrash
<1> QED
  BY <1>2, <1>3, <1>4, <1>5 DEF Sweep

LEMMA ShareTypeNext == TypeOK /\ [Next]_vars => TypeOK'
<1> SUFFICES ASSUME TypeOK, [Next]_vars PROVE TypeOK'
  OBVIOUS
<1>1. CASE DropConnector
  BY <1>1 DEF TypeOK, DropConnector, NoFault
<1>2. CASE UNCHANGED vars
  BY <1>2 DEF TypeOK, vars
<1> QED
  BY <1>1, <1>2, RequestTypes, SweepTypes DEF Next

\* Rows, stored files, requests and sweeps keep their shape, whatever the number
\* of links, workers and failures (file-share.service.ts).
THEOREM TypeCorrect == Spec => []TypeOK
BY ShareTypeInit, ShareTypeNext, PTL DEF Spec

-----------------------------------------------------------------------------
(* What each stage of a link has behind it.  A file is stored once, before *)
(* its row, and revokes and sweeps only meet links that have a row.        *)

Made(l) == making[l] \in {"undo", "done", "failed"}

StageInv ==
    \A l \in Links :
        /\ making[l] \in {"new", "checked"} => l \notin stored
        /\ making[l] = "put" => l \in stored
        /\ l \in rows \cup expired \cup revoked \cup purged => Made(l)
        /\ revoking[l] # "no" => l \in revoked
        /\ \A w \in Workers :
              /\ l \in todo[w] => l \in expired \cup revoked
              /\ deleted[w] = l => l \in (expired \cup revoked) \ stored

LEMMA StageInit == Init => StageInv
BY ShareAssumption DEF Init, StageInv, Made

LEMMA StageRequest ==
    ASSUME TypeOK, StageInv, NEW k \in Links,
           Check(k) \/ Handle(k) \/ CreateCrash(k) \/ RevokeRow(k) \/ RevokeCrash(k) \/ Expire(k)
    PROVE  StageInv'
<1> SUFFICES ASSUME NEW l \in Links
             PROVE  /\ (making[l] \in {"new", "checked"} => l \notin stored)'
                    /\ (making[l] = "put" => l \in stored)'
                    /\ (l \in rows \cup expired \cup revoked \cup purged => Made(l))'
                    /\ (revoking[l] # "no" => l \in revoked)'
                    /\ \A w \in Workers :
                          /\ (l \in todo[w] => l \in expired \cup revoked)'
                          /\ (deleted[w] = l => l \in (expired \cup revoked) \ stored)'
  BY DEF StageInv, Made
<1>1. CASE Check(k) \/ CreateCrash(k)
  BY <1>1 DEF TypeOK, StageInv, Made, Check, CreateCrash, Request
<1>2. CASE Put(k)
  BY <1>2 DEF TypeOK, StageInv, Made, Put, Request
<1>3. CASE CreateRow(k)
  BY <1>3 DEF TypeOK, StageInv, Made, CreateRow, Request
<1>4. CASE Undo(k)
  BY <1>4 DEF TypeOK, StageInv, Made, Undo, Undone, Request
<1>5. CASE RevokeRow(k) \/ RevokeCrash(k)
  BY <1>5 DEF TypeOK, StageInv, Made, RevokeRow, RevokeCrash, Revoking
<1>6. CASE RevokeFile(k)
  BY <1>6 DEF TypeOK, StageInv, Made, RevokeFile, Revoking
<1>7. CASE RevokeMark(k)
  BY <1>7 DEF TypeOK, StageInv, Made, RevokeMark, Revoking
<1>8. CASE Expire(k)
  BY <1>8 DEF TypeOK, StageInv, Made, Expire
<1> QED
  BY <1>1, <1>2, <1>3, <1>4, <1>5, <1>6, <1>7, <1>8 DEF Handle

LEMMA StageSweep ==
    ASSUME TypeOK, StageInv, NEW w \in Workers, Sweep(w) \/ SweepCrash(w)
    PROVE  StageInv'
<1>1. CASE Survey(w)
  <2>1. PICK S \in Batches : todo' = [todo EXCEPT ![w] = S]
    BY <1>1 DEF Survey
  <2>2. S \subseteq expired \cup revoked
    BY <2>1 DEF Batches, Ended
  <2> QED
    BY <1>1, <2>1, <2>2 DEF TypeOK, StageInv, Made, Survey
<1>2. ASSUME NEW l \in Links, SweepFile(w, l) PROVE StageInv'
  <2>1. purged' = purged
    BY <1>2 DEF SweepFile, MarksFirst
  <2> QED
    BY <1>2, <2>1, ShareAssumption DEF TypeOK, StageInv, Made, SweepFile
<1>3. CASE SweepMark(w)
  BY <1>3, ShareAssumption DEF TypeOK, StageInv, Made, SweepMark
<1>4. CASE SweepCrash(w)
  BY <1>4, ShareAssumption DEF TypeOK, StageInv, Made, SweepCrash
<1> QED
  BY <1>1, <1>2, <1>3, <1>4 DEF Sweep

LEMMA StageNext == TypeOK /\ StageInv /\ [Next]_vars => StageInv'
<1> SUFFICES ASSUME TypeOK, StageInv, [Next]_vars PROVE StageInv'
  OBVIOUS
<1>1. CASE DropConnector
  BY <1>1 DEF StageInv, Made, DropConnector
<1>2. CASE UNCHANGED vars
  BY <1>2 DEF StageInv, Made, vars
<1> QED
  BY <1>1, <1>2, StageRequest, StageSweep DEF Next

-----------------------------------------------------------------------------
(* A link its maker was given has its file as long as it works: only the   *)
(* clean-up of a failed request deletes the file of a link that is not     *)
(* over.                                                                   *)

FileInv == \A l \in Active : making[l] = "done" => l \in stored

LEMMA FileRequest ==
    ASSUME TypeOK, StageInv, FileInv, NEW k \in Links,
           Check(k) \/ Handle(k) \/ CreateCrash(k) \/ RevokeRow(k) \/ RevokeCrash(k) \/ Expire(k)
    PROVE  FileInv'
<1>1. CASE Check(k) \/ CreateCrash(k)
  BY <1>1 DEF TypeOK, StageInv, FileInv, Active, Made, Check, CreateCrash, Request
<1>2. CASE Put(k)
  BY <1>2 DEF TypeOK, StageInv, FileInv, Active, Made, Put, Request
<1>3. CASE CreateRow(k)
  BY <1>3 DEF TypeOK, StageInv, FileInv, Active, Made, CreateRow, Request
<1>4. CASE Undo(k)
  BY <1>4 DEF TypeOK, StageInv, FileInv, Active, Made, Undo, Undone, Request
<1>5. CASE RevokeRow(k) \/ RevokeCrash(k) \/ Expire(k)
  BY <1>5 DEF TypeOK, FileInv, Active, RevokeRow, RevokeCrash, Expire, Revoking
<1>6. CASE RevokeFile(k)
  BY <1>6 DEF TypeOK, StageInv, FileInv, Active, RevokeFile, Revoking
<1>7. CASE RevokeMark(k)
  BY <1>7 DEF TypeOK, FileInv, Active, RevokeMark, Revoking
<1> QED
  BY <1>1, <1>2, <1>3, <1>4, <1>5, <1>6, <1>7 DEF Handle

LEMMA FileNext == TypeOK /\ StageInv /\ FileInv /\ [Next]_vars => FileInv'
<1> SUFFICES ASSUME TypeOK, StageInv, FileInv, [Next]_vars PROVE FileInv'
  OBVIOUS
<1>1. ASSUME NEW w \in Workers, Sweep(w) \/ SweepCrash(w) PROVE FileInv'
  <2>1. rows' = rows /\ making' = making
        /\ revoked' = revoked /\ expired' = expired /\ purged \subseteq purged'
    BY <1>1 DEF Sweep, Survey, SweepFile, SweepMark, SweepCrash, Hiccup, NoFault, MarksFirst
  <2>2. \A l \in stored : l \in stored' \/ l \in expired \cup revoked
    BY <1>1 DEF TypeOK, StageInv, Sweep, Survey, SweepFile, SweepMark, SweepCrash
  <2> QED
    BY <2>1, <2>2 DEF FileInv, Active
<1>2. CASE DropConnector
  BY <1>2 DEF FileInv, Active, DropConnector, NoFault
<1>3. CASE UNCHANGED vars
  BY <1>3 DEF FileInv, Active, vars
<1> QED
  BY <1>1, <1>2, <1>3, FileRequest DEF Next

\* A link somebody was given has its file as long as it works, whatever fails or is
\* killed (file-share.service.ts:209-242, 414); for any number of links and workers.
THEOREM LinksHaveFiles == Spec => []WorkingHasFile
<1>1. Init => FileInv
  BY DEF Init, FileInv, Active
<1>2. FileInv => WorkingHasFile
  BY DEF FileInv, WorkingHasFile
<1> QED
  BY <1>1, <1>2, StageInit, StageNext, FileNext, ShareTypeInit, ShareTypeNext, PTL DEF Spec

-----------------------------------------------------------------------------
(* The limit of the plan.  Links that work and requests past their check   *)
(* are counted together: a row only turns one into the other.              *)

Coming  == {l \in Links : making[l] \in {"checked", "put"}}
Counted == Active \cup Coming

LimitInv == Cardinality(Counted) <= MaxStored + MaxRequests - 1

LEMMA CountedShrinks ==
    ASSUME TypeOK, LimitInv, Counted' \subseteq Counted
    PROVE  LimitInv'
<1>1. Counted \in SUBSET Links
  BY DEF TypeOK, Counted, Active, Coming
<1>2. /\ Cardinality(Counted') <= Cardinality(Counted)
      /\ Cardinality(Counted) \in Nat /\ Cardinality(Counted') \in Nat
  BY <1>1, LinkSets
<1> QED
  BY <1>2, ShareAssumption DEF LimitInv

LEMMA CheckLimit ==
    ASSUME TypeOK, NEW k \in Links, Check(k)
    PROVE  LimitInv'
<1>1. Active \in SUBSET Links /\ InFlight \in SUBSET Links
  BY DEF TypeOK, Active, InFlight
<1>2. /\ IsFiniteSet(Active) /\ IsFiniteSet(InFlight)
      /\ Cardinality(Active) \in Nat /\ Cardinality(InFlight) \in Nat
  BY <1>1, LinkSets
<1>3. Cardinality(Active) + 1 <= MaxStored /\ Cardinality(InFlight) + 1 <= MaxRequests
  BY <1>2, ShareAssumption DEF Check, Active, Stored
<1>4. Counted' \in SUBSET ((Active \cup InFlight) \cup {k})
  BY DEF TypeOK, Counted, Active, Coming, InFlight, Check, Request
<1>5. /\ Active \cup InFlight \in SUBSET Links
      /\ Cardinality(Active \cup InFlight) \in Nat
      /\ Cardinality(Active \cup InFlight) <= Cardinality(Active) + Cardinality(InFlight)
  <2>1. Cardinality(Active \cap InFlight) \in Nat
    BY <1>1, LinkSets
  <2>2. Cardinality(Active \cup InFlight)
          = Cardinality(Active) + Cardinality(InFlight) - Cardinality(Active \cap InFlight)
    BY <1>2, FS_Union
  <2>3. Active \cup InFlight \in SUBSET Links
    BY <1>1
  <2>4. Cardinality(Active \cup InFlight) \in Nat
    BY <2>3, LinkSets
  <2> QED
    BY <1>2, <2>1, <2>2, <2>3, <2>4
<1>6. Cardinality(Counted') <= Cardinality(Active \cup InFlight) + 1
  BY <1>4, <1>5, OneMore
<1>7. Cardinality(Counted') \in Nat
  <2>1. Counted' \in SUBSET Links
    BY <1>4, <1>5
  <2> QED
    BY <2>1, LinkSets
<1> QED
  BY <1>2, <1>3, <1>5, <1>6, <1>7, ShareAssumption DEF LimitInv

LEMMA LimitNext == TypeOK /\ LimitInv /\ [Next]_vars => LimitInv'
<1> SUFFICES ASSUME TypeOK, LimitInv, [Next]_vars PROVE LimitInv'
  OBVIOUS
<1>1. ASSUME NEW k \in Links,
             Handle(k) \/ CreateCrash(k) \/ RevokeRow(k) \/ RevokeCrash(k) \/ Expire(k)
      PROVE  Counted' \subseteq Counted
  <2>1. CASE CreateRow(k)
    BY <2>1 DEF TypeOK, Counted, Active, Coming, CreateRow, Request
  <2>2. CASE Put(k) \/ Undo(k) \/ CreateCrash(k)
    BY <2>2 DEF TypeOK, Counted, Active, Coming, Put, Undo, CreateCrash, Request
  <2>3. CASE RevokeRow(k) \/ RevokeCrash(k) \/ Expire(k)
    BY <2>3 DEF Counted, Active, Coming, RevokeRow, RevokeCrash, Expire
  <2>4. CASE RevokeFile(k) \/ RevokeMark(k)
    BY <2>4 DEF Counted, Active, Coming, RevokeFile, RevokeMark
  <2> QED
    BY <1>1, <2>1, <2>2, <2>3, <2>4 DEF Handle
<1>2. ASSUME NEW w \in Workers, Sweep(w) \/ SweepCrash(w)
      PROVE  Counted' \subseteq Counted
  BY <1>2 DEF Counted, Active, Coming, Sweep, Survey, SweepFile, SweepMark, SweepCrash
<1>3. CASE DropConnector
  BY <1>3, CountedShrinks DEF Counted, Active, Coming, DropConnector
<1>4. CASE UNCHANGED vars
  BY <1>4, CountedShrinks DEF Counted, Active, Coming, vars
<1> QED
  BY <1>1, <1>2, <1>3, <1>4, CheckLimit, CountedShrinks DEF Next

\* Requests that check the plan's limit together pass it by at most one less than
\* their number (file-share.service.ts:190-198), for every limit.
THEOREM LimitHolds == Spec => []QuotaHolds
<1>1. Init => LimitInv
  <2>1. ASSUME Init PROVE Counted = {}
    BY <2>1 DEF Init, Counted, Active, Coming
  <2>2. Cardinality({}) = 0 /\ 0 <= MaxStored + MaxRequests - 1
    BY FS_EmptySet, ShareAssumption
  <2> QED
    BY <2>1, <2>2 DEF LimitInv
<1>2. TypeOK /\ LimitInv => QuotaHolds
  <2> SUFFICES ASSUME TypeOK, LimitInv PROVE QuotaHolds
    OBVIOUS
  <2>1. Counted \in SUBSET Links /\ Active \in SUBSET Counted
    BY DEF TypeOK, Counted, Active, Coming
  <2>2. /\ Cardinality(Active) <= Cardinality(Counted)
        /\ Cardinality(Counted) \in Nat /\ Cardinality(Active) \in Nat
    BY <2>1, LinkSets
  <2> QED
    BY <2>2, ShareAssumption DEF LimitInv, QuotaHolds
<1> QED
  BY <1>1, <1>2, LimitNext, ShareTypeInit, ShareTypeNext, PTL DEF Spec

-----------------------------------------------------------------------------
(* Files without an owner.  A file is lost from the moment its delete has  *)
(* failed in a revoke, although only the mark that follows forgets it.     *)

Lost ==
    {l \in stored \ Undeletable :
        /\ connector \/ l \notin FromConnector
        /\ \/ l \notin rows /\ making[l] \notin {"put", "undo"}
           \/ l \in purged
           \/ revoking[l] = "mark"}

LostInv == Cardinality(Lost) <= slips

LEMMA LostGrows ==
    ASSUME TypeOK, LostInv, slips' \in Nat, NEW k \in Links,
           \/ Lost' \subseteq Lost /\ slips' >= slips
           \/ Lost' \subseteq Lost \cup {k} /\ slips' = slips + 1
    PROVE  LostInv'
<1>1. Lost \in SUBSET Links /\ Lost' \in SUBSET Links /\ slips \in Nat
  BY ShareAssumption DEF TypeOK, Lost
<1>2. Cardinality(Lost) \in Nat /\ Cardinality(Lost') \in Nat
  BY <1>1, LinkSets
<1>3. CASE Lost' \subseteq Lost /\ slips' >= slips
  <2>1. Cardinality(Lost') <= Cardinality(Lost)
    BY <1>1, <1>3, LinkSets
  <2> QED
    BY <1>1, <1>2, <1>3, <2>1 DEF LostInv
<1>4. CASE Lost' \subseteq Lost \cup {k} /\ slips' = slips + 1
  <2>1. Cardinality(Lost') <= Cardinality(Lost) + 1
    BY <1>1, <1>4, OneMore
  <2> QED
    BY <1>1, <1>2, <1>4, <2>1 DEF LostInv
<1> QED
  BY <1>3, <1>4

LEMMA LostShrinks ==
    ASSUME TypeOK, LostInv, slips' = slips, Lost' \subseteq Lost
    PROVE  LostInv'
<1>1. Lost \in SUBSET Links /\ slips \in Nat
  BY ShareAssumption DEF TypeOK, Lost
<1>2. /\ Cardinality(Lost') <= Cardinality(Lost)
      /\ Cardinality(Lost) \in Nat /\ Cardinality(Lost') \in Nat
  BY <1>1, LinkSets
<1> QED
  BY <1>1, <1>2 DEF LostInv

LEMMA LostNext == TypeOK /\ StageInv /\ LostInv /\ [Next]_vars => LostInv'
<1> SUFFICES ASSUME TypeOK, StageInv, LostInv, [Next]_vars PROVE LostInv'
  OBVIOUS
<1>0. slips \in Nat /\ slips' \in Nat
  <2>1. TypeOK'
    BY ShareTypeNext
  <2> QED
    BY <2>1, ShareAssumption DEF TypeOK
<1>1. ASSUME NEW k \in Links, Check(k) \/ CreateRow(k) PROVE LostInv'
  <2>1. Lost' \subseteq Lost
    BY <1>1 DEF TypeOK, StageInv, Made, Lost, Check, CreateRow, Request
  <2>2. slips' >= slips
    BY <1>0, <1>1 DEF Check, CreateRow, Slip, Hiccup, NoFault
  <2> QED
    BY <1>0, <2>1, <2>2, LostGrows
<1>8. ASSUME NEW k \in Links, Put(k) PROVE LostInv'
  <2>1. CASE NoFault
    <3>1. Lost' \subseteq Lost
      BY <1>0, <1>8, <2>1 DEF TypeOK, StageInv, Made, Lost, Put, Request, NoFault, Slip
    <3> QED
      BY <1>0, <2>1, <3>1, LostGrows DEF NoFault
  <2>2. CASE Slip
    <3>1. Lost' \subseteq Lost \cup {k}
      BY <1>8 DEF TypeOK, Lost, Put, Request
    <3> QED
      BY <1>0, <2>2, <3>1, LostGrows DEF Slip
  <2> QED
    BY <1>8, <2>1, <2>2 DEF Put
<1>2. ASSUME NEW k \in Links, Undo(k) PROVE LostInv'
  <2>1. CASE Slip
    BY <1>0, <1>2, <2>1, LostGrows DEF TypeOK, Lost, Undo, Undone, Request, Slip
  <2>2. CASE NoFault
    <3>1. Lost' \subseteq Lost
      BY <1>0, <1>2, <2>2 DEF TypeOK, Lost, Undo, Undone, Request, NoFault, Slip
    <3> QED
      BY <1>0, <2>2, <3>1, LostGrows DEF NoFault
  <2> QED
    BY <1>2, <2>1, <2>2 DEF Undo
<1>3. ASSUME NEW k \in Links, CreateCrash(k) PROVE LostInv'
  <2>1. Lost' \subseteq Lost \cup {k}
    BY <1>3 DEF TypeOK, Lost, CreateCrash, Request
  <2> QED
    BY <1>0, <1>3, <2>1, LostGrows DEF CreateCrash, Slip
<1>4. ASSUME NEW k \in Links, RevokeFile(k) PROVE LostInv'
  <2>1. CASE Slip
    <3>1. Lost' \subseteq Lost \cup {k}
      BY <1>4 DEF TypeOK, Lost, RevokeFile, Revoking
    <3> QED
      BY <1>0, <2>1, <3>1, LostGrows DEF Slip
  <2>2. CASE NoFault
    <3>1. Lost' \subseteq Lost
      BY <1>0, <1>4, <2>2 DEF TypeOK, Lost, RevokeFile, Revoking, NoFault, Slip
    <3> QED
      BY <1>0, <2>2, <3>1, LostGrows DEF NoFault
  <2> QED
    BY <1>4, <2>1, <2>2 DEF RevokeFile
<1>5. ASSUME NEW k \in Links, RevokeRow(k) \/ RevokeMark(k) \/ RevokeCrash(k) \/ Expire(k)
      PROVE  LostInv'
  <2>1. Lost' \subseteq Lost /\ slips' = slips
    BY <1>5 DEF TypeOK, Lost, RevokeRow, RevokeMark, RevokeCrash, Expire, Revoking,
                Hiccup, NoFault
  <2> QED
    BY <1>0, <2>1, LostGrows
<1>6. ASSUME NEW w \in Workers, Sweep(w) \/ SweepCrash(w) PROVE LostInv'
  <2>1. slips' = slips
    BY <1>6 DEF Sweep, Survey, SweepFile, SweepMark, SweepCrash, Hiccup, NoFault
  <2>2. Lost' \subseteq Lost
    BY <1>6 DEF TypeOK, StageInv, Lost, MarksFirst, Sweep, Survey, SweepFile, SweepMark,
                SweepCrash
  <2> QED
    BY <1>0, <2>1, <2>2, LostShrinks
<1>7. CASE DropConnector \/ UNCHANGED vars
  <2>1. Lost' \subseteq Lost /\ slips' = slips
    BY <1>7 DEF Lost, DropConnector, NoFault, vars
  <2> QED
    BY <1>0, <2>1, LostShrinks
<1> QED
  BY <1>1, <1>2, <1>3, <1>4, <1>5, <1>6, <1>7, <1>8 DEF Next, Handle

\* Every file without an owner goes back to a failure of its own, of the kinds
\* the code does not make up for (file-share.service.ts:209-242, 385-387, 420-428):
\* a put that fails after it has written, a request killed half way, a clean-up or a
\* delete of a revoke that fails; for any number of links, workers and failures.
THEOREM OrphansHaveCauses == Spec => []OrphansCounted
<1>1. Init => LostInv
  <2>1. ASSUME Init PROVE Lost = {}
    BY <2>1 DEF Init, Lost
  <2> QED
    BY <2>1, FS_EmptySet DEF Init, LostInv
<1>2. TypeOK /\ LostInv => OrphansCounted
  <2> SUFFICES ASSUME TypeOK, LostInv PROVE OrphansCounted
    OBVIOUS
  <2>1. Lost \in SUBSET Links /\ Forgotten \in SUBSET Lost /\ slips \in Nat
    BY ShareAssumption DEF TypeOK, Lost, Forgotten
  <2>2. /\ Cardinality(Forgotten) <= Cardinality(Lost)
        /\ Cardinality(Lost) \in Nat /\ Cardinality(Forgotten) \in Nat
    BY <2>1, LinkSets
  <2> QED
    BY <2>1, <2>2 DEF LostInv, OrphansCounted
<1> QED
  BY <1>1, <1>2, LostNext, StageInit, StageNext, ShareTypeInit, ShareTypeNext, PTL DEF Spec

=============================================================================
