-------------------------- MODULE FilesLeaseProofs --------------------------
(***************************************************************************)
(* Theorems about FilesLease for every number of workers, sources and      *)
(* workspaces: types, one live lease per workspace, a slice's hold on its  *)
(* lease, one slice per workspace unless a stop releases its lease, what a *)
(* worker knows of its leases, its concurrency, and turn taking.           *)
(***************************************************************************)
EXTENDS FilesLease, FiniteSetTheorems, TLAPS

-----------------------------------------------------------------------------
(* Types.                                                                  *)

\* The room of a tick is a number of slots: Cardinality is one on the finite
\* set of sources.
LEMMA RoomType ==
    ASSUME TypeOK, NEW w \in Workers, Room(w) > 0
    PROVE  Room(w) \in 0 .. Concurrency
<1>1. Running(w) \subseteq Sources
  BY DEF Running, InState
<1>2. IsFiniteSet(Running(w))
  BY <1>1, FS_Subset, LeaseAssumption
<1>3. Cardinality(Running(w)) \in Nat
  BY <1>2, FS_CardinalityType
<1>. QED
  BY <1>3, LeaseAssumption DEF Room

\* Where a claim is over, the tick goes on with values of the same types.
LEMMA ProceedType ==
    ASSUME TypeOK, NEW w \in Workers, NEW st \in [Sources -> SliceStates],
           NEW T \in SUBSET Candidates, NEW n \in Int, n <= Concurrency, Proceed(w, st, T, n)
    PROVE  /\ slice' \in [Workers -> [Sources -> SliceStates]]
           /\ todo' \in [Workers -> SUBSET Candidates]
           /\ slots' \in [Workers -> 0 .. Concurrency]
<1>a. /\ slice \in [Workers -> [Sources -> SliceStates]]
      /\ todo \in [Workers -> SUBSET Candidates]
      /\ slots \in [Workers -> 0 .. Concurrency]
  BY DEF TypeOK
<1>1. CASE TickOver(T, n)
  <2> DEFINE f == [s \in Sources |-> IF st[s] = "claimed" THEN "running" ELSE st[s]]
  <2>1. f \in [Sources -> SliceStates]
    BY DEF SliceStates
  <2>2. /\ slice' = [slice EXCEPT ![w] = f]
        /\ todo' = [todo EXCEPT ![w] = {}]
        /\ slots' = [slots EXCEPT ![w] = 0]
    BY <1>1 DEF Proceed
  <2>3. 0 \in 0 .. Concurrency
    BY LeaseAssumption
  <2> HIDE DEF f
  <2>. QED
    BY <1>a, <2>1, <2>2, <2>3
<1>2. CASE ~TickOver(T, n)
  <2>1. /\ slice' = [slice EXCEPT ![w] = st]
        /\ todo' = [todo EXCEPT ![w] = T]
        /\ slots' = [slots EXCEPT ![w] = n]
    BY <1>2 DEF Proceed
  <2>2. n \in 0 .. Concurrency
    BY <1>2, LeaseAssumption DEF TickOver
  <2>. QED
    BY <1>a, <2>1, <2>2
<1>. QED
  BY <1>1, <1>2

\* A slice that settles leaves process states of the same types.
LEMMA SettleType ==
    ASSUME TypeOK, held' \in [Workers -> SUBSET Sources],
           NEW w \in Workers, NEW s \in Sources, Settle(w, s)
    PROVE  /\ status' \in [Workers -> Alive \cup {"off", "stopped", "crashed"}]
           /\ awaited' \in [Workers -> SUBSET Sources]
<1>1. /\ status \in [Workers -> Alive \cup {"off", "stopped", "crashed"}]
      /\ awaited \in [Workers -> SUBSET Sources]
  BY DEF TypeOK
<1>2. held'[w] \in SUBSET Sources /\ awaited[w] \in SUBSET Sources
  BY <1>1
<1>3. CASE status[w] = "stopping" /\ awaited[w] \subseteq {s}
  BY <1>1, <1>2, <1>3 DEF Settle, Alive
<1>4. CASE ~(status[w] = "stopping" /\ awaited[w] \subseteq {s})
  <2>1. awaited' = [awaited EXCEPT ![w] = IF status[w] = "stopping"
                                            THEN awaited[w] \ {s} ELSE awaited[w]]
        /\ UNCHANGED status
    BY <1>4 DEF Settle
  <2>. QED
    BY <1>1, <1>2, <2>1
<1>. QED
  BY <1>3, <1>4

\* A process that a settling slice moves on was stopping.
LEMMA SettleStatus ==
    ASSUME TypeOK, NEW w \in Workers, NEW s \in Sources, Settle(w, s), NEW v \in Workers
    PROVE  status'[v] = status[v] \/ (status[v] = "stopping" /\ status'[v] = "releasing")
BY DEF Settle, TypeOK

\* What becomes of the slices then: claimed ones may start.
ProceedSlices(w, st) ==
    /\ \A s \in Sources :
          slice'[w][s] = st[s] \/ (st[s] = "claimed" /\ slice'[w][s] = "running")
    /\ \A v \in Workers \ {w} : slice'[v] = slice[v]

LEMMA ProceedEffect ==
    ASSUME TypeOK, NEW w \in Workers, NEW st \in [Sources -> SliceStates],
           NEW T, NEW n, Proceed(w, st, T, n)
    PROVE  ProceedSlices(w, st)
BY DEF Proceed, ProceedSlices, TypeOK

\* A release leaves rows of the same types.
LEMMA ClearLeaseType ==
    ASSUME TypeOK, NEW w \in Workers, NEW s \in Sources, ClearLease(w, s)
    PROVE  /\ owner' \in [Sources -> Workers \cup {NoWorker}]
           /\ left' \in [Sources -> 0 .. LeaseTerm]
<1>1. CASE owner[s] = w
  <2>1. /\ owner' = [owner EXCEPT ![s] = NoWorker]
        /\ left' = [left EXCEPT ![s] = 0]
    BY <1>1, Zenon DEF ClearLease
  <2>2. 0 \in 0 .. LeaseTerm
    BY LeaseAssumption
  <2>. QED
    BY <2>1, <2>2, Zenon DEF TypeOK
<1>2. CASE owner[s] # w
  BY <1>2, LeaseAssumption DEF ClearLease, TypeOK, rows
<1>. QED
  BY <1>1, <1>2

\* What a release does to the rows, row by row.
ClearedRows(w, s) ==
    \A t \in Sources :
        IF t = s /\ owner[s] = w THEN owner'[t] = NoWorker /\ left'[t] = 0
                                 ELSE owner'[t] = owner[t] /\ left'[t] = left[t]

LEMMA ClearLeaseRows ==
    ASSUME TypeOK, NEW w \in Workers, NEW s \in Sources, ClearLease(w, s)
    PROVE  ClearedRows(w, s)
BY DEF ClearLease, ClearedRows, TypeOK, rows

LEMMA ClaimableType ==
    ASSUME NEW o PROVE Claimable(o) \subseteq due
BY DEF Claimable, MostOverdue

\* Every action keeps the types of the rows, the queue and the processes.
THEOREM TypeCorrect == Spec => []TypeOK
<1>1. Init => TypeOK
  BY LeaseAssumption DEF Init, TypeOK, SliceStates
<1>2. TypeOK /\ [Next]_vars => TypeOK'
  <2> SUFFICES ASSUME TypeOK, [Next]_vars PROVE TypeOK'
    OBVIOUS
  <2> USE LeaseAssumption DEF TypeOK
  <2>1. ASSUME NEW s \in Sources, BecomeDue(s) PROVE TypeOK'
    BY <2>1 DEF BecomeDue, Enqueue, rows, procs
  <2>2. ASSUME NEW s \in Sources, Withdraw(s) PROVE TypeOK'
    BY <2>2 DEF Withdraw, Dequeue, rows, procs
  <2>3. ASSUME NEW w \in Workers, Start(w) PROVE TypeOK'
    BY <2>3 DEF Start, rows, queue, Alive
  <2>4. ASSUME NEW w \in Workers, Survey(w) PROVE TypeOK'
    <3> DEFINE found == UNION {Claimable(o) : o \in Workspaces \ Busy(w)}
               cands == {[src |-> s, after |-> ahead[s] \cap found] : s \in found}
    <3>1. found \subseteq Sources
      BY ClaimableType
    <3>2. cands \subseteq Candidates
      BY <3>1 DEF Candidates
    <3>3. Room(w) \in 0 .. Concurrency
      BY <2>4, RoomType DEF Survey
    <3>4. /\ todo' = [todo EXCEPT ![w] = cands]
          /\ slots' = [slots EXCEPT ![w] = Room(w)]
          /\ UNCHANGED <<rows, queue, status, slice, held, owed, awaited, faults>>
      BY <2>4, Zenon DEF Survey
    <3> HIDE DEF cands
    <3>. QED
      BY <3>2, <3>3, <3>4 DEF rows, queue
  <2>5. ASSUME NEW w \in Workers, NEW c \in todo[w], NEW s \in Sources, ClaimIn(w, c, s)
        PROVE  TypeOK'
    BY <2>5 DEF ClaimIn, SliceStates, queue
  <2>6. ASSUME NEW w \in Workers, NEW c \in todo[w], ClaimMiss(w, c) PROVE TypeOK'
    <3>1. /\ Proceed(w, slice[w], todo[w] \ {c}, slots[w])
          /\ UNCHANGED <<rows, queue, status, held, owed, awaited, faults>>
      BY <2>6 DEF ClaimMiss
    <3>a. /\ slots[w] \in Int /\ slots[w] <= Concurrency /\ slots[w] - 1 \in Int
          /\ slots[w] - 1 <= Concurrency /\ slice[w] \in [Sources -> SliceStates]
          /\ todo[w] \in SUBSET Candidates
      OBVIOUS
    <3>b. todo[w] \ {c} \in SUBSET Candidates
      BY <3>a
    <3>c. /\ slice' \in [Workers -> [Sources -> SliceStates]]
          /\ todo' \in [Workers -> SUBSET Candidates]
          /\ slots' \in [Workers -> 0 .. Concurrency]
      BY <3>1, <3>a, <3>b, ProceedType
    <3>. QED
      BY <3>1, <3>c DEF rows, queue
  <2>7. ASSUME NEW w \in Workers, NEW c \in todo[w], ClaimFails(w, c) PROVE TypeOK'
    <3>1. /\ Proceed(w, slice[w], todo[w] \ {c}, slots[w])
          /\ faults < MaxFaults /\ faults' = faults + 1
          /\ UNCHANGED <<rows, queue, status, held, owed, awaited>>
      BY <2>7 DEF ClaimFails
    <3>a. /\ slots[w] \in Int /\ slots[w] <= Concurrency /\ slots[w] - 1 \in Int
          /\ slots[w] - 1 <= Concurrency /\ slice[w] \in [Sources -> SliceStates]
          /\ todo[w] \in SUBSET Candidates
      OBVIOUS
    <3>b. todo[w] \ {c} \in SUBSET Candidates
      BY <3>a
    <3>c. /\ slice' \in [Workers -> [Sources -> SliceStates]]
          /\ todo' \in [Workers -> SUBSET Candidates]
          /\ slots' \in [Workers -> 0 .. Concurrency]
      BY <3>1, <3>a, <3>b, ProceedType
    <3>. QED
      BY <3>1, <3>c DEF rows, queue
  <2>8. ASSUME NEW w \in Workers, NEW s \in Sources, ClaimAnswered(w, s) PROVE TypeOK'
    <3>1. /\ Proceed(w, [slice[w] EXCEPT ![s] = "claimed"], todo[w], slots[w] - 1)
          /\ held' = [held EXCEPT ![w] = @ \cup {s}]
          /\ UNCHANGED <<rows, queue, status, owed, awaited, faults>>
      BY <2>8 DEF ClaimAnswered, Remember
    <3>2. [slice[w] EXCEPT ![s] = "claimed"] \in [Sources -> SliceStates]
      BY DEF SliceStates
    <3>a. /\ slots[w] \in Int /\ slots[w] <= Concurrency /\ slots[w] - 1 \in Int
          /\ slots[w] - 1 <= Concurrency /\ slice[w] \in [Sources -> SliceStates]
          /\ todo[w] \in SUBSET Candidates
      OBVIOUS
    <3>b. /\ slice' \in [Workers -> [Sources -> SliceStates]]
          /\ todo' \in [Workers -> SUBSET Candidates]
          /\ slots' \in [Workers -> 0 .. Concurrency]
      BY <3>1, <3>2, <3>a, ProceedType
    <3>. QED
      BY <3>1, <3>b DEF rows, queue
  <2>8a. ASSUME NEW w \in Workers, NEW s \in Sources, ClaimAnswerLost(w, s) PROVE TypeOK'
    <3>1. /\ Proceed(w, [slice[w] EXCEPT ![s] = "none"], todo[w], slots[w])
          /\ faults < MaxFaults /\ faults' = faults + 1
          /\ UNCHANGED <<rows, queue, status, held, owed, awaited>>
      BY <2>8a DEF ClaimAnswerLost
    <3>2. [slice[w] EXCEPT ![s] = "none"] \in [Sources -> SliceStates]
      BY DEF SliceStates
    <3>a. /\ slots[w] \in Int /\ slots[w] <= Concurrency /\ slots[w] - 1 \in Int
          /\ slots[w] - 1 <= Concurrency /\ slice[w] \in [Sources -> SliceStates]
          /\ todo[w] \in SUBSET Candidates
      OBVIOUS
    <3>b. /\ slice' \in [Workers -> [Sources -> SliceStates]]
          /\ todo' \in [Workers -> SUBSET Candidates]
          /\ slots' \in [Workers -> 0 .. Concurrency]
      BY <3>1, <3>2, <3>a, ProceedType
    <3>. QED
      BY <3>1, <3>b DEF rows, queue
  <2>9. ASSUME NEW w \in Workers, NEW s \in Sources, EndSlice(w, s) PROVE TypeOK'
    <3>1. /\ slice' = [slice EXCEPT ![w][s] = "releasing"]
          /\ owed' = [owed EXCEPT ![w] = @ \ {s}]
          /\ faults' \in {faults, faults + 1} /\ (faults' = faults + 1 => faults < MaxFaults)
          /\ UNCHANGED <<rows, status, todo, slots, held, awaited>>
      BY <2>9 DEF EndSlice
    <3>2. due' \in SUBSET Sources
      BY <2>9 DEF EndSlice, queue
    <3>3. ahead' \in [Sources -> SUBSET Sources]
      <4>1. Dequeue(ahead, s) \in [Sources -> SUBSET Sources]
        BY DEF Dequeue
      <4>2. Enqueue(due, Dequeue(ahead, s), s) \in [Sources -> SUBSET Sources]
        BY <4>1 DEF Enqueue
      <4>. QED
        BY <2>9, <4>1, <4>2 DEF EndSlice, queue
    <3>. QED
      BY <3>1, <3>2, <3>3 DEF SliceStates, rows
  <2>10. ASSUME NEW w \in Workers, NEW s \in Sources, Release(w, s) PROVE TypeOK'
    <3>1. /\ ClearLease(w, s)
          /\ slice' = [slice EXCEPT ![w][s] = "none"]
          /\ held' = [held EXCEPT ![w] = @ \ {s}]
          /\ Settle(w, s)
          /\ UNCHANGED <<queue, todo, slots, owed, faults>>
      BY <2>10 DEF Release
    <3>2. held' \in [Workers -> SUBSET Sources]
      BY <3>1
    <3>. QED
      BY <3>1, <3>2, ClearLeaseType, SettleType DEF SliceStates, queue
  <2>11. ASSUME NEW w \in Workers, NEW s \in Sources, ReleaseFails(w, s) PROVE TypeOK'
    <3>1. /\ ClearLease(w, s) \/ UNCHANGED rows
          /\ slice' = [slice EXCEPT ![w][s] = "none"]
          /\ Settle(w, s)
          /\ faults < MaxFaults /\ faults' = faults + 1
          /\ UNCHANGED <<queue, todo, slots, held, owed>>
      BY <2>11 DEF ReleaseFails
    <3>2. /\ owner' \in [Sources -> Workers \cup {NoWorker}]
          /\ left' \in [Sources -> 0 .. LeaseTerm]
      BY <3>1, ClearLeaseType DEF rows
    <3>. QED
      BY <3>1, <3>2, SettleType DEF SliceStates, queue
  <2>12. ASSUME NEW w \in Workers, NEW s \in Sources, Renew(w, s) PROVE TypeOK'
    BY <2>12 DEF Renew, queue
  <2>13. ASSUME NEW w \in Workers, NEW s \in Sources, RenewFails(w, s) PROVE TypeOK'
    BY <2>13 DEF RenewFails, rows, queue
  <2>14. ASSUME NEW w \in Workers, Stop(w) PROVE TypeOK'
    BY <2>14 DEF Stop, Running, InState, Alive, rows, queue
  <2>15. ASSUME NEW w \in Workers, StopWaitOver(w) PROVE TypeOK'
    BY <2>15 DEF StopWaitOver, Alive, rows, queue
  <2>16. ASSUME NEW w \in Workers, NEW s \in awaited[w], StopRelease(w, s) PROVE TypeOK'
    BY <2>16, ClearLeaseType DEF StopRelease, queue
  <2>16a. ASSUME NEW w \in Workers, NEW s \in awaited[w], StopReleaseFails(w, s) PROVE TypeOK'
    <3>1. /\ ClearLease(w, s) \/ UNCHANGED rows
          /\ awaited' = [awaited EXCEPT ![w] = @ \ {s}]
          /\ faults < MaxFaults /\ faults' = faults + 1
          /\ UNCHANGED <<queue, status, todo, slots, slice, held, owed>>
      BY <2>16a DEF StopReleaseFails
    <3>2. /\ owner' \in [Sources -> Workers \cup {NoWorker}]
          /\ left' \in [Sources -> 0 .. LeaseTerm]
      BY <3>1, ClearLeaseType DEF rows
    <3>. QED
      BY <3>1, <3>2 DEF queue
  <2>17. ASSUME NEW w \in Workers, Exit(w) PROVE TypeOK'
    BY <2>17 DEF Exit, Gone, SliceStates, rows, queue
  <2>18. ASSUME NEW w \in Workers, Crash(w) PROVE TypeOK'
    BY <2>18 DEF Crash, Gone, SliceStates, rows, queue
  <2>19. ASSUME Advance PROVE TypeOK'
    BY <2>19 DEF Advance, Timers, InState, queue
  <2>20. CASE UNCHANGED vars
    BY <2>20 DEF vars
  <2>. QED
    BY <2>1, <2>2, <2>3, <2>4, <2>5, <2>6, <2>7, <2>8, <2>8a, <2>9, <2>10, <2>11, <2>12,
       <2>13, <2>14, <2>15, <2>16, <2>16a, <2>17, <2>18, <2>19, <2>20, Zenon
       DEF Next, Tick, RunSource, Shutdown
<1>. QED
  BY <1>1, <1>2, PTL DEF Spec

-----------------------------------------------------------------------------
(* Leases.  LeaseInv is inductive as long as fewer renewals fail than a     *)
(* lease outlives; OneLivePerWorkspace alone is not: a renewal of an        *)
(* expired lease would make a second one live.                              *)

\* A claim finds its whole workspace without a live lease.
LEMMA ClaimableFree ==
    ASSUME NEW c \in Candidates, NEW s \in Claimable(Org[c.src])
    PROVE  WorkspaceFree(Org[s])
BY DEF Claimable, MostOverdue

\* The inductive step, for the actions that leave leases and renewals alone and
\* begin no slice.
LEMMA QuietStep ==
    ASSUME TypeOK, TypeOK', LeaseInv, UNCHANGED <<owner, left, owed>>, faults' >= faults,
           \A w \in Workers, s \in Sources :
              /\ slice'[w][s] \in Working => slice[w][s] \in Working
              /\ slice'[w][s] # "none" => slice[w][s] # "none",
           \A w \in Workers :
              /\ status[w] \in Alive => status'[w] \in Alive
              /\ status'[w] \in {"up", "stopping"}
                    => \/ status[w] \in {"up", "stopping"}
                       \/ \A s \in Sources : slice[w][s] = "none"
    PROVE  LeaseInv'
<1>1. OneLivePerWorkspace'
  BY DEF LeaseInv, OneLivePerWorkspace, Live
<1>2. LeaseMargin'
  BY LeaseAssumption DEF LeaseInv, LeaseMargin, TypeOK
<1>3. SlicesOwned'
  <2> SUFFICES ASSUME NEW w \in Workers, NEW s \in Sources
               PROVE  /\ slice'[w][s] # "none" => status'[w] \in Alive
                      /\ status'[w] \in {"up", "stopping"} /\ slice'[w][s] \in Working
                            => owner[s] = w
    BY DEF SlicesOwned
  <2>1. slice'[w][s] # "none" => status'[w] \in Alive
    BY DEF LeaseInv, SlicesOwned
  <2>2. ASSUME status'[w] \in {"up", "stopping"}, slice'[w][s] \in Working
        PROVE  owner[s] = w
    <3>1. slice[w][s] \in Working /\ slice[w][s] # "none"
      BY <2>2 DEF Working
    <3>2. status[w] \in {"up", "stopping"}
      BY <2>2, <3>1
    <3>. QED
      BY <3>1, <3>2 DEF LeaseInv, SlicesOwned
  <2>. QED
    BY <2>1, <2>2
<1>. QED
  BY <1>1, <1>2, <1>3 DEF LeaseInv

\* A claim that is answered, lost or missed is such a step.
LEMMA ProceedStep ==
    ASSUME TypeOK, TypeOK', LeaseInv, UNCHANGED <<owner, left, owed, status>>, faults' >= faults,
           NEW w \in Workers, NEW st \in [Sources -> SliceStates], NEW T, NEW n,
           Proceed(w, st, T, n),
           \A s \in Sources :
              /\ st[s] \in Working => slice[w][s] \in Working
              /\ st[s] # "none" => slice[w][s] # "none"
    PROVE  LeaseInv'
<1>1. ProceedSlices(w, st)
  BY ProceedEffect
<1>2. \A v \in Workers, s \in Sources :
         /\ slice'[v][s] \in Working => slice[v][s] \in Working
         /\ slice'[v][s] # "none" => slice[v][s] # "none"
  BY <1>1 DEF ProceedSlices, Working
<1>. QED
  BY <1>2, QuietStep

LEMMA LeaseInvariant ==
    ASSUME MaxFaults + 1 < LeaseTerm
    PROVE  Spec => []LeaseInv
<1>1. Init => LeaseInv
  BY LeaseAssumption DEF Init, LeaseInv, OneLivePerWorkspace, Live, LeaseMargin, SlicesOwned,
     Working
<1>2. TypeOK /\ TypeOK' /\ LeaseInv /\ [Next]_vars => LeaseInv'
  <2> SUFFICES ASSUME TypeOK, TypeOK', LeaseInv, [Next]_vars PROVE LeaseInv'
    OBVIOUS
  <2>1. ASSUME NEW s \in Sources, BecomeDue(s) \/ Withdraw(s) PROVE LeaseInv'
    BY <2>1, QuietStep, LeaseAssumption DEF BecomeDue, Withdraw, rows, procs, TypeOK
  <2>2. ASSUME NEW w \in Workers, Start(w) PROVE LeaseInv'
    <3>1. \A s \in Sources : slice[w][s] = "none"
      BY <2>2 DEF Start, LeaseInv, SlicesOwned, Alive
    <3>. QED
      BY <2>2, <3>1, QuietStep, LeaseAssumption DEF Start, rows, Alive, TypeOK
  <2>3. ASSUME NEW w \in Workers, Survey(w) PROVE LeaseInv'
    <3>1. UNCHANGED <<owner, left, slice, owed, status, faults>>
      BY <2>3 DEF Survey, rows
    <3>2. faults' >= faults
      BY <3>1, LeaseAssumption DEF TypeOK
    <3>. QED
      BY <3>1, <3>2, QuietStep
  <2>4. ASSUME NEW w \in Workers, NEW c \in todo[w], NEW s \in Sources, ClaimIn(w, c, s)
        PROVE  LeaseInv'
    <3>1. /\ status[w] \in Alive
          /\ owner' = [owner EXCEPT ![s] = w]
          /\ left' = [left EXCEPT ![s] = LeaseTerm]
          /\ slice' = [slice EXCEPT ![w][s] = "claiming"]
          /\ UNCHANGED <<status, owed, faults>>
      BY <2>4 DEF ClaimIn, CanClaim
    <3>2. \A t \in Sources : Org[t] = Org[s] => ~Live(t)
      BY <2>4, ClaimableFree DEF ClaimIn, TypeOK, WorkspaceFree
    <3>3. OneLivePerWorkspace'
      BY <3>1, <3>2, LeaseAssumption DEF LeaseInv, OneLivePerWorkspace, Live, TypeOK
    <3>4. LeaseMargin'
      BY <3>1, LeaseAssumption DEF LeaseInv, LeaseMargin, TypeOK, Working
    <3>5. SlicesOwned'
      <4>1. ASSUME NEW v \in Workers, owner[s] = v, slice[v][s] \in Working
            PROVE  FALSE
        <5>1. left[s] = 0
          BY <3>2 DEF Live, TypeOK
        <5>2. left[s] + faults + (IF s \in owed[v] THEN 1 ELSE 0) >= LeaseTerm
          BY <4>1 DEF LeaseInv, LeaseMargin
        <5>. QED
          BY <5>1, <5>2, LeaseAssumption DEF TypeOK
      <4>2. \A v \in Workers, t \in Sources :
               (v # w \/ t # s) => slice'[v][t] = slice[v][t]
        BY <3>1 DEF TypeOK
      <4>3. slice'[w][s] = "claiming" /\ owner'[s] = w
        BY <3>1 DEF TypeOK
      <4>4. \A t \in Sources : t # s => owner'[t] = owner[t]
        BY <3>1 DEF TypeOK
      <4>. QED
        BY <3>1, <4>1, <4>2, <4>3, <4>4 DEF LeaseInv, SlicesOwned
    <3>. QED
      BY <3>3, <3>4, <3>5 DEF LeaseInv
  <2>5. ASSUME NEW w \in Workers, NEW c \in todo[w], ClaimMiss(w, c) \/ ClaimFails(w, c)
        PROVE  LeaseInv'
    <3>1. /\ Proceed(w, slice[w], todo[w] \ {c}, slots[w])
          /\ UNCHANGED <<owner, left, owed, status>>
          /\ faults' >= faults
      BY <2>5, LeaseAssumption DEF ClaimMiss, ClaimFails, rows, TypeOK
    <3>2. slice[w] \in [Sources -> SliceStates]
      BY DEF TypeOK
    <3>. QED
      BY <3>1, <3>2, ProceedStep
  <2>6. ASSUME NEW w \in Workers, NEW s \in Sources, ClaimAnswered(w, s) PROVE LeaseInv'
    <3>1. /\ slice[w][s] = "claiming"
          /\ Proceed(w, [slice[w] EXCEPT ![s] = "claimed"], todo[w], slots[w] - 1)
          /\ UNCHANGED <<owner, left, owed, status, faults>>
      BY <2>6 DEF ClaimAnswered, rows
    <3>2. /\ [slice[w] EXCEPT ![s] = "claimed"] \in [Sources -> SliceStates]
          /\ faults' >= faults
      BY <3>1, LeaseAssumption DEF SliceStates, TypeOK
    <3>3. \A t \in Sources :
             /\ [slice[w] EXCEPT ![s] = "claimed"][t] \in Working => slice[w][t] \in Working
             /\ [slice[w] EXCEPT ![s] = "claimed"][t] # "none" => slice[w][t] # "none"
      BY <3>1 DEF Working, TypeOK
    <3>. QED
      BY <3>1, <3>2, <3>3, ProceedStep
  <2>7. ASSUME NEW w \in Workers, NEW s \in Sources, ClaimAnswerLost(w, s) PROVE LeaseInv'
    <3>1. /\ slice[w][s] = "claiming"
          /\ Proceed(w, [slice[w] EXCEPT ![s] = "none"], todo[w], slots[w])
          /\ faults' = faults + 1
          /\ UNCHANGED <<owner, left, owed, status>>
      BY <2>7 DEF ClaimAnswerLost, rows
    <3>2. /\ [slice[w] EXCEPT ![s] = "none"] \in [Sources -> SliceStates]
          /\ faults' >= faults
      BY <3>1, LeaseAssumption DEF SliceStates, TypeOK
    <3>3. \A t \in Sources :
             /\ [slice[w] EXCEPT ![s] = "none"][t] \in Working => slice[w][t] \in Working
             /\ [slice[w] EXCEPT ![s] = "none"][t] # "none" => slice[w][t] # "none"
      BY <3>1 DEF Working, TypeOK
    <3>. QED
      BY <3>1, <3>2, <3>3, ProceedStep
  <2>8. ASSUME NEW w \in Workers, NEW s \in Sources, EndSlice(w, s) PROVE LeaseInv'
    <3>1. /\ slice[w][s] = "running"
          /\ slice' = [slice EXCEPT ![w][s] = "releasing"]
          /\ owed' = [owed EXCEPT ![w] = @ \ {s}]
          /\ faults' \in {faults, faults + 1}
          /\ UNCHANGED <<owner, left, status>>
      BY <2>8 DEF EndSlice, rows
    <3>. QED
      BY <3>1, LeaseAssumption DEF LeaseInv, OneLivePerWorkspace, Live, LeaseMargin,
         SlicesOwned, TypeOK, Working
  <2>9. ASSUME NEW w \in Workers, NEW s \in Sources, Release(w, s) \/ ReleaseFails(w, s)
        PROVE  LeaseInv'
    <3>1. /\ slice[w][s] = "releasing"
          /\ slice' = [slice EXCEPT ![w][s] = "none"]
          /\ ClearLease(w, s) \/ UNCHANGED rows
          /\ Settle(w, s)
          /\ UNCHANGED owed
      BY <2>9 DEF Release, ReleaseFails
    <3>2. faults' >= faults
      BY <2>9, LeaseAssumption DEF Release, ReleaseFails, TypeOK
    <3>3. ClearedRows(w, s) \/ UNCHANGED rows
      BY <3>1, ClearLeaseRows
    <3>4. \A v \in Workers : \/ status'[v] = status[v]
                             \/ status[v] = "stopping" /\ status'[v] = "releasing"
      BY <3>1, SettleStatus
    <3>5. \A v \in Workers, t \in Sources :
             slice'[v][t] = IF v = w /\ t = s THEN "none" ELSE slice[v][t]
      BY <3>1 DEF TypeOK
    <3>6. OneLivePerWorkspace'
      BY <3>3, LeaseAssumption DEF ClearedRows, rows, LeaseInv, OneLivePerWorkspace, Live
    <3>7. LeaseMargin'
      BY <3>1, <3>2, <3>3, <3>5, LeaseAssumption
         DEF ClearedRows, rows, LeaseInv, LeaseMargin, Working, TypeOK
    <3>8. SlicesOwned'
      BY <3>1, <3>3, <3>4, <3>5 DEF ClearedRows, rows, LeaseInv, SlicesOwned, Working, Alive
    <3>. QED
      BY <3>6, <3>7, <3>8 DEF LeaseInv
  <2>11. ASSUME NEW w \in Workers, NEW s \in awaited[w],
                StopRelease(w, s) \/ StopReleaseFails(w, s)
         PROVE  LeaseInv'
    <3>1. /\ status[w] = "releasing"
          /\ ClearLease(w, s) \/ UNCHANGED rows
          /\ UNCHANGED <<status, slice, owed>>
      BY <2>11 DEF StopRelease, StopReleaseFails
    <3>2. faults' >= faults
      BY <2>11, LeaseAssumption DEF StopRelease, StopReleaseFails, TypeOK
    <3>3. s \in Sources /\ (ClearedRows(w, s) \/ UNCHANGED rows)
      BY <3>1, ClearLeaseRows DEF TypeOK
    <3>4. OneLivePerWorkspace'
      BY <3>3, LeaseAssumption DEF ClearedRows, rows, LeaseInv, OneLivePerWorkspace, Live
    <3>5. LeaseMargin'
      BY <3>1, <3>2, <3>3, LeaseAssumption DEF ClearedRows, rows, LeaseInv, LeaseMargin, TypeOK
    <3>6. SlicesOwned'
      BY <3>1, <3>3 DEF ClearedRows, rows, LeaseInv, SlicesOwned
    <3>. QED
      BY <3>4, <3>5, <3>6 DEF LeaseInv
  <2>12. ASSUME NEW w \in Workers, NEW s \in Sources, Renew(w, s) PROVE LeaseInv'
    <3>1. /\ s \in owed[w]
          /\ owed' = [owed EXCEPT ![w] = @ \ {s}]
          /\ left' = IF owner[s] = w THEN [left EXCEPT ![s] = LeaseTerm] ELSE left
          /\ UNCHANGED <<owner, status, slice, faults>>
      BY <2>12 DEF Renew
    <3>2. owner[s] = w => Live(s)
      <4>1. owner[s] = w => left[s] + faults + 1 >= LeaseTerm
        BY <3>1 DEF LeaseInv, LeaseMargin
      <4>. QED
        BY <4>1, LeaseAssumption DEF Live, TypeOK
    <3>3. OneLivePerWorkspace'
      BY <3>1, <3>2, LeaseAssumption DEF LeaseInv, OneLivePerWorkspace, Live, TypeOK
    <3>4. LeaseMargin'
      BY <3>1, LeaseAssumption DEF LeaseInv, LeaseMargin, TypeOK
    <3>. QED
      BY <3>1, <3>3, <3>4 DEF LeaseInv, SlicesOwned, TypeOK
  <2>13. ASSUME NEW w \in Workers, NEW s \in Sources, RenewFails(w, s) PROVE LeaseInv'
    <3>1. /\ s \in owed[w]
          /\ faults' = faults + 1
          /\ owed' = [owed EXCEPT ![w] = @ \ {s}]
          /\ UNCHANGED <<owner, left, status, slice>>
      BY <2>13 DEF RenewFails, rows
    <3>2. LeaseMargin'
      BY <3>1, LeaseAssumption DEF LeaseInv, LeaseMargin, TypeOK
    <3>. QED
      BY <3>1, <3>2 DEF LeaseInv, OneLivePerWorkspace, Live, SlicesOwned, TypeOK
  <2>14. ASSUME NEW w \in Workers, Stop(w) \/ StopWaitOver(w) PROVE LeaseInv'
    BY <2>14, QuietStep, LeaseAssumption DEF Stop, StopWaitOver, rows, Alive, TypeOK
  <2>15. ASSUME NEW w \in Workers, Exit(w) \/ Crash(w) PROVE LeaseInv'
    <3>1. /\ slice' = [slice EXCEPT ![w] = [s \in Sources |-> "none"]]
          /\ owed' = [owed EXCEPT ![w] = {}]
          /\ \A v \in Workers \ {w} : status'[v] = status[v]
          /\ UNCHANGED <<owner, left, faults>>
      BY <2>15 DEF Exit, Crash, Gone, rows, TypeOK
    <3>. QED
      BY <3>1, LeaseAssumption DEF LeaseInv, OneLivePerWorkspace, Live, LeaseMargin,
         SlicesOwned, TypeOK, Working
  <2>16. ASSUME Advance PROVE LeaseInv'
    <3>1. /\ \A w \in Workers : owed[w] = {} /\ Claims(w) = {}
          /\ left' = [s \in Sources |-> IF left[s] > 0 THEN left[s] - 1 ELSE 0]
          /\ owed' = [w \in Workers |-> InState(w, "running")]
          /\ UNCHANGED <<owner, status, slice, faults>>
      BY <2>16 DEF Advance, Timers
    <3>2. OneLivePerWorkspace'
      BY <3>1 DEF LeaseInv, OneLivePerWorkspace, Live, TypeOK
    <3>3. LeaseMargin'
      <4> SUFFICES ASSUME NEW w \in Workers, NEW s \in Sources,
                          owner[s] = w, slice[w][s] \in Working
                   PROVE  left'[s] + faults + (IF s \in owed'[w] THEN 1 ELSE 0) >= LeaseTerm
        BY <3>1 DEF LeaseMargin, InState, Working
      <4>1. s \in owed'[w]
        BY <3>1 DEF InState, Claims, Working
      <4>2. left[s] + faults >= LeaseTerm
        BY <3>1, LeaseAssumption DEF LeaseInv, LeaseMargin, TypeOK
      <4>. QED
        BY <3>1, <4>1, <4>2, LeaseAssumption DEF TypeOK
    <3>. QED
      BY <3>1, <3>2, <3>3 DEF LeaseInv, SlicesOwned
  <2>17. CASE UNCHANGED vars
    BY <2>17 DEF vars, LeaseInv, OneLivePerWorkspace, Live, LeaseMargin, SlicesOwned
  <2>. QED
    BY <2>1, <2>2, <2>3, <2>4, <2>5, <2>6, <2>7, <2>8, <2>9, <2>11, <2>12,
       <2>13, <2>14, <2>15, <2>16, <2>17, Zenon
       DEF Next, Tick, RunSource, Shutdown
<1>. QED
  BY <1>1, <1>2, TypeCorrect, PTL DEF Spec

\* Two leases of a workspace are never live at once while fewer than
\* LeaseTerm - 1 statements fail: with the code's 10 and 2 minutes, three
\* failures in a row do no harm.
THEOREM OneLiveLease ==
    ASSUME MaxFaults + 1 < LeaseTerm
    PROVE  Spec => []OneLivePerWorkspace
<1>1. LeaseInv => OneLivePerWorkspace
  BY DEF LeaseInv
<1>. QED
  BY <1>1, LeaseInvariant, PTL

LEMMA SliceOwnsLiveLease ==
    ASSUME MaxFaults + 1 < LeaseTerm, TypeOK, LeaseInv,
           NEW w \in Workers, NEW s \in Sources,
           status[w] \in {"up", "stopping"}, slice[w][s] = "running"
    PROVE  owner[s] = w /\ Live(s)
<1>1. owner[s] = w
  BY DEF LeaseInv, SlicesOwned, Working
<1>2. left[s] + faults + (IF s \in owed[w] THEN 1 ELSE 0) >= LeaseTerm
  BY <1>1 DEF LeaseInv, LeaseMargin, Working
<1>. QED
  BY <1>1, <1>2, LeaseAssumption DEF Live, TypeOK

\* A slice holds its source's lease from its start to its end in every worker
\* that is not yet releasing its leases.
THEOREM SliceHoldsLease ==
    ASSUME MaxFaults + 1 < LeaseTerm
    PROVE  Spec => []RunningHoldsLease
<1>1. TypeOK /\ LeaseInv => RunningHoldsLease
  BY SliceOwnsLiveLease DEF RunningHoldsLease
<1>. QED
  BY <1>1, LeaseInvariant, TypeCorrect, PTL

-----------------------------------------------------------------------------
(* Slices.  A worker that is stopped gracefully gives up the leases of     *)
(* slices that still run (run FilesLease_handover): that is the only way   *)
(* in which two slices of a workspace meet.                                *)

OverlapsOnlyAtStop ==
    \A w, v \in Workers, s, t \in Sources :
        slice[w][s] = "running" /\ slice[v][t] = "running" /\ Org[s] = Org[t]
            => (w = v /\ s = t) \/ "releasing" \in {status[w], status[v]}

\* When two slices of a workspace run at once, stop() has begun to release the
\* leases of a worker that runs one of them (scheduler.ts:91): crashes, lost
\* renewals and whatever else happens during a deploy do not lead there.
THEOREM SlicesMeetOnlyAtStop ==
    ASSUME MaxFaults + 1 < LeaseTerm
    PROVE  Spec => []OverlapsOnlyAtStop
<1>1. TypeOK /\ LeaseInv => OverlapsOnlyAtStop
  <2> SUFFICES ASSUME TypeOK, LeaseInv,
                      NEW w \in Workers, NEW v \in Workers,
                      NEW s \in Sources, NEW t \in Sources,
                      slice[w][s] = "running", slice[v][t] = "running", Org[s] = Org[t],
                      "releasing" \notin {status[w], status[v]}
               PROVE  w = v /\ s = t
    BY DEF OverlapsOnlyAtStop
  <2>1. status[w] \in {"up", "stopping"} /\ status[v] \in {"up", "stopping"}
    BY DEF LeaseInv, SlicesOwned, Alive
  <2>2. owner[s] = w /\ Live(s) /\ owner[t] = v /\ Live(t)
    BY <2>1, SliceOwnsLiveLease
  <2>3. s = t
    BY <2>2 DEF LeaseInv, OneLivePerWorkspace
  <2>. QED
    BY <2>2, <2>3
<1>. QED
  BY <1>1, LeaseInvariant, TypeCorrect, PTL

NeverStopping == \A w \in Workers : status[w] \notin {"stopping", "releasing"}

LEMMA NoWorkerStops ==
    ASSUME ~Stopping PROVE Spec => []NeverStopping
<1>1. Init => NeverStopping
  BY DEF Init, NeverStopping
<1>2. TypeOK /\ NeverStopping /\ [Next]_vars => NeverStopping'
  <2> SUFFICES ASSUME TypeOK, NeverStopping, [Next]_vars PROVE NeverStopping'
    OBVIOUS
  <2> USE DEF NeverStopping, TypeOK
  <2>1. CASE \E s \in Sources : BecomeDue(s) \/ Withdraw(s)
    BY <2>1 DEF BecomeDue, Withdraw, procs
  <2>2. ASSUME NEW w \in Workers, Start(w) \/ Tick(w) PROVE NeverStopping'
    BY <2>2 DEF Start, Tick, Survey, ClaimIn, ClaimMiss, ClaimFails, ClaimAnswered,
       ClaimAnswerLost
  <2>3. ASSUME NEW w \in Workers, Shutdown(w) PROVE NeverStopping'
    BY <2>3 DEF Shutdown, Stop, StopWaitOver, StopRelease, StopReleaseFails, Exit, Crash, Gone
  <2>4. ASSUME NEW w \in Workers, NEW s \in Sources, RunSource(w, s) PROVE NeverStopping'
    BY <2>4 DEF RunSource, EndSlice, Release, ReleaseFails, Settle, Renew, RenewFails
  <2>5. CASE Advance \/ UNCHANGED vars
    BY <2>5 DEF Advance, vars
  <2>. QED
    BY <2>1, <2>2, <2>3, <2>4, <2>5, Zenon DEF Next
<1>. QED
  BY <1>1, <1>2, TypeCorrect, PTL DEF Spec

\* Crashes and failing statements alone never make two slices of a workspace
\* run at once.
THEOREM OneSlicePerWorkspace ==
    ASSUME MaxFaults + 1 < LeaseTerm, ~Stopping
    PROVE  Spec => []OneRunPerWorkspace
<1>1. OverlapsOnlyAtStop /\ NeverStopping => OneRunPerWorkspace
  BY DEF OverlapsOnlyAtStop, NeverStopping, OneRunPerWorkspace
<1>. QED
  BY <1>1, SlicesMeetOnlyAtStop, NoWorkerStops, PTL

-----------------------------------------------------------------------------
(* What a worker knows of its leases.                                      *)

\* A process that has not started yet owns no lease: a worker id is never used
\* twice.  With it LeasesAccounted is inductive.
OffOwnsNothing ==
    \A w \in Workers, s \in Sources :
        status[w] = "off" => owner[s] # w /\ s \notin held[w] /\ slice[w][s] = "none"
KnownLeases == LeasesAccounted /\ OffOwnsNothing

\* A step that adds no lease, and neither forgets one nor keeps an entry too
\* long unless a statement fails.
LEMMA KnownStep ==
    ASSUME KnownLeases,
           faults' = 0 => faults = 0,
           \A w \in Workers :
              /\ status'[w] = "off" => status[w] = "off"
              /\ status'[w] \in Alive => status[w] \in Alive \cup {"off"},
           \A w \in Workers, s \in Sources :
              /\ owner'[s] = w => owner[s] = w
              /\ status'[w] = "off" => /\ s \in held'[w] => s \in held[w]
                                       /\ slice[w][s] = "none" => slice'[w][s] = "none"
              /\ faults' = 0 /\ status'[w] \in Alive =>
                    /\ owner'[s] = w =>
                          /\ s \in held[w] => s \in held'[w]
                          /\ slice[w][s] = "claiming"
                                => slice'[w][s] = "claiming" \/ s \in held'[w]
                    /\ s \in held'[w] =>
                          \/ slice'[w][s] # "none"
                          \/ s \in held[w] /\ slice[w][s] = "none"
    PROVE  KnownLeases'
<1> USE DEF KnownLeases
<1>1. OffOwnsNothing'
  BY DEF OffOwnsNothing
<1>2. LeasesAccounted'
  <2> SUFFICES ASSUME NEW w \in Workers, NEW s \in Sources,
                      faults' = 0, status'[w] \in Alive
               PROVE  /\ owner'[s] = w => s \in held'[w] \/ slice'[w][s] = "claiming"
                      /\ s \in held'[w] => slice'[w][s] # "none"
    BY DEF LeasesAccounted
  <2>1. CASE status[w] = "off"
    BY <2>1 DEF OffOwnsNothing
  <2>2. CASE status[w] \in Alive
    BY <2>2 DEF LeasesAccounted
  <2>. QED
    BY <2>1, <2>2
<1>. QED
  BY <1>1, <1>2

\* A claim that is missed, fails or loses its answer keeps the account.
LEMMA KnownProceed ==
    ASSUME TypeOK, KnownLeases, UNCHANGED <<owner, held, status>>,
           faults' = 0 => faults = 0,
           NEW w \in Workers, NEW T, NEW n, Proceed(w, slice[w], T, n)
    PROVE  KnownLeases'
<1>1. slice[w] \in [Sources -> SliceStates]
  BY DEF TypeOK
<1>2. ProceedSlices(w, slice[w])
  BY <1>1, ProceedEffect
<1>3. \A v \in Workers, s \in Sources :
         /\ slice[v][s] = "claiming" => slice'[v][s] = "claiming"
         /\ slice'[v][s] = "none" <=> slice[v][s] = "none"
  BY <1>2 DEF ProceedSlices
<1>. QED
  BY <1>3, KnownStep

\* As long as no statement fails and no answer is lost, a living worker knows
\* every lease it owns as soon as the claim's answer is there, and every entry of
\* its map is that of a slice under way: stop() releases them all, and no
\* workspace is skipped without reason.
THEOREM WorkerKnowsItsLeases == Spec => []LeasesAccounted
<1>1. Init => KnownLeases
  BY LeaseAssumption DEF Init, KnownLeases, LeasesAccounted, OffOwnsNothing, Alive
<1>2. TypeOK /\ TypeOK' /\ KnownLeases /\ [Next]_vars => KnownLeases'
  <2> SUFFICES ASSUME TypeOK, TypeOK', KnownLeases, [Next]_vars PROVE KnownLeases'
    OBVIOUS
  <2>1. ASSUME NEW s \in Sources, BecomeDue(s) \/ Withdraw(s) PROVE KnownLeases'
    BY <2>1, KnownStep DEF BecomeDue, Withdraw, rows, procs
  <2>2. ASSUME NEW w \in Workers, Start(w) PROVE KnownLeases'
    BY <2>2, KnownStep DEF Start, rows, TypeOK
  <2>3. ASSUME NEW w \in Workers, Survey(w) PROVE KnownLeases'
    BY <2>3, KnownStep DEF Survey, rows
  <2>4. ASSUME NEW w \in Workers, NEW c \in todo[w], NEW s \in Sources, ClaimIn(w, c, s)
        PROVE  KnownLeases'
    <3>1. /\ status[w] \in Alive
          /\ owner' = [owner EXCEPT ![s] = w]
          /\ slice' = [slice EXCEPT ![w][s] = "claiming"]
          /\ UNCHANGED <<status, held, faults>>
      BY <2>4 DEF ClaimIn, CanClaim
    <3>2. LeasesAccounted'
      BY <3>1 DEF KnownLeases, LeasesAccounted, TypeOK
    <3>3. OffOwnsNothing'
      BY <3>1 DEF KnownLeases, OffOwnsNothing, TypeOK, Alive
    <3>. QED
      BY <3>2, <3>3 DEF KnownLeases
  <2>5. ASSUME NEW w \in Workers, NEW c \in todo[w], ClaimMiss(w, c) \/ ClaimFails(w, c)
        PROVE  KnownLeases'
    <3>1. /\ Proceed(w, slice[w], todo[w] \ {c}, slots[w])
          /\ UNCHANGED <<owner, held, status>>
          /\ faults' = 0 => faults = 0
      BY <2>5, LeaseAssumption DEF ClaimMiss, ClaimFails, rows, TypeOK
    <3>. QED
      BY <3>1, KnownProceed
  <2>6. ASSUME NEW w \in Workers, NEW s \in Sources, ClaimAnswered(w, s) PROVE KnownLeases'
    <3>1. /\ slice[w][s] = "claiming"
          /\ held' = [held EXCEPT ![w] = @ \cup {s}]
          /\ Proceed(w, [slice[w] EXCEPT ![s] = "claimed"], todo[w], slots[w] - 1)
          /\ UNCHANGED <<owner, status, faults>>
      BY <2>6 DEF ClaimAnswered, Remember, rows
    <3>2. [slice[w] EXCEPT ![s] = "claimed"] \in [Sources -> SliceStates]
      BY DEF SliceStates, TypeOK
    <3>3. ProceedSlices(w, [slice[w] EXCEPT ![s] = "claimed"])
      BY <3>1, <3>2, ProceedEffect
    <3>4. slice'[w][s] # "none" /\ s \in held'[w]
      <4>1. [slice[w] EXCEPT ![s] = "claimed"][s] = "claimed"
        BY DEF TypeOK
      <4>2. slice'[w][s] \in {"claimed", "running"}
        BY <3>3, <4>1 DEF ProceedSlices
      <4>. QED
        BY <3>1, <4>2 DEF TypeOK
    <3>5. \A v \in Workers, t \in Sources : v # w \/ t # s =>
             /\ slice[v][t] = "claiming" => slice'[v][t] = "claiming"
             /\ slice'[v][t] = "none" => slice[v][t] = "none"
             /\ t \in held'[v] <=> t \in held[v]
      BY <3>1, <3>3 DEF ProceedSlices, TypeOK
    <3>6. LeasesAccounted'
      BY <3>1, <3>4, <3>5 DEF KnownLeases, LeasesAccounted
    <3>7. status[w] # "off" /\ \A v \in Workers \ {w} : slice'[v] = slice[v]
      BY <3>1, <3>3 DEF KnownLeases, OffOwnsNothing, ProceedSlices
    <3>8. OffOwnsNothing'
      BY <3>1, <3>5, <3>7 DEF KnownLeases, OffOwnsNothing
    <3>. QED
      BY <3>6, <3>8 DEF KnownLeases
  <2>7. ASSUME NEW w \in Workers, NEW s \in Sources,
               \/ ClaimAnswerLost(w, s) \/ ReleaseFails(w, s) \/ RenewFails(w, s)
        PROVE  KnownLeases'
    <3>1. /\ faults' # 0
          /\ UNCHANGED held
          /\ \A v \in Workers : \/ status'[v] = status[v]
                                \/ status[v] = "stopping" /\ status'[v] = "releasing"
      BY <2>7, SettleStatus, LeaseAssumption
         DEF ClaimAnswerLost, ReleaseFails, RenewFails, TypeOK
    <3>2. \A t \in Sources, v \in Workers : owner'[t] = v => owner[t] = v
      <4>1. ClearLease(w, s) \/ UNCHANGED owner
        BY <2>7 DEF ClaimAnswerLost, ReleaseFails, RenewFails, rows
      <4>2. ClearLease(w, s) => ClearedRows(w, s)
        BY ClearLeaseRows
      <4>. QED
        BY <4>1, <4>2, LeaseAssumption DEF ClearedRows
    <3>3. \A v \in Workers, t \in Sources :
             slice[v][t] = "none" => slice'[v][t] = "none"
      <4>1. CASE ClaimAnswerLost(w, s)
        <5>1. [slice[w] EXCEPT ![s] = "none"] \in [Sources -> SliceStates]
          BY DEF SliceStates, TypeOK
        <5>2. ProceedSlices(w, [slice[w] EXCEPT ![s] = "none"])
          BY <4>1, <5>1, ProceedEffect DEF ClaimAnswerLost
        <5>. QED
          BY <5>2 DEF ProceedSlices, TypeOK
      <4>2. CASE ReleaseFails(w, s) \/ RenewFails(w, s)
        <5>1. slice' = [slice EXCEPT ![w][s] = "none"] \/ slice' = slice
          BY <4>2 DEF ReleaseFails, RenewFails
        <5>. QED
          BY <5>1 DEF TypeOK
      <4>. QED
        BY <2>7, <4>1, <4>2
    <3>. QED
      BY <3>1, <3>2, <3>3, KnownStep DEF Alive
  <2>8. ASSUME NEW w \in Workers, NEW s \in Sources, EndSlice(w, s) PROVE KnownLeases'
    <3>1. /\ slice[w][s] = "running"
          /\ slice' = [slice EXCEPT ![w][s] = "releasing"]
          /\ faults' \in {faults, faults + 1}
          /\ UNCHANGED <<owner, status, held>>
      BY <2>8 DEF EndSlice, rows
    <3>. QED
      BY <3>1, KnownStep, LeaseAssumption DEF TypeOK
  <2>9. ASSUME NEW w \in Workers, NEW s \in Sources, Release(w, s) PROVE KnownLeases'
    <3>1. /\ ClearLease(w, s)
          /\ slice[w][s] = "releasing"
          /\ slice' = [slice EXCEPT ![w][s] = "none"]
          /\ held' = [held EXCEPT ![w] = @ \ {s}]
          /\ Settle(w, s)
          /\ UNCHANGED faults
      BY <2>9 DEF Release
    <3>2. ClearedRows(w, s)
      BY <3>1, ClearLeaseRows
    <3>3. \A v \in Workers : \/ status'[v] = status[v]
                             \/ status[v] = "stopping" /\ status'[v] = "releasing"
      BY <3>1, SettleStatus
    <3>4. \A v \in Workers, t \in Sources :
             /\ owner'[t] = v => owner[t] = v /\ (v # w \/ t # s)
             /\ t \in held'[v] <=> t \in held[v] /\ (v # w \/ t # s)
             /\ v # w \/ t # s => slice'[v][t] = slice[v][t]
      BY <3>1, <3>2, LeaseAssumption DEF ClearedRows, TypeOK
    <3>. QED
      BY <3>1, <3>3, <3>4, KnownStep DEF Alive
  <2>10. ASSUME NEW w \in Workers, NEW s \in awaited[w], StopRelease(w, s)
         PROVE  KnownLeases'
    <3>1. /\ ClearLease(w, s)
          /\ held' = [held EXCEPT ![w] = @ \ {s}]
          /\ UNCHANGED <<status, slice, faults>>
      BY <2>10 DEF StopRelease
    <3>2. s \in Sources /\ ClearedRows(w, s)
      BY <3>1, ClearLeaseRows DEF TypeOK
    <3>3. \A v \in Workers, t \in Sources :
             /\ owner'[t] = v => owner[t] = v /\ (v # w \/ t # s)
             /\ t \in held'[v] <=> t \in held[v] /\ (v # w \/ t # s)
      BY <3>1, <3>2, LeaseAssumption DEF ClearedRows, TypeOK
    <3>. QED
      BY <3>1, <3>3, KnownStep
  <2>11. ASSUME NEW w \in Workers, NEW s \in awaited[w], StopReleaseFails(w, s)
         PROVE  KnownLeases'
    <3>1. /\ faults' # 0
          /\ UNCHANGED <<held, status, slice>>
          /\ ClearLease(w, s) \/ UNCHANGED owner
          /\ s \in Sources
      BY <2>11, LeaseAssumption DEF StopReleaseFails, TypeOK, rows
    <3>2. \A t \in Sources, v \in Workers : owner'[t] = v => owner[t] = v
      BY <3>1, ClearLeaseRows, LeaseAssumption DEF ClearedRows
    <3>. QED
      BY <3>1, <3>2, KnownStep
  <2>12. ASSUME NEW w \in Workers, NEW s \in Sources, Renew(w, s) PROVE KnownLeases'
    BY <2>12, KnownStep DEF Renew
  <2>13. ASSUME NEW w \in Workers, Stop(w) \/ StopWaitOver(w) PROVE KnownLeases'
    <3>1. /\ status[w] \in Alive
          /\ \A v \in Workers : status'[v] = status[v] \/ (v = w /\ status'[v] \in Alive)
          /\ UNCHANGED <<owner, held, slice, faults>>
      BY <2>13 DEF Stop, StopWaitOver, rows, Alive, TypeOK
    <3>. QED
      BY <3>1, KnownStep DEF Alive
  <2>14. ASSUME NEW w \in Workers, Exit(w) \/ Crash(w) PROVE KnownLeases'
    <3>1. PICK st \in {"stopped", "crashed"} : Gone(w, st)
      BY <2>14 DEF Exit, Crash
    <3>2. /\ status' = [status EXCEPT ![w] = st]
          /\ held' = [held EXCEPT ![w] = {}]
          /\ slice' = [slice EXCEPT ![w] = [s \in Sources |-> "none"]]
          /\ UNCHANGED <<owner, faults>>
      BY <3>1 DEF Gone, rows
    <3>3. \A v \in Workers \ {w} :
             status'[v] = status[v] /\ held'[v] = held[v] /\ slice'[v] = slice[v]
      BY <3>2 DEF TypeOK
    <3>4. status'[w] \notin Alive \cup {"off"}
      BY <3>2 DEF TypeOK, Alive
    <3>. QED
      BY <3>2, <3>3, <3>4, KnownStep
  <2>15. CASE Advance \/ UNCHANGED vars
    BY <2>15, KnownStep DEF Advance, vars
  <2>16. \A w \in Workers : awaited[w] \subseteq Sources
    BY DEF TypeOK
  <2>. QED
    BY <2>1, <2>2, <2>3, <2>4, <2>5, <2>6, <2>7, <2>8, <2>9, <2>10, <2>11, <2>12, <2>13,
       <2>14, <2>15, <2>16, Zenon DEF Next, Tick, RunSource, Shutdown
<1>3. KnownLeases => LeasesAccounted
  BY DEF KnownLeases
<1>. QED
  BY <1>1, <1>2, <1>3, TypeCorrect, PTL DEF Spec

-----------------------------------------------------------------------------
(* FILES_WORKER_CONCURRENCY.                                               *)

\* The sources a worker has claimed, runs or releases: what its slots pay for.
Taken(w) == {s \in Sources : slice[w][s] \notin {"none", "claiming"}}

\* The slots a tick has left count what it claimed and what ended meanwhile, and
\* a claim that waits for its answer finds a slot: WithinConcurrency alone is
\* not inductive, an answered claim adds a slice.
SlotsLeft == \A w \in Workers : Cardinality(Taken(w)) + slots[w] <= Concurrency
SlotToTake ==
    \A w \in Workers :
        /\ todo[w] # {} \/ InState(w, "claiming") # {} => slots[w] > 0
        /\ \A s, t \in InState(w, "claiming") : s = t
SlotsInv == SlotsLeft /\ SlotToTake

LEMMA TakenFinite ==
    ASSUME NEW w PROVE IsFiniteSet(Taken(w)) /\ Cardinality(Taken(w)) \in Nat
<1>1. Taken(w) \subseteq Sources
  BY DEF Taken
<1>2. IsFiniteSet(Taken(w))
  BY <1>1, FS_Subset, LeaseAssumption
<1>. QED
  BY <1>2, FS_CardinalityType

\* A step after which no worker has more slots, more of its sources taken or
\* more claims under way.
LEMMA SlotsStep ==
    ASSUME TypeOK, TypeOK', SlotsInv,
           \A w \in Workers :
              /\ Taken(w)' \subseteq Taken(w)
              /\ slots'[w] <= slots[w]
              /\ InState(w, "claiming")' \subseteq InState(w, "claiming")
              /\ todo'[w] # {} \/ InState(w, "claiming")' # {} => slots'[w] > 0
    PROVE  SlotsInv'
<1>a. SlotToTake'
  BY DEF SlotsInv, SlotToTake
<1>b. SlotsLeft'
  <2> SUFFICES ASSUME NEW w \in Workers
               PROVE  Cardinality(Taken(w)') + slots'[w] <= Concurrency
    BY DEF SlotsLeft
  <2>1. IsFiniteSet(Taken(w)) /\ Cardinality(Taken(w)) \in Nat
    BY TakenFinite
  <2>2. Cardinality(Taken(w)') <= Cardinality(Taken(w)) /\ Cardinality(Taken(w)') \in Nat
    <3>1. Taken(w)' \subseteq Taken(w)
      OBVIOUS
    <3>2. IsFiniteSet(Taken(w)')
      BY <2>1, <3>1, FS_Subset
    <3>. QED
      BY <2>1, <3>1, <3>2, FS_Subset, FS_CardinalityType
  <2>3. slots'[w] <= slots[w] /\ slots[w] \in Nat /\ slots'[w] \in Nat
    BY LeaseAssumption DEF TypeOK
  <2>4. Cardinality(Taken(w)) + slots[w] <= Concurrency
    BY DEF SlotsInv, SlotsLeft
  <2>. QED
    BY <2>1, <2>2, <2>3, <2>4, LeaseAssumption
<1>. QED
  BY <1>a, <1>b DEF SlotsInv

\* A step that leaves slices, slots and candidates alone.
LEMMA IdleSlots ==
    ASSUME SlotsInv, UNCHANGED <<slice, slots, todo>>
    PROVE  SlotsInv'
BY DEF SlotsInv, SlotsLeft, SlotToTake, Taken, InState

\* A tick's slots are what its survey finds free.
LEMMA SurveySlots ==
    ASSUME TypeOK, TypeOK', SlotsInv, NEW w \in Workers, Survey(w)
    PROVE  SlotsInv'
<1>1. /\ slots' = [slots EXCEPT ![w] = Room(w)]
      /\ \A v \in Workers \ {w} : todo'[v] = todo[v]
      /\ UNCHANGED slice
      /\ Claims(w) = {}
      /\ Room(w) > 0
  BY DEF Survey, TypeOK
<1>2. Taken(w) = Running(w)
  BY <1>1 DEF Taken, Running, Claims, InState, TypeOK, SliceStates
<1>3. Cardinality(Taken(w)) + Room(w) = Concurrency
  BY <1>2, TakenFinite, LeaseAssumption DEF Room
<1>4. slots'[w] = Room(w) /\ \A v \in Workers \ {w} : slots'[v] = slots[v]
  BY <1>1 DEF TypeOK
<1>5. \A v \in Workers :
         Taken(v)' = Taken(v) /\ InState(v, "claiming")' = InState(v, "claiming")
  BY <1>1 DEF Taken, InState
<1>6. SlotToTake'
  BY <1>1, <1>4, <1>5 DEF SlotsInv, SlotToTake, Claims
<1>7. SlotsLeft'
  <2> SUFFICES ASSUME NEW v \in Workers
               PROVE  Cardinality(Taken(v)') + slots'[v] <= Concurrency
    BY DEF SlotsLeft
  <2>1. CASE v = w
    BY <1>3, <1>4, <1>5, <2>1, LeaseAssumption
  <2>2. CASE v # w
    BY <1>4, <1>5, <2>2 DEF SlotsInv, SlotsLeft
  <2>. QED
    BY <2>1, <2>2
<1>. QED
  BY <1>6, <1>7 DEF SlotsInv

\* What a claim that is over leaves of the slots, and of the sources taken.
LEMMA ProceedSlots ==
    ASSUME TypeOK, NEW w \in Workers, NEW st \in [Sources -> SliceStates],
           NEW T, NEW n \in Int, n <= slots[w], Proceed(w, st, T, n)
    PROVE  /\ slots'[w] = 0 \/ slots'[w] = n
           /\ todo'[w] # {} => slots'[w] > 0
           /\ \A v \in Workers \ {w} : slots'[v] = slots[v] /\ todo'[v] = todo[v]
           /\ Taken(w)' = {s \in Sources : st[s] \notin {"none", "claiming"}}
           /\ InState(w, "claiming")' = {s \in Sources : st[s] = "claiming"}
           /\ \A v \in Workers \ {w} : /\ Taken(v)' = Taken(v)
                                        /\ InState(v, "claiming")' = InState(v, "claiming")
<1>1. ProceedSlices(w, st)
  BY ProceedEffect
<1>2. /\ Taken(w)' = {s \in Sources : st[s] \notin {"none", "claiming"}}
      /\ InState(w, "claiming")' = {s \in Sources : st[s] = "claiming"}
  BY <1>1 DEF ProceedSlices, Taken, InState
<1>3. \A v \in Workers \ {w} : /\ Taken(v)' = Taken(v)
                                /\ InState(v, "claiming")' = InState(v, "claiming")
  BY <1>1 DEF ProceedSlices, Taken, InState
<1>4. CASE TickOver(T, n)
  BY <1>2, <1>3, <1>4 DEF Proceed, TypeOK
<1>5. CASE ~TickOver(T, n)
  BY <1>2, <1>3, <1>5 DEF Proceed, TypeOK, TickOver
<1>. QED
  BY <1>4, <1>5

\* A claim that is missed, fails or loses its answer takes no slot.
LEMMA MissSlots ==
    ASSUME TypeOK, TypeOK', SlotsInv, NEW w \in Workers, NEW st \in [Sources -> SliceStates],
           NEW T, Proceed(w, st, T, slots[w]),
           \A s \in Sources :
              st[s] # "claiming" /\ (st[s] # "none" => slice[w][s] \notin {"none", "claiming"})
    PROVE  SlotsInv'
<1>1. slots[w] \in Int /\ slots[w] >= 0
  BY LeaseAssumption DEF TypeOK
<1>2. /\ slots'[w] = 0 \/ slots'[w] = slots[w]
      /\ todo'[w] # {} => slots'[w] > 0
      /\ \A v \in Workers \ {w} : slots'[v] = slots[v] /\ todo'[v] = todo[v]
      /\ Taken(w)' = {s \in Sources : st[s] \notin {"none", "claiming"}}
      /\ InState(w, "claiming")' = {s \in Sources : st[s] = "claiming"}
      /\ \A v \in Workers \ {w} : /\ Taken(v)' = Taken(v)
                                   /\ InState(v, "claiming")' = InState(v, "claiming")
  BY <1>1, ProceedSlots
<1>3. Taken(w)' \subseteq Taken(w) /\ InState(w, "claiming")' = {}
  BY <1>2 DEF Taken
<1>4. ASSUME NEW v \in Workers
      PROVE  /\ Taken(v)' \subseteq Taken(v)
             /\ slots'[v] <= slots[v]
             /\ InState(v, "claiming")' \subseteq InState(v, "claiming")
             /\ todo'[v] # {} \/ InState(v, "claiming")' # {} => slots'[v] > 0
  <2>1. CASE v = w
    BY <1>1, <1>2, <1>3, <2>1
  <2>2. CASE v # w
    <3>1. slots[v] \in Int
      BY LeaseAssumption DEF TypeOK
    <3>. QED
      BY <1>2, <2>2, <3>1 DEF SlotsInv, SlotToTake
  <2>. QED
    BY <2>1, <2>2
<1>. QED
  BY <1>4, SlotsStep

\* A claim pays for its slice with a slot.
LEMMA ClaimSlots ==
    ASSUME TypeOK, TypeOK', SlotsInv, NEW w \in Workers, NEW s \in Sources, ClaimAnswered(w, s)
    PROVE  SlotsInv'
<1> DEFINE st == [slice[w] EXCEPT ![s] = "claimed"]
<1>1. slice[w][s] = "claiming" /\ Proceed(w, st, todo[w], slots[w] - 1)
  BY DEF ClaimAnswered
<1>2. st \in [Sources -> SliceStates]
  BY DEF TypeOK, SliceStates
<1>3. slots[w] \in Nat /\ slots[w] > 0
  BY <1>1, LeaseAssumption DEF SlotsInv, SlotToTake, InState, TypeOK
<1>4. /\ {t \in Sources : st[t] \notin {"none", "claiming"}} = Taken(w) \cup {s}
      /\ {t \in Sources : st[t] = "claiming"} = {}
  BY <1>1 DEF Taken, SlotsInv, SlotToTake, InState, TypeOK
<1> HIDE DEF st
<1>5. /\ slots'[w] = 0 \/ slots'[w] = slots[w] - 1
      /\ todo'[w] # {} => slots'[w] > 0
      /\ \A v \in Workers \ {w} : slots'[v] = slots[v] /\ todo'[v] = todo[v]
      /\ Taken(w)' = Taken(w) \cup {s}
      /\ InState(w, "claiming")' = {}
      /\ \A v \in Workers \ {w} : /\ Taken(v)' = Taken(v)
                                   /\ InState(v, "claiming")' = InState(v, "claiming")
  <2>1. slots[w] - 1 \in Int /\ slots[w] - 1 <= slots[w]
    BY <1>3
  <2>2. /\ slots'[w] = 0 \/ slots'[w] = slots[w] - 1
        /\ todo'[w] # {} => slots'[w] > 0
        /\ \A v \in Workers \ {w} : slots'[v] = slots[v] /\ todo'[v] = todo[v]
        /\ Taken(w)' = {t \in Sources : st[t] \notin {"none", "claiming"}}
        /\ InState(w, "claiming")' = {t \in Sources : st[t] = "claiming"}
        /\ \A v \in Workers \ {w} : /\ Taken(v)' = Taken(v)
                                     /\ InState(v, "claiming")' = InState(v, "claiming")
    BY <1>1, <1>2, <2>1, ProceedSlots
  <2>. QED
    BY <2>2, <1>4
<1>6. SlotToTake'
  <2> SUFFICES ASSUME NEW v \in Workers
               PROVE  /\ todo'[v] # {} \/ InState(v, "claiming")' # {} => slots'[v] > 0
                      /\ \A x, y \in InState(v, "claiming")' : x = y
    BY DEF SlotToTake
  <2>1. CASE v = w
    BY <1>5, <2>1
  <2>2. CASE v # w
    BY <1>5, <2>2 DEF SlotsInv, SlotToTake
  <2>. QED
    BY <2>1, <2>2
<1>7. Cardinality(Taken(w)) \in Nat /\ Cardinality(Taken(w) \cup {s}) \in Nat
      /\ Cardinality(Taken(w) \cup {s}) <= Cardinality(Taken(w)) + 1
  <2>1. IsFiniteSet(Taken(w)) /\ Cardinality(Taken(w)) \in Nat
    BY TakenFinite
  <2>2. IsFiniteSet(Taken(w) \cup {s})
    BY <2>1, FS_AddElement
  <2>3. \/ Cardinality(Taken(w) \cup {s}) = Cardinality(Taken(w))
        \/ Cardinality(Taken(w) \cup {s}) = Cardinality(Taken(w)) + 1
    BY <2>1, FS_AddElement
  <2>. QED
    BY <2>1, <2>2, <2>3, FS_CardinalityType
<1>8. Cardinality(Taken(w) \cup {s}) + slots'[w] <= Concurrency
  <2>1. Cardinality(Taken(w)) + slots[w] <= Concurrency
    BY DEF SlotsInv, SlotsLeft
  <2>2. slots'[w] \in Int /\ slots'[w] <= slots[w] - 1
    BY <1>3, <1>5
  <2>. QED
    BY <1>3, <1>7, <2>1, <2>2, LeaseAssumption
<1>9. SlotsLeft'
  <2> SUFFICES ASSUME NEW v \in Workers
               PROVE  Cardinality(Taken(v)') + slots'[v] <= Concurrency
    BY DEF SlotsLeft
  <2>1. CASE v = w
    <3>1. Cardinality(Taken(v)') + slots'[v] = Cardinality(Taken(w) \cup {s}) + slots'[w]
      BY <1>5, <2>1, Zenon
    <3>. QED
      BY <1>8, <3>1
  <2>2. CASE v # w
    BY <1>5, <2>2 DEF SlotsInv, SlotsLeft
  <2>. QED
    BY <2>1, <2>2
<1>. QED
  BY <1>6, <1>9 DEF SlotsInv

\* No worker ever runs more slices at once than FILES_WORKER_CONCURRENCY, though
\* a tick computes its slots once and claims while slices start and end.
THEOREM ConcurrencyRespected == Spec => []WithinConcurrency
<1>1. Init => SlotsInv
  <2> SUFFICES ASSUME Init, NEW w \in Workers
               PROVE  /\ Cardinality(Taken(w)) + slots[w] <= Concurrency
                      /\ todo[w] = {} /\ InState(w, "claiming") = {}
    BY DEF SlotsInv, SlotsLeft, SlotToTake
  <2>1. Taken(w) = {} /\ slots[w] = 0 /\ todo[w] = {} /\ InState(w, "claiming") = {}
    BY DEF Init, Taken, InState
  <2>. QED
    BY <2>1, FS_EmptySet, LeaseAssumption
<1>2. TypeOK /\ TypeOK' /\ SlotsInv /\ [Next]_vars => SlotsInv'
  <2> SUFFICES ASSUME TypeOK, TypeOK', SlotsInv, [Next]_vars PROVE SlotsInv'
    OBVIOUS
  <2>1. ASSUME NEW s \in Sources, BecomeDue(s) \/ Withdraw(s) PROVE SlotsInv'
    BY <2>1, IdleSlots DEF BecomeDue, Withdraw, procs
  <2>2. ASSUME NEW w \in Workers, Start(w) \/ Stop(w) \/ StopWaitOver(w) PROVE SlotsInv'
    BY <2>2, IdleSlots DEF Start, Stop, StopWaitOver
  <2>3. ASSUME NEW w \in Workers, Survey(w) PROVE SlotsInv'
    BY <2>3, SurveySlots
  <2>4. ASSUME NEW w \in Workers, NEW c \in todo[w], NEW s \in Sources, ClaimIn(w, c, s)
        PROVE  SlotsInv'
    <3>1. /\ InState(w, "claiming") = {}
          /\ slice' = [slice EXCEPT ![w][s] = "claiming"]
          /\ todo' = [todo EXCEPT ![w] = @ \ {c}]
          /\ UNCHANGED slots
      BY <2>4 DEF ClaimIn, CanClaim
    <3>2. slots[w] > 0
      BY DEF SlotsInv, SlotToTake
    <3>3. \A v \in Workers :
             /\ Taken(v)' \subseteq Taken(v)
             /\ v # w => todo'[v] = todo[v] /\ InState(v, "claiming")' = InState(v, "claiming")
      BY <3>1 DEF Taken, InState, TypeOK
    <3>4. InState(w, "claiming")' = {s}
      BY <3>1 DEF InState, TypeOK
    <3>5. SlotToTake'
      BY <3>1, <3>2, <3>3, <3>4 DEF SlotsInv, SlotToTake
    <3>6. SlotsLeft'
      <4> SUFFICES ASSUME NEW v \in Workers
                   PROVE  Cardinality(Taken(v)') + slots[v] <= Concurrency
        BY <3>1 DEF SlotsLeft
      <4>1. IsFiniteSet(Taken(v)) /\ Cardinality(Taken(v)) \in Nat
        BY TakenFinite
      <4>2. Taken(v)' \subseteq Taken(v)
        BY <3>3
      <4>3. Cardinality(Taken(v)') <= Cardinality(Taken(v)) /\ Cardinality(Taken(v)') \in Nat
        BY <4>1, <4>2, FS_Subset, FS_CardinalityType
      <4>4. Cardinality(Taken(v)) + slots[v] <= Concurrency /\ slots[v] \in Nat
        BY LeaseAssumption DEF SlotsInv, SlotsLeft, TypeOK
      <4>. QED
        BY <4>1, <4>3, <4>4, LeaseAssumption
    <3>. QED
      BY <3>5, <3>6 DEF SlotsInv
  <2>5. ASSUME NEW w \in Workers, NEW c \in todo[w], ClaimMiss(w, c) \/ ClaimFails(w, c)
        PROVE  SlotsInv'
    <3>1. InState(w, "claiming") = {} /\ Proceed(w, slice[w], todo[w] \ {c}, slots[w])
      BY <2>5 DEF ClaimMiss, ClaimFails, CanClaim
    <3>2. /\ slice[w] \in [Sources -> SliceStates]
          /\ \A s \in Sources : slice[w][s] # "claiming"
      BY <3>1 DEF TypeOK, InState
    <3>. QED
      BY <3>1, <3>2, MissSlots
  <2>6. ASSUME NEW w \in Workers, NEW s \in Sources, ClaimAnswered(w, s) PROVE SlotsInv'
    BY <2>6, ClaimSlots
  <2>6a. ASSUME NEW w \in Workers, NEW s \in Sources, ClaimAnswerLost(w, s) PROVE SlotsInv'
    <3> DEFINE st == [slice[w] EXCEPT ![s] = "none"]
    <3>1. slice[w][s] = "claiming" /\ Proceed(w, st, todo[w], slots[w])
      BY <2>6a DEF ClaimAnswerLost
    <3>2. /\ st \in [Sources -> SliceStates]
          /\ \A t \in Sources :
                st[t] # "claiming" /\ (st[t] # "none" => slice[w][t] \notin {"none", "claiming"})
      BY <3>1 DEF TypeOK, SliceStates, SlotsInv, SlotToTake, InState
    <3> HIDE DEF st
    <3>. QED
      BY <3>1, <3>2, MissSlots
  <2>7. ASSUME NEW w \in Workers, NEW s \in Sources, EndSlice(w, s) PROVE SlotsInv'
    <3>1. /\ slice[w][s] = "running"
          /\ slice' = [slice EXCEPT ![w][s] = "releasing"]
          /\ UNCHANGED <<slots, todo>>
      BY <2>7 DEF EndSlice
    <3>2. \A v \in Workers :
             /\ Taken(v)' \subseteq Taken(v)
             /\ InState(v, "claiming")' \subseteq InState(v, "claiming")
      BY <3>1 DEF Taken, InState, TypeOK
    <3>3. \A v \in Workers :
             /\ slots'[v] <= slots[v]
             /\ todo'[v] # {} \/ InState(v, "claiming")' # {} => slots'[v] > 0
      BY <3>1, <3>2, LeaseAssumption DEF TypeOK, SlotsInv, SlotToTake
    <3>. QED
      BY <3>2, <3>3, SlotsStep
  <2>8. ASSUME NEW w \in Workers, NEW s \in Sources, Release(w, s) \/ ReleaseFails(w, s)
        PROVE  SlotsInv'
    <3>1. slice' = [slice EXCEPT ![w][s] = "none"] /\ UNCHANGED <<slots, todo>>
      BY <2>8 DEF Release, ReleaseFails
    <3>2. \A v \in Workers :
             /\ Taken(v)' \subseteq Taken(v)
             /\ InState(v, "claiming")' \subseteq InState(v, "claiming")
      BY <3>1 DEF Taken, InState, TypeOK
    <3>3. \A v \in Workers :
             /\ slots'[v] <= slots[v]
             /\ todo'[v] # {} \/ InState(v, "claiming")' # {} => slots'[v] > 0
      BY <3>1, <3>2, LeaseAssumption DEF TypeOK, SlotsInv, SlotToTake
    <3>. QED
      BY <3>2, <3>3, SlotsStep
  <2>9. ASSUME NEW w \in Workers, NEW s \in Sources,
               Renew(w, s) \/ RenewFails(w, s) \/ StopRelease(w, s)
                  \/ StopReleaseFails(w, s)
        PROVE  SlotsInv'
    BY <2>9, IdleSlots DEF Renew, RenewFails, StopRelease, StopReleaseFails
  <2>10. ASSUME NEW w \in Workers, Exit(w) \/ Crash(w) PROVE SlotsInv'
    <3>1. /\ slice' = [slice EXCEPT ![w] = [s \in Sources |-> "none"]]
          /\ slots' = [slots EXCEPT ![w] = 0]
          /\ todo' = [todo EXCEPT ![w] = {}]
      BY <2>10 DEF Exit, Crash, Gone
    <3>2. \A v \in Workers :
             /\ Taken(v)' \subseteq Taken(v)
             /\ InState(v, "claiming")' \subseteq InState(v, "claiming")
      BY <3>1 DEF Taken, InState, TypeOK
    <3>3. ASSUME NEW v \in Workers
          PROVE  /\ slots'[v] <= slots[v]
                 /\ todo'[v] # {} \/ InState(v, "claiming")' # {} => slots'[v] > 0
      <4>1. CASE v = w
        <5>1. todo'[v] = {} /\ InState(v, "claiming")' = {} /\ slots'[v] = 0
          BY <3>1, <4>1 DEF InState, TypeOK
        <5>. QED
          BY <5>1, LeaseAssumption DEF TypeOK
      <4>2. CASE v # w
        BY <3>1, <3>2, <4>2, LeaseAssumption DEF TypeOK, SlotsInv, SlotToTake
      <4>. QED
        BY <4>1, <4>2
    <3>. QED
      BY <3>2, <3>3, SlotsStep
  <2>11. CASE Advance \/ UNCHANGED vars
    BY <2>11, IdleSlots DEF Advance, vars
  <2>12. \A w \in Workers : awaited[w] \subseteq Sources
    BY DEF TypeOK
  <2>. QED
    BY <2>1, <2>2, <2>3, <2>4, <2>5, <2>6, <2>6a, <2>7, <2>8, <2>9, <2>10, <2>11, <2>12,
       Zenon DEF Next, Tick, RunSource, Shutdown
<1>3. TypeOK /\ SlotsInv => WithinConcurrency
  <2> SUFFICES ASSUME TypeOK, SlotsInv, NEW w \in Workers
               PROVE  Cardinality(Running(w)) <= Concurrency
    BY DEF WithinConcurrency
  <2>1. Running(w) \subseteq Taken(w)
    BY DEF Running, InState, Taken
  <2>2. Cardinality(Running(w)) <= Cardinality(Taken(w))
    BY <2>1, TakenFinite, FS_Subset
  <2>3. Cardinality(Running(w)) \in Nat
    BY <2>1, TakenFinite, FS_Subset, FS_CardinalityType
  <2>4. Cardinality(Taken(w)) + slots[w] <= Concurrency /\ slots[w] \in Nat
    BY LeaseAssumption DEF SlotsInv, SlotsLeft, TypeOK
  <2>. QED
    BY <2>2, <2>3, <2>4, TakenFinite, LeaseAssumption
<1>. QED
  BY <1>1, <1>2, <1>3, TypeCorrect, PTL DEF Spec

-----------------------------------------------------------------------------
(* FilesLease implements WorkspaceTurns: every step of the protocol takes or *)
(* ends a turn, asks for one, or is none of the abstract specification's     *)
(* business.                                                                 *)

\* Who has its turn, by the leases.
Turn == [s \in Sources |-> IF Live(s) THEN owner[s] ELSE NoWorker]

\* A step that leaves the leases alone leaves the turns alone.
LEMMA QuietTurns ==
    ASSUME UNCHANGED rows PROVE Turn' = Turn
BY DEF Turn, Live, rows

\* A release ends at most the turn of its own source.
LEMMA ReleaseEndsTurn ==
    ASSUME TypeOK, NEW w \in Workers, NEW s \in Sources, ClearLease(w, s), UNCHANGED due
    PROVE  \E S \in SUBSET Sources : Turns!GiveUp(S)
<1>1. ClearedRows(w, s)
  BY ClearLeaseRows
<1>2. PICK S \in SUBSET Sources : S = IF owner[s] = w THEN {s} ELSE {}
  OBVIOUS
<1>3. Turns!GiveUp(S)
  BY <1>1, <1>2 DEF ClearedRows, Turns!GiveUp, Live
<1>. QED
  BY <1>3

\* A claim takes the turn of a due source of an idle workspace.
LEMMA ClaimTakesTurn ==
    ASSUME TypeOK, NEW w \in Workers, NEW c \in todo[w], NEW s \in Sources, ClaimIn(w, c, s)
    PROVE  Turns!Take(w, s)
<1>1. /\ s \in Claimable(Org[c.src])
      /\ owner' = [owner EXCEPT ![s] = w]
      /\ left' = [left EXCEPT ![s] = LeaseTerm]
      /\ UNCHANGED due
  BY DEF ClaimIn, queue
<1>2. s \in due /\ \A t \in Sources : Org[t] = Org[s] => ~Live(t)
  BY <1>1, ClaimableFree, ClaimableType DEF TypeOK, WorkspaceFree
<1>3. Turns!Idle(Org[s])
  BY <1>2 DEF Turns!Idle
<1>4. Turn' = [Turn EXCEPT ![s] = w]
  <2>1. Turn \in [Sources -> Workers \cup {NoWorker}]
    BY DEF Turn, TypeOK
  <2>2. Turn' = [t \in Sources |-> IF left'[t] > 0 THEN owner'[t] ELSE NoWorker]
    BY DEF Turn, Live
  <2>3. left'[s] > 0 /\ owner'[s] = w
    BY <1>1, LeaseAssumption DEF TypeOK
  <2>4. \A t \in Sources \ {s} : left'[t] = left[t] /\ owner'[t] = owner[t]
    BY <1>1 DEF TypeOK
  <2>. QED
    BY <2>1, <2>2, <2>3, <2>4 DEF Turn, Live
<1>. QED
  BY <1>1, <1>2, <1>3, <1>4 DEF Turns!Take, Turn

\* A renewal changes no turn: the lease it renews is live.
LEMMA RenewalKeepsTurns ==
    ASSUME MaxFaults + 1 < LeaseTerm, TypeOK, LeaseInv,
           NEW w \in Workers, NEW s \in Sources, Renew(w, s)
    PROVE  Turn' = Turn
<1>1. /\ s \in owed[w]
      /\ left' = IF owner[s] = w THEN [left EXCEPT ![s] = LeaseTerm] ELSE left
      /\ UNCHANGED owner
  BY DEF Renew
<1>2. owner[s] = w => Live(s)
  <2>1. owner[s] = w => left[s] + faults + 1 >= LeaseTerm
    BY <1>1 DEF LeaseInv, LeaseMargin
  <2>. QED
    BY <2>1, LeaseAssumption DEF Live, TypeOK
<1>. QED
  BY <1>1, <1>2, LeaseAssumption DEF Turn, Live, TypeOK

\* The leases of scheduler.ts implement turn taking (claimIn, renew, release
\* and the expiry of a dead worker's lease), under stops and crashes as well,
\* as long as fewer statements fail than a lease outlives.
THEOREM LeasesAreTurns ==
    ASSUME MaxFaults + 1 < LeaseTerm
    PROVE  Spec => TakesTurns
<1>1. Init => Turns!Init
  BY DEF Init, Turns!Init, Live
<1>2. TypeOK /\ LeaseInv /\ [Next]_vars => [Turns!Next]_(Turns!vars)
  <2> SUFFICES ASSUME TypeOK, LeaseInv, [Next]_vars
               PROVE  Turns!Next \/ (Turn' = Turn /\ UNCHANGED due)
    BY DEF Turns!vars, Turn
  <2>1. ASSUME NEW s \in Sources, BecomeDue(s) \/ Withdraw(s) PROVE Turns!Next
    <3>1. Turn' = Turn
      BY <2>1, QuietTurns DEF BecomeDue, Withdraw
    <3>2. Turns!Ask(s) \/ Turns!Withdraw(s)
      BY <2>1, <3>1 DEF BecomeDue, Withdraw, Turns!Ask, Turns!Withdraw, Turn
    <3>. QED
      BY <3>2 DEF Turns!Next
  <2>2. ASSUME NEW w \in Workers, Start(w) \/ Survey(w)
        PROVE  Turn' = Turn /\ UNCHANGED due
    BY <2>2, QuietTurns DEF Start, Survey, queue
  <2>3. ASSUME NEW w \in Workers, NEW c \in todo[w], NEW s \in Sources, ClaimIn(w, c, s)
        PROVE  Turns!Next
    BY <2>3, ClaimTakesTurn DEF Turns!Next
  <2>4. ASSUME NEW w \in Workers, NEW c \in todo[w], ClaimMiss(w, c) \/ ClaimFails(w, c)
        PROVE  Turn' = Turn /\ UNCHANGED due
    BY <2>4, QuietTurns DEF ClaimMiss, ClaimFails, queue
  <2>4a. ASSUME NEW w \in Workers, NEW s \in Sources,
                ClaimAnswered(w, s) \/ ClaimAnswerLost(w, s)
         PROVE  Turn' = Turn /\ UNCHANGED due
    BY <2>4a, QuietTurns DEF ClaimAnswered, ClaimAnswerLost, queue
  <2>5. ASSUME NEW w \in Workers, NEW s \in Sources, EndSlice(w, s)
        PROVE  Turns!Next \/ (Turn' = Turn /\ UNCHANGED due)
    <3>1. Turn' = Turn
      BY <2>5, QuietTurns DEF EndSlice
    <3>2. due' = due \cup {s} \/ due' = due \ {s} \/ due' = due
      BY <2>5 DEF EndSlice, queue
    <3>3. due' = due \cup {s} => Turns!Ask(s)
      BY <3>1 DEF Turns!Ask, Turn
    <3>4. due' = due \ {s} => Turns!Withdraw(s)
      BY <3>1 DEF Turns!Withdraw, Turn
    <3>. QED
      BY <3>1, <3>2, <3>3, <3>4 DEF Turns!Next
  <2>6. ASSUME NEW w \in Workers, NEW s \in Sources,
               \/ Release(w, s) \/ ReleaseFails(w, s)
               \/ StopRelease(w, s) \/ StopReleaseFails(w, s)
        PROVE  Turns!Next \/ (Turn' = Turn /\ UNCHANGED due)
    <3>1. (ClearLease(w, s) \/ UNCHANGED rows) /\ UNCHANGED due
      BY <2>6 DEF Release, ReleaseFails, StopRelease, StopReleaseFails, queue
    <3>2. CASE ClearLease(w, s)
      BY <3>1, <3>2, ReleaseEndsTurn DEF Turns!Next
    <3>3. CASE UNCHANGED rows
      BY <3>1, <3>3, QuietTurns
    <3>. QED
      BY <3>1, <3>2, <3>3
  <2>7. ASSUME NEW w \in Workers, NEW s \in Sources, RenewFails(w, s)
        PROVE  Turn' = Turn /\ UNCHANGED due
    BY <2>7, QuietTurns DEF RenewFails, queue
  <2>8. ASSUME NEW w \in Workers, NEW s \in Sources, Renew(w, s)
        PROVE  Turn' = Turn /\ UNCHANGED due
    BY <2>8, RenewalKeepsTurns DEF Renew, queue
  <2>9. ASSUME NEW w \in Workers, Stop(w) \/ StopWaitOver(w) \/ Exit(w) \/ Crash(w)
        PROVE  Turn' = Turn /\ UNCHANGED due
    BY <2>9, QuietTurns DEF Stop, StopWaitOver, Exit, Crash, Gone, queue
  <2>10. ASSUME Advance PROVE Turns!Next
    <3>1. /\ left' = [s \in Sources |-> IF left[s] > 0 THEN left[s] - 1 ELSE 0]
          /\ UNCHANGED <<owner, due>>
      BY <2>10 DEF Advance, queue
    <3>2. PICK S \in SUBSET Sources : S = {s \in Sources : left[s] <= 1}
      OBVIOUS
    <3>3. Turns!GiveUp(S)
      BY <3>1, <3>2, LeaseAssumption DEF Turns!GiveUp, Live, TypeOK
    <3>. QED
      BY <3>3 DEF Turns!Next
  <2>11. CASE UNCHANGED vars
    BY <2>11, QuietTurns DEF vars, rows
  <2>12. \A w \in Workers : awaited[w] \subseteq Sources
    BY DEF TypeOK
  <2>. QED
    BY <2>1, <2>2, <2>3, <2>4, <2>4a, <2>5, <2>6, <2>7, <2>8, <2>9, <2>10, <2>11, <2>12, Zenon
       DEF Next, Tick, RunSource, Shutdown
<1>. QED
  BY <1>1, <1>2, TypeCorrect, LeaseInvariant, PTL DEF Spec, TakesTurns, Turns!Spec
=============================================================================
