------------------------- MODULE TokenRefreshProofs -------------------------
(***************************************************************************)
(* Proofs about TokenRefresh.                                              *)
(***************************************************************************)
EXTENDS TokenRefresh, TLAPS

-----------------------------------------------------------------------------
(* Tokens as records.                                                      *)

LEMMA FirstToken ==
    ASSUME NEW f \in 0 .. MaxAuths
    PROVE  First(f) \in Token /\ First(f).fam = f /\ First(f).gen = 0
BY TokenAssumption DEF First, Token

LEMMA NextToken ==
    ASSUME NEW t \in Token, t.gen < MaxGen
    PROVE  Next1(t) \in Token /\ Next1(t).fam = t.fam /\ Next1(t).gen = t.gen + 1
BY TokenAssumption DEF Next1, Token

LEMMA TokenFields ==
    ASSUME NEW t \in Token
    PROVE  t.fam \in 0 .. MaxAuths /\ t.gen \in 0 .. MaxGen
BY DEF Token

AdminSteps == {"none", "forget", "clear"}

LEMMA AdminFields ==
    ASSUME NEW a \in [step : AdminSteps, tok : MaybeTok]
    PROVE  a.tok \in MaybeTok /\ [a EXCEPT !.step = "clear"] \in [step : AdminSteps, tok : MaybeTok]
BY DEF AdminSteps

LEMMA FaultType ==
    ASSUME happened \in SUBSET Faults, NEW k, Fault(k)
    PROVE  happened' \in SUBSET Faults
BY DEF Fault

-----------------------------------------------------------------------------
(* Type correctness.  What is to be stored is there when it is stored.     *)

HasPending ==
    \A p \in Procs :
        /\ pc[p] \in {"write", "restore"} \/ saved[p] => pending[p] \in Token
        /\ pc[p] = "restore" => ~saved[p]

TypeInv == TypeOK /\ HasPending

LEMMA TokenInit == Init => TypeInv
<1> SUFFICES ASSUME Init PROVE TypeInv
  OBVIOUS
<1>1. 0 \in 0 .. MaxAuths /\ First(0) \in Token
  BY FirstToken, TokenAssumption
<1>2. TypeOK
  BY <1>1 DEF Init, TypeOK, MaybeTok, Steps, NoAdmin
<1>3. HasPending
  BY DEF Init, HasPending
<1> QED
  BY <1>2, <1>3 DEF TypeInv

LEMMA StepTypes ==
    ASSUME TypeInv, NEW p \in Procs, Begin(p) \/ Step(p)
    PROVE  TypeInv'
<1> USE DEF TypeInv, TypeOK, HasPending, MaybeTok, Steps, Goto, row, provider
<1>0. happened' \in SUBSET Faults
  BY DEF Begin, Step, TakeLock, Read, ReadFails, Rotate, AskFails, Refuse, Mark, Persist,
         Clear, Finish, Restore, Fault
<1>1. CASE Begin(p)
  BY <1>0, <1>1 DEF Begin
<1>2. CASE TakeLock(p)
  BY <1>0, <1>2 DEF TakeLock
<1>3. CASE Read(p)
  <2>1. /\ UNCHANGED <<tok, ref, accepted, revoked, auths, fresh, tx, lock, pending, saved, admin, hung>>
        /\ \/ \E t \in Token : Send(p, t) /\ UNCHANGED <<cache, refused>>
           \/ cache' = [cache EXCEPT ![p] = tok] /\ Goto(p, "finish") /\ UNCHANGED <<sent, refused>>
           \/ refused' = [refused EXCEPT ![p] = TRUE] /\ Goto(p, "finish") /\ UNCHANGED <<sent, cache>>
    BY <1>3 DEF Read, Snapshots
  <2>2. CASE \E t \in Token : Send(p, t) /\ UNCHANGED <<cache, refused>>
    <3>1. PICK t \in Token : Send(p, t) /\ UNCHANGED <<cache, refused>>
      BY <2>2
    <3>2. sent' \in [Procs -> MaybeTok] /\ pc' \in [Procs -> Steps]
      BY <3>1 DEF Send
    <3>3. \A q \in Procs : pc'[q] \in {"write", "restore"} => pc'[q] = pc[q]
      BY <3>1 DEF Send
    <3> QED
      BY <1>0, <2>1, <3>1, <3>2, <3>3
  <2>3. CASE cache' = [cache EXCEPT ![p] = tok] /\ Goto(p, "finish") /\ UNCHANGED <<sent, refused>>
    BY <1>0, <2>1, <2>3
  <2>4. CASE refused' = [refused EXCEPT ![p] = TRUE] /\ Goto(p, "finish") /\ UNCHANGED <<sent, cache>>
    BY <1>0, <2>1, <2>4
  <2> QED
    BY <2>1, <2>2, <2>3, <2>4
<1>4. CASE Rotate(p)
  <2>1. sent[p] \in Token /\ Next1(sent[p]) \in Token
    BY <1>4, NextToken DEF Rotate
  <2>2. accepted' \in SUBSET Token /\ fresh' \in SUBSET Token
    BY <1>4, <2>1 DEF Rotate
  <2>3. sent' \in [Procs -> MaybeTok]
    BY <1>4 DEF Rotate
  <2>4. UNCHANGED <<tok, ref, revoked, auths, tx, lock, saved, refused, admin, hung>>
    BY <1>4 DEF Rotate
  <2>5. CASE /\ cache' = [cache EXCEPT ![p] = Next1(sent[p])]
             /\ pending' = [pending EXCEPT ![p] = Next1(sent[p])] /\ Goto(p, "write")
    BY <1>0, <2>1, <2>2, <2>3, <2>4, <2>5
  <2>6. CASE Goto(p, "finish") /\ UNCHANGED <<cache, pending>>
    BY <1>0, <2>2, <2>3, <2>4, <2>6
  <2> QED
    BY <1>4, <2>5, <2>6 DEF Rotate
<1>5. CASE AskFails(p)
  BY <1>0, <1>5 DEF AskFails
<1>6. CASE Refuse(p)
  BY <1>0, <1>6 DEF Refuse
<1>7. CASE Mark(p)
  BY <1>0, <1>7 DEF Mark, MarkedToken
<1>8. CASE Persist(p)
  BY <1>0, <1>8 DEF Persist, ToStore
<1>9. CASE Clear(p)
  BY <1>0, <1>9 DEF Clear
<1>10. CASE Finish(p)
  BY <1>0, <1>10 DEF Finish, ToStore, Writing, Unstored, Unlock
<1>11. CASE Restore(p)
  BY <1>0, <1>11 DEF Restore, ToStore
<1> QED
  BY <1>1, <1>2, <1>3, <1>4, <1>5, <1>6, <1>7, <1>8, <1>9, <1>10, <1>11 DEF Step

LEMMA OtherTypes ==
    ASSUME TypeInv, NEW p \in Procs,
           Timeout(p) \/ Crash(p) \/ Authorize(p) \/ Forget(p) \/ ClearStatus(p) \/ Recheck(p)
    PROVE  TypeInv'
<1> USE DEF TypeInv, TypeOK, HasPending, MaybeTok, Steps, Goto, row, provider
<1>1. CASE Timeout(p)
  BY <1>1 DEF Timeout, Fault, Unlock
<1>2. CASE Crash(p)
  BY <1>2 DEF Crash, Fault, Unlock, NoAdmin
<1>3. CASE Authorize(p)
  <2>1. auths' \in 0 .. MaxAuths
    BY <1>3, TokenAssumption DEF Authorize
  <2>2. tok' \in Token
    BY <1>3, <2>1, FirstToken DEF Authorize
  <2> QED
    BY <1>3, <2>1, <2>2 DEF Authorize
<1>4. CASE Forget(p)
  BY <1>4 DEF Forget
<1>5. CASE ClearStatus(p)
  BY <1>5 DEF ClearStatus, NoAdmin
<1>6. CASE Recheck(p)
  BY <1>6 DEF Recheck
<1> QED
  BY <1>1, <1>2, <1>3, <1>4, <1>5, <1>6

LEMMA TokenNext == TypeInv /\ [Next]_vars => TypeInv'
<1> SUFFICES ASSUME TypeInv, [Next]_vars PROVE TypeInv'
  OBVIOUS
<1> USE DEF TypeInv, TypeOK, HasPending, MaybeTok, row, provider
<1>1. ASSUME NEW t \in fresh, Age(t) PROVE TypeInv'
  BY <1>1 DEF Age
<1>2. ASSUME NEW f \in (0 .. auths) \ revoked, Withdraw(f) PROVE TypeInv'
  <2>1. f \in 0 .. MaxAuths
    BY TokenAssumption
  <2> QED
    BY <1>2, <2>1 DEF Withdraw
<1>3. CASE UNCHANGED vars
  BY <1>3 DEF vars
<1> QED
  BY <1>1, <1>2, <1>3, StepTypes, OtherTypes DEF Next

\* Row, memory, transactions and locks keep their shape, for any number of
\* processes, authorizations, rotations and faults (oauth2-token.service.ts).
THEOREM TypeCorrect == Spec => []TypeOK
<1>1. TypeInv => TypeOK
  BY DEF TypeInv
<1> QED
  BY <1>1, TokenInit, TokenNext, PTL DEF Spec

-----------------------------------------------------------------------------
(* A recorded refusal.  Every token a process knows is at most as young as *)
(* the one the provider accepts for its authorization, so what has been    *)
(* refused is never issued again.                                          *)

Known(t) ==
    /\ t.fam <= auths
    /\ \A a \in accepted : a.fam = t.fam => t.gen <= a.gen

RefusalInv ==
    /\ \A a \in accepted : Known(a)
    /\ Known(tok)
    /\ ref \in Token => Known(ref) /\ ref \notin accepted
    /\ \A p \in Procs :
          /\ sent[p] \in Token => Known(sent[p])
          /\ pc[p] = "refused" => sent[p] \notin accepted
          /\ pending[p] \in Token => Known(pending[p])

LEMMA RefusalInit == Init => RefusalInv
<1> SUFFICES ASSUME Init PROVE RefusalInv
  OBVIOUS
<1>1. First(0).fam = 0 /\ First(0).gen = 0
  BY FirstToken, TokenAssumption
<1> QED
  BY <1>1, NoTokAssumption DEF Init, RefusalInv, Known

LEMMA RefusalStep ==
    ASSUME TypeInv, RefusalInv, NEW p \in Procs, Begin(p) \/ Step(p), ~Rotate(p)
    PROVE  RefusalInv'
<1> USE DEF TypeInv, TypeOK, HasPending, RefusalInv, Goto, row, provider, Known
<1>1. CASE Begin(p) \/ TakeLock(p)
  BY <1>1 DEF Begin, TakeLock
<1>2. CASE Read(p)
  <2>1. /\ UNCHANGED <<tok, ref, accepted, auths, pending>>
        /\ \/ \E t \in Token : Known(t) /\ Send(p, t)
           \/ Goto(p, "finish") /\ UNCHANGED sent
    BY <1>2 DEF Read, Snapshots
  <2> QED
    BY <2>1 DEF Send, Steps, MaybeTok
<1>3. CASE AskFails(p)
  BY <1>3, NoTokAssumption DEF AskFails
<1>4. CASE Refuse(p)
  BY <1>4 DEF Refuse
<1>5. CASE Mark(p)
  BY <1>5, NoTokAssumption DEF Mark, MarkedToken
<1>6. CASE Persist(p)
  BY <1>6 DEF Persist, ToStore
<1>7. CASE Clear(p)
  BY <1>7, NoTokAssumption DEF Clear
<1>8. CASE Finish(p)
  BY <1>8, NoTokAssumption DEF Finish, ToStore, Writing, Unstored
<1>9. CASE Restore(p)
  BY <1>9, NoTokAssumption DEF Restore, ToStore
<1> QED
  BY <1>1, <1>2, <1>3, <1>4, <1>5, <1>6, <1>7, <1>8, <1>9 DEF Step

\* A rotation accepts a token that is younger than every known one.
LEMMA RefusalRotate ==
    ASSUME TypeInv, RefusalInv, NEW p \in Procs, Rotate(p)
    PROVE  RefusalInv'
<1> DEFINE x == sent[p]
           y == Next1(sent[p])
           StillKnown(t) == /\ t.fam <= auths'
                            /\ \A a \in accepted' : a.fam = t.fam => t.gen <= a.gen
<1>1. x \in accepted /\ x \in Token /\ y \in Token /\ y.fam = x.fam /\ y.gen = x.gen + 1
  BY NextToken DEF Rotate, TypeInv, TypeOK
<1>2. accepted' = (accepted \ {x}) \cup {y} /\ auths' = auths /\ UNCHANGED <<tok, ref>>
  BY DEF Rotate, row
<1>3. /\ sent' = [sent EXCEPT ![p] = NoTok]
      /\ pending' = [pending EXCEPT ![p] = y] \/ pending' = pending
      /\ pc' = [pc EXCEPT ![p] = "write"] \/ pc' = [pc EXCEPT ![p] = "finish"]
  BY DEF Rotate, Goto
<1>4. ASSUME NEW t \in Token, Known(t) PROVE StillKnown(t) /\ (t \notin accepted => t \notin accepted')
  <2>1. t.gen \in Nat /\ x.gen \in Nat
    BY <1>1, TokenFields, TokenAssumption
  <2>2. t.fam = y.fam => t.gen < y.gen
    BY <1>1, <1>4, <2>1 DEF Known
  <2>3. t # y
    BY <1>1, <2>1, <2>2
  <2> QED
    BY <1>2, <1>4, <2>1, <2>2, <2>3, <1>1 DEF Known
<1>5. StillKnown(y)
  <2>1. \A a \in accepted : a \in Token /\ Known(a)
    BY DEF TypeInv, TypeOK, RefusalInv
  <2>2. ASSUME NEW a \in accepted, a.fam = x.fam, a # x PROVE FALSE
    <3>1. a.gen <= x.gen /\ x.gen <= a.gen
      BY <1>1, <2>1, <2>2 DEF Known
    <3>2. a.gen = x.gen
      BY <1>1, <2>1, <3>1, TokenFields, TokenAssumption
    <3> QED
      BY <1>1, <2>1, <2>2, <3>2 DEF Token
  <2>3. y.fam <= auths' /\ y.gen <= y.gen
    BY <1>1, <1>2, <2>1, TokenFields, TokenAssumption DEF Known
  <2> QED
    BY <1>1, <1>2, <2>2, <2>3 DEF Known
<1>6. \A a \in accepted' : StillKnown(a)
  BY <1>2, <1>4, <1>5 DEF TypeInv, TypeOK, RefusalInv
<1>7. StillKnown(tok) /\ (ref \in Token => StillKnown(ref) /\ ref \notin accepted')
  BY <1>4 DEF RefusalInv, TypeInv, TypeOK
<1>8. ASSUME NEW q \in Procs
      PROVE  /\ sent'[q] \in Token => StillKnown(sent'[q])
             /\ pc'[q] = "refused" => sent'[q] \notin accepted'
             /\ pending'[q] \in Token => StillKnown(pending'[q])
  <2>1. NoTok \notin accepted'
    BY <1>1, <1>2, NoTokAssumption DEF TypeInv, TypeOK
  <2>2. sent[q] \in MaybeTok /\ sent \in [Procs -> MaybeTok]
        /\ pc \in [Procs -> Steps] /\ pending \in [Procs -> MaybeTok]
    BY DEF TypeInv, TypeOK
  <2>3. sent'[q] \in Token => StillKnown(sent'[q])
    BY <1>3, <1>4, <2>2, NoTokAssumption DEF RefusalInv
  <2>4. pc'[q] = "refused" => sent'[q] \notin accepted'
    BY <1>3, <1>4, <2>1, <2>2 DEF RefusalInv, MaybeTok
  <2>5. pending'[q] \in Token => StillKnown(pending'[q])
    BY <1>3, <1>4, <1>5, <2>2 DEF RefusalInv
  <2> QED
    BY <2>3, <2>4, <2>5
<1> QED
  BY <1>2, <1>6, <1>7, <1>8 DEF RefusalInv, Known

\* A new authorization accepts a token no process knows yet.
LEMMA RefusalAuthorize ==
    ASSUME TypeInv, RefusalInv, NEW p \in Procs, Authorize(p)
    PROVE  RefusalInv'
<1> DEFINE f == auths + 1
<1>1. /\ f \in 0 .. MaxAuths /\ auths \in Nat /\ auths' = f
      /\ tok' = First(f) /\ accepted' = accepted \cup {First(f)}
      /\ UNCHANGED <<ref, pc, sent, pending>>
  BY TokenAssumption DEF Authorize, TypeInv, TypeOK
<1>2. First(f) \in Token /\ First(f).fam = f /\ First(f).gen = 0
  BY <1>1, FirstToken
<1>3. \A t \in Token : Known(t) =>
          /\ t.fam <= auths' /\ t.fam # f /\ t # First(f)
          /\ \A a \in accepted' : a.fam = t.fam => t.gen <= a.gen
  BY <1>1, <1>2, TokenFields, TokenAssumption DEF Known
<1>4. First(f).fam <= auths' /\ \A a \in accepted' : a.fam = f => First(f).gen <= a.gen
  BY <1>1, <1>2, TokenFields, TokenAssumption DEF TypeInv, TypeOK
<1> QED
  BY <1>1, <1>2, <1>3, <1>4 DEF TypeInv, TypeOK, MaybeTok, RefusalInv, Known

LEMMA RefusalNext == TypeInv /\ RefusalInv /\ [Next]_vars => RefusalInv'
<1> SUFFICES ASSUME TypeInv, RefusalInv, [Next]_vars PROVE RefusalInv'
  OBVIOUS
<1> USE DEF RefusalInv, Known, row, provider
<1>1. ASSUME NEW p \in Procs, Timeout(p) PROVE RefusalInv'
  BY <1>1 DEF Timeout, Goto, TypeInv, TypeOK
<1>2. ASSUME NEW p \in Procs, Crash(p) PROVE RefusalInv'
  BY <1>2, NoTokAssumption DEF Crash, Goto, TypeInv, TypeOK
<1>3. ASSUME NEW p \in Procs, Forget(p) \/ Recheck(p) PROVE RefusalInv'
  BY <1>3 DEF Forget, Recheck
<1>4. ASSUME NEW p \in Procs, ClearStatus(p) PROVE RefusalInv'
  BY <1>4, NoTokAssumption DEF ClearStatus
<1>5. ASSUME NEW t \in fresh, Age(t) PROVE RefusalInv'
  BY <1>5 DEF Age
<1>6. ASSUME NEW f \in (0 .. auths) \ revoked, Withdraw(f) PROVE RefusalInv'
  BY <1>6 DEF Withdraw
<1>7. CASE UNCHANGED vars
  BY <1>7 DEF vars
<1> QED
  BY <1>1, <1>2, <1>3, <1>4, <1>5, <1>6, <1>7, RefusalStep, RefusalRotate, RefusalAuthorize
  DEF Next, Step

\* A refusal recorded against the stored token is one the provider makes, although
\* refusals are recorded after other processes and administrators have stored newer
\* tokens (oauth2-token.service.ts:427), under any faults.
THEOREM RefusalsAreReal == Spec => []BlockedRightly
<1>1. TypeInv /\ RefusalInv => BlockedRightly
  BY DEF TypeInv, TypeOK, RefusalInv, BlockedRightly
<1> QED
  BY <1>1, TokenInit, TokenNext, RefusalInit, RefusalNext, PTL DEF Spec

-----------------------------------------------------------------------------
(* While nothing fails, the advisory lock orders the renewals: a process   *)
(* between its lock and its commit is alone there, and the stored token is *)
(* the one the provider expects unless that process has its successor.     *)

Calm == happened = {} /\ ~hung

Good(t) == t \in accepted \/ t.fam \in revoked

Alone(p) ==
    /\ pc[p] # "idle" => tx[p] = "open"
    /\ pc[p] \notin {"idle", "lock"} => lock = p
    /\ pc[p] # "restore"
    /\ saved[p] => pc[p] \in {"clear", "finish"}
    /\ pending[p] # NoTok => pc[p] \in {"write", "clear", "finish"} /\ Good(pending[p])
    /\ pending[p] # NoTok /\ pc[p] # "write" => saved[p]

SpendInv ==
    /\ \A p \in Procs :
          /\ Alone(p)
          /\ pc[p] = "ask" => Good(sent[p])
          /\ pc[p] = "refused" => sent[p].fam \in revoked
    /\ (\A p \in Procs : pending[p] = NoTok) => Good(tok)

CalmInv == Calm => SpendInv

LEMMA CalmInit == Init => CalmInv
<1>1. ASSUME Init PROVE SpendInv
  <2>1. tok \in accepted
    BY <1>1 DEF Init
  <2> QED
    BY <1>1, <2>1 DEF Init, SpendInv, Alone, Good
<1> QED
  BY <1>1 DEF CalmInv

\* A fault is never forgotten.
LEMMA CalmBefore ==
    ASSUME TypeInv, [Next]_vars, Calm'
    PROVE  Calm /\ UNCHANGED happened /\ UNCHANGED hung
<1>1. \A k : ~Fault(k)
  BY DEF Fault, Calm
<1>2. hung \in BOOLEAN /\ hung' = FALSE
  BY DEF TypeInv, TypeOK, Calm
<1>3. ASSUME NEW p \in Procs, Begin(p) \/ Step(p) PROVE UNCHANGED <<happened, hung>>
  BY <1>1, <1>3 DEF Begin, Step, TakeLock, Read, ReadFails, Rotate, AskFails, Refuse, Mark,
         Persist, Clear, Finish, Restore
<1>4. ASSUME NEW p \in Procs, Timeout(p) PROVE UNCHANGED happened /\ hung = FALSE
  BY <1>1, <1>2, <1>4 DEF Timeout, Calm
<1>5. ASSUME NEW p \in Procs, Crash(p) PROVE FALSE
  BY <1>1, <1>5 DEF Crash
<1>6. ASSUME NEW p \in Procs, Authorize(p) \/ Forget(p) \/ ClearStatus(p) \/ Recheck(p)
      PROVE  UNCHANGED <<happened, hung>>
  BY <1>6 DEF Authorize, Forget, ClearStatus, Recheck
<1>7. ASSUME NEW t, Age(t) \/ Withdraw(t) PROVE UNCHANGED <<happened, hung>>
  BY <1>7 DEF Age, Withdraw
<1>8. UNCHANGED vars => UNCHANGED <<happened, hung>>
  BY DEF vars
<1>9. UNCHANGED happened /\ hung = FALSE
  BY <1>2, <1>3, <1>4, <1>5, <1>6, <1>7, <1>8 DEF Next
<1> QED
  BY <1>2, <1>9 DEF Calm

LEMMA SpendStep ==
    ASSUME TypeInv, SpendInv, Calm, UNCHANGED <<happened, hung>>,
           NEW p \in Procs, Begin(p) \/ Step(p) \/ Timeout(p)
    PROVE  SpendInv'
<1> USE DEF Goto, row, provider
<1>1. \A k : ~Fault(k)
  BY DEF Fault, Calm
<1>2. p \in DOMAIN pc /\ p \in DOMAIN tx /\ p \in DOMAIN sent /\ p \in DOMAIN pending
      /\ p \in DOMAIN saved /\ lock \in Procs \cup {NoProc} /\ NoProc \notin Procs
      /\ accepted \in SUBSET Token /\ NoTok \notin Token
      /\ pc \in [Procs -> Steps] /\ tx \in [Procs -> {"none", "open", "dead"}]
      /\ sent \in [Procs -> MaybeTok] /\ pending \in [Procs -> MaybeTok]
      /\ saved \in [Procs -> BOOLEAN]
  BY NoTokAssumption, TokenAssumption DEF TypeInv, TypeOK
<1>3. CASE Begin(p)
  BY <1>1, <1>2, <1>3 DEF Begin, SpendInv, Alone, Good
<1>4. CASE TakeLock(p)
  BY <1>1, <1>2, <1>4 DEF TakeLock, LockFree, SpendInv, Alone, Good
<1>5. CASE Read(p)
  BY <1>1, <1>2, <1>5 DEF Read, ReadFails, Send, SpendInv, Alone, Good
<1>6. CASE Rotate(p)
  <2>1. lock = p /\ tx[p] = "open" /\ sent[p] \in Token /\ pc[p] = "ask"
        /\ saved[p] = FALSE /\ pending[p] = NoTok
    BY <1>2, <1>6 DEF Rotate, SpendInv, Alone
  <2>2. \A q \in Procs \ {p} : pc[q] \in {"idle", "lock"} /\ pending[q] = NoTok
    BY <1>2, <2>1 DEF SpendInv, Alone
  <2>3. Next1(sent[p]) \in Token
    BY <1>6, <2>1, NextToken DEF Rotate
  <2>4. pending' = [pending EXCEPT ![p] = Next1(sent[p])] /\ pc' = [pc EXCEPT ![p] = "write"]
        /\ Next1(sent[p]) \in accepted' /\ UNCHANGED <<tok, revoked, tx, lock, saved>>
        /\ sent' = [sent EXCEPT ![p] = NoTok]
    BY <1>1, <1>6 DEF Rotate
  <2>5. \A q \in Procs \ {p} :
          pc'[q] = pc[q] /\ pending'[q] = NoTok /\ saved'[q] = saved[q] /\ tx'[q] = tx[q]
    BY <1>2, <2>2, <2>4
  <2>6. pc'[p] = "write" /\ pending'[p] = Next1(sent[p]) /\ pending'[p] # NoTok
    BY <1>2, <2>3, <2>4
  <2> QED
    BY <1>2, <2>1, <2>2, <2>4, <2>5, <2>6 DEF SpendInv, Alone, Good
<1>7. CASE AskFails(p)
  BY <1>1, <1>2, <1>7 DEF AskFails, SpendInv, Alone, Good
<1>8. CASE Refuse(p)
  BY <1>1, <1>2, <1>8 DEF Refuse, SpendInv, Alone, Good
<1>9. CASE Mark(p)
  BY <1>1, <1>2, <1>9 DEF Mark, SpendInv, Alone, Good
<1>10. CASE Persist(p)
  BY <1>1, <1>2, <1>10 DEF Persist, SpendInv, Alone, Good
<1>11. CASE Clear(p)
  BY <1>1, <1>2, <1>11 DEF Clear, SpendInv, Alone, Good
<1>12. CASE Finish(p)
  <2>1. lock = p /\ tx[p] = "open" /\ pc[p] = "finish" /\ (pending[p] # NoTok => saved[p])
    BY <1>2, <1>12 DEF Finish, SpendInv, Alone
  <2>2. \A q \in Procs \ {p} : pc[q] \in {"idle", "lock"} /\ pending[q] = NoTok
    BY <1>2, <2>1 DEF SpendInv, Alone
  <2>3. ~Unstored(p) /\ (Writing(p) <=> saved[p])
    BY <1>2, <2>1 DEF Unstored, Writing
  <2>4. Good(tok')
    <3>1. CASE saved[p]
      <4>1. tok' = pending[p] /\ pending[p] \in Token
        BY <1>12, <2>3, <3>1 DEF Finish, ToStore, TypeInv, HasPending
      <4> QED
        BY <1>2, <4>1 DEF SpendInv, Alone, Good
    <3>2. CASE ~saved[p]
      <4>1. tok' = tok /\ \A q \in Procs : pending[q] = NoTok
        BY <1>12, <2>1, <2>2, <2>3, <3>2 DEF Finish
      <4> QED
        BY <4>1 DEF SpendInv, Good
    <3> QED
      BY <3>1, <3>2
  <2>5. pc' = [pc EXCEPT ![p] = "idle"] /\ pending' = [pending EXCEPT ![p] = NoTok]
        /\ saved' = [saved EXCEPT ![p] = FALSE] /\ tx' = [tx EXCEPT ![p] = "none"]
        /\ UNCHANGED <<accepted, revoked, sent>>
    BY <1>12, <2>3 DEF Finish
  <2> QED
    BY <1>2, <2>2, <2>4, <2>5 DEF SpendInv, Alone, Good
<1>13. CASE Restore(p)
  BY <1>1, <1>2, <1>13 DEF Restore, SpendInv, Alone, Good
<1>14. CASE Timeout(p)
  BY <1>1, <1>2, <1>14 DEF Timeout, Waiting, ClearWaits, RowFree, RowFreeAll, Writing, Unlock,
                         SpendInv, Alone, Good, Calm
<1> QED
  BY <1>3, <1>4, <1>5, <1>6, <1>7, <1>8, <1>9, <1>10, <1>11, <1>12, <1>13, <1>14 DEF Step

LEMMA CalmNext == TypeInv /\ CalmInv /\ [Next]_vars => CalmInv'
<1> SUFFICES ASSUME TypeInv, CalmInv, [Next]_vars, Calm' PROVE SpendInv'
  BY DEF CalmInv
<1>0. Calm /\ SpendInv /\ UNCHANGED <<happened, hung>>
  BY CalmBefore DEF CalmInv
<1> USE DEF row, provider
<1>1. ASSUME NEW p \in Procs, Crash(p) PROVE FALSE
  BY <1>0, <1>1 DEF Crash, Fault, Calm
<1>2. ASSUME NEW p \in Procs, Authorize(p) PROVE SpendInv'
  BY <1>0, <1>2 DEF Authorize, SpendInv, Alone, Good
<1>3. ASSUME NEW p \in Procs, Forget(p) \/ ClearStatus(p) \/ Recheck(p) PROVE SpendInv'
  BY <1>0, <1>3 DEF Forget, ClearStatus, Recheck, SpendInv, Alone, Good
<1>4. ASSUME NEW t \in fresh, Age(t) PROVE SpendInv'
  BY <1>0, <1>4 DEF Age, SpendInv, Alone, Good
<1>5. ASSUME NEW f \in (0 .. auths) \ revoked, Withdraw(f) PROVE SpendInv'
  BY <1>0, <1>5 DEF Withdraw, SpendInv, Alone, Good
<1>6. CASE UNCHANGED vars
  BY <1>0, <1>6 DEF vars, SpendInv, Alone, Good
<1> QED
  BY <1>0, <1>1, <1>2, <1>3, <1>4, <1>5, <1>6, SpendStep DEF Next

\* While nothing fails, no two processes ever spend the same refresh token,
\* whatever transactions time out waiting for the lock
\* (oauth2-token.service.ts:273-277).
THEOREM NoTokenSpentTwice == Spec => []SpentOnce
<1>1. CalmInv => SpentOnce
  BY DEF CalmInv, SpendInv, Calm, SpentOnce
<1> QED
  BY <1>1, TokenInit, TokenNext, CalmInit, CalmNext, PTL DEF Spec

-----------------------------------------------------------------------------
(* The rotated token.  First the course of one renewal: what its place in  *)
(* the code says of its transaction, the lock, the rotation it holds and   *)
(* the faults that brought it there.                                       *)

Way(p) ==
    /\ pc[p] \in {"idle", "restore"} => tx[p] = "none"
    /\ pc[p] = "lock" => tx[p] = "open"
    /\ tx[p] = "open" /\ pc[p] # "lock" => lock = p
    /\ tx[p] = "none" /\ pc[p] \notin {"idle", "restore"} => "connection" \in happened
    /\ tx[p] = "dead" => "slow" \in happened \/ hung
    /\ saved[p] => pc[p] \in {"clear", "finish"}
    /\ pending[p] # NoTok => pc[p] \in {"write", "clear", "finish", "restore"}
    /\ pc[p] \in {"clear", "finish"} /\ tx[p] = "open" /\ ~saved[p] /\ pending[p] # NoTok
          => "write" \in happened
    /\ pc[p] = "restore" => "write" \in happened \/ "slow" \in happened \/ hung

Course == \A p \in Procs : Way(p)

\* A renewal changes no other process's place, and faults are remembered.
LEMMA ActsAlone ==
    ASSUME TypeInv, NEW p \in Procs, Begin(p) \/ Step(p) \/ Timeout(p) \/ Crash(p)
    PROVE  /\ \A q \in Procs \ {p} :
                 /\ pc'[q] = pc[q] /\ tx'[q] = tx[q] /\ saved'[q] = saved[q]
                 /\ pending'[q] = pending[q] /\ sent'[q] = sent[q]
           /\ happened \subseteq happened' /\ (hung => hung')
           /\ lock' = lock \/ lock \in {p, NoProc}
<1> USE DEF TypeInv, TypeOK, Goto, Fault, row, provider
<1>1. CASE Begin(p) \/ TakeLock(p) \/ Read(p)
  BY <1>1 DEF Begin, TakeLock, LockFree, Read, ReadFails, Send
<1>2. CASE Rotate(p) \/ AskFails(p) \/ Refuse(p) \/ Mark(p)
  BY <1>2 DEF Rotate, AskFails, Refuse, Mark
<1>3. CASE Persist(p) \/ Clear(p)
  BY <1>3 DEF Persist, Clear
<1>4. CASE Finish(p) \/ Restore(p)
  BY <1>4 DEF Finish, Restore, Unlock
<1>5. CASE Timeout(p) \/ Crash(p)
  BY <1>5 DEF Timeout, Crash, Unlock
<1> QED
  BY <1>1, <1>2, <1>3, <1>4, <1>5 DEF Step

LEMMA OtherWay ==
    ASSUME TypeInv, Course, NEW p \in Procs, NEW q \in Procs \ {p},
           pc'[q] = pc[q], tx'[q] = tx[q], saved'[q] = saved[q], pending'[q] = pending[q],
           happened \subseteq happened', hung => hung',
           lock' = lock \/ lock \in {p, NoProc}
    PROVE  Way(q)'
<1>1. Way(q) /\ NoProc \notin Procs
  BY TokenAssumption DEF Course
<1> QED
  BY <1>1 DEF Way

\* The lock holder is the only one past the lock, so an open transaction past
\* it waits for no other's row lock: only its own, at the clear.
LEMMA OwnWay ==
    ASSUME TypeInv, Course, NEW p \in Procs, Begin(p) \/ Step(p) \/ Timeout(p) \/ Crash(p)
    PROVE  Way(p)'
<1>0. /\ p \in DOMAIN pc /\ p \in DOMAIN tx /\ p \in DOMAIN saved /\ p \in DOMAIN pending
      /\ pc[p] \in Steps /\ tx[p] \in {"none", "open", "dead"} /\ Way(p)
      /\ p # NoProc /\ hung \in BOOLEAN
  BY TokenAssumption DEF TypeInv, TypeOK, Course
<1> USE <1>0 DEF Way, Goto, Fault, row, provider
<1>1. CASE Begin(p)
  BY <1>1 DEF Begin
<1>2. CASE TakeLock(p)
  BY <1>2 DEF TakeLock
<1>3. CASE Read(p)
  <2>1. /\ pc[p] = "read" /\ (pc' = [pc EXCEPT ![p] = "ask"] \/ pc' = [pc EXCEPT ![p] = "finish"])
        /\ happened \subseteq happened' /\ UNCHANGED <<tx, lock, pending, saved, hung>>
    BY <1>3 DEF Read, ReadFails, Send
  <2> QED
    BY <2>1
<1>4. CASE Rotate(p)
  BY <1>4 DEF Rotate
<1>5. CASE AskFails(p) \/ Refuse(p) \/ Mark(p)
  BY <1>5 DEF AskFails, Refuse, Mark
<1>6. CASE Persist(p)
  BY <1>6 DEF Persist
<1>7. CASE Clear(p)
  BY <1>7 DEF Clear
<1>8. CASE Finish(p)
  BY <1>8 DEF Finish, Unstored
<1>9. CASE Restore(p)
  BY <1>9 DEF Restore
<1>10. CASE Timeout(p)
  <2>1. CASE pc[p] = "lock"
    BY <1>10, <2>1 DEF Timeout, Unlock
  <2>2. CASE pc[p] # "lock"
    <3>1. \A q \in Procs : Writing(q) => q = p /\ pc[p] \in {"clear", "finish"}
      BY <1>10, <2>2 DEF Timeout, Writing, Course
    <3>2. Waiting(p) => hung'
      BY <1>10, <2>2, <3>1 DEF Timeout, Waiting, RowFree, RowFreeAll, ClearWaits
    <3>3. "slow" \in happened' \/ hung'
      BY <1>10, <3>2 DEF Timeout
    <3>4. /\ tx'[p] = "dead" /\ pc'[p] = pc[p] /\ pc[p] # "idle" /\ pc[p] # "restore"
          /\ UNCHANGED <<pending, saved>> /\ happened \subseteq happened' /\ tx[p] = "open"
      BY <1>0, <1>10, <2>2 DEF Timeout
    <3>5. /\ ~(tx'[p] \in {"none", "open"})
          /\ saved'[p] => pc'[p] \in {"clear", "finish"}
          /\ pending'[p] # NoTok => pc'[p] \in {"write", "clear", "finish", "restore"}
          /\ pc'[p] \notin {"idle", "lock", "restore"}
      BY <2>2, <3>4
    <3> HIDE <1>0
    <3> QED
      BY <3>3, <3>5
  <2> QED
    BY <2>1, <2>2
<1>11. CASE Crash(p)
  BY <1>11 DEF Crash
<1> QED
  BY <1>1, <1>2, <1>3, <1>4, <1>5, <1>6, <1>7, <1>8, <1>9, <1>10, <1>11 DEF Step

LEMMA CourseNext == TypeInv /\ Course /\ [Next]_vars => Course'
<1> SUFFICES ASSUME TypeInv, Course, [Next]_vars PROVE Course'
  OBVIOUS
<1>1. ASSUME NEW p \in Procs, Begin(p) \/ Step(p) \/ Timeout(p) \/ Crash(p) PROVE Course'
  <2>1. \A q \in Procs \ {p} : Way(q)'
    BY <1>1, ActsAlone, OtherWay
  <2>2. Way(p)'
    BY <1>1, OwnWay
  <2> QED
    BY <2>1, <2>2 DEF Course
<1>2. CASE UNCHANGED <<pc, tx, lock, pending, saved, hung, happened>>
  BY <1>2 DEF Course, Way
<1> QED
  BY <1>1, <1>2 DEF Next, Authorize, Forget, ClearStatus, Recheck, Age, Withdraw, vars

-----------------------------------------------------------------------------
(* A process that has rotated a token and not stored the new one is its    *)
(* only keeper: nobody asks with it or keeps another token of the same     *)
(* authorization, and the row is behind it.                                *)

Behind(s, t) == s.fam = t.fam => s.gen < t.gen

OnlyKeeper ==
    \A p \in Procs : Keeps(p) =>
        /\ Good(pending[p]) /\ Behind(tok, pending[p])
        /\ \A q \in Procs : /\ pc[q] = "ask" => sent[q] # pending[p]
                            /\ q # p /\ Keeps(q) => pending[q].fam # pending[p].fam

\* What is written is what a process has kept, which then keeps it no longer.
Writes(p) == Keeps(p) /\ ~Keeps(p)' /\ tok' = pending[p]

\* A step that rotates nothing and asks with nothing new.
LEMMA KeeperFrame ==
    ASSUME OnlyKeeper, UNCHANGED <<accepted, revoked>>,
           tok' = tok \/ \E p \in Procs : Writes(p),
           \A q \in Procs : /\ Keeps(q)' => Keeps(q) /\ pending'[q] = pending[q]
                            /\ pc'[q] = "ask" => pc[q] = "ask" /\ sent'[q] = sent[q]
    PROVE  OnlyKeeper'
<1>1. ASSUME NEW p \in Procs, Keeps(p)'
      PROVE  Good(pending[p])' /\ Behind(tok, pending[p])'
  <2>1. Keeps(p) /\ pending'[p] = pending[p] /\ Good(pending[p]) /\ Behind(tok, pending[p])
    BY <1>1 DEF OnlyKeeper
  <2>2. CASE tok' = tok
    BY <2>1, <2>2 DEF Good, Behind
  <2>3. ASSUME NEW q \in Procs, Writes(q) PROVE Behind(tok, pending[p])'
    <3>1. q # p /\ pending[q].fam # pending[p].fam
      BY <1>1, <2>1, <2>3 DEF Writes, OnlyKeeper
    <3> QED
      BY <2>1, <2>3, <3>1 DEF Writes, Behind
  <2> QED
    BY <2>1, <2>2, <2>3 DEF Good
<1>2. ASSUME NEW p \in Procs, Keeps(p)', NEW q \in Procs
      PROVE  /\ pc'[q] = "ask" => sent'[q] # pending'[p]
             /\ q # p /\ Keeps(q)' => pending'[q].fam # pending'[p].fam
  BY <1>2 DEF OnlyKeeper
<1> QED
  BY <1>1, <1>2 DEF OnlyKeeper

\* What a process asks with is stored, or was: it is nobody's to keep.
LEMMA KeeperRead ==
    ASSUME TypeInv, Course, OnlyKeeper, NEW p \in Procs, Read(p)
    PROVE  OnlyKeeper' /\ (\A q \in Procs : Keeps(q)' <=> Keeps(q))
<1>1. /\ pc[p] = "read" /\ UNCHANGED <<tok, accepted, revoked, pending, tx>>
      /\ \/ \E t \in Token : (t = tok \/ t \in Snapshots) /\ Send(p, t)
         \/ Goto(p, "finish") /\ UNCHANGED sent
  BY DEF Read, Send, row, provider, TypeInv, TypeOK, Snapshots
<1>2. pending[p] = NoTok
  BY <1>1 DEF Course, Way
<1>3. \A q \in Procs : Keeps(q)' <=> Keeps(q)
  BY <1>1, <1>2 DEF Keeps, Goto, Send, TypeInv, TypeOK
<1>4. CASE Goto(p, "finish") /\ UNCHANGED sent
  BY <1>1, <1>3, <1>4, KeeperFrame DEF Goto, TypeInv, TypeOK
<1>5. ASSUME NEW t \in Token, t = tok \/ t \in Snapshots, Send(p, t) PROVE OnlyKeeper'
  <2>1. \A q \in Procs : Keeps(q) => t # pending[q]
    <3>1. CASE t = tok
      <4>1. t.gen \in Nat
        BY TokenFields, TokenAssumption
      <4> QED
        BY <3>1, <4>1 DEF OnlyKeeper, Behind
    <3>2. CASE t \in Snapshots
      BY <3>2 DEF Snapshots
    <3> QED
      BY <1>5, <3>1, <3>2
  <2>2. \A q \in Procs : pc'[q] = "ask" => sent'[q] = t \/ (pc[q] = "ask" /\ sent'[q] = sent[q])
    BY <1>5 DEF Send, Goto, TypeInv, TypeOK
  <2> QED
    BY <1>1, <1>3, <2>1, <2>2 DEF OnlyKeeper, Good, Behind
<1> QED
  BY <1>1, <1>3, <1>4, <1>5

\* The provider accepts one token of an authorization.
LEMMA OneAccepted ==
    ASSUME TypeInv, RefusalInv, NEW s \in accepted, NEW t \in accepted, s.fam = t.fam
    PROVE  s = t
<1>1. s \in Token /\ t \in Token /\ s.gen <= t.gen /\ t.gen <= s.gen
  BY DEF TypeInv, TypeOK, RefusalInv, Known
<1>2. s.gen = t.gen
  BY <1>1, TokenFields, TokenAssumption
<1> QED
  BY <1>1, <1>2 DEF Token

\* Withdrawn authorizations have no accepted token, and are known ones.
RevokedInv ==
    /\ revoked \subseteq 0 .. auths
    /\ \A t \in accepted : t.fam \notin revoked

LEMMA RevokedNext == TypeInv /\ RevokedInv /\ [Next]_vars => RevokedInv'
<1> SUFFICES ASSUME TypeInv, RevokedInv, [Next]_vars PROVE RevokedInv'
  OBVIOUS
<1>0. auths \in Nat
  BY TokenAssumption DEF TypeInv, TypeOK
<1>1. ASSUME NEW p \in Procs, Rotate(p) PROVE RevokedInv'
  <2>1. Next1(sent[p]).fam = sent[p].fam /\ sent[p] \in accepted
    BY <1>1, NextToken DEF Rotate, TypeInv, TypeOK
  <2> QED
    BY <1>1, <2>1 DEF Rotate, RevokedInv
<1>2. ASSUME NEW p \in Procs, Authorize(p) PROVE RevokedInv'
  <2>1. First(auths + 1).fam = auths + 1
    BY DEF First
  <2> QED
    BY <1>0, <1>2, <2>1 DEF Authorize, RevokedInv
<1>3. ASSUME NEW f \in (0 .. auths) \ revoked, Withdraw(f) PROVE RevokedInv'
  BY <1>3 DEF Withdraw, RevokedInv
<1>4. CASE UNCHANGED <<accepted, revoked, auths>>
  BY <1>4 DEF RevokedInv
<1> QED
  BY <1>1, <1>2, <1>3, <1>4
  DEF Next, Step, Begin, TakeLock, Read, AskFails, Refuse, Mark, Persist, Clear, Finish,
      Restore, Timeout, Crash, Forget, ClearStatus, Recheck, Age, vars, provider

\* A rotation: the new token is younger than anything known.  The one it revokes
\* was nobody's to keep, so nobody keeps one of its authorization.
LEMMA KeeperRotate ==
    ASSUME TypeInv, RefusalInv, RevokedInv, Course, OnlyKeeper, NEW p \in Procs, Rotate(p)
    PROVE  /\ OnlyKeeper'
           /\ \A q \in Procs \ {p} : Keeps(q) => pending[q] # sent[p] /\ Keeps(q)'
                                                 /\ pending'[q] = pending[q]
<1> DEFINE x == sent[p]
           y == Next1(sent[p])
<1>1. x \in accepted /\ x \in Token /\ y \in Token /\ y.fam = x.fam /\ y.gen = x.gen + 1
  BY NextToken DEF Rotate, TypeInv, TypeOK
<1>2. /\ pc[p] = "ask" /\ accepted' = (accepted \ {x}) \cup {y}
      /\ UNCHANGED <<tok, revoked, tx>>
  BY DEF Rotate, row
<1>3. /\ pending' = [pending EXCEPT ![p] = y] \/ pending' = pending
      /\ pc' = [pc EXCEPT ![p] = "write"] \/ pc' = [pc EXCEPT ![p] = "finish"]
      /\ sent' = [sent EXCEPT ![p] = NoTok]
  BY DEF Rotate, Goto
<1>4. \A q \in Procs \ {p} : /\ Keeps(q)' <=> Keeps(q)
                             /\ pending'[q] = pending[q] /\ pc'[q] = pc[q] /\ sent'[q] = sent[q]
  BY <1>2, <1>3 DEF Keeps, TypeInv, TypeOK
<1>5. pc'[p] # "ask"
  BY <1>3 DEF TypeInv, TypeOK
<1>6. ASSUME NEW q \in Procs, Keeps(q)
      PROVE  /\ pending[q] # x /\ pending[q].fam # x.fam
             /\ pending[q] \in accepted' \/ pending[q].fam \in revoked'
  <2>1. pending[q] # x /\ Good(pending[q])
    BY <1>2, <1>6 DEF OnlyKeeper
  <2>2. pending[q].fam # x.fam
    BY <1>1, <2>1, OneAccepted DEF Good, RevokedInv
  <2> QED
    BY <1>2, <2>1, <2>2 DEF Good
<1>7. Behind(tok, y)
  <2>1. tok.gen \in Nat /\ x.gen \in Nat
    BY <1>1, TokenFields, TokenAssumption DEF TypeInv, TypeOK
  <2> QED
    BY <1>1, <2>1 DEF Behind, RefusalInv, Known
<1>8. \A q \in Procs : sent[q] # y
  <2>1. ~Known(y)
    <3>1. x.gen \in Nat
      BY <1>1, TokenFields, TokenAssumption
    <3> QED
      BY <1>1, <3>1 DEF Known
  <2> QED
    BY <1>1, <2>1 DEF RefusalInv
<1>9. ASSUME NEW q \in Procs \ {p}, Keeps(q)'
      PROVE  /\ Good(pending[q])' /\ Behind(tok, pending[q])'
             /\ \A r \in Procs \ {p} : /\ pc'[r] = "ask" => sent'[r] # pending'[q]
                                       /\ r # q /\ Keeps(r)' => pending'[r].fam # pending'[q].fam
  <2>1. Keeps(q) /\ pending'[q] = pending[q] /\ Behind(tok, pending[q])
    BY <1>4, <1>9 DEF OnlyKeeper
  <2>2. Good(pending[q])' /\ Behind(tok, pending[q])'
    BY <1>2, <1>6, <2>1 DEF Good, Behind
  <2>3. \A r \in Procs \ {p} : /\ pc'[r] = "ask" => sent'[r] # pending'[q]
                               /\ r # q /\ Keeps(r)' => pending'[r].fam # pending'[q].fam
    BY <1>4, <2>1 DEF OnlyKeeper
  <2> QED
    BY <2>2, <2>3
<1>10. CASE pending' = [pending EXCEPT ![p] = y]
  <2>1. pending'[p] = y
    BY <1>10 DEF TypeInv, TypeOK
  <2> HIDE DEF y
  <2>2. Good(pending[p])' /\ Behind(tok, pending[p])'
    BY <1>2, <1>7, <2>1 DEF Good, Behind
  <2>3. \A q \in Procs \ {p} : /\ pc'[q] = "ask" => sent'[q] # pending'[p]
                               /\ Keeps(q)' => pending'[q].fam # pending'[p].fam
    BY <1>1, <1>4, <1>6, <1>8, <2>1
  <2> QED
    BY <1>4, <1>5, <1>6, <1>9, <2>2, <2>3 DEF OnlyKeeper
<1>11. CASE pending' = pending
  <2>1. ~Keeps(p)'
    BY <1>2, <1>11 DEF Course, Way, Keeps
  <2>2. ASSUME NEW q \in Procs, Keeps(q)'
        PROVE  /\ Good(pending[q])' /\ Behind(tok, pending[q])'
               /\ \A r \in Procs : /\ pc'[r] = "ask" => sent'[r] # pending'[q]
                                   /\ r # q /\ Keeps(r)' => pending'[r].fam # pending'[q].fam
    <3>1. q \in Procs \ {p}
      BY <2>1, <2>2
    <3> QED
      BY <1>5, <1>9, <2>1, <2>2, <3>1
  <2> QED
    BY <1>4, <1>6, <2>2 DEF OnlyKeeper
<1> QED
  BY <1>3, <1>4, <1>6, <1>10, <1>11

\* The other steps of a renewal rotate nothing, and write what they keep.
LEMMA KeeperStep ==
    ASSUME TypeInv, Course, OnlyKeeper, NEW p \in Procs,
           Begin(p) \/ Step(p) \/ Timeout(p) \/ Crash(p), ~Read(p), ~Rotate(p)
    PROVE  /\ OnlyKeeper'
           /\ tok' = tok \/ Writes(p)
           /\ Keeps(p)' => Keeps(p) /\ pending'[p] = pending[p]
           /\ \A q \in Procs \ {p} : /\ Keeps(q)' <=> Keeps(q)
                                     /\ pending'[q] = pending[q]
<1>0. /\ p \in DOMAIN pc /\ p \in DOMAIN tx /\ p \in DOMAIN pending /\ p \in DOMAIN sent
      /\ tx[p] \in {"none", "open", "dead"} /\ Way(p)
  BY DEF TypeInv, TypeOK, Course
<1>1. UNCHANGED <<accepted, revoked>>
  BY DEF Begin, Step, TakeLock, AskFails, Refuse, Mark, Persist, Clear, Finish, Restore,
         Timeout, Crash, provider
<1>2. \A q \in Procs \ {p} : /\ Keeps(q)' <=> Keeps(q)
                             /\ pending'[q] = pending[q] /\ pc'[q] = pc[q] /\ sent'[q] = sent[q]
  BY ActsAlone DEF Keeps
<1>3. /\ Keeps(p)' => Keeps(p) /\ pending'[p] = pending[p]
      /\ pc'[p] = "ask" => pc[p] = "ask" /\ sent'[p] = sent[p]
      /\ tok' = tok \/ Writes(p)
  <2> USE <1>0 DEF Keeps, Writes, Goto, Way, row
  <2>1. CASE Begin(p) \/ TakeLock(p) \/ AskFails(p) \/ Refuse(p) \/ Mark(p)
    BY <2>1 DEF Begin, TakeLock, AskFails, Refuse, Mark
  <2>2. CASE Clear(p) \/ Timeout(p)
    BY <2>2 DEF Clear, Timeout
  <2>3. CASE Persist(p)
    BY <2>3, NoTokAssumption DEF Persist, ToStore, TypeInv, HasPending
  <2>4. CASE Finish(p)
    <3>1. /\ tx'[p] = "none"
          /\ pc'[p] = IF Unstored(p) THEN "restore" ELSE "idle"
          /\ pending'[p] = IF Unstored(p) THEN pending[p] ELSE NoTok
          /\ tok' = IF Writing(p) THEN pending[p] ELSE tok
      BY <2>4 DEF Finish, ToStore
    <3>2. Writing(p) => Keeps(p) /\ ~Unstored(p)
      BY NoTokAssumption DEF Writing, Unstored, TypeInv, HasPending
    <3> QED
      BY <3>1, <3>2 DEF Unstored
  <2>5. CASE Restore(p)
    BY <2>5, NoTokAssumption DEF Restore, ToStore, TypeInv, HasPending
  <2>6. CASE Crash(p)
    BY <2>6 DEF Crash
  <2> QED
    BY <2>1, <2>2, <2>3, <2>4, <2>5, <2>6 DEF Step
<1>4. OnlyKeeper'
  BY <1>1, <1>2, <1>3, KeeperFrame
<1> QED
  BY <1>2, <1>3, <1>4

\* A new authorization is one no process knows.
LEMMA KeeperAuthorize ==
    ASSUME TypeInv, RefusalInv, OnlyKeeper, NEW p \in Procs, Authorize(p)
    PROVE  /\ OnlyKeeper' /\ tok'.fam # tok.fam
           /\ \A q \in Procs : Keeps(q) => pending[q].fam # tok'.fam
<1> DEFINE f == auths + 1
<1>1. /\ f \in 0 .. MaxAuths /\ auths \in Nat
      /\ tok' = First(f) /\ accepted' = accepted \cup {First(f)}
      /\ UNCHANGED <<pc, tx, sent, pending, revoked>>
  BY TokenAssumption DEF Authorize, TypeInv, TypeOK
<1>2. First(f).fam = f
  BY <1>1, FirstToken
<1>3. \A t \in Token : Known(t) => t.fam # f
  BY <1>1, TokenFields, TokenAssumption DEF Known
<1>4. \A q \in Procs : Keeps(q) => pending[q].fam # f
  BY <1>3 DEF Keeps, RefusalInv, TypeInv, TypeOK, MaybeTok
<1>5. tok.fam # f
  BY <1>3 DEF RefusalInv, TypeInv, TypeOK
<1> QED
  BY <1>1, <1>2, <1>4, <1>5 DEF OnlyKeeper, Keeps, Good, Behind

LEMMA KeeperWithdraw ==
    ASSUME OnlyKeeper, NEW f \in (0 .. auths) \ revoked, Withdraw(f)
    PROVE  OnlyKeeper' /\ \A t : Good(t) => t \in accepted' \/ t.fam \in revoked'
<1>1. /\ revoked' = revoked \cup {f} /\ accepted' = {t \in accepted : t.fam # f}
      /\ UNCHANGED <<tok, pc, tx, sent, pending>>
  BY DEF Withdraw, row
<1>2. \A t : Good(t) => t \in accepted' \/ t.fam \in revoked'
  BY <1>1 DEF Good
<1>3. OnlyKeeper'
  BY <1>1, <1>2 DEF OnlyKeeper, Keeps, Good, Behind
<1> QED
  BY <1>2, <1>3

\* Nothing else touches what is kept.
Rest == [Next]_vars /\ UNCHANGED <<tok, accepted, revoked, pc, tx, sent, pending>>

LEMMA NextCases ==
    ASSUME [Next]_vars
    PROVE  \/ \E p \in Procs : Begin(p) \/ Step(p) \/ Timeout(p) \/ Crash(p)
           \/ \E p \in Procs : Authorize(p)
           \/ \E f \in (0 .. auths) \ revoked : Withdraw(f)
           \/ Rest
BY DEF Next, Rest, Forget, ClearStatus, Recheck, Age, row, provider, vars

KeeperInv == TypeInv /\ RefusalInv /\ RevokedInv /\ Course /\ OnlyKeeper

LEMMA KeeperInit == Init => KeeperInv
<1>1. Init => First(0).fam = 0
  BY DEF First
<1>2. Init => RevokedInv /\ Course /\ OnlyKeeper
  BY <1>1 DEF Init, RevokedInv, Course, Way, OnlyKeeper, Keeps
<1> QED
  BY <1>2, TokenInit, RefusalInit DEF KeeperInv

LEMMA KeeperNext == KeeperInv /\ [Next]_vars => KeeperInv'
<1> SUFFICES ASSUME KeeperInv, [Next]_vars PROVE OnlyKeeper'
  BY TokenNext, RefusalNext, RevokedNext, CourseNext DEF KeeperInv
<1> USE DEF KeeperInv
<1>1. ASSUME Rest PROVE OnlyKeeper'
  BY <1>1 DEF Rest, OnlyKeeper, Keeps, Good, Behind
<1> QED
  BY <1>1, NextCases, KeeperRead, KeeperRotate, KeeperStep, KeeperAuthorize, KeeperWithdraw

\* Within one authorization the stored token only moves forward: a rotation that
\* is stored late, again or outside its transaction never overwrites a newer
\* one (oauth2-token.service.ts:340-366), for any number of processes and rotations,
\* under all faults.
NeverOlder == [][tok'.fam = tok.fam => tok'.gen >= tok.gen]_tok

THEOREM TokensMoveForward == Spec => NeverOlder
<1>1. KeeperInv /\ [Next]_vars => [tok'.fam = tok.fam => tok'.gen >= tok.gen]_tok
  <2> SUFFICES ASSUME KeeperInv, [Next]_vars, tok' # tok, tok'.fam = tok.fam
               PROVE  tok'.gen >= tok.gen
    OBVIOUS
  <2> USE DEF KeeperInv
  <2>1. ASSUME NEW p \in Procs, Read(p) \/ Rotate(p) PROVE FALSE
    BY <2>1 DEF Read, Rotate, row
  <2>2. ASSUME NEW p \in Procs, Writes(p) PROVE tok'.gen >= tok.gen
    <3>1. tok' \in Token /\ tok \in Token
      BY TokenNext DEF TypeInv, TypeOK
    <3>2. tok'.gen \in Nat /\ tok.gen \in Nat
      BY <3>1, TokenFields, TokenAssumption
    <3> QED
      BY <2>2, <3>2 DEF Writes, OnlyKeeper, Behind
  <2>3. ~\E f \in (0 .. auths) \ revoked : Withdraw(f)
    BY DEF Withdraw, row
  <2>4. ~Rest
    BY DEF Rest
  <2> QED
    BY <2>1, <2>2, <2>3, <2>4, NextCases, KeeperStep, KeeperAuthorize
<1> QED
  BY <1>1, KeeperInit, KeeperNext, PTL DEF Spec, NeverOlder

-----------------------------------------------------------------------------
(* The stored token is good, or its successor is with the process that     *)
(* keeps it, unless a fault cost that process the successor.               *)

Spared ==
    /\ happened \cap {"lost", "crash"} = {}
    /\ "write" \in happened => happened \cap {"connection", "slow"} = {} /\ ~hung

Heir(p) == Keeps(p) /\ pending[p].fam = tok.fam /\ pending[p] \in accepted

Inherited == Good(tok) \/ \E p \in Procs : Heir(p)

\* What was spared so far is spared: faults are not forgotten.
LEMMA SparedBefore ==
    ASSUME TypeInv, [Next]_vars, Spared'
    PROVE  Spared
<1>1. ASSUME NEW p \in Procs, Begin(p) \/ Step(p) \/ Timeout(p) \/ Crash(p)
      PROVE  happened \subseteq happened' /\ (hung => hung')
  BY <1>1, ActsAlone
<1>2. happened \subseteq happened' /\ (hung => hung')
  BY <1>1 DEF Next, Authorize, Forget, ClearStatus, Recheck, Age, Withdraw, vars
<1> QED
  BY <1>2 DEF Spared

\* The keeper either keeps its token or writes it.
LEMMA KeptOrWritten ==
    ASSUME KeeperInv, Spared', NEW p \in Procs, Keeps(p),
           Begin(p) \/ Step(p) \/ Timeout(p) \/ Crash(p)
    PROVE  (Keeps(p)' /\ pending'[p] = pending[p]) \/ Writes(p)
<1>0. /\ p \in DOMAIN pc /\ p \in DOMAIN tx /\ p \in DOMAIN pending
      /\ tx[p] \in {"none", "open", "dead"} /\ Way(p) /\ happened \subseteq happened'
  BY ActsAlone DEF KeeperInv, TypeInv, TypeOK, Course
<1> USE <1>0 DEF Keeps, Writes, Goto, Way, row
<1>1. CASE Begin(p) \/ TakeLock(p) \/ Read(p) \/ Rotate(p) \/ AskFails(p) \/ Refuse(p) \/ Mark(p)
  BY <1>1 DEF Begin, TakeLock, Read, Rotate, AskFails, Refuse, Mark
<1>2. CASE Clear(p) \/ Timeout(p)
  BY <1>2 DEF Clear, Timeout
<1>3. CASE Persist(p)
  <2>1. tx[p] = "none" => "connection" \in happened /\ "write" \notin happened'
    BY <1>3 DEF Persist, Spared
  <2> QED
    BY <1>3, <2>1 DEF Persist, Fault, ToStore
<1>4. CASE Finish(p)
  <2>1. /\ pc[p] = "finish" /\ tx'[p] = "none"
        /\ pc'[p] = IF Unstored(p) THEN "restore" ELSE "idle"
        /\ pending'[p] = IF Unstored(p) THEN pending[p] ELSE NoTok
        /\ tok' = IF Writing(p) THEN pending[p] ELSE tok
    BY <1>4 DEF Finish, ToStore
  <2>2. Writing(p) \/ Unstored(p)
    BY <2>1 DEF Writing, Unstored
  <2>3. ~(Writing(p) /\ Unstored(p))
    BY DEF Writing, Unstored
  <2> QED
    BY <2>1, <2>2, <2>3
<1>5. CASE Restore(p)
  <2>1. ~Fault("write")
    BY <1>5 DEF Restore, Fault, Spared
  <2> QED
    BY <1>5, <2>1 DEF Restore, ToStore
<1>6. ~Crash(p)
  BY DEF Crash, Fault, Spared
<1> QED
  BY <1>1, <1>2, <1>3, <1>4, <1>5, <1>6 DEF Step

\* The row's token is spent: the process that spent it is its heir.
LEMMA InheritedRotate ==
    ASSUME KeeperInv, Inherited, Spared', NEW p \in Procs, Rotate(p)
    PROVE  Inherited'
<1> DEFINE x == sent[p]
           y == Next1(sent[p])
<1>1. x \in accepted /\ x \in Token /\ y.fam = x.fam /\ y \in Token
  BY NextToken DEF Rotate, KeeperInv, TypeInv, TypeOK
<1>2. /\ pc[p] = "ask" /\ accepted' = (accepted \ {x}) \cup {y}
      /\ pc' = [pc EXCEPT ![p] = "write"] /\ pending' = [pending EXCEPT ![p] = y]
      /\ UNCHANGED <<tok, revoked>>
  BY DEF Rotate, Fault, Goto, Spared, row
<1>3. CASE tok = x
  <2>1. pc'[p] = "write" /\ pending'[p] = y /\ y # NoTok
    BY <1>1, <1>2, NoTokAssumption DEF KeeperInv, TypeInv, TypeOK
  <2>2. Heir(p)'
    BY <1>1, <1>2, <1>3, <2>1 DEF Heir, Keeps
  <2> QED
    BY <2>2 DEF Inherited
<1>4. CASE tok # x /\ Good(tok)
  BY <1>2, <1>4 DEF Inherited, Good
<1>5. CASE ~Good(tok)
  <2>1. PICK q \in Procs : Heir(q)
    BY <1>5 DEF Inherited
  <2>2. q # p
    BY <1>2, <2>1 DEF KeeperInv, Course, Way, Heir, Keeps
  <2>3. pending[q] # x /\ Keeps(q)' /\ pending'[q] = pending[q]
    BY <2>1, <2>2, KeeperRotate DEF KeeperInv, Heir
  <2>4. Heir(q)'
    BY <1>2, <2>1, <2>3 DEF Heir
  <2> QED
    BY <2>4 DEF Inherited
<1> QED
  BY <1>3, <1>4, <1>5

LEMMA InheritedStep ==
    ASSUME KeeperInv, Inherited, Spared', NEW p \in Procs,
           Begin(p) \/ Step(p) \/ Timeout(p) \/ Crash(p), ~Rotate(p)
    PROVE  Inherited'
<1>1. UNCHANGED <<accepted, revoked>> /\ (tok' = tok \/ Writes(p))
  <2>1. tok' = tok \/ Writes(p)
    BY KeeperStep DEF KeeperInv, Read, row
  <2> QED
    BY <2>1 DEF Begin, Step, TakeLock, Read, AskFails, Refuse, Mark, Persist, Clear, Finish,
                Restore, Timeout, Crash, provider
<1>2. CASE Writes(p)
  BY <1>1, <1>2 DEF Writes, Inherited, KeeperInv, OnlyKeeper, Good
<1>3. CASE tok' = tok /\ ~Writes(p)
  <2>1. \A q \in Procs \ {p} : Keeps(q) => Keeps(q)' /\ pending'[q] = pending[q]
    BY ActsAlone DEF KeeperInv, Keeps
  <2>2. Keeps(p) => Keeps(p)' /\ pending'[p] = pending[p]
    BY <1>3, KeptOrWritten
  <2> QED
    BY <1>1, <1>3, <2>1, <2>2 DEF Inherited, Heir, Good
<1> QED
  BY <1>1, <1>2, <1>3

LEMMA InheritedNext ==
    ASSUME KeeperInv, Inherited, Spared', [Next]_vars
    PROVE  Inherited'
<1>1. ASSUME NEW p \in Procs, Authorize(p) PROVE Inherited'
  BY <1>1 DEF Authorize, Inherited, Good
<1>2. ASSUME NEW f \in (0 .. auths) \ revoked, Withdraw(f) PROVE Inherited'
  <2>1. UNCHANGED <<tok, pc, tx, pending>> /\ accepted' \subseteq accepted
        /\ revoked' = revoked \cup {f}
        /\ \A t : Good(t) => t \in accepted' \/ t.fam \in revoked'
    BY <1>2, KeeperWithdraw DEF KeeperInv, Withdraw, row
  <2>2. CASE Good(tok)
    BY <2>1, <2>2 DEF Inherited, Good
  <2>3. ASSUME NEW q \in Procs, Heir(q) PROVE Inherited'
    <3>1. pending[q] \in accepted' \/ tok.fam \in revoked'
      BY <2>1, <2>3 DEF Heir, Good
    <3> QED
      BY <2>1, <2>3, <3>1 DEF Inherited, Heir, Keeps, Good
  <2> QED
    BY <2>2, <2>3 DEF Inherited
<1>3. CASE Rest
  BY <1>3 DEF Rest, Inherited, Heir, Keeps, Good
<1> QED
  BY <1>1, <1>2, <1>3, NextCases, InheritedRotate, InheritedStep

\* A rotation never costs the connector its token, for any number of processes,
\* authorizations and rotations, whatever times out, cannot be read or gets no
\* connection: the stored token is accepted, or withdrawn, or its successor is
\* with the process that will store it (oauth2-token.service.ts:340-343).
THEOREM RotationKeepsToken == Spec => []TokenKept
<1> DEFINE Inv == Spared => Inherited
<1>1. Init => Inv
  BY DEF Init, Inherited, Good
<1>2. Inv => TokenKept
  BY DEF Spared, Inherited, Heir, Good, TokenKept
<1>3. KeeperInv /\ Inv /\ [Next]_vars => Inv'
  BY InheritedNext, SparedBefore DEF KeeperInv
<1> QED
  BY <1>1, <1>2, <1>3, KeeperInit, KeeperNext, PTL DEF Spec

-----------------------------------------------------------------------------
(* Renewals implement the chain: a rotation is an obtained token, a write  *)
(* of the row stores one, and a keeper that dies or gives up loses one.    *)

\* As long as each process keeps what it kept, nothing is obtained or lost.
LEMMA SameHeirs ==
    ASSUME \A q \in Procs : /\ Keeps(q)' <=> Keeps(q)
                            /\ Keeps(q) => pending'[q] = pending[q]
    PROVE  Heirs' = Heirs
BY DEF Heirs

LEMMA RotationObtains ==
    ASSUME KeeperInv, NEW p \in Procs, Rotate(p)
    PROVE  Chain!Next \/ (tok' = tok /\ Heirs' = Heirs)
<1> DEFINE y == Next1(sent[p])
<1>1. OnlyKeeper' /\ y \in Token
  BY KeeperRotate, NextToken DEF KeeperInv, Rotate, TypeInv, TypeOK
<1>2. pc[p] = "ask" /\ tok' = tok /\ UNCHANGED tx /\ ~Keeps(p)
  BY DEF Rotate, row, KeeperInv, Course, Way, Keeps
<1>3. \A q \in Procs \ {p} : (Keeps(q)' <=> Keeps(q)) /\ pending'[q] = pending[q]
  BY <1>2 DEF Rotate, Goto, Keeps, KeeperInv, TypeInv, TypeOK
<1>4. CASE pending' = pending /\ pc' = [pc EXCEPT ![p] = "finish"]
  <2>1. ~Keeps(p)'
    BY <1>2, <1>4 DEF KeeperInv, Course, Way, Keeps
  <2> QED
    BY <1>2, <1>3, <2>1, SameHeirs
<1>5. CASE pending' = [pending EXCEPT ![p] = y] /\ pc' = [pc EXCEPT ![p] = "write"]
  <2> HIDE DEF y
  <2>1. Keeps(p)' /\ pending'[p] = y
    BY <1>1, <1>5, NoTokAssumption DEF Keeps, KeeperInv, TypeInv, TypeOK
  <2>2. Heirs' = Heirs \cup {y}
    BY <1>2, <1>3, <2>1 DEF Heirs
  <2>3. Behind(tok, y) /\ \A q \in Procs : Keeps(q) => pending[q].fam # y.fam
    BY <1>1, <1>2, <1>3, <2>1 DEF OnlyKeeper, Behind
  <2>4. PICK t \in Token : t = y
    BY <1>1
  <2>5. Chain!Obtain(t)
    BY <1>2, <2>2, <2>3, <2>4 DEF Chain!Obtain, Chain!Behind, Chain!NoHeirOf, Behind, Heirs
  <2> QED
    BY <2>5 DEF Chain!Next
<1> QED
  BY <1>4, <1>5 DEF Rotate, Goto

\* Two processes never keep the same token, so that the one that stops keeping
\* it takes it from the heirs.
LEMMA KeeperStoresOrLoses ==
    ASSUME KeeperInv, NEW p \in Procs,
           Begin(p) \/ Step(p) \/ Timeout(p) \/ Crash(p), ~Read(p), ~Rotate(p)
    PROVE  Chain!Next \/ (tok' = tok /\ Heirs' = Heirs)
<1>1. /\ tok' = tok \/ Writes(p)
      /\ Keeps(p)' => Keeps(p) /\ pending'[p] = pending[p]
      /\ \A q \in Procs \ {p} : /\ Keeps(q)' <=> Keeps(q)
                                /\ pending'[q] = pending[q]
  <2>1. TypeInv /\ Course /\ OnlyKeeper
    BY DEF KeeperInv
  <2> QED
    BY <2>1, KeeperStep
<1>2. CASE Keeps(p)' \/ ~Keeps(p)
  <2>1. tok' = tok
    BY <1>1, <1>2 DEF Writes
  <2>2. \A q \in Procs : /\ Keeps(q)' <=> Keeps(q)
                         /\ Keeps(q) => pending'[q] = pending[q]
    BY <1>1, <1>2
  <2> QED
    BY <2>1, <2>2, SameHeirs
<1>3. CASE Keeps(p) /\ ~Keeps(p)'
  <2>1. \A q \in Procs \ {p} : Keeps(q) => pending[q] # pending[p]
    BY <1>3 DEF KeeperInv, OnlyKeeper
  <2>2. PICK t \in Heirs : t = pending[p]
    BY <1>3 DEF Heirs
  <2>3. Heirs' = Heirs \ {t}
    <3>1. \A q \in Procs : Keeps(q)' <=> Keeps(q) /\ q # p
      BY <1>1, <1>3
    <3>2. \A q \in Procs \ {p} : pending'[q] = pending[q]
      BY <1>1
    <3> QED
      BY <2>1, <2>2, <3>1, <3>2 DEF Heirs
  <2>4. Chain!Store(t) \/ Chain!Lose(t)
    BY <1>1, <2>2, <2>3 DEF Writes, Chain!Store, Chain!Lose, Heirs
  <2> QED
    BY <2>4 DEF Chain!Next, Heirs
<1> QED
  BY <1>2, <1>3

\* Under any fault and for any number of processes, authorizations and rotations,
\* what is obtained for an authorization is stored once and in order, or lost,
\* before the next one is obtained (oauth2-token.service.ts:272-277, 340-352).
THEOREM RenewalsFollowChain == Spec => RenewalsAreChained
<1>1. Init => Chain!Init
  <2>1. Init => tok \in Token /\ \A p \in Procs : ~Keeps(p)
    BY TokenInit DEF Init, Keeps, TypeInv, TypeOK
  <2> QED
    BY <2>1 DEF Chain!Init, Heirs
<1>2. KeeperInv /\ [Next]_vars => [Chain!Next]_(Chain!vars)
  <2> SUFFICES ASSUME KeeperInv, [Next]_vars
               PROVE  Chain!Next \/ (tok' = tok /\ Heirs' = Heirs)
    BY DEF Chain!vars, Heirs
  <2>1. ASSUME NEW p \in Procs, Read(p) PROVE tok' = tok /\ Heirs' = Heirs
    <3>1. UNCHANGED <<tok, pending>>
      BY <2>1 DEF Read, row
    <3> QED
      BY <2>1, <3>1, KeeperRead, SameHeirs DEF KeeperInv
  <2>2. ASSUME NEW p \in Procs, Authorize(p) PROVE Chain!Next
    <3>1. tok' \in Token /\ UNCHANGED <<pc, tx, pending>>
      BY <2>2, TokenNext DEF KeeperInv, TypeInv, TypeOK, Authorize
    <3>2. tok'.fam # tok.fam /\ \A q \in Procs : Keeps(q) => pending[q].fam # tok'.fam
      BY <2>2, KeeperAuthorize DEF KeeperInv
    <3>3. Chain!Authorize(tok')
      BY <3>1, <3>2 DEF Chain!Authorize, Chain!NoHeirOf, Heirs, Keeps
    <3> QED
      BY <3>1, <3>3 DEF Chain!Next
  <2>3. ASSUME NEW f \in (0 .. auths) \ revoked, Withdraw(f)
        PROVE  tok' = tok /\ Heirs' = Heirs
    BY <2>3 DEF Withdraw, row, Heirs, Keeps
  <2>4. CASE Rest
    BY <2>4 DEF Rest, Heirs, Keeps
  <2> QED
    BY <2>1, <2>2, <2>3, <2>4, NextCases, RotationObtains, KeeperStoresOrLoses
<1> QED
  BY <1>1, <1>2, KeeperInit, KeeperNext, PTL DEF Spec, RenewalsAreChained, Chain!Spec
=============================================================================
