---------------------------- MODULE TokenRefresh ----------------------------
(***************************************************************************)
(* The renewal of one connector's OAuth2 token by several server processes *)
(* (packages/backend/src/connectors/engines/oauth2-token.service.ts):      *)
(* every process keeps the token in memory, the connector's row keeps the  *)
(* refresh token, and the provider rotates it: each renewal revokes the    *)
(* refresh token it is asked with.  A renewal reads the row, asks the      *)
(* provider and writes the answer back, inside a transaction that holds an *)
(* advisory lock and lives at most 30 seconds.                             *)
(*                                                                         *)
(* A token is [fam, gen]: the authorization it descends from and the       *)
(* number of rotations since.  The same pair names the refresh token and   *)
(* the access token that came with it; fresh holds the access tokens that  *)
(* are neither refused nor close to expiry.                                *)
(***************************************************************************)
EXTENDS Naturals, FiniteSets

CONSTANTS
    Procs,     \* server processes (the two halves of a deploy)
    MaxAuths,  \* bound: authorizations by an administrator
    MaxGen,    \* bound: rotations of one authorization
    Faults,    \* the kinds of fault that happen, each at most once
    MaxFaults, \* bound: how many of them
    NoTok,     \* no token
    NoProc     \* the lock is free

ASSUME TokenAssumption ==
    /\ MaxAuths \in Nat /\ MaxGen \in Nat
    /\ \* no connection for the lock, a transaction slower than its 30 s, an
       \* answer lost on the way, a failing read, a failing write, a killed
       \* process
       Faults \subseteq {"connection", "slow", "lost", "read", "write", "crash"}
    /\ MaxFaults \in Nat
    /\ NoProc \notin Procs

VARIABLES
    tok,       \* connectors.auth_config: the stored token
    ref,       \* auth_status_ref of a row marked needs_reauth, or NoTok
    accepted,  \* the refresh tokens the provider accepts
    revoked,   \* the authorizations withdrawn at the provider
    auths,     \* the last authorization
    fresh,     \* access tokens that can still be used
    pc,        \* where the renewal of a process stands
    tx,        \* its transaction: none, open, or dead (timed out)
    lock,      \* the holder of the advisory lock
    sent,      \* the refresh token a renewal asked with
    pending,   \* PendingRotation.rotation: obtained, to be stored
    saved,     \* PendingRotation.saved; in an open transaction, uncommitted
    cache,     \* tokenCache: a token that can still be used, or NoTok
    refused,   \* refused: calls fail at once
    admin,     \* what is happened of an authorization the process handles
    hung,      \* a transaction has waited for its own row lock (history)
    happened   \* the faults so far

vars == <<tok, ref, accepted, revoked, auths, fresh, pc, tx, lock, sent,
          pending, saved, cache, refused, admin, hung, happened>>

Token    == [fam : 0 .. MaxAuths, gen : 0 .. MaxGen]

ASSUME NoTokAssumption == NoTok \notin Token

MaybeTok == Token \cup {NoTok}
Steps    == {"idle", "lock", "read", "ask", "write", "clear",
             "refused", "finish", "restore"}

TypeOK ==
    /\ tok \in Token /\ ref \in MaybeTok
    /\ accepted \in SUBSET Token /\ fresh \in SUBSET Token
    /\ revoked \in SUBSET (0 .. MaxAuths) /\ auths \in 0 .. MaxAuths
    /\ pc \in [Procs -> Steps]
    /\ tx \in [Procs -> {"none", "open", "dead"}]
    /\ lock \in Procs \cup {NoProc}
    /\ sent \in [Procs -> MaybeTok] /\ pending \in [Procs -> MaybeTok]
    /\ saved \in [Procs -> BOOLEAN]
    /\ cache \in [Procs -> MaybeTok] /\ refused \in [Procs -> BOOLEAN]
    /\ admin \in [Procs -> [step : {"none", "forget", "clear"}, tok : MaybeTok]]
    /\ hung \in BOOLEAN
    /\ happened \in SUBSET Faults

NoAdmin  == [step |-> "none", tok |-> NoTok]

First(f) == [fam |-> f, gen |-> 0]
Next1(t) == [t EXCEPT !.gen = @ + 1]

Init ==
    /\ tok = First(0) /\ ref = NoTok
    /\ accepted = {First(0)} /\ revoked = {} /\ auths = 0 /\ fresh = {First(0)}
    /\ pc = [p \in Procs |-> "idle"] /\ tx = [p \in Procs |-> "none"]
    /\ lock = NoProc
    /\ sent = [p \in Procs |-> NoTok] /\ pending = [p \in Procs |-> NoTok]
    /\ saved = [p \in Procs |-> FALSE]
    /\ cache = [p \in Procs |-> NoTok] /\ refused = [p \in Procs |-> FALSE]
    /\ admin = [p \in Procs |-> NoAdmin]
    /\ hung = FALSE /\ happened = {}

-----------------------------------------------------------------------------
(* The row lock and the advisory lock.                                     *)

\* The process has written the row in a transaction that is still open.
Writing(p)   == tx[p] = "open" /\ saved[p]
RowFree(p)   == \A q \in Procs \ {p} : ~Writing(q)
RowFreeAll   == \A q \in Procs : ~Writing(q)
Unlock(p)    == lock' = IF lock = p THEN NoProc ELSE lock

Goto(p, l)   == pc' = [pc EXCEPT ![p] = l]
Fault(k) ==
    /\ k \in Faults \ happened /\ Cardinality(happened) < MaxFaults
    /\ happened' = happened \cup {k}

provider == <<accepted, revoked, auths, fresh>>
row      == <<tok, ref>>

\* The callback returns: an open transaction commits (or, after a failed
\* write, rolls back), and a dead one has already been rolled back.  A
\* rotation that is not stored is stored again, outside.
Unstored_NeverAgain(p) == FALSE
Unstored_Always(p) == pending[p] # NoTok /\ tx[p] # "none"
Unstored(p) ==
    pending[p] # NoTok /\ (tx[p] = "dead" \/ ~saved[p]) /\ tx[p] # "none"

\* What is written to the row: the refresh token of the answer, or an empty
\* one when the answer is not looked at.
ToStore_Empty(p) == NoTok
ToStore(p) == pending[p]

-----------------------------------------------------------------------------
(* A renewal, step by step.                                                *)

\* The call finds neither a usable token in memory nor a refusal there; its
\* snapshot is close to expiry, or the API has just answered it with 401.
\* $transaction gets a connection within 3 s, or the renewal runs unlocked.
Begin(p) ==
    /\ pc[p] = "idle" /\ ~refused[p] /\ cache[p] = NoTok
    /\ \/ /\ tx' = [tx EXCEPT ![p] = "open"] /\ Goto(p, "lock")
          /\ UNCHANGED happened
       \/ Fault("connection") /\ Goto(p, "read") /\ UNCHANGED tx
    /\ UNCHANGED <<row, provider, lock, sent, pending, saved, cache, refused, admin, hung>>

\* pg_advisory_xact_lock
LockFree_Always(p) == TRUE
LockFree(p) == lock = NoProc

TakeLock(p) ==
    /\ pc[p] = "lock" /\ LockFree(p)
    /\ lock' = p /\ Goto(p, "read")
    /\ UNCHANGED <<row, provider, tx, sent, pending, saved, cache, refused, admin, hung, happened>>

\* loadAuthConfigFromDb fails: on a dead transaction, or on a lost connection.
ReadFails(p) ==
    \/ tx[p] = "dead" /\ UNCHANGED happened
    \/ tx[p] # "dead" /\ Fault("read")

\* What the snapshot of the tool registry may hold: a token that was stored
\* once, however long ago.
Snapshots ==
    {t \in Token :
        /\ t.fam <= auths
        /\ \A a \in accepted : a.fam = t.fam => t.gen <= a.gen
        /\ \A q \in Procs : pending[q] # t}

Send(p, t) == sent' = [sent EXCEPT ![p] = t] /\ Goto(p, "ask")

\* The stored token is adopted when it is usable, not sent when it was
\* refused before, and spent otherwise.  A row that cannot be read leaves the
\* caller's snapshot, which is spent instead.
Read(p) ==
    /\ pc[p] = "read"
    /\ \/ /\ tx[p] # "dead" /\ UNCHANGED happened
          /\ \/ /\ tok \in fresh
                /\ cache' = [cache EXCEPT ![p] = tok]
                /\ Goto(p, "finish") /\ UNCHANGED <<sent, refused>>
             \/ /\ tok \notin fresh /\ ref = tok
                /\ refused' = [refused EXCEPT ![p] = TRUE]
                /\ Goto(p, "finish") /\ UNCHANGED <<sent, cache>>
             \/ /\ tok \notin fresh /\ ref # tok
                /\ Send(p, tok) /\ UNCHANGED <<cache, refused>>
       \/ ReadFails(p) /\ (\E t \in Snapshots : Send(p, t))
          /\ UNCHANGED <<cache, refused>>
    /\ UNCHANGED <<row, provider, tx, lock, pending, saved, admin, hung>>

\* The provider rotates the token; the process caches the new one and notes
\* it as pending before it stores it.
Rotate(p) ==
    /\ pc[p] = "ask" /\ sent[p] \in accepted /\ sent[p].gen < MaxGen
    /\ LET new == Next1(sent[p]) IN
         /\ accepted' = (accepted \ {sent[p]}) \cup {new}
         /\ fresh' = (fresh \ {sent[p]}) \cup {new}
         /\ \/ /\ cache' = [cache EXCEPT ![p] = new]
               /\ pending' = [pending EXCEPT ![p] = new]
               /\ Goto(p, "write") /\ UNCHANGED happened
            \/ \* the answer never arrives
               Fault("lost") /\ Goto(p, "finish") /\ UNCHANGED <<cache, pending>>
    /\ sent' = [sent EXCEPT ![p] = NoTok]
    /\ UNCHANGED <<row, revoked, auths, tx, lock, saved, refused, admin,
                   hung>>

\* The provider is unreachable, or answers with something else than a token.
AskFails(p) ==
    /\ pc[p] = "ask" /\ Goto(p, "finish")
    /\ sent' = [sent EXCEPT ![p] = NoTok]
    /\ UNCHANGED <<row, provider, tx, lock, pending, saved, cache,
                   refused, admin, hung, happened>>

\* invalid_grant: calls of this process fail at once from here on.
Refuse(p) ==
    /\ pc[p] = "ask" /\ sent[p] \notin accepted
    /\ refused' = [refused EXCEPT ![p] = TRUE] /\ Goto(p, "refused")
    /\ UNCHANGED <<row, provider, tx, lock, sent, pending, saved, cache,
                   admin, hung, happened>>

\* ConnectorAuthStatusService.mark, on a connection of its own.
MarkedToken_Stored(p) == tok
MarkedToken(p) == sent[p]

Mark(p) ==
    /\ pc[p] = "refused" /\ Goto(p, "finish")
    /\ \/ RowFreeAll /\ ref' = MarkedToken(p) /\ UNCHANGED happened
       \/ Fault("write") /\ UNCHANGED ref
    /\ sent' = [sent EXCEPT ![p] = NoTok]
    /\ UNCHANGED <<tok, provider, tx, lock, pending, saved, cache, refused, admin, hung>>

\* persistRefreshedToken: in the transaction, or at once without one.
Persist(p) ==
    /\ pc[p] = "write" /\ Goto(p, "clear")
    /\ \/ /\ tx[p] # "dead" /\ RowFree(p) /\ UNCHANGED happened
          /\ saved' = [saved EXCEPT ![p] = TRUE]
          /\ tok' = IF tx[p] = "none" THEN ToStore(p) ELSE tok
       \/ /\ tx[p] = "dead" /\ UNCHANGED <<happened, saved, tok>>
       \/ /\ tx[p] # "dead" /\ Fault("write") /\ UNCHANGED <<saved, tok>>
    /\ refused' = [refused EXCEPT ![p] = FALSE]
    /\ UNCHANGED <<ref, provider, tx, lock, sent, pending, cache, admin,
                   hung>>

\* authStatus.clear on another connection than the transaction's: it waits
\* for the row lock the transaction holds when a status is recorded.
ClearWaits(p) == ref # NoTok /\ ~RowFreeAll

Clear(p) ==
    /\ pc[p] = "clear" /\ Goto(p, "finish")
    /\ \/ ~ClearWaits(p) /\ ref' = NoTok /\ UNCHANGED happened
       \/ ref # NoTok /\ Fault("write") /\ UNCHANGED ref
    /\ UNCHANGED <<tok, provider, tx, lock, sent, pending, saved, cache,
                   refused, admin, hung>>

\* The transaction commits or is over.
Finish(p) ==
    /\ pc[p] = "finish"
    /\ tok' = IF Writing(p) THEN ToStore(p) ELSE tok
    /\ Goto(p, IF Unstored(p) THEN "restore" ELSE "idle")
    /\ pending' = [pending EXCEPT ![p] = IF Unstored(p) THEN @ ELSE NoTok]
    /\ tx' = [tx EXCEPT ![p] = "none"] /\ saved' = [saved EXCEPT ![p] = FALSE]
    /\ Unlock(p)
    /\ UNCHANGED <<ref, provider, sent, cache, refused, admin, hung, happened>>

\* The second write, outside the transaction.
Restore(p) ==
    /\ pc[p] = "restore" /\ Goto(p, "idle")
    /\ \/ RowFreeAll /\ tok' = ToStore(p) /\ UNCHANGED happened
       \/ Fault("write") /\ UNCHANGED tok
    /\ pending' = [pending EXCEPT ![p] = NoTok]
    /\ UNCHANGED <<ref, provider, tx, lock, sent, saved, cache, refused,
                   admin, hung>>

-----------------------------------------------------------------------------
(* What interrupts a renewal.                                              *)

Waiting_NotForItself(p) == pc[p] = "lock"
Waiting(p) ==
    \/ pc[p] = "lock"
    \/ pc[p] = "write" /\ ~RowFree(p)
    \/ pc[p] = "clear" /\ ClearWaits(p)
    \/ pc[p] = "refused" /\ ~RowFreeAll

\* The transaction has lived 30 s: rolled back, its locks are free.  A wait
\* for the advisory lock ends with an error and the call fails; everywhere
\* else the callback goes on.
Timeout(p) ==
    /\ tx[p] = "open"
    /\ IF Waiting(p) THEN UNCHANGED happened ELSE Fault("slow")
    /\ hung' = (hung \/ (pc[p] = "clear" /\ ClearWaits(p) /\ Writing(p)))
    /\ tx' = [tx EXCEPT ![p] = IF pc[p] = "lock" THEN "none" ELSE "dead"]
    /\ Goto(p, IF pc[p] = "lock" THEN "idle" ELSE pc[p])
    /\ Unlock(p)
    /\ UNCHANGED <<row, provider, sent, pending, saved, cache, refused, admin>>

\* The process dies and comes back with an empty memory; its transaction is
\* rolled back.
Crash(p) ==
    /\ Fault("crash") /\ Goto(p, "idle") /\ Unlock(p)
    /\ tx' = [tx EXCEPT ![p] = "none"] /\ saved' = [saved EXCEPT ![p] = FALSE]
    /\ sent' = [sent EXCEPT ![p] = NoTok]
    /\ pending' = [pending EXCEPT ![p] = NoTok]
    /\ cache' = [cache EXCEPT ![p] = NoTok]
    /\ refused' = [refused EXCEPT ![p] = FALSE]
    /\ admin' = [admin EXCEPT ![p] = NoAdmin]
    /\ UNCHANGED <<row, provider, hung>>

-----------------------------------------------------------------------------
(* The administrator, the provider and time.                               *)

\* updateAuthConfigMerge: the tokens of a new authorization are stored, ...  It
\* reads all of authConfig and writes it back merged (connectors.service.ts:275-287);
\* with tokens in the patch it is one step here, and merges without them
\* (connector-authorization.ts:146), which may write back an older token, are left out.
Authorize(p) ==
    /\ admin[p].step = "none" /\ auths < MaxAuths /\ RowFreeAll
    /\ auths' = auths + 1
    /\ tok' = First(auths')
    /\ accepted' = accepted \cup {tok'} /\ fresh' = fresh \cup {tok'}
    /\ admin' = [admin EXCEPT ![p] = [step |-> "forget", tok |-> tok']]
    /\ UNCHANGED <<ref, revoked, pc, tx, lock, sent, pending, saved, cache,
                   refused, hung, happened>>

\* ... what this process holds in memory is dropped, ...
Forget(p) ==
    /\ admin[p].step = "forget"
    /\ cache' = [cache EXCEPT ![p] = NoTok]
    /\ refused' = [refused EXCEPT ![p] = FALSE]
    /\ admin' = [admin EXCEPT ![p].step = "clear"]
    /\ UNCHANGED <<row, provider, pc, tx, lock, sent, pending, saved,
                   hung, happened>>

\* ... and the status goes, unless it was recorded against the new token.
ClearStatus(p) ==
    /\ admin[p].step = "clear"
    /\ IF ref = admin[p].tok THEN UNCHANGED ref
                             ELSE ~ClearWaits(p) /\ ref' = NoTok
    /\ admin' = [admin EXCEPT ![p] = NoAdmin]
    /\ UNCHANGED <<tok, provider, pc, tx, lock, sent, pending, saved, cache,
                   refused, hung, happened>>

\* REFUSED_RECHECK_MS has passed.
Recheck(p) ==
    /\ refused[p]
    /\ refused' = [refused EXCEPT ![p] = FALSE]
    /\ UNCHANGED <<row, provider, pc, tx, lock, sent, pending, saved, cache, admin, hung, happened>>

\* An access token gets close to its expiry, or the API answers it with 401.
Age(t) ==
    /\ fresh' = fresh \ {t}
    /\ cache' = [p \in Procs |-> IF cache[p] = t THEN NoTok ELSE cache[p]]
    /\ UNCHANGED <<row, accepted, revoked, auths, pc, tx, lock, sent, pending,
                   saved, refused, admin, hung, happened>>

\* Access is withdrawn at the provider.
Withdraw(f) ==
    /\ revoked' = revoked \cup {f}
    /\ accepted' = {t \in accepted : t.fam # f}
    /\ fresh' = {t \in fresh : t.fam # f}
    /\ cache' = [p \in Procs |-> IF cache[p] \in fresh' THEN cache[p] ELSE NoTok]
    /\ UNCHANGED <<row, auths, pc, tx, lock, sent, pending, saved, refused, admin, hung, happened>>

Step(p) ==
    \/ TakeLock(p) \/ Read(p)
    \/ Rotate(p) \/ AskFails(p) \/ Refuse(p)
    \/ Mark(p) \/ Persist(p) \/ Clear(p) \/ Finish(p) \/ Restore(p)

Next ==
    \/ \E p \in Procs :
          \/ Begin(p) \/ Step(p) \/ Timeout(p) \/ Crash(p)
          \/ Authorize(p) \/ Forget(p) \/ ClearStatus(p)
          \/ Recheck(p)
    \/ \E t \in fresh : Age(t)
    \/ \E f \in (0 .. auths) \ revoked : Withdraw(f)

Spec == Init /\ [][Next]_vars

\* The runtime runs every continuation, and the client ends a transaction
\* that waits 30 s.
FairSpec ==
    /\ Spec
    /\ \A p \in Procs : /\ WF_vars(Step(p))
                        /\ WF_vars(Waiting(p) /\ Timeout(p))

-----------------------------------------------------------------------------
(* Properties.                                                             *)

\* A rotation never leaves the connector holding a refresh token the provider
\* has revoked (oauth2-token.service.ts:340-343): unless access was withdrawn
\* there, the stored token is accepted, or a process still has its successor
\* to store.  Timed-out transactions, renewals without the lock and reads
\* that fail do not lose it, nor does one failed write under the lock; a lost
\* answer and a killed process do, and so may any failed write of a renewal
\* without the lock or with a dead transaction, which is tried once.
TokenKept ==
    /\ happened \cap {"lost", "crash"} = {}
    /\ "write" \in happened => happened \cap {"connection", "slow"} = {} /\ ~hung
    => \/ tok \in accepted
       \/ tok.fam \in revoked
       \/ \E p \in Procs : pending[p] \in accepted

\* A refusal recorded on the row stops the calls only when the provider really
\* refuses the stored token (the ref compared at oauth2-token.service.ts:427), also
\* when it is recorded while another process stores a new token.  The flag a
\* process keeps in its own memory is not covered: it may hold up a token another
\* process has stored until the process looks again, up to 10 minutes (685-688).
BlockedRightly == ref = tok => tok \notin accepted

\* Two processes never spend the same refresh token (the comment at
\* oauth2-token.service.ts:273-277): while nothing fails, the provider only
\* refuses a token whose access was withdrawn.  A transaction that has waited
\* for its own row lock is left out: see NeverSpentTwice.
SpentOnce ==
    (happened = {} /\ ~hung)
    => \A p \in Procs : pc[p] = "refused" => sent[p].fam \in revoked

\* The same, whatever the transactions wait for: this is what the comment at
\* oauth2-token.service.ts:275 says.
NeverSpentTwice ==
    happened = {}
    => \A p \in Procs : pc[p] = "refused" => sent[p].fam \in revoked

\* Every renewal ends, whatever it waits for: the advisory lock of another
\* process, a row another transaction has written, or the row its own
\* transaction has written (the clear at oauth2-token.service.ts:633).
RenewalsEnd == \A p \in Procs : pc[p] # "idle" ~> pc[p] = "idle"

\* A process that has rotated a token and still has to store the new one.
Keeps(p) == pending[p] # NoTok /\ (pc[p] \in {"write", "restore"} \/ tx[p] # "none")
Heirs    == {pending[p] : p \in {q \in Procs : Keeps(q)}}

\* What is obtained for an authorization is stored once, in the order in which
\* it was obtained, or lost: a rotation stored late or a second time, outside the
\* transaction that failed (oauth2-token.service.ts:340-352), never overwrites a
\* newer one, under any fault.
Chain == INSTANCE TokenChain WITH stored <- tok, heirs <- Heirs

RenewalsAreChained == Chain!Spec
=============================================================================
