----------------------- MODULE WorkspaceTurnsProofs -----------------------
(***************************************************************************)
(* What turn taking gives whoever implements it.  FilesLease does          *)
(* (FilesLeaseProofs!LeasesAreTurns), so it holds of its leases.           *)
(***************************************************************************)
EXTENDS WorkspaceTurns, TLAPS

OneTurnInv == DOMAIN turn = Sources /\ OneTurn

LEMMA OneTurnNext == OneTurnInv /\ [Next]_vars => OneTurnInv'
<1> SUFFICES ASSUME OneTurnInv, [Next]_vars PROVE OneTurnInv'
  OBVIOUS
<1> USE DEF OneTurnInv, OneTurn
<1>1. ASSUME NEW w \in Workers, NEW s \in Sources, Take(w, s) PROVE OneTurnInv'
  <2>1. \A t \in Sources : turn'[t] = IF t = s THEN w ELSE turn[t]
    BY <1>1 DEF Take
  <2>2. \A t \in Sources : Org[t] = Org[s] => turn[t] = Nobody
    BY <1>1 DEF Take, Idle
  <2> QED
    BY <1>1, <2>1, <2>2 DEF Take
<1>2. ASSUME NEW S \in SUBSET Sources, GiveUp(S) PROVE OneTurnInv'
  BY <1>2 DEF GiveUp
<1>3. ASSUME NEW s \in Sources, Ask(s) \/ Withdraw(s) PROVE OneTurnInv'
  BY <1>3 DEF Ask, Withdraw
<1>4. CASE UNCHANGED vars
  BY <1>4 DEF vars
<1> QED
  BY <1>1, <1>2, <1>3, <1>4 DEF Next

\* Two sources of a workspace never have their turn at once, whatever workers
\* do and however their turns end.
THEOREM TurnsExclude == Spec => []OneTurn
<1>1. Init => OneTurnInv
  BY DEF Init, OneTurnInv, OneTurn
<1>2. OneTurnInv => OneTurn
  BY DEF OneTurnInv
<1> QED
  BY <1>1, <1>2, OneTurnNext, PTL DEF Spec
=============================================================================
