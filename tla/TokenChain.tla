----------------------------- MODULE TokenChain -----------------------------
(***************************************************************************)
(* What the renewals of a rotating refresh token promise, without          *)
(* processes, locks, transactions and faults (the comments of              *)
(* oauth2-token.service.ts:272-277, 291-295, 340-343): a token obtained    *)
(* for an authorization is stored once, or lost, before the next one of    *)
(* it is obtained.  TokenRefresh implements it.                            *)
(***************************************************************************)
EXTENDS Integers

CONSTANT Token  \* records of an authorization, fam, and its rotations, gen

VARIABLES
    stored,     \* the token of the connector
    heirs       \* tokens obtained that are still to be stored

vars == <<stored, heirs>>

Init ==
    /\ stored \in Token
    /\ heirs = {}

NoHeirOf(f)   == \A h \in heirs : h.fam # f
Behind(s, t)  == s.fam = t.fam => s.gen < t.gen

\* A rotation, also one of an authorization that has been replaced.
Obtain(t) ==
    /\ UNCHANGED stored
    /\ Behind(stored, t) /\ NoHeirOf(t.fam)
    /\ heirs' = heirs \cup {t}

Store(t) ==
    /\ stored' = t
    /\ heirs' = heirs \ {t}

\* The process that obtained it dies, or its last attempt to store it fails.
Lose(t) ==
    /\ heirs' = heirs \ {t}
    /\ UNCHANGED stored

\* A new authorization by an administrator.
Authorize(t) ==
    /\ stored' = t
    /\ t.fam # stored.fam /\ NoHeirOf(t.fam)
    /\ UNCHANGED heirs

Next ==
    \/ \E t \in Token : Obtain(t) \/ Authorize(t)
    \/ \E t \in heirs : Store(t) \/ Lose(t)

Spec == Init /\ [][Next]_vars
=============================================================================
