-------------------------- MODULE GrantRevocation --------------------------
(***************************************************************************)
(* What the access ledger promises about revocation, without its files:    *)
(* each grant is open, closing or closed, in that order and for ever, and  *)
(* only an open grant may be admitted to queries.  The header of           *)
(* scripts/cwk_access_ledger.py puts it as "revocation is crash-safe and   *)
(* cannot be resurrected".                                                 *)
(***************************************************************************)
CONSTANT Grants

VARIABLES phase,     \* the phase of each grant
          admitted   \* the grants a query may be answered from

vars == <<phase, admitted>>

TypeOK == /\ phase \in [Grants -> {"open", "closing", "closed"}]
          /\ admitted \subseteq Grants

Init == /\ phase = [g \in Grants |-> "open"]
        /\ admitted = {}

\* The authority's word admits one open grant.
Admit(g) == /\ phase[g] = "open"
            /\ admitted' = admitted \cup {g}
            /\ UNCHANGED phase

\* Any number of grants may lapse at once: a lease, an epoch.
Lapse(S) == /\ admitted' = admitted \ S
            /\ UNCHANGED phase

\* Revocation takes effect the moment it is begun.
Begin(g) == /\ phase[g] = "open"
            /\ phase' = [phase EXCEPT ![g] = "closing"]
            /\ admitted' = admitted \ {g}

Close(g) == /\ phase[g] = "closing"
            /\ phase' = [phase EXCEPT ![g] = "closed"]
            /\ UNCHANGED admitted

Next == \/ \E g \in Grants : Admit(g) \/ Begin(g) \/ Close(g)
        \/ \E S \in SUBSET Grants : Lapse(S)

Spec == Init /\ [][Next]_vars

\* A revocation that is begun is closed in the end.
FairSpec == Spec /\ \A g \in Grants : WF_vars(Close(g))
=============================================================================
