----------------------------- MODULE MCKbAuthz -----------------------------
(* Model values for the checks of KbAuthz: one legacy token, issued by the *)
(* key of a person for the agent of a service.                             *)
EXTENDS KbAuthz, TLC

CONSTANTS p1, p2, s1, ops, b1, t1, t2

MCKeyOf   == [t \in Legacy |-> p1]
MCAgentOf == [t \in Legacy |-> s1]
MCScopeOf == [t \in Legacy |-> Banks]
=============================================================================
