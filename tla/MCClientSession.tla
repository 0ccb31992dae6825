-------------------------- MODULE MCClientSession --------------------------
(* WebSession and RemediationPanel for TLC. They have no state in common, so
   their product would show nothing that one of them does not: a behaviour is
   about one of them, and the other stays as it began.                      *)
EXTENDS WebSession, RemediationPanel, TLC

VARIABLE part   \* what the behaviour is about

\* Two pages of one finding; the first text of the second is not syntax_valid.
TwoPages == <<{1}, {2}>>
AllButFirst == {<<1, 1>>, <<1, 2>>, <<2, 2>>}

Symmetry == Permutations(Users)

Init ==
    /\ part \in {"session", "panel"}
    /\ SessionInit
    /\ PanelInit /\ (part # "panel" => kept = {})
Next ==
    \/ part = "session" /\ SessionNext /\ UNCHANGED <<part, panelVars>>
    \/ part = "panel" /\ PanelNext /\ UNCHANGED <<part, sessionVars>>
Spec == Init /\ [][Next]_<<part, sessionVars, panelVars>>
-----------------------------------------------------------------------------
\* The states of both modules are well formed.
TypeOK == SessionTypeOK /\ PanelTypeOK
=============================================================================
