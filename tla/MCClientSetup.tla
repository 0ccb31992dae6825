--------------------------- MODULE MCClientSetup ---------------------------
(* GuidedSetup and SidebarSettings for TLC. They have no state in common, so
   their product would show nothing that one of them does not: a behaviour is
   about one of them, and the other stays as it began.                      *)
EXTENDS GuidedSetup, SidebarSettings, TLC

VARIABLE part   \* what the behaviour is about

\* Two projects; the second has a system, and a second one is created.
TwoProjects == {<<1, 0>>, <<2, 0>>, <<2, 1>>}
OneSystem == {<<2, 2>>}

Symmetry == Permutations(Projects) \union Permutations(Systems)

ClientInit ==
    /\ part \in {"setup", "sidebar"}
    /\ SetupInit /\ (part # "setup" => storable)
    /\ SidebarInit
ClientNext ==
    \/ part = "setup" /\ SetupNext /\ UNCHANGED <<part, sidebarVars>>
    \/ part = "sidebar" /\ SidebarNext /\ UNCHANGED <<part, setupVars>>
ClientSpec == ClientInit /\ [][ClientNext]_<<part, setupVars, sidebarVars>>
-----------------------------------------------------------------------------
\* The states of both modules are well formed; the sidebar's page is one it has.
TypeOK == SetupTypeOK /\ SidebarTypeOK
=============================================================================
