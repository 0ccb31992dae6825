--------------------------- MODULE MCClientLists ---------------------------
(* ListPages, ResultsPage and CoverPicker for TLC. They have no state in
   common, so their product would show nothing that one of them does not: a
   behaviour is about one of them, and the others stay as they began.       *)
EXTENDS ListPages, ResultsPage, CoverPicker, TLC

VARIABLE part   \* what the behaviour is about

\* Uploads, files and stock images are told apart by nothing but their name.
Symmetry == Permutations(Uploads) \union Permutations(Pictures) \union Permutations(Images)

Init ==
    /\ part \in {"lists", "results", "cover"}
    /\ ListInit /\ (part # "lists" => list = "cards" /\ stored = {})
    /\ ResultsInit
    /\ CoverInit /\ (part # "cover" => kind = "modal")
Next ==
    \/ part = "lists" /\ ListNext /\ UNCHANGED <<part, resultsVars, coverVars>>
    \/ part = "results" /\ ResultsNext /\ UNCHANGED <<part, listVars, coverVars>>
    \/ part = "cover" /\ CoverNext /\ UNCHANGED <<part, listVars, resultsVars>>
Spec == Init /\ [][Next]_<<part, listVars, resultsVars, coverVars>>
-----------------------------------------------------------------------------
\* The states of the three modules are well formed.
TypeOK == ListTypeOK /\ ResultsTypeOK /\ CoverTypeOK
\* No filter, and no other tab of the page, leaves a list on a page past its
\* end: a page shown as empty has lost its items meanwhile.
PagesExist == FilterFromTheStart /\ NoEmptyPage
=============================================================================
