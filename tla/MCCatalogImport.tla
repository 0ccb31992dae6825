---------------------------- MODULE MCCatalogImport ----------------------------
(* Constant values for the runs of CatalogImport. *)
EXTENDS CatalogImport

CONSTANTS i1, i2, i3

OneOfEach == [i \in Imports |-> IF i = i1 THEN "attacks" ELSE "remediations"]

Stored(n) == [good |-> n, bad |-> 0]
Mixed == [good |-> 1, bad |-> 1]

\* Full chunks, a chunk of which one row is refused, and a short last one.
Sheets == [i \in Imports |-> CASE i = i1 -> <<Stored(2), Mixed>>
                               [] i = i2 -> <<Mixed, Stored(1)>>
                               [] i = i3 -> <<Stored(1)>>]
=============================================================================
