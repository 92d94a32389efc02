------------------------------ MODULE MCPipeline ------------------------------
(* Small instances of Pipeline: two TIFF names that share a stem, and a     *)
(* name that is not a TIFF.                                                 *)
EXTENDS Pipeline, TLC

MCName == {"doc.tif", "doc.tiff", "notes.txt"}
MCTiff == {"doc.tif", "doc.tiff"}
MCStem == [n \in MCName |-> IF n \in MCTiff THEN "doc" ELSE "notes"]

Good == <<"doc.tif", "whole">>
Bad  == <<"doc.tif", "malformed">>
Twin == <<"doc.tiff", "whole">>

\* Requests of one good file.
OneFile == {<<Good>>}
\* One name twice in one request, the second time undecodable, and two names
\* with one stem.
Collisions == {<<Good, Bad>>, <<Good, Twin>>}
\* And what validation refuses.
Uploads == Collisions \cup {<<Good, <<"notes.txt", "whole">>>>, <<<<"doc.tif", "empty">>>>}

Fungible == Permutations(Request) \cup Permutations(Worker)
=============================================================================
