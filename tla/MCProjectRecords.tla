---------------------------- MODULE MCProjectRecords ----------------------------
(* Instances of ProjectRecords. *)
EXTENDS ProjectRecords

MCKindOf == [f \in Files |-> IF f = "call.ogg" THEN "audio" ELSE IF f = "logo.png" THEN "image" ELSE "document"]
Symmetry == Permutations(Memories)
=================================================================================
