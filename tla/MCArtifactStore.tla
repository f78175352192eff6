-------------------------- MODULE MCArtifactStore --------------------------
(* Instances of ArtifactStore: two traces whose hashes begin alike, and a   *)
(* manifest.                                                                *)
EXTENDS ArtifactStore, TLC

CONSTANTS b1, b2, b3

TracesAndManifest == [b \in Blob |-> IF b = b3 THEN "run-manifest" ELSE "trace"]
Colliding         == [b \in Blob |-> IF b = b2 THEN b1 ELSE b]
Symmetry          == Permutations(Process) \cup Permutations(Investigation)
=============================================================================
