-------------------------- MODULE MCArtifactCache --------------------------
(* Three artifacts, one of them too big for a writer, on a quota of two. *)
EXTENDS ArtifactCache, TLC

CONSTANTS a1, a2, a3

MCArtifacts == {a1, a2, a3}

MCSizeOf == a1 :> 1 @@ a2 :> 2 @@ a3 :> 3

\* Workers, and temporary names, are interchangeable.
Symmetry == Permutations(Writers) \cup Permutations(Temporaries)
=============================================================================
