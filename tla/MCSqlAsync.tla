---------------------------- MODULE MCSqlAsync ----------------------------
(* Model values and sets for the runs of SqlAsync. *)
EXTENDS SqlAsync, TLC

CONSTANTS world, map

BothThreads == {world, map}
WorldThread == {world}

\* No request and no property tells the threads apart.
ThreadSymmetry == Permutations(BothThreads)

\* Requests without serial id and those of the character with low guid 1, which two
\* workers queue at worker 1.
OneCharacter == {0, 1}
=============================================================================
