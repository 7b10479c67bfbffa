----------------------------- MODULE MCMissedRuns -----------------------------
(* Small instances of MissedRuns.                                             *)
EXTENDS MissedRuns, TLC

Identities == Permutations(Crons) \cup Permutations(OneShots) \cup Permutations(Threads)
=============================================================================
