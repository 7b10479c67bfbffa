----------------------------- MODULE MCPythonPool -----------------------------
(* Small instances of PythonPool.                                             *)
EXTENDS PythonPool, TLC

Identities == Permutations(Runs)
=============================================================================
