------------------------------ MODULE MCSafeUndo ------------------------------
(* A small instance of SafeUndo: who changes what.                           *)
EXTENDS SafeUndo

CONSTANTS j1, r1, r2, f1

\* One job changes a record and then a text, the others the same field of the record.
Mixed == [j \in Jobs |->
    <<[res |-> r1, fields |-> {f1}]>> \o
    IF j = j1 THEN <<[res |-> r2, fields |-> {f1}]>> ELSE <<>>]
=============================================================================
