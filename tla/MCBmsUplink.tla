---------------------------- MODULE MCBmsUplink ----------------------------
(* Values of the constants of BmsUplink for TLC: a ring smaller than the   *)
(* number of samples, cell counts outside and inside the normalized range, *)
(* and times that step back and jump past the largest offset.              *)
EXTENDS BmsUplink

MCSnapshot == {[cellCount |-> 1, ts |-> 0], [cellCount |-> 2, ts |-> 2],
               [cellCount |-> -1, ts |-> 5]}
MCSample == [cellCount : 0..MAX_CELLS, ts : {s.ts : s \in Snapshot}]
=============================================================================
