---------------------------- MODULE MCJkModbus ----------------------------
(* Values of the constants of JkModbus for TLC: the blocks of a short      *)
(* round, one of them optional, and of one with two of one length.         *)
EXTENDS JkModbus

Block(n, needed) == [num |-> n, required |-> needed]
MCReads == <<Block(2, TRUE), Block(1, FALSE), Block(1, TRUE)>>
MCShortReads == <<Block(2, TRUE), Block(1, FALSE)>>
=============================================================================
