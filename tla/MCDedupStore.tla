--------------------------- MODULE MCDedupStore ---------------------------
(***************************************************************************)
(* DedupStore with two goroutines and bodies that repeat a chunk, share a  *)
(* chunk with each other, have the same digest with another length, and    *)
(* have no chunk at all.                                                   *)
(***************************************************************************)
EXTENDS DedupStore, TLC

CONSTANTS g1, g2
MCGoroutines == {g1, g2}

A == [digest |-> "a", length |-> 2]
B == [digest |-> "b", length |-> 3]
C == [digest |-> "a", length |-> 1]

MCBodies ==
  {[bytes |-> 0, chunks |-> <<>>, ends |-> (0 :> 0)],
   [bytes |-> 7, chunks |-> <<A, B, A>>, ends |-> (0 :> 0) @@ (1 :> 2) @@ (2 :> 5) @@ (3 :> 7)],
   [bytes |-> 3, chunks |-> <<A, C>>, ends |-> (0 :> 0) @@ (1 :> 2) @@ (2 :> 3)]}

=============================================================================
