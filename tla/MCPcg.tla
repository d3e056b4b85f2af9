------------------------------- MODULE MCPcg -------------------------------
(***************************************************************************)
(* A program that uses one generator of pcgUtils.  Either the parallel one *)
(* with several threads, over two slots of 3-bit words: one slot returns   *)
(* to a word after two steps, so that a swap may succeed on a word that    *)
(* has been replaced and restored.  Or a T with 4-bit outputs of an 8-bit  *)
(* state: every state and every bound.                                     *)
(***************************************************************************)
EXTENDS PcgParallel, PcgNumbers, TLC

VARIABLE used  \* the generator

MCIncrement == (0 :> 4) @@ (1 :> 3)
MCSeed == (0 :> 2) @@ (1 :> 3)

MCInit ==
  /\ used \in {"PT", "T"}
  /\ ParInit
  /\ TInit
  /\ used = "PT" => word = 0

MCNext ==
  \/ used = "PT" /\ ParNext /\ UNCHANGED <<used, numberVars>>
  \/ used = "T" /\ TNext /\ UNCHANGED <<used, vars>>

MCSpec ==
  /\ MCInit /\ [][MCNext]_<<vars, used, numberVars>>
  /\ \A t \in Threads : WF_vars(Step(t))

=============================================================================
