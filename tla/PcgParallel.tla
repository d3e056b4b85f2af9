----------------------------- MODULE PcgParallel -----------------------------
(***************************************************************************)
(* PT of src/core/utils/pcgUtils: callers on several threads advance the   *)
(* slots by compare and swap.  A call draws one state (Uint32, Float32) or *)
(* two (Uint64, Float64), each with its own loop of next; GetTid, a        *)
(* sync.Pool of counters, may answer any number, so any slot may be        *)
(* picked, and another one after a failed swap.                            *)
(***************************************************************************)
EXTENDS PcgStreams

CONSTANT MaxCalls  \* bound: the calls that one thread makes

ASSUME CallsAssumption == MaxCalls \in Nat

VARIABLES
  pc,     \* where each thread is in its call
  left,   \* the states its call has yet to draw
  calls,  \* the calls it has made
  index,  \* its slot
  orig    \* the state it loaded

threadVars == <<pc, left, calls, index, orig>>
vars == <<state, handed, drawn, threadVars>>

ParInit ==
  /\ Init
  /\ pc = [t \in Threads |-> "idle"]
  /\ left = [t \in Threads |-> 0]
  /\ calls = [t \in Threads |-> 0]
  /\ index = [t \in Threads |-> CHOOSE slot \in Slots : TRUE]
  /\ orig = [t \in Threads |-> 0]

-----------------------------------------------------------------------------
Call(t, draws) ==
  /\ pc[t] = "idle"
  /\ calls[t] < MaxCalls
  /\ pc' = [pc EXCEPT ![t] = "load"]
  /\ left' = [left EXCEPT ![t] = draws]
  /\ calls' = [calls EXCEPT ![t] = @ + 1]
  /\ UNCHANGED <<state, handed, drawn, index, orig>>

(* GetTid() & 7, and the atomic load of that slot. *)
Load(t, slot) ==
  /\ pc[t] = "load"
  /\ pc' = [pc EXCEPT ![t] = "swap"]
  /\ index' = [index EXCEPT ![t] = slot]
  /\ orig' = [orig EXCEPT ![t] = state[slot]]
  /\ UNCHANGED <<state, handed, drawn, left, calls>>

(* Mutation of SwapSucceeds: next returns the word it replaced. *)
SwapReturnsOrig(t) ==
  LET slot == index[t]
      next == Advance(slot, orig[t])
  IN  /\ pc[t] = "swap"
      /\ state[slot] = orig[t]
      /\ state' = [state EXCEPT ![slot] = next]
      /\ handed' = [handed EXCEPT ![slot] = Append(@, next)]
      /\ drawn' = [drawn EXCEPT ![t] = <<slot, orig[t]>>]
      /\ left' = [left EXCEPT ![t] = @ - 1]
      /\ pc' = [pc EXCEPT ![t] = IF left[t] > 1 THEN "load" ELSE "idle"]
      /\ UNCHANGED <<calls, index, orig>>

(* Mutation of SwapSucceeds: the state is stored, not swapped. *)
StoreAlways(t) ==
  LET slot == index[t]
      next == Advance(slot, orig[t])
  IN  /\ pc[t] = "swap"
      /\ state' = [state EXCEPT ![slot] = next]
      /\ handed' = [handed EXCEPT ![slot] = Append(@, next)]
      /\ drawn' = [drawn EXCEPT ![t] = <<slot, next>>]
      /\ left' = [left EXCEPT ![t] = @ - 1]
      /\ pc' = [pc EXCEPT ![t] = IF left[t] > 1 THEN "load" ELSE "idle"]
      /\ UNCHANGED <<calls, index, orig>>

(* The compare and swap: the slot still holds the word that was loaded, if *)
(* only again, and next returns.                                           *)
SwapSucceeds(t) ==
  LET slot == index[t]
      next == Advance(slot, orig[t])
  IN  /\ pc[t] = "swap"
      /\ state[slot] = orig[t]
      /\ state' = [state EXCEPT ![slot] = next]
      /\ handed' = [handed EXCEPT ![slot] = Append(@, next)]
      /\ drawn' = [drawn EXCEPT ![t] = <<slot, next>>]
      /\ left' = [left EXCEPT ![t] = @ - 1]
      /\ pc' = [pc EXCEPT ![t] = IF left[t] > 1 THEN "load" ELSE "idle"]
      /\ UNCHANGED <<calls, index, orig>>

(* Mutation of SwapFails: the swap is tried again with the same word. *)
SwapSpins(t) ==
  /\ pc[t] = "swap"
  /\ state[index[t]] # orig[t]
  /\ UNCHANGED vars

SwapFails(t) ==
  /\ pc[t] = "swap"
  /\ state[index[t]] # orig[t]
  /\ pc' = [pc EXCEPT ![t] = "load"]
  /\ UNCHANGED <<state, handed, drawn, left, calls, index, orig>>

Step(t) == (\E slot \in Slots : Load(t, slot)) \/ SwapSucceeds(t) \/ SwapFails(t)

ParNext ==
  \/ \E t \in Threads : Step(t) \/ \E draws \in 1..2 : Call(t, draws)
  \/ /\ \A t \in Threads : pc[t] = "idle" /\ calls[t] = MaxCalls
     /\ UNCHANGED vars

ParSpec == ParInit /\ [][ParNext]_vars

(* Every thread inside a call is scheduled. *)
FairSpec == ParSpec /\ \A t \in Threads : WF_vars(Step(t))

-----------------------------------------------------------------------------
(* The type of the state. *)
TypeOK ==
  /\ state \in [Slots -> Word]
  /\ handed \in [Slots -> Seq(Word)]
  /\ drawn \in [Threads -> {NotDrawn} \union (Slots \X Word)]
  /\ pc \in [Threads -> {"idle", "load", "swap"}]
  /\ left \in [Threads -> 0..2]
  /\ calls \in [Threads -> 0..MaxCalls]
  /\ index \in [Threads -> Slots]
  /\ orig \in [Threads -> Word]

(* No update of a slot is lost and none is handed out twice, however many  *)
(* threads are between their load and their swap, and even if the slot     *)
(* came back to the word that one of them loaded: the states that the      *)
(* calls took from a slot are the stream that one caller would see.        *)
StreamUnbroken ==
  \A slot \in Slots :
    LET before(i) == IF i = 1 THEN Seed[slot] ELSE handed[slot][i - 1]
    IN  /\ \A i \in 1..Len(handed[slot]) : handed[slot][i] = Advance(slot, before(i))
        /\ state[slot] = before(Len(handed[slot]) + 1)

(* The generator implements the streams: every draw takes effect in one    *)
(* step, its successful swap.                                              *)
Streams == INSTANCE PcgStreams
ImplementsStreams == Streams!Spec

(* A call returns as long as the other threads make finitely many: a swap  *)
(* fails only because another one succeeded.                               *)
EveryCallReturns == \A t \in Threads : pc[t] # "idle" ~> pc[t] = "idle"

=============================================================================
