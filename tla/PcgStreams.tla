----------------------------- MODULE PcgStreams -----------------------------
(***************************************************************************)
(* What the parallel generator of src/core/utils/pcgUtils promises its     *)
(* concurrent callers: every slot is one stream of states, each following  *)
(* from the one before, and every state of a stream goes to one call.      *)
(***************************************************************************)
EXTENDS Integers, Sequences

CONSTANTS
  Threads,     \* the callers
  Slots,       \* the independent states (8 in the code)
  WordSize,    \* the number of words (2^64 in the code)
  Multiplier,  \* mul
  Increment,   \* parInc: of each slot
  Seed         \* the state of each slot that NewParallel sets

ASSUME WordAssumption ==
  /\ Slots # {}
  /\ WordSize \in Nat \ {0}
  /\ Multiplier \in Nat
  /\ Increment \in [Slots -> Nat]
  /\ Seed \in [Slots -> 0..(WordSize - 1)]

VARIABLES
  state,   \* the state of each slot
  handed,  \* the states of each slot that calls took, in order
  drawn    \* the last state that each caller took, with its slot

Word == 0..(WordSize - 1)
NotDrawn == <<>>

(* orig*mul + parInc[index], in the arithmetic of a word *)
Advance(slot, orig) == (orig * Multiplier + Increment[slot]) % WordSize

Init ==
  /\ state = Seed
  /\ handed = [slot \in Slots |-> <<>>]
  /\ drawn = [t \in Threads |-> NotDrawn]

Take(t, slot) ==
  LET next == Advance(slot, state[slot])
  IN  /\ state' = [state EXCEPT ![slot] = next]
      /\ handed' = [handed EXCEPT ![slot] = Append(@, next)]
      /\ drawn' = [drawn EXCEPT ![t] = <<slot, next>>]

Next == \E t \in Threads, slot \in Slots : Take(t, slot)

Spec == Init /\ [][Next]_<<state, handed, drawn>>

=============================================================================
