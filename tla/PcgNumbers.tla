----------------------------- MODULE PcgNumbers -----------------------------
(***************************************************************************)
(* The numbers that src/core/utils/pcgUtils makes of generator states.     *)
(* The package functions, the methods of PT and those of the sequential T  *)
(* repeat one another: the operators below are those of the package        *)
(* functions, the actions the methods of T.                                *)
(* The widths are parameters: an output of OutBits bits (32 in the code)   *)
(* comes from a state of twice as many, with the shifts of the PCG family  *)
(* for these widths.                                                       *)
(***************************************************************************)
EXTENDS Integers, FiniteSets

CONSTANTS
  OutBits,      \* bits of an output (32)
  XorShift,     \* the shift before the exclusive or (18)
  DropBits,     \* the low bits of the state that are dropped (27)
  RotateShift,  \* where the bits that select the rotation begin (59)
  Fraction64,   \* bits of the fraction of a float64 (53)
  Fraction32,   \* bits of the fraction of a float32 (24)
  mul, inc      \* the constants of the generator

(* What an output drops and keeps lies below the bits of the rotation      *)
(* (27 + 32 = 59, of 64).                                                  *)
ASSUME WidthAssumption ==
  /\ {OutBits, XorShift, DropBits, RotateShift, Fraction64, Fraction32, mul, inc} \subseteq Nat
  /\ OutBits > 0 /\ XorShift > 0
  /\ RotateShift = DropBits + OutBits /\ DropBits <= OutBits
  /\ Fraction64 <= 2 * OutBits /\ Fraction32 <= OutBits

VARIABLES
  word,    \* T.state
  n,       \* the bound of the Uint32n in progress, or 0
  answer   \* the last call that returned: operation, bound and value

numberVars == <<word, n, answer>>

-----------------------------------------------------------------------------
Pow2[k \in Nat] == IF k = 0 THEN 1 ELSE 2 * Pow2[k - 1]

StateWord == 0..(Pow2[2 * OutBits] - 1)
OutWord   == 0..(Pow2[OutBits] - 1)

Bit(w, i) == (w \div Pow2[i]) % 2

(* The number with these bits, the least significant one first. *)
WordOf(bits, len) ==
  LET high[k \in 0..len] == IF k = 0 THEN 0 ELSE bits[len - k] + 2 * high[k - 1]
  IN  high[len]

(* a ^ b of states and a | b of outputs. *)
Xor(a, b) == WordOf([i \in 0..(2 * OutBits - 1) |-> (Bit(a, i) + Bit(b, i)) % 2], 2 * OutBits)
Or(a, b)  == WordOf([i \in 0..(OutBits - 1) |-> IF Bit(a, i) = 1 THEN 1 ELSE Bit(b, i)], OutBits)

-----------------------------------------------------------------------------
NextState(s) == (s * mul + inc) % Pow2[2 * OutBits]

(* Uint32: xor>>shift | xor<<(32-shift); a shift by the width gives 0. *)
Output(s) ==
  LET xor == (Xor(s \div Pow2[XorShift], s) \div Pow2[DropBits]) % Pow2[OutBits]
      shift == (s \div Pow2[RotateShift]) % OutBits
  IN  Or(xor \div Pow2[shift], (xor * Pow2[OutBits - shift]) % Pow2[OutBits])

(* Mutation of Threshold: one subtraction is taken for the remainder. *)
ThresholdOnce(bound) ==
  LET t == (Pow2[OutBits] - bound) % Pow2[OutBits] IN IF t >= bound THEN t - bound ELSE t

(* Uint32n: -n modulo n, by at most two subtractions where they suffice. *)
Threshold(bound) ==
  LET t == (Pow2[OutBits] - bound) % Pow2[OutBits]
  IN  IF t < bound THEN t
      ELSE IF t - bound < bound THEN t - bound ELSE (t - bound) % bound

(* The low word of x times n decides whether x is drawn again, the high    *)
(* word is the number.                                                     *)
Accepts(bound, x) ==
  LET l == (x * bound) % Pow2[OutBits] IN ~(l < bound /\ l < Threshold(bound))
Scaled(bound, x) == (x * bound) \div Pow2[OutBits]

(* The numerators of the fractions that Float32 and Float64 return. *)
Float32Of(x) == x \div Pow2[OutBits - Fraction32]
Float64Of(x1, x2) == Or(x1, x2) \div Pow2[2 * OutBits - Fraction64]

-----------------------------------------------------------------------------
TInit == word \in StateWord /\ n = 0 /\ answer = [op |-> "New", n |-> 0, value |-> 0]

Return(op, bound, value) == answer' = [op |-> op, n |-> bound, value |-> value]

Uint32 ==
  /\ n = 0
  /\ word' = NextState(word)
  /\ Return("Uint32", 0, Output(word'))
  /\ n' = n

Uint32nZero ==
  /\ n = 0
  /\ Return("Uint32n", 0, 0)
  /\ UNCHANGED <<word, n>>

Uint32n(bound) ==
  /\ n = 0
  /\ n' = bound
  /\ UNCHANGED <<word, answer>>

(* One round of its loop. *)
DrawAgain ==
  /\ n # 0
  /\ word' = NextState(word)
  /\ ~Accepts(n, Output(word'))
  /\ UNCHANGED <<n, answer>>

DrawLast ==
  /\ n # 0
  /\ word' = NextState(word)
  /\ Accepts(n, Output(word'))
  /\ Return("Uint32n", n, Scaled(n, Output(word')))
  /\ n' = 0

Float32 ==
  /\ n = 0
  /\ word' = NextState(word)
  /\ Return("Float32", 0, Float32Of(Output(word')))
  /\ n' = n

Float64 ==
  LET state1 == NextState(word)
      state2 == NextState(state1)
  IN  /\ n = 0
      /\ word' = state2
      /\ Return("Float64", 0, Float64Of(Output(state1), Output(state2)))
      /\ n' = n

Uint64 ==
  LET state1 == NextState(word)
      state2 == NextState(state1)
  IN  /\ n = 0
      /\ word' = state2
      /\ Return("Uint64", 0, Output(state1) * Pow2[OutBits] + Output(state2))
      /\ n' = n

TNext == \/ Uint32 \/ Uint64 \/ Float32 \/ Float64
        \/ Uint32nZero \/ (\E bound \in OutWord \ {0} : Uint32n(bound))
        \/ DrawAgain \/ DrawLast

TSpec == TInit /\ [][TNext]_numberVars

-----------------------------------------------------------------------------
(* Over all states of the generator every output is equally likely: the    *)
(* shifts and the rotation of Uint32 lose none and favour none.            *)
OutputBalanced ==
  answer.op = "Uint32" =>
    Cardinality({s \in StateWord : Output(s) = answer.value}) = Pow2[OutBits]

(* Uint32n(n) is below n and without bias: of the words it may draw, it    *)
(* accepts equally many for each of the n numbers, and as many as          *)
(* possible, so that it draws less than twice on average.                  *)
Unbiased ==
  answer.op = "Uint32n" /\ answer.n # 0 =>
    /\ answer.value < answer.n
    /\ Cardinality({x \in OutWord : Accepts(answer.n, x) /\ Scaled(answer.n, x) = answer.value})
         = Pow2[OutBits] \div answer.n

(* Float32 is uniform in [0, 1): a fraction below 1, and each is made of   *)
(* equally many outputs.                                                   *)
Float32Uniform ==
  answer.op = "Float32" =>
    /\ answer.value < Pow2[Fraction32]
    /\ Cardinality({x \in OutWord : Float32Of(x) = answer.value}) = Pow2[OutBits - Fraction32]

(* The numbers that a T gives are uniform: each value of an operation is   *)
(* made of equally many states or draws.                                   *)
NumbersUniform == OutputBalanced /\ Unbiased /\ Float32Uniform

(* Float64 is uniform in [0, 1): a fraction below 1, and each is made of   *)
(* equally many pairs of outputs.                                          *)
Float64Uniform ==
  answer.op = "Float64" =>
    /\ answer.value < Pow2[Fraction64]
    /\ Cardinality({x \in OutWord \X OutWord : Float64Of(x[1], x[2]) = answer.value})
         = Pow2[2 * OutBits - Fraction64]

=============================================================================
