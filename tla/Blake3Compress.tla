-------------------------- MODULE Blake3Compress --------------------------
(***************************************************************************)
(* The BLAKE3 compression function and the hash of an input of at most one *)
(* chunk: rcompress and g of compressPure/helpers.go, driven by            *)
(* compressAll (blake3/helpers.go) over the blocks of the input, and by    *)
(* fillBuf (blake3/methods_digest.go) over the blocks of the output.       *)
(*                                                                         *)
(* The code writes the 56 calls of g out by hand, over sixteen local       *)
(* variables and with the message order of each round as literals.  A call *)
(* is a step here.  A word of 32 bits is a pair of halves <<high, low>>,   *)
(* because TLC's own integers have a sign in the 32nd bit.                 *)
(***************************************************************************)
EXTENDS Integers, Sequences, SequencesExt, Bitwise

CONSTANTS
    Vectors,        \* records [input, key, context, output]: the bytes of an
                    \* input, those of a key or <<>>, those of a context for
                    \* key derivation or <<>>, the halves of the output words
    OutputBlocks    \* blocks of output read from every digest

ASSUME VectorsAssumption ==
    /\ OutputBlocks \in Nat \ {0}
    /\ \A v \in Vectors :
          /\ Len(v.input) <= 1024 /\ Len(v.context) <= 1024
          /\ Len(v.key) \in {0, 32}

VARIABLES
    vector,   \* the vector that is computed
    deriving, \* the context of a key derivation is being hashed
    rest,     \* the input compressAll has not compressed yet
    chain,    \* digest.chain
    flags,    \* digest.flags
    counter,  \* digest.counter
    m,        \* the block being compressed, as words
    blen,     \* its length in bytes
    s,        \* the sixteen words of rcompress
    calls,    \* calls of g done on them
    output    \* the halves of the words read from the digest so far

vars == <<vector, deriving, rest, chain, flags, counter, m, blen, s, calls, output>>

----------------------------------------------------------------------------
(* Words                                                                   *)

BlockLen == 64
ChunkStart == 1
ChunkEnd == 2
Root == 8
Keyed == 16
DeriveKeyContext == 32
DeriveKeyMaterial == 64

IV == << <<\h6A09, \hE667>>, <<\hBB67, \hAE85>>, <<\h3C6E, \hF372>>, <<\hA54F, \hF53A>>,
         <<\h510E, \h527F>>, <<\h9B05, \h688C>>, <<\h1F83, \hD9AB>>, <<\h5BE0, \hCD19>> >>

Small(n) == <<0, n>>

Plus(x, y) ==
    LET low == x[2] + y[2]
    IN  <<(x[1] + y[1] + (low \div 65536)) % 65536, low % 65536>>

XorWords(x, y) == <<x[1] ^^ y[1], x[2] ^^ y[2]>>

\* bits.RotateLeft32(x, -n), for n from 1 to 16.
RotateRight(x, n) ==
    <<(x[1] \div 2^n) + (x[2] % 2^n) * 2^(16 - n),
      (x[2] \div 2^n) + (x[1] % 2^n) * 2^(16 - n)>>

\* BytesToWords and KeyFromBytes: little endian.
BytesToWords(bytes) ==
    [i \in 1 .. Len(bytes) \div 4 |->
        <<bytes[4 * i] * 256 + bytes[4 * i - 1], bytes[4 * i - 2] * 256 + bytes[4 * i - 3]>>]

Padded(bytes) == [i \in 1 .. BlockLen |-> IF i <= Len(bytes) THEN bytes[i] ELSE 0]

----------------------------------------------------------------------------
(* The compression function                                                *)

\* The four words of a call of g, and the order of the message words by round.
Lanes == << <<1, 5, 9, 13>>, <<2, 6, 10, 14>>, <<3, 7, 11, 15>>, <<4, 8, 12, 16>>,
            <<1, 6, 11, 16>>, <<2, 7, 12, 13>>, <<3, 8, 9, 14>>, <<4, 5, 10, 15>> >>

Schedule ==
    << <<0, 1, 2, 3, 4, 5, 6, 7, 8, 9, 10, 11, 12, 13, 14, 15>>,
       <<2, 6, 3, 10, 7, 0, 4, 13, 1, 11, 12, 5, 9, 14, 15, 8>>,
       <<3, 4, 10, 12, 13, 2, 7, 14, 6, 5, 9, 0, 11, 15, 8, 1>>,
       <<10, 7, 12, 9, 14, 3, 13, 15, 4, 0, 11, 2, 5, 8, 1, 6>>,
       <<12, 13, 9, 11, 15, 10, 14, 8, 7, 2, 5, 3, 0, 1, 6, 4>>,
       <<9, 14, 11, 5, 8, 12, 15, 1, 13, 3, 0, 10, 2, 6, 4, 7>>,
       <<11, 15, 5, 0, 1, 9, 8, 6, 14, 10, 2, 12, 3, 4, 7, 13>> >>

GCalls == 56
Lane(n) == Lanes[(n % 8) + 1]
\* The two message words of call n, counted from 0.
Mx(n) == m[Schedule[(n \div 8) + 1][2 * (n % 8) + 1] + 1]
My(n) == m[Schedule[(n \div 8) + 1][2 * (n % 8) + 2] + 1]

\* g: the new values of the words a, b, c, d.
G(a, b, c, d, mx, my) ==
    LET a1 == Plus(a, Plus(b, mx))
        d1 == RotateRight(XorWords(d, a1), 16)
        c1 == Plus(c, d1)
        b1 == RotateRight(XorWords(b, c1), 12)
        a2 == Plus(a1, Plus(b1, my))
        d2 == RotateRight(XorWords(d1, a2), 8)
        c2 == Plus(c1, d2)
    IN  <<a2, RotateRight(XorWords(b1, c2), 7), c2, d2>>

\* The head of Compress: the words of a block's state.
StateOf(ch, cnt, len, fl) ==
    ch \o SubSeq(IV, 1, 4) \o <<Small(cnt), Small(0), Small(len), Small(fl)>>

\* Mutation of FeedForward: the lower half takes the stored upper half.
FeedForwardStored(st, ch) ==
    LET upper == [i \in 1 .. 8 |-> XorWords(st[i + 8], ch[i])]
    IN  [i \in 1 .. 8 |-> XorWords(st[i], upper[i])] \o upper

\* The tail of rcompress: the upper half of the state takes the old chain in,
\* and the lower half the upper locals as they were before that.
FeedForward(st, ch) ==
    [i \in 1 .. 16 |-> IF i > 8 THEN XorWords(st[i], ch[i - 8]) ELSE XorWords(st[i], st[i + 8])]

----------------------------------------------------------------------------
(* compressAll and the digest                                              *)

\* New, NewKeyed, and NewDeriveKey with its context written.
Init ==
    /\ vector \in Vectors
    /\ deriving = (vector.context # <<>>)
    /\ rest = IF deriving THEN vector.context ELSE vector.input
    /\ chain = IF vector.key = <<>> THEN IV ELSE BytesToWords(vector.key)
    /\ flags = ChunkStart + (IF deriving THEN DeriveKeyContext
                             ELSE IF vector.key # <<>> THEN Keyed ELSE 0)
    /\ counter = 0
    /\ m = <<>> /\ blen = 0 /\ s = <<>> /\ calls = 0 /\ output = <<>>

Idle == s = <<>>

\* The loop of compressAll: a block that is not the last one.
StartBlock ==
    /\ Idle /\ Len(rest) > BlockLen
    /\ m' = BytesToWords(SubSeq(rest, 1, BlockLen))
    /\ blen' = BlockLen
    /\ s' = StateOf(chain, 0, BlockLen, flags)
    /\ UNCHANGED <<vector, deriving, rest, chain, flags, counter, calls, output>>

\* The tail of compressAll fills in the last block and its flags; fillBuf
\* compresses it once for every block of output.
LastFlags == flags + ChunkEnd + Root

StartOutput ==
    /\ Idle /\ Len(rest) <= BlockLen
    /\ counter < IF deriving THEN 1 ELSE OutputBlocks
    /\ m' = BytesToWords(Padded(rest))
    /\ blen' = Len(rest)
    /\ s' = StateOf(chain, counter, Len(rest), LastFlags)
    /\ UNCHANGED <<vector, deriving, rest, chain, flags, counter, calls, output>>

\* One call of g.
CallG ==
    /\ ~Idle /\ calls < GCalls
    /\ LET lane == Lane(calls)
           new == G(s[lane[1]], s[lane[2]], s[lane[3]], s[lane[4]], Mx(calls), My(calls))
       IN  s' = [i \in 1 .. 16 |->
                    IF \E k \in 1 .. 4 : lane[k] = i
                    THEN new[CHOOSE k \in 1 .. 4 : lane[k] = i]
                    ELSE s[i]]
    /\ calls' = calls + 1
    /\ UNCHANGED <<vector, deriving, rest, chain, flags, counter, m, blen, output>>

\* The compressed block becomes the chain and the next block is not a first.
EndBlock ==
    /\ ~Idle /\ calls = GCalls /\ Len(rest) > BlockLen
    /\ chain' = SubSeq(FeedForward(s, chain), 1, 8)
    /\ flags' = flags - (flags % 2)
    /\ rest' = SubSeq(rest, BlockLen + 1, Len(rest))
    /\ s' = <<>> /\ calls' = 0
    /\ UNCHANGED <<vector, deriving, counter, m, blen, output>>

\* fillBuf: the compressed block is output, and the counter moves on.
EndOutput ==
    /\ ~Idle /\ calls = GCalls /\ Len(rest) <= BlockLen
    /\ output' = output \o FlattenSeq(FeedForward(s, chain))
    /\ counter' = counter + 1
    /\ s' = <<>> /\ calls' = 0
    /\ UNCHANGED <<vector, deriving, rest, chain, flags, m, blen>>

\* The rest of NewDeriveKey: the first 32 bytes of the context's digest are the
\* key under which the input is hashed.
DeriveKey ==
    /\ Idle /\ deriving /\ counter = 1
    /\ deriving' = FALSE
    /\ rest' = vector.input
    /\ chain' = [i \in 1 .. 8 |-> <<output[2 * i - 1], output[2 * i]>>]
    /\ flags' = ChunkStart + DeriveKeyMaterial
    /\ counter' = 0 /\ output' = <<>>
    /\ UNCHANGED <<vector, m, blen, s, calls>>

Next == StartBlock \/ StartOutput \/ CallG \/ EndBlock \/ EndOutput \/ DeriveKey

Spec == Init /\ [][Next]_vars

----------------------------------------------------------------------------
(* Properties                                                              *)

\* Hashing, keyed hashing and key derivation give the bytes of the published
\* vectors (tests/blake3Tests/vectors_test.go), first block of output and second,
\* at the lengths where the block loop behaves differently: no input, one byte, a
\* last block that is not full, and a full chunk.
MatchesVectors == ~deriving => output = SubSeq(vector.output, 1, Len(output))

=============================================================================
