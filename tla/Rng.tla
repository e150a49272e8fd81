-------------------------------- MODULE Rng --------------------------------
(***************************************************************************)
(* The random generator of the ants (internal/simcore/rng.go) on words of  *)
(* Bits bits: SplitMix64, which derives seeds, xoshiro256**, which draws,  *)
(* and Lemire's bounded rejection on the upper half of a word.  The code   *)
(* has Bits = 64; the multipliers, shifts and rotations are parameters, so *)
(* that narrow words can be searched exhaustively and proofs hold of all.  *)
(***************************************************************************)
EXTENDS Integers, FiniteSets

CONSTANTS
  Bits,               \* 64
  Gamma, Mul1, Mul2,  \* 0x9E3779B97F4A7C15, 0xBF58476D1CE4E5B9, 0x94D049BB133111EB
  Mix1, Mix2, Mix3,   \* the shifts 30, 27, 31
  Shift, RotOut, RotS,\* the shift 17, the rotations 7 and 45
  XorOf               \* Go's ^ as a table: XorOf[x][y] is x ^ y

WordSize == 2 ^ Bits
Words == 0 .. WordSize - 1
HalfSize == 2 ^ (Bits \div 2)
Raw == 0 .. HalfSize - 1

\* The multipliers are odd, and a shift moves a word by some of its bits.
ASSUME RngAssumption ==
  /\ Bits \in Nat \ {0} /\ Bits % 2 = 0
  /\ \A m \in {Gamma, Mul1, Mul2} : m \in Words /\ m % 2 = 1
  /\ \A s \in {Mix1, Mix2, Mix3, Shift, RotOut, RotS} : s \in 1 .. Bits - 1

\* A second ^ with the same word undoes the first, and the bits do not mix.
ASSUME XorAssumption ==
  /\ XorOf \in [Words -> [Words -> Words]]
  /\ \A x, y \in Words :
       /\ XorOf[x][y] = XorOf[y][x] /\ XorOf[x][XorOf[x][y]] = y
       /\ XorOf[x][y] \div 2 = XorOf[x \div 2][y \div 2]

\* A power of two doubles with its exponent.
ASSUME BitsAssumption ==
  /\ 2 ^ 0 = 1
  /\ \A b \in 0 .. Bits : 2 ^ b \in Nat \ {0} /\ 2 ^ (b + 1) = 2 * 2 ^ b

Low(x) == x % WordSize
Rotl(x, k) == Low(x * 2 ^ k) + (x \div 2 ^ (Bits - k))

\* SplitMix64's output for the counter z.
Mixed(z) ==
  LET a == Low(XorOf[z][z \div 2 ^ Mix1] * Mul1)
      b == Low(XorOf[a][a \div 2 ^ Mix2] * Mul2)
  IN XorOf[b][b \div 2 ^ Mix3]
SplitMix64(x) == Mixed(Low(x + Gamma))

\* Four outputs in a row; the all-zero state is avoided.
SeedRng(seed) ==
  LET s == [k \in 1 .. 4 |-> Mixed(Low(seed + k * Gamma))]
  IN IF \A k \in 1 .. 4 : s[k] = 0 THEN [s EXCEPT ![1] = Gamma] ELSE s

\* Next: the word it returns, and the state it leaves.
Output(s) == Low(Rotl(Low(s[2] * 5), RotOut) * 9)
Advanced(s) ==
  LET c == XorOf[s[3]][s[1]]
      d == XorOf[s[4]][s[2]]
  IN <<XorOf[s[1]][d], XorOf[s[2]][c], XorOf[c][Low(s[2] * 2 ^ Shift)], Rotl(d, RotS)>>

\* Intn(n) on one raw word x: the product's lower half decides whether x is
\* rejected, its upper half is the value.  Mutation: the
\* threshold is n.
RawOf(word) == word \div HalfSize
RejectedBelowN(x, n) == (x * n) % HalfSize < n
Threshold(n) == ((HalfSize - n) % HalfSize) % n
Rejected(x, n) ==
  LET lo == (x * n) % HalfSize
  IN lo < n /\ lo < Threshold(n)
Value(x, n) == (x * n) \div HalfSize
=============================================================================
