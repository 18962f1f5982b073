------------------------------ MODULE AriaProofs ------------------------------
(***************************************************************************)
(* Decryption undoes encryption, for every key and every block, and data   *)
(* come back from whoever holds the key.  The proof goes from the bits of  *)
(* a byte to the layers of the cipher, its rounds, and the module's blocks. *)
(***************************************************************************)
EXTENDS AriaModule, WellFoundedInduction, SequenceTheorems, TLAPS

-----------------------------------------------------------------------------
(* The exclusive or, bit by bit.                                            *)

Weights == {1, 2, 4, 8, 16, 32, 64, 128}

Bit(a, n) == (a \div n) % 2

\* A bit is 0 or 1.
LEMMA BitIsBit == \A a \in Byte, n \in Weights : Bit(a, n) \in {0, 1}
BY DEF Byte, Weights, Bit

\* A byte is the sum of its bits.
LEMMA ByteOfBits ==
  ASSUME NEW a \in Byte
  PROVE  a = Bit(a, 1) + 2 * Bit(a, 2) + 4 * Bit(a, 4) + 8 * Bit(a, 8)
             + 16 * Bit(a, 16) + 32 * Bit(a, 32) + 64 * Bit(a, 64) + 128 * Bit(a, 128)
BY DEF Byte, Bit

\* Two bytes with the same bits are one.
LEMMA SameBits ==
  ASSUME NEW a \in Byte, NEW b \in Byte, \A n \in Weights : Bit(a, n) = Bit(b, n)
  PROVE  a = b
<1>1. /\ Bit(a, 1) = Bit(b, 1) /\ Bit(a, 2) = Bit(b, 2)
      /\ Bit(a, 4) = Bit(b, 4) /\ Bit(a, 8) = Bit(b, 8)
      /\ Bit(a, 16) = Bit(b, 16) /\ Bit(a, 32) = Bit(b, 32)
      /\ Bit(a, 64) = Bit(b, 64) /\ Bit(a, 128) = Bit(b, 128)
  BY DEF Weights
<1> QED BY <1>1, ByteOfBits

\* What is added up of eight bits is a byte, and has them.
LEMMA BitsOfSum ==
  ASSUME NEW b1 \in {0, 1}, NEW b2 \in {0, 1}, NEW b3 \in {0, 1}, NEW b4 \in {0, 1},
         NEW b5 \in {0, 1}, NEW b6 \in {0, 1}, NEW b7 \in {0, 1}, NEW b8 \in {0, 1},
         NEW a, a = b1 + 2 * b2 + 4 * b3 + 8 * b4 + 16 * b5 + 32 * b6 + 64 * b7 + 128 * b8
  PROVE  /\ a \in Byte
         /\ Bit(a, 1) = b1 /\ Bit(a, 2) = b2 /\ Bit(a, 4) = b3 /\ Bit(a, 8) = b4
         /\ Bit(a, 16) = b5 /\ Bit(a, 32) = b6 /\ Bit(a, 64) = b7 /\ Bit(a, 128) = b8
BY DEF Byte, Bit

\* XorOf adds the bits of two bytes, each by itself.
LEMMA XorBits ==
  ASSUME NEW a \in Byte, NEW b \in Byte
  PROVE  /\ XorOf[a][b] \in Byte
         /\ \A n \in Weights : Bit(XorOf[a][b], n) = (Bit(a, n) + Bit(b, n)) % 2
<1> DEFINE At(n) == ((a \div n) + (b \div n)) % 2
<1>1. \A n \in Weights : At(n) = (Bit(a, n) + Bit(b, n)) % 2 /\ At(n) \in {0, 1}
  BY DEF Byte, Weights, Bit
<1>2. XorOf[a][b] = At(1) + 2 * At(2) + 4 * At(4) + 8 * At(8) + 16 * At(16)
                      + 32 * At(32) + 64 * At(64) + 128 * At(128)
  <2>1. XorOf[a][b] = 1 * At(1) + 2 * At(2) + 4 * At(4) + 8 * At(8) + 16 * At(16)
                      + 32 * At(32) + 64 * At(64) + 128 * At(128)
    BY Zenon DEF XorOf
  <2>2. At(1) \in Int
    BY DEF Byte
  <2> HIDE DEF At
  <2> QED BY <2>1, <2>2
<1>3. {1, 2, 4, 8, 16, 32, 64, 128} \subseteq Weights
  BY DEF Weights
<1> HIDE DEF At
<1>4. /\ XorOf[a][b] \in Byte
      /\ \A n \in Weights : Bit(XorOf[a][b], n) = At(n)
  <2>1. /\ At(1) \in {0, 1} /\ At(2) \in {0, 1} /\ At(4) \in {0, 1} /\ At(8) \in {0, 1}
        /\ At(16) \in {0, 1} /\ At(32) \in {0, 1} /\ At(64) \in {0, 1} /\ At(128) \in {0, 1}
    BY <1>1, <1>3
  <2> QED BY <1>2, <2>1, BitsOfSum DEF Weights
<1> QED BY <1>1, <1>4

\* It can be taken back.
LEMMA XorTwice == \A a, b \in Byte : XorOf[a][XorOf[a][b]] = b
<1> SUFFICES ASSUME NEW a \in Byte, NEW b \in Byte
             PROVE  XorOf[a][XorOf[a][b]] = b
  OBVIOUS
<1>1. XorOf[a][b] \in Byte /\ XorOf[a][XorOf[a][b]] \in Byte
  BY XorBits
<1>2. ASSUME NEW n \in Weights
      PROVE  Bit(XorOf[a][XorOf[a][b]], n) = Bit(b, n)
  <2>1. /\ Bit(XorOf[a][b], n) = (Bit(a, n) + Bit(b, n)) % 2
        /\ Bit(XorOf[a][XorOf[a][b]], n) = (Bit(a, n) + Bit(XorOf[a][b], n)) % 2
    BY <1>1, XorBits
  <2> QED BY <2>1, BitIsBit
<1> QED BY <1>1, <1>2, SameBits

-----------------------------------------------------------------------------
(* Blocks.                                                                  *)

BlockSet == [Positions -> Byte]

\* A function on 1..n is the sequence of its values.
LEMMA SequenceOf ==
  ASSUME NEW n \in Nat, NEW T, NEW f \in [1..n -> T]
  PROVE  <<>> \o f = f /\ f \in Seq(T) /\ Len(f) = n
OBVIOUS

\* A block is the sequence of its bytes.
LEMMA BlockOf ==
  ASSUME NEW f \in BlockSet
  PROVE  Block(f) = f
BY SequenceOf DEF Block, BlockSet, Positions

\* Sixteen bytes of a sequence are a block.
LEMMA SliceOf ==
  ASSUME NEW s, NEW m \in Nat, \A i \in m..(m + 15) : s[i] \in Byte
  PROVE  /\ SubSeq(s, m, m + 15) \in BlockSet
         /\ \A i \in Positions : SubSeq(s, m, m + 15)[i] = s[m + i - 1]
<1> DEFINE t == SubSeq(s, m, m + 15)
<1>1. /\ t \in Seq(Byte)
      /\ Len(t) = IF m <= m + 15 THEN m + 15 - m + 1 ELSE 0
      /\ \A i \in 1..(m + 15 - m + 1) : t[i] = s[m + i - 1]
  <2>1. m \in Int /\ m + 15 \in Int
    OBVIOUS
  <2> QED BY <2>1, SubSeqProperties
<1> HIDE DEF t
<1>2. Len(t) = 16 /\ m + 15 - m + 1 = 16
  BY <1>1
<1>3. t \in [1..16 -> Byte]
  BY <1>1, <1>2, LenProperties
<1> QED BY <1>1, <1>2, <1>3 DEF t, BlockSet, Positions

\* The exclusive or of two blocks, byte by byte.
LEMMA XorBlockOf ==
  ASSUME NEW x \in BlockSet, NEW y \in BlockSet
  PROVE  /\ XorBlock(x, y) \in BlockSet
         /\ \A i \in Positions : XorBlock(x, y)[i] = XorOf[x[i]][y[i]]
<1>1. [i \in Positions |-> XorOf[x[i]][y[i]]] \in BlockSet
  BY XorBits DEF BlockSet
<1> QED BY <1>1, BlockOf DEF XorBlock, BlockSet

\* It can be taken back, as l.206 of Crypt relies on.
LEMMA XorBlockTwice ==
  ASSUME NEW x \in BlockSet, NEW y \in BlockSet
  PROVE  XorBlock(x, XorBlock(x, y)) = y
<1>1. XorBlock(x, y) \in BlockSet /\ XorBlock(x, XorBlock(x, y)) \in BlockSet
  BY XorBlockOf
<1>2. ASSUME NEW i \in Positions
      PROVE  XorBlock(x, XorBlock(x, y))[i] = y[i]
  BY <1>1, XorBlockOf, XorTwice DEF BlockSet
<1> QED BY <1>1, <1>2 DEF BlockSet

-----------------------------------------------------------------------------
(* The substitution layer.                                                  *)

\* The S-boxes have a byte for each byte.
LEMMA SBoxBytes == \A t \in 1..4, b \in Byte : S[t][b + 1] \in Byte
<1>1. \A b \in Byte : S[1][b + 1] \in Byte
  BY DEF S, Byte
<1>2. \A b \in Byte : S[2][b + 1] \in Byte
  BY DEF S, Byte
<1>3. \A b \in Byte : S[3][b + 1] \in Byte
  BY DEF S, Byte
<1>4. \A b \in Byte : S[4][b + 1] \in Byte
  BY DEF S, Byte
<1>5. \A t \in 1..4 : t = 1 \/ t = 2 \/ t = 3 \/ t = 4
  OBVIOUS
<1> QED BY <1>1, <1>2, <1>3, <1>4, <1>5, Zenon

\* The two types of S-boxes and their inverses.
LEMMA SBoxInverses ==
  ASSUME NEW b \in Byte
  PROVE  /\ S[3][S[1][b + 1] + 1] = b /\ S[1][S[3][b + 1] + 1] = b
         /\ S[4][S[2][b + 1] + 1] = b /\ S[2][S[4][b + 1] + 1] = b
<1>1. S[3][S[1][b + 1] + 1] = b
  BY DEF S, Byte
<1>2. S[1][S[3][b + 1] + 1] = b
  BY DEF S, Byte
<1>3. S[4][S[2][b + 1] + 1] = b
  BY DEF S, Byte
<1>4. S[2][S[4][b + 1] + 1] = b
  BY DEF S, Byte
<1> QED BY <1>1, <1>2, <1>3, <1>4

Box(first, i) == ((first + i - 1) % 4) + 1

\* In the two kinds of rounds (l.200, l.202) a byte goes through a box and its inverse.
LEMMA BoxesPair ==
  ASSUME NEW first \in {0, 2}, NEW i \in Positions, NEW b \in Byte
  PROVE  /\ Box(first, i) \in 1..4
         /\ S[Box(2 - first, i)][S[Box(first, i)][b + 1] + 1] = b
<1>1. /\ Box(first, i) \in 1..4
      /\ \/ Box(first, i) = 1 /\ Box(2 - first, i) = 3
         \/ Box(first, i) = 2 /\ Box(2 - first, i) = 4
         \/ Box(first, i) = 3 /\ Box(2 - first, i) = 1
         \/ Box(first, i) = 4 /\ Box(2 - first, i) = 2
  BY DEF Box, Positions
<1> QED BY <1>1, SBoxInverses

\* A substituted block is a block.
LEMMA SubstitutedOf ==
  ASSUME NEW x \in BlockSet, NEW key \in BlockSet, NEW first \in {0, 2}
  PROVE  /\ Substituted(x, key, first) \in BlockSet
         /\ \A i \in Positions : Substituted(x, key, first)[i]
                                   = S[Box(first, i)][XorOf[key[i]][x[i]] + 1]
<1>1. [i \in Positions |-> S[Box(first, i)][XorOf[key[i]][x[i]] + 1]] \in BlockSet
  <2> SUFFICES ASSUME NEW i \in Positions
               PROVE  S[Box(first, i)][XorOf[key[i]][x[i]] + 1] \in Byte
    BY DEF BlockSet
  <2>1. XorOf[key[i]][x[i]] \in Byte /\ Box(first, i) \in 1..4
    BY XorBits DEF BlockSet, Box, Positions
  <2> QED BY <2>1, SBoxBytes
<1>2. Substituted(x, key, first) = [i \in Positions |-> S[Box(first, i)][XorOf[key[i]][x[i]] + 1]]
  BY <1>1, BlockOf DEF Substituted, Box
<1> QED BY <1>1, <1>2

\* With the S-boxes two places on, substitution of what is the key and a substituted
\* block gives the block before, with its key.
LEMMA SubstitutedBack ==
  ASSUME NEW x \in BlockSet, NEW key \in BlockSet, NEW k \in BlockSet, NEW first \in {0, 2}
  PROVE  Substituted(XorBlock(k, Substituted(x, key, first)), k, 2 - first)
           = XorBlock(key, x)
<1> DEFINE y == Substituted(x, key, first)
           z == XorBlock(k, y)
<1>1. y \in BlockSet /\ z \in BlockSet /\ 2 - first \in {0, 2}
  BY SubstitutedOf, XorBlockOf
<1>2. Substituted(z, k, 2 - first) \in BlockSet /\ XorBlock(key, x) \in BlockSet
  BY <1>1, SubstitutedOf, XorBlockOf
<1>3. ASSUME NEW i \in Positions
      PROVE  Substituted(z, k, 2 - first)[i] = XorBlock(key, x)[i]
  <2>1. /\ x[i] \in Byte /\ key[i] \in Byte /\ k[i] \in Byte /\ y[i] \in Byte
        /\ XorOf[key[i]][x[i]] \in Byte
    BY <1>1, XorBits DEF BlockSet
  <2>2. XorOf[k[i]][z[i]] = y[i]
    BY <1>1, <2>1, XorBlockOf, XorTwice
  <2>3. Substituted(z, k, 2 - first)[i] = S[Box(2 - first, i)][y[i] + 1]
    BY <1>1, <2>2, SubstitutedOf
  <2>4. y[i] = S[Box(first, i)][XorOf[key[i]][x[i]] + 1]
    BY SubstitutedOf
  <2> QED BY <2>1, <2>3, <2>4, BoxesPair, XorBlockOf
<1> QED BY <1>2, <1>3 DEF BlockSet

-----------------------------------------------------------------------------
(* The diffusion layer.                                                     *)

\* The exclusive or of four bytes, bit by bit.
LEMMA FourBits ==
  ASSUME NEW a \in Byte, NEW b \in Byte, NEW c \in Byte, NEW d \in Byte
  PROVE  /\ XorOfFour(a, b, c, d) \in Byte
         /\ \A n \in Weights :
              Bit(XorOfFour(a, b, c, d), n)
                = (Bit(a, n) + Bit(b, n) + Bit(c, n) + Bit(d, n)) % 2
<1> DEFINE ab == XorOf[a][b]
           cd == XorOf[c][d]
<1>1. ab \in Byte /\ cd \in Byte
  BY XorBits
<1>2. XorOfFour(a, b, c, d) = XorOf[ab][cd]
  BY DEF XorOfFour
<1>3. \A n \in Weights :
        /\ Bit(ab, n) = (Bit(a, n) + Bit(b, n)) % 2
        /\ Bit(cd, n) = (Bit(c, n) + Bit(d, n)) % 2
  BY XorBits
<1>4. \A n \in Weights : /\ Bit(a, n) \in {0, 1} /\ Bit(b, n) \in {0, 1}
                         /\ Bit(c, n) \in {0, 1} /\ Bit(d, n) \in {0, 1}
  BY BitIsBit
<1> HIDE DEF ab, cd
<1>5. /\ XorOf[ab][cd] \in Byte
      /\ \A n \in Weights : Bit(XorOf[ab][cd], n) = (Bit(ab, n) + Bit(cd, n)) % 2
  BY <1>1, XorBits
<1> QED BY <1>2, <1>3, <1>4, <1>5

\* The indices in DL are those of bytes of a block, and of values of T.
LEMMA Tables ==
  /\ \A t \in 1..4 : \A j \in 1..4 : Shared[t][j] + 1 \in Positions
  /\ \A i \in Positions :
       /\ Own[i][1] + 1 \in Positions /\ Own[i][2] + 1 \in Positions
       /\ Own[i][3] + 1 \in Positions /\ Own[i][4] \in 1..4
<1>1. \A t \in 1..4 : \A j \in 1..4 : Shared[t][j] + 1 \in Positions
  BY DEF Shared, Positions
<1>2. \A i \in Positions : /\ Own[i][1] + 1 \in Positions /\ Own[i][2] + 1 \in Positions
                           /\ Own[i][3] + 1 \in Positions /\ Own[i][4] \in 1..4
  BY DEF Own, Positions
<1> QED BY <1>1, <1>2

\* The sum of the bits of four bytes of x, and of three and a fourth value.
Sum4(x, n, t) == Bit(x[Shared[t][1] + 1], n) + Bit(x[Shared[t][2] + 1], n)
                   + Bit(x[Shared[t][3] + 1], n) + Bit(x[Shared[t][4] + 1], n)
Sum3(x, n, i) == Bit(x[Own[i][1] + 1], n) + Bit(x[Own[i][2] + 1], n)
                   + Bit(x[Own[i][3] + 1], n)

\* Seven bits are added up in each.
LEMMA DiffusedBits ==
  ASSUME NEW x \in BlockSet
  PROVE  /\ DL(x) \in BlockSet
         /\ \A i \in Positions, n \in Weights :
              Bit(DL(x)[i], n) = (Sum3(x, n, i) + Sum4(x, n, Own[i][4])) % 2
<1> DEFINE F(t) == XorOfFour(x[Shared[t][1] + 1], x[Shared[t][2] + 1],
                             x[Shared[t][3] + 1], x[Shared[t][4] + 1])
           T == <<>> \o [t \in 1..4 |-> F(t)]
           G(i) == XorOfFour(x[Own[i][1] + 1], x[Own[i][2] + 1], x[Own[i][3] + 1],
                             T[Own[i][4]])
<1>1. \A j \in Positions : x[j] \in Byte
  BY DEF BlockSet
<1>2. ASSUME NEW t \in 1..4
      PROVE  F(t) \in Byte /\ \A n \in Weights : Bit(F(t), n) = Sum4(x, n, t) % 2
  <2>1. /\ x[Shared[t][1] + 1] \in Byte /\ x[Shared[t][2] + 1] \in Byte
        /\ x[Shared[t][3] + 1] \in Byte /\ x[Shared[t][4] + 1] \in Byte
    BY <1>1, Tables
  <2> DEFINE a == x[Shared[t][1] + 1]
             b == x[Shared[t][2] + 1]
             c == x[Shared[t][3] + 1]
             d == x[Shared[t][4] + 1]
  <2>2. F(t) = XorOfFour(a, b, c, d)
    OBVIOUS
  <2>3. \A n \in Weights : Sum4(x, n, t) = Bit(a, n) + Bit(b, n) + Bit(c, n) + Bit(d, n)
    BY DEF Sum4
  <2> HIDE DEF a, b, c, d, F
  <2>4. a \in Byte /\ b \in Byte /\ c \in Byte /\ d \in Byte
    BY <2>1 DEF a, b, c, d
  <2> QED BY <2>2, <2>3, <2>4, FourBits
<1>3. T = [t \in 1..4 |-> F(t)]
  <2> HIDE DEF F
  <2>1. [t \in 1..4 |-> F(t)] \in [1..4 -> Byte]
    BY <1>2
  <2> QED BY <2>1, SequenceOf
<1>4. ASSUME NEW i \in Positions
      PROVE  /\ G(i) \in Byte
             /\ \A n \in Weights :
                  Bit(G(i), n) = (Sum3(x, n, i) + Sum4(x, n, Own[i][4])) % 2
  <2>1. /\ x[Own[i][1] + 1] \in Byte /\ x[Own[i][2] + 1] \in Byte
        /\ x[Own[i][3] + 1] \in Byte /\ Own[i][4] \in 1..4
    BY <1>1, Tables
  <2> DEFINE f == T[Own[i][4]]
  <2>2. /\ f \in Byte
        /\ \A n \in Weights : Bit(f, n) = Sum4(x, n, Own[i][4]) % 2
    <3>1. f = F(Own[i][4])
      BY <1>3, <2>1
    <3> HIDE DEF F, f
    <3> QED BY <1>2, <2>1, <3>1
  <2> HIDE DEF f, T
  <2>3. /\ G(i) \in Byte
        /\ \A n \in Weights : Bit(G(i), n) = (Sum3(x, n, i) + Bit(f, n)) % 2
    <3> DEFINE a == x[Own[i][1] + 1]
               b == x[Own[i][2] + 1]
               c == x[Own[i][3] + 1]
    <3>1. G(i) = XorOfFour(a, b, c, f)
      BY DEF f
    <3>2. \A n \in Weights : Sum3(x, n, i) = Bit(a, n) + Bit(b, n) + Bit(c, n)
      BY DEF Sum3
    <3> HIDE DEF a, b, c, G
    <3>3. a \in Byte /\ b \in Byte /\ c \in Byte
      BY <2>1 DEF a, b, c
    <3> QED BY <2>2, <3>1, <3>2, <3>3, FourBits
  <2>4. \A n \in Weights : Sum3(x, n, i) \in Int /\ Sum4(x, n, Own[i][4]) \in Int
    <3>1. \A n \in Weights, j \in Positions : Bit(x[j], n) \in Int
      BY <1>1, BitIsBit
    <3> QED BY <2>1, <3>1, Tables DEF Sum3, Sum4
  <2> QED BY <2>2, <2>3, <2>4
<1>5. DL(x) = Block([i \in Positions |-> G(i)])
  BY DEF DL
<1> HIDE DEF G
<1>6. [i \in Positions |-> G(i)] \in BlockSet
  BY <1>4 DEF BlockSet
<1>7. DL(x) = [i \in Positions |-> G(i)]
  BY <1>5, <1>6, BlockOf
<1> QED BY <1>4, <1>6, <1>7

\* The seven, for bits b of the sixteen bytes.
Seven(b, i) == b[Own[i][1] + 1] + b[Own[i][2] + 1] + b[Own[i][3] + 1]
                 + b[Shared[Own[i][4]][1] + 1] + b[Shared[Own[i][4]][2] + 1]
                 + b[Shared[Own[i][4]][3] + 1] + b[Shared[Own[i][4]][4] + 1]

BitSet == [Positions -> {0, 1}]

\* The seven of each byte, as DL (l.89-108) has them.
LEMMA Sevens ==
  ASSUME NEW b
  PROVE  /\ Seven(b, 1) = b[7] + b[9] + b[14] + b[4] + b[5] + b[10] + b[15]
         /\ Seven(b, 2) = b[8] + b[10] + b[13] + b[3] + b[6] + b[9] + b[16]
         /\ Seven(b, 3) = b[5] + b[11] + b[16] + b[2] + b[7] + b[12] + b[13]
         /\ Seven(b, 4) = b[6] + b[12] + b[15] + b[1] + b[8] + b[11] + b[14]
         /\ Seven(b, 5) = b[1] + b[12] + b[15] + b[3] + b[6] + b[9] + b[16]
         /\ Seven(b, 6) = b[2] + b[11] + b[16] + b[4] + b[5] + b[10] + b[15]
         /\ Seven(b, 7) = b[3] + b[10] + b[13] + b[1] + b[8] + b[11] + b[14]
         /\ Seven(b, 8) = b[4] + b[9] + b[14] + b[2] + b[7] + b[12] + b[13]
         /\ Seven(b, 9) = b[2] + b[5] + b[16] + b[1] + b[8] + b[11] + b[14]
         /\ Seven(b, 10) = b[1] + b[6] + b[15] + b[2] + b[7] + b[12] + b[13]
         /\ Seven(b, 11) = b[4] + b[7] + b[14] + b[3] + b[6] + b[9] + b[16]
         /\ Seven(b, 12) = b[3] + b[8] + b[13] + b[4] + b[5] + b[10] + b[15]
         /\ Seven(b, 13) = b[3] + b[8] + b[10] + b[2] + b[7] + b[12] + b[13]
         /\ Seven(b, 14) = b[4] + b[7] + b[9] + b[1] + b[8] + b[11] + b[14]
         /\ Seven(b, 15) = b[1] + b[6] + b[12] + b[4] + b[5] + b[10] + b[15]
         /\ Seven(b, 16) = b[2] + b[5] + b[11] + b[3] + b[6] + b[9] + b[16]
<1>1. Seven(b, 1) = b[7] + b[9] + b[14] + b[4] + b[5] + b[10] + b[15]
  <2>1. Own[1] = <<6, 8, 13, 1>>
    BY DEF Own
  <2>2. Shared[1] = <<3, 4, 9, 14>>
    BY DEF Shared
  <2> QED BY <2>1, <2>2 DEF Seven
<1>2. Seven(b, 2) = b[8] + b[10] + b[13] + b[3] + b[6] + b[9] + b[16]
  <2>1. Own[2] = <<7, 9, 12, 2>>
    BY DEF Own
  <2>2. Shared[2] = <<2, 5, 8, 15>>
    BY DEF Shared
  <2> QED BY <2>1, <2>2 DEF Seven
<1>3. Seven(b, 3) = b[5] + b[11] + b[16] + b[2] + b[7] + b[12] + b[13]
  <2>1. Own[3] = <<4, 10, 15, 3>>
    BY DEF Own
  <2>2. Shared[3] = <<1, 6, 11, 12>>
    BY DEF Shared
  <2> QED BY <2>1, <2>2 DEF Seven
<1>4. Seven(b, 4) = b[6] + b[12] + b[15] + b[1] + b[8] + b[11] + b[14]
  <2>1. Own[4] = <<5, 11, 14, 4>>
    BY DEF Own
  <2>2. Shared[4] = <<0, 7, 10, 13>>
    BY DEF Shared
  <2> QED BY <2>1, <2>2 DEF Seven
<1>5. Seven(b, 5) = b[1] + b[12] + b[15] + b[3] + b[6] + b[9] + b[16]
  <2>1. Own[5] = <<0, 11, 14, 2>>
    BY DEF Own
  <2>2. Shared[2] = <<2, 5, 8, 15>>
    BY DEF Shared
  <2> QED BY <2>1, <2>2 DEF Seven
<1>6. Seven(b, 6) = b[2] + b[11] + b[16] + b[4] + b[5] + b[10] + b[15]
  <2>1. Own[6] = <<1, 10, 15, 1>>
    BY DEF Own
  <2>2. Shared[1] = <<3, 4, 9, 14>>
    BY DEF Shared
  <2> QED BY <2>1, <2>2 DEF Seven
<1>7. Seven(b, 7) = b[3] + b[10] + b[13] + b[1] + b[8] + b[11] + b[14]
  <2>1. Own[7] = <<2, 9, 12, 4>>
    BY DEF Own
  <2>2. Shared[4] = <<0, 7, 10, 13>>
    BY DEF Shared
  <2> QED BY <2>1, <2>2 DEF Seven
<1>8. Seven(b, 8) = b[4] + b[9] + b[14] + b[2] + b[7] + b[12] + b[13]
  <2>1. Own[8] = <<3, 8, 13, 3>>
    BY DEF Own
  <2>2. Shared[3] = <<1, 6, 11, 12>>
    BY DEF Shared
  <2> QED BY <2>1, <2>2 DEF Seven
<1>9. Seven(b, 9) = b[2] + b[5] + b[16] + b[1] + b[8] + b[11] + b[14]
  <2>1. Own[9] = <<1, 4, 15, 4>>
    BY DEF Own
  <2>2. Shared[4] = <<0, 7, 10, 13>>
    BY DEF Shared
  <2> QED BY <2>1, <2>2 DEF Seven
<1>10. Seven(b, 10) = b[1] + b[6] + b[15] + b[2] + b[7] + b[12] + b[13]
  <2>1. Own[10] = <<0, 5, 14, 3>>
    BY DEF Own
  <2>2. Shared[3] = <<1, 6, 11, 12>>
    BY DEF Shared
  <2> QED BY <2>1, <2>2 DEF Seven
<1>11. Seven(b, 11) = b[4] + b[7] + b[14] + b[3] + b[6] + b[9] + b[16]
  <2>1. Own[11] = <<3, 6, 13, 2>>
    BY DEF Own
  <2>2. Shared[2] = <<2, 5, 8, 15>>
    BY DEF Shared
  <2> QED BY <2>1, <2>2 DEF Seven
<1>12. Seven(b, 12) = b[3] + b[8] + b[13] + b[4] + b[5] + b[10] + b[15]
  <2>1. Own[12] = <<2, 7, 12, 1>>
    BY DEF Own
  <2>2. Shared[1] = <<3, 4, 9, 14>>
    BY DEF Shared
  <2> QED BY <2>1, <2>2 DEF Seven
<1>13. Seven(b, 13) = b[3] + b[8] + b[10] + b[2] + b[7] + b[12] + b[13]
  <2>1. Own[13] = <<2, 7, 9, 3>>
    BY DEF Own
  <2>2. Shared[3] = <<1, 6, 11, 12>>
    BY DEF Shared
  <2> QED BY <2>1, <2>2 DEF Seven
<1>14. Seven(b, 14) = b[4] + b[7] + b[9] + b[1] + b[8] + b[11] + b[14]
  <2>1. Own[14] = <<3, 6, 8, 4>>
    BY DEF Own
  <2>2. Shared[4] = <<0, 7, 10, 13>>
    BY DEF Shared
  <2> QED BY <2>1, <2>2 DEF Seven
<1>15. Seven(b, 15) = b[1] + b[6] + b[12] + b[4] + b[5] + b[10] + b[15]
  <2>1. Own[15] = <<0, 5, 11, 1>>
    BY DEF Own
  <2>2. Shared[1] = <<3, 4, 9, 14>>
    BY DEF Shared
  <2> QED BY <2>1, <2>2 DEF Seven
<1>16. Seven(b, 16) = b[2] + b[5] + b[11] + b[3] + b[6] + b[9] + b[16]
  <2>1. Own[16] = <<1, 4, 10, 2>>
    BY DEF Own
  <2>2. Shared[2] = <<2, 5, 8, 15>>
    BY DEF Shared
  <2> QED BY <2>1, <2>2 DEF Seven
<1> QED BY <1>1, <1>2, <1>3, <1>4, <1>5, <1>6, <1>7, <1>8,
          <1>9, <1>10, <1>11, <1>12, <1>13, <1>14, <1>15, <1>16

\* Added up twice they leave one of the bits, all the others an even number of times.
LEMMA SevenTwice ==
  ASSUME NEW b \in BitSet, NEW c \in BitSet,
         \A i \in Positions : c[i] = Seven(b, i) % 2
  PROVE  \A i \in Positions : Seven(c, i) % 2 = b[i]
<1> DEFINE b1 == b[1]  b2 == b[2]  b3 == b[3]  b4 == b[4]
           b5 == b[5]  b6 == b[6]  b7 == b[7]  b8 == b[8]
           b9 == b[9]  b10 == b[10]  b11 == b[11]  b12 == b[12]
           b13 == b[13]  b14 == b[14]  b15 == b[15]  b16 == b[16]
<1>1. \A i \in Positions : b[i] \in {0, 1}
  BY DEF BitSet
<1>2. /\ c[1] = (b7 + b9 + b14 + b4 + b5 + b10 + b15) % 2
      /\ c[2] = (b8 + b10 + b13 + b3 + b6 + b9 + b16) % 2
      /\ c[3] = (b5 + b11 + b16 + b2 + b7 + b12 + b13) % 2
      /\ c[4] = (b6 + b12 + b15 + b1 + b8 + b11 + b14) % 2
      /\ c[5] = (b1 + b12 + b15 + b3 + b6 + b9 + b16) % 2
      /\ c[6] = (b2 + b11 + b16 + b4 + b5 + b10 + b15) % 2
      /\ c[7] = (b3 + b10 + b13 + b1 + b8 + b11 + b14) % 2
      /\ c[8] = (b4 + b9 + b14 + b2 + b7 + b12 + b13) % 2
      /\ c[9] = (b2 + b5 + b16 + b1 + b8 + b11 + b14) % 2
      /\ c[10] = (b1 + b6 + b15 + b2 + b7 + b12 + b13) % 2
      /\ c[11] = (b4 + b7 + b14 + b3 + b6 + b9 + b16) % 2
      /\ c[12] = (b3 + b8 + b13 + b4 + b5 + b10 + b15) % 2
      /\ c[13] = (b3 + b8 + b10 + b2 + b7 + b12 + b13) % 2
      /\ c[14] = (b4 + b7 + b9 + b1 + b8 + b11 + b14) % 2
      /\ c[15] = (b1 + b6 + b12 + b4 + b5 + b10 + b15) % 2
      /\ c[16] = (b2 + b5 + b11 + b3 + b6 + b9 + b16) % 2
  BY Sevens DEF Positions
<1>3. /\ b1 \in Int /\ b2 \in Int /\ b3 \in Int /\ b4 \in Int
      /\ b5 \in Int /\ b6 \in Int /\ b7 \in Int /\ b8 \in Int
      /\ b9 \in Int /\ b10 \in Int /\ b11 \in Int /\ b12 \in Int
      /\ b13 \in Int /\ b14 \in Int /\ b15 \in Int /\ b16 \in Int
  BY <1>1 DEF Positions
<1> HIDE DEF b1, b2, b3, b4, b5, b6, b7, b8, b9, b10, b11, b12, b13, b14, b15, b16
<1>4. Seven(c, 1) % 2 = b1 % 2
  <2>1. Seven(c, 1)
           = ((b3 + b10 + b13 + b1 + b8 + b11 + b14) % 2)
             + ((b2 + b5 + b16 + b1 + b8 + b11 + b14) % 2)
             + ((b4 + b7 + b9 + b1 + b8 + b11 + b14) % 2)
             + ((b6 + b12 + b15 + b1 + b8 + b11 + b14) % 2)
             + ((b1 + b12 + b15 + b3 + b6 + b9 + b16) % 2)
             + ((b1 + b6 + b15 + b2 + b7 + b12 + b13) % 2)
             + ((b1 + b6 + b12 + b4 + b5 + b10 + b15) % 2)
    BY <1>2, Sevens
  <2> QED BY <1>3, <2>1
<1>5. Seven(c, 2) % 2 = b2 % 2
  <2>1. Seven(c, 2)
           = ((b4 + b9 + b14 + b2 + b7 + b12 + b13) % 2)
             + ((b1 + b6 + b15 + b2 + b7 + b12 + b13) % 2)
             + ((b3 + b8 + b10 + b2 + b7 + b12 + b13) % 2)
             + ((b5 + b11 + b16 + b2 + b7 + b12 + b13) % 2)
             + ((b2 + b11 + b16 + b4 + b5 + b10 + b15) % 2)
             + ((b2 + b5 + b16 + b1 + b8 + b11 + b14) % 2)
             + ((b2 + b5 + b11 + b3 + b6 + b9 + b16) % 2)
    BY <1>2, Sevens
  <2> QED BY <1>3, <2>1
<1>6. Seven(c, 3) % 2 = b3 % 2
  <2>1. Seven(c, 3)
           = ((b1 + b12 + b15 + b3 + b6 + b9 + b16) % 2)
             + ((b4 + b7 + b14 + b3 + b6 + b9 + b16) % 2)
             + ((b2 + b5 + b11 + b3 + b6 + b9 + b16) % 2)
             + ((b8 + b10 + b13 + b3 + b6 + b9 + b16) % 2)
             + ((b3 + b10 + b13 + b1 + b8 + b11 + b14) % 2)
             + ((b3 + b8 + b13 + b4 + b5 + b10 + b15) % 2)
             + ((b3 + b8 + b10 + b2 + b7 + b12 + b13) % 2)
    BY <1>2, Sevens
  <2> QED BY <1>3, <2>1
<1>7. Seven(c, 4) % 2 = b4 % 2
  <2>1. Seven(c, 4)
           = ((b2 + b11 + b16 + b4 + b5 + b10 + b15) % 2)
             + ((b3 + b8 + b13 + b4 + b5 + b10 + b15) % 2)
             + ((b1 + b6 + b12 + b4 + b5 + b10 + b15) % 2)
             + ((b7 + b9 + b14 + b4 + b5 + b10 + b15) % 2)
             + ((b4 + b9 + b14 + b2 + b7 + b12 + b13) % 2)
             + ((b4 + b7 + b14 + b3 + b6 + b9 + b16) % 2)
             + ((b4 + b7 + b9 + b1 + b8 + b11 + b14) % 2)
    BY <1>2, Sevens
  <2> QED BY <1>3, <2>1
<1>8. Seven(c, 5) % 2 = b5 % 2
  <2>1. Seven(c, 5)
           = ((b7 + b9 + b14 + b4 + b5 + b10 + b15) % 2)
             + ((b3 + b8 + b13 + b4 + b5 + b10 + b15) % 2)
             + ((b1 + b6 + b12 + b4 + b5 + b10 + b15) % 2)
             + ((b5 + b11 + b16 + b2 + b7 + b12 + b13) % 2)
             + ((b2 + b11 + b16 + b4 + b5 + b10 + b15) % 2)
             + ((b2 + b5 + b16 + b1 + b8 + b11 + b14) % 2)
             + ((b2 + b5 + b11 + b3 + b6 + b9 + b16) % 2)
    BY <1>2, Sevens
  <2> QED BY <1>3, <2>1
<1>9. Seven(c, 6) % 2 = b6 % 2
  <2>1. Seven(c, 6)
           = ((b8 + b10 + b13 + b3 + b6 + b9 + b16) % 2)
             + ((b4 + b7 + b14 + b3 + b6 + b9 + b16) % 2)
             + ((b2 + b5 + b11 + b3 + b6 + b9 + b16) % 2)
             + ((b6 + b12 + b15 + b1 + b8 + b11 + b14) % 2)
             + ((b1 + b12 + b15 + b3 + b6 + b9 + b16) % 2)
             + ((b1 + b6 + b15 + b2 + b7 + b12 + b13) % 2)
             + ((b1 + b6 + b12 + b4 + b5 + b10 + b15) % 2)
    BY <1>2, Sevens
  <2> QED BY <1>3, <2>1
<1>10. Seven(c, 7) % 2 = b7 % 2
  <2>1. Seven(c, 7)
           = ((b5 + b11 + b16 + b2 + b7 + b12 + b13) % 2)
             + ((b1 + b6 + b15 + b2 + b7 + b12 + b13) % 2)
             + ((b3 + b8 + b10 + b2 + b7 + b12 + b13) % 2)
             + ((b7 + b9 + b14 + b4 + b5 + b10 + b15) % 2)
             + ((b4 + b9 + b14 + b2 + b7 + b12 + b13) % 2)
             + ((b4 + b7 + b14 + b3 + b6 + b9 + b16) % 2)
             + ((b4 + b7 + b9 + b1 + b8 + b11 + b14) % 2)
    BY <1>2, Sevens
  <2> QED BY <1>3, <2>1
<1>11. Seven(c, 8) % 2 = b8 % 2
  <2>1. Seven(c, 8)
           = ((b6 + b12 + b15 + b1 + b8 + b11 + b14) % 2)
             + ((b2 + b5 + b16 + b1 + b8 + b11 + b14) % 2)
             + ((b4 + b7 + b9 + b1 + b8 + b11 + b14) % 2)
             + ((b8 + b10 + b13 + b3 + b6 + b9 + b16) % 2)
             + ((b3 + b10 + b13 + b1 + b8 + b11 + b14) % 2)
             + ((b3 + b8 + b13 + b4 + b5 + b10 + b15) % 2)
             + ((b3 + b8 + b10 + b2 + b7 + b12 + b13) % 2)
    BY <1>2, Sevens
  <2> QED BY <1>3, <2>1
<1>12. Seven(c, 9) % 2 = b9 % 2
  <2>1. Seven(c, 9)
           = ((b8 + b10 + b13 + b3 + b6 + b9 + b16) % 2)
             + ((b1 + b12 + b15 + b3 + b6 + b9 + b16) % 2)
             + ((b2 + b5 + b11 + b3 + b6 + b9 + b16) % 2)
             + ((b7 + b9 + b14 + b4 + b5 + b10 + b15) % 2)
             + ((b4 + b9 + b14 + b2 + b7 + b12 + b13) % 2)
             + ((b4 + b7 + b14 + b3 + b6 + b9 + b16) % 2)
             + ((b4 + b7 + b9 + b1 + b8 + b11 + b14) % 2)
    BY <1>2, Sevens
  <2> QED BY <1>3, <2>1
<1>13. Seven(c, 10) % 2 = b10 % 2
  <2>1. Seven(c, 10)
           = ((b7 + b9 + b14 + b4 + b5 + b10 + b15) % 2)
             + ((b2 + b11 + b16 + b4 + b5 + b10 + b15) % 2)
             + ((b1 + b6 + b12 + b4 + b5 + b10 + b15) % 2)
             + ((b8 + b10 + b13 + b3 + b6 + b9 + b16) % 2)
             + ((b3 + b10 + b13 + b1 + b8 + b11 + b14) % 2)
             + ((b3 + b8 + b13 + b4 + b5 + b10 + b15) % 2)
             + ((b3 + b8 + b10 + b2 + b7 + b12 + b13) % 2)
    BY <1>2, Sevens
  <2> QED BY <1>3, <2>1
<1>14. Seven(c, 11) % 2 = b11 % 2
  <2>1. Seven(c, 11)
           = ((b6 + b12 + b15 + b1 + b8 + b11 + b14) % 2)
             + ((b3 + b10 + b13 + b1 + b8 + b11 + b14) % 2)
             + ((b4 + b7 + b9 + b1 + b8 + b11 + b14) % 2)
             + ((b5 + b11 + b16 + b2 + b7 + b12 + b13) % 2)
             + ((b2 + b11 + b16 + b4 + b5 + b10 + b15) % 2)
             + ((b2 + b5 + b16 + b1 + b8 + b11 + b14) % 2)
             + ((b2 + b5 + b11 + b3 + b6 + b9 + b16) % 2)
    BY <1>2, Sevens
  <2> QED BY <1>3, <2>1
<1>15. Seven(c, 12) % 2 = b12 % 2
  <2>1. Seven(c, 12)
           = ((b5 + b11 + b16 + b2 + b7 + b12 + b13) % 2)
             + ((b4 + b9 + b14 + b2 + b7 + b12 + b13) % 2)
             + ((b3 + b8 + b10 + b2 + b7 + b12 + b13) % 2)
             + ((b6 + b12 + b15 + b1 + b8 + b11 + b14) % 2)
             + ((b1 + b12 + b15 + b3 + b6 + b9 + b16) % 2)
             + ((b1 + b6 + b15 + b2 + b7 + b12 + b13) % 2)
             + ((b1 + b6 + b12 + b4 + b5 + b10 + b15) % 2)
    BY <1>2, Sevens
  <2> QED BY <1>3, <2>1
<1>16. Seven(c, 13) % 2 = b13 % 2
  <2>1. Seven(c, 13)
           = ((b5 + b11 + b16 + b2 + b7 + b12 + b13) % 2)
             + ((b4 + b9 + b14 + b2 + b7 + b12 + b13) % 2)
             + ((b1 + b6 + b15 + b2 + b7 + b12 + b13) % 2)
             + ((b8 + b10 + b13 + b3 + b6 + b9 + b16) % 2)
             + ((b3 + b10 + b13 + b1 + b8 + b11 + b14) % 2)
             + ((b3 + b8 + b13 + b4 + b5 + b10 + b15) % 2)
             + ((b3 + b8 + b10 + b2 + b7 + b12 + b13) % 2)
    BY <1>2, Sevens
  <2> QED BY <1>3, <2>1
<1>17. Seven(c, 14) % 2 = b14 % 2
  <2>1. Seven(c, 14)
           = ((b6 + b12 + b15 + b1 + b8 + b11 + b14) % 2)
             + ((b3 + b10 + b13 + b1 + b8 + b11 + b14) % 2)
             + ((b2 + b5 + b16 + b1 + b8 + b11 + b14) % 2)
             + ((b7 + b9 + b14 + b4 + b5 + b10 + b15) % 2)
             + ((b4 + b9 + b14 + b2 + b7 + b12 + b13) % 2)
             + ((b4 + b7 + b14 + b3 + b6 + b9 + b16) % 2)
             + ((b4 + b7 + b9 + b1 + b8 + b11 + b14) % 2)
    BY <1>2, Sevens
  <2> QED BY <1>3, <2>1
<1>18. Seven(c, 15) % 2 = b15 % 2
  <2>1. Seven(c, 15)
           = ((b7 + b9 + b14 + b4 + b5 + b10 + b15) % 2)
             + ((b2 + b11 + b16 + b4 + b5 + b10 + b15) % 2)
             + ((b3 + b8 + b13 + b4 + b5 + b10 + b15) % 2)
             + ((b6 + b12 + b15 + b1 + b8 + b11 + b14) % 2)
             + ((b1 + b12 + b15 + b3 + b6 + b9 + b16) % 2)
             + ((b1 + b6 + b15 + b2 + b7 + b12 + b13) % 2)
             + ((b1 + b6 + b12 + b4 + b5 + b10 + b15) % 2)
    BY <1>2, Sevens
  <2> QED BY <1>3, <2>1
<1>19. Seven(c, 16) % 2 = b16 % 2
  <2>1. Seven(c, 16)
           = ((b8 + b10 + b13 + b3 + b6 + b9 + b16) % 2)
             + ((b1 + b12 + b15 + b3 + b6 + b9 + b16) % 2)
             + ((b4 + b7 + b14 + b3 + b6 + b9 + b16) % 2)
             + ((b5 + b11 + b16 + b2 + b7 + b12 + b13) % 2)
             + ((b2 + b11 + b16 + b4 + b5 + b10 + b15) % 2)
             + ((b2 + b5 + b16 + b1 + b8 + b11 + b14) % 2)
             + ((b2 + b5 + b11 + b3 + b6 + b9 + b16) % 2)
    BY <1>2, Sevens
  <2> QED BY <1>3, <2>1
<1> QED
  <2>1. \A i \in Positions : i = 1 \/ i = 2 \/ i = 3 \/ i = 4 \/ i = 5 \/ i = 6 \/ i = 7 \/ i = 8
          \/ i = 9 \/ i = 10 \/ i = 11 \/ i = 12 \/ i = 13 \/ i = 14 \/ i = 15 \/ i = 16
    BY DEF Positions
  <2> QED BY <1>1, <2>1, <1>4, <1>5, <1>6, <1>7, <1>8, <1>9,
            <1>10, <1>11, <1>12, <1>13, <1>14, <1>15, <1>16, <1>17, <1>18, <1>19
     DEF b1, b2, b3, b4, b5, b6, b7, b8, b9, b10, b11, b12, b13, b14, b15, b16

Bits(x, n) == [i \in Positions |-> Bit(x[i], n)]

\* Bit n of each byte of a block.
LEMMA BitsOfBlock ==
  ASSUME NEW x \in BlockSet, NEW n \in Weights
  PROVE  /\ Bits(x, n) \in BitSet
         /\ \A i \in Positions : Bits(x, n)[i] = Bit(x[i], n)
BY BitIsBit DEF Bits, BitSet, BlockSet

\* Two blocks with the same bits are one.
LEMMA SameBlock ==
  ASSUME NEW x \in BlockSet, NEW y \in BlockSet,
         \A i \in Positions, n \in Weights : Bit(x[i], n) = Bit(y[i], n)
  PROVE  x = y
<1>1. ASSUME NEW i \in Positions
      PROVE  x[i] = y[i]
  BY SameBits DEF BlockSet
<1> QED BY <1>1 DEF BlockSet

\* Bit n of a diffused byte is the sum of its seven.
LEMMA DiffusedSeven ==
  ASSUME NEW x \in BlockSet, NEW n \in Weights
  PROVE  \A i \in Positions : Bit(DL(x)[i], n) = Seven(Bits(x, n), i) % 2
<1> SUFFICES ASSUME NEW i \in Positions
             PROVE  Bit(DL(x)[i], n) = Seven(Bits(x, n), i) % 2
  OBVIOUS
<1>1. Bit(DL(x)[i], n) = (Sum3(x, n, i) + Sum4(x, n, Own[i][4])) % 2
  BY DiffusedBits
<1> DEFINE o1 == Bit(x[Own[i][1] + 1], n)
           o2 == Bit(x[Own[i][2] + 1], n)
           o3 == Bit(x[Own[i][3] + 1], n)
           s1 == Bit(x[Shared[Own[i][4]][1] + 1], n)
           s2 == Bit(x[Shared[Own[i][4]][2] + 1], n)
           s3 == Bit(x[Shared[Own[i][4]][3] + 1], n)
           s4 == Bit(x[Shared[Own[i][4]][4] + 1], n)
<1>2. Sum3(x, n, i) = o1 + o2 + o3 /\ Sum4(x, n, Own[i][4]) = s1 + s2 + s3 + s4
  BY DEF Sum3, Sum4
<1>3. /\ Own[i][1] + 1 \in Positions /\ Own[i][2] + 1 \in Positions
      /\ Own[i][3] + 1 \in Positions /\ Own[i][4] \in 1..4
  BY Tables
<1>4. /\ Shared[Own[i][4]][1] + 1 \in Positions /\ Shared[Own[i][4]][2] + 1 \in Positions
      /\ Shared[Own[i][4]][3] + 1 \in Positions /\ Shared[Own[i][4]][4] + 1 \in Positions
  BY <1>3, Tables
<1>5. Seven(Bits(x, n), i) = o1 + o2 + o3 + s1 + s2 + s3 + s4
  BY <1>3, <1>4, BitsOfBlock DEF Seven
<1>6. \A j \in Positions : Bit(x[j], n) \in Int
  BY BitIsBit DEF BlockSet
<1>7. /\ o1 \in Int /\ o2 \in Int /\ o3 \in Int
      /\ s1 \in Int /\ s2 \in Int /\ s3 \in Int /\ s4 \in Int
  BY <1>3, <1>4, <1>6
<1> HIDE DEF o1, o2, o3, s1, s2, s3, s4
<1> QED BY <1>1, <1>2, <1>5, <1>7

\* Diffusion is its own inverse.
LEMMA DiffusedTwice ==
  ASSUME NEW x \in BlockSet
  PROVE  DL(x) \in BlockSet /\ DL(DL(x)) = x
<1>1. DL(x) \in BlockSet /\ DL(DL(x)) \in BlockSet
  BY DiffusedBits
<1>2. ASSUME NEW n \in Weights, NEW i \in Positions
      PROVE  Bit(DL(DL(x))[i], n) = Bit(x[i], n)
  <2> DEFINE b == Bits(x, n)
             c == Bits(DL(x), n)
  <2>1. /\ b \in BitSet /\ c \in BitSet
        /\ \A j \in Positions : c[j] = Bit(DL(x)[j], n)
        /\ b[i] = Bit(x[i], n)
    BY <1>1, BitsOfBlock
  <2>2. \A j \in Positions : Bit(DL(x)[j], n) = Seven(b, j) % 2
    BY DiffusedSeven
  <2>3. Bit(DL(DL(x))[i], n) = Seven(c, i) % 2
    BY <1>1, DiffusedSeven
  <2> HIDE DEF b, c
  <2>4. \A j \in Positions : c[j] = Seven(b, j) % 2
    BY <2>1, <2>2
  <2> QED BY <2>1, <2>3, <2>4, SevenTwice
<1> QED BY <1>1, <1>2, SameBlock

\* Diffusion of an exclusive or is the exclusive or of the two diffused.
LEMMA DiffusedXor ==
  ASSUME NEW x \in BlockSet, NEW y \in BlockSet
  PROVE  DL(XorBlock(x, y)) = XorBlock(DL(x), DL(y))
<1> DEFINE z == XorBlock(x, y)
           dx == DL(x)
           dy == DL(y)
<1>1. /\ z \in BlockSet /\ dx \in BlockSet /\ dy \in BlockSet /\ DL(z) \in BlockSet
      /\ XorBlock(dx, dy) \in BlockSet
  BY XorBlockOf, DiffusedTwice
<1>2. ASSUME NEW i \in Positions, NEW n \in Weights
      PROVE  Bit(DL(z)[i], n) = Bit(XorBlock(dx, dy)[i], n)
  <2> DEFINE X(j) == Bits(x, n)[j]
             Y(j) == Bits(y, n)[j]
             Z(j) == Bits(z, n)[j]
  <2>1. \A j \in Positions :
          X(j) \in Int /\ Y(j) \in Int /\ Z(j) = (X(j) + Y(j)) % 2
    <3> SUFFICES ASSUME NEW j \in Positions
                 PROVE  X(j) \in Int /\ Y(j) \in Int /\ Z(j) = (X(j) + Y(j)) % 2
      OBVIOUS
    <3>1. X(j) = Bit(x[j], n) /\ Y(j) = Bit(y[j], n) /\ Z(j) = Bit(z[j], n)
      BY <1>1, BitsOfBlock
    <3>2. x[j] \in Byte /\ y[j] \in Byte /\ z[j] = XorOf[x[j]][y[j]]
      BY XorBlockOf DEF BlockSet
    <3> QED BY <3>1, <3>2, XorBits, BitIsBit
  <2> DEFINE j1 == Own[i][1] + 1
             j2 == Own[i][2] + 1
             j3 == Own[i][3] + 1
             j4 == Shared[Own[i][4]][1] + 1
             j5 == Shared[Own[i][4]][2] + 1
             j6 == Shared[Own[i][4]][3] + 1
             j7 == Shared[Own[i][4]][4] + 1
  <2>2. /\ j1 \in Positions /\ j2 \in Positions /\ j3 \in Positions /\ j4 \in Positions
        /\ j5 \in Positions /\ j6 \in Positions /\ j7 \in Positions
    BY Tables
  <2>3. /\ Seven(Bits(x, n), i) = X(j1) + X(j2) + X(j3) + X(j4) + X(j5) + X(j6) + X(j7)
        /\ Seven(Bits(y, n), i) = Y(j1) + Y(j2) + Y(j3) + Y(j4) + Y(j5) + Y(j6) + Y(j7)
        /\ Seven(Bits(z, n), i) = Z(j1) + Z(j2) + Z(j3) + Z(j4) + Z(j5) + Z(j6) + Z(j7)
    BY DEF Seven
  <2>4. Bit(DL(z)[i], n) = Seven(Bits(z, n), i) % 2
    BY <1>1, DiffusedSeven
  <2>5. Bit(XorBlock(dx, dy)[i], n) = (Bit(dx[i], n) + Bit(dy[i], n)) % 2
    BY <1>1, XorBlockOf, XorBits DEF BlockSet
  <2>6. /\ Bit(dx[i], n) = Seven(Bits(x, n), i) % 2
        /\ Bit(dy[i], n) = Seven(Bits(y, n), i) % 2
    BY DiffusedSeven
  <2> HIDE DEF X, Y, Z, j1, j2, j3, j4, j5, j6, j7, dx, dy, z
  <2> DEFINE x1 == X(j1)  x2 == X(j2)  x3 == X(j3)  x4 == X(j4)
             x5 == X(j5)  x6 == X(j6)  x7 == X(j7)
             y1 == Y(j1)  y2 == Y(j2)  y3 == Y(j3)  y4 == Y(j4)
             y5 == Y(j5)  y6 == Y(j6)  y7 == Y(j7)
             bits == ((x1 + y1) % 2) + ((x2 + y2) % 2) + ((x3 + y3) % 2) + ((x4 + y4) % 2)
                       + ((x5 + y5) % 2) + ((x6 + y6) % 2) + ((x7 + y7) % 2)
             sx == x1 + x2 + x3 + x4 + x5 + x6 + x7
             sy == y1 + y2 + y3 + y4 + y5 + y6 + y7
  <2>7. Bit(DL(z)[i], n) = bits % 2
    BY <2>1, <2>2, <2>3, <2>4
  <2>8. Bit(XorBlock(dx, dy)[i], n) = ((sx % 2) + (sy % 2)) % 2
    BY <2>3, <2>5, <2>6
  <2>9. /\ x1 \in Int /\ x2 \in Int /\ x3 \in Int /\ x4 \in Int
        /\ x5 \in Int /\ x6 \in Int /\ x7 \in Int
        /\ y1 \in Int /\ y2 \in Int /\ y3 \in Int /\ y4 \in Int
        /\ y5 \in Int /\ y6 \in Int /\ y7 \in Int
    BY <2>1, <2>2
  <2> HIDE DEF x1, x2, x3, x4, x5, x6, x7, y1, y2, y3, y4, y5, y6, y7
  <2>10. bits % 2 = ((sx % 2) + (sy % 2)) % 2
    BY <2>9
  <2> QED BY <2>7, <2>8, <2>10
<1> QED BY <1>1, <1>2, SameBlock

-----------------------------------------------------------------------------
(* The rounds.                                                              *)

\* Induction up to n, for a set.
LEMMA UpTo ==
  ASSUME NEW n \in Nat, NEW T, 0 \in T,
         \A i \in 0..(n - 1) : i \in T => i + 1 \in T
  PROVE  \A i \in 0..n : i \in T
<1> DEFINE D == {i \in 0..n : i \notin T}
<1> SUFFICES ASSUME D # {}
             PROVE  FALSE
  OBVIOUS
<1>1. D \subseteq Nat
  OBVIOUS
<1> DEFINE Less == OpToRel(<, Nat)
<1>2. IsWellFoundedOn(Less, Nat)
  BY NatLessThanWellFounded
<1> HIDE DEF Less
<1>3. PICK x \in D : \A y \in D : ~ (<<y, x>> \in Less)
  <2> HIDE DEF D
  <2> QED BY <1>1, <1>2, WFMin
<1>4. x \in 0..n /\ x \notin T /\ x # 0
  OBVIOUS
<1>5. x - 1 \in D
  BY <1>4
<1>6. <<x - 1, x>> \in Less
  BY <1>4 DEF Less, OpToRel
<1> QED BY <1>3, <1>5, <1>6

\* The S-boxes that the i-th round begins with.
First(i) == IF i % 2 = 1 THEN 0 ELSE 2

\* c holds the block before the first round and after each.
IsRounds(c, p, R, e) ==
  /\ c \in [0..R -> BlockSet]
  /\ c[0] = p
  /\ \A i \in 1..R : c[i] = DL(Substituted(c[i - 1], e[i], First(i)))

\* A round makes a block of a block.
LEMMA RoundOf ==
  ASSUME NEW x \in BlockSet, NEW key \in BlockSet, NEW i \in Nat
  PROVE  DL(Substituted(x, key, First(i))) \in BlockSet
BY SubstitutedOf, DiffusedTwice DEF First

\* There are such blocks for every number of rounds.
LEMMA RoundsExist ==
  ASSUME NEW R \in Nat, NEW p \in BlockSet, NEW e \in [1..(R + 1) -> BlockSet]
  PROVE  \E c : IsRounds(c, p, R, e)
<1> DEFINE T == {n \in 0..R : \E c : IsRounds(c, p, n, e)}
<1>1. 0 \in T
  <2>1. IsRounds([i \in 0..0 |-> p], p, 0, e)
    BY DEF IsRounds
  <2> QED BY <2>1
<1>2. ASSUME NEW n \in 0..(R - 1), n \in T
      PROVE  n + 1 \in T
  <2>1. PICK c : IsRounds(c, p, n, e)
    BY <1>2
  <2> DEFINE next == DL(Substituted(c[n], e[n + 1], First(n + 1)))
             h == [i \in 0..(n + 1) |-> IF i = n + 1 THEN next ELSE c[i]]
  <2>2. next \in BlockSet
    <3>1. c[n] \in BlockSet /\ e[n + 1] \in BlockSet /\ n + 1 \in Nat
      BY <2>1 DEF IsRounds
    <3> QED BY <3>1, RoundOf
  <2>3. h \in [0..(n + 1) -> BlockSet] /\ h[0] = p
    <3> HIDE DEF next
    <3> QED BY <2>1, <2>2 DEF IsRounds
  <2>4. ASSUME NEW i \in 1..(n + 1)
        PROVE  h[i] = DL(Substituted(h[i - 1], e[i], First(i)))
    <3>1. CASE i = n + 1
      <4>1. h[i] = next /\ h[i - 1] = c[n]
        BY <3>1
      <4> QED BY <3>1, <4>1
    <3>2. CASE i \in 1..n
      <4>1. h[i] = c[i] /\ h[i - 1] = c[i - 1]
        BY <3>2
      <4> QED BY <2>1, <3>2, <4>1 DEF IsRounds
    <3> QED BY <3>1, <3>2
  <2>5. IsRounds(h, p, n + 1, e)
    <3> HIDE DEF h
    <3> QED BY <2>3, <2>4 DEF IsRounds
  <2> QED BY <2>5
<1>3. \A n \in 0..R : n \in T
  <2> HIDE DEF T
  <2> QED BY <1>1, <1>2, UpTo
<1>4. R \in 0..R
  OBVIOUS
<1> QED BY <1>3, <1>4

\* Crypt goes through them, and takes back the last diffusion.
LEMMA CryptRounds ==
  ASSUME NEW R \in Nat, NEW p \in BlockSet, NEW e \in [1..(R + 1) -> BlockSet]
  PROVE  \E c : IsRounds(c, p, R, e) /\ Crypt(p, R, e) = XorBlock(e[R + 1], DL(c[R]))
<1> DEFINE Rec(g) == [i \in 0..R |->
             IF i = 0 THEN p
                      ELSE DL(Substituted(g[i-1], e[i], IF i % 2 = 1 THEN 0 ELSE 2))]
           c == CHOOSE g : g = Rec(g)
<1>1. Crypt(p, R, e) = XorBlock(e[R + 1], DL(c[R]))
  BY DEF Crypt
<1>2. \E g : g = Rec(g)
  <2>1. PICK g : IsRounds(g, p, R, e)
    BY RoundsExist
  <2>2. \A i \in 0..R : g[i] = Rec(g)[i]
    BY <2>1 DEF IsRounds, First
  <2>3. g = Rec(g)
    BY <2>1, <2>2 DEF IsRounds
  <2> QED BY <2>3
<1>3. c = Rec(c)
  <2> HIDE DEF Rec
  <2> QED BY <1>2
<1> HIDE DEF c
<1>4. /\ c[0] = p
      /\ \A i \in 1..R : c[i] = DL(Substituted(c[i - 1], e[i], First(i)))
  <2>1. \A i \in 0..R : c[i] = Rec(c)[i]
    BY <1>3
  <2> QED BY <2>1 DEF First
<1>5. \A i \in 0..R : i \in {n \in 0..R : c[n] \in BlockSet}
  <2> DEFINE T == {n \in 0..R : c[n] \in BlockSet}
  <2>1. 0 \in T
    BY <1>4
  <2>2. ASSUME NEW n \in 0..(R - 1), n \in T
        PROVE  n + 1 \in T
    <3>1. c[n] \in BlockSet /\ e[n + 1] \in BlockSet /\ n + 1 \in 1..R /\ n + 1 - 1 = n
      BY <2>2
    <3>2. c[n + 1] = DL(Substituted(c[n], e[n + 1], First(n + 1)))
      BY <1>4, <3>1
    <3>3. n + 1 \in Nat
      OBVIOUS
    <3>4. c[n + 1] \in BlockSet
      BY <3>1, <3>2, <3>3, RoundOf
    <3> QED BY <3>1, <3>4
  <2> HIDE DEF T
  <2>3. \A i \in 0..R : i \in T
    BY <2>1, <2>2, UpTo
  <2> QED BY <2>3 DEF T
<1>6. c \in [0..R -> BlockSet]
  <2>1. c = [i \in 0..R |-> c[i]]
    BY <1>3
  <2> QED BY <1>5, <2>1
<1> QED BY <1>1, <1>4, <1>6 DEF IsRounds

\* Crypt makes a block of a block.
LEMMA CryptOf ==
  ASSUME NEW R \in Nat, NEW p \in BlockSet, NEW e \in [1..(R + 1) -> BlockSet]
  PROVE  Crypt(p, R, e) \in BlockSet
<1>1. PICK c : IsRounds(c, p, R, e) /\ Crypt(p, R, e) = XorBlock(e[R + 1], DL(c[R]))
  BY CryptRounds
<1>2. c[R] \in BlockSet /\ e[R + 1] \in BlockSet
  BY <1>1 DEF IsRounds
<1> QED BY <1>1, <1>2, DiffusedTwice, XorBlockOf

\* The keys of decryption: those of encryption in reverse order, diffused but for the
\* first and the last.
Paired(R, e, d) ==
  /\ d[1] = e[R + 1]
  /\ d[R + 1] = e[1]
  /\ \A j \in 2..R : d[j] = DL(e[R + 2 - j])

\* Each round of decryption takes one of encryption back, under a key.
LEMMA CryptUndone ==
  ASSUME NEW R \in Nat \ {0}, R % 2 = 0, NEW p \in BlockSet,
         NEW e \in [1..(R + 1) -> BlockSet], NEW d \in [1..(R + 1) -> BlockSet],
         Paired(R, e, d)
  PROVE  Crypt(Crypt(p, R, e), R, d) = p
<1>1. PICK c : IsRounds(c, p, R, e) /\ Crypt(p, R, e) = XorBlock(e[R + 1], DL(c[R]))
  BY CryptRounds
<1> DEFINE q == Crypt(p, R, e)
<1>2. q \in BlockSet
  BY CryptOf
<1>3. PICK b : IsRounds(b, q, R, d) /\ Crypt(q, R, d) = XorBlock(d[R + 1], DL(b[R]))
  BY <1>2, CryptRounds
<1> DEFINE s(i) == Substituted(c[i - 1], e[i], First(i))
<1>4. \A i \in 1..R : /\ c[i - 1] \in BlockSet /\ c[i] \in BlockSet
                      /\ e[i] \in BlockSet /\ d[i] \in BlockSet
                      /\ First(i) \in {0, 2}
  BY <1>1 DEF IsRounds, First
<1>5. \A i \in 1..R : s(i) \in BlockSet /\ c[i] = DL(s(i)) /\ DL(c[i]) = s(i)
  <2> SUFFICES ASSUME NEW i \in 1..R
               PROVE  s(i) \in BlockSet /\ c[i] = DL(s(i)) /\ DL(c[i]) = s(i)
    OBVIOUS
  <2>1. s(i) \in BlockSet
    BY <1>4, SubstitutedOf
  <2>2. c[i] = DL(s(i))
    BY <1>1 DEF IsRounds
  <2> HIDE DEF s
  <2> QED BY <2>1, <2>2, DiffusedTwice
\* Substitution in round i + 1 of decryption takes that of round R - i back.
<1>6. ASSUME NEW i \in 0..(R - 1), b[i] = XorBlock(d[i + 1], s(R - i))
      PROVE  b[i + 1] = DL(XorBlock(e[R - i], c[R - i - 1]))
  <2> DEFINE m == R - i
  <2>1. /\ m \in 1..R /\ i + 1 \in 1..R /\ i + 1 - 1 = i
        /\ First(i + 1) = 2 - First(m)
    BY DEF First
  <2>2. b[i + 1] = DL(Substituted(b[i], d[i + 1], First(i + 1)))
    BY <1>3, <2>1 DEF IsRounds
  <2>3. b[i + 1] = DL(Substituted(XorBlock(d[i + 1], Substituted(c[m - 1], e[m], First(m))),
                                  d[i + 1], 2 - First(m)))
    BY <1>6, <2>1, <2>2
  <2>4. /\ c[m - 1] \in BlockSet /\ e[m] \in BlockSet /\ d[i + 1] \in BlockSet
        /\ First(m) \in {0, 2}
    BY <1>4, <2>1
  <2> HIDE DEF m
  <2>5. b[i + 1] = DL(XorBlock(e[m], c[m - 1]))
    BY <2>3, <2>4, SubstitutedBack
  <2> QED BY <2>5 DEF m
<1> DEFINE T == {i \in 0..(R - 1) : b[i] = XorBlock(d[i + 1], s(R - i))}
<1>7. \A i \in 0..(R - 1) : i \in T
  <2>1. 0 \in T
    <3>1. b[0] = XorBlock(e[R + 1], DL(c[R]))
      BY <1>1, <1>3 DEF IsRounds
    <3>2. DL(c[R]) = s(R) /\ d[1] = e[R + 1]
      BY <1>5 DEF Paired
    <3> HIDE DEF s
    <3> QED BY <3>1, <3>2
  <2>2. ASSUME NEW i \in 0..(R - 1 - 1), i \in T
        PROVE  i + 1 \in T
    <3> DEFINE m == R - i
               n == R - i - 1
    <3>1. /\ m \in 1..R /\ n \in 1..R /\ i + 1 \in 0..(R - 1) /\ i \in 0..(R - 1)
          /\ R - (i + 1) = n /\ i + 2 \in 2..R /\ R + 2 - (i + 2) = m /\ i + 1 + 1 = i + 2
      OBVIOUS
    <3>2. b[i + 1] = DL(XorBlock(e[m], c[n]))
      BY <1>6, <2>2, <3>1
    <3>3. e[m] \in BlockSet /\ c[n] \in BlockSet /\ DL(c[n]) = s(n)
      BY <1>4, <1>5, <3>1
    <3>4. d[i + 2] = DL(e[m])
      BY <3>1 DEF Paired
    <3> HIDE DEF m, n, s
    <3>5. b[i + 1] = XorBlock(d[i + 2], s(n))
      BY <3>2, <3>3, <3>4, DiffusedXor
    <3> QED BY <3>1, <3>5
  <2> HIDE DEF T
  <2>3. R - 1 \in Nat
    OBVIOUS
  <2> QED BY <2>1, <2>2, <2>3, UpTo
<1>8. b[R] = DL(XorBlock(e[1], p))
  <2>1. R - 1 \in 0..(R - 1) /\ R - (R - 1) = 1 /\ R - 1 + 1 = R /\ R - (R - 1) - 1 = 0
    OBVIOUS
  <2>2. b[R - 1] = XorBlock(d[R - 1 + 1], s(R - (R - 1)))
    BY <1>7, <2>1
  <2>3. b[R - 1 + 1] = DL(XorBlock(e[R - (R - 1)], c[R - (R - 1) - 1]))
    BY <1>6, <2>1, <2>2
  <2>4. c[0] = p
    BY <1>1 DEF IsRounds
  <2> QED BY <2>1, <2>3, <2>4
<1>9. e[1] \in BlockSet /\ XorBlock(e[1], p) \in BlockSet
  BY XorBlockOf
<1>10. Crypt(q, R, d) = XorBlock(e[1], XorBlock(e[1], p))
  BY <1>3, <1>8, <1>9, DiffusedTwice DEF Paired
<1> QED BY <1>9, <1>10, XorBlockTwice

-----------------------------------------------------------------------------
(* The round keys.                                                          *)

MasterKeys == [1..32 -> Byte]

\* The two parts of a rotated byte have no bit in common.
LEMMA RotatedByte ==
  ASSUME NEW a \in Byte, NEW b \in Byte
  PROVE  /\ (a \div 2) + ((b * 128) % 256) \in Byte
         /\ (a \div 8) + ((b * 32) % 256) \in Byte
         /\ (a \div 32) + ((b * 8) % 256) \in Byte
         /\ (a \div 128) + ((b * 2) % 256) \in Byte
BY DEF Byte

\* RotXOR makes a block, by any of the turns in EncKeySetup.
LEMMA RotXOROf ==
  ASSUME NEW x \in BlockSet, NEW y \in BlockSet, NEW n \in {19, 31, 67, 97, 109}
  PROVE  RotXOR(x, n, y) \in BlockSet
<1> DEFINE At(i) == x[((i - 1) % 16) + 1]
           q == 16 - (n \div 8)
           High(b) == b \div 2 ^ (n % 8)
           Low(b) == IF n % 8 = 0 THEN 0 ELSE (b * 2 ^ (8 - (n % 8))) % 256
           r == [i \in Positions |-> High(At(i + q)) + Low(At(i + q - 1))]
<1>1. q \in 3..14 /\ n % 8 \in {1, 3, 5, 7}
  OBVIOUS
<1>2. ASSUME NEW i \in Positions
      PROVE  At(i + q) \in Byte /\ At(i + q - 1) \in Byte
  <2>1. ASSUME NEW j \in Int
        PROVE  At(j) \in Byte
    <3>1. ((j - 1) % 16) + 1 \in Positions
      BY DEF Positions
    <3> QED BY <3>1 DEF BlockSet
  <2>2. i + q \in Int /\ i + q - 1 \in Int
    BY <1>1 DEF Positions
  <2> HIDE DEF q, At
  <2> QED BY <2>1, <2>2
<1>3. ASSUME NEW a \in Byte, NEW b \in Byte
      PROVE  High(a) + Low(b) \in Byte
  <2>1. 2 ^ 1 = 2 /\ 2 ^ 3 = 8 /\ 2 ^ 5 = 32 /\ 2 ^ 7 = 128
    OBVIOUS
  <2> DEFINE k == n % 8
  <2>2. High(a) = a \div 2 ^ k /\ Low(b) = (b * 2 ^ (8 - k)) % 256
    BY <1>1
  <2> HIDE DEF k, High, Low
  <2>3. CASE k = 1
    <3>1. 8 - k = 7
      BY <2>3
    <3>2. High(a) = a \div 2 /\ Low(b) = (b * 128) % 256
      BY <2>1, <2>2, <2>3, <3>1
    <3> QED BY <3>2, RotatedByte
  <2>4. CASE k = 3
    <3>1. 8 - k = 5
      BY <2>4
    <3>2. High(a) = a \div 8 /\ Low(b) = (b * 32) % 256
      BY <2>1, <2>2, <2>4, <3>1
    <3> QED BY <3>2, RotatedByte
  <2>5. CASE k = 5
    <3>1. 8 - k = 3
      BY <2>5
    <3>2. High(a) = a \div 32 /\ Low(b) = (b * 8) % 256
      BY <2>1, <2>2, <2>5, <3>1
    <3> QED BY <3>2, RotatedByte
  <2>6. CASE k = 7
    <3>1. 8 - k = 1
      BY <2>6
    <3>2. High(a) = a \div 128 /\ Low(b) = (b * 2) % 256
      BY <2>1, <2>2, <2>6, <3>1
    <3> QED BY <3>2, RotatedByte
  <2> QED BY <1>1, <2>3, <2>4, <2>5, <2>6 DEF k
<1>4. r \in BlockSet
  <2> HIDE DEF High, Low, At, q
  <2> QED BY <1>2, <1>3 DEF BlockSet
<1>5. RotXOR(x, n, y) = XorBlock(y, Block(r))
  BY DEF RotXOR
<1> HIDE DEF r
<1> QED BY <1>4, <1>5, BlockOf, XorBlockOf

\* The rounds for the three sizes of key, and the first of the constants.
LEMMA RoundsOf ==
  ASSUME NEW keyBits \in KeySizes
  PROVE  /\ Rounds(keyBits) \in {12, 14, 16}
         /\ (keyBits - 128) \div 64 \in 0..2
BY DEF KeySizes, Rounds

\* The constants of the key generation are blocks.
LEMMA ConstantsOf == \A q \in Nat : KRK[(q % 3) + 1] \in BlockSet
<1>1. KRK[1] \in BlockSet /\ KRK[2] \in BlockSet /\ KRK[3] \in BlockSet
  BY DEF KRK, BlockSet, Positions, Byte
<1>2. \A q \in Nat : (q % 3) + 1 \in {1, 2, 3}
  OBVIOUS
<1> QED BY <1>1, <1>2

\* The two halves of a master key are blocks.
LEMMA KeyRightOf ==
  ASSUME NEW w0 \in MasterKeys, NEW keyBits \in KeySizes
  PROVE  KeyRight(w0, keyBits) \in BlockSet /\ SubSeq(w0, 1, 16) \in BlockSet
<1> DEFINE r == [i \in Positions |-> IF 16 + i <= keyBits \div 8 THEN w0[16 + i] ELSE 0]
<1>1. r \in BlockSet
  <2> SUFFICES ASSUME NEW i \in Positions
               PROVE  (IF 16 + i <= keyBits \div 8 THEN w0[16 + i] ELSE 0) \in Byte
    BY DEF BlockSet
  <2>1. w0[16 + i] \in Byte /\ 0 \in Byte
    BY DEF MasterKeys, Positions, Byte
  <2> QED BY <2>1
<1>2. KeyRight(w0, keyBits) = Block(r)
  BY DEF KeyRight
<1>3. SubSeq(w0, 1, 16) \in BlockSet
  <2>1. \A i \in 1..(1 + 15) : w0[i] \in Byte
    BY DEF MasterKeys
  <2>2. SubSeq(w0, 1, 1 + 15) \in BlockSet
    BY <2>1, SliceOf
  <2>3. 1 + 15 = 16
    OBVIOUS
  <2> QED BY <2>2, <2>3
<1> HIDE DEF r
<1> QED BY <1>1, <1>2, <1>3, BlockOf

\* EncKeySetup makes one block more than there are rounds.
LEMMA EncKeysOf ==
  ASSUME NEW w0 \in MasterKeys, NEW keyBits \in KeySizes
  PROVE  EncKeySetup(w0, keyBits) \in [1..(Rounds(keyBits) + 1) -> BlockSet]
<1> DEFINE q == (keyBits - 128) \div 64
           C(n) == KRK[((q + n) % 3) + 1]
           l == SubSeq(w0, 1, 16)
           w1 == XorBlock(DL(Substituted(l, C(0), 0)), KeyRight(w0, keyBits))
           w2 == XorBlock(DL(Substituted(w1, C(1), 2)), l)
           w3 == XorBlock(DL(Substituted(w2, C(2), 0)), w1)
           w == <<l, w1, w2, w3>>
           Turn == <<19, 31, 67, 97, 109>>
           K(j) == RotXOR(w[(j % 4) + 1], Turn[((j - 1) \div 4) + 1], w[((j - 1) % 4) + 1])
           R == Rounds(keyBits)
<1>1. EncKeySetup(w0, keyBits) = <<>> \o [j \in 1..(R + 1) |-> K(j)]
  BY DEF EncKeySetup
<1>2. C(0) \in BlockSet /\ C(1) \in BlockSet /\ C(2) \in BlockSet
  <2>1. q + 0 \in Nat /\ q + 1 \in Nat /\ q + 2 \in Nat
    BY RoundsOf
  <2> HIDE DEF q
  <2> QED BY <2>1, ConstantsOf
<1>3. l \in BlockSet /\ KeyRight(w0, keyBits) \in BlockSet
  BY KeyRightOf
<1> HIDE DEF C, l
<1>4. w1 \in BlockSet
  BY <1>2, <1>3, SubstitutedOf, DiffusedTwice, XorBlockOf
<1> HIDE DEF w1
<1>5. w2 \in BlockSet
  BY <1>2, <1>3, <1>4, SubstitutedOf, DiffusedTwice, XorBlockOf
<1> HIDE DEF w2
<1>6. w3 \in BlockSet
  BY <1>2, <1>4, <1>5, SubstitutedOf, DiffusedTwice, XorBlockOf
<1> HIDE DEF w3
<1>7. \A i \in 1..4 : w[i] \in BlockSet
  BY <1>3, <1>4, <1>5, <1>6
<1>8. \A i \in 1..5 : Turn[i] \in {19, 31, 67, 97, 109}
  OBVIOUS
<1>9. R \in {12, 14, 16}
  BY RoundsOf
<1> HIDE DEF w, Turn, R
<1>10. ASSUME NEW j \in 1..(R + 1)
       PROVE  K(j) \in BlockSet
  <2>1. (j % 4) + 1 \in 1..4 /\ ((j - 1) % 4) + 1 \in 1..4 /\ ((j - 1) \div 4) + 1 \in 1..5
    BY <1>9
  <2> QED BY <1>7, <1>8, <2>1, RotXOROf
<1> HIDE DEF K
<1>11. /\ [j \in 1..(R + 1) |-> K(j)] \in [1..(R + 1) -> BlockSet]
       /\ R + 1 \in Nat
  BY <1>9, <1>10
<1>12. EncKeySetup(w0, keyBits) \in [1..(R + 1) -> BlockSet]
  BY <1>1, <1>11, SequenceOf
<1> QED BY <1>12 DEF R

\* Decryption has the keys that it needs.
LEMMA DecKeysOf ==
  ASSUME NEW w0 \in MasterKeys, NEW keyBits \in KeySizes
  PROVE  /\ DecKeySetup(w0, keyBits) \in [1..(Rounds(keyBits) + 1) -> BlockSet]
         /\ Paired(Rounds(keyBits), EncKeySetup(w0, keyBits), DecKeySetup(w0, keyBits))
<1> DEFINE e == EncKeySetup(w0, keyBits)
           R == Rounds(keyBits)
           D(j) == IF j \in {1, R + 1} THEN e[R + 2 - j] ELSE DL(e[R + 2 - j])
           d == DecKeySetup(w0, keyBits)
<1>1. d = <<>> \o [j \in 1..(R + 1) |-> D(j)]
  BY DEF DecKeySetup
<1>2. R \in {12, 14, 16} /\ e \in [1..(R + 1) -> BlockSet]
  BY RoundsOf, EncKeysOf
<1> HIDE DEF e, R, d
<1>3. ASSUME NEW j \in 1..(R + 1)
      PROVE  D(j) \in BlockSet
  <2>1. R + 2 - j \in 1..(R + 1)
    BY <1>2
  <2>2. e[R + 2 - j] \in BlockSet
    BY <1>2, <2>1
  <2> QED BY <2>2, DiffusedTwice
<1>4. d = [j \in 1..(R + 1) |-> D(j)] /\ d \in [1..(R + 1) -> BlockSet]
  <2> HIDE DEF D
  <2>1. /\ [j \in 1..(R + 1) |-> D(j)] \in [1..(R + 1) -> BlockSet]
        /\ R + 1 \in Nat
    BY <1>2, <1>3
  <2> QED BY <1>1, <2>1, SequenceOf
<1>5. Paired(R, e, d)
  <2>1. \A j \in 1..(R + 1) : d[j] = D(j)
    BY <1>4
  <2>2. /\ 1 \in 1..(R + 1) /\ R + 1 \in 1..(R + 1) /\ R + 2 - 1 = R + 1 /\ R + 2 - (R + 1) = 1
        /\ \A j \in 2..R : j \in 1..(R + 1) /\ j \notin {1, R + 1}
    BY <1>2
  <2> QED BY <2>1, <2>2 DEF Paired
<1> QED BY <1>4, <1>5 DEF e, R, d

\* Crypt with the keys of DecKeySetup undoes Crypt with those of EncKeySetup, for each key,
\* each size and each block.
THEOREM DecryptionUndoesEncryption ==
  ASSUME NEW w0 \in MasterKeys, NEW keyBits \in KeySizes, NEW p \in BlockSet
  PROVE  Crypt(Crypt(p, Rounds(keyBits), EncKeySetup(w0, keyBits)),
               Rounds(keyBits), DecKeySetup(w0, keyBits)) = p
<1> DEFINE e == EncKeySetup(w0, keyBits)
           d == DecKeySetup(w0, keyBits)
           R == Rounds(keyBits)
<1>1. R \in {12, 14, 16}
  BY RoundsOf
<1>2. /\ e \in [1..(R + 1) -> BlockSet] /\ d \in [1..(R + 1) -> BlockSet]
      /\ Paired(R, e, d)
  BY EncKeysOf, DecKeysOf
<1> HIDE DEF e, d, R
<1>3. R \in Nat \ {0} /\ R % 2 = 0
  BY <1>1
<1>4. Crypt(Crypt(p, R, e), R, d) = p
  BY <1>2, <1>3, CryptUndone
<1> QED BY <1>4 DEF e, d, R

-----------------------------------------------------------------------------
(* The module's blocks.                                                     *)

RoundKeys == [1..(Rounds(KEY_BIT) + 1) -> BlockSet]

\* The module's keys, originKey among them, are master keys.
LEMMA KeysOf ==
  ASSUME NEW k \in Keys
  PROVE  k \in MasterKeys /\ k # NoKey
<1>1. originKey \in MasterKeys
  <2> DEFINE o == [i \in 1..32 |-> <<111, 112, 55, 53, 57, 49>>[((i - 1) % 6) + 1]]
  <2>1. o \in [1..32 -> Byte]
    BY DEF Byte
  <2>2. originKey = <<>> \o o
    BY DEF originKey
  <2> HIDE DEF o
  <2> QED BY <2>1, <2>2, SequenceOf DEF MasterKeys
<1>2. k \in MasterKeys
  <2>1. OtherKeys \subseteq MasterKeys
    BY AriaModuleAssumption DEF MasterKeys
  <2> QED BY <1>1, <2>1 DEF Keys
<1>3. DOMAIN k = 1..32 /\ DOMAIN NoKey = 1..0
  BY <1>2 DEF MasterKeys, NoKey
<1>4. 1 \in 1..32 /\ 1 \notin 1..0
  OBVIOUS
<1> QED BY <1>2, <1>3, <1>4

\* The round keys of RenewalAriaTRxKey decrypt what they encrypt.
LEMMA RoundKeysOf ==
  ASSUME NEW k \in Keys
  PROVE  /\ TxKeys[k] \in RoundKeys /\ RxKeys[k] \in RoundKeys
         /\ \A b \in BlockSet :
              Crypt(Crypt(b, Rounds(KEY_BIT), TxKeys[k]), Rounds(KEY_BIT), RxKeys[k]) = b
<1>1. KEY_BIT \in KeySizes /\ k \in MasterKeys
  BY KeysOf DEF KEY_BIT, KeySizes
<1>2. TxKeys[k] = EncKeySetup(k, KEY_BIT) /\ RxKeys[k] = DecKeySetup(k, KEY_BIT)
  BY DEF TxKeys, RxKeys
<1> QED BY <1>1, <1>2, EncKeysOf, DecKeysOf, DecryptionUndoesEncryption DEF RoundKeys

\* Block b of a byte string.
Slice(in, b) == SubSeq(in, ARIA_NB * (b - 1) + 1, ARIA_NB * b)

\* Each block that the module cuts from a byte string is one.
LEMMA SlicesOf ==
  ASSUME NEW in \in Seq(Byte), NEW b \in 1..(Len(in) \div ARIA_NB)
  PROVE  /\ Slice(in, b) \in BlockSet
         /\ \A i \in Positions : Slice(in, b)[i] = in[ARIA_NB * (b - 1) + i]
<1> DEFINE m == 16 * (b - 1) + 1
           n == Len(in)
<1>1. b \in 1..(n \div 16) /\ n \in Nat
  BY DEF ARIA_NB
<1>2. m \in Nat /\ m >= 1 /\ m + 15 = 16 * b /\ m + 15 <= n
  <2> HIDE DEF n
  <2> QED BY <1>1
<1>3. \A i \in m..(m + 15) : in[i] \in Byte
  <2> HIDE DEF m
  <2>1. \A i \in m..(m + 15) : i \in 1..n
    BY <1>1, <1>2
  <2> QED BY <2>1, ElementOfSeq
<1>4. Slice(in, b) = SubSeq(in, m, m + 15)
  <2>1. Slice(in, b) = SubSeq(in, m, 16 * b)
    BY DEF Slice, ARIA_NB
  <2> HIDE DEF m
  <2> QED BY <1>2, <2>1
<1>5. \A i \in Positions : m + i - 1 = 16 * (b - 1) + i
  BY DEF Positions
<1> HIDE DEF m
<1>6. /\ SubSeq(in, m, m + 15) \in BlockSet
      /\ \A i \in Positions : SubSeq(in, m, m + 15)[i] = in[m + i - 1]
  BY <1>2, <1>3, SliceOf
<1>7. \A i \in Positions : Slice(in, b)[i] = in[ARIA_NB * (b - 1) + i]
  BY <1>4, <1>5, <1>6 DEF ARIA_NB
<1> QED BY <1>4, <1>6, <1>7

\* Every byte of the result, by its block.
LEMMA InBlocksOf ==
  ASSUME NEW in \in Seq(Byte), NEW e \in RoundKeys
  PROVE  /\ InBlocks(in, e) \in Seq(Byte)
         /\ Len(InBlocks(in, e)) = ARIA_NB * (Len(in) \div ARIA_NB)
         /\ \A b \in 1..(Len(in) \div ARIA_NB), i \in Positions :
              /\ ARIA_NB * (b - 1) + i \in 1..(ARIA_NB * (Len(in) \div ARIA_NB))
              /\ InBlocks(in, e)[ARIA_NB * (b - 1) + i]
                   = Crypt(Slice(in, b), Rounds(KEY_BIT), e)[i]
<1> DEFINE n == Len(in) \div ARIA_NB
           C(b) == Crypt(Slice(in, b), Rounds(KEY_BIT), e)
           out == <<>> \o [b \in 1..n |-> C(b)]
           B(i) == ((i - 1) \div ARIA_NB) + 1
           P(i) == ((i - 1) % ARIA_NB) + 1
           f == [i \in 1..(ARIA_NB * n) |-> out[B(i)][P(i)]]
<1>1. InBlocks(in, e) = <<>> \o f
  BY DEF InBlocks, Slice
<1>2. n \in Nat /\ ARIA_NB * n \in Nat
  <2>1. Len(in) \in Nat
    OBVIOUS
  <2> QED BY <2>1 DEF ARIA_NB
<1>3. \A b \in 1..n : C(b) \in BlockSet
  <2>1. Rounds(KEY_BIT) \in Nat
    BY DEF Rounds, KEY_BIT
  <2> QED BY <2>1, SlicesOf, CryptOf DEF RoundKeys
<1>4. out = [b \in 1..n |-> C(b)]
  <2> HIDE DEF C, n
  <2>1. [b \in 1..n |-> C(b)] \in [1..n -> BlockSet]
    BY <1>3
  <2> QED BY <1>2, <2>1, SequenceOf
<1> HIDE DEF n, out, C
<1>5. \A b \in 1..n : out[b] = C(b) /\ out[b] \in [1..16 -> Byte]
  BY <1>3, <1>4 DEF BlockSet, Positions
<1>6. \A i \in 1..(ARIA_NB * n) : B(i) \in 1..n /\ P(i) \in 1..16
  BY <1>2 DEF ARIA_NB
<1> HIDE DEF B, P
<1>7. f \in [1..(ARIA_NB * n) -> Byte]
  <2>1. \A i \in 1..(ARIA_NB * n) : out[B(i)][P(i)] \in Byte
    BY <1>5, <1>6
  <2> QED BY <2>1
<1>8. ASSUME NEW b \in 1..n, NEW i \in Positions
      PROVE  /\ ARIA_NB * (b - 1) + i \in 1..(ARIA_NB * n)
             /\ f[ARIA_NB * (b - 1) + i] = C(b)[i]
  <2> DEFINE j == ARIA_NB * (b - 1) + i
  <2>1. j \in 1..(ARIA_NB * n) /\ B(j) = b /\ P(j) = i
    BY <1>2 DEF ARIA_NB, Positions, B, P
  <2> HIDE DEF j
  <2>2. f[j] = C(b)[i]
    BY <1>5, <2>1
  <2> QED BY <2>1, <2>2 DEF j
<1> HIDE DEF f
<1>9. InBlocks(in, e) = f /\ f \in Seq(Byte) /\ Len(f) = ARIA_NB * n
  BY <1>1, <1>2, <1>7, SequenceOf
<1> QED BY <1>8, <1>9 DEF n, C

\* Whole blocks come back from the key that they went under.
LEMMA InBlocksUndone ==
  ASSUME NEW k \in Keys, NEW in \in Seq(Byte), Len(in) % ARIA_NB = 0
  PROVE  InBlocks(InBlocks(in, TxKeys[k]), RxKeys[k]) = in
<1> DEFINE n == Len(in) \div ARIA_NB
           R == Rounds(KEY_BIT)
           mid == InBlocks(in, TxKeys[k])
           out == InBlocks(mid, RxKeys[k])
<1>1. Len(in) \in Nat /\ n \in Nat /\ ARIA_NB * n = Len(in)
  <2>1. Len(in) \in Nat
    OBVIOUS
  <2> DEFINE l == Len(in)
  <2>2. l \in Nat /\ l % 16 = 0
    BY <2>1 DEF ARIA_NB
  <2> HIDE DEF l
  <2>3. l \div 16 \in Nat /\ 16 * (l \div 16) = l
    BY <2>2
  <2> QED BY <2>1, <2>3 DEF l, ARIA_NB
<1>2. TxKeys[k] \in RoundKeys /\ RxKeys[k] \in RoundKeys
  BY RoundKeysOf
<1>3. /\ mid \in Seq(Byte) /\ Len(mid) = ARIA_NB * n
      /\ \A b \in 1..n, i \in Positions :
           mid[ARIA_NB * (b - 1) + i] = Crypt(Slice(in, b), R, TxKeys[k])[i]
  BY <1>2, InBlocksOf
<1> HIDE DEF mid
<1>4. Len(mid) \div ARIA_NB = n
  BY <1>1, <1>3
<1>5. /\ out \in Seq(Byte) /\ Len(out) = Len(in)
      /\ \A b \in 1..n, i \in Positions :
           out[ARIA_NB * (b - 1) + i] = Crypt(Slice(mid, b), R, RxKeys[k])[i]
  BY <1>1, <1>2, <1>3, <1>4, InBlocksOf
<1> HIDE DEF out
<1>6. ASSUME NEW b \in 1..n
      PROVE  Crypt(Slice(mid, b), R, RxKeys[k]) = Slice(in, b)
  <2> DEFINE c == Crypt(Slice(in, b), R, TxKeys[k])
  <2>1. Slice(in, b) \in BlockSet
    BY SlicesOf
  <2>2. c \in BlockSet
    <3>1. R \in Nat
      BY DEF Rounds, KEY_BIT
    <3> QED BY <1>2, <2>1, <3>1, CryptOf DEF RoundKeys
  <2>3. /\ Slice(mid, b) \in BlockSet
        /\ \A i \in Positions : Slice(mid, b)[i] = mid[ARIA_NB * (b - 1) + i]
    BY <1>3, <1>4, SlicesOf
  <2>4. \A i \in Positions : Slice(mid, b)[i] = c[i]
    BY <1>3, <2>3
  <2>5. Slice(mid, b) = c
    <3> HIDE DEF c
    <3> QED BY <2>2, <2>3, <2>4 DEF BlockSet
  <2>6. Crypt(c, R, RxKeys[k]) = Slice(in, b)
    BY <2>1, RoundKeysOf
  <2> QED BY <2>5, <2>6
<1>7. ASSUME NEW j \in 1..Len(in)
      PROVE  out[j] = in[j]
  <2> DEFINE b == ((j - 1) \div 16) + 1
             i == ((j - 1) % 16) + 1
  <2>1. b \in 1..n /\ i \in Positions /\ ARIA_NB * (b - 1) + i = j
    <3> DEFINE l == Len(in)
    <3>1. l \in Nat /\ n \in Nat /\ 16 * n = l /\ j \in 1..l
      BY <1>1 DEF ARIA_NB
    <3> HIDE DEF l, n
    <3> QED BY <3>1 DEF ARIA_NB, Positions
  <2> HIDE DEF b, i, n
  <2>2. out[j] = Slice(in, b)[i]
    BY <1>5, <1>6, <2>1
  <2>3. Slice(in, b)[i] = in[j]
    BY <2>1, SlicesOf DEF n
  <2> QED BY <2>2, <2>3
<1>8. out = in
  BY <1>5, <1>7, SeqEqual
<1> QED BY <1>8 DEF out, mid

-----------------------------------------------------------------------------
(* Padding.                                                                 *)

\* What is padded is whole blocks: the data but for their last byte, and spaces.
LEMMA PaddedOf ==
  ASSUME NEW in \in Data
  PROVE  LET kept == IF Len(in) % ARIA_NB = 0 THEN Len(in) ELSE Len(in) - 1
         IN /\ in \in Seq(Byte) /\ Len(in) \in Nat
            /\ Padded(in) \in Seq(Byte)
            /\ Len(Padded(in)) \in Len(in)..(Len(in) + ARIA_NB - 1)
            /\ Len(Padded(in)) % ARIA_NB = 0
            /\ \A i \in 1..kept : Padded(in)[i] = in[i]
            /\ \A i \in (kept + 1)..Len(Padded(in)) : Padded(in)[i] = 32
<1> DEFINE l == Len(in)
           over == l % ARIA_NB
           kept == IF Len(in) % ARIA_NB = 0 THEN Len(in) ELSE Len(in) - 1
           head == SubSeq(in, 1, l - 1)
           n == ARIA_NB - over + 1
           spaces == [i \in 1..n |-> 32]
<1>1. in \in Seq(Byte) /\ l \in Nat
  BY AriaModuleAssumption
<1>2. CASE over = 0
  <2>1. Padded(in) = in /\ kept = l
    BY <1>2 DEF Padded
  <2> HIDE DEF kept
  <2>2. l \in l..(l + ARIA_NB - 1) /\ \A i \in (l + 1)..l : FALSE
    BY <1>1 DEF ARIA_NB
  <2> QED BY <1>1, <1>2, <2>1, <2>2 DEF kept
<1>3. CASE over # 0
  <2>1. Padded(in) = head \o spaces /\ kept = l - 1
    BY <1>3 DEF Padded
  <2>2. /\ l \in Nat /\ l >= 1 /\ over \in 1..15 /\ n \in Nat /\ l - 1 \in Nat
        /\ l - 1 + n \in l..(l + ARIA_NB - 1) /\ (l - 1 + n) % ARIA_NB = 0
    <3> DEFINE m == Len(in)
    <3>1. m \in Nat /\ m % 16 # 0
      BY <1>1, <1>3 DEF ARIA_NB
    <3> HIDE DEF m
    <3>2. /\ m >= 1 /\ m % 16 \in 1..15 /\ 16 - (m % 16) + 1 \in Nat /\ m - 1 \in Nat
          /\ m - 1 + (16 - (m % 16) + 1) \in m..(m + 16 - 1)
          /\ (m - 1 + (16 - (m % 16) + 1)) % 16 = 0
      BY <3>1
    <3> QED BY <3>1, <3>2 DEF m, ARIA_NB
  <2>3. /\ head \in Seq(Byte) /\ Len(head) = l - 1
        /\ \A i \in 1..(l - 1) : head[i] = in[i]
    <3> HIDE DEF l
    <3>1. \A i \in 1..(l - 1) : in[i] \in Byte
      BY <1>1, <2>2, ElementOfSeq DEF l
    <3>2. /\ head \in Seq(Byte)
          /\ Len(head) = IF 1 <= l - 1 THEN l - 1 - 1 + 1 ELSE 0
          /\ \A i \in 1..(l - 1 - 1 + 1) : head[i] = in[1 + i - 1]
      <4>1. 1 \in Int /\ l - 1 \in Int
        BY <1>1
      <4> QED BY <3>1, <4>1, SubSeqProperties
    <3>3. /\ l - 1 - 1 + 1 = l - 1 /\ (~ 1 <= l - 1 => l - 1 = 0)
          /\ \A i \in 1..(l - 1) : 1 + i - 1 = i
      BY <2>2
    <3> HIDE DEF head
    <3> QED BY <3>2, <3>3
  <2>4. /\ spaces \in Seq(Byte) /\ Len(spaces) = n
        /\ \A i \in 1..n : spaces[i] = 32
    <3> HIDE DEF n
    <3>1. spaces \in [1..n -> Byte]
      BY DEF Byte
    <3> QED BY <2>2, <3>1, SequenceOf
  <2> HIDE DEF l, over, head, n, spaces, kept
  <2>5. /\ head \o spaces \in Seq(Byte)
        /\ Len(head \o spaces) = l - 1 + n
        /\ \A i \in 1..(l - 1 + n) : (head \o spaces)[i] =
             IF i <= l - 1 THEN head[i] ELSE spaces[i - (l - 1)]
    BY <2>3, <2>4, ConcatProperties
  <2>6. \A i \in 1..(l - 1) : (head \o spaces)[i] = in[i]
    <3>1. \A i \in 1..(l - 1) : i \in 1..(l - 1 + n) /\ i <= l - 1
      BY <2>2
    <3> QED BY <2>3, <2>5, <3>1
  <2>7. \A i \in (l - 1 + 1)..(l - 1 + n) : (head \o spaces)[i] = 32
    <3>1. \A i \in (l - 1 + 1)..(l - 1 + n) :
            i \in 1..(l - 1 + n) /\ ~ i <= l - 1 /\ i - (l - 1) \in 1..n
      BY <2>2
    <3> QED BY <2>4, <2>5, <3>1
  <2> QED BY <1>1, <2>1, <2>2, <2>5, <2>6, <2>7 DEF l, kept
<1> QED BY <1>2, <1>3

-----------------------------------------------------------------------------
(* The programs.                                                            *)

IsMessage(m) ==
  \E k \in Keys, in \in Data : m = [in |-> in, key |-> k, out |-> Encripted[k][in]]

\* A program renews the two keys together.
KeysPaired ==
  /\ txRoundKey \in [Peers -> Keys \cup {NoKey}]
  /\ rxRoundKey = txRoundKey

\* What is under way, and what arrived, was made by the two functions.
MessageMade == message = NoMessage \/ IsMessage(message)

ReceivedMade ==
  \/ received = Nothing
  \/ /\ IsMessage(received.from)
     /\ received.key \in Keys
     /\ received.out = Decripted[received.key][received.from.out]

AriaInv == KeysPaired /\ MessageMade /\ ReceivedMade

\* A message is whole blocks; they come back with its key, and as many with another.
LEMMA MessageOf ==
  ASSUME NEW m, IsMessage(m)
  PROVE  /\ m.key \in Keys /\ m.in \in Data /\ m # NoMessage
         /\ m.out \in Seq(Byte) /\ m.out \in Sent
         /\ Len(m.out) = Len(Padded(m.in))
         /\ \A k \in Keys : /\ Decripted[k][m.out] \in Seq(Byte)
                            /\ Len(Decripted[k][m.out]) = Len(m.out)
         /\ Decripted[m.key][m.out] = Padded(m.in)
<1>1. PICK k \in Keys, in \in Data : m = [in |-> in, key |-> k, out |-> Encripted[k][in]]
  BY DEF IsMessage
<1>2. m.key = k /\ m.in = in /\ m.out = Encripted[k][in]
  BY <1>1
<1>3. m # NoMessage
  <2>1. NoMessage.key = NoKey
    BY DEF NoMessage
  <2> QED BY <1>2, <2>1, KeysOf
<1> DEFINE text == Padded(in)
           out == m.out
<1>4. text \in Seq(Byte) /\ Len(text) \in Nat /\ Len(text) % ARIA_NB = 0
  <2>1. text \in Seq(Byte) /\ Len(text) % ARIA_NB = 0
    BY PaddedOf
  <2> HIDE DEF text
  <2> QED BY <2>1
<1>5. out = InBlocks(text, TxKeys[k]) /\ out \in Sent
  BY <1>2 DEF Encripted, Sent
<1> HIDE DEF text, out
<1>6. ARIA_NB * (Len(text) \div ARIA_NB) = Len(text)
  <2> DEFINE l == Len(text)
  <2>1. l \in Nat /\ l % 16 = 0
    BY <1>4 DEF ARIA_NB
  <2> HIDE DEF l
  <2>2. 16 * (l \div 16) = l
    BY <2>1
  <2> QED BY <2>2 DEF l, ARIA_NB
<1>7. out \in Seq(Byte) /\ Len(out) = Len(text)
  BY <1>4, <1>5, <1>6, RoundKeysOf, InBlocksOf
<1>8. Filled(out) = out
  BY <1>4, <1>7 DEF Filled
<1>9. \A key \in Keys : Decripted[key][out] = InBlocks(out, RxKeys[key])
  BY <1>5, <1>8 DEF Decripted
<1>10. \A key \in Keys : /\ Decripted[key][out] \in Seq(Byte)
                         /\ Len(Decripted[key][out]) = Len(out)
  <2> SUFFICES ASSUME NEW key \in Keys
               PROVE  /\ Decripted[key][out] \in Seq(Byte)
                      /\ Len(Decripted[key][out]) = Len(out)
    OBVIOUS
  <2>1. /\ InBlocks(out, RxKeys[key]) \in Seq(Byte)
        /\ Len(InBlocks(out, RxKeys[key])) = ARIA_NB * (Len(out) \div ARIA_NB)
    BY <1>7, RoundKeysOf, InBlocksOf
  <2> QED BY <1>6, <1>7, <1>9, <2>1
<1>11. Decripted[k][out] = text
  BY <1>4, <1>5, <1>9, InBlocksUndone
<1> QED BY <1>2, <1>3, <1>5, <1>7, <1>10, <1>11 DEF text, out

\* No program has a key, and nothing is under way.
THEOREM InitInv == Init => AriaInv
BY DEF Init, AriaInv, KeysPaired, MessageMade, ReceivedMade

\* Renewals, encryption and decryption by any program keep the invariant.
THEOREM NextInv == AriaInv /\ [Next]_vars => AriaInv'
<1> SUFFICES ASSUME AriaInv, [Next]_vars
             PROVE  AriaInv'
  OBVIOUS
<1> USE DEF AriaInv
<1>1. ASSUME NEW p \in Peers, NEW key \in Keys, RenewalAriaKey(p, key)
      PROVE  AriaInv'
  <2>1. KeysPaired'
    BY <1>1 DEF RenewalAriaKey, RxRenewal, KeysPaired
  <2>2. MessageMade' /\ ReceivedMade'
    BY <1>1 DEF RenewalAriaKey, MessageMade, ReceivedMade
  <2> QED BY <2>1, <2>2
<1>2. ASSUME NEW p \in Peers, NEW in \in Data, EncriptAriaData(p, in)
      PROVE  AriaInv'
  <2>1. KeysPaired' /\ ReceivedMade'
    BY <1>2 DEF EncriptAriaData, KeysPaired, ReceivedMade
  <2>2. txRoundKey[p] \in Keys
    BY <1>2 DEF EncriptAriaData, KeysPaired
  <2>3. MessageMade'
    BY <1>2, <2>2 DEF EncriptAriaData, MessageMade, IsMessage
  <2> QED BY <2>1, <2>3
<1>3. ASSUME NEW p \in Peers, DecriptionAriaData(p)
      PROVE  AriaInv'
  <2>1. KeysPaired' /\ MessageMade'
    BY <1>3 DEF DecriptionAriaData, KeysPaired, MessageMade
  <2>2. txRoundKey[p] \in Keys /\ rxRoundKey[p] = txRoundKey[p] /\ IsMessage(message)
    BY <1>3 DEF DecriptionAriaData, KeysPaired, MessageMade
  <2>3. received' = [from |-> message, key |-> txRoundKey[p],
                     out |-> Decripted[txRoundKey[p]][message.out]]
    BY <1>3, <2>2 DEF DecriptionAriaData
  <2>4. ReceivedMade'
    BY <2>2, <2>3 DEF ReceivedMade
  <2> QED BY <2>1, <2>4
<1>4. CASE UNCHANGED vars
  BY <1>4 DEF vars, KeysPaired, MessageMade, ReceivedMade
<1> QED
  <2>1. OtherKeys \subseteq Keys /\ originKey \in Keys
    BY DEF Keys
  <2> QED BY <1>1, <1>2, <1>3, <1>4, <2>1 DEF Next, InitializeMufdAriaKey

\* The two keys of a program always go together, and all data are made by the two functions.
THEOREM AriaInvariant == Spec => []AriaInv
BY InitInv, NextInv, PTL DEF Spec

\* Every variable keeps to its values; messages are the whole blocks their data need.
THEOREM TypeCorrect == Spec => []TypeOK
<1>1. AriaInv => TypeOK
  <2> SUFFICES ASSUME AriaInv
               PROVE  TypeOK
    OBVIOUS
  <2>1. /\ txRoundKey \in [Peers -> Keys \cup {NoKey}]
        /\ rxRoundKey \in [Peers -> Keys \cup {NoKey}]
    BY DEF AriaInv, KeysPaired
  <2>2. \/ message = NoMessage
        \/ /\ message.key \in Keys /\ message.in \in Data
           /\ message.out \in Seq(Byte)
           /\ Len(message.out) \in Len(message.in)..(Len(message.in) + ARIA_NB - 1)
           /\ Len(message.out) % ARIA_NB = 0
    <3>1. CASE IsMessage(message)
      <4>1. /\ message.key \in Keys /\ message.in \in Data /\ message.out \in Seq(Byte)
            /\ Len(message.out) = Len(Padded(message.in))
        BY <3>1, MessageOf
      <4> QED BY <4>1, PaddedOf
    <3> QED BY <3>1 DEF AriaInv, MessageMade
  <2>3. \/ received = Nothing
        \/ /\ received.key \in Keys /\ received.from.in \in Data
           /\ received.out \in Seq(Byte)
           /\ Len(received.out) = Len(received.from.out)
    BY MessageOf DEF AriaInv, ReceivedMade
  <2> QED BY <2>1, <2>2, <2>3 DEF TypeOK
<1> QED BY <1>1, AriaInvariant, PTL

\* A message arrives with whoever has the key it is under, filled up with spaces.
THEOREM DataComeBack == Spec => []ComesBack
<1>1. AriaInv => ComesBack
  <2> SUFFICES ASSUME AriaInv, received # Nothing, received.key = received.from.key
               PROVE  ComesBack
    BY DEF ComesBack
  <2> DEFINE in == received.from.in
             kept == IF Len(in) % ARIA_NB = 0 THEN Len(in) ELSE Len(in) - 1
             out == received.out
  <2>1. /\ in \in Data /\ out = Padded(in)
        /\ Len(out) = Len(received.from.out)
    BY MessageOf DEF AriaInv, ReceivedMade
  <2> HIDE DEF in, out
  <2>2. /\ \A i \in 1..kept : out[i] = in[i]
        /\ \A i \in (kept + 1)..Len(out) : out[i] = 32
    BY <2>1, PaddedOf
  <2> QED BY <2>1, <2>2 DEF ComesBack, in, out
<1> QED BY <1>1, AriaInvariant, PTL

\* Every key that a program is given decrypts what it encrypts.
THEOREM KeysDecrypt == Spec => []DecryptionUndoes
<1>1. AriaInv => DecryptionUndoes
  <2> SUFFICES ASSUME AriaInv, NEW p \in Peers, rxRoundKey[p] # NoKey
               PROVE  Undone[rxRoundKey[p]]
    BY DEF DecryptionUndoes
  <2> DEFINE k == rxRoundKey[p]
  <2>1. k \in Keys
    BY DEF AriaInv, KeysPaired
  <2> HIDE DEF k
  <2>2. ASSUME NEW keyBits \in KeySizes, NEW b \in Blocks
        PROVE  Crypt(Crypt(b, Rounds(keyBits), EncKeySetup(k, keyBits)),
                     Rounds(keyBits), DecKeySetup(k, keyBits)) = b
    <3>1. k \in MasterKeys /\ b \in BlockSet
      BY <2>1, KeysOf, AriaModuleAssumption DEF BlockSet
    <3> QED BY <3>1, DecryptionUndoesEncryption
  <2>3. Undone[k]
    BY <2>1, <2>2 DEF Undone
  <2> QED BY <2>3 DEF k
<1> QED BY <1>1, AriaInvariant, PTL

=============================================================================
