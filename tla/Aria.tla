--------------------------------- MODULE Aria ---------------------------------
(***************************************************************************)
(* sample_module_aria/aria.c: the block cipher.  A block is a sequence of  *)
(* 16 bytes and round keys a sequence of blocks: byte i of the code is     *)
(* element i + 1 here.                                                     *)
(***************************************************************************)
EXTENDS Integers, Sequences

Byte == 0..255
Positions == 1..16

\* a ^ b, as a table: each bit is the sum of two, without the carry.
XorOf ==
  [a \in Byte |-> [b \in Byte |->
    LET At(n) == n * (((a \div n) + (b \div n)) % 2)
    IN At(1) + At(2) + At(4) + At(8) + At(16) + At(32) + At(64) + At(128)]]

\* A function on Positions as a sequence.
Block(f) == <<>> \o f

XorBlock(x, y) == Block([i \in Positions |-> XorOf[x[i]][y[i]]])

\* The S-boxes: type 1, type 2 and their inverses.
S == <<
  <<99,124,119,123,242,107,111,197,48,1,103,43,254,215,171,118,202,130,201,125,250,89,71,240,
    173,212,162,175,156,164,114,192,183,253,147,38,54,63,247,204,52,165,229,241,113,216,49,21,
    4,199,35,195,24,150,5,154,7,18,128,226,235,39,178,117,9,131,44,26,27,110,90,160,
    82,59,214,179,41,227,47,132,83,209,0,237,32,252,177,91,106,203,190,57,74,76,88,207,
    208,239,170,251,67,77,51,133,69,249,2,127,80,60,159,168,81,163,64,143,146,157,56,245,
    188,182,218,33,16,255,243,210,205,12,19,236,95,151,68,23,196,167,126,61,100,93,25,115,
    96,129,79,220,34,42,144,136,70,238,184,20,222,94,11,219,224,50,58,10,73,6,36,92,
    194,211,172,98,145,149,228,121,231,200,55,109,141,213,78,169,108,86,244,234,101,122,174,8,
    186,120,37,46,28,166,180,198,232,221,116,31,75,189,139,138,112,62,181,102,72,3,246,14,
    97,53,87,185,134,193,29,158,225,248,152,17,105,217,142,148,155,30,135,233,206,85,40,223,
    140,161,137,13,191,230,66,104,65,153,45,15,176,84,187,22>>,
  <<226,78,84,252,148,194,74,204,98,13,106,70,60,77,139,209,94,250,100,203,180,151,190,43,
    188,119,46,3,211,25,89,193,29,6,65,107,85,240,153,105,234,156,24,174,99,223,231,187,
    0,115,102,251,150,76,133,228,58,9,69,170,15,238,16,235,45,127,244,41,172,207,173,145,
    141,120,200,149,249,47,206,205,8,122,136,56,92,131,42,40,71,219,184,199,147,164,18,83,
    255,135,14,49,54,33,88,72,1,142,55,116,50,202,233,177,183,171,12,215,196,86,66,38,
    7,152,96,217,182,185,17,64,236,32,140,189,160,201,132,4,73,35,241,79,80,31,19,220,
    216,192,158,87,227,195,123,101,59,2,143,62,232,37,146,229,21,221,253,23,169,191,212,154,
    126,197,57,103,254,118,157,67,167,225,208,245,104,242,27,52,112,5,163,138,213,121,134,168,
    48,198,81,75,30,166,39,246,53,210,110,36,22,130,95,218,230,117,162,239,44,178,28,159,
    93,111,128,10,114,68,155,108,144,11,91,51,125,90,82,243,97,161,247,176,214,63,124,109,
    237,20,224,165,61,34,179,248,137,222,113,26,175,186,181,129>>,
  <<82,9,106,213,48,54,165,56,191,64,163,158,129,243,215,251,124,227,57,130,155,47,255,135,
    52,142,67,68,196,222,233,203,84,123,148,50,166,194,35,61,238,76,149,11,66,250,195,78,
    8,46,161,102,40,217,36,178,118,91,162,73,109,139,209,37,114,248,246,100,134,104,152,22,
    212,164,92,204,93,101,182,146,108,112,72,80,253,237,185,218,94,21,70,87,167,141,157,132,
    144,216,171,0,140,188,211,10,247,228,88,5,184,179,69,6,208,44,30,143,202,63,15,2,
    193,175,189,3,1,19,138,107,58,145,17,65,79,103,220,234,151,242,207,206,240,180,230,115,
    150,172,116,34,231,173,53,133,226,249,55,232,28,117,223,110,71,241,26,113,29,41,197,137,
    111,183,98,14,170,24,190,27,252,86,62,75,198,210,121,32,154,219,192,254,120,205,90,244,
    31,221,168,51,136,7,199,49,177,18,16,89,39,128,236,95,96,81,127,169,25,181,74,13,
    45,229,122,159,147,201,156,239,160,224,59,77,174,42,245,176,200,235,187,60,131,83,153,97,
    23,43,4,126,186,119,214,38,225,105,20,99,85,33,12,125>>,
  <<48,104,153,27,135,185,33,120,80,57,219,225,114,9,98,60,62,126,94,142,241,160,204,163,
    42,29,251,182,214,32,196,141,129,101,245,137,203,157,119,198,87,67,86,23,212,64,26,77,
    192,99,108,227,183,200,100,106,83,170,56,152,12,244,155,237,127,34,118,175,221,58,11,88,
    103,136,6,195,53,13,1,139,140,194,230,95,2,36,117,147,102,30,229,226,84,216,16,206,
    122,232,8,44,18,151,50,171,180,39,10,35,223,239,202,217,184,250,220,49,107,209,173,25,
    73,189,81,150,238,228,168,65,218,255,205,85,134,54,190,97,82,248,187,14,130,72,105,154,
    224,71,158,92,4,75,52,21,121,38,167,222,41,174,146,215,132,233,210,186,93,243,197,176,
    191,164,59,113,68,70,43,252,235,111,213,246,20,254,124,112,90,125,253,47,24,131,22,165,
    145,31,5,149,116,169,193,91,74,133,109,19,7,79,78,69,178,15,201,28,166,188,236,115,
    144,123,207,89,143,161,249,45,242,177,0,148,55,159,208,46,156,110,40,63,128,240,61,211,
    37,138,181,231,66,179,199,234,247,76,17,51,3,162,172,96>> >>

\* Constants of the round key generation.
KRK == <<
  <<81,124,193,183,39,34,10,148,254,19,171,232,250,154,110,224>>,
  <<109,177,74,204,158,33,200,32,255,40,177,213,239,93,226,176>>,
  <<219,146,55,29,33,38,233,112,3,36,151,117,4,232,201,14>> >>

\* Diffusion layer: each byte of the result is the exclusive or of three bytes and one of
\* four values of T, each the exclusive or of four bytes.
Shared == << <<3, 4, 9, 14>>, <<2, 5, 8, 15>>, <<1, 6, 11, 12>>, <<0, 7, 10, 13>> >>

Own == <<
  <<6, 8, 13, 1>>, <<7, 9, 12, 2>>, <<4, 10, 15, 3>>, <<5, 11, 14, 4>>,
  <<0, 11, 14, 2>>, <<1, 10, 15, 1>>, <<2, 9, 12, 4>>, <<3, 8, 13, 3>>,
  <<1, 4, 15, 4>>, <<0, 5, 14, 3>>, <<3, 6, 13, 2>>, <<2, 7, 12, 1>>,
  <<2, 7, 9, 3>>, <<3, 6, 8, 4>>, <<0, 5, 11, 1>>, <<1, 4, 10, 2>> >>

XorOfFour(a, b, c, d) == XorOf[XorOf[a][b]][XorOf[c][d]]

DL(x) ==
  LET T == <<>> \o [t \in 1..4 |->
             XorOfFour(x[Shared[t][1] + 1], x[Shared[t][2] + 1],
                       x[Shared[t][3] + 1], x[Shared[t][4] + 1])]
  IN Block([i \in Positions |->
             XorOfFour(x[Own[i][1] + 1], x[Own[i][2] + 1], x[Own[i][3] + 1], T[Own[i][4]])])

\* s, rotated to the right by n bits, into t.
RotXOR(s, n, t) ==
  LET At(i) == s[((i - 1) % 16) + 1]
      q == 16 - (n \div 8)
      High(b) == b \div 2 ^ (n % 8)
      Low(b) == IF n % 8 = 0 THEN 0 ELSE (b * 2 ^ (8 - (n % 8))) % 256
  IN XorBlock(t, Block([i \in Positions |-> High(At(i + q)) + Low(At(i + q - 1))]))

\* Mutant: rounds of one type only.
SubstitutedSame(x, key, first) ==
  Block([i \in Positions |-> S[((i - 1) % 4) + 1][XorOf[key[i]][x[i]] + 1]])

\* x with the key, through the S-boxes from the first-th on.
Substituted(x, key, first) ==
  Block([i \in Positions |-> S[((first + i - 1) % 4) + 1][XorOf[key[i]][x[i]] + 1]])

-----------------------------------------------------------------------------
Rounds(keyBits) == (keyBits + 256) \div 32

\* The second half of the master key, as far as it goes.
KeyRight(w0, keyBits) ==
  Block([i \in Positions |-> IF 16 + i <= keyBits \div 8 THEN w0[16 + i] ELSE 0])

EncKeySetup(w0, keyBits) ==
  LET q == (keyBits - 128) \div 64
      C(n) == KRK[((q + n) % 3) + 1]
      l == SubSeq(w0, 1, 16)
      w1 == XorBlock(DL(Substituted(l, C(0), 0)), KeyRight(w0, keyBits))
      w2 == XorBlock(DL(Substituted(w1, C(1), 2)), l)
      w3 == XorBlock(DL(Substituted(w2, C(2), 0)), w1)
      w == <<l, w1, w2, w3>>
      Turn == <<19, 31, 67, 97, 109>>
  IN <<>> \o [j \in 1..(Rounds(keyBits) + 1) |->
       RotXOR(w[(j % 4) + 1], Turn[((j - 1) \div 4) + 1], w[((j - 1) % 4) + 1])]

\* Mutant: the key in the middle is left as it is.
DecKeySetupShort(w0, keyBits) ==
  LET e == EncKeySetup(w0, keyBits)
      R == Rounds(keyBits)
  IN <<>> \o [j \in 1..(R + 1) |->
       IF j \in {1, R \div 2 + 1, R + 1} THEN e[R + 2 - j] ELSE DL(e[R + 2 - j])]

\* The keys in reverse order, all but the first and the last diffused.  The one in the
\* middle is diffused in place (l.185), which spoils it, and replaced by the copy that
\* was made before (l.184).
DecKeySetup(w0, keyBits) ==
  LET e == EncKeySetup(w0, keyBits)
      R == Rounds(keyBits)
  IN <<>> \o [j \in 1..(R + 1) |->
       IF j \in {1, R + 1} THEN e[R + 2 - j] ELSE DL(e[R + 2 - j])]

\* R rounds on p.  The diffusion after the last one is undone again.
Crypt(p, R, e) ==
  LET c[i \in 0..R] ==
        IF i = 0 THEN p
                 ELSE DL(Substituted(c[i-1], e[i], IF i % 2 = 1 THEN 0 ELSE 2))
  IN XorBlock(e[R + 1], DL(c[R]))

=============================================================================
