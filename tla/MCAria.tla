-------------------------------- MODULE MCAria --------------------------------
(* AriaModule with a second key and data around the size of a block.          *)
EXTENDS AriaModule

TestKey == <<>> \o [i \in 1..32 |-> i - 1]

MCOtherKeys == {TestKey}

MCData == {<<>> \o [i \in 1..n |-> (17 * i) % 256] : n \in {1, 16, 17, 31, 32}}

-----------------------------------------------------------------------------
(* The cipher by itself, for all three sizes of key.                          *)

TestBlock == Block([i \in Positions |-> 17 * (i - 1)])

TestVector == [keyBits \in KeySizes |->
  CASE keyBits = 128 -> <<215,24,251,214,171,100,76,115,157,169,95,59,230,69,23,120>>
    [] keyBits = 192 -> <<38,68,156,24,5,219,231,170,37,164,104,206,38,58,158,121>>
    [] keyBits = 256 -> <<249,43,215,199,159,183,46,47,43,143,128,193,151,45,36,252>>]

MCBlocks == {TestBlock, Block([i \in Positions |-> 0]), Block([i \in Positions |-> 255])}

\* Worked out once: the results for the test vectors.
Results == [keyBits \in KeySizes |->
  Crypt(TestBlock, Rounds(keyBits), EncKeySetup(TestKey, keyBits))]

\* The cipher is ARIA: a program with the key of the test vectors (RFC 5794, appendix A)
\* encrypts to them, with the three sizes of key.
IsAria == \A p \in Peers : txRoundKey[p] = TestKey => Results = TestVector

=============================================================================
