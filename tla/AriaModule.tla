------------------------------ MODULE AriaModule ------------------------------
(***************************************************************************)
(* sample_module_aria.c: programs that hold the same keys exchange data in *)
(* ARIA blocks.  The round keys are named by the master key they were made *)
(* from, and made once for each.                                           *)
(***************************************************************************)
EXTENDS Aria

CONSTANTS
  Peers,      \* programs with the module
  OtherKeys,  \* master keys that are handed to RenewalAriaKey
  Data,       \* what they encrypt: at most 10240 bytes each
  Blocks      \* blocks for the cipher by itself

ASSUME AriaModuleAssumption ==
  /\ OtherKeys \subseteq [1..32 -> Byte]
  /\ Data \subseteq Seq(Byte)
  /\ \A in \in Data : Len(in) <= 10240
  /\ Blocks \subseteq [Positions -> Byte]

ARIA_NB == 16
KEY_BIT == 256

\* "op7591", repeated.
originKey == <<>> \o [i \in 1..32 |-> <<111, 112, 55, 53, 57, 49>>[((i - 1) % 6) + 1]]

Keys == OtherKeys \cup {originKey}

NoKey == <<>>

TxKeys == [k \in Keys |-> EncKeySetup(k, KEY_BIT)]
RxKeys == [k \in Keys |-> DecKeySetup(k, KEY_BIT)]

-----------------------------------------------------------------------------
\* Mutant: whole blocks are padded too.
PaddedAlways(in) ==
  SubSeq(in, 1, Len(in) - 1) \o [i \in 1..(ARIA_NB - (Len(in) % ARIA_NB) + 1) |-> 32]

\* Spaces up to the next whole block, from the last byte of the data on.
Padded(in) ==
  LET over == Len(in) % ARIA_NB
  IN IF over = 0 THEN in
     ELSE SubSeq(in, 1, Len(in) - 1) \o [i \in 1..(ARIA_NB - over + 1) |-> 32]

\* Zeros up to the next whole block; a message is whole blocks already.
Filled(in) ==
  LET over == Len(in) % ARIA_NB
  IN IF over = 0 THEN in ELSE in \o [i \in 1..(ARIA_NB - over) |-> 0]

\* Mutant: the first block again and again.
OneBlock(in, e) ==
  LET out == Crypt(SubSeq(in, 1, ARIA_NB), Rounds(KEY_BIT), e)
  IN <<>> \o [i \in 1..(ARIA_NB * (Len(in) \div ARIA_NB)) |-> out[((i - 1) % ARIA_NB) + 1]]

\* Block after block, each by itself.
InBlocks(in, e) ==
  LET out == <<>> \o [b \in 1..(Len(in) \div ARIA_NB) |->
               Crypt(SubSeq(in, ARIA_NB * (b - 1) + 1, ARIA_NB * b), Rounds(KEY_BIT), e)]
  IN <<>> \o [i \in 1..(ARIA_NB * (Len(in) \div ARIA_NB)) |->
                 out[((i - 1) \div ARIA_NB) + 1][((i - 1) % ARIA_NB) + 1]]

\* What the two functions return for each key and input, worked out once.
Encripted == [k \in Keys |-> [in \in Data |-> InBlocks(Padded(in), TxKeys[k])]]

Sent == {Encripted[k][in] : k \in Keys, in \in Data}

Decripted == [k \in Keys |-> [in \in Sent |-> InBlocks(Filled(in), RxKeys[k])]]

KeySizes == {128, 192, 256}

\* For each key, whether Crypt with the keys of DecKeySetup undoes Crypt with those of
\* EncKeySetup, worked out once.
Undone == [k \in Keys |-> \A keyBits \in KeySizes, b \in Blocks :
  LET R == Rounds(keyBits)
  IN Crypt(Crypt(b, R, EncKeySetup(k, keyBits)), R, DecKeySetup(k, keyBits)) = b]

-----------------------------------------------------------------------------
VARIABLES
  txRoundKey,   \* the key of a program's encryption, NoKey while txKeyRenewal is off
  rxRoundKey,   \* the key of its decryption, NoKey while rxKeyRenewal is off
  message,      \* the message on its way: what it says, under which key, and its bytes
  received      \* the last message that was decrypted, by whom, and the result

vars == <<txRoundKey, rxRoundKey, message, received>>

NoMessage == [in |-> <<>>, key |-> NoKey, out |-> <<>>]
Nothing == [from |-> NoMessage, key |-> NoKey, out |-> <<>>]

Init ==
  /\ txRoundKey = [p \in Peers |-> NoKey]
  /\ rxRoundKey = [p \in Peers |-> NoKey]
  /\ message = NoMessage
  /\ received = Nothing

\* Mutant: a key for decryption is kept.
RenewalOnce(p, key) == IF rxRoundKey[p] = NoKey THEN key ELSE rxRoundKey[p]

RxRenewal(p, key) == key

\* The round keys for both directions, one after the other: a program has one thread,
\* and does not come to them in between.
RenewalAriaKey(p, key) ==
  /\ txRoundKey' = [txRoundKey EXCEPT ![p] = key]
  /\ rxRoundKey' = [rxRoundKey EXCEPT ![p] = RxRenewal(p, key)]
  /\ UNCHANGED <<message, received>>

InitializeMufdAriaKey(p) == RenewalAriaKey(p, originKey)

EncriptAriaData(p, in) ==
  /\ txRoundKey[p] # NoKey
  /\ message' = [in |-> in, key |-> txRoundKey[p], out |-> Encripted[txRoundKey[p]][in]]
  /\ UNCHANGED <<txRoundKey, rxRoundKey, received>>

\* Whoever decrypts it, now or after keys were renewed, once or again.
DecriptionAriaData(p) ==
  /\ rxRoundKey[p] # NoKey /\ message # NoMessage
  /\ received' = [from |-> message, key |-> txRoundKey[p],
                  out |-> Decripted[rxRoundKey[p]][message.out]]
  /\ UNCHANGED <<txRoundKey, rxRoundKey, message>>

Next == \E p \in Peers :
  \/ \E key \in OtherKeys : RenewalAriaKey(p, key)
  \/ InitializeMufdAriaKey(p)
  \/ \E in \in Data : EncriptAriaData(p, in)
  \/ DecriptionAriaData(p)

Spec == Init /\ [][Next]_vars

-----------------------------------------------------------------------------
(* Properties                                                               *)

\* Every variable keeps to its values; a message, and what is made of it, is the whole
\* blocks its data needs.
TypeOK ==
  /\ txRoundKey \in [Peers -> Keys \cup {NoKey}]
  /\ rxRoundKey \in [Peers -> Keys \cup {NoKey}]
  /\ \/ message = NoMessage
     \/ /\ message.key \in Keys /\ message.in \in Data
        /\ message.out \in Seq(Byte)
        /\ Len(message.out) \in Len(message.in)..(Len(message.in) + ARIA_NB - 1)
        /\ Len(message.out) % ARIA_NB = 0
  /\ \/ received = Nothing
     \/ /\ received.key \in Keys /\ received.from.in \in Data
        /\ received.out \in Seq(Byte)
        /\ Len(received.out) = Len(received.from.out)

\* A message arrives with a program that was given the key it is under, whatever keys
\* both had before: decryption undoes encryption, block by block.  What arrives is the
\* data filled up to whole blocks; in data that is no multiple of 16 bytes the last byte
\* has become a space (l.115), and nothing says where the data ended.
ComesBack ==
  received # Nothing /\ received.key = received.from.key =>
    LET in == received.from.in
        kept == IF Len(in) % ARIA_NB = 0 THEN Len(in) ELSE Len(in) - 1
    IN /\ Len(received.out) = Len(received.from.out)
       /\ \A i \in 1..kept : received.out[i] = in[i]
       /\ \A i \in (kept + 1)..Len(received.out) : received.out[i] = 32

\* Each key that a program is given decrypts what it encrypts, with the three sizes of
\* key: 12, 14 and 16 rounds, of which the module uses the last only.
DecryptionUndoes == \A p \in Peers : rxRoundKey[p] # NoKey => Undone[rxRoundKey[p]]

\* With any other key it does not arrive: no byte string is taken for the data because
\* an older round key is still in use on either side.
OnlyWithItsKey ==
  received # Nothing /\ received.key # received.from.key =>
    received.out # Padded(received.from.in)

=============================================================================
