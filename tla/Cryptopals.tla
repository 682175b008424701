----------------------------- MODULE Cryptopals -----------------------------
(***************************************************************************)
(* The ciphers of cryptopals: padding, ECB and CBC of set2.go, the XOR     *)
(* ciphers and the edit distance of set1.go.  AES under a key is some      *)
(* permutation of the blocks.  A text grows byte by byte; one call then    *)
(* encrypts it and another decrypts what came of it, block by block.       *)
(***************************************************************************)
EXTENDS Naturals, Sequences, FiniteSets

CONSTANTS
  ByteXor(_, _),  \* ^ of two bytes
  HexBase,    \* 16, two digits to a byte
  BlockSize,  \* 16
  MaxLength,  \* bound on the text
  Keys,       \* the permutations of blocks that stand for AES keys
  XorKeys     \* the keys of RepeatingKeyXOR

ByteSize == HexBase * HexBase
Bytes == 0..(ByteSize - 1)
Blocks == [1..BlockSize -> Bytes]

ASSUME CryptopalsAssumption ==
  /\ {HexBase, BlockSize, MaxLength} \subseteq Nat \ {0}
  /\ BlockSize \in Bytes
  /\ \A key \in Keys : \A b \in Blocks : key[b] \in Blocks
  /\ \A key \in Keys : \A b, c \in Blocks : key[b] = key[c] => b = c
  /\ XorKeys \subseteq Seq(Bytes) \ {<<>>}

ASSUME XorAssumption ==
  \A a, b \in Bytes :
    /\ ByteXor(a, b) \in Bytes /\ ByteXor(a, b) = ByteXor(b, a)
    /\ ByteXor(a, 0) = a /\ ByteXor(a, a) = 0
    /\ \A c \in Bytes : ByteXor(ByteXor(a, b), c) = ByteXor(a, ByteXor(b, c))

VARIABLES
  text,
  at,         \* "text" while it grows, then "encrypt", "decrypt", "over"
  call,       \* the cipher, key and iv that both calls are given
  prev, block,         \* the loop variables; blocks are counted
  encrypted, decrypted

cipherVars == <<at, call, prev, block, encrypted, decrypted>>
textVars == <<text, cipherVars>>

-----------------------------------------------------------------------------
(* set2.go                                                                 *)

\* Variant: a text that fills its last block is not padded.
pkcs7padWhenNeeded(s) ==
  LET diff == (BlockSize - (Len(s) % BlockSize)) % BlockSize
  IN  s \o [i \in 1..diff |-> diff % ByteSize]

\* byte(diff), diff times; a text that fills its last block gets another one.
pkcs7pad(s) ==
  LET diff == BlockSize - (Len(s) % BlockSize)
  IN  s \o [i \in 1..diff |-> diff % ByteSize]

\* Of b only as much as a is long.
xor(a, b) == [i \in 1..Len(a) |-> ByteXor(a[i], b[i])]

\* slices.Chunk, of something that is whole blocks.
Chunks(s) == 1..(Len(s) \div BlockSize)
Chunk(s, n) == [i \in 1..BlockSize |-> s[(n - 1) * BlockSize + i]]

Encrypt(key, b) == key[b]
Decrypt(key, b) == CHOOSE c \in Blocks : key[c] = b

NoBlock == [i \in 1..BlockSize |-> 0]
NoCall == [cipher |-> "none", key |-> <<>>, iv |-> NoBlock]

Begin(place, iv) == at' = place /\ prev' = iv /\ block' = 1

\* The head of encryptAESinECB, which has no iv, and of encryptAESinCBC.
EncryptWith(cipher, key, iv) ==
  /\ at = "text"
  /\ call' = [cipher |-> cipher, key |-> key, iv |-> iv]
  /\ Begin("encrypt", iv)
  /\ UNCHANGED <<text, encrypted, decrypted>>

encryptAESinECB(key) == EncryptWith("ECB", key, NoBlock)
encryptAESinCBC(key, iv) == EncryptWith("CBC", key, iv)

IsBlockOf(place, s, cipher) ==
  at = place /\ block \in Chunks(s) /\ call.cipher = cipher

EncryptBlockECB ==
  /\ IsBlockOf("encrypt", pkcs7pad(text), "ECB")
  /\ encrypted' = encrypted \o Encrypt(call.key, Chunk(pkcs7pad(text), block))
  /\ block' = block + 1
  /\ UNCHANGED <<text, at, call, prev, decrypted>>

EncryptBlockCBC ==
  /\ IsBlockOf("encrypt", pkcs7pad(text), "CBC")
  /\ prev' = Encrypt(call.key, xor(prev, Chunk(pkcs7pad(text), block)))
  /\ encrypted' = encrypted \o prev'
  /\ block' = block + 1
  /\ UNCHANGED <<text, at, call, decrypted>>

\* The loop is over, and what it encrypted is decrypted.
decryptAES ==
  /\ at = "encrypt" /\ block \notin Chunks(pkcs7pad(text))
  /\ Begin("decrypt", call.iv)
  /\ UNCHANGED <<text, call, encrypted, decrypted>>

DecryptBlockECB ==
  /\ IsBlockOf("decrypt", encrypted, "ECB")
  /\ decrypted' = decrypted \o Decrypt(call.key, Chunk(encrypted, block))
  /\ block' = block + 1
  /\ UNCHANGED <<text, at, call, prev, encrypted>>

DecryptBlockCBC ==
  /\ IsBlockOf("decrypt", encrypted, "CBC")
  /\ decrypted' = decrypted \o xor(Decrypt(call.key, Chunk(encrypted, block)), prev)
  /\ prev' = Chunk(encrypted, block)
  /\ block' = block + 1
  /\ UNCHANGED <<text, at, call, encrypted>>

Return ==
  /\ at = "decrypt" /\ block \notin Chunks(encrypted)
  /\ at' = "over"
  /\ UNCHANGED <<text, call, prev, block, encrypted, decrypted>>

\* Variant: only the last block is remembered.
detectRepeatedNext(ciphertext) ==
  IF \E i, j \in Chunks(ciphertext) :
       j = i + 1 /\ Chunk(ciphertext, i) = Chunk(ciphertext, j)
  THEN "ECB" ELSE "CBC"

\* A block is seen again.
detectAESinECBorCBC(ciphertext) ==
  IF \E i, j \in Chunks(ciphertext) :
       i < j /\ Chunk(ciphertext, i) = Chunk(ciphertext, j)
  THEN "ECB" ELSE "CBC"

-----------------------------------------------------------------------------
(* set1.go; two digits stand for a byte.                                   *)

EncodeHex(s) ==
  [i \in 1..(2 * Len(s)) |->
     LET b == s[(i + 1) \div 2] IN IF i % 2 = 1 THEN b \div HexBase ELSE b % HexBase]

DecodeHex(hex) ==
  [i \in 1..(Len(hex) \div 2) |-> hex[2 * i - 1] * HexBase + hex[2 * i]]

XOR(hexString, other) == EncodeHex(xor(DecodeHex(hexString), DecodeHex(other)))

RepeatingKeyXOR(s, key) ==
  EncodeHex([i \in 1..Len(s) |-> ByteXor(s[i], key[((i - 1) % Len(key)) + 1])])

\* bits.OnesCount8 of every byte, counted all at once.
getEditDistance(s1, s2) ==
  Cardinality({bit \in (1..Len(s1)) \X (0..7) :
                 (ByteXor(s1[bit[1]], s2[bit[1]]) \div 2^bit[2]) % 2 = 1})

-----------------------------------------------------------------------------

TextInit ==
  /\ text = <<>>
  /\ at = "text" /\ call = NoCall /\ prev = NoBlock /\ block = 1
  /\ encrypted = <<>> /\ decrypted = <<>>

Grow ==
  /\ at = "text" /\ Len(text) < MaxLength
  /\ \E b \in Bytes : text' = Append(text, b)
  /\ UNCHANGED cipherVars

TextNext ==
  \/ Grow
  \/ \E key \in Keys : encryptAESinECB(key) \/ \E iv \in Blocks : encryptAESinCBC(key, iv)
  \/ EncryptBlockECB \/ EncryptBlockCBC
  \/ decryptAES
  \/ DecryptBlockECB \/ DecryptBlockCBC
  \/ Return

TextSpec == TextInit /\ [][TextNext]_textVars

-----------------------------------------------------------------------------
(* Properties.                                                             *)

\* What a padded text was padded from.
Unpadded(s) == IF s = <<>> THEN s ELSE SubSeq(s, 1, Len(s) - s[Len(s)])

\* A text comes back from ECB and from CBC, under every key and from every IV,
\* without its padding, whatever its length is to the block and whatever bytes it
\* ends in.
BlocksComeBack == at = "over" => Unpadded(decrypted) = text

\* A text comes back from the XOR ciphers by applying them again, whether the key
\* is repeated or written out, and the distance of the text to what they made of
\* it is the number of bits that the key sets along the text.
XorComesBack ==
  at = "text" =>
    \A k \in XorKeys :
      LET hex == RepeatingKeyXOR(text, k)
          pad == [i \in 1..Len(text) |-> k[((i - 1) % Len(k)) + 1]]
      IN  /\ RepeatingKeyXOR(DecodeHex(hex), k) = EncodeHex(text)
          /\ XOR(hex, EncodeHex(pad)) = EncodeHex(text)
          /\ getEditDistance(text, DecodeHex(hex))
               = getEditDistance([i \in 1..Len(text) |-> 0], pad)

\* Every cipher is undone by its inverse, the ones on blocks and those of XOR.
TextsComeBack == BlocksComeBack /\ XorComesBack

\* Of what ECB made, detectAESinECBorCBC says ECB exactly if the padded text has
\* a block twice, however far apart; the padding counts.
RepeatsAreSeen ==
  at = "decrypt" /\ call.cipher = "ECB" =>
    (detectAESinECBorCBC(encrypted) = "ECB"
       <=> \E i, j \in Chunks(pkcs7pad(text)) :
             i < j /\ Chunk(pkcs7pad(text), i) = Chunk(pkcs7pad(text), j))
=============================================================================
