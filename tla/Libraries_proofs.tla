--------------------------- MODULE Libraries_proofs ---------------------------
(*****************************************************************************)
(* Proofs about the two libraries of functions.  Cryptopals: a text comes    *)
(* back from every cipher, for blocks and bytes of any size, any             *)
(* permutations of the blocks and texts of any length.  Jwt: for any         *)
(* subjects, keys and times and for any number of changes, a token verifies  *)
(* exactly when it is one that was made.                                     *)
(*****************************************************************************)
EXTENDS Cryptopals, Jwt, SequenceTheorems, TLAPS

-----------------------------------------------------------------------------
(* Blocks and where they lie.                                              *)

LEMMA SizesAreNumbers ==
  /\ BlockSize \in Nat /\ BlockSize >= 1 /\ BlockSize < ByteSize
  /\ HexBase \in Nat /\ HexBase >= 1
  /\ ByteSize \in Nat /\ ByteSize = HexBase * HexBase
<1>1. HexBase \in Nat \ {0} /\ BlockSize \in Nat \ {0} /\ BlockSize \in Bytes
  BY CryptopalsAssumption
<1>2. HexBase * HexBase \in Nat
  BY <1>1
<1> QED
  BY <1>1, <1>2 DEF Bytes, ByteSize

LEMMA BlockIsText ==
  ASSUME NEW b \in Blocks
  PROVE  b \in Seq(Bytes) /\ Len(b) = BlockSize /\ \A i \in 1..BlockSize : b[i] \in Bytes
BY SizesAreNumbers DEF Blocks

\* Block j of k lies within their bytes, and each byte lies in one block.
LEMMA PlaceInText ==
  ASSUME NEW k \in Nat, NEW j \in 1..k, NEW i \in 1..BlockSize
  PROVE  (j - 1) * BlockSize + i \in 1..(k * BlockSize)
<1>1. /\ k - j \in Nat /\ j - 1 \in Nat
      /\ (k - j) * BlockSize \in Nat /\ (j - 1) * BlockSize \in Nat
  BY SizesAreNumbers
<1>2. k * BlockSize = (j - 1) * BlockSize + BlockSize + (k - j) * BlockSize
  BY SizesAreNumbers
<1> QED
  BY <1>1, <1>2, SizesAreNumbers

LEMMA PlaceInBlock ==
  ASSUME NEW k \in Nat, NEW p \in 1..(k * BlockSize)
  PROVE  \E j \in 1..k, i \in 1..BlockSize : p = (j - 1) * BlockSize + i
<1> DEFINE q == (p - 1) \div BlockSize
           r == (p - 1) % BlockSize
<1>1. p \in Nat /\ p >= 1 /\ p <= k * BlockSize
  BY SizesAreNumbers
<1>2. q \in Nat /\ r \in 0..(BlockSize - 1) /\ p - 1 = BlockSize * q + r
  BY <1>1, SizesAreNumbers
<1> HIDE DEF q, r
<1>3. q < k
  <2> SUFFICES ASSUME q >= k PROVE FALSE
    BY <1>2
  <2>1. (q - k) * BlockSize >= 0
    BY <1>2, SizesAreNumbers
  <2> QED
    BY <1>1, <1>2, <2>1, SizesAreNumbers
<1>4. p = ((q + 1) - 1) * BlockSize + (r + 1)
  BY <1>1, <1>2, SizesAreNumbers
<1>5. q + 1 \in 1..k /\ r + 1 \in 1..BlockSize
  BY <1>2, <1>3, SizesAreNumbers
<1> QED
  BY <1>4, <1>5, Zenon

LEMMA WholeBlocks ==
  ASSUME NEW k \in Nat, NEW s, Len(s) = k * BlockSize
  PROVE  Chunks(s) = 1..k /\ Len(s) \div BlockSize = k
<1> DEFINE d == (k * BlockSize) \div BlockSize
           r == (k * BlockSize) % BlockSize
<1>1. k * BlockSize \in Nat
  BY SizesAreNumbers
<1>2. d \in Nat /\ r \in 0..(BlockSize - 1) /\ k * BlockSize = BlockSize * d + r
  BY <1>1, SizesAreNumbers
<1>3. (k * BlockSize) \div BlockSize = d
  OBVIOUS
<1> HIDE DEF d, r
<1>4. (k - d) * BlockSize = r
  BY <1>2, SizesAreNumbers
<1>5. ~(k > d)
  <2> SUFFICES ASSUME k > d PROVE FALSE
    OBVIOUS
  <2>1. (k - d - 1) * BlockSize >= 0
    BY <1>2, SizesAreNumbers
  <2> QED
    BY <1>2, <1>4, <2>1, SizesAreNumbers
<1>6. ~(k < d)
  <2> SUFFICES ASSUME k < d PROVE FALSE
    OBVIOUS
  <2>1. (d - k - 1) * BlockSize >= 0
    BY <1>2, SizesAreNumbers
  <2> QED
    BY <1>2, <1>4, <2>1, SizesAreNumbers
<1> QED
  BY <1>2, <1>3, <1>5, <1>6 DEF Chunks

LEMMA ChunkIsBlock ==
  ASSUME NEW k \in Nat, NEW s \in Seq(Bytes), Len(s) = k * BlockSize, NEW j \in 1..k
  PROVE  Chunk(s, j) \in Blocks
<1>1. \A i \in 1..BlockSize : s[(j - 1) * BlockSize + i] \in Bytes
  BY PlaceInText
<1> QED
  BY <1>1 DEF Chunk, Blocks

\* What is appended block by block is read block by block.
LEMMA AppendedBlock ==
  ASSUME NEW k \in Nat, NEW s \in Seq(Bytes), Len(s) = k * BlockSize, NEW b \in Blocks
  PROVE  /\ s \o b \in Seq(Bytes) /\ Len(s \o b) = (k + 1) * BlockSize
         /\ \A j \in 1..k : Chunk(s \o b, j) = Chunk(s, j)
         /\ Chunk(s \o b, k + 1) = b
<1>1. /\ s \o b \in Seq(Bytes) /\ Len(s \o b) = Len(s) + BlockSize
      /\ \A p \in 1..Len(s) : (s \o b)[p] = s[p]
      /\ \A i \in 1..BlockSize : (s \o b)[Len(s) + i] = b[i]
  BY BlockIsText, SizesAreNumbers
<1>2. Len(s \o b) = (k + 1) * BlockSize
  BY <1>1, SizesAreNumbers
<1>3. ASSUME NEW j \in 1..k
      PROVE  Chunk(s \o b, j) = Chunk(s, j)
  <2>1. \A i \in 1..BlockSize : (s \o b)[(j - 1) * BlockSize + i] = s[(j - 1) * BlockSize + i]
    BY <1>1, PlaceInText
  <2> QED
    BY <2>1 DEF Chunk
<1>4. Chunk(s \o b, k + 1) = b
  <2>1. \A i \in 1..BlockSize : ((k + 1) - 1) * BlockSize + i = Len(s) + i
    BY SizesAreNumbers
  <2>2. \A i \in 1..BlockSize : (s \o b)[((k + 1) - 1) * BlockSize + i] = b[i]
    BY <1>1, <2>1
  <2>3. b = [i \in 1..BlockSize |-> b[i]]
    BY DEF Blocks
  <2> QED
    BY <2>2, <2>3 DEF Chunk
<1> QED
  BY <1>1, <1>2, <1>3, <1>4

LEMMA SameBlocksSameText ==
  ASSUME NEW k \in Nat, NEW s \in Seq(Bytes), NEW t \in Seq(Bytes),
         Len(s) = k * BlockSize, Len(t) = k * BlockSize,
         \A j \in 1..k : Chunk(s, j) = Chunk(t, j)
  PROVE  s = t
<1>1. ASSUME NEW p \in 1..(k * BlockSize)
      PROVE  s[p] = t[p]
  <2>1. PICK j \in 1..k, i \in 1..BlockSize : p = (j - 1) * BlockSize + i
    BY PlaceInBlock
  <2>2. Chunk(s, j)[i] = s[p] /\ Chunk(t, j)[i] = t[p]
    BY <2>1 DEF Chunk
  <2> QED
    BY <2>2
<1> QED
  BY <1>1, SizesAreNumbers

-----------------------------------------------------------------------------
(* Padding, AES and XOR undone.                                            *)

LEMMA TextComesOff ==
  ASSUME NEW s \in Seq(Bytes), NEW padding \in Seq(Bytes), NEW diff \in Nat \ {0},
         Len(padding) = diff, padding[diff] = diff
  PROVE  /\ s \o padding \in Seq(Bytes) /\ Len(s \o padding) = Len(s) + diff
         /\ Unpadded(s \o padding) = s
<1> DEFINE t == s \o padding
<1>1. /\ t \in Seq(Bytes) /\ Len(t) = Len(s) + Len(padding)
      /\ \A i \in 1..Len(s) : t[i] = s[i]
      /\ \A i \in 1..Len(padding) : t[Len(s) + i] = padding[i]
  OBVIOUS
<1> HIDE DEF t
<1>2. t[Len(t)] = diff /\ Len(s) \in Nat /\ Len(t) - diff = Len(s) /\ Len(t) # 0
  BY <1>1
<1>3. Unpadded(t) = SubSeq(t, 1, Len(s))
  BY <1>2 DEF Unpadded
<1>4. SubSeq(t, 1, Len(s)) = s
  BY <1>1, <1>2
<1> QED
  BY <1>1, <1>3, <1>4 DEF t

\* The padded text is one or more blocks, and its last byte is the number of
\* bytes to take away.
LEMMA PaddingComesOff ==
  ASSUME NEW s \in Seq(Bytes)
  PROVE  /\ pkcs7pad(s) \in Seq(Bytes)
         /\ \E k \in Nat \ {0} : Len(pkcs7pad(s)) = k * BlockSize
         /\ Unpadded(pkcs7pad(s)) = s
<1> DEFINE q == Len(s) \div BlockSize
           r == Len(s) % BlockSize
           diff == BlockSize - r
           padding == [i \in 1..diff |-> diff % ByteSize]
<1>1. Len(s) \in Nat /\ q \in Nat /\ r \in 0..(BlockSize - 1) /\ Len(s) = BlockSize * q + r
  BY SizesAreNumbers
<1>2. pkcs7pad(s) = s \o padding
  BY DEF pkcs7pad
<1> HIDE DEF q, r
<1>3. diff \in 1..BlockSize /\ diff % ByteSize = diff /\ diff \in Bytes
  BY <1>1, SizesAreNumbers DEF Bytes
<1>4. padding \in Seq(Bytes) /\ Len(padding) = diff /\ padding[diff] = diff
  <2> HIDE DEF diff
  <2> QED
    BY <1>3, SizesAreNumbers
<1> HIDE DEF padding, diff
<1>5. /\ pkcs7pad(s) \in Seq(Bytes) /\ Len(pkcs7pad(s)) = Len(s) + diff
      /\ Unpadded(pkcs7pad(s)) = s
  BY <1>2, <1>3, <1>4, TextComesOff
<1>6. Len(s) + diff = (q + 1) * BlockSize
  BY <1>1, SizesAreNumbers DEF diff
<1> QED
  BY <1>1, <1>5, <1>6

LEMMA CipherIsUndone ==
  ASSUME NEW key \in Keys, NEW b \in Blocks
  PROVE  Encrypt(key, b) \in Blocks /\ Decrypt(key, Encrypt(key, b)) = b
<1>1. key[b] \in Blocks /\ \A c \in Blocks : key[c] = key[b] => c = b
  BY CryptopalsAssumption
<1> QED
  BY <1>1 DEF Encrypt, Decrypt

LEMMA XorIsUndone ==
  ASSUME NEW a \in Bytes, NEW b \in Bytes
  PROVE  /\ ByteXor(a, b) \in Bytes
         /\ ByteXor(ByteXor(a, b), b) = a /\ ByteXor(ByteXor(a, b), a) = b
         /\ ByteXor(a, ByteXor(a, b)) = b /\ ByteXor(0, a) = a
<1>1. 0 \in Bytes
  BY SizesAreNumbers DEF Bytes
<1> QED
  BY <1>1, XorAssumption

LEMMA BlockXorIsUndone ==
  ASSUME NEW a \in Blocks, NEW b \in Blocks
  PROVE  xor(a, b) \in Blocks /\ xor(xor(a, b), a) = b
<1>1. Len(a) = BlockSize /\ \A i \in 1..BlockSize : a[i] \in Bytes /\ b[i] \in Bytes
  BY BlockIsText
<1>2. xor(a, b) = [i \in 1..BlockSize |-> ByteXor(a[i], b[i])]
  BY <1>1 DEF xor
<1>3. xor(a, b) \in Blocks
  BY <1>1, <1>2, XorIsUndone DEF Blocks
<1>4. xor(xor(a, b), a) = [i \in 1..BlockSize |-> ByteXor(xor(a, b)[i], a[i])]
  BY <1>3, BlockIsText DEF xor
<1>5. \A i \in 1..BlockSize : ByteXor(xor(a, b)[i], a[i]) = b[i]
  BY <1>1, <1>2, XorIsUndone
<1>6. b = [i \in 1..BlockSize |-> b[i]]
  BY DEF Blocks
<1> QED
  BY <1>3, <1>4, <1>5, <1>6

-----------------------------------------------------------------------------
(* The XOR ciphers and hexadecimal digits.                                 *)

LEMMA DigitsOfByte ==
  ASSUME NEW b \in Nat
  PROVE  (b \div HexBase) * HexBase + (b % HexBase) = b
<1> DEFINE q == b \div HexBase
           r == b % HexBase
<1>1. q \in Nat /\ r \in Nat /\ b = HexBase * q + r
  BY SizesAreNumbers
<1> HIDE DEF q, r
<1>2. q * HexBase + r = b
  BY <1>1, SizesAreNumbers
<1> QED
  BY <1>2 DEF q, r

LEMMA HexIsUndone ==
  ASSUME NEW s \in Seq(Bytes)
  PROVE  DecodeHex(EncodeHex(s)) = s
<1> DEFINE hex == EncodeHex(s)
<1>1. /\ Len(s) \in Nat /\ 2 * Len(s) \in Nat /\ (2 * Len(s)) \div 2 = Len(s)
      /\ Len(hex) = 2 * Len(s)
  BY DEF EncodeHex
<1>2. ASSUME NEW i \in 1..Len(s)
      PROVE  hex[2 * i - 1] * HexBase + hex[2 * i] = s[i]
  <2>1. /\ 2 * i - 1 \in 1..(2 * Len(s)) /\ 2 * i \in 1..(2 * Len(s))
        /\ ((2 * i - 1) + 1) \div 2 = i /\ (2 * i - 1) % 2 = 1
        /\ (2 * i + 1) \div 2 = i /\ (2 * i) % 2 = 0
    BY <1>1
  <2>2. hex[2 * i - 1] = s[i] \div HexBase /\ hex[2 * i] = s[i] % HexBase
    BY <2>1 DEF EncodeHex
  <2>3. s[i] \in Nat
    BY SizesAreNumbers DEF Bytes
  <2> HIDE DEF hex
  <2> QED
    BY <2>2, <2>3, DigitsOfByte
<1>3. DecodeHex(hex) = [i \in 1..Len(s) |-> hex[2 * i - 1] * HexBase + hex[2 * i]]
  BY <1>1 DEF DecodeHex
<1> HIDE DEF hex
<1>4. DecodeHex(hex) = [i \in 1..Len(s) |-> s[i]]
  BY <1>2, <1>3
<1> QED
  BY <1>4 DEF hex

\* The byte of the key for position i of a text.
KeyByte(k, i) == k[((i - 1) % Len(k)) + 1]
Xored(s, k) == [i \in 1..Len(s) |-> ByteXor(s[i], KeyByte(k, i))]

LEMMA KeyByteIsByte ==
  ASSUME NEW k \in XorKeys, NEW i \in Nat \ {0}
  PROVE  KeyByte(k, i) \in Bytes
<1>1. k \in Seq(Bytes) /\ Len(k) \in Nat \ {0}
  BY CryptopalsAssumption
<1>2. ((i - 1) % Len(k)) + 1 \in 1..Len(k)
  BY <1>1
<1> QED
  BY <1>1, <1>2 DEF KeyByte

LEMMA XoredIsText ==
  ASSUME NEW s \in Seq(Bytes), NEW k \in XorKeys
  PROVE  /\ Xored(s, k) \in Seq(Bytes) /\ Len(Xored(s, k)) = Len(s)
         /\ \A i \in 1..Len(s) : Xored(s, k)[i] = ByteXor(s[i], KeyByte(k, i))
         /\ RepeatingKeyXOR(s, k) = EncodeHex(Xored(s, k))
<1>1. \A i \in 1..Len(s) : ByteXor(s[i], KeyByte(k, i)) \in Bytes
  BY KeyByteIsByte, XorIsUndone
<1> QED
  BY <1>1 DEF Xored, RepeatingKeyXOR, KeyByte

LEMMA XorBack ==
  ASSUME NEW s \in Seq(Bytes), NEW k \in XorKeys
  PROVE  Xored(Xored(s, k), k) = s
<1>1. \A i \in 1..Len(s) : s[i] \in Bytes /\ KeyByte(k, i) \in Bytes
  BY KeyByteIsByte
<1>2. \A i \in 1..Len(s) : ByteXor(Xored(s, k)[i], KeyByte(k, i)) = s[i]
  BY <1>1, XoredIsText, XorIsUndone
<1>3. Xored(Xored(s, k), k) = [i \in 1..Len(s) |-> ByteXor(Xored(s, k)[i], KeyByte(k, i))]
  BY XoredIsText DEF Xored
<1> QED
  BY <1>2, <1>3

LEMMA DistanceIsOfKey ==
  ASSUME NEW s \in Seq(Bytes), NEW k \in XorKeys
  PROVE  getEditDistance(s, Xored(s, k))
           = getEditDistance([i \in 1..Len(s) |-> 0], [i \in 1..Len(s) |-> KeyByte(k, i)])
<1> DEFINE zero == [i \in 1..Len(s) |-> 0]
           pad == [i \in 1..Len(s) |-> KeyByte(k, i)]
<1>1. ASSUME NEW i \in 1..Len(s)
      PROVE  ByteXor(s[i], Xored(s, k)[i]) = ByteXor(zero[i], pad[i])
  <2>1. s[i] \in Bytes /\ KeyByte(k, i) \in Bytes
    BY KeyByteIsByte
  <2> QED
    BY <2>1, XoredIsText, XorIsUndone
<1>2. Len(zero) = Len(s)
  OBVIOUS
<1> HIDE DEF zero, pad
<1>3. {bit \in (1..Len(s)) \X (0..7) :
         (ByteXor(s[bit[1]], Xored(s, k)[bit[1]]) \div 2^bit[2]) % 2 = 1}
      = {bit \in (1..Len(s)) \X (0..7) :
           (ByteXor(zero[bit[1]], pad[bit[1]]) \div 2^bit[2]) % 2 = 1}
  BY <1>1
<1>4. getEditDistance(s, Xored(s, k)) = getEditDistance(zero, pad)
  BY <1>2, <1>3 DEF getEditDistance
<1> QED
  BY <1>4 DEF zero, pad

LEMMA XorKept ==
  ASSUME text \in Seq(Bytes)
  PROVE  XorComesBack
<1> SUFFICES ASSUME NEW k \in XorKeys
             PROVE  LET hex == RepeatingKeyXOR(text, k)
                        pad == [i \in 1..Len(text) |-> k[((i - 1) % Len(k)) + 1]]
                    IN  /\ RepeatingKeyXOR(DecodeHex(hex), k) = EncodeHex(text)
                        /\ XOR(hex, EncodeHex(pad)) = EncodeHex(text)
                        /\ getEditDistance(text, DecodeHex(hex))
                             = getEditDistance([i \in 1..Len(text) |-> 0], pad)
  BY DEF XorComesBack
<1> DEFINE hex == RepeatingKeyXOR(text, k)
           pad == [i \in 1..Len(text) |-> KeyByte(k, i)]
<1>1. DecodeHex(hex) = Xored(text, k) /\ Xored(text, k) \in Seq(Bytes)
  BY XoredIsText, HexIsUndone
<1>2. RepeatingKeyXOR(DecodeHex(hex), k) = EncodeHex(text)
  BY <1>1, XoredIsText, XorBack
<1>3. XOR(hex, EncodeHex(pad)) = EncodeHex(text)
  <2>1. pad \in Seq(Bytes) /\ \A i \in 1..Len(text) : pad[i] = KeyByte(k, i)
    BY KeyByteIsByte
  <2> HIDE DEF hex, pad
  <2>2. xor(Xored(text, k), pad) = Xored(Xored(text, k), k)
    BY <2>1, XoredIsText DEF xor, Xored
  <2>3. XOR(hex, EncodeHex(pad)) = EncodeHex(xor(Xored(text, k), pad))
    BY <1>1, <2>1, HexIsUndone DEF XOR
  <2> QED
    BY <2>2, <2>3, XorBack
<1>4. getEditDistance(text, DecodeHex(hex)) = getEditDistance([i \in 1..Len(text) |-> 0], pad)
  BY <1>1, DistanceIsOfKey
<1> QED
  BY <1>2, <1>3, <1>4 DEF KeyByte

-----------------------------------------------------------------------------
(* What the loops have made of the first n blocks of p, in a call c.       *)

Ciphers == {"ECB", "CBC"}
Calls == [cipher : Ciphers, key : Keys, iv : Blocks]

\* The block that CBC mixes into block j.
Before(c, e, j) == IF j = 1 THEN c.iv ELSE Chunk(e, j - 1)

Input(c, e, p, j) ==
  IF c.cipher = "CBC" THEN xor(Before(c, e, j), Chunk(p, j)) ELSE Chunk(p, j)

CiphertextOf(c, e, p, n) ==
  /\ e \in Seq(Bytes) /\ Len(e) = n * BlockSize
  /\ \A j \in 1..n : Chunk(e, j) = Encrypt(c.key, Input(c, e, p, j))

PlaintextOf(d, p, n) ==
  /\ d \in Seq(Bytes) /\ Len(d) = n * BlockSize
  /\ \A j \in 1..n : Chunk(d, j) = Chunk(p, j)

\* How many blocks the padded text has.
Count == Len(pkcs7pad(text)) \div BlockSize

Types ==
  /\ text \in Seq(Bytes)
  /\ at \in {"text", "encrypt", "decrypt", "over"}
  /\ block \in Nat \ {0}
  /\ at \in {"text", "encrypt"} => decrypted = <<>>
  /\ at = "text" => encrypted = <<>>
  /\ at # "text" => call \in Calls

\* Of the padded text the first block - 1 blocks are encrypted, and prev is what
\* the next one is mixed with.
Encrypting ==
  at = "encrypt" =>
    /\ block - 1 \in 0..Count
    /\ CiphertextOf(call, encrypted, pkcs7pad(text), block - 1)
    /\ call.cipher = "CBC" => prev = Before(call, encrypted, block)

\* The whole ciphertext is there, and of it the first block - 1 blocks are read.
Decrypting ==
  at = "decrypt" =>
    /\ block - 1 \in 0..Count
    /\ CiphertextOf(call, encrypted, pkcs7pad(text), Count)
    /\ PlaintextOf(decrypted, pkcs7pad(text), block - 1)
    /\ call.cipher = "CBC" => prev = Before(call, encrypted, block)

Finished == at = "over" => decrypted = pkcs7pad(text)

TextIInv == Types /\ Encrypting /\ Decrypting /\ Finished

LEMMA PaddedBlocks ==
  ASSUME text \in Seq(Bytes)
  PROVE  /\ Count \in Nat \ {0} /\ Len(pkcs7pad(text)) = Count * BlockSize
         /\ pkcs7pad(text) \in Seq(Bytes)
         /\ Chunks(pkcs7pad(text)) = 1..Count
         /\ \A j \in 1..Count : Chunk(pkcs7pad(text), j) \in Blocks
<1>1. PICK k \in Nat \ {0} : Len(pkcs7pad(text)) = k * BlockSize
  BY PaddingComesOff
<1>2. Chunks(pkcs7pad(text)) = 1..k /\ Count = k
  BY <1>1, WholeBlocks DEF Count
<1>3. \A j \in 1..k : Chunk(pkcs7pad(text), j) \in Blocks
  BY <1>1, ChunkIsBlock, PaddingComesOff
<1> QED
  BY <1>1, <1>2, <1>3, PaddingComesOff

\* A ciphertext is read the same, for what is mixed in, when a block is appended.
LEMMA BeforeStays ==
  ASSUME NEW c, NEW n \in Nat, NEW e \in Seq(Bytes), Len(e) = n * BlockSize,
         NEW b \in Blocks, NEW j \in 1..(n + 1)
  PROVE  Before(c, e \o b, j) = Before(c, e, j)
<1>1. j # 1 => j - 1 \in 1..n
  OBVIOUS
<1>2. j # 1 => Chunk(e \o b, j - 1) = Chunk(e, j - 1)
  BY <1>1, AppendedBlock
<1> QED
  BY <1>2 DEF Before

LEMMA BeforeIsBlock ==
  ASSUME NEW c \in Calls, NEW n \in Nat, NEW e \in Seq(Bytes), Len(e) = n * BlockSize,
         NEW j \in 1..(n + 1)
  PROVE  Before(c, e, j) \in Blocks
<1>1. j # 1 => j - 1 \in 1..n
  OBVIOUS
<1>2. j # 1 => Chunk(e, j - 1) \in Blocks
  BY <1>1, ChunkIsBlock
<1> QED
  BY <1>2 DEF Before, Calls

LEMMA InputIsBlock ==
  ASSUME NEW c \in Calls, NEW n \in Nat, NEW e \in Seq(Bytes), Len(e) = n * BlockSize,
         NEW p, NEW j \in 1..(n + 1), Chunk(p, j) \in Blocks
  PROVE  Input(c, e, p, j) \in Blocks
BY BeforeIsBlock, BlockXorIsUndone DEF Input

\* One turn of the encrypting loop.
LEMMA OneMoreEncrypted ==
  ASSUME NEW c \in Calls, NEW e, NEW p, NEW n \in Nat, CiphertextOf(c, e, p, n),
         Chunk(p, n + 1) \in Blocks,
         NEW b, b = Encrypt(c.key, Input(c, e, p, n + 1))
  PROVE  /\ b \in Blocks /\ CiphertextOf(c, e \o b, p, n + 1)
         /\ Before(c, e \o b, n + 2) = b
<1>1. /\ e \in Seq(Bytes) /\ Len(e) = n * BlockSize
      /\ \A j \in 1..n : Chunk(e, j) = Encrypt(c.key, Input(c, e, p, j))
  BY DEF CiphertextOf
<1>2. b \in Blocks
  <2>1. Input(c, e, p, n + 1) \in Blocks
    BY <1>1, InputIsBlock
  <2> QED
    BY <2>1, CipherIsUndone DEF Calls
<1>3. /\ e \o b \in Seq(Bytes) /\ Len(e \o b) = (n + 1) * BlockSize
      /\ \A j \in 1..n : Chunk(e \o b, j) = Chunk(e, j)
      /\ Chunk(e \o b, n + 1) = b
  BY <1>1, <1>2, AppendedBlock
<1>4. \A j \in 1..(n + 1) : Input(c, e \o b, p, j) = Input(c, e, p, j)
  BY <1>1, <1>2, BeforeStays DEF Input
<1>5. ASSUME NEW j \in 1..(n + 1)
      PROVE  Chunk(e \o b, j) = Encrypt(c.key, Input(c, e \o b, p, j))
  <2>1. CASE j \in 1..n
    BY <1>1, <1>3, <1>4, <2>1
  <2>2. CASE j = n + 1
    BY <1>3, <1>4, <2>2
  <2> QED
    BY <2>1, <2>2
<1>6. n + 1 \in Nat /\ n + 2 # 1 /\ (n + 2) - 1 = n + 1
  OBVIOUS
<1> QED
  BY <1>2, <1>3, <1>5, <1>6 DEF CiphertextOf, Before

\* What the decrypting loop appends for block j is block j of the text.
LEMMA BlockComesBack ==
  ASSUME NEW c \in Calls, NEW e, NEW p, NEW n \in Nat, CiphertextOf(c, e, p, n),
         NEW j \in 1..n, Chunk(p, j) \in Blocks
  PROVE  /\ c.cipher = "ECB" => Decrypt(c.key, Chunk(e, j)) = Chunk(p, j)
         /\ c.cipher = "CBC" =>
              xor(Decrypt(c.key, Chunk(e, j)), Before(c, e, j)) = Chunk(p, j)
<1>1. /\ e \in Seq(Bytes) /\ Len(e) = n * BlockSize
      /\ Chunk(e, j) = Encrypt(c.key, Input(c, e, p, j))
  BY DEF CiphertextOf
<1>2. j \in 1..(n + 1)
  OBVIOUS
<1>3. Input(c, e, p, j) \in Blocks /\ Before(c, e, j) \in Blocks
  BY <1>1, <1>2, InputIsBlock, BeforeIsBlock
<1>4. Decrypt(c.key, Chunk(e, j)) = Input(c, e, p, j)
  BY <1>1, <1>3, CipherIsUndone DEF Calls
<1>5. xor(xor(Before(c, e, j), Chunk(p, j)), Before(c, e, j)) = Chunk(p, j)
  BY <1>3, BlockXorIsUndone
<1> QED
  BY <1>4, <1>5 DEF Input

LEMMA OneMoreDecrypted ==
  ASSUME NEW d, NEW p, NEW n \in Nat, PlaintextOf(d, p, n),
         NEW b \in Blocks, b = Chunk(p, n + 1)
  PROVE  PlaintextOf(d \o b, p, n + 1)
<1>1. /\ d \in Seq(Bytes) /\ Len(d) = n * BlockSize
      /\ \A j \in 1..n : Chunk(d, j) = Chunk(p, j)
  BY DEF PlaintextOf
<1>2. /\ d \o b \in Seq(Bytes) /\ Len(d \o b) = (n + 1) * BlockSize
      /\ \A j \in 1..n : Chunk(d \o b, j) = Chunk(d, j)
      /\ Chunk(d \o b, n + 1) = b
  BY <1>1, AppendedBlock
<1>3. \A j \in 1..(n + 1) : Chunk(d \o b, j) = Chunk(p, j)
  <2> SUFFICES ASSUME NEW j \in 1..(n + 1) PROVE Chunk(d \o b, j) = Chunk(p, j)
    OBVIOUS
  <2>1. j \in 1..n \/ j = n + 1
    OBVIOUS
  <2> QED
    BY <1>1, <1>2, <2>1
<1> QED
  BY <1>2, <1>3 DEF PlaintextOf

-----------------------------------------------------------------------------
(* The invariant, step by step.                                            *)

LEMMA TextInitIInv == TextInit => TextIInv
BY DEF TextInit, TextIInv, Types, Encrypting, Decrypting, Finished

LEMMA GrowIInv ==
  ASSUME TextIInv, Grow
  PROVE  TextIInv'
<1>1. /\ at = "text" /\ at' = at /\ block' = block
      /\ encrypted' = encrypted /\ decrypted' = decrypted
      /\ text' \in Seq(Bytes)
  BY DEF Grow, cipherVars, TextIInv, Types
<1> QED
  BY <1>1 DEF TextIInv, Types, Encrypting, Decrypting, Finished

LEMMA NothingIsEncrypted ==
  ASSUME NEW c, NEW p
  PROVE  CiphertextOf(c, <<>>, p, 0) /\ PlaintextOf(<<>>, p, 0)
BY SizesAreNumbers DEF CiphertextOf, PlaintextOf

LEMMA EncryptWithIInv ==
  ASSUME TextIInv, NEW cipher \in Ciphers, NEW key \in Keys, NEW iv \in Blocks,
         EncryptWith(cipher, key, iv)
  PROVE  TextIInv'
<1>1. /\ text \in Seq(Bytes) /\ text' = text /\ Count \in Nat
      /\ encrypted' = <<>> /\ decrypted' = <<>>
      /\ at' = "encrypt" /\ block' = 1 /\ prev' = iv
      /\ call' = [cipher |-> cipher, key |-> key, iv |-> iv]
  BY PaddedBlocks DEF TextIInv, Types, EncryptWith, Begin
<1>2. call' \in Calls /\ call'.iv = iv
  BY <1>1 DEF Calls
<1>3. Count' = Count
  BY <1>1 DEF Count
<1>4. Encrypting'
  <2>1. block' - 1 = 0 /\ 0 \in 0..Count
    BY <1>1
  <2>2. CiphertextOf(call', encrypted', pkcs7pad(text'), block' - 1)
    BY <1>1, <2>1, NothingIsEncrypted
  <2>3. prev' = Before(call', encrypted', block')
    BY <1>1, <1>2 DEF Before
  <2> QED
    BY <1>3, <2>1, <2>2, <2>3 DEF Encrypting
<1> QED
  BY <1>1, <1>2, <1>4 DEF TextIInv, Types, Decrypting, Finished

\* A turn of the loop is about a block of the padded text.
LEMMA TurnOfLoop ==
  ASSUME TextIInv, NEW cipher, IsBlockOf("encrypt", pkcs7pad(text), cipher)
  PROVE  /\ at = "encrypt" /\ call.cipher = cipher /\ call \in Calls
         /\ block - 1 \in Nat /\ (block - 1) + 1 = block /\ block \in 1..Count
         /\ Chunk(pkcs7pad(text), block) \in Blocks
         /\ CiphertextOf(call, encrypted, pkcs7pad(text), block - 1)
         /\ cipher = "CBC" => prev = Before(call, encrypted, block)
BY PaddedBlocks DEF TextIInv, Types, Encrypting, IsBlockOf

LEMMA EncryptBlockIInv ==
  ASSUME TextIInv, EncryptBlockECB \/ EncryptBlockCBC
  PROVE  TextIInv'
<1> DEFINE p == pkcs7pad(text)
           buf == Encrypt(call.key, Input(call, encrypted, p, block))
           n == block - 1
<1>1. \E cipher \in Ciphers : IsBlockOf("encrypt", p, cipher)
  BY DEF EncryptBlockECB, EncryptBlockCBC, Ciphers
<1>2. /\ at = "encrypt" /\ call \in Calls
      /\ n \in Nat /\ n + 1 = block /\ block \in 1..Count
      /\ Chunk(p, block) \in Blocks
      /\ CiphertextOf(call, encrypted, p, n)
  BY <1>1, TurnOfLoop
<1>3. /\ encrypted' = encrypted \o buf
      /\ call.cipher = "CBC" => prev' = buf
  <2>1. CASE EncryptBlockECB
    <3>1. call.cipher = "ECB"
      BY <2>1 DEF EncryptBlockECB, IsBlockOf
    <3> QED
      BY <2>1, <3>1 DEF EncryptBlockECB, Input
  <2>2. CASE EncryptBlockCBC
    <3>1. call.cipher = "CBC" /\ prev = Before(call, encrypted, block)
      BY <2>2, TurnOfLoop DEF EncryptBlockCBC
    <3> QED
      BY <2>2, <3>1 DEF EncryptBlockCBC, Input
  <2> QED
    BY <2>1, <2>2
<1>4. /\ at' = at /\ text' = text /\ call' = call /\ decrypted' = decrypted
      /\ block' = block + 1
  BY DEF EncryptBlockECB, EncryptBlockCBC
<1>5. /\ buf \in Blocks /\ CiphertextOf(call, encrypted \o buf, p, n + 1)
      /\ Before(call, encrypted \o buf, n + 2) = buf
  BY <1>2, OneMoreEncrypted
<1>6. block' - 1 = n + 1 /\ n + 2 = block' /\ block' - 1 \in 0..Count /\ block' \in Nat \ {0}
  BY <1>2, <1>4
<1>7. Count' = Count /\ pkcs7pad(text') = p
  BY <1>4 DEF Count
<1> HIDE DEF p, buf, n
<1>8. Encrypting'
  BY <1>3, <1>4, <1>5, <1>6, <1>7 DEF Encrypting
<1> QED
  BY <1>2, <1>4, <1>6, <1>8 DEF TextIInv, Types, Decrypting, Finished

LEMMA DecryptAESIInv ==
  ASSUME TextIInv, decryptAES
  PROVE  TextIInv'
<1>1. /\ at = "encrypt" /\ block \notin 1..Count /\ Count \in Nat /\ block \in Nat \ {0}
      /\ block - 1 \in 0..Count /\ call \in Calls /\ decrypted = <<>>
      /\ CiphertextOf(call, encrypted, pkcs7pad(text), block - 1)
  BY PaddedBlocks DEF TextIInv, Types, Encrypting, decryptAES
<1>2. block - 1 = Count
  BY <1>1
<1>3. /\ at' = "decrypt" /\ block' = 1 /\ prev' = call.iv
      /\ text' = text /\ call' = call /\ encrypted' = encrypted /\ decrypted' = decrypted
  BY DEF decryptAES, Begin
<1>4. Count' = Count
  BY <1>3 DEF Count
<1>5. Decrypting'
  <2>1. block' - 1 = 0 /\ 0 \in 0..Count
    BY <1>1, <1>3
  <2>2. PlaintextOf(decrypted', pkcs7pad(text'), block' - 1)
    BY <1>1, <1>3, <2>1, NothingIsEncrypted
  <2>3. prev' = Before(call', encrypted', block')
    BY <1>3 DEF Before
  <2> QED
    BY <1>1, <1>2, <1>3, <1>4, <2>1, <2>2, <2>3 DEF Decrypting
<1> QED
  BY <1>1, <1>3, <1>5 DEF TextIInv, Types, Encrypting, Finished

LEMMA DecryptBlockIInv ==
  ASSUME TextIInv, DecryptBlockECB \/ DecryptBlockCBC
  PROVE  TextIInv'
<1> DEFINE p == pkcs7pad(text)
           n == block - 1
<1>1. /\ at = "decrypt" /\ call \in Calls /\ text \in Seq(Bytes) /\ block \in Nat \ {0}
      /\ block \in Chunks(encrypted)
      /\ CiphertextOf(call, encrypted, p, Count)
      /\ PlaintextOf(decrypted, p, n)
  BY DEF TextIInv, Types, Decrypting, DecryptBlockECB, DecryptBlockCBC, IsBlockOf
<1>2. /\ Count \in Nat /\ encrypted \in Seq(Bytes) /\ Chunks(encrypted) = 1..Count
      /\ Len(encrypted) = Count * BlockSize
  BY <1>1, PaddedBlocks, WholeBlocks DEF CiphertextOf
<1>3. n \in Nat /\ n + 1 = block /\ block \in 1..Count /\ block + 1 \in Nat \ {0}
  BY <1>1, <1>2
<1>4. Chunk(p, block) \in Blocks
  BY <1>1, <1>3, PaddedBlocks
<1>5. /\ decrypted' = decrypted \o Chunk(p, block)
      /\ call.cipher = "CBC" => prev' = Chunk(encrypted, block)
  <2>1. CASE DecryptBlockECB
    <3>1. call.cipher = "ECB"
      BY <2>1 DEF DecryptBlockECB, IsBlockOf
    <3>2. Decrypt(call.key, Chunk(encrypted, block)) = Chunk(p, block)
      BY <1>1, <1>2, <1>3, <1>4, <3>1, BlockComesBack
    <3> QED
      BY <2>1, <3>1, <3>2 DEF DecryptBlockECB
  <2>2. CASE DecryptBlockCBC
    <3>1. call.cipher = "CBC" /\ prev = Before(call, encrypted, block)
      BY <2>2 DEF DecryptBlockCBC, IsBlockOf, TextIInv, Decrypting
    <3>2. xor(Decrypt(call.key, Chunk(encrypted, block)), prev) = Chunk(p, block)
      BY <1>1, <1>2, <1>3, <1>4, <3>1, BlockComesBack
    <3> QED
      BY <2>2, <3>2 DEF DecryptBlockCBC
  <2> QED
    BY <2>1, <2>2
<1>6. /\ at' = at /\ text' = text /\ call' = call /\ encrypted' = encrypted
      /\ block' = block + 1
  BY DEF DecryptBlockECB, DecryptBlockCBC
<1>7. PlaintextOf(decrypted \o Chunk(p, block), p, n + 1)
  BY <1>1, <1>3, <1>4, OneMoreDecrypted
<1>8. Before(call, encrypted, block + 1) = Chunk(encrypted, block)
  <2>1. block + 1 # 1 /\ (block + 1) - 1 = block
    BY <1>1
  <2> QED
    BY <2>1 DEF Before
<1>9. Count' = Count /\ pkcs7pad(text') = p /\ block' - 1 = n + 1 /\ block' - 1 \in 0..Count
  BY <1>2, <1>3, <1>6 DEF Count
<1> HIDE DEF p, n
<1>10. Decrypting'
  BY <1>1, <1>5, <1>6, <1>7, <1>8, <1>9 DEF Decrypting
<1> QED
  BY <1>1, <1>3, <1>6, <1>10 DEF TextIInv, Types, Encrypting, Finished

LEMMA ReturnIInv ==
  ASSUME TextIInv, Return
  PROVE  TextIInv'
<1> DEFINE p == pkcs7pad(text)
<1>1. /\ at = "decrypt" /\ block \in Nat \ {0} /\ block - 1 \in 0..Count
      /\ block \notin Chunks(encrypted)
      /\ text \in Seq(Bytes) /\ call \in Calls
      /\ CiphertextOf(call, encrypted, p, Count) /\ PlaintextOf(decrypted, p, block - 1)
  BY DEF TextIInv, Types, Decrypting, Return
<1>2. /\ Count \in Nat /\ p \in Seq(Bytes) /\ Len(p) = Count * BlockSize
      /\ Chunks(encrypted) = 1..Count
  BY <1>1, PaddedBlocks, WholeBlocks DEF CiphertextOf
<1>3. block - 1 = Count
  BY <1>1, <1>2
<1>4. decrypted = p
  BY <1>1, <1>2, <1>3, SameBlocksSameText DEF PlaintextOf
<1>5. at' = "over" /\ UNCHANGED <<text, call, prev, block, encrypted, decrypted>>
  BY DEF Return
<1> QED
  BY <1>1, <1>4, <1>5 DEF TextIInv, Types, Encrypting, Decrypting, Finished

LEMMA TextNextIInv == TextIInv /\ [TextNext]_textVars => TextIInv'
<1> SUFFICES ASSUME TextIInv, [TextNext]_textVars PROVE TextIInv'
  OBVIOUS
<1>1. NoBlock \in Blocks
  BY SizesAreNumbers DEF NoBlock, Blocks, Bytes
<1>2. CASE \E key \in Keys :
             encryptAESinECB(key) \/ \E iv \in Blocks : encryptAESinCBC(key, iv)
  <2>1. \E cipher \in Ciphers, key \in Keys, iv \in Blocks : EncryptWith(cipher, key, iv)
    BY <1>1, <1>2 DEF encryptAESinECB, encryptAESinCBC, Ciphers
  <2> QED
    BY <2>1, EncryptWithIInv
<1>3. CASE UNCHANGED textVars
  <2>1. UNCHANGED <<text, at, call, prev, block, encrypted, decrypted>>
    BY <1>3 DEF textVars, cipherVars
  <2> QED
    BY <2>1 DEF TextIInv, Types, Encrypting, Decrypting, Finished, Count
<1> QED
  BY <1>2, <1>3, GrowIInv, EncryptBlockIInv, DecryptAESIInv, DecryptBlockIInv, ReturnIInv
     DEF TextNext

-----------------------------------------------------------------------------
(* What follows of the texts.                                              *)

THEOREM TextInvariance == TextSpec => []TextIInv
BY TextInitIInv, TextNextIInv, PTL DEF TextSpec

\* A text comes back from the XOR ciphers, and its distance to what they made of
\* it is that of the key's bits, for keys of any length.
THEOREM XorIsItsOwnInverse == TextSpec => []XorComesBack
<1>1. TextIInv => XorComesBack
  BY XorKept DEF TextIInv, Types
<1> QED
  BY <1>1, TextInvariance, PTL

\* Every text comes back: from ECB and CBC without its padding, for any size of
\* blocks and bytes, under any permutations of the blocks and from any IV, and
\* from the XOR ciphers.
THEOREM EveryTextComesBack == TextSpec => []TextsComeBack
<1>1. TextIInv => BlocksComeBack
  BY PaddingComesOff DEF TextIInv, Types, Finished, BlocksComeBack
<1> QED
  BY <1>1, TextInvariance, XorIsItsOwnInverse, PTL DEF TextsComeBack

\* ECB keeps equal blocks equal and different ones different, so of what it made
\* detectAESinECBorCBC tells exactly whether the padded text repeats a block.
THEOREM ECBShowsRepeats == TextSpec => []RepeatsAreSeen
<1>1. TextIInv => RepeatsAreSeen
  <2> SUFFICES ASSUME TextIInv, at = "decrypt", call.cipher = "ECB"
               PROVE  detectAESinECBorCBC(encrypted) = "ECB"
                        <=> \E i, j \in Chunks(pkcs7pad(text)) :
                              i < j /\ Chunk(pkcs7pad(text), i) = Chunk(pkcs7pad(text), j)
    BY DEF RepeatsAreSeen
  <2>1. text \in Seq(Bytes) /\ call \in Calls
    BY DEF TextIInv, Types
  <2>2. CiphertextOf(call, encrypted, pkcs7pad(text), Count)
    BY DEF TextIInv, Decrypting
  <2>3. Chunks(encrypted) = 1..Count /\ Chunks(pkcs7pad(text)) = 1..Count
    BY <2>1, <2>2, PaddedBlocks, WholeBlocks DEF CiphertextOf
  <2>4. \A j \in 1..Count :
          /\ Chunk(encrypted, j) = Encrypt(call.key, Chunk(pkcs7pad(text), j))
          /\ Decrypt(call.key, Chunk(encrypted, j)) = Chunk(pkcs7pad(text), j)
    <3>1. \A j \in 1..Count : Chunk(encrypted, j) = Encrypt(call.key, Chunk(pkcs7pad(text), j))
      BY <2>2 DEF CiphertextOf, Input
    <3> QED
      BY <2>1, <3>1, PaddedBlocks, CipherIsUndone DEF Calls
  <2>5. \A i, j \in 1..Count :
          Chunk(encrypted, i) = Chunk(encrypted, j)
            <=> Chunk(pkcs7pad(text), i) = Chunk(pkcs7pad(text), j)
    BY <2>4, Zenon
  <2> QED
    BY <2>3, <2>5 DEF detectAESinECBorCBC
<1> QED
  BY <1>1, TextInvariance, PTL

-----------------------------------------------------------------------------
(* Jwt: of what a token consists.                                          *)

Algorithms == {"HS256", "RS256"}
Contents == Algorithms \cup Payloads \cup Signatures \cup {NotJson}
Parts == Spelt(Contents) \cup {Garbled}

\* A made signature is over header and payload as the encoder spells them, and
\* its key is one of the algorithm the header names.
MadeWith(signature, alg, p, k) ==
  /\ signature = Signature(k, EncodeToString(alg), EncodeToString(Marshal(p)))
  /\ alg = "HS256" => k \in Secrets
  /\ alg = "RS256" => k \in KeyPairs
Made ==
  {signature \in Signatures :
     \E alg \in Algorithms, p \in Payloads, k \in Secrets \cup KeyPairs :
       MadeWith(signature, alg, p, k)}

\* Whatever was changed of a token, its third part reads as a signature that was
\* made with a key of the algorithm it names, or is unreadable.
TokenIsOfMadeParts ==
  /\ token \in Seq(Parts) /\ Len(token) \in {0, 2, 3, 4}
  /\ Len(token) >= 3 => token[3] = Garbled \/ DecodeString(token[3]) \in Made

TokenIInv == clock \in Nat /\ TokenIsOfMadeParts

LEMMA TokenParts ==
  ASSUME NEW S, NEW t \in Seq(S), Len(t) = 3
  PROVE  t = <<t[1], t[2], t[3]>>
OBVIOUS

\* What was encoded is decoded again, however it is spelt meanwhile.
LEMMA EncodedIsDecoded ==
  ASSUME NEW c \in Payloads \cup Signatures
  PROVE  DecodeString(EncodeToString(c)) = c
<1>1. EncodeToString(c) \in Spelt(Payloads) \cup Spelt(Signatures)
  BY DEF EncodeToString, Spelt
<1>2. EncodeToString(c) # Garbled
  BY <1>1, JwtAssumption
<1> QED
  BY <1>2 DEF DecodeString, EncodeToString

LEMMA MarshalIsPayload ==
  ASSUME NEW p \in Payloads
  PROVE  Marshal(p) \in Payloads /\ Marshal(p).exp = p.exp
BY JwtAssumption DEF Marshal, Payloads

LEMMA SignatureIsMade ==
  ASSUME NEW alg \in Algorithms, NEW p \in Payloads, NEW k \in Secrets \cup KeyPairs,
         alg = "HS256" => k \in Secrets, alg = "RS256" => k \in KeyPairs
  PROVE  Signature(k, EncodeToString(alg), EncodeToString(Marshal(p))) \in Made
<1> DEFINE signature == Signature(k, EncodeToString(alg), EncodeToString(Marshal(p)))
<1>1. EncodeToString(alg) \in Spelt({"HS256", "RS256"})
  BY DEF EncodeToString, Spelt, Algorithms
<1>2. EncodeToString(Marshal(p)) \in Spelt(Payloads)
  BY MarshalIsPayload DEF EncodeToString, Spelt
<1>3. signature \in Signatures
  BY <1>1, <1>2 DEF Signature, Signed, Signatures
<1>4. MadeWith(signature, alg, p, k)
  BY DEF MadeWith
<1> QED
  BY <1>3, <1>4 DEF Made

LEMMA CreatedParts ==
  ASSUME NEW t \in Created
  PROVE  /\ t \in Seq(Parts) /\ Len(t) = 3
         /\ DecodeString(t[3]) \in Made
<1>1. PICK alg \in Algorithms, p \in Payloads, k \in Secrets \cup KeyPairs :
        /\ t = Create(alg, p, k)
        /\ alg = "HS256" => k \in Secrets
        /\ alg = "RS256" => k \in KeyPairs
  BY DEF Created, CreateJWTHS256, CreateJWTRS256, Algorithms
<1> DEFINE header == EncodeToString(alg)
           body == EncodeToString(Marshal(p))
           signature == Signature(k, header, body)
<1>2. signature \in Made
  BY <1>1, SignatureIsMade
<1>3. t = <<header, body, EncodeToString(signature)>>
  BY <1>1 DEF Create
<1>4. header \in Parts
  BY DEF EncodeToString, Spelt, Parts, Contents
<1>5. body \in Parts
  BY MarshalIsPayload DEF EncodeToString, Spelt, Parts, Contents
<1>6. EncodeToString(signature) \in Parts
  BY <1>2 DEF EncodeToString, Spelt, Parts, Contents, Made
<1>7. DecodeString(EncodeToString(signature)) = signature
  BY <1>2, EncodedIsDecoded DEF Made
<1> HIDE DEF header, body, signature
<1>8. t \in Seq(Parts) /\ Len(t) = 3 /\ t[3] = EncodeToString(signature)
  BY <1>3, <1>4, <1>5, <1>6
<1> QED
  BY <1>2, <1>7, <1>8

LEMMA TokenInitIInv == JwtInit => TokenIInv
BY DEF JwtInit, TokenIInv, TokenIsOfMadeParts

LEMMA MakeIInv ==
  ASSUME TokenIInv, Make
  PROVE  TokenIInv'
<1>1. token' \in Created /\ clock' = clock
  BY DEF Make
<1>2. /\ token' \in Seq(Parts) /\ Len(token') = 3
      /\ DecodeString(token'[3]) \in Made
  BY <1>1, CreatedParts
<1> QED
  BY <1>1, <1>2 DEF TokenIInv, TokenIsOfMadeParts

LEMMA ChangeIInv ==
  ASSUME TokenIInv, Change
  PROVE  TokenIInv'
<1>1. PICK i \in 1..Len(token) : \E part :
        /\ token' = [token EXCEPT ![i] = part]
        /\ \/ \E t \in Created : i <= 3 /\ part = t[i]
           \/ part = Garbled
           \/ i = 2 /\ part = EncodeToString(NotJson)
           \/ token[i] # Garbled /\ part = [token[i] EXCEPT !.spelt = "otherwise"]
  BY DEF Change
<1>2. PICK part :
        /\ token' = [token EXCEPT ![i] = part]
        /\ \/ \E t \in Created : i <= 3 /\ part = t[i]
           \/ part = Garbled
           \/ i = 2 /\ part = EncodeToString(NotJson)
           \/ token[i] # Garbled /\ part = [token[i] EXCEPT !.spelt = "otherwise"]
  BY <1>1
<1>3. part \in Parts /\ (i = 3 => part = Garbled \/ DecodeString(part) \in Made)
  <2>1. CASE \E t \in Created : i <= 3 /\ part = t[i]
    BY <2>1, CreatedParts
  <2>2. CASE part = Garbled
    BY <2>2 DEF Parts
  <2>3. CASE i = 2 /\ part = EncodeToString(NotJson)
    <3>1. NotJson \in Contents
      BY DEF Contents
    <3>2. part \in Spelt(Contents)
      BY <2>3, <3>1 DEF EncodeToString, Spelt
    <3> QED
      BY <2>3, <3>2 DEF Parts
  <2>4. CASE token[i] # Garbled /\ part = [token[i] EXCEPT !.spelt = "otherwise"]
    <3>1. token[i] \in Spelt(Contents)
      BY <2>4 DEF TokenIInv, TokenIsOfMadeParts, Parts
    <3>2. part \in Spelt(Contents) /\ part.holds = token[i].holds
      BY <2>4, <3>1 DEF Spelt
    <3>3. DecodeString(part) = DecodeString(token[i]) \/ part = Garbled
      BY <2>4, <3>2 DEF DecodeString
    <3>4. i = 3 => DecodeString(token[i]) \in Made
      BY <2>4 DEF TokenIInv, TokenIsOfMadeParts
    <3> QED
      BY <3>2, <3>3, <3>4 DEF Parts
  <2> QED
    BY <1>2, <2>1, <2>2, <2>3, <2>4
<1>4. token \in Seq(Parts) /\ Len(token) \in Nat /\ i \in 1..Len(token)
  BY DEF TokenIInv, TokenIsOfMadeParts
<1>5. /\ token' \in Seq(Parts) /\ Len(token') = Len(token)
      /\ token'[i] = part
      /\ \A j \in 1..Len(token) \ {i} : token'[j] = token[j]
  BY <1>2, <1>3, <1>4
<1>6. clock' = clock
  BY DEF Change
<1> QED
  BY <1>3, <1>4, <1>5, <1>6 DEF TokenIInv, TokenIsOfMadeParts

\* One more part goes behind the parts a token has.
LEMMA AppendFacts ==
  ASSUME NEW S, NEW s \in Seq(S), NEW e \in S
  PROVE  /\ Append(s, e) \in Seq(S) /\ Len(Append(s, e)) = Len(s) + 1
         /\ \A i \in 1..Len(s) : Append(s, e)[i] = s[i]
  OBVIOUS

LEMMA FirstTwo ==
  ASSUME NEW S, NEW s \in Seq(S), Len(s) = 3
  PROVE  /\ SubSeq(s, 1, 2) \in Seq(S) /\ Len(SubSeq(s, 1, 2)) = 2
         /\ \A i \in 1..2 : SubSeq(s, 1, 2)[i] = s[i]
  OBVIOUS

LEMMA ResplitIInv ==
  ASSUME TokenIInv, Resplit
  PROVE  TokenIInv'
<1>1. token \in Seq(Parts) /\ Len(token) = 3 /\ Garbled \in Parts /\ clock' = clock
  BY DEF TokenIInv, TokenIsOfMadeParts, Resplit, Parts
<1>2. CASE token' = Append(token, Garbled)
  <2>1. /\ token' \in Seq(Parts) /\ Len(token') = 4
        /\ \A j \in 1..3 : token'[j] = token[j]
    <3>1. /\ Append(token, Garbled) \in Seq(Parts)
          /\ Len(Append(token, Garbled)) = Len(token) + 1
          /\ \A j \in 1..Len(token) : Append(token, Garbled)[j] = token[j]
      BY <1>1, AppendFacts, Zenon
    <3> QED
      BY <1>1, <1>2, <3>1
  <2> QED
    BY <1>1, <2>1 DEF TokenIInv, TokenIsOfMadeParts
<1>3. CASE token' = SubSeq(token, 1, 2)
  <2>1. /\ token' \in Seq(Parts) /\ Len(token') = 2
        /\ \A j \in 1..2 : token'[j] = token[j]
    BY <1>1, <1>3, FirstTwo, Zenon
  <2> QED
    BY <1>1, <2>1 DEF TokenIInv, TokenIsOfMadeParts
<1> QED
  BY <1>2, <1>3 DEF Resplit

LEMMA TokenNextIInv == TokenIInv /\ [JwtNext]_jwtVars => TokenIInv'
<1> SUFFICES ASSUME TokenIInv, [JwtNext]_jwtVars PROVE TokenIInv'
  OBVIOUS
<1>1. CASE Second
  BY <1>1 DEF Second, TokenIInv, TokenIsOfMadeParts
<1>2. CASE UNCHANGED jwtVars
  BY <1>2 DEF jwtVars, TokenIInv, TokenIsOfMadeParts
<1> QED
  BY <1>1, <1>2, MakeIInv, ChangeIInv, ResplitIInv DEF JwtNext

\* A signature that fits header and payload under a key was made with that key
\* over just these texts, by its algorithm.
LEMMA SignedWasMade ==
  ASSUME TokenIInv, NEW k, Len(token) = 3, token[3] # Garbled, IsSigned(token, k)
  PROVE  \E alg \in Algorithms, q \in Payloads :
           /\ ReadsAs(token, Create(alg, q, k))
           /\ DecodeString(token[2]) = Marshal(q)
           /\ alg = "HS256" => k \in Secrets
           /\ alg = "RS256" => k \in KeyPairs
<1>1. DecodeString(token[3]) = Signature(k, token[1], token[2])
  BY DEF IsSigned
<1>2. DecodeString(token[3]) \in Made
  BY DEF TokenIInv, TokenIsOfMadeParts
<1>3. PICK alg \in Algorithms, q \in Payloads, m \in Secrets \cup KeyPairs :
        MadeWith(DecodeString(token[3]), alg, q, m)
  BY <1>2 DEF Made
<1>4. Signature(k, token[1], token[2]) =
        Signature(m, EncodeToString(alg), EncodeToString(Marshal(q)))
  BY <1>1, <1>3 DEF MadeWith
<1>5. k = m /\ token[1] = EncodeToString(alg) /\ token[2] = EncodeToString(Marshal(q))
  BY <1>4 DEF Signature, Signed
<1>6. DecodeString(token[2]) = Marshal(q)
  BY <1>5, MarshalIsPayload, EncodedIsDecoded
<1>7. ReadsAs(token, Create(alg, q, k))
  <2> DEFINE signature == Signature(k, token[1], token[2])
  <2>1. Create(alg, q, k) = <<token[1], token[2], EncodeToString(signature)>>
    BY <1>5 DEF Create
  <2>2. DecodeString(EncodeToString(signature)) = signature
    BY <1>1, <1>2, EncodedIsDecoded DEF Made
  <2> QED
    BY <1>1, <2>1, <2>2 DEF ReadsAs
<1> QED
  BY <1>3, <1>5, <1>6, <1>7 DEF MadeWith

\* What both verifiers come down to, in whichever order they look.
Accepted(k, p) ==
  /\ Len(token) = 3 /\ token[3] # Garbled /\ IsSigned(token, k)
  /\ DecodeString(token[2]) = p /\ clock <= p.exp

LEMMA VerifiersAccept ==
  ASSUME TokenIInv, NEW k, NEW p \in Payloads
  PROVE  /\ VerifyJWTHS256(token, k) = [err |-> "", payload |-> p] <=> Accepted(k, p)
         /\ VerifyJWTRS256(token, k) = [err |-> "", payload |-> p] <=> Accepted(k, p)
<1> DEFINE body == DecodeString(token[2])
<1>1. p \notin {Garbled, NotJson} /\ p.exp \in Nat /\ clock \in Nat
  BY JwtAssumption DEF Payloads, TokenIInv
<1>2. \A message : message # "" => Error(message) # [err |-> "", payload |-> p]
  <2> SUFFICES ASSUME NEW message, message # ""
               PROVE  Error(message) # [err |-> "", payload |-> p]
    OBVIOUS
  <2>1. Error(message).err = message
    BY DEF Error
  <2>2. [err |-> "", payload |-> p].err = ""
    OBVIOUS
  <2> QED
    BY <2>1, <2>2
<1>3. \A q : [err |-> "", payload |-> q] = [err |-> "", payload |-> p] <=> q = p
  OBVIOUS
<1>4. VerifyJWTHS256(token, k) = [err |-> "", payload |-> p] =>
        /\ Len(token) = 3 /\ token[3] # Garbled /\ IsSigned(token, k)
        /\ body = p /\ ~(clock > body.exp)
  BY <1>2, <1>3 DEF VerifyJWTHS256
<1>5. VerifyJWTRS256(token, k) = [err |-> "", payload |-> p] =>
        /\ Len(token) = 3 /\ token[3] # Garbled /\ IsSigned(token, k)
        /\ body = p /\ ~(clock > body.exp)
  BY <1>2, <1>3 DEF VerifyJWTRS256
<1>6. Accepted(k, p) =>
        /\ VerifyJWTHS256(token, k) = [err |-> "", payload |-> p]
        /\ VerifyJWTRS256(token, k) = [err |-> "", payload |-> p]
  <2> SUFFICES ASSUME Accepted(k, p)
               PROVE  /\ VerifyJWTHS256(token, k) = [err |-> "", payload |-> p]
                      /\ VerifyJWTRS256(token, k) = [err |-> "", payload |-> p]
    OBVIOUS
  <2>1. /\ Len(token) = 3 /\ token[3] # Garbled /\ IsSigned(token, k)
        /\ body = p /\ body \notin {Garbled, NotJson}
        /\ ~(clock > body.exp)
    BY <1>1 DEF Accepted
  <2> QED
    BY <2>1 DEF VerifyJWTHS256, VerifyJWTRS256
<1>7. \A q : q = p /\ ~(clock > q.exp) => clock <= p.exp
  BY <1>1
<1>8. VerifyJWTHS256(token, k) = [err |-> "", payload |-> p] => Accepted(k, p)
  BY <1>4, <1>7 DEF Accepted
<1>9. VerifyJWTRS256(token, k) = [err |-> "", payload |-> p] => Accepted(k, p)
  BY <1>5, <1>7 DEF Accepted
<1> QED
  BY <1>6, <1>8, <1>9

LEMMA AcceptedWasMade ==
  ASSUME TokenIInv, NEW k, NEW p \in Payloads, NEW alg \in Algorithms,
         k \in Secrets => alg = "HS256", k \in KeyPairs => alg = "RS256",
         k \in Secrets \cup KeyPairs
  PROVE  Accepted(k, p) <=>
           /\ clock <= p.exp
           /\ \E q \in Payloads : Marshal(q) = p /\ ReadsAs(token, Create(alg, q, k))
<1>1. ASSUME Accepted(k, p)
      PROVE  \E q \in Payloads : Marshal(q) = p /\ ReadsAs(token, Create(alg, q, k))
  <2>1. PICK a \in Algorithms, q \in Payloads :
          /\ ReadsAs(token, Create(a, q, k))
          /\ DecodeString(token[2]) = Marshal(q)
          /\ a = "HS256" => k \in Secrets
          /\ a = "RS256" => k \in KeyPairs
    BY <1>1, SignedWasMade DEF Accepted
  <2>2. a = alg
    BY <2>1, JwtAssumption DEF Algorithms
  <2> QED
    BY <1>1, <2>1, <2>2 DEF Accepted
<1>2. ASSUME NEW q \in Payloads, Marshal(q) = p, ReadsAs(token, Create(alg, q, k)),
             clock <= p.exp
      PROVE  Accepted(k, p)
  <2> DEFINE header == EncodeToString(alg)
             body == EncodeToString(Marshal(q))
             signature == Signature(k, header, body)
  <2>1. Create(alg, q, k) = <<header, body, EncodeToString(signature)>>
    BY DEF Create
  <2>2. signature \in Signatures
    BY SignatureIsMade, JwtAssumption DEF Made, Algorithms
  <2>3. DecodeString(EncodeToString(signature)) = signature
    BY <2>2, EncodedIsDecoded
  <2>4. DecodeString(body) = p
    BY <1>2, MarshalIsPayload, EncodedIsDecoded
  <2> HIDE DEF header, body
  <2>5. /\ Len(token) = 3 /\ token[1] = header /\ token[2] = body
        /\ DecodeString(token[3]) = signature
    BY <1>2, <2>1, <2>3 DEF ReadsAs
  <2>6. token[3] # Garbled
    BY <2>2, <2>5, JwtAssumption DEF DecodeString
  <2> QED
    BY <1>2, <2>4, <2>5, <2>6 DEF Accepted, IsSigned
<1>3. Accepted(k, p) => clock <= p.exp
  BY DEF Accepted
<1> QED
  BY <1>1, <1>2, <1>3

-----------------------------------------------------------------------------

THEOREM TokenInvariance == JwtSpec => []TokenIInv
BY TokenInitIInv, TokenNextIInv, PTL DEF JwtSpec

\* However often parts of tokens are exchanged, respelt or made unreadable, a
\* verifier gives a payload back exactly if the token reads as one made with its
\* key of a payload that comes out of JSON as this one, and is in time; looking
\* at time or signature first is the same.
THEOREM OnlyMadeTokensVerify == JwtSpec => []VerifiesWhatWasMade
<1>1. TokenIInv => VerifiesWhatWasMade
  <2> SUFFICES ASSUME TokenIInv PROVE VerifiesWhatWasMade
    OBVIOUS
  <2>1. \A k \in Secrets, p \in Payloads :
          Accepted(k, p) <=>
            /\ clock <= p.exp
            /\ \E q \in Payloads :
                 Marshal(q) = p /\ ReadsAs(token, Create("HS256", q, k))
    BY AcceptedWasMade, JwtAssumption DEF Algorithms
  <2>2. \A k \in KeyPairs, p \in Payloads :
          Accepted(k, p) <=>
            /\ clock <= p.exp
            /\ \E q \in Payloads :
                 Marshal(q) = p /\ ReadsAs(token, Create("RS256", q, k))
    BY AcceptedWasMade, JwtAssumption DEF Algorithms
  <2> QED
    BY <2>1, <2>2, VerifiersAccept
       DEF VerifiesWhatWasMade, CreateJWTHS256, CreateJWTRS256
<1> QED
  BY <1>1, TokenInvariance, PTL
==============================================================================
