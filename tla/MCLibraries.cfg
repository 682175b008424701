\* Blocks of two bytes of two bits, texts that fill up to three blocks with their padding;
\* two changes of a token.
CONSTANTS
  ByteXor <- MCXor
  HexBase = 2
  BlockSize = 2
  MaxLength = 4
  Keys <- MCKeys
  XorKeys <- MCXorKeys
  ann = ann
  tom = tom
  torn = torn
  secret = secret
  other = other
  pair = pair
  Subjects = {ann, tom, torn}
  Utf8 <- MCUtf8
  Secrets = {secret, other}
  KeyPairs = {pair}
  Garbled = Garbled
  NotJson = NotJson
  MaxTime = 1
  MaxChanges = 2
SPECIFICATION Spec
INVARIANTS
  TextsComeBack
  RepeatsAreSeen
  VerifiesWhatWasMade
\* A text or a token is as long or as much changed as it may be.
CHECK_DEADLOCK FALSE
