---------------------------- MODULE MCLibraries ----------------------------
(* The two libraries of functions, one after the other: texts for          *)
(* Cryptopals, tokens for Jwt.                                             *)
EXTENDS Cryptopals, Jwt, Bitwise, TLC

CONSTANTS ann, tom, torn, secret, other, pair

\* Tom's name with a byte that is not UTF-8.
MCUtf8 == [s \in Subjects |-> IF s = torn THEN tom ELSE s]

MCXor(a, b) == a ^^ b

\* Permutations of the blocks: one that moves every byte, one that mixes.
Rotation == [b \in Blocks |-> [i \in 1..BlockSize |-> (b[i] + i) % ByteSize]]
Mixture ==
  [b \in Blocks |-> [i \in 1..BlockSize |->
     IF i = 1 THEN b[BlockSize] ELSE ByteXor(b[i - 1], b[BlockSize])]]
MCKeys == {Rotation, Mixture}

MCXorKeys == {<<b>> : b \in Bytes} \cup {<<b, 1>> : b \in Bytes}

Init == TextInit /\ JwtInit

Texts == token = <<>> /\ clock = 0 /\ TextNext /\ UNCHANGED jwtVars
Tokens == text = <<>> /\ at = "text" /\ JwtNext /\ UNCHANGED textVars

Next == Texts \/ Tokens

Spec == Init /\ [][Next]_<<textVars, jwtVars>>
=============================================================================
