---------------------------- MODULE MCChatServer ----------------------------
(* Instances of ChatServer for TLC.                                        *)
EXTENDS ChatServer, TLC

CONSTANTS c1, c2, c3

\* A peer that types twice, one that types once and one that only listens.
TalkersAndListener == (c1 :> 2) @@ (c2 :> 1) @@ (c3 :> 0)

\* Two peers, of which one types twice.
TwoLinesAndOne == (c1 :> 2) @@ (c2 :> 1)

=============================================================================
