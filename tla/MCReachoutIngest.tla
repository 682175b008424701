-------------------------- MODULE MCReachoutIngest --------------------------
(* One number and the open route, two requests at a time.                  *)
EXTENDS ReachoutIngest, TLC

CONSTANTS ann, anonymous, c1, c2, x1

MCSenders == {ann, anonymous}
MCCalls == {c1, c2}
MCTexts == {x1}
MCSymmetry == Permutations(MCCalls)
=============================================================================
