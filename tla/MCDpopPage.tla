----------------------------- MODULE MCDpopPage -----------------------------
(* Two tabs, so that logins can overlap across tabs as well as in one.      *)
EXTENDS DpopPage, TLC

CONSTANTS t1, t2

MCTabs == {t1, t2}
MCJtis == 1..MaxClicks
MCSymmetry == Permutations(MCTabs)
=============================================================================
