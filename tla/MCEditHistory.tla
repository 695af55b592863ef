---------------------------- MODULE MCEditHistory ----------------------------
(***************************************************************************)
(* EditHistory with two requests under way and a few edits of one or two   *)
(* native steps each.                                                      *)
(***************************************************************************)
EXTENDS EditHistory, TLC

CONSTANTS c1, c2

MCClients == {c1, c2}
Symmetry  == Permutations(MCClients)
=============================================================================
