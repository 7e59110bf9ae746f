----------------------------- MODULE MCSettlement -----------------------------
(***************************************************************************)
(* A table of four; A raises the zeng and draws flowers.                   *)
(***************************************************************************)
EXTENDS Settlement, TLC

CONSTANTS A, B, C, D

MCHands ==
  {Dealt("strong", 0, "none"), Dealt("optional", 0, "none"),
   Dealt("strong", 4, "not_piao"), Dealt("optional", 9, "none")}

MCConfig == [tiers |-> <<5, 6, 7, 8>>, zeng |-> 2]

Win(p, special, gangs) == [player |-> p, special |-> special, gangs |-> gangs]
SelfDraw(win, sanxi) ==
  [outcome |-> "self_draw", wins |-> {win}, discarder |-> NoPlayer, sanxi |-> sanxi]
Discard(wins, p, sanxi) ==
  [outcome |-> "discard", wins |-> wins, discarder |-> p, sanxi |-> sanxi]

MCFacts ==
  {SelfDraw(Win(A, FALSE, 1), {{A, B}}),
   SelfDraw(Win(B, FALSE, 0), {{A, B}}),
   Discard({Win(A, FALSE, 0), Win(B, FALSE, 1)}, D, {{A, D}}),
   Discard({Win(A, TRUE, 0)}, D, {}),
   [outcome |-> "draw", wins |-> {}, discarder |-> NoPlayer, sanxi |-> {}]}

MCSymmetry == Permutations(Ids)
=============================================================================
