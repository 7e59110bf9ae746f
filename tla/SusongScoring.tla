---------------------------- MODULE SusongScoring ----------------------------
(***************************************************************************)
(* The settlement of a Susong round: whether a hand may win, its tier, and *)
(* what every payer pays every winner.  The players of `zeng` are the four *)
(* at the table; a config is the scores of the tiers and the zeng unit.    *)
(*                                                                         *)
(* A fact is what the rule engine reports: the outcome, the winners with   *)
(* their hands (a special pattern or not, wins on a kong), the discarder,  *)
(* and the pairs of players in the sanxi relation.                         *)
(***************************************************************************)
EXTENDS Integers, FiniteSets, Functions, SusongFlowers

Tiers == {"small", "big", "double_big", "one_bamboo"}
TierIndex(tier) ==
  CASE tier = "small" -> 1 [] tier = "big" -> 2 [] tier = "double_big" -> 3
    [] tier = "one_bamboo" -> 4

\* classifySusongHu.
ClassifyHu(flowers, special, gangs) ==
  CASE gangs >= 2 \/ special -> "one_bamboo"
    [] gangs = 1 /\ ~special -> IF flowers >= 6 THEN "one_bamboo"
                                ELSE IF flowers >= 4 THEN "double_big" ELSE "big"
    [] gangs = 0 /\ ~special -> IF flowers = 0 THEN "one_bamboo"
                                ELSE IF flowers <= 4 THEN "small"
                                ELSE IF flowers <= 9 THEN "big" ELSE "double_big"

NoFlower(s) == s.status = "piao" \/ s.counted = 0

\* evaluateSusongWin: allowed, and the tier.
MayWin(s, source) == ~Unresolved(s) /\ (NoFlower(s) => source = "self_draw")

WinTier(s, special, gangs) ==
  IF NoFlower(s) THEN "one_bamboo" ELSE ClassifyHu(s.counted, special, gangs)

\* Mutant: at a self-draw everybody pays.
EverybodyPays(fact, winner, players) ==
  IF fact.outcome = "self_draw" THEN players ELSE {fact.discarder}

Payers(fact, winner, players) ==
  IF fact.outcome = "self_draw" THEN players \ {winner} ELSE {fact.discarder}

Amount(config, zeng, fact, w, payer, tier) ==
  (config.tiers[TierIndex(tier)] + zeng[w] * config.zeng + zeng[payer] * config.zeng)
    * (IF {w, payer} \in fact.sanxi THEN 2 ELSE 1)

\* scoreSusongWin: what the payers owe one winner.
WinTransfers(config, zeng, flowers, fact, win) ==
  {[from |-> payer, to |-> win.player,
    amount |-> Amount(config, zeng, fact, win.player, payer,
                      WinTier(flowers[win.player], win.special, win.gangs))] :
     payer \in Payers(fact, win.player, DOMAIN zeng)}

Winners(fact) == {win.player : win \in fact.wins}

\* The facts that are not refused.
Scorable(zeng, flowers, fact) ==
  \/ fact.outcome = "draw"
  \/ /\ fact.outcome \in {"self_draw", "discard"}
     /\ Cardinality(fact.wins) \in (IF fact.outcome = "self_draw" THEN {1} ELSE 1..3)
     /\ Winners(fact) \subseteq DOMAIN zeng
     /\ Cardinality(Winners(fact)) = Cardinality(fact.wins)
     /\ fact.outcome = "discard" => fact.discarder \in DOMAIN zeng \ Winners(fact)
     /\ \A p \in Winners(fact) : MayWin(flowers[p], fact.outcome)

\* scoreSusongRound.
RoundTransfers(config, zeng, flowers, fact) ==
  IF fact.outcome = "draw" THEN {}
  ELSE UNION {WinTransfers(config, zeng, flowers, fact, win) : win \in fact.wins}

Deltas(players, transfers) ==
  [p \in players |->
     FoldFunction(+, 0, [t \in transfers |-> IF t.to = p THEN t.amount
                                             ELSE IF t.from = p THEN -t.amount ELSE 0])]
=============================================================================
