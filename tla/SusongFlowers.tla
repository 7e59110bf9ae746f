---------------------------- MODULE SusongFlowers ----------------------------
(***************************************************************************)
(* The flower and piao state of one player in a Susong round: created from *)
(* the opening hand, changed by the one piao choice, by flower draws and   *)
(* by discarding or replacing flowers one at a time.                       *)
(***************************************************************************)
EXTENDS Naturals

PiaoModes == {"strong", "optional"}
FlowerStatus == {"awaiting_piao_choice", "piao", "not_piao"}
PiaoChoices == {"none", "piao", "not_piao"}

FlowerStates ==
  [mode : PiaoModes, status : FlowerStatus, opening : Nat, drawn : Nat,
   counted : Nat, discards : Nat, replacements : Nat]

\* The state after the opening hand of n flowers; choice "none" when the
\* player has not been asked.
CreateFlowerState(mode, n, choice) ==
  LET awaiting == mode = "strong" /\ n > 0 /\ choice = "none"
      piao == mode = "strong" /\ (n = 0 \/ choice = "piao")
  IN [mode |-> mode,
      status |-> IF awaiting THEN "awaiting_piao_choice"
                 ELSE IF piao THEN "piao" ELSE "not_piao",
      opening |-> n, drawn |-> 0,
      counted |-> IF awaiting \/ piao THEN 0 ELSE n,
      discards |-> IF awaiting \/ piao THEN n ELSE 0,
      replacements |-> IF awaiting \/ piao THEN 0 ELSE n]

CanDraw(s) == s.status # "awaiting_piao_choice"

\* Mutant: a flower drawn counts in piao too.
RecordDrawCounting(s, n) ==
  [s EXCEPT !.drawn = @ + n, !.counted = @ + n, !.replacements = @ + n]

\* In piao every flower drawn must be discarded, otherwise it counts and is
\* replaced.
RecordDraw(s, n) ==
  IF s.status = "piao"
  THEN [s EXCEPT !.drawn = @ + n, !.discards = @ + n]
  ELSE [s EXCEPT !.drawn = @ + n, !.counted = @ + n, !.replacements = @ + n]

CanResolve(s, action) == IF action = "discard" THEN s.discards > 0 ELSE s.replacements > 0

Resolve(s, action) ==
  IF action = "discard" THEN [s EXCEPT !.discards = @ - 1]
  ELSE [s EXCEPT !.replacements = @ - 1]

Unresolved(s) ==
  s.status = "awaiting_piao_choice" \/ s.discards > 0 \/ s.replacements > 0
=============================================================================
