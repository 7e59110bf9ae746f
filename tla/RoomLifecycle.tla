---------------------------- MODULE RoomLifecycle ----------------------------
(***************************************************************************)
(* The life of a room as its users see it: a table gathers, rounds are     *)
(* dealt, played and settled one after the other up to the agreed number,  *)
(* and the room ends finished or cancelled, for good.                      *)
(***************************************************************************)
EXTENDS Naturals

CONSTANT TotalRounds

VARIABLES status, roundNumber

lifeVars == <<status, roundNumber>>

Gathering == {"waiting", "ready"}
InRound == {"dealing", "playing", "settling", "next_round"}
Over == {"finished", "cancelled"}
Statuses == Gathering \cup InRound \cup Over

To(s) == status' = s /\ UNCHANGED roundNumber
DealTo(s) == status' = s /\ roundNumber' = roundNumber + 1

LifeInit == status = "waiting" /\ roundNumber = 0

Gather == status \in Gathering /\ \E s \in Gathering : To(s)
StartMatch == status \in Gathering /\ (DealTo("dealing") \/ DealTo("playing"))
PlayRound == status = "dealing" /\ To("playing")
SettleRound == status = "playing" /\ To("settling")

\* A further round only while fewer than TotalRounds were dealt.
AwaitNext == status = "settling" /\ roundNumber < TotalRounds /\ To("next_round")
DealNext == status \in {"settling", "next_round"} /\ roundNumber < TotalRounds /\ DealTo("dealing")
FinishMatch == status \in {"playing", "settling", "next_round"} /\ To("finished")
CancelRoom == status \notin Over /\ To("cancelled")

LifeNext == Gather \/ StartMatch \/ PlayRound \/ SettleRound \/ AwaitNext
            \/ DealNext \/ FinishMatch \/ CancelRoom

LifeSpec == LifeInit /\ [][LifeNext]_lifeVars
=============================================================================
