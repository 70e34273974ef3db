-------------------------- MODULE AttemptAccounting --------------------------
(***************************************************************************)
(* What the generator dispatch ledger promises to the code that uses it:   *)
(* per logical arm one attempt, whose recorded phase advances along        *)
(* planned, dispatched, completed or failed, and what a caller was told of *)
(* it.  Only what nobody was told may be forgotten.                        *)
(***************************************************************************)
CONSTANT Arms

VARIABLES
  recorded,  \* recorded[a]: the phase a replay of the journal would find
  told       \* told[a]: the phase last acknowledged to a caller

avars == <<recorded, told>>

Phases == {"unknown", "planned", "dispatched", "completed", "failed"}

\* The phases one event leads to.
After(phase) ==
  CASE phase = "unknown"    -> {"planned"}
    [] phase = "planned"    -> {"dispatched", "failed"}
    [] phase = "dispatched" -> {"completed", "failed"}
    [] OTHER                -> {}

\* An attempt in phase s may still become, or have become, t.
Reaches(s, t) ==
  \/ s = t
  \/ t \in After(s)
  \/ \E u \in After(s) : t \in After(u) \/ \E v \in After(u) : t \in After(v)

Init ==
  /\ recorded = [a \in Arms |-> "unknown"]
  /\ told = [a \in Arms |-> "unknown"]

Record(a) ==
  /\ \E s \in After(recorded[a]) : recorded' = [recorded EXCEPT ![a] = s]
  /\ UNCHANGED told

Tell(a) ==
  /\ told' = [told EXCEPT ![a] = recorded[a]]
  /\ UNCHANGED recorded

\* What was recorded and never acknowledged may be lost.
Forget ==
  /\ recorded' \in [Arms -> Phases]
  /\ \A a \in Arms : Reaches(told[a], recorded'[a]) /\ Reaches(recorded'[a], recorded[a])
  /\ UNCHANGED told

Next == Forget \/ \E a \in Arms : Record(a) \/ Tell(a)

Spec == Init /\ [][Next]_avars
=============================================================================
