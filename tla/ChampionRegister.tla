--------------------------- MODULE ChampionRegister ---------------------------
(***************************************************************************)
(* What strategy governance promises about champions, without the journal: *)
(* each family has at most one champion, it takes an explicit mandate to   *)
(* install one, a mandate concerns one family only, and a champion that    *)
(* has left its place comes back by a new mandate and in no other way.     *)
(* GovernanceStore (governance.py:305-342) implements it.                  *)
(***************************************************************************)
EXTENDS Naturals

CONSTANTS
    Families,
    Strategies      \* positive numbers: 0 says that there is none

VARIABLES
    champion,       \* family -> its champion, 0 when it has none
    mandate         \* family -> the strategy last installed in it, 0 if none

registerVars == <<champion, mandate>>

RegisterInit ==
    /\ champion = [f \in Families |-> 0]
    /\ mandate = [f \in Families |-> 0]

Install(family, strategy) ==
    /\ champion' = [champion EXCEPT ![family] = strategy]
    /\ mandate' = [mandate EXCEPT ![family] = strategy]

Vacate(families) ==
    /\ champion' = [f \in Families |-> IF f \in families THEN 0 ELSE champion[f]]
    /\ UNCHANGED mandate

RegisterNext ==
    \/ \E f \in Families, s \in Strategies : Install(f, s)
    \/ \E F \in SUBSET Families : Vacate(F)

RegisterSpec == RegisterInit /\ [][RegisterNext]_registerVars

RegisterTypeOK ==
    /\ champion \in [Families -> Strategies \cup {0}]
    /\ mandate \in [Families -> Strategies \cup {0}]

\* A family's champion is the one its last mandate named, or none.
ChampionIsMandated == \A f \in Families : champion[f] \in {0, mandate[f]}
================================================================================
