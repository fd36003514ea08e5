--------------------------- MODULE GovernanceProofs ---------------------------
(***************************************************************************)
(* Theorems about strategy governance (Governance.tla), for any number of  *)
(* request threads, families, sample counts and journal events.            *)
(***************************************************************************)
EXTENDS Governance, SequenceTheorems, WellFoundedInduction, TLAPS

-------------------------------------------------------------------------------
(* Sequences *)

\* Rewriting the elements of a sequence in place keeps its length.
LEMMA MappedSeq ==
    ASSUME NEW S, NEW n \in Nat, NEW f \in [1..n -> S]
    PROVE  f \in Seq(S) /\ Len(f) = n /\ DOMAIN f = 1..n
<1>1. f \in Seq(S)
  BY SeqDef
<1>2. QED
  BY <1>1, LenProperties

\* Appending keeps every position and adds one.
LEMMA AppendedSeq ==
    ASSUME NEW S, NEW seq \in Seq(S), NEW e \in S
    PROVE  /\ Append(seq, e) \in Seq(S)
           /\ Len(Append(seq, e)) = Len(seq) + 1
           /\ DOMAIN Append(seq, e) = 1..(Len(seq) + 1)
           /\ \A i \in 1..Len(seq) : Append(seq, e)[i] = seq[i]
           /\ Append(seq, e)[Len(seq) + 1] = e
  BY AppendProperties, LenProperties

-------------------------------------------------------------------------------
(* Type correctness *)

StoreTypeOK ==
    /\ profiles \in Seq(Profile)
    /\ strategies \in Seq(Strategy)
    /\ evaluations \in Seq(Evaluation)
    /\ promotions \in Seq(Promotion)
    /\ events \in Seq(JournalEvent)
    /\ torn \in BOOLEAN

\* Rewriting the status of some strategies leaves well-formed strategies.
LEMMA RestatedType ==
    ASSUME StoreTypeOK, NEW P, NEW status \in StrategyStatus
    PROVE  /\ Restated(P, status) \in Seq(Strategy)
           /\ Restated(P, status) \in [1..Len(strategies) -> Strategy]
<1>1. Len(strategies) \in Nat /\ DOMAIN strategies = 1..Len(strategies)
      /\ \A i \in 1..Len(strategies) : strategies[i] \in Strategy
  BY LenProperties, ElementOfSeq DEF StoreTypeOK
<1>2. Restated(P, status) \in [1..Len(strategies) -> Strategy]
  BY <1>1 DEF Restated, Strategy
<1>3. QED
  BY <1>1, <1>2, MappedSeq

LEMMA InstalledType ==
    ASSUME StoreTypeOK, NEW s
    PROVE  /\ Installed(s) \in Seq(Strategy)
           /\ Installed(s) \in [1..Len(strategies) -> Strategy]
<1> DEFINE R == Restated(Champions(strategies[s].family), "retired")
<1>1. Len(strategies) \in Nat /\ DOMAIN strategies = 1..Len(strategies)
      /\ \A i \in 1..Len(strategies) : strategies[i] \in Strategy
  BY LenProperties, ElementOfSeq DEF StoreTypeOK
<1>2. R \in [1..Len(strategies) -> Strategy]
  BY RestatedType DEF StrategyStatus
<1>3. Installed(s) = [i \in 1..Len(strategies) |->
          IF i = s THEN [strategies[i] EXCEPT !.status = "champion"] ELSE R[i]]
  BY <1>1 DEF Installed
<1> HIDE DEF R
<1>4. Installed(s) \in [1..Len(strategies) -> Strategy]
  BY <1>1, <1>2, <1>3 DEF Strategy, StrategyStatus
<1>5. QED
  BY <1>1, <1>4, MappedSeq

LEMMA SupersededType ==
    ASSUME StoreTypeOK
    PROVE  Superseded \in Seq(Profile) /\ Len(Superseded) = Len(profiles)
<1>1. Len(profiles) \in Nat /\ DOMAIN profiles = 1..Len(profiles)
      /\ \A i \in 1..Len(profiles) : profiles[i] \in Profile
  BY LenProperties, ElementOfSeq DEF StoreTypeOK
<1>2. Superseded \in [1..Len(profiles) -> Profile]
  BY <1>1 DEF Superseded, Profile, ProfileStatus
<1>3. QED
  BY <1>1, <1>2, MappedSeq

\* Saving appends one well-formed event.
LEMMA SaveType ==
    ASSUME StoreTypeOK, NEW e \in JournalEvent
    PROVE  _save(e) => events' \in Seq(JournalEvent) /\ torn' \in BOOLEAN
  BY AppendedSeq DEF _save, StoreTypeOK

\* Each locked method leaves a well-formed journal.
LEMMA create_profileType ==
    ASSUME StoreTypeOK, NEW n \in Nat, create_profile(n)
    PROVE  StoreTypeOK'
<1>1. [status |-> "current", samples |-> n] \in Profile
  BY DEF Profile, ProfileStatus
<1>2. profiles' \in Seq(Profile)
  BY <1>1, SupersededType, AppendedSeq DEF create_profile
<1>3. events' \in Seq(JournalEvent) /\ torn' \in BOOLEAN
  <2> DEFINE e == Event("trader_profile_generated", None, FALSE, {})
  <2>1. e \in JournalEvent
    BY DEF Event, JournalEvent, EventKind, None
  <2>2. _save(e)
    BY DEF create_profile
  <2> HIDE DEF e
  <2>3. QED
    BY <2>1, <2>2, SaveType
<1>4. QED
  BY <1>2, <1>3 DEF create_profile, StoreTypeOK

LEMMA edit_profileType ==
    ASSUME StoreTypeOK, NEW p, NEW n \in Nat, edit_profile(p, n)
    PROVE  StoreTypeOK'
<1>1. [status |-> "current", samples |-> n] \in Profile
  BY DEF Profile, ProfileStatus
<1>2. profiles' \in Seq(Profile)
  BY <1>1, SupersededType, AppendedSeq DEF edit_profile
<1>3. Dependents(p) \in SUBSET Nat
  BY LenProperties DEF Dependents, StoreTypeOK
<1>4. events' \in Seq(JournalEvent) /\ torn' \in BOOLEAN
  <2> DEFINE e == Event("trader_profile_edited", None, FALSE, Dependents(p))
  <2>1. e \in JournalEvent
    BY <1>3 DEF Event, JournalEvent, EventKind, None
  <2>2. _save(e)
    BY DEF edit_profile
  <2> HIDE DEF e
  <2>3. QED
    BY <2>1, <2>2, SaveType
<1>5. strategies' \in Seq(Strategy)
  BY RestatedType DEF edit_profile, StrategyStatus
<1>6. QED
  BY <1>2, <1>4, <1>5 DEF edit_profile, StoreTypeOK

LEMMA create_strategyType ==
    ASSUME StoreTypeOK, NEW s \in Strategy, create_strategy(s)
    PROVE  StoreTypeOK'
<1>1. strategies' \in Seq(Strategy)
  BY AppendedSeq DEF create_strategy, StoreTypeOK
<1>2. Len(strategies) + 1 \in Nat
  BY LenProperties DEF StoreTypeOK
<1>3. events' \in Seq(JournalEvent) /\ torn' \in BOOLEAN
  <2> DEFINE e == Event(IF s.status = "baseline_draft"
                THEN "baseline_strategy_created" ELSE "challenger_created",
                Len(strategies) + 1, FALSE, {})
  <2>1. e \in JournalEvent
    BY <1>2 DEF Event, JournalEvent, EventKind, None
  <2>2. _save(e)
    BY DEF create_strategy
  <2> HIDE DEF e
  <2>3. QED
    BY <2>1, <2>2, SaveType
<1>4. QED
  BY <1>1, <1>3 DEF create_strategy, StoreTypeOK

LEMMA evaluateType ==
    ASSUME StoreTypeOK, NEW s, NEW m, evaluate(s, m)
    PROVE  StoreTypeOK'
<1> DEFINE passed == promotion_blockers(SampleCount(m, strategies[s].profile), m.risks) = {}
<1>1. Len(strategies) \in Nat /\ DOMAIN strategies = 1..Len(strategies)
      /\ \A i \in 1..Len(strategies) : strategies[i] \in Strategy
  BY LenProperties, ElementOfSeq DEF StoreTypeOK
<1>2. s \in 1..Len(strategies) /\ passed \in BOOLEAN
  BY <1>1 DEF evaluate
<1>3. /\ evaluations' = Append(evaluations, [strategy |-> s, passed |-> passed])
      /\ strategies' = IF strategies[s].status = "baseline_draft" THEN strategies
                       ELSE [strategies EXCEPT ![s].status =
                                IF passed THEN "ready_for_review" ELSE "challenger"]
      /\ _save(Event("strategy_evaluation_completed", s, passed, {}))
      /\ UNCHANGED <<profiles, promotions>>
  BY DEF evaluate
<1> HIDE DEF passed
<1>4. evaluations' \in Seq(Evaluation)
  BY <1>2, <1>3, AppendedSeq DEF Evaluation, StoreTypeOK
<1>5. strategies' \in [1..Len(strategies) -> Strategy]
  <2>1. PICK x \in Strategy : x = strategies[s]
    BY <1>1, <1>2
  <2>2. \A status \in StrategyStatus : [x EXCEPT !.status = status] \in Strategy
    BY DEF Strategy
  <2>3. PICK y \in Strategy : strategies' = strategies \/ strategies' = [strategies EXCEPT ![s] = y]
    <3>1. PICK status \in StrategyStatus :
            strategies' = strategies \/ strategies' = [strategies EXCEPT ![s].status = status]
      BY <1>3 DEF StrategyStatus
    <3>2. strategies' = strategies \/ strategies' = [strategies EXCEPT ![s] = [x EXCEPT !.status = status]]
      BY <2>1, <3>1
    <3>3. QED
      BY <2>2, <3>2
  <2>4. strategies \in [1..Len(strategies) -> Strategy]
    BY <1>1, LenProperties DEF StoreTypeOK
  <2>5. QED
    BY <1>2, <2>3, <2>4
<1>6. strategies' \in Seq(Strategy)
  BY <1>1, <1>5, MappedSeq
<1>7. events' \in Seq(JournalEvent) /\ torn' \in BOOLEAN
  <2> DEFINE e == Event("strategy_evaluation_completed", s, passed, {})
  <2>1. e \in JournalEvent
    BY <1>2 DEF Event, JournalEvent, EventKind, None
  <2>2. _save(e)
    BY <1>3
  <2> HIDE DEF e
  <2>3. QED
    BY <2>1, <2>2, SaveType
<1>8. QED
  BY <1>3, <1>4, <1>6, <1>7 DEF StoreTypeOK

LEMMA request_promotionType ==
    ASSUME StoreTypeOK, NEW s, request_promotion(s)
    PROVE  StoreTypeOK'
<1>1. s \in Nat /\ \A e \in DOMAIN evaluations : e \in Nat
  BY LenProperties DEF request_promotion, StoreTypeOK
<1>2. promotions' \in Seq(Promotion)
  BY <1>1, AppendedSeq DEF request_promotion, Promotion, StoreTypeOK
<1>3. events' \in Seq(JournalEvent) /\ torn' \in BOOLEAN
  <2> DEFINE e == Event("promotion_recommended", s, TRUE, {})
  <2>1. e \in JournalEvent
    BY <1>1 DEF Event, JournalEvent, EventKind, None
  <2>2. _save(e)
    BY DEF request_promotion
  <2> HIDE DEF e
  <2>3. QED
    BY <2>1, <2>2, SaveType
<1>4. QED
  BY <1>2, <1>3 DEF request_promotion, StoreTypeOK

LEMMA confirm_promotionType ==
    ASSUME StoreTypeOK, NEW r, confirm_promotion(r)
    PROVE  StoreTypeOK'
<1>1. Len(promotions) \in Nat /\ DOMAIN promotions = 1..Len(promotions)
      /\ \A i \in 1..Len(promotions) : promotions[i] \in Promotion
  BY LenProperties, ElementOfSeq DEF StoreTypeOK
<1>2. promotions' \in [1..Len(promotions) -> Promotion]
  BY <1>1, LenProperties DEF confirm_promotion, Promotion, StoreTypeOK
<1>3. promotions' \in Seq(Promotion)
  BY <1>1, <1>2, MappedSeq
<1>4. promotions[r].strategy \in Nat
  BY <1>1 DEF confirm_promotion, Promotion
<1>5. events' \in Seq(JournalEvent) /\ torn' \in BOOLEAN
  <2> DEFINE e == Event("champion_promoted", promotions[r].strategy, TRUE, {})
  <2>1. e \in JournalEvent
    BY <1>4 DEF Event, JournalEvent, EventKind, None
  <2>2. _save(e)
    BY DEF confirm_promotion
  <2> HIDE DEF e
  <2>3. QED
    BY <2>1, <2>2, SaveType
<1>6. strategies' \in Seq(Strategy)
  BY InstalledType DEF confirm_promotion
<1>7. QED
  BY <1>3, <1>5, <1>6 DEF confirm_promotion, StoreTypeOK

LEMMA rollbackType ==
    ASSUME StoreTypeOK, NEW s, rollback(s)
    PROVE  StoreTypeOK'
<1>1. s \in Nat
  BY LenProperties DEF rollback, StoreTypeOK
<1>2. events' \in Seq(JournalEvent) /\ torn' \in BOOLEAN
  <2> DEFINE e == Event("champion_rolled_back", s, FALSE, {})
  <2>1. e \in JournalEvent
    BY <1>1 DEF Event, JournalEvent, EventKind, None
  <2>2. _save(e)
    BY DEF rollback
  <2> HIDE DEF e
  <2>3. QED
    BY <2>1, <2>2, SaveType
<1>3. strategies' \in Seq(Strategy)
  BY InstalledType DEF rollback
<1>4. QED
  BY <1>2, <1>3 DEF rollback, StoreTypeOK

-------------------------------------------------------------------------------
(* The inductive invariant *)

\* A pending or confirmed promotion, and every mandate, is of a known strategy:
\* without it the next confirmation could install a champion nobody created.
ReferencesKnown ==
    /\ \A r \in DOMAIN promotions : promotions[r].strategy \in DOMAIN strategies
    /\ \A i \in DOMAIN events :
           IsMandate(events[i]) => events[i].strategy \in DOMAIN strategies

StoreInv ==
    /\ StoreTypeOK
    /\ NewestProfileIsCurrent
    /\ AtMostOneChampion
    /\ ReferencesKnown
    /\ ChampionHasMandate

\* The strategies after a step that installs nobody: the old ones keep their
\* families, and whoever is champion was champion before.
NoNewChampion ==
    /\ \A i \in DOMAIN strategies :
           /\ i \in DOMAIN strategies'
           /\ strategies'[i].family = strategies[i].family
    /\ \A i \in DOMAIN strategies' :
           strategies'[i].status = "champion" =>
               i \in DOMAIN strategies /\ strategies[i].status = "champion"

\* A journalled step that installs nobody keeps every champion mandated.
LEMMA NoNewChampionKeeps ==
    ASSUME StoreInv, StoreTypeOK', NoNewChampion,
           NEW e, events' = Append(events, e), e \in JournalEvent, ~IsMandate(e)
    PROVE  /\ AtMostOneChampion'
           /\ ChampionHasMandate'
           /\ \A i \in DOMAIN events' :
                 IsMandate(events'[i]) => events'[i].strategy \in DOMAIN strategies'
<1>1. /\ DOMAIN events = 1..Len(events) /\ Len(events) \in Nat
      /\ DOMAIN events' = 1..(Len(events) + 1)
      /\ \A i \in 1..Len(events) : events'[i] = events[i]
      /\ events'[Len(events) + 1] = e
  BY AppendedSeq, LenProperties DEF StoreInv, StoreTypeOK
<1>2. \A i \in DOMAIN events' :
          IsMandate(events'[i]) => i \in DOMAIN events /\ events'[i] = events[i]
  BY <1>1
<1>3. \A i \in DOMAIN events' :
          IsMandate(events'[i]) => events'[i].strategy \in DOMAIN strategies'
  BY <1>2 DEF StoreInv, ReferencesKnown, NoNewChampion
<1>4. \A i \in DOMAIN events : IsMandate(events[i]) =>
          /\ events'[i] = events[i]
          /\ strategies'[events[i].strategy].family = strategies[events[i].strategy].family
  BY <1>1 DEF StoreInv, ReferencesKnown, NoNewChampion
<1>5. AtMostOneChampion'
  BY DEF AtMostOneChampion, StoreInv, NoNewChampion
<1>6. ChampionHasMandate'
  <2> SUFFICES ASSUME NEW s \in DOMAIN strategies', strategies'[s].status = "champion"
               PROVE  IsMandated(s)'
    BY DEF ChampionHasMandate
  <2>1. /\ s \in DOMAIN strategies /\ IsMandated(s)
        /\ strategies'[s].family = strategies[s].family
    BY DEF NoNewChampion, StoreInv, ChampionHasMandate
  <2>2. PICK i \in DOMAIN events :
            /\ IsMandate(events[i]) /\ events[i].strategy = s
            /\ \A j \in DOMAIN events :
                  /\ IsMandate(events[j])
                  /\ strategies[events[j].strategy].family = strategies[s].family
                  => j <= i
    BY <2>1 DEF IsMandated, Mandates
  <2>3. QED
    BY <1>1, <1>2, <1>4, <2>1, <2>2 DEF IsMandated, Mandates
<1>7. QED
  BY <1>3, <1>5, <1>6

\* Installing a strategy under a journalled mandate keeps one champion per
\* family, and that champion is the one the newest mandate names.
LEMMA InstallKeeps ==
    ASSUME StoreInv, StoreTypeOK', NEW s \in DOMAIN strategies,
           strategies' = Installed(s),
           NEW e, events' = Append(events, e), e \in JournalEvent,
           IsMandate(e), e.strategy = s
    PROVE  /\ AtMostOneChampion'
           /\ ChampionHasMandate'
           /\ \A i \in DOMAIN events' :
                 IsMandate(events'[i]) => events'[i].strategy \in DOMAIN strategies'
<1>1. /\ DOMAIN events = 1..Len(events) /\ Len(events) \in Nat
      /\ DOMAIN events' = 1..(Len(events) + 1)
      /\ \A i \in 1..Len(events) : events'[i] = events[i]
      /\ events'[Len(events) + 1] = e
  BY AppendedSeq, LenProperties DEF StoreInv, StoreTypeOK
<1>2. \A i \in DOMAIN strategies : strategies[i] \in Strategy
  BY LenProperties, ElementOfSeq DEF StoreInv, StoreTypeOK
<1>3. /\ DOMAIN strategies' = DOMAIN strategies
      /\ \A i \in DOMAIN strategies :
            /\ strategies'[i].family = strategies[i].family
            /\ strategies'[i].status = "champion" <=>
                   \/ i = s
                   \/ /\ strategies[i].status = "champion"
                      /\ strategies[i].family # strategies[s].family
  BY <1>2 DEF Installed, Restated, Champions, Strategy
<1>4. AtMostOneChampion'
  BY <1>3 DEF AtMostOneChampion, StoreInv
<1>5. \A i \in DOMAIN events' :
          IsMandate(events'[i]) => events'[i].strategy \in DOMAIN strategies'
  BY <1>1, <1>3 DEF StoreInv, ReferencesKnown
<1>6. \A i \in DOMAIN events' : IsMandate(events'[i]) =>
          \/ i = Len(events) + 1
          \/ /\ i \in DOMAIN events /\ IsMandate(events[i]) /\ events'[i] = events[i]
             /\ events[i].strategy \in DOMAIN strategies
             /\ strategies'[events[i].strategy].family = strategies[events[i].strategy].family
  BY <1>1, <1>3 DEF StoreInv, ReferencesKnown
<1>7. ChampionHasMandate'
  <2> SUFFICES ASSUME NEW c \in DOMAIN strategies', strategies'[c].status = "champion"
               PROVE  IsMandated(c)'
    BY DEF ChampionHasMandate
  <2>1. CASE c = s
    <3>1. Len(events) + 1 \in DOMAIN events' /\ \A j \in DOMAIN events' : j <= Len(events) + 1
      BY <1>1
    <3>2. QED
      BY <1>1, <1>3, <2>1, <3>1 DEF IsMandated, Mandates
  <2>2. CASE c # s
    <3>1. /\ c \in DOMAIN strategies /\ IsMandated(c)
          /\ strategies[c].family # strategies[s].family
          /\ strategies'[c].family = strategies[c].family
      BY <1>3, <2>2 DEF StoreInv, ChampionHasMandate
    <3>2. PICK i \in DOMAIN events :
              /\ IsMandate(events[i]) /\ events[i].strategy = c
              /\ \A j \in DOMAIN events :
                    /\ IsMandate(events[j])
                    /\ strategies[events[j].strategy].family = strategies[c].family
                    => j <= i
      BY <3>1 DEF IsMandated, Mandates
    <3>3. i \in DOMAIN events' /\ IsMandate(events'[i]) /\ events'[i].strategy = c
      BY <1>1, <3>2
    <3>4. ASSUME NEW j \in DOMAIN events', IsMandate(events'[j]),
                 strategies'[events'[j].strategy].family = strategies'[c].family
          PROVE  j <= i
      BY <1>1, <1>3, <1>6, <3>1, <3>2, <3>4
    <3>5. QED
      BY <3>3, <3>4 DEF IsMandated, Mandates
  <2>3. QED
    BY <2>1, <2>2
<1>8. QED
  BY <1>4, <1>5, <1>7

\* A new profile version supersedes all the others.
LEMMA NewVersionIsCurrent ==
    ASSUME StoreTypeOK, NEW n \in Nat,
           profiles' = Append(Superseded, [status |-> "current", samples |-> n])
    PROVE  NewestProfileIsCurrent'
<1> DEFINE new == [status |-> "current", samples |-> n]
<1>1. /\ Superseded \in Seq(Profile) /\ Len(Superseded) = Len(profiles)
      /\ Len(profiles) \in Nat /\ DOMAIN profiles = 1..Len(profiles)
      /\ \A i \in 1..Len(profiles) : profiles[i] \in Profile
  BY SupersededType, LenProperties, ElementOfSeq DEF StoreTypeOK
<1>2. \A i \in 1..Len(profiles) : Superseded[i].status = "superseded"
  BY <1>1 DEF Superseded, Profile
<1>3. new \in Profile /\ new.status = "current"
  BY DEF Profile, ProfileStatus
<1> HIDE DEF new
<1>4. /\ Len(Append(Superseded, new)) = Len(profiles) + 1
      /\ DOMAIN Append(Superseded, new) = 1..(Len(profiles) + 1)
      /\ \A i \in 1..Len(profiles) : Append(Superseded, new)[i].status = "superseded"
      /\ Append(Superseded, new)[Len(profiles) + 1] = new
  BY <1>1, <1>2, <1>3, AppendedSeq
<1>5. profiles' = Append(Superseded, new)
  BY DEF new
<1>6. QED
  BY <1>1, <1>3, <1>4, <1>5 DEF NewestProfileIsCurrent

LEMMA create_profileKeeps ==
    ASSUME StoreInv, NEW n \in Nat, create_profile(n)
    PROVE  StoreInv'
<1> DEFINE e == Event("trader_profile_generated", None, FALSE, {})
<1>1. StoreTypeOK'
  BY create_profileType DEF StoreInv
<1>2. NewestProfileIsCurrent'
  BY NewVersionIsCurrent DEF StoreInv, create_profile
<1>3. e \in JournalEvent /\ ~IsMandate(e) /\ events' = Append(events, e)
  BY DEF create_profile, _save, Event, JournalEvent, EventKind, IsMandate, None
<1>4. NoNewChampion
  BY DEF create_profile, NoNewChampion
<1> HIDE DEF e
<1>5. /\ AtMostOneChampion' /\ ChampionHasMandate'
      /\ \A i \in DOMAIN events' :
            IsMandate(events'[i]) => events'[i].strategy \in DOMAIN strategies'
  BY <1>1, <1>3, <1>4, NoNewChampionKeeps
<1>6. ReferencesKnown'
  BY <1>5 DEF ReferencesKnown, StoreInv, create_profile
<1>7. QED
  BY <1>1, <1>2, <1>5, <1>6 DEF StoreInv

LEMMA edit_profileKeeps ==
    ASSUME StoreInv, NEW p, NEW n \in Nat, edit_profile(p, n)
    PROVE  StoreInv'
<1> DEFINE e == Event("trader_profile_edited", None, FALSE, Dependents(p))
<1>1. StoreTypeOK'
  BY edit_profileType DEF StoreInv
<1>2. NewestProfileIsCurrent'
  BY NewVersionIsCurrent DEF StoreInv, edit_profile
<1>3. Dependents(p) \in SUBSET Nat
  BY LenProperties DEF Dependents, StoreInv, StoreTypeOK
<1>4. e \in JournalEvent /\ ~IsMandate(e) /\ events' = Append(events, e)
  BY <1>3 DEF edit_profile, _save, Event, JournalEvent, EventKind, IsMandate, None
<1>5. \A i \in DOMAIN strategies : strategies[i] \in Strategy
  BY LenProperties, ElementOfSeq DEF StoreInv, StoreTypeOK
<1>6. NoNewChampion /\ DOMAIN strategies' = DOMAIN strategies
  BY <1>5 DEF edit_profile, NoNewChampion, Restated, Strategy
<1> HIDE DEF e
<1>7. /\ AtMostOneChampion' /\ ChampionHasMandate'
      /\ \A i \in DOMAIN events' :
            IsMandate(events'[i]) => events'[i].strategy \in DOMAIN strategies'
  BY <1>1, <1>4, <1>6, NoNewChampionKeeps
<1>8. ReferencesKnown'
  BY <1>6, <1>7 DEF ReferencesKnown, StoreInv, edit_profile
<1>9. QED
  BY <1>1, <1>2, <1>7, <1>8 DEF StoreInv

LEMMA create_strategyKeeps ==
    ASSUME StoreInv, NEW s \in Strategy, s.status # "champion", create_strategy(s)
    PROVE  StoreInv'
<1> DEFINE e == Event(IF s.status = "baseline_draft"
                      THEN "baseline_strategy_created" ELSE "challenger_created",
                      Len(strategies) + 1, FALSE, {})
<1>1. StoreTypeOK'
  BY create_strategyType DEF StoreInv
<1>2. Len(strategies) \in Nat /\ DOMAIN strategies = 1..Len(strategies)
  BY LenProperties DEF StoreInv, StoreTypeOK
<1>3. e \in JournalEvent /\ ~IsMandate(e) /\ events' = Append(events, e)
  BY <1>2 DEF create_strategy, _save, Event, JournalEvent, EventKind, IsMandate
<1>4. /\ DOMAIN strategies' = 1..(Len(strategies) + 1)
      /\ \A i \in 1..Len(strategies) : strategies'[i] = strategies[i]
      /\ strategies'[Len(strategies) + 1] = s
  BY AppendedSeq DEF create_strategy, StoreInv, StoreTypeOK
<1>5. NoNewChampion
  BY <1>2, <1>4 DEF NoNewChampion
<1> HIDE DEF e
<1>6. /\ AtMostOneChampion' /\ ChampionHasMandate'
      /\ \A i \in DOMAIN events' :
            IsMandate(events'[i]) => events'[i].strategy \in DOMAIN strategies'
  BY <1>1, <1>3, <1>5, NoNewChampionKeeps
<1>7. ReferencesKnown' /\ NewestProfileIsCurrent'
  BY <1>2, <1>4, <1>6 DEF ReferencesKnown, NewestProfileIsCurrent, StoreInv, create_strategy
<1>8. QED
  BY <1>1, <1>6, <1>7 DEF StoreInv

LEMMA evaluateKeeps ==
    ASSUME StoreInv, NEW s, NEW m, evaluate(s, m)
    PROVE  StoreInv'
<1> DEFINE passed == promotion_blockers(SampleCount(m, strategies[s].profile), m.risks) = {}
           e == Event("strategy_evaluation_completed", s, passed, {})
<1>1. StoreTypeOK'
  BY evaluateType DEF StoreInv
<1>2. /\ s \in DOMAIN strategies
      /\ strategies' = IF strategies[s].status = "baseline_draft" THEN strategies
                       ELSE [strategies EXCEPT ![s].status =
                                IF passed THEN "ready_for_review" ELSE "challenger"]
      /\ events' = Append(events, e)
      /\ UNCHANGED <<profiles, promotions>>
  BY DEF evaluate, _save
<1>3. s \in Nat /\ passed \in BOOLEAN /\ \A i \in DOMAIN strategies : strategies[i] \in Strategy
  BY <1>2, LenProperties, ElementOfSeq DEF StoreInv, StoreTypeOK
<1> HIDE DEF passed
<1>4. e \in JournalEvent /\ ~IsMandate(e)
  BY <1>3 DEF Event, JournalEvent, EventKind, IsMandate
<1>5. NoNewChampion /\ DOMAIN strategies' = DOMAIN strategies
  BY <1>2, <1>3 DEF NoNewChampion, Strategy
<1> HIDE DEF e
<1>6. /\ AtMostOneChampion' /\ ChampionHasMandate'
      /\ \A i \in DOMAIN events' :
            IsMandate(events'[i]) => events'[i].strategy \in DOMAIN strategies'
  BY <1>1, <1>2, <1>4, <1>5, NoNewChampionKeeps
<1>7. ReferencesKnown' /\ NewestProfileIsCurrent'
  BY <1>2, <1>5, <1>6 DEF ReferencesKnown, NewestProfileIsCurrent, StoreInv
<1>8. QED
  BY <1>1, <1>6, <1>7 DEF StoreInv

LEMMA request_promotionKeeps ==
    ASSUME StoreInv, NEW s, request_promotion(s)
    PROVE  StoreInv'
<1> DEFINE e == Event("promotion_recommended", s, TRUE, {})
<1>1. StoreTypeOK'
  BY request_promotionType DEF StoreInv
<1>2. s \in DOMAIN strategies /\ s \in Nat
  BY LenProperties DEF request_promotion, StoreInv, StoreTypeOK
<1>3. e \in JournalEvent /\ ~IsMandate(e) /\ events' = Append(events, e)
  BY <1>2 DEF request_promotion, _save, Event, JournalEvent, EventKind, IsMandate
<1>4. NoNewChampion
  BY DEF request_promotion, NoNewChampion
<1> HIDE DEF e
<1>5. /\ AtMostOneChampion' /\ ChampionHasMandate'
      /\ \A i \in DOMAIN events' :
            IsMandate(events'[i]) => events'[i].strategy \in DOMAIN strategies'
  BY <1>1, <1>3, <1>4, NoNewChampionKeeps
<1>6. PICK ev \in DOMAIN evaluations :
          promotions' = Append(promotions, [strategy |-> s, evaluation |-> ev,
                                            status |-> "pending_confirmation"])
  BY DEF request_promotion
<1>7. [strategy |-> s, evaluation |-> ev, status |-> "pending_confirmation"] \in Promotion
  BY <1>2, LenProperties DEF Promotion, StoreInv, StoreTypeOK
<1>8. \A r \in DOMAIN promotions' :
          \/ promotions'[r].strategy = s
          \/ r \in DOMAIN promotions /\ promotions'[r] = promotions[r]
  BY <1>6, <1>7, AppendedSeq, LenProperties DEF StoreInv, StoreTypeOK
<1>9. ReferencesKnown' /\ NewestProfileIsCurrent'
  BY <1>2, <1>5, <1>8 DEF ReferencesKnown, NewestProfileIsCurrent, StoreInv, request_promotion
<1>10. QED
  BY <1>1, <1>5, <1>9 DEF StoreInv

LEMMA confirm_promotionKeeps ==
    ASSUME StoreInv, NEW r, confirm_promotion(r)
    PROVE  StoreInv'
<1> DEFINE s == promotions[r].strategy
           e == Event("champion_promoted", s, TRUE, {})
<1>1. StoreTypeOK'
  BY confirm_promotionType DEF StoreInv
<1>2. /\ r \in DOMAIN promotions /\ s \in DOMAIN strategies /\ s \in Nat
      /\ strategies' = Installed(s)
      /\ promotions' = [promotions EXCEPT ![r].status = "confirmed"]
      /\ events' = Append(events, e)
      /\ UNCHANGED profiles
  BY LenProperties DEF confirm_promotion, _save, StoreInv, ReferencesKnown, StoreTypeOK
<1> HIDE DEF s
<1>3. e \in JournalEvent /\ IsMandate(e) /\ e.strategy = s
  BY <1>2 DEF Event, JournalEvent, EventKind, IsMandate
<1> HIDE DEF e
<1>4. /\ AtMostOneChampion' /\ ChampionHasMandate'
      /\ \A i \in DOMAIN events' :
            IsMandate(events'[i]) => events'[i].strategy \in DOMAIN strategies'
  BY <1>1, <1>2, <1>3, InstallKeeps
<1>5. /\ DOMAIN strategies' = DOMAIN strategies
      /\ \A i \in DOMAIN promotions : promotions[i] \in Promotion
  BY <1>2, LenProperties, ElementOfSeq DEF Installed, StoreInv, StoreTypeOK
<1>6. \A i \in DOMAIN promotions' :
          i \in DOMAIN promotions /\ promotions'[i].strategy = promotions[i].strategy
  BY <1>2, <1>5 DEF Promotion
<1>7. ReferencesKnown' /\ NewestProfileIsCurrent'
  BY <1>2, <1>4, <1>5, <1>6 DEF ReferencesKnown, NewestProfileIsCurrent, StoreInv
<1>8. QED
  BY <1>1, <1>4, <1>7 DEF StoreInv

LEMMA rollbackKeeps ==
    ASSUME StoreInv, NEW s, rollback(s)
    PROVE  StoreInv'
<1> DEFINE e == Event("champion_rolled_back", s, FALSE, {})
<1>1. StoreTypeOK'
  BY rollbackType DEF StoreInv
<1>2. /\ s \in DOMAIN strategies /\ s \in Nat
      /\ strategies' = Installed(s)
      /\ events' = Append(events, e)
      /\ UNCHANGED <<profiles, promotions>>
  BY LenProperties DEF rollback, _save, StoreInv, StoreTypeOK
<1>3. e \in JournalEvent /\ IsMandate(e) /\ e.strategy = s
  BY <1>2 DEF Event, JournalEvent, EventKind, IsMandate
<1> HIDE DEF e
<1>4. /\ AtMostOneChampion' /\ ChampionHasMandate'
      /\ \A i \in DOMAIN events' :
            IsMandate(events'[i]) => events'[i].strategy \in DOMAIN strategies'
  BY <1>1, <1>2, <1>3, InstallKeeps
<1>5. DOMAIN strategies' = DOMAIN strategies
  BY <1>2 DEF Installed
<1>6. ReferencesKnown' /\ NewestProfileIsCurrent'
  BY <1>2, <1>4, <1>5 DEF ReferencesKnown, NewestProfileIsCurrent, StoreInv
<1>7. QED
  BY <1>1, <1>4, <1>6 DEF StoreInv

-------------------------------------------------------------------------------
(* The theorems *)

GovernanceInv == StoreInv /\ request \in [Threads -> Request]

LEMMA CurrentProfileType ==
    ASSUME StoreInv
    PROVE  CurrentProfile \in Nat
<1> DEFINE current == {i \in DOMAIN profiles : profiles[i].status = "current"}
<1>1. Len(profiles) \in Nat /\ DOMAIN profiles = 1..Len(profiles)
  BY LenProperties DEF StoreInv, StoreTypeOK
<1>2. current = {} \/ current = {Len(profiles)}
  BY <1>1 DEF StoreInv, NewestProfileIsCurrent
<1>3. CurrentProfile = IF current = {} THEN 0
                       ELSE CHOOSE i \in current : \A j \in current : j <= i
  BY DEF CurrentProfile, Latest, None
<1> HIDE DEF current
<1>4. QED
  BY <1>1, <1>2, <1>3

LEMMA ChampionType ==
    ASSUME StoreInv, NEW f
    PROVE  Champion(f) \in Nat
<1>1. Champions(f) \subseteq Nat
  BY LenProperties DEF Champions, StoreInv, StoreTypeOK
<1>2. \A i, j \in Champions(f) : i = j
  BY DEF Champions, StoreInv, AtMostOneChampion
<1>3. CASE Champions(f) = {}
  BY <1>3 DEF Champion, None
<1>4. CASE Champions(f) # {}
  <2>1. \E i \in Champions(f) : \A j \in Champions(f) : i <= j
    BY <1>1, <1>2, <1>4
  <2>2. QED
    BY <1>1, <1>4, <2>1 DEF Champion
<1>5. QED
  BY <1>3, <1>4

\* A step that leaves the store alone keeps the store's invariant.
LEMMA StoreUnchangedKeeps ==
    ASSUME StoreInv, UNCHANGED store, torn' \in BOOLEAN
    PROVE  StoreInv'
  BY DEF StoreInv, StoreTypeOK, store, NewestProfileIsCurrent, AtMostOneChampion,
         ReferencesKnown, ChampionHasMandate, IsMandated, Mandates

LEMMA IdleType == Idle \in Request
  BY GovernanceAssumption DEF Idle, Request, None, GovernanceAssumption

LEMMA ThreadStepKeeps ==
    ASSUME GovernanceInv, NEW t \in Threads, ThreadStep(t)
    PROVE  GovernanceInv'
<1>1. /\ request[t] \in Request /\ Len(strategies) \in Nat /\ Len(profiles) \in Nat
      /\ torn \in BOOLEAN
  BY LenProperties DEF GovernanceInv, StoreInv, StoreTypeOK
<1>2. CASE StartImport(t)
  <2>1. [Idle EXCEPT !.pc = IF CurrentProfile = None THEN "create_profile"
                                                    ELSE "create_strategy",
                     !.origin = "first_import",
                     !.profile = CurrentProfile] \in Request
    BY IdleType, CurrentProfileType DEF Request, GovernanceInv
  <2>2. StoreInv'
    BY <1>1, <1>2, StoreUnchangedKeeps DEF StartImport, GovernanceInv
  <2>3. QED
    BY <1>2, <2>1, <2>2 DEF StartImport, GovernanceInv
<1>3. ASSUME NEW n \in SampleCounts, ImportProfile(t, n)
      PROVE  GovernanceInv'
  <2>1. StoreInv'
    BY <1>3, create_profileKeeps, GovernanceAssumption
       DEF ImportProfile, GovernanceInv, GovernanceAssumption
  <2>2. request' \in [Threads -> Request]
    <3>1. \A k \in Nat : [request[t] EXCEPT !.pc = "create_strategy", !.profile = k] \in Request
      BY <1>1 DEF Request
    <3>2. Len(profiles) + 1 \in Nat
      BY <1>1
    <3>3. [request[t] EXCEPT !.pc = "create_strategy", !.profile = Len(profiles) + 1] \in Request
      BY <3>1, <3>2, Zenon
    <3>4. QED
      BY <1>3, <3>3 DEF ImportProfile, GovernanceInv
  <2>3. QED
    BY <2>1, <2>2 DEF GovernanceInv
<1>4. ASSUME NEW f \in Families, StartChallenger(t, f)
      PROVE  GovernanceInv'
  <2>1. [Idle EXCEPT !.pc = "read_profile", !.family = f, !.parent = Champion(f)] \in Request
    BY IdleType, ChampionType DEF Request, GovernanceInv
  <2>2. StoreInv'
    BY <1>1, <1>4, StoreUnchangedKeeps DEF StartChallenger, GovernanceInv
  <2>3. QED
    BY <1>4, <2>1, <2>2 DEF StartChallenger, GovernanceInv
<1>5. CASE ReadProfile(t)
  <2>1. StoreInv'
    BY <1>1, <1>5, StoreUnchangedKeeps DEF ReadProfile, GovernanceInv
  <2>2. request' \in [Threads -> Request]
    <3>1. [request[t] EXCEPT !.pc = "create_strategy", !.profile = CurrentProfile] \in Request
      BY <1>1, CurrentProfileType DEF Request, GovernanceInv
    <3>2. QED
      BY <1>5, <3>1 DEF ReadProfile, GovernanceInv
  <2>3. QED
    BY <2>1, <2>2 DEF GovernanceInv
<1>6. CASE CreateStrategy(t)
  <2> DEFINE s == [profile |-> request[t].profile, parent |-> request[t].parent,
                   family |-> request[t].family, origin |-> request[t].origin,
                   status |-> IF request[t].origin = "first_import"
                              THEN "baseline_draft" ELSE "challenger"]
  <2>1. s \in Strategy /\ s.status # "champion"
    BY <1>1 DEF Strategy, StrategyStatus, Request
  <2>2. create_strategy(s)
    BY <1>6 DEF CreateStrategy
  <2> HIDE DEF s
  <2>3. StoreInv'
    BY <2>1, <2>2, create_strategyKeeps DEF GovernanceInv
  <2>4. request' \in [Threads -> Request]
    <3>1. \A k \in Nat : [request[t] EXCEPT !.pc = "evaluate", !.strategy = k] \in Request
      BY <1>1 DEF Request
    <3>2. Len(strategies) + 1 \in Nat
      BY <1>1
    <3>3. [request[t] EXCEPT !.pc = "evaluate", !.strategy = Len(strategies) + 1] \in Request
      BY <3>1, <3>2, Zenon
    <3>4. QED
      BY <1>6, <3>3 DEF CreateStrategy, GovernanceInv
  <2>5. QED
    BY <2>3, <2>4 DEF GovernanceInv
<1>7. ASSUME NEW m \in Metrics, EvaluateNew(t, m)
      PROVE  GovernanceInv'
  <2>1. StoreInv'
    BY <1>7, evaluateKeeps DEF EvaluateNew, GovernanceInv
  <2>2. QED
    BY <1>7, <2>1, IdleType DEF EvaluateNew, GovernanceInv
<1>8. QED
  BY <1>2, <1>3, <1>4, <1>5, <1>6, <1>7 DEF ThreadStep

LEMMA DirectStepKeeps ==
    ASSUME GovernanceInv, DirectStep
    PROVE  GovernanceInv'
<1>1. ASSUME NEW p \in DOMAIN profiles, NEW n \in SampleCounts, EditProfile(p, n)
      PROVE  GovernanceInv'
  BY <1>1, edit_profileKeeps, GovernanceAssumption
     DEF EditProfile, GovernanceInv, GovernanceAssumption
<1>2. ASSUME NEW s \in DOMAIN strategies, NEW m \in Metrics, EvaluateStrategy(s, m)
      PROVE  GovernanceInv'
  BY <1>2, evaluateKeeps DEF EvaluateStrategy, GovernanceInv
<1>3. ASSUME NEW s \in DOMAIN strategies, RequestPromotion(s)
      PROVE  GovernanceInv'
  BY <1>3, request_promotionKeeps DEF RequestPromotion, GovernanceInv
<1>4. ASSUME NEW r \in DOMAIN promotions, ConfirmPromotion(r)
      PROVE  GovernanceInv'
  BY <1>4, confirm_promotionKeeps DEF ConfirmPromotion, GovernanceInv
<1>5. ASSUME NEW s \in DOMAIN strategies, Rollback(s)
      PROVE  GovernanceInv'
  BY <1>5, rollbackKeeps DEF Rollback, GovernanceInv
<1>6. QED
  BY <1>1, <1>2, <1>3, <1>4, <1>5 DEF DirectStep

\* The inductive invariant holds in every reachable state.
THEOREM GovernanceInvariant == Spec => []GovernanceInv
<1>1. Init => GovernanceInv
  <2> SUFFICES ASSUME Init PROVE GovernanceInv
    OBVIOUS
  <2>1. StoreTypeOK
    BY EmptySeq DEF Init, StoreTypeOK
  <2>2. /\ DOMAIN profiles = {} /\ DOMAIN strategies = {}
        /\ DOMAIN promotions = {} /\ DOMAIN events = {}
    BY DEF Init
  <2>3. StoreInv
    BY <2>1, <2>2 DEF StoreInv, NewestProfileIsCurrent, AtMostOneChampion,
                      ReferencesKnown, ChampionHasMandate
  <2>4. QED
    BY <2>3, IdleType DEF Init, GovernanceInv
<1>2. GovernanceInv /\ [Next]_vars => GovernanceInv'
  <2> SUFFICES ASSUME GovernanceInv, [Next]_vars
               PROVE  GovernanceInv'
    OBVIOUS
  <2>1. ASSUME NEW t \in Threads, ThreadStep(t)
        PROVE  GovernanceInv'
    BY <2>1, ThreadStepKeeps
  <2>2. CASE DirectStep
    BY <2>2, DirectStepKeeps
  <2>3. CASE Restart
    BY <2>3, StoreUnchangedKeeps, IdleType
       DEF Restart, GovernanceInv, StoreInv, StoreTypeOK
  <2>4. CASE TornSave
    BY <2>4, StoreUnchangedKeeps, IdleType DEF TornSave, GovernanceInv
  <2>5. CASE UNCHANGED vars
    BY <2>5, StoreUnchangedKeeps DEF vars, store, GovernanceInv, StoreInv, StoreTypeOK
  <2>6. QED
    BY <2>1, <2>2, <2>3, <2>4, <2>5 DEF Next
<1>3. QED
  BY <1>1, <1>2, PTL DEF Spec

\* Every journal the store writes, and every request in flight, is well formed.
THEOREM TypeCorrect == Spec => []TypeOK
<1>1. GovernanceInv => TypeOK
  BY DEF GovernanceInv, StoreInv, StoreTypeOK, TypeOK
<1>2. QED
  BY <1>1, GovernanceInvariant, PTL

\* No family ever has two champions, and the journal's last mandate of a family names
\* the one it has (Governance.confirm_promotion, rollback).
THEOREM ChampionsAreMandated == Spec => []OneMandatedChampion
<1>1. GovernanceInv => OneMandatedChampion
  BY DEF GovernanceInv, StoreInv, OneMandatedChampion
<1>2. QED
  BY <1>1, GovernanceInvariant, PTL

\* The newest profile version, and no other, is current.
THEOREM CurrentProfileUnique == Spec => []NewestProfileIsCurrent
<1>1. GovernanceInv => NewestProfileIsCurrent
  BY DEF GovernanceInv, StoreInv
<1>2. QED
  BY <1>1, GovernanceInvariant, PTL

-------------------------------------------------------------------------------
(* The journal only grows *)

\* A step of any request is one of the locked methods, or leaves the store alone.
Method ==
    \/ \E n \in Nat : create_profile(n)
    \/ \E p \in DOMAIN profiles, n \in Nat : edit_profile(p, n)
    \/ \E s \in Strategy :
          s.status \in {"baseline_draft", "challenger"} /\ create_strategy(s)
    \/ \E s \in DOMAIN strategies, m \in Metrics : evaluate(s, m)
    \/ \E s \in DOMAIN strategies : request_promotion(s)
    \/ \E r \in DOMAIN promotions : confirm_promotion(r)
    \/ \E s \in DOMAIN strategies : rollback(s)

\* The strategy a request creates.
Created(t) == [profile |-> request[t].profile, parent |-> request[t].parent,
               family |-> request[t].family, origin |-> request[t].origin,
               status |-> IF request[t].origin = "first_import"
                          THEN "baseline_draft" ELSE "challenger"]

LEMMA CreatedType ==
    ASSUME GovernanceInv, NEW t \in Threads
    PROVE  Created(t) \in Strategy /\ Created(t).status \in {"baseline_draft", "challenger"}
<1>1. request[t] \in Request
  BY DEF GovernanceInv
<1>2. QED
  BY <1>1 DEF Created, Strategy, StrategyStatus, Request

LEMMA NextMethod ==
    ASSUME GovernanceInv, [Next]_vars
    PROVE  Method \/ UNCHANGED store
<1>1. ASSUME NEW t \in Threads, ThreadStep(t) PROVE Method \/ UNCHANGED store
  <2>1. CASE StartImport(t) \/ ReadProfile(t) \/ \E f \in Families : StartChallenger(t, f)
    BY <2>1 DEF StartImport, ReadProfile, StartChallenger
  <2>2. ASSUME NEW n \in SampleCounts, ImportProfile(t, n) PROVE Method
    BY <2>2, GovernanceAssumption DEF ImportProfile, Method, GovernanceAssumption
  <2>3. CASE CreateStrategy(t)
    <3>1. create_strategy(Created(t))
      BY <2>3 DEF CreateStrategy, Created
    <3>2. QED
      BY <3>1, CreatedType DEF Method
  <2>4. ASSUME NEW m \in Metrics, EvaluateNew(t, m) PROVE Method
    <3>1. evaluate(request[t].strategy, m) /\ request[t].strategy \in DOMAIN strategies
      BY <2>4 DEF EvaluateNew, evaluate
    <3>2. QED
      BY <3>1 DEF Method
  <2>5. QED
    BY <1>1, <2>1, <2>2, <2>3, <2>4 DEF ThreadStep
<1>2. CASE DirectStep
  <2>1. SampleCounts \subseteq Nat
    BY GovernanceAssumption DEF GovernanceAssumption
  <2>2. QED
    BY <1>2, <2>1 DEF DirectStep, Method, EditProfile, EvaluateStrategy, RequestPromotion,
                      ConfirmPromotion, Rollback
<1>3. CASE Restart \/ TornSave \/ UNCHANGED vars
  BY <1>3 DEF Restart, TornSave, store, vars
<1>4. QED
  BY <1>1, <1>2, <1>3 DEF Next

\* Every method journals one event.
LEMMA MethodJournals ==
    ASSUME GovernanceInv, Method
    PROVE  /\ \E e \in JournalEvent : _save(e)
           /\ IsExtended(events, events') /\ Len(events') = Len(events) + 1
           /\ Len(events') <= MaxEvents /\ torn' = torn /\ ~torn
<1>1. StoreTypeOK
  BY DEF GovernanceInv, StoreInv
<1>2. /\ \A s \in DOMAIN strategies : s \in Nat
      /\ \A r \in DOMAIN promotions : promotions[r].strategy \in Nat
      /\ Len(strategies) + 1 \in Nat
      /\ \A p : Dependents(p) \in SUBSET Nat
  <2>1. \A r \in DOMAIN promotions : promotions[r] \in Promotion
    BY <1>1, LenProperties, ElementOfSeq DEF StoreTypeOK
  <2>2. QED
    BY <1>1, <2>1, LenProperties DEF StoreTypeOK, Promotion, Dependents
<1>3. ASSUME NEW kind \in EventKind, NEW s \in Nat, NEW passed \in BOOLEAN, NEW stale \in SUBSET Nat
      PROVE  Event(kind, s, passed, stale) \in JournalEvent
  BY DEF Event, JournalEvent
<1>4. 0 \in Nat /\ {} \in SUBSET Nat /\ None = 0
  BY DEF None
<1>5. \E e \in JournalEvent : _save(e)
  <2>1. ASSUME NEW n \in Nat, create_profile(n) PROVE \E e \in JournalEvent : _save(e)
    BY <1>3, <1>4, <2>1 DEF create_profile, EventKind
  <2>2. ASSUME NEW p \in DOMAIN profiles, NEW n \in Nat, edit_profile(p, n)
        PROVE  \E e \in JournalEvent : _save(e)
    BY <1>2, <1>3, <1>4, <2>2 DEF edit_profile, EventKind
  <2>3. ASSUME NEW s \in Strategy, create_strategy(s) PROVE \E e \in JournalEvent : _save(e)
    <3>1. PICK kind \in EventKind :
            kind = IF s.status = "baseline_draft" THEN "baseline_strategy_created" ELSE "challenger_created"
      BY DEF EventKind
    <3>2. _save(Event(kind, Len(strategies) + 1, FALSE, {}))
      BY <2>3, <3>1 DEF create_strategy
    <3>3. QED
      BY <1>2, <1>3, <1>4, <3>2
  <2>4. ASSUME NEW s \in DOMAIN strategies, NEW m \in Metrics, evaluate(s, m)
        PROVE  \E e \in JournalEvent : _save(e)
    <3>1. PICK passed \in BOOLEAN :
            passed = (promotion_blockers(SampleCount(m, strategies[s].profile), m.risks) = {})
      OBVIOUS
    <3>2. _save(Event("strategy_evaluation_completed", s, passed, {}))
      BY <2>4, <3>1 DEF evaluate
    <3>3. QED
      BY <1>2, <1>3, <1>4, <3>2 DEF EventKind
  <2>5. ASSUME NEW s \in DOMAIN strategies, request_promotion(s)
        PROVE  \E e \in JournalEvent : _save(e)
    BY <1>2, <1>3, <1>4, <2>5 DEF request_promotion, EventKind
  <2>6. ASSUME NEW r \in DOMAIN promotions, confirm_promotion(r)
        PROVE  \E e \in JournalEvent : _save(e)
    BY <1>2, <1>3, <1>4, <2>6 DEF confirm_promotion, EventKind
  <2>7. ASSUME NEW s \in DOMAIN strategies, rollback(s) PROVE \E e \in JournalEvent : _save(e)
    BY <1>2, <1>3, <1>4, <2>7 DEF rollback, EventKind
  <2>8. QED
    BY <2>1, <2>2, <2>3, <2>4, <2>5, <2>6, <2>7 DEF Method
<1>6. PICK e \in JournalEvent : _save(e)
  BY <1>5
<1>7. events' = Append(events, e) /\ Len(events) < MaxEvents /\ torn' = torn
  BY <1>6 DEF _save
<1>8. /\ Len(events') = Len(events) + 1 /\ Len(events) \in Nat /\ DOMAIN events = 1 .. Len(events)
      /\ \A i \in 1 .. Len(events) : events'[i] = events[i]
  BY <1>1, <1>7, AppendedSeq, LenProperties DEF StoreTypeOK
<1>9. ~torn
  BY DEF Method, create_profile, edit_profile, create_strategy, evaluate, request_promotion,
         confirm_promotion, rollback, Readable
<1>10. QED
  BY <1>5, <1>7, <1>8, <1>9, GovernanceAssumption DEF IsExtended, GovernanceAssumption

\* The rewriting of statuses keeps the lineage of every strategy.
LEMMA LineageKept ==
    ASSUME StoreTypeOK,
           \/ strategies' = strategies
           \/ \E P, status : strategies' = Restated(P, status)
           \/ \E s : strategies' = Installed(s)
           \/ \E s \in DOMAIN strategies : \E status : strategies' = [strategies EXCEPT ![s].status = status]
    PROVE  /\ DOMAIN strategies' = DOMAIN strategies
           /\ \A i \in DOMAIN strategies : Lineage(strategies'[i]) = Lineage(strategies[i])
<1>1. \A i \in DOMAIN strategies : strategies[i] \in Strategy
  BY LenProperties, ElementOfSeq DEF StoreTypeOK
<1>2. \A x \in Strategy : \A status : Lineage([x EXCEPT !.status = status]) = Lineage(x)
  BY DEF Lineage, Strategy
<1>3. CASE \E P, status : strategies' = Restated(P, status)
  BY <1>1, <1>2, <1>3 DEF Restated
<1>4. ASSUME NEW s, strategies' = Installed(s)
      PROVE  /\ DOMAIN strategies' = DOMAIN strategies
             /\ \A i \in DOMAIN strategies : Lineage(strategies'[i]) = Lineage(strategies[i])
  <2>1. PICK R : R = Restated(Champions(strategies[s].family), "retired")
    OBVIOUS
  <2>2. \A i \in DOMAIN strategies :
          R[i] = strategies[i] \/ R[i] = [strategies[i] EXCEPT !.status = "retired"]
    BY <2>1 DEF Restated
  <2>3. strategies' = [i \in DOMAIN strategies |->
            IF i = s THEN [strategies[i] EXCEPT !.status = "champion"] ELSE R[i]]
    BY <1>4, <2>1 DEF Installed
  <2>4. ASSUME NEW i \in DOMAIN strategies PROVE Lineage(strategies'[i]) = Lineage(strategies[i])
    <3>1. PICK x \in Strategy : x = strategies[i]
      BY <1>1
    <3>2. \E status : strategies'[i] = [x EXCEPT !.status = status] \/ strategies'[i] = x
      BY <2>2, <2>3, <3>1
    <3>3. QED
      BY <1>2, <3>1, <3>2
  <2>5. QED
    BY <2>3, <2>4
<1>5. ASSUME NEW s \in DOMAIN strategies, NEW status,
             strategies' = [strategies EXCEPT ![s].status = status]
      PROVE  /\ DOMAIN strategies' = DOMAIN strategies
             /\ \A i \in DOMAIN strategies : Lineage(strategies'[i]) = Lineage(strategies[i])
  <2>1. PICK x \in Strategy : x = strategies[s]
    BY <1>1
  <2>2. strategies' = [strategies EXCEPT ![s] = [x EXCEPT !.status = status]]
    BY <1>5, <2>1
  <2>3. QED
    BY <1>2, <2>1, <2>2
<1>6. QED
  BY <1>3, <1>4, <1>5

\* What a method leaves as it was.
LEMMA MethodKeeps ==
    ASSUME GovernanceInv, Method
    PROVE  /\ IsExtended(evaluations, evaluations')
           /\ \A i \in DOMAIN profiles : profiles'[i].samples = profiles[i].samples
           /\ Len(strategies) <= Len(strategies')
           /\ \A i \in DOMAIN strategies : Lineage(strategies'[i]) = Lineage(strategies[i])
           /\ \A i \in DOMAIN promotions :
                 promotions'[i] \in {promotions[i], [promotions[i] EXCEPT !.status = "confirmed"]}
           /\ Len(strategies') <= Len(strategies) + 1
<1>1. /\ StoreTypeOK /\ Len(strategies) \in Nat /\ DOMAIN strategies = 1 .. Len(strategies)
      /\ Len(evaluations) \in Nat /\ DOMAIN evaluations = 1 .. Len(evaluations)
      /\ Len(profiles) \in Nat /\ DOMAIN profiles = 1 .. Len(profiles)
      /\ Len(promotions) \in Nat /\ DOMAIN promotions = 1 .. Len(promotions)
      /\ strategies' \in Seq(Strategy) => DOMAIN strategies' = 1 .. Len(strategies') /\ Len(strategies') \in Nat
  BY LenProperties DEF GovernanceInv, StoreInv, StoreTypeOK
<1>2. ASSUME NEW s \in Seq(Strategy), DOMAIN s = DOMAIN strategies PROVE Len(s) = Len(strategies)
  <2>1. Len(s) \in Nat /\ 1 .. Len(s) = 1 .. Len(strategies)
    BY <1>1, <1>2, LenProperties
  <2>2. QED
    BY <1>1, <2>1
<1>3. ASSUME NEW n \in Nat, profiles' = Append(Superseded, [status |-> "current", samples |-> n])
      PROVE  \A i \in DOMAIN profiles : profiles'[i].samples = profiles[i].samples
  <2>1. /\ Superseded \in Seq(Profile) /\ Len(Superseded) = Len(profiles)
        /\ \A i \in 1 .. Len(profiles) : profiles[i] \in Profile
    BY <1>1, SupersededType, ElementOfSeq DEF StoreTypeOK
  <2>2. \A i \in 1 .. Len(profiles) : Superseded[i].samples = profiles[i].samples
    BY <1>1, <2>1 DEF Superseded, Profile
  <2>3. [status |-> "current", samples |-> n] \in Profile
    BY DEF Profile, ProfileStatus
  <2>4. \A i \in 1 .. Len(profiles) : profiles'[i] = Superseded[i]
    BY <1>3, <2>1, <2>3, AppendedSeq
  <2>5. QED
    BY <1>1, <2>2, <2>4
<1>4. ASSUME NEW n \in Nat, create_profile(n)
      PROVE  /\ UNCHANGED <<evaluations, promotions, strategies>>
             /\ \A i \in DOMAIN profiles : profiles'[i].samples = profiles[i].samples
  BY <1>3, <1>4 DEF create_profile
<1>5. ASSUME NEW p \in DOMAIN profiles, NEW n \in Nat, edit_profile(p, n)
      PROVE  /\ UNCHANGED <<evaluations, promotions>>
             /\ \A i \in DOMAIN profiles : profiles'[i].samples = profiles[i].samples
             /\ Len(strategies') = Len(strategies)
             /\ \A i \in DOMAIN strategies : Lineage(strategies'[i]) = Lineage(strategies[i])
  <2>1. strategies' = Restated(Dependents(p), "stale") /\ strategies' \in Seq(Strategy)
    BY <1>1, <1>5, edit_profileType DEF edit_profile, StoreTypeOK
  <2>2. QED
    BY <1>1, <1>2, <1>3, <1>5, <2>1, LineageKept DEF edit_profile
<1>6. ASSUME NEW s \in Strategy, create_strategy(s)
      PROVE  /\ UNCHANGED <<evaluations, promotions, profiles>>
             /\ Len(strategies') = Len(strategies) + 1
             /\ \A i \in DOMAIN strategies : strategies'[i] = strategies[i]
  BY <1>1, <1>6, AppendedSeq DEF create_strategy, StoreTypeOK
<1>7. ASSUME NEW s \in DOMAIN strategies, NEW m \in Metrics, evaluate(s, m)
      PROVE  /\ UNCHANGED <<profiles, promotions>>
             /\ IsExtended(evaluations, evaluations')
             /\ Len(strategies') = Len(strategies)
             /\ \A i \in DOMAIN strategies : Lineage(strategies'[i]) = Lineage(strategies[i])
  <2> DEFINE passed == promotion_blockers(SampleCount(m, strategies[s].profile), m.risks) = {}
  <2>1. /\ evaluations' = Append(evaluations, [strategy |-> s, passed |-> passed])
        /\ \/ strategies' = strategies
           \/ \E status : strategies' = [strategies EXCEPT ![s].status = status]
        /\ UNCHANGED <<profiles, promotions>>
    BY <1>7 DEF evaluate
  <2>2. passed \in BOOLEAN /\ s \in Nat
    BY <1>1
  <2> HIDE DEF passed
  <2>3. [strategy |-> s, passed |-> passed] \in Evaluation
    BY <2>2 DEF Evaluation
  <2>4. IsExtended(evaluations, evaluations')
    <3>1. /\ Len(evaluations') = Len(evaluations) + 1
          /\ \A i \in 1 .. Len(evaluations) : evaluations'[i] = evaluations[i]
      BY <1>1, <2>1, <2>3, AppendedSeq DEF StoreTypeOK
    <3>2. QED
      BY <1>1, <3>1 DEF IsExtended
  <2>5. strategies' \in Seq(Strategy)
    BY <1>1, <1>7, evaluateType DEF StoreTypeOK
  <2>6. QED
    BY <1>1, <1>2, <2>1, <2>4, <2>5, LineageKept
<1>8. ASSUME NEW s \in DOMAIN strategies, request_promotion(s)
      PROVE  /\ UNCHANGED <<profiles, strategies, evaluations>>
             /\ \A i \in DOMAIN promotions : promotions'[i] = promotions[i]
  <2>1. PICK ev \in DOMAIN evaluations :
          promotions' = Append(promotions, [strategy |-> s, evaluation |-> ev,
                                            status |-> "pending_confirmation"])
    BY <1>8 DEF request_promotion
  <2>2. [strategy |-> s, evaluation |-> ev, status |-> "pending_confirmation"] \in Promotion
    BY <1>1 DEF Promotion
  <2>3. QED
    BY <1>1, <1>8, <2>1, <2>2, AppendedSeq DEF request_promotion, StoreTypeOK
<1>9. ASSUME NEW r \in DOMAIN promotions, confirm_promotion(r)
      PROVE  /\ UNCHANGED <<profiles, evaluations>>
             /\ Len(strategies') = Len(strategies)
             /\ \A i \in DOMAIN strategies : Lineage(strategies'[i]) = Lineage(strategies[i])
             /\ \A i \in DOMAIN promotions :
                   promotions'[i] \in {promotions[i], [promotions[i] EXCEPT !.status = "confirmed"]}
  <2>1. strategies' \in Seq(Strategy) /\ strategies' = Installed(promotions[r].strategy)
    BY <1>1, <1>9, confirm_promotionType DEF confirm_promotion, StoreTypeOK
  <2>2. /\ Len(strategies') = Len(strategies)
        /\ \A i \in DOMAIN strategies : Lineage(strategies'[i]) = Lineage(strategies[i])
    BY <1>1, <1>2, <2>1, LineageKept
  <2>3. QED
    BY <1>9, <2>2 DEF confirm_promotion
<1>10. ASSUME NEW s \in DOMAIN strategies, rollback(s)
      PROVE  /\ UNCHANGED <<profiles, evaluations, promotions>>
             /\ Len(strategies') = Len(strategies)
             /\ \A i \in DOMAIN strategies : Lineage(strategies'[i]) = Lineage(strategies[i])
  <2>1. strategies' \in Seq(Strategy) /\ strategies' = Installed(s)
    BY <1>1, <1>10, rollbackType DEF rollback, StoreTypeOK
  <2>2. /\ Len(strategies') = Len(strategies)
        /\ \A i \in DOMAIN strategies : Lineage(strategies'[i]) = Lineage(strategies[i])
    BY <1>1, <1>2, <2>1, LineageKept
  <2>3. QED
    BY <1>10, <2>2 DEF rollback
<1>11. IsExtended(evaluations, evaluations)
  BY <1>1 DEF IsExtended
<1>12. QED
  BY <1>1, <1>4, <1>5, <1>6, <1>7, <1>8, <1>9, <1>10, <1>11 DEF Method

\* The journal is append-only and what it records immutable: events and evaluations are
\* never rewritten, profiles and strategies change in status only, a confirmed promotion
\* stays confirmed, and a torn file is never replaced (_load and _save of GovernanceStore).
THEOREM JournalGrows == Spec => JournalOnlyGrows
<1> DEFINE Grows ==
        /\ torn => UNCHANGED <<store, torn>>
        /\ IsExtended(events, events')
        /\ IsExtended(evaluations, evaluations')
        /\ \A i \in DOMAIN profiles : profiles'[i].samples = profiles[i].samples
        /\ \A i \in DOMAIN strategies : Lineage(strategies'[i]) = Lineage(strategies[i])
        /\ \A i \in DOMAIN promotions :
               promotions'[i] \in {promotions[i], [promotions[i] EXCEPT !.status = "confirmed"]}
<1>1. GovernanceInv /\ [Next]_vars => [Grows]_vars
  <2> SUFFICES ASSUME GovernanceInv, Next PROVE Grows \/ UNCHANGED vars
    OBVIOUS
  <2>1. CASE Method
    BY <2>1, MethodJournals, MethodKeeps
  <2>2. CASE UNCHANGED store
    <3>1. torn => torn' = torn
      <4>1. ASSUME NEW t \in Threads, ThreadStep(t) PROVE torn => torn' = torn
        BY <4>1 DEF ThreadStep, StartImport, ImportProfile, StartChallenger, ReadProfile,
           CreateStrategy, EvaluateNew, create_profile, create_strategy, evaluate, _save
      <4>2. DirectStep => torn' = torn
        BY DEF DirectStep, EditProfile, EvaluateStrategy, RequestPromotion, ConfirmPromotion,
           Rollback, edit_profile, evaluate, request_promotion, confirm_promotion, rollback, _save
      <4>3. Restart \/ TornSave => (torn => torn' = torn)
        BY DEF Restart, TornSave, Readable
      <4>4. QED
        BY <4>1, <4>2, <4>3 DEF Next
    <3>2. IsExtended(events, events) /\ IsExtended(evaluations, evaluations)
      BY LenProperties DEF GovernanceInv, StoreInv, StoreTypeOK, IsExtended
    <3>3. QED
      BY <2>2, <3>1, <3>2 DEF store
  <2>3. QED
    BY <2>1, <2>2, NextMethod
<1>2. Spec => [][Grows]_vars
  BY <1>1, GovernanceInvariant, PTL DEF Spec
<1>3. QED
  BY <1>2 DEF JournalOnlyGrows

-------------------------------------------------------------------------------
(* Promotions are earned *)

\* The journal says that the strategy passed an evaluation before position i.
HasPassed(journal, s, i) ==
    \E k \in 1 .. i - 1 : /\ journal[k].kind = "strategy_evaluation_completed"
                          /\ journal[k].passed /\ journal[k].strategy = s

\* The journal says that the strategy was recommended before position i, and had passed.
WasRecommended(journal, s, i) ==
    \E j \in 1 .. i - 1 : /\ journal[j].kind = "promotion_recommended"
                          /\ journal[j].strategy = s /\ HasPassed(journal, s, j)

\* The journal says that the strategy was installed before position i.
WasInstalled(journal, s, i) ==
    \E j \in 1 .. i - 1 : IsMandate(journal[j]) /\ journal[j].strategy = s

\* A parent was installed as champion of the family.
IsParent(list, journal, p, family, i) ==
    p = None \/ /\ p \in DOMAIN list /\ list[p].family = family
                /\ WasInstalled(journal, p, i)

\* What the journal and the requests in flight owe to earlier events.
EarnedInv ==
    /\ \A i \in DOMAIN events : events[i].kind = "champion_promoted" =>
          WasRecommended(events, events[i].strategy, i)
    /\ \A r \in DOMAIN promotions :
          WasRecommended(events, promotions[r].strategy, Len(events) + 1)
    /\ \A e \in DOMAIN evaluations : evaluations[e].passed =>
          HasPassed(events, evaluations[e].strategy, Len(events) + 1)
    /\ \A i \in DOMAIN events : events[i].kind = "challenger_created" =>
          LET s == events[i].strategy
          IN  /\ s \in DOMAIN strategies /\ (strategies[s].parent # None => strategies[s].parent < s)
              /\ IsParent(strategies, events, strategies[s].parent, strategies[s].family, i)
    /\ \A t \in Threads :
          IsParent(strategies, events, request[t].parent, request[t].family, Len(events) + 1)
    /\ Len(strategies) <= Len(events) /\ Len(events) <= MaxEvents

\* What a journal says stays said, also by its extensions.
LEMMA EarnedStays ==
    ASSUME NEW old \in Seq(JournalEvent), NEW new \in Seq(JournalEvent), IsExtended(old, new),
           NEW i \in Nat, NEW j \in Nat, i <= Len(old) + 1, i <= j, NEW s
    PROVE  /\ HasPassed(old, s, i) => HasPassed(new, s, j)
           /\ WasRecommended(old, s, i) => WasRecommended(new, s, j)
           /\ WasInstalled(old, s, i) => WasInstalled(new, s, j)
<1>1. /\ Len(old) \in Nat /\ DOMAIN old = 1 .. Len(old)
      /\ \A k \in 1 .. Len(old) : new[k] = old[k]
  BY LenProperties DEF IsExtended
<1>2. \A k \in 1 .. i - 1 : k \in 1 .. j - 1 /\ new[k] = old[k] /\ k \in Nat
  BY <1>1
<1>3. \A n \in 1 .. i : HasPassed(old, s, n) => HasPassed(new, s, n)
  <2> SUFFICES ASSUME NEW n \in 1 .. i, HasPassed(old, s, n) PROVE HasPassed(new, s, n)
    OBVIOUS
  <2>1. \A k \in 1 .. n - 1 : k \in 1 .. i - 1
    OBVIOUS
  <2>2. QED
    BY <1>2, <2>1 DEF HasPassed
<1>4. HasPassed(old, s, i) => HasPassed(new, s, j)
  BY <1>2 DEF HasPassed
<1>5. WasRecommended(old, s, i) => WasRecommended(new, s, j)
  <2> SUFFICES ASSUME WasRecommended(old, s, i) PROVE WasRecommended(new, s, j)
    OBVIOUS
  <2>1. PICK k \in 1 .. i - 1 : /\ old[k].kind = "promotion_recommended" /\ old[k].strategy = s
                                /\ HasPassed(old, s, k)
    BY DEF WasRecommended
  <2>2. k \in 1 .. i
    OBVIOUS
  <2>3. HasPassed(new, s, k)
    BY <1>3, <2>1, <2>2
  <2>4. QED
    BY <1>2, <2>1, <2>3 DEF WasRecommended
<1>6. WasInstalled(old, s, i) => WasInstalled(new, s, j)
  BY <1>2 DEF WasInstalled
<1>7. QED
  BY <1>4, <1>5, <1>6

\* A parent stays a parent.
LEMMA ParentStays ==
    ASSUME StoreTypeOK, StoreTypeOK', IsExtended(events, events'),
           Len(strategies) <= Len(strategies'),
           \A x \in DOMAIN strategies : Lineage(strategies'[x]) = Lineage(strategies[x]),
           NEW i \in Nat, NEW j \in Nat, i <= Len(events) + 1, i <= j, NEW s, NEW family,
           IsParent(strategies, events, s, family, i)
    PROVE  IsParent(strategies', events', s, family, j)
<1>1. CASE s = None
  BY <1>1 DEF IsParent
<1>2. CASE s # None
  <2>1. s \in DOMAIN strategies /\ strategies[s].family = family /\ WasInstalled(events, s, i)
    BY <1>2 DEF IsParent
  <2>2. /\ DOMAIN strategies = 1 .. Len(strategies) /\ DOMAIN strategies' = 1 .. Len(strategies')
        /\ Len(strategies) \in Nat /\ Len(strategies') \in Nat
    BY LenProperties DEF StoreTypeOK
  <2>3. s \in DOMAIN strategies'
    BY <2>1, <2>2
  <2>4. strategies[s] \in Strategy /\ strategies'[s] \in Strategy
    BY <2>1, <2>2, <2>3, ElementOfSeq DEF StoreTypeOK
  <2>5. \A x, y \in Strategy : Lineage(x) = Lineage(y) => x.family = y.family
    BY DEF Lineage, Strategy
  <2>6. strategies'[s].family = strategies[s].family
    BY <2>1, <2>4, <2>5
  <2>7. WasInstalled(events', s, j)
    <3>1. events \in Seq(JournalEvent) /\ events' \in Seq(JournalEvent)
      BY DEF StoreTypeOK
    <3>2. QED
      BY <2>1, <3>1, EarnedStays
  <2>8. QED
    BY <2>1, <2>3, <2>6, <2>7 DEF IsParent
<1>3. QED
  BY <1>1, <1>2

\* A method keeps what is owed if its event, its promotion, its evaluation and the
\* requests it leaves have what they need.
LEMMA EarnedByEvent ==
    ASSUME GovernanceInv, GovernanceInv', EarnedInv, Method, NEW e \in JournalEvent, _save(e),
           e.kind = "champion_promoted" => WasRecommended(events, e.strategy, Len(events) + 1),
           e.kind = "challenger_created" =>
               /\ e.strategy = Len(strategies) + 1 /\ Len(strategies') = Len(strategies) + 1
               /\ IsParent(strategies, events, strategies'[e.strategy].parent,
                           strategies'[e.strategy].family, Len(events) + 1),
           \A r \in DOMAIN promotions' :
               \/ \E q \in DOMAIN promotions : promotions'[r].strategy = promotions[q].strategy
               \/ e.kind = "promotion_recommended" /\ e.strategy = promotions'[r].strategy
                  /\ HasPassed(events, e.strategy, Len(events) + 1),
           \A v \in DOMAIN evaluations' :
               \/ v \in DOMAIN evaluations
               \/ e.kind = "strategy_evaluation_completed" /\ e.strategy = evaluations'[v].strategy
                  /\ e.passed = evaluations'[v].passed,
           \A t \in Threads : IsParent(strategies, events, request'[t].parent, request'[t].family,
                                       Len(events) + 1)
    PROVE  EarnedInv'
<1>1. /\ StoreTypeOK /\ StoreTypeOK'
      /\ IsExtended(events, events') /\ IsExtended(evaluations, evaluations')
      /\ Len(strategies) <= Len(strategies') /\ Len(strategies') <= Len(strategies) + 1
      /\ Len(events') <= MaxEvents
      /\ \A i \in DOMAIN strategies : Lineage(strategies'[i]) = Lineage(strategies[i])
  BY MethodJournals, MethodKeeps DEF GovernanceInv, StoreInv
<1>2. PICK n \in Nat : n = Len(events)
  BY <1>1, LenProperties DEF StoreTypeOK
<1>3. /\ Len(events') = n + 1 /\ DOMAIN events = 1 .. n /\ DOMAIN events' = 1 .. n + 1
      /\ \A i \in 1 .. n : events'[i] = events[i]
      /\ events'[n + 1] = e
  <2>1. events' = Append(events, e)
    BY DEF _save
  <2>2. QED
    BY <1>1, <1>2, <2>1, AppendedSeq, LenProperties DEF StoreTypeOK
<1>4. /\ DOMAIN strategies = 1 .. Len(strategies) /\ DOMAIN strategies' = 1 .. Len(strategies')
      /\ Len(strategies) \in Nat /\ Len(strategies') \in Nat
      /\ \A s \in DOMAIN strategies : strategies[s] \in Strategy
      /\ \A s \in DOMAIN strategies' : strategies'[s] \in Strategy
  BY <1>1, LenProperties, ElementOfSeq DEF StoreTypeOK
<1>5. ASSUME NEW i \in Nat, NEW j \in Nat, i <= n + 1, i <= j, NEW s
      PROVE  /\ HasPassed(events, s, i) => HasPassed(events', s, j)
             /\ WasRecommended(events, s, i) => WasRecommended(events', s, j)
             /\ \A family : IsParent(strategies, events, s, family, i)
                              => IsParent(strategies', events', s, family, j)
  <2>1. events \in Seq(JournalEvent) /\ events' \in Seq(JournalEvent)
    BY <1>1 DEF StoreTypeOK
  <2>2. QED
    BY <1>1, <1>2, <1>5, <2>1, EarnedStays, ParentStays
<1>6. \A i \in DOMAIN events' :
          events'[i].kind = "champion_promoted" => WasRecommended(events', events'[i].strategy, i)
  <2> SUFFICES ASSUME NEW i \in 1 .. n + 1, events'[i].kind = "champion_promoted"
               PROVE  WasRecommended(events', events'[i].strategy, i)
    BY <1>3
  <2>1. WasRecommended(events, events'[i].strategy, i)
    <3>1. CASE i = n + 1
      BY <1>2, <1>3, <3>1
    <3>2. CASE i \in 1 .. n
      BY <1>3, <3>2 DEF EarnedInv
    <3>3. QED
      BY <3>1, <3>2
  <2>2. i \in Nat /\ i <= n + 1 /\ i <= i
    OBVIOUS
  <2>3. QED
    BY <1>5, <2>1, <2>2
<1>7. \A r \in DOMAIN promotions' : WasRecommended(events', promotions'[r].strategy, n + 2)
  <2> SUFFICES ASSUME NEW r \in DOMAIN promotions'
               PROVE  WasRecommended(events', promotions'[r].strategy, n + 2)
    OBVIOUS
  <2>1. CASE \E q \in DOMAIN promotions : promotions'[r].strategy = promotions[q].strategy
    <3>1. WasRecommended(events, promotions'[r].strategy, n + 1)
      BY <1>2, <2>1 DEF EarnedInv
    <3>2. QED
      BY <1>5, <3>1
  <2>2. CASE e.kind = "promotion_recommended" /\ e.strategy = promotions'[r].strategy
             /\ HasPassed(events, e.strategy, n + 1)
    <3>1. HasPassed(events', e.strategy, n + 1)
      BY <1>5, <2>2
    <3>2. n + 1 \in 1 .. (n + 2) - 1
      OBVIOUS
    <3>3. QED
      BY <1>3, <2>2, <3>1, <3>2 DEF WasRecommended
  <2>3. QED
    BY <1>2, <2>1, <2>2
<1>8. \A v \in DOMAIN evaluations' :
          evaluations'[v].passed => HasPassed(events', evaluations'[v].strategy, n + 2)
  <2> SUFFICES ASSUME NEW v \in DOMAIN evaluations', evaluations'[v].passed
               PROVE  HasPassed(events', evaluations'[v].strategy, n + 2)
    OBVIOUS
  <2>1. CASE v \in DOMAIN evaluations
    <3>1. evaluations'[v] = evaluations[v]
      BY <1>1, <2>1 DEF IsExtended
    <3>2. HasPassed(events, evaluations'[v].strategy, n + 1)
      BY <1>2, <2>1, <3>1 DEF EarnedInv
    <3>3. QED
      BY <1>5, <3>2
  <2>2. CASE e.kind = "strategy_evaluation_completed" /\ e.strategy = evaluations'[v].strategy
             /\ e.passed = evaluations'[v].passed
    <3>1. n + 1 \in 1 .. (n + 2) - 1
      OBVIOUS
    <3>2. QED
      BY <1>3, <2>2, <3>1 DEF HasPassed
  <2>3. QED
    BY <2>1, <2>2
<1>9. ASSUME NEW i \in DOMAIN events', events'[i].kind = "challenger_created"
      PROVE  LET s == events'[i].strategy
             IN  /\ s \in DOMAIN strategies' /\ (strategies'[s].parent # None => strategies'[s].parent < s)
                 /\ IsParent(strategies', events', strategies'[s].parent, strategies'[s].family, i)
  <2>1. PICK s : s = events'[i].strategy
    OBVIOUS
  <2>2. CASE i = n + 1
    <3>1. s = Len(strategies) + 1 /\ Len(strategies') = Len(strategies) + 1
          /\ IsParent(strategies, events, strategies'[s].parent, strategies'[s].family, n + 1)
      BY <1>2, <1>3, <1>9, <2>1, <2>2
    <3>2. s \in DOMAIN strategies'
      BY <1>4, <3>1
    <3>3. ASSUME strategies'[s].parent # None PROVE strategies'[s].parent < s
      <4>1. PICK p : p = strategies'[s].parent
        OBVIOUS
      <4>2. p \in DOMAIN strategies
        BY <3>1, <3>3, <4>1 DEF IsParent
      <4>3. QED
        BY <1>4, <3>1, <4>1, <4>2
    <3>4. IsParent(strategies', events', strategies'[s].parent, strategies'[s].family, n + 1)
      <4>1. PICK p, f : p = strategies'[s].parent /\ f = strategies'[s].family
        OBVIOUS
      <4>2. n + 1 \in Nat /\ n + 1 <= n + 1 /\ IsParent(strategies, events, p, f, n + 1)
        BY <3>1, <4>1
      <4>3. IsParent(strategies', events', p, f, n + 1)
        BY <1>5, <4>2
      <4>4. QED
        BY <4>1, <4>3
    <3>5. QED
      BY <2>1, <2>2, <3>2, <3>3, <3>4
  <2>3. CASE i \in 1 .. n
    <3>1. events[i].kind = "challenger_created" /\ s = events[i].strategy
      BY <1>3, <1>9, <2>1, <2>3
    <3>2. s \in DOMAIN strategies /\ (strategies[s].parent # None => strategies[s].parent < s)
          /\ IsParent(strategies, events, strategies[s].parent, strategies[s].family, i)
      BY <1>3, <2>3, <3>1 DEF EarnedInv
    <3>3. s \in DOMAIN strategies'
      <4>1. s \in 1 .. Len(strategies) /\ Len(strategies) <= Len(strategies')
        BY <1>1, <1>4, <3>2
      <4>2. s \in 1 .. Len(strategies')
        <5>1. PICK a, b \in Nat : a = Len(strategies) /\ b = Len(strategies')
          BY <1>4
        <5>2. s \in 1 .. a /\ a <= b
          BY <4>1, <5>1
        <5>3. s \in 1 .. b
          BY <5>2
        <5>4. QED
          BY <5>1, <5>3
      <4>3. QED
        BY <1>4, <4>2
    <3>4. \A x, y \in Strategy : Lineage(x) = Lineage(y) => x.family = y.family /\ x.parent = y.parent
      BY DEF Lineage, Strategy
    <3>5. strategies'[s].parent = strategies[s].parent /\ strategies'[s].family = strategies[s].family
      BY <1>1, <1>4, <3>2, <3>3, <3>4
    <3>6. i \in Nat /\ i <= n + 1 /\ i <= i
      BY <2>3
    <3>7. IsParent(strategies', events', strategies'[s].parent, strategies'[s].family, i)
      <4>1. PICK p, f : p = strategies[s].parent /\ f = strategies[s].family
        OBVIOUS
      <4>2. IsParent(strategies, events, p, f, i)
        BY <3>2, <4>1
      <4>3. IsParent(strategies', events', p, f, i)
        BY <1>5, <3>6, <4>2
      <4>4. QED
        BY <3>5, <4>1, <4>3
    <3>8. QED
      BY <2>1, <3>2, <3>3, <3>5, <3>7
  <2>4. QED
    BY <1>3, <2>2, <2>3
<1>10. ASSUME NEW t \in Threads
       PROVE  IsParent(strategies', events', request'[t].parent, request'[t].family, n + 2)
  <2>1. PICK p, f : p = request'[t].parent /\ f = request'[t].family
    OBVIOUS
  <2>2. n + 1 \in Nat /\ n + 2 \in Nat /\ n + 1 <= n + 1 /\ n + 1 <= n + 2
        /\ IsParent(strategies, events, p, f, n + 1)
    BY <1>2, <2>1
  <2>3. IsParent(strategies', events', p, f, n + 2)
    BY <1>5, <2>2
  <2>4. QED
    BY <2>1, <2>3
<1>11. Len(strategies') <= Len(events')
  <2>1. Len(strategies) <= n
    BY <1>2 DEF EarnedInv
  <2>2. PICK a, b \in Nat : a = Len(strategies) /\ b = Len(strategies')
    BY <1>4
  <2>3. a <= n /\ b <= a + 1
    BY <1>1, <2>1, <2>2
  <2>4. b <= n + 1
    BY <2>3
  <2>5. QED
    BY <1>3, <2>2, <2>4
<1>12. Len(events') + 1 = n + 2
  BY <1>3
<1>13. QED
  BY <1>1, <1>6, <1>7, <1>8, <1>9, <1>10, <1>11, <1>12 DEF EarnedInv

\* What the requests in flight say after a step.
RequestsFine ==
    \A t \in Threads :
        IsParent(strategies, events, request'[t].parent, request'[t].family, Len(events) + 1)

LEMMA ProfileEarned ==
    ASSUME GovernanceInv, GovernanceInv', EarnedInv, RequestsFine, NEW n \in Nat,
           create_profile(n) \/ \E p \in DOMAIN profiles : edit_profile(p, n)
    PROVE  EarnedInv'
<1>1. Method
  BY DEF Method
<1>2. PICK e \in JournalEvent : _save(e) /\ e.kind \in {"trader_profile_generated", "trader_profile_edited"}
  <2>1. CASE create_profile(n)
    <3>1. Event("trader_profile_generated", None, FALSE, {}) \in JournalEvent
      BY DEF Event, JournalEvent, EventKind, None
    <3>2. Event("trader_profile_generated", None, FALSE, {}).kind = "trader_profile_generated"
      BY DEF Event
    <3>3. QED
      BY <2>1, <3>1, <3>2 DEF create_profile
  <2>2. ASSUME NEW p \in DOMAIN profiles, edit_profile(p, n)
        PROVE  \E e \in JournalEvent : _save(e) /\ e.kind \in {"trader_profile_generated", "trader_profile_edited"}
    <3>1. Dependents(p) \in SUBSET Nat
      BY LenProperties DEF Dependents, GovernanceInv, StoreInv, StoreTypeOK
    <3>2. Event("trader_profile_edited", None, FALSE, Dependents(p)) \in JournalEvent
      BY <3>1 DEF Event, JournalEvent, EventKind, None
    <3>3. Event("trader_profile_edited", None, FALSE, Dependents(p)).kind = "trader_profile_edited"
      BY DEF Event
    <3>4. QED
      BY <2>2, <3>2, <3>3 DEF edit_profile
  <2>3. QED
    BY <2>1, <2>2
<1>3. promotions' = promotions /\ evaluations' = evaluations
  BY DEF create_profile, edit_profile
<1>4. /\ e.kind # "champion_promoted" /\ e.kind # "challenger_created"
  BY <1>2
<1>5. /\ \A r \in DOMAIN promotions' :
            \E q \in DOMAIN promotions : promotions'[r].strategy = promotions[q].strategy
      /\ \A v \in DOMAIN evaluations' : v \in DOMAIN evaluations
  BY <1>3
<1>6. QED
  BY <1>1, <1>2, <1>4, <1>5, EarnedByEvent DEF RequestsFine

LEMMA StrategyEarned ==
    ASSUME GovernanceInv, GovernanceInv', EarnedInv, RequestsFine, NEW s \in Strategy,
           s.status \in {"baseline_draft", "challenger"}, create_strategy(s),
           IsParent(strategies, events, s.parent, s.family, Len(events) + 1)
    PROVE  EarnedInv'
<1>1. Method
  BY DEF Method
<1>2. StoreTypeOK /\ Len(strategies) \in Nat
  BY LenProperties DEF GovernanceInv, StoreInv, StoreTypeOK
<1>3. PICK kind \in {"baseline_strategy_created", "challenger_created"} :
        _save(Event(kind, Len(strategies) + 1, FALSE, {}))
  BY DEF create_strategy
<1>4. PICK e \in JournalEvent : e = Event(kind, Len(strategies) + 1, FALSE, {})
  <2>1. kind \in EventKind /\ Len(strategies) + 1 \in Nat /\ {} \in SUBSET Nat
    BY <1>2 DEF EventKind
  <2>2. PICK n \in Nat : n = Len(strategies) + 1
    BY <2>1
  <2>3. Event(kind, n, FALSE, {}) \in JournalEvent
    BY <2>1 DEF Event, JournalEvent
  <2>4. QED
    BY <2>2, <2>3
<1>5. _save(e) /\ e.strategy = Len(strategies) + 1 /\ e.kind # "champion_promoted"
  BY <1>3, <1>4 DEF Event
<1>6. strategies' = Append(strategies, s) /\ promotions' = promotions /\ evaluations' = evaluations
  BY DEF create_strategy
<1>7. Len(strategies') = Len(strategies) + 1 /\ strategies'[Len(strategies) + 1] = s
  BY <1>2, <1>6, AppendedSeq DEF StoreTypeOK
<1>8. /\ \A r \in DOMAIN promotions' :
            \E q \in DOMAIN promotions : promotions'[r].strategy = promotions[q].strategy
      /\ \A v \in DOMAIN evaluations' : v \in DOMAIN evaluations
  BY <1>6
<1>9. IsParent(strategies, events, strategies'[e.strategy].parent, strategies'[e.strategy].family,
               Len(events) + 1)
  BY <1>5, <1>7
<1>10. QED
  BY <1>1, <1>5, <1>7, <1>8, <1>9, EarnedByEvent DEF RequestsFine

LEMMA EvaluationEarned ==
    ASSUME GovernanceInv, GovernanceInv', EarnedInv, RequestsFine,
           NEW s \in DOMAIN strategies, NEW m \in Metrics, evaluate(s, m)
    PROVE  EarnedInv'
<1>1. Method
  BY DEF Method
<1>2. PICK passed \in BOOLEAN :
        passed = (promotion_blockers(SampleCount(m, strategies[s].profile), m.risks) = {})
  OBVIOUS
<1>3. /\ evaluations' = Append(evaluations, [strategy |-> s, passed |-> passed])
      /\ _save(Event("strategy_evaluation_completed", s, passed, {}))
      /\ promotions' = promotions
  BY <1>2 DEF evaluate
<1>4. s \in Nat /\ evaluations \in Seq(Evaluation)
  BY LenProperties DEF GovernanceInv, StoreInv, StoreTypeOK
<1>5. PICK e \in JournalEvent : e = Event("strategy_evaluation_completed", s, passed, {})
  BY <1>4 DEF Event, JournalEvent, EventKind
<1>6. /\ _save(e) /\ e.kind = "strategy_evaluation_completed" /\ e.strategy = s
      /\ e.passed = passed
  BY <1>3, <1>5 DEF Event
<1>7. PICK v \in Evaluation : v.strategy = s /\ v.passed = passed
                              /\ evaluations' = Append(evaluations, v)
  <2>1. [strategy |-> s, passed |-> passed] \in Evaluation
    BY <1>4 DEF Evaluation
  <2>2. QED
    BY <1>3, <2>1
<1>8. \A i \in DOMAIN evaluations' : i \in DOMAIN evaluations \/ evaluations'[i] = v
  BY <1>4, <1>7, AppendedSeq, LenProperties
<1>9. /\ \A r \in DOMAIN promotions' :
            \E q \in DOMAIN promotions : promotions'[r].strategy = promotions[q].strategy
      /\ \A i \in DOMAIN evaluations' :
            \/ i \in DOMAIN evaluations
            \/ e.kind = "strategy_evaluation_completed" /\ e.strategy = evaluations'[i].strategy
               /\ e.passed = evaluations'[i].passed
  BY <1>3, <1>6, <1>7, <1>8
<1>10. e.kind # "champion_promoted" /\ e.kind # "challenger_created"
  BY <1>6
<1>11. QED
  BY <1>1, <1>6, <1>9, <1>10, EarnedByEvent DEF RequestsFine

LEMMA RecommendationEarned ==
    ASSUME GovernanceInv, GovernanceInv', EarnedInv, RequestsFine,
           NEW s \in DOMAIN strategies, request_promotion(s)
    PROVE  EarnedInv'
<1>1. Method
  BY DEF Method
<1>2. s \in Nat /\ promotions \in Seq(Promotion) /\ \A v \in DOMAIN evaluations : v \in Nat
  BY LenProperties DEF GovernanceInv, StoreInv, StoreTypeOK
<1>3. PICK e \in JournalEvent : e = Event("promotion_recommended", s, TRUE, {})
  BY <1>2 DEF Event, JournalEvent, EventKind
<1>4. _save(e) /\ e.kind = "promotion_recommended" /\ e.strategy = s
  BY <1>3 DEF request_promotion, Event
<1>5. PICK v \in DOMAIN evaluations :
        /\ evaluations[v].strategy = s /\ evaluations[v].passed
        /\ promotions' = Append(promotions, [strategy |-> s, evaluation |-> v,
                                             status |-> "pending_confirmation"])
  BY DEF request_promotion, IsLatestEvaluation
<1>6. HasPassed(events, s, Len(events) + 1)
  BY <1>5 DEF EarnedInv
<1>7. PICK r \in Promotion : r.strategy = s /\ promotions' = Append(promotions, r)
  <2>1. [strategy |-> s, evaluation |-> v, status |-> "pending_confirmation"] \in Promotion
    BY <1>2 DEF Promotion
  <2>2. QED
    BY <1>5, <2>1
<1>8. \A i \in DOMAIN promotions' :
          promotions'[i] = r \/ (i \in DOMAIN promotions /\ promotions'[i] = promotions[i])
  <2>1. PICK n \in Nat : n = Len(promotions) /\ DOMAIN promotions = 1 .. n
    BY <1>2, LenProperties
  <2>2. /\ DOMAIN promotions' = 1 .. n + 1 /\ promotions'[n + 1] = r
        /\ \A i \in 1 .. n : promotions'[i] = promotions[i]
    BY <1>2, <1>7, <2>1, AppendedSeq
  <2>3. \A i \in 1 .. n + 1 : i = n + 1 \/ i \in 1 .. n
    OBVIOUS
  <2>4. QED
    BY <2>1, <2>2, <2>3
<1>9. \A i \in DOMAIN promotions' :
          \/ \E q \in DOMAIN promotions : promotions'[i].strategy = promotions[q].strategy
          \/ e.kind = "promotion_recommended" /\ e.strategy = promotions'[i].strategy
             /\ HasPassed(events, e.strategy, Len(events) + 1)
  BY <1>4, <1>6, <1>7, <1>8
<1>10. \A i \in DOMAIN evaluations' : i \in DOMAIN evaluations
  BY DEF request_promotion
<1>11. e.kind # "champion_promoted" /\ e.kind # "challenger_created"
  BY <1>4
<1>12. QED
  BY <1>1, <1>4, <1>9, <1>10, <1>11, EarnedByEvent DEF RequestsFine

LEMMA InstallationEarned ==
    ASSUME GovernanceInv, GovernanceInv', EarnedInv, RequestsFine,
           \/ \E r \in DOMAIN promotions : confirm_promotion(r)
           \/ \E s \in DOMAIN strategies : rollback(s)
    PROVE  EarnedInv'
<1>1. Method
  BY DEF Method
<1>2. /\ promotions \in Seq(Promotion) /\ \A r \in DOMAIN promotions : promotions[r] \in Promotion
      /\ \A s \in DOMAIN strategies : s \in Nat
  BY LenProperties, ElementOfSeq DEF GovernanceInv, StoreInv, StoreTypeOK
<1>3. evaluations' = evaluations
  BY DEF confirm_promotion, rollback
<1>4. \E e \in JournalEvent :
        /\ _save(e) /\ e.kind # "challenger_created"
        /\ e.kind = "champion_promoted" => WasRecommended(events, e.strategy, Len(events) + 1)
  <2>1. ASSUME NEW r \in DOMAIN promotions, confirm_promotion(r)
        PROVE  \E e \in JournalEvent :
                  /\ _save(e) /\ e.kind # "challenger_created"
                  /\ e.kind = "champion_promoted" => WasRecommended(events, e.strategy, Len(events) + 1)
    <3>1. promotions[r].strategy \in Nat
      BY <1>2 DEF Promotion
    <3>2. PICK e \in JournalEvent : e = Event("champion_promoted", promotions[r].strategy, TRUE, {})
      BY <3>1 DEF Event, JournalEvent, EventKind
    <3>3. _save(e) /\ e.kind = "champion_promoted" /\ e.strategy = promotions[r].strategy
      BY <2>1, <3>2 DEF confirm_promotion, Event
    <3>4. WasRecommended(events, promotions[r].strategy, Len(events) + 1)
      BY DEF EarnedInv
    <3>5. QED
      BY <3>3, <3>4
  <2>2. ASSUME NEW s \in DOMAIN strategies, rollback(s)
        PROVE  \E e \in JournalEvent :
                  /\ _save(e) /\ e.kind # "challenger_created"
                  /\ e.kind = "champion_promoted" => WasRecommended(events, e.strategy, Len(events) + 1)
    <3>1. PICK e \in JournalEvent : e = Event("champion_rolled_back", s, FALSE, {})
      BY <1>2 DEF Event, JournalEvent, EventKind
    <3>2. _save(e) /\ e.kind = "champion_rolled_back"
      BY <2>2, <3>1 DEF rollback, Event
    <3>3. QED
      BY <3>2
  <2>3. QED
    BY <2>1, <2>2
<1>5. \A i \in DOMAIN promotions' :
          \E q \in DOMAIN promotions : promotions'[i].strategy = promotions[q].strategy
  <2>1. ASSUME NEW r \in DOMAIN promotions, confirm_promotion(r), NEW i \in DOMAIN promotions'
        PROVE  \E q \in DOMAIN promotions : promotions'[i].strategy = promotions[q].strategy
    <3>1. promotions' = [promotions EXCEPT ![r].status = "confirmed"]
      BY <2>1 DEF confirm_promotion
    <3>2. DOMAIN promotions' = DOMAIN promotions
      BY <3>1
    <3>3. promotions'[i] = promotions[i] \/ promotions'[i] = [promotions[i] EXCEPT !.status = "confirmed"]
      BY <3>1, <3>2
    <3>4. promotions'[i].strategy = promotions[i].strategy
      BY <1>2, <2>1, <3>2, <3>3 DEF Promotion
    <3>5. QED
      BY <2>1, <3>2, <3>4
  <2>2. CASE \E s \in DOMAIN strategies : rollback(s)
    BY <2>2 DEF rollback
  <2>3. QED
    BY <2>1, <2>2
<1>6. \A i \in DOMAIN evaluations' : i \in DOMAIN evaluations
  BY <1>3
<1>7. QED
  BY <1>1, <1>4, <1>5, <1>6, EarnedByEvent DEF RequestsFine

\* A champion of a family was installed in it.
LEMMA ChampionWasInstalled ==
    ASSUME GovernanceInv, NEW f
    PROVE  IsParent(strategies, events, Champion(f), f, Len(events) + 1)
<1>1. CASE Champions(f) = {}
  BY <1>1 DEF Champion, IsParent
<1>2. CASE Champions(f) # {}
  <2>1. Champion(f) \in Champions(f)
    <3>1. Champions(f) \subseteq Nat
      BY LenProperties DEF Champions, GovernanceInv, StoreInv, StoreTypeOK
    <3>2. \A i, j \in Champions(f) : i = j
      BY DEF Champions, GovernanceInv, StoreInv, AtMostOneChampion
    <3>3. \E i \in Champions(f) : \A j \in Champions(f) : i <= j
      BY <1>2, <3>1, <3>2
    <3>4. QED
      BY <1>2, <3>3 DEF Champion
  <2>2. PICK s \in DOMAIN strategies :
          s = Champion(f) /\ strategies[s].status = "champion" /\ strategies[s].family = f
    BY <2>1 DEF Champions
  <2>3. IsMandated(s)
    BY <2>2 DEF GovernanceInv, StoreInv, ChampionHasMandate
  <2>4. PICK i \in DOMAIN events : IsMandate(events[i]) /\ events[i].strategy = s
    BY <2>3 DEF IsMandated, Mandates
  <2>5. i \in 1 .. (Len(events) + 1) - 1
    BY LenProperties DEF GovernanceInv, StoreInv, StoreTypeOK
  <2>6. WasInstalled(events, s, Len(events) + 1)
    BY <2>4, <2>5 DEF WasInstalled
  <2>7. QED
    BY <2>2, <2>6 DEF IsParent
<1>3. QED
  BY <1>1, <1>2

\* A request keeps its parent and family, drops them, or reads the champion now.
LEMMA RequestsStayFine ==
    ASSUME GovernanceInv, EarnedInv, [Next]_vars
    PROVE  RequestsFine
<1>1. Idle.parent = None
  BY DEF Idle
<1>2. \A p, f : p = None => IsParent(strategies, events, p, f, Len(events) + 1)
  BY DEF IsParent
<1>3. \A t \in Threads : request[t] \in Request
  BY DEF GovernanceInv
<1>4. ASSUME NEW t \in Threads,
             \/ request'[t].parent = request[t].parent /\ request'[t].family = request[t].family
             \/ request'[t].parent = None
             \/ \E f \in Families : request'[t].parent = Champion(f) /\ request'[t].family = f
      PROVE  IsParent(strategies, events, request'[t].parent, request'[t].family, Len(events) + 1)
  BY <1>2, <1>4, ChampionWasInstalled DEF EarnedInv
<1>5. ASSUME NEW t \in Threads, ThreadStep(t)
      PROVE  RequestsFine
  <2>1. PICK q : request' = [request EXCEPT ![t] = q]
    BY <1>5 DEF ThreadStep, StartImport, ImportProfile, StartChallenger, ReadProfile,
                CreateStrategy, EvaluateNew
  <2>2. request'[t] = q /\ \A u \in Threads : u # t => request'[u] = request[u]
    BY <2>1 DEF GovernanceInv
  <2>3. \/ q.parent = request[t].parent /\ q.family = request[t].family
        \/ q.parent = None
        \/ \E f \in Families : q.parent = Champion(f) /\ q.family = f
    <3>1. CASE StartImport(t)
      BY <1>1, <1>3, <2>2, <3>1 DEF StartImport, Idle, GovernanceInv
    <3>2. CASE \E n \in SampleCounts : ImportProfile(t, n)
      <4>1. PICK r \in Request : r = request[t]
        BY <1>3
      <4>2. q = [r EXCEPT !.pc = "create_strategy", !.profile = Len(profiles) + 1]
        BY <2>2, <3>2, <4>1 DEF ImportProfile, GovernanceInv
      <4>3. q.parent = r.parent /\ q.family = r.family
        BY <4>2 DEF Request
      <4>4. QED
        BY <4>1, <4>3
    <3>3. ASSUME NEW f \in Families, StartChallenger(t, f)
          PROVE  q.parent = Champion(f) /\ q.family = f
      BY <1>3, <2>2, <3>3 DEF StartChallenger, Idle, GovernanceInv
    <3>4. CASE ReadProfile(t)
      BY <1>3, <2>2, <3>4 DEF ReadProfile, Request, GovernanceInv
    <3>5. CASE CreateStrategy(t)
      BY <1>3, <2>2, <3>5 DEF CreateStrategy, Request, GovernanceInv
    <3>6. CASE \E m \in Metrics : EvaluateNew(t, m)
      BY <1>1, <1>3, <2>2, <3>6 DEF EvaluateNew, GovernanceInv
    <3>7. QED
      BY <1>5, <3>1, <3>2, <3>3, <3>4, <3>5, <3>6 DEF ThreadStep
  <2>4. QED
    BY <1>4, <2>2, <2>3 DEF RequestsFine
<1>6. CASE DirectStep \/ UNCHANGED vars
  <2>1. request' = request
    BY <1>6 DEF DirectStep, EditProfile, EvaluateStrategy, RequestPromotion, ConfirmPromotion,
                Rollback, vars
  <2>2. QED
    BY <1>4, <2>1 DEF RequestsFine
<1>7. CASE Restart \/ TornSave
  <2>1. \A t \in Threads : request'[t] = Idle
    BY <1>7 DEF Restart, TornSave
  <2>2. QED
    BY <1>1, <1>4, <2>1 DEF RequestsFine
<1>8. QED
  BY <1>5, <1>6, <1>7 DEF Next

LEMMA EarnedKept ==
    ASSUME GovernanceInv, GovernanceInv', EarnedInv, [Next]_vars
    PROVE  EarnedInv'
<1>1. RequestsFine
  BY RequestsStayFine
<1>2. SampleCounts \subseteq Nat
  BY GovernanceAssumption DEF GovernanceAssumption
<1>3. CASE UNCHANGED store
  BY <1>1, <1>3 DEF store, EarnedInv, RequestsFine
<1>4. ASSUME NEW t \in Threads, ThreadStep(t) PROVE EarnedInv'
  <2>1. CASE StartImport(t) \/ ReadProfile(t) \/ \E f \in Families : StartChallenger(t, f)
    BY <1>3, <2>1 DEF StartImport, ReadProfile, StartChallenger
  <2>2. ASSUME NEW n \in SampleCounts, ImportProfile(t, n) PROVE EarnedInv'
    BY <1>1, <1>2, <2>2, ProfileEarned DEF ImportProfile
  <2>3. CASE CreateStrategy(t)
    <3>1. PICK s : s = Created(t)
      OBVIOUS
    <3>2. s \in Strategy /\ s.status \in {"baseline_draft", "challenger"} /\ create_strategy(s)
      BY <2>3, <3>1, CreatedType DEF CreateStrategy, Created
    <3>3. s.parent = request[t].parent /\ s.family = request[t].family
      BY <3>1 DEF Created
    <3>4. IsParent(strategies, events, s.parent, s.family, Len(events) + 1)
      BY <3>3 DEF EarnedInv
    <3>5. QED
      BY <1>1, <3>2, <3>4, StrategyEarned
  <2>4. ASSUME NEW m \in Metrics, EvaluateNew(t, m) PROVE EarnedInv'
    <3>1. evaluate(request[t].strategy, m) /\ request[t].strategy \in DOMAIN strategies
      BY <2>4 DEF EvaluateNew, evaluate
    <3>2. QED
      BY <1>1, <3>1, EvaluationEarned
  <2>5. QED
    BY <1>4, <2>1, <2>2, <2>3, <2>4 DEF ThreadStep
<1>5. CASE DirectStep
  <2>1. ASSUME NEW p \in DOMAIN profiles, NEW n \in SampleCounts, EditProfile(p, n) PROVE EarnedInv'
    BY <1>1, <1>2, <2>1, ProfileEarned DEF EditProfile
  <2>2. ASSUME NEW s \in DOMAIN strategies, NEW m \in Metrics, EvaluateStrategy(s, m) PROVE EarnedInv'
    BY <1>1, <2>2, EvaluationEarned DEF EvaluateStrategy
  <2>3. ASSUME NEW s \in DOMAIN strategies, RequestPromotion(s) PROVE EarnedInv'
    BY <1>1, <2>3, RecommendationEarned DEF RequestPromotion
  <2>4. ASSUME NEW r \in DOMAIN promotions, ConfirmPromotion(r) PROVE EarnedInv'
    BY <1>1, <2>4, InstallationEarned DEF ConfirmPromotion
  <2>5. ASSUME NEW s \in DOMAIN strategies, Rollback(s) PROVE EarnedInv'
    BY <1>1, <2>5, InstallationEarned DEF Rollback
  <2>6. QED
    BY <1>5, <2>1, <2>2, <2>3, <2>4, <2>5 DEF DirectStep
<1>6. CASE Restart \/ TornSave \/ UNCHANGED vars
  BY <1>3, <1>6 DEF Restart, TornSave, store, vars
<1>7. QED
  BY <1>4, <1>5, <1>6 DEF Next

\* The initial journal owes nothing.
LEMMA EarnedInit ==
    ASSUME Init
    PROVE  EarnedInv
<1>1. /\ DOMAIN events = {} /\ DOMAIN promotions = {} /\ DOMAIN evaluations = {}
      /\ Len(events) = 0 /\ Len(strategies) = 0
  BY DEF Init
<1>2. \A t \in Threads : request[t].parent = None
  BY DEF Init, Idle
<1>3. MaxEvents \in Nat
  BY GovernanceAssumption DEF GovernanceAssumption
<1>4. QED
  BY <1>1, <1>2, <1>3 DEF EarnedInv, IsParent

THEOREM EarnedInvariant == Spec => []EarnedInv
<1>1. Init => EarnedInv
  BY EarnedInit
<1>2. GovernanceInv /\ GovernanceInv' /\ EarnedInv /\ [Next]_vars => EarnedInv'
  BY EarnedKept
<1>3. QED
  BY <1>1, <1>2, GovernanceInvariant, PTL DEF Spec

\* Neither a promotion nor a challenger's parent comes out of nothing: the journal
\* shows a recommendation and a passed evaluation before every promotion, and the
\* installation of every challenger's parent in the challenger's family.
THEOREM PromotionsEarned == Spec => []PromotionsAreEarned
<1>1. ASSUME GovernanceInv, EarnedInv PROVE PromotionsAreEarned
  <2>1. Len(events) \in Nat /\ DOMAIN events = 1 .. Len(events)
    BY <1>1, LenProperties DEF GovernanceInv, StoreInv, StoreTypeOK
  <2>2. PromotionHasEvidence
    <3> SUFFICES ASSUME NEW i \in DOMAIN events, events[i].kind = "champion_promoted"
                 PROVE  \E j, k \in 1..(i - 1) :
                            /\ k < j
                            /\ events[j].kind = "promotion_recommended"
                            /\ events[k].kind = "strategy_evaluation_completed"
                            /\ events[k].passed
                            /\ events[j].strategy = events[i].strategy
                            /\ events[k].strategy = events[i].strategy
      BY DEF PromotionHasEvidence
    <3>1. PICK s : s = events[i].strategy
      OBVIOUS
    <3>2. WasRecommended(events, s, i) /\ i \in Nat
      BY <1>1, <2>1, <3>1 DEF EarnedInv
    <3>3. PICK j \in 1 .. i - 1 : /\ events[j].kind = "promotion_recommended"
                                  /\ events[j].strategy = s /\ HasPassed(events, s, j)
      BY <3>2 DEF WasRecommended
    <3>4. PICK k \in 1 .. j - 1 : /\ events[k].kind = "strategy_evaluation_completed"
                                  /\ events[k].passed /\ events[k].strategy = s
      BY <3>3 DEF HasPassed
    <3>5. k \in 1 .. (i - 1) /\ k < j
      BY <3>2
    <3>6. QED
      BY <3>1, <3>3, <3>4, <3>5
  <2>3. ParentWasChampion
    <3> SUFFICES ASSUME NEW i \in DOMAIN events, events[i].kind = "challenger_created",
                        NEW s, s = events[i].strategy, NEW p, p = strategies[s].parent, p # None
                 PROVE  /\ p < s
                        /\ strategies[p].family = strategies[s].family
                        /\ \E j \in 1..(i - 1) : IsMandate(events[j]) /\ events[j].strategy = p
      BY DEF ParentWasChampion
    <3>1. p < s /\ IsParent(strategies, events, p, strategies[s].family, i)
      BY <1>1 DEF EarnedInv
    <3>2. QED
      BY <3>1 DEF IsParent, WasInstalled
  <2>4. QED
    BY <2>2, <2>3 DEF PromotionsAreEarned
<1>2. QED
  BY <1>1, GovernanceInvariant, EarnedInvariant, PTL

-------------------------------------------------------------------------------
(* The register of champions *)

\* The latest of some positions is one of them.
LEMMA LatestOf ==
    ASSUME NEW n \in Nat, NEW S \in SUBSET (1 .. n), S # {}
    PROVE  Latest(S) \in S /\ \A j \in S : j <= Latest(S)
<1> DEFINE T == {n - x : x \in S}
           R == {ss \in Nat \X Nat : ss[1] < ss[2]}
<1>1. IsWellFoundedOn(R, Nat)
  BY NatLessThanWellFounded DEF OpToRel
<1> HIDE DEF R
<1>2. T \subseteq Nat /\ T # {}
  <2>1. \A x \in S : n - x \in Nat
    OBVIOUS
  <2>2. QED
    BY <2>1
<1>3. PICK t \in T : \A u \in T : ~(<<u, t>> \in R)
  BY <1>1, <1>2, WFMin
<1>4. PICK x \in S : t = n - x
  OBVIOUS
<1>5. ASSUME NEW y \in S PROVE y <= x
  <2>1. n - y \in T /\ n - y \in Nat /\ t \in Nat
    BY <1>2
  <2>2. ~(n - y < t)
    BY <1>3, <2>1 DEF R
  <2>3. QED
    BY <1>4, <2>1, <2>2
<1>6. QED
  BY <1>5, Zenon DEF Latest

\* A family's champion is the one strategy of it that has the status.
ChampionIsTheOne ==
    \A f : /\ Champions(f) = {} => Champion(f) = 0
           /\ \A s \in Champions(f) : Champion(f) = s

LEMMA ChampionValue == StoreInv => ChampionIsTheOne
<1> SUFFICES ASSUME StoreInv, NEW f
             PROVE  /\ Champions(f) = {} => Champion(f) = 0
                    /\ \A s \in Champions(f) : Champion(f) = s
  BY DEF ChampionIsTheOne
<1>1. Champions(f) \subseteq Nat /\ \A i, j \in Champions(f) : i = j
  BY LenProperties DEF Champions, StoreInv, StoreTypeOK, AtMostOneChampion
<1>2. ASSUME NEW s \in Champions(f) PROVE Champion(f) = s
  <2>1. Champions(f) = {s} /\ s \in Nat
    BY <1>1
  <2>2. QED
    BY <2>1 DEF Champion
<1>3. QED
  BY <1>2 DEF Champion, None

LEMMA ChampionValueNext == StoreInv' => ChampionIsTheOne'
  BY ChampionValue, PTL

\* An event that is no mandate of the family leaves the family's last mandate alone.
LEMMA MandateKept ==
    ASSUME StoreInv, NEW e \in JournalEvent, events' = Append(events, e), NEW f,
           \A i \in DOMAIN strategies : strategies'[i].family = strategies[i].family,
           ~(IsMandate(e) /\ strategies'[e.strategy].family = f)
    PROVE  LastMandate(f)' = LastMandate(f)
<1>1. PICK n \in Nat : n = Len(events)
  BY LenProperties DEF StoreInv, StoreTypeOK
<1>2. /\ DOMAIN events = 1 .. n /\ DOMAIN events' = 1 .. n + 1
      /\ \A i \in 1 .. n : events'[i] = events[i]
      /\ events'[n + 1] = e
  BY <1>1, AppendedSeq, LenProperties DEF StoreInv, StoreTypeOK
<1>3. \A i \in 1 .. n + 1 : i = n + 1 \/ i \in 1 .. n
  OBVIOUS
<1>4. \A i \in 1 .. n : IsMandate(events[i]) =>
          strategies'[events[i].strategy].family = strategies[events[i].strategy].family
  BY <1>2 DEF StoreInv, ReferencesKnown
<1>5. Mandates(f)' = Mandates(f)
  <2>1. Mandates(f) = {i \in 1 .. n : IsMandate(events[i])
                                      /\ strategies[events[i].strategy].family = f}
    BY <1>2 DEF Mandates
  <2>2. Mandates(f)' = {i \in 1 .. n + 1 : IsMandate(events'[i])
                                           /\ strategies'[events'[i].strategy].family = f}
    BY <1>2 DEF Mandates
  <2>3. \A i \in 1 .. n + 1 : i \in Mandates(f)' <=> i \in Mandates(f)
    <3>1. n + 1 \notin Mandates(f)' /\ n + 1 \notin Mandates(f)
      BY <1>2, <2>1, <2>2
    <3>2. ASSUME NEW i \in 1 .. n PROVE i \in Mandates(f)' <=> i \in Mandates(f)
      <4>1. i \in 1 .. n + 1 /\ events'[i] = events[i]
        BY <1>2
      <4>2. QED
        BY <1>4, <2>1, <2>2, <4>1
    <3>3. QED
      BY <1>3, <3>1, <3>2
  <2>4. Mandates(f) \subseteq 1 .. n + 1 /\ Mandates(f)' \subseteq 1 .. n + 1
    BY <2>1, <2>2
  <2>5. QED
    BY <2>3, <2>4
<1>6. Mandates(f) \subseteq 1 .. n
  BY <1>2 DEF Mandates
<1>7. PICK M : M = Mandates(f)
  OBVIOUS
<1>8. CASE M = {}
  BY <1>5, <1>7, <1>8 DEF LastMandate
<1>9. CASE M # {}
  <2>1. Latest(M) \in 1 .. n
    BY <1>6, <1>7, <1>9, LatestOf
  <2>2. LastMandate(f)' = events'[Latest(M)].strategy /\ LastMandate(f) = events[Latest(M)].strategy
    BY <1>5, <1>7, <1>9 DEF LastMandate
  <2>3. QED
    BY <1>2, <2>1, <2>2
<1>10. QED
  BY <1>8, <1>9

\* A mandate of the family becomes its last one.
LEMMA MandateAdded ==
    ASSUME StoreInv, NEW e \in JournalEvent, events' = Append(events, e), NEW f,
           IsMandate(e), strategies'[e.strategy].family = f
    PROVE  LastMandate(f)' = e.strategy
<1>1. PICK n \in Nat : n = Len(events)
  BY LenProperties DEF StoreInv, StoreTypeOK
<1>2. DOMAIN events' = 1 .. n + 1 /\ events'[n + 1] = e
  BY <1>1, AppendedSeq, LenProperties DEF StoreInv, StoreTypeOK
<1>3. PICK M : M = Mandates(f)'
  OBVIOUS
<1>4. n + 1 \in M /\ M \in SUBSET (1 .. n + 1) /\ n + 1 \in Nat
  BY <1>2, <1>3 DEF Mandates
<1>5. Latest(M) \in 1 .. n + 1 /\ n + 1 <= Latest(M)
  BY <1>4, LatestOf
<1>6. Latest(M) = n + 1
  BY <1>5
<1>7. LastMandate(f)' = events'[Latest(M)].strategy
  BY <1>3, <1>4 DEF LastMandate
<1>8. QED
  BY <1>2, <1>6, <1>7

\* A step of the journal either installs nobody and journals no mandate, or installs
\* the strategy its mandate names.
LEMMA MethodMandates ==
    ASSUME GovernanceInv, Method
    PROVE  \E e \in JournalEvent :
              /\ events' = Append(events, e)
              /\ \/ NoNewChampion /\ ~IsMandate(e)
                 \/ \E s \in DOMAIN strategies :
                       strategies' = Installed(s) /\ IsMandate(e) /\ e.strategy = s
<1>1. PICK e \in JournalEvent : _save(e)
  BY MethodJournals
<1>2. events' = Append(events, e) /\ events \in Seq(JournalEvent)
  BY <1>1 DEF _save, GovernanceInv, StoreInv, StoreTypeOK
<1>3. ASSUME NEW d, _save(d) PROVE d = e
  <2>1. Append(events, d) = Append(events, e)
    BY <1>2, <1>3 DEF _save
  <2>2. QED
    BY <1>2, <2>1
<1>4. \A k, s, b, q : _save(Event(k, s, b, q)) => e.kind = k /\ e.strategy = s
  BY <1>3 DEF Event
<1>5. /\ StoreTypeOK /\ Len(strategies) \in Nat /\ DOMAIN strategies = 1 .. Len(strategies)
      /\ \A i \in DOMAIN strategies : strategies[i] \in Strategy
  BY LenProperties, ElementOfSeq DEF GovernanceInv, StoreInv, StoreTypeOK
<1>6. NoNewChampion \/ ~(strategies' = strategies)
  BY DEF NoNewChampion
<1>7. ASSUME NEW n \in Nat, create_profile(n) PROVE NoNewChampion /\ ~IsMandate(e)
  BY <1>4, <1>6, <1>7 DEF create_profile, IsMandate
<1>8. ASSUME NEW p \in DOMAIN profiles, NEW n \in Nat, edit_profile(p, n)
      PROVE  NoNewChampion /\ ~IsMandate(e)
  <2>1. ~IsMandate(e) /\ strategies' = Restated(Dependents(p), "stale")
    BY <1>4, <1>8 DEF edit_profile, IsMandate
  <2>2. NoNewChampion
    BY <1>5, <2>1 DEF NoNewChampion, Restated, Strategy
  <2>3. QED
    BY <2>1, <2>2
<1>9. ASSUME NEW s \in Strategy, s.status \in {"baseline_draft", "challenger"}, create_strategy(s)
      PROVE  NoNewChampion /\ ~IsMandate(e)
  <2>1. ~IsMandate(e) /\ strategies' = Append(strategies, s)
    BY <1>4, <1>9 DEF create_strategy, IsMandate
  <2>2. PICK n \in Nat : n = Len(strategies)
    BY <1>5
  <2>3. /\ DOMAIN strategies = 1 .. n /\ DOMAIN strategies' = 1 .. n + 1
        /\ strategies'[n + 1] = s
        /\ \A i \in 1 .. n : strategies'[i] = strategies[i]
    BY <1>5, <2>1, <2>2, AppendedSeq DEF StoreTypeOK
  <2>4. \A i \in 1 .. n + 1 : i = n + 1 \/ i \in 1 .. n
    OBVIOUS
  <2>5. \A i \in 1 .. n : i \in 1 .. n + 1
    OBVIOUS
  <2>6. NoNewChampion
    BY <1>9, <2>3, <2>4, <2>5 DEF NoNewChampion
  <2>7. QED
    BY <2>1, <2>6
<1>10. ASSUME NEW s \in DOMAIN strategies, NEW m \in Metrics, evaluate(s, m)
       PROVE  NoNewChampion /\ ~IsMandate(e)
  <2>1. ~IsMandate(e)
    BY <1>4, <1>10 DEF evaluate, IsMandate
  <2>2. PICK status \in {"ready_for_review", "challenger"} :
          strategies' = strategies \/ strategies' = [strategies EXCEPT ![s].status = status]
    BY <1>10 DEF evaluate
  <2>3. NoNewChampion
    BY <1>5, <1>6, <2>2 DEF NoNewChampion, Strategy
  <2>4. QED
    BY <2>1, <2>3
<1>11. ASSUME NEW s \in DOMAIN strategies, request_promotion(s)
       PROVE  NoNewChampion /\ ~IsMandate(e)
  BY <1>4, <1>6, <1>11 DEF request_promotion, IsMandate
<1>12. ASSUME NEW r \in DOMAIN promotions, confirm_promotion(r)
       PROVE  \E s \in DOMAIN strategies :
                 strategies' = Installed(s) /\ IsMandate(e) /\ e.strategy = s
  <2>1. promotions[r].strategy \in DOMAIN strategies
    BY DEF GovernanceInv, StoreInv, ReferencesKnown
  <2>2. QED
    BY <1>4, <1>12, <2>1 DEF confirm_promotion, IsMandate
<1>13. ASSUME NEW s \in DOMAIN strategies, rollback(s)
       PROVE  strategies' = Installed(s) /\ IsMandate(e) /\ e.strategy = s
  BY <1>4, <1>13 DEF rollback, IsMandate
<1>14. QED
  BY <1>2, <1>7, <1>8, <1>9, <1>10, <1>11, <1>12, <1>13 DEF Method

\* Where nobody is installed a family keeps its champion or loses it.
LEMMA ChampionKeptOrLost ==
    ASSUME StoreInv, StoreInv', NoNewChampion, NEW f
    PROVE  Champion(f)' \in {0, Champion(f)}
<1>1. ChampionIsTheOne /\ ChampionIsTheOne'
  BY ChampionValue, ChampionValueNext
<1>2. /\ Champions(f)' = {} => Champion(f)' = 0
      /\ \A s \in Champions(f)' : Champion(f)' = s
  BY <1>1 DEF ChampionIsTheOne
<1>3. ASSUME NEW s \in Champions(f)' PROVE Champion(f)' = Champion(f)
  <2>1. s \in Champions(f)
    BY DEF Champions, NoNewChampion
  <2>2. QED
    BY <1>1, <1>2, <2>1 DEF ChampionIsTheOne
<1>4. QED
  BY <1>2, <1>3

\* Installing a strategy makes it the champion of its family and of no other.
LEMMA InstalledChampion ==
    ASSUME StoreInv, StoreInv', NEW s \in DOMAIN strategies, strategies' = Installed(s), NEW f
    PROVE  /\ Champion(f)' = IF f = strategies[s].family THEN s ELSE Champion(f)
           /\ \A i \in DOMAIN strategies : strategies'[i].family = strategies[i].family
<1>1. ChampionIsTheOne /\ ChampionIsTheOne'
  BY ChampionValue, ChampionValueNext
<1>2. /\ Champions(f)' = {} => Champion(f)' = 0
      /\ \A i \in Champions(f)' : Champion(f)' = i
  BY <1>1 DEF ChampionIsTheOne
<1>3. \A i \in DOMAIN strategies : strategies[i] \in Strategy
  BY LenProperties, ElementOfSeq DEF StoreInv, StoreTypeOK
<1>4. /\ DOMAIN strategies' = DOMAIN strategies
      /\ \A i \in DOMAIN strategies :
            /\ strategies'[i].family = strategies[i].family
            /\ strategies'[i].status = "champion" <=>
                   \/ i = s
                   \/ /\ strategies[i].status = "champion"
                      /\ strategies[i].family # strategies[s].family
  BY <1>3 DEF Installed, Restated, Champions, Strategy
<1>5. CASE f = strategies[s].family
  <2>1. s \in Champions(f)'
    BY <1>4, <1>5 DEF Champions
  <2>2. QED
    BY <1>2, <1>4, <1>5, <2>1
<1>6. CASE f # strategies[s].family
  <2>1. Champions(f)' = Champions(f)
    BY <1>4, <1>6 DEF Champions
  <2>2. Champion(f)' = Champion(f)
    BY <1>1, <1>2, <2>1 DEF ChampionIsTheOne
  <2>3. QED
    BY <1>4, <1>6, <2>2
<1>7. QED
  BY <1>5, <1>6

\* What the register shows of the journal.
Reign == [f \in Families |-> Champion(f)]
LastMandates == [f \in Families |-> LastMandate(f)]

\* A step of the journal is a step of the register: a mandate installs a champion in
\* its family, any other step at most vacates places.
LEMMA RegisterStep ==
    ASSUME GovernanceInv, GovernanceInv', EarnedInv, EarnedInv', [Next]_vars
    PROVE  \/ \E f \in Families, s \in 1 .. MaxEvents :
                 /\ Reign' = [Reign EXCEPT ![f] = s]
                 /\ LastMandates' = [LastMandates EXCEPT ![f] = s]
           \/ \E F \in SUBSET Families :
                 /\ Reign' = [f \in Families |-> IF f \in F THEN 0 ELSE Reign[f]]
                 /\ LastMandates' = LastMandates
           \/ Reign' = Reign /\ LastMandates' = LastMandates
<1>1. /\ StoreInv /\ StoreInv' /\ \A s \in DOMAIN strategies : strategies[s] \in Strategy
      /\ DOMAIN strategies = 1 .. Len(strategies) /\ Len(strategies) \in Nat
      /\ Len(events) \in Nat
  BY LenProperties, ElementOfSeq DEF GovernanceInv, StoreInv, StoreTypeOK
<1>2. CASE UNCHANGED store
  <2>1. \A f : Champion(f)' = Champion(f) /\ LastMandate(f)' = LastMandate(f)
    BY <1>2 DEF store, Champion, Champions, LastMandate, Mandates
  <2>2. QED
    BY <2>1 DEF Reign, LastMandates
<1>3. ASSUME NEW e \in JournalEvent, events' = Append(events, e), NoNewChampion, ~IsMandate(e)
      PROVE  \E F \in SUBSET Families :
                 /\ Reign' = [f \in Families |-> IF f \in F THEN 0 ELSE Reign[f]]
                 /\ LastMandates' = LastMandates
  <2>1. \A f : Champion(f)' \in {0, Champion(f)}
    BY <1>1, <1>3, ChampionKeptOrLost
  <2>2. \A f : LastMandate(f)' = LastMandate(f)
    BY <1>1, <1>3, MandateKept DEF NoNewChampion
  <2>3. PICK F \in SUBSET Families : F = {f \in Families : Champion(f)' = 0}
    OBVIOUS
  <2>4. Reign' = [f \in Families |-> IF f \in F THEN 0 ELSE Reign[f]]
    BY <2>1, <2>3 DEF Reign
  <2>5. QED
    BY <2>2, <2>4 DEF LastMandates
<1>4. ASSUME NEW e \in JournalEvent, events' = Append(events, e), NEW s \in DOMAIN strategies,
             strategies' = Installed(s), IsMandate(e), e.strategy = s
      PROVE  \E f \in Families, i \in 1 .. MaxEvents :
                 /\ Reign' = [Reign EXCEPT ![f] = i]
                 /\ LastMandates' = [LastMandates EXCEPT ![f] = i]
  <2>1. PICK F \in Families : F = strategies[s].family
    BY <1>1 DEF Strategy
  <2>2. s \in 1 .. MaxEvents
    <3>1. PICK a, b \in Nat : a = Len(strategies) /\ b = Len(events)
      BY <1>1
    <3>2. s \in 1 .. a /\ a <= b /\ b <= MaxEvents /\ MaxEvents \in Nat
      BY <1>1, <3>1, GovernanceAssumption DEF EarnedInv, GovernanceAssumption
    <3>3. QED
      BY <3>2
  <2>3. /\ \A f : Champion(f)' = IF f = F THEN s ELSE Champion(f)
        /\ \A i \in DOMAIN strategies : strategies'[i].family = strategies[i].family
    BY <1>1, <1>4, <2>1, InstalledChampion
  <2>4. strategies'[e.strategy].family = F
    BY <1>4, <2>1, <2>3
  <2>5. LastMandate(F)' = s
    BY <1>1, <1>4, <2>4, MandateAdded
  <2>6. \A f : f # F => LastMandate(f)' = LastMandate(f)
    BY <1>1, <1>4, <2>3, <2>4, MandateKept
  <2>7. Reign' = [Reign EXCEPT ![F] = s]
    BY <2>3 DEF Reign
  <2>8. LastMandates' = [LastMandates EXCEPT ![F] = s]
    BY <2>5, <2>6 DEF LastMandates
  <2>9. QED
    BY <2>2, <2>7, <2>8
<1>5. CASE Method
  BY <1>3, <1>4, <1>5, MethodMandates
<1>6. QED
  BY <1>2, <1>5, NextMethod

\* Strategy governance implements the champion register: whatever confirmations,
\* rollbacks, evaluations, edits, imports and restarts meet, the journal shows a
\* register in which only an explicit mandate installs a champion.
THEOREM RegisterImplemented == Spec => ImplementsRegister
<1>1. Init => Register!RegisterInit
  <2> SUFFICES ASSUME Init PROVE Register!RegisterInit
    OBVIOUS
  <2>1. \A f : Champions(f) = {} /\ Mandates(f) = {}
    BY DEF Init, Champions, Mandates
  <2>2. \A f : Champion(f) = 0 /\ LastMandate(f) = 0
    BY <2>1 DEF Champion, LastMandate, None
  <2>3. QED
    BY <2>2 DEF Register!RegisterInit
<1>2. ASSUME GovernanceInv, GovernanceInv', EarnedInv, EarnedInv', [Next]_vars
      PROVE  [Register!RegisterNext]_(Register!registerVars)
  <2>1. CASE \E f \in Families, s \in 1 .. MaxEvents :
                 /\ Reign' = [Reign EXCEPT ![f] = s]
                 /\ LastMandates' = [LastMandates EXCEPT ![f] = s]
    BY <2>1 DEF Register!RegisterNext, Register!Install, Reign, LastMandates
  <2>2. CASE \E F \in SUBSET Families :
                 /\ Reign' = [f \in Families |-> IF f \in F THEN 0 ELSE Reign[f]]
                 /\ LastMandates' = LastMandates
    BY <2>2 DEF Register!RegisterNext, Register!Vacate, Reign, LastMandates
  <2>3. CASE Reign' = Reign /\ LastMandates' = LastMandates
    BY <2>3 DEF Register!registerVars, Reign, LastMandates
  <2>4. QED
    BY <1>2, <2>1, <2>2, <2>3, RegisterStep
<1>3. QED
  BY <1>1, <1>2, GovernanceInvariant, EarnedInvariant, PTL
     DEF Spec, ImplementsRegister, Register!RegisterSpec

-------------------------------------------------------------------------------
(* The journal explains every status *)

StatusSeq == Seq(StrategyStatus)

\* r holds the statuses after each event of the journal, and ends with the list's own.
IsReplay(list, journal, r) ==
    /\ r \in [0 .. Len(journal) -> StatusSeq]
    /\ r[0] = <<>>
    /\ \A n \in 1 .. Len(journal) : r[n] = Replayed(list, r[n - 1], journal[n])
    /\ \A n \in 0 .. Len(journal) : Len(r[n]) <= Len(list)
    /\ r[Len(journal)] = Statuses(list)

ReplayInv == \E r : IsReplay(strategies, events, r)

\* What each kind of event does to the statuses.
LEMMA ReplayedKinds ==
    ASSUME NEW list, NEW status, NEW e
    PROVE  /\ e.kind = "baseline_strategy_created" =>
                 Replayed(list, status, e) = Append(status, "baseline_draft")
           /\ e.kind = "challenger_created" =>
                 Replayed(list, status, e) = Append(status, "challenger")
           /\ e.kind = "trader_profile_edited" => Replayed(list, status, e) =
                 [i \in DOMAIN status |-> IF i \in e.stale THEN "stale" ELSE status[i]]
           /\ e.kind = "strategy_evaluation_completed" => Replayed(list, status, e) =
                 [i \in DOMAIN status |->
                    IF i # e.strategy \/ status[i] = "baseline_draft" THEN status[i]
                    ELSE IF e.passed THEN "ready_for_review" ELSE "challenger"]
           /\ IsMandate(e) => Replayed(list, status, e) =
                 [i \in DOMAIN status |->
                    IF i = e.strategy THEN "champion"
                    ELSE IF status[i] = "champion" /\ list[i].family = list[e.strategy].family
                         THEN "retired" ELSE status[i]]
           /\ e.kind \in {"trader_profile_generated", "promotion_recommended"} =>
                 Replayed(list, status, e) = status
<1>1. e.kind = "baseline_strategy_created" =>
          Replayed(list, status, e) = Append(status, "baseline_draft")
  BY DEF Replayed, IsMandate
<1>2. e.kind = "challenger_created" => Replayed(list, status, e) = Append(status, "challenger")
  BY DEF Replayed, IsMandate
<1>3. e.kind = "trader_profile_edited" => Replayed(list, status, e) =
          [i \in DOMAIN status |-> IF i \in e.stale THEN "stale" ELSE status[i]]
  BY DEF Replayed, IsMandate
<1>4. e.kind = "strategy_evaluation_completed" => Replayed(list, status, e) =
                 [i \in DOMAIN status |->
                    IF i # e.strategy \/ status[i] = "baseline_draft" THEN status[i]
                    ELSE IF e.passed THEN "ready_for_review" ELSE "challenger"]
  BY DEF Replayed, IsMandate
<1>5. IsMandate(e) => Replayed(list, status, e) =
                 [i \in DOMAIN status |->
                    IF i = e.strategy THEN "champion"
                    ELSE IF status[i] = "champion" /\ list[i].family = list[e.strategy].family
                         THEN "retired" ELSE status[i]]
  BY DEF Replayed, IsMandate
<1>6. e.kind \in {"trader_profile_generated", "promotion_recommended"} =>
                 Replayed(list, status, e) = status
  BY DEF Replayed, IsMandate
<1>7. QED
  BY <1>1, <1>2, <1>3, <1>4, <1>5, <1>6

\* An event's effect depends on the families of the strategies only.
LEMMA ReplayedSame ==
    ASSUME NEW list \in Seq(Strategy), NEW new \in Seq(Strategy),
           \A i \in DOMAIN list : new[i].family = list[i].family,
           NEW status \in StatusSeq, Len(status) <= Len(list),
           NEW e \in JournalEvent, IsMandate(e) => e.strategy \in DOMAIN list
    PROVE  Replayed(new, status, e) = Replayed(list, status, e)
<1>1. \A i \in DOMAIN status : i \in DOMAIN list
  <2>1. PICK a, b \in Nat : a = Len(status) /\ b = Len(list)
    BY LenProperties DEF StatusSeq
  <2>2. DOMAIN status = 1 .. a /\ DOMAIN list = 1 .. b /\ a <= b
    BY <2>1, LenProperties DEF StatusSeq
  <2>3. QED
    BY <2>1, <2>2
<1>2. CASE IsMandate(e)
  <2>1. PICK s : s = e.strategy
    OBVIOUS
  <2>2. \A i \in DOMAIN status : new[i].family = list[i].family
    BY <1>1
  <2>3. new[s].family = list[s].family
    BY <1>2, <2>1
  <2>4. QED
    BY <1>2, <2>1, <2>2, <2>3, ReplayedKinds
<1>3. CASE ~IsMandate(e)
  <2>1. PICK kind \in EventKind : kind = e.kind
    BY DEF JournalEvent
  <2>2. kind \in {"trader_profile_generated", "trader_profile_edited",
                  "baseline_strategy_created", "challenger_created",
                  "strategy_evaluation_completed", "promotion_recommended"}
    BY <1>3, <2>1 DEF IsMandate, EventKind
  <2>3. CASE kind \in {"trader_profile_generated", "promotion_recommended"}
    BY <2>1, <2>3 DEF Replayed, IsMandate
  <2>4. CASE kind = "trader_profile_edited"
    BY <2>1, <2>4 DEF Replayed, IsMandate
  <2>5. CASE kind \in {"baseline_strategy_created", "challenger_created"}
    BY <2>1, <2>5 DEF Replayed, IsMandate
  <2>6. CASE kind = "strategy_evaluation_completed"
    BY <2>1, <2>6 DEF Replayed, IsMandate
  <2>7. QED
    BY <2>2, <2>3, <2>4, <2>5, <2>6
<1>4. QED
  BY <1>2, <1>3

\* A replay of a journal goes on with the next event.
LEMMA ReplayExtended ==
    ASSUME NEW list \in Seq(Strategy), NEW new \in Seq(Strategy), Len(list) <= Len(new),
           \A i \in DOMAIN list : new[i].family = list[i].family,
           NEW journal \in Seq(JournalEvent), NEW e \in JournalEvent,
           \A i \in DOMAIN journal : IsMandate(journal[i]) => journal[i].strategy \in DOMAIN list,
           NEW r, IsReplay(list, journal, r),
           Replayed(new, Statuses(list), e) = Statuses(new)
    PROVE  \E q : IsReplay(new, Append(journal, e), q)
<1>1. PICK k \in Nat : k = Len(journal)
  BY LenProperties
<1>2. /\ DOMAIN journal = 1 .. k /\ Len(Append(journal, e)) = k + 1
      /\ Append(journal, e)[k + 1] = e
      /\ \A n \in 1 .. k : Append(journal, e)[n] = journal[n] /\ journal[n] \in JournalEvent
  BY <1>1, AppendedSeq, LenProperties, ElementOfSeq
<1>3. /\ \A i \in DOMAIN list : list[i] \in Strategy
      /\ DOMAIN list = 1 .. Len(list) /\ Len(list) \in Nat
      /\ \A i \in DOMAIN new : new[i] \in Strategy
      /\ DOMAIN new = 1 .. Len(new) /\ Len(new) \in Nat
  BY LenProperties, ElementOfSeq
<1>4. Statuses(new) \in StatusSeq /\ Len(Statuses(new)) = Len(new)
  <2>1. Statuses(new) \in [1 .. Len(new) -> StrategyStatus]
    BY <1>3 DEF Statuses, Strategy
  <2>2. QED
    BY <1>3, <2>1, MappedSeq DEF StatusSeq
<1>5. PICK q : q = [n \in 0 .. k + 1 |-> IF n = k + 1 THEN Statuses(new) ELSE r[n]]
  OBVIOUS
<1>6. /\ \A n \in 0 .. k : n \in 0 .. k + 1 /\ n # k + 1
      /\ \A n \in 0 .. k + 1 : n = k + 1 \/ n \in 0 .. k
      /\ k + 1 \in 0 .. k + 1 /\ k \in 0 .. k /\ 0 \in 0 .. k
  OBVIOUS
<1>7. q[k + 1] = Statuses(new) /\ \A n \in 0 .. k : q[n] = r[n]
  BY <1>5, <1>6
<1>8. /\ r \in [0 .. k -> StatusSeq] /\ r[0] = <<>> /\ r[k] = Statuses(list)
      /\ \A n \in 1 .. k : r[n] = Replayed(list, r[n - 1], journal[n])
      /\ \A n \in 0 .. k : Len(r[n]) <= Len(list)
  BY <1>1 DEF IsReplay
<1>9. q \in [0 .. k + 1 -> StatusSeq]
  <2>1. \A n \in 0 .. k + 1 : q[n] \in StatusSeq
    BY <1>4, <1>6, <1>7, <1>8
  <2>2. QED
    BY <1>5, <2>1
<1>10. ASSUME NEW n \in 1 .. k + 1
       PROVE  q[n] = Replayed(new, q[n - 1], Append(journal, e)[n])
  <2>1. CASE n = k + 1
    <3>1. n - 1 = k /\ q[k] = Statuses(list)
      BY <1>6, <1>7, <1>8, <2>1
    <3>2. QED
      BY <1>2, <1>7, <2>1, <3>1
  <2>2. CASE n # k + 1
    <3>1. n \in 1 .. k /\ n \in 0 .. k /\ n - 1 \in 0 .. k
      BY <2>2
    <3>2. q[n] = Replayed(list, r[n - 1], journal[n]) /\ q[n - 1] = r[n - 1]
      BY <1>7, <1>8, <3>1
    <3>3. r[n - 1] \in StatusSeq /\ Len(r[n - 1]) <= Len(list) /\ journal[n] \in JournalEvent
      BY <1>2, <1>8, <3>1
    <3>4. IsMandate(journal[n]) => journal[n].strategy \in DOMAIN list
      BY <1>2, <3>1
    <3>5. Replayed(new, r[n - 1], journal[n]) = Replayed(list, r[n - 1], journal[n])
      BY <3>3, <3>4, ReplayedSame
    <3>6. QED
      BY <1>2, <3>1, <3>2, <3>5
  <2>3. QED
    BY <2>1, <2>2
<1>11. ASSUME NEW n \in 0 .. k + 1 PROVE Len(q[n]) <= Len(new)
  <2>1. CASE n = k + 1
    BY <1>3, <1>4, <1>7, <2>1
  <2>2. CASE n \in 0 .. k
    <3>1. PICK a, b, c \in Nat : a = Len(r[n]) /\ b = Len(list) /\ c = Len(new)
      BY <1>3, <1>8, <2>2, LenProperties DEF StatusSeq
    <3>2. a <= b /\ b <= c
      BY <1>8, <2>2, <3>1
    <3>3. a <= c
      BY <3>2
    <3>4. QED
      BY <1>7, <2>2, <3>1, <3>3
  <2>3. QED
    BY <1>6, <2>1, <2>2
<1>12. q[0] = <<>>
  BY <1>6, <1>7, <1>8
<1>13. IsReplay(new, Append(journal, e), q)
  BY <1>2, <1>7, <1>9, <1>10, <1>11, <1>12 DEF IsReplay
<1>14. QED
  BY <1>13

\* Appending to the strategies appends to their statuses.
LEMMA StatusesAppended ==
    ASSUME NEW list \in Seq(Strategy), NEW s \in Strategy
    PROVE  Append(Statuses(list), s.status) = Statuses(Append(list, s))
<1>1. PICK n \in Nat : n = Len(list)
  BY LenProperties
<1>2. DOMAIN list = 1 .. n /\ \A i \in 1 .. n : list[i] \in Strategy
  BY <1>1, LenProperties, ElementOfSeq
<1>3. /\ DOMAIN Append(list, s) = 1 .. n + 1 /\ Append(list, s)[n + 1] = s
      /\ \A i \in 1 .. n : Append(list, s)[i] = list[i]
  BY <1>1, AppendedSeq
<1>4. Statuses(list) \in StatusSeq /\ Len(Statuses(list)) = n /\ s.status \in StrategyStatus
  <2>1. Statuses(list) \in [1 .. n -> StrategyStatus]
    BY <1>2 DEF Statuses, Strategy
  <2>2. QED
    BY <2>1, MappedSeq DEF StatusSeq, Strategy
<1>5. /\ Append(Statuses(list), s.status) \in StatusSeq
      /\ DOMAIN Append(Statuses(list), s.status) = 1 .. n + 1
      /\ Append(Statuses(list), s.status)[n + 1] = s.status
      /\ \A i \in 1 .. n : Append(Statuses(list), s.status)[i] = Statuses(list)[i]
  BY <1>4, AppendedSeq DEF StatusSeq
<1>6. PICK q, p : q = Append(Statuses(list), s.status) /\ p = Append(list, s)
  OBVIOUS
<1>7. q = [i \in 1 .. n + 1 |-> q[i]]
  BY <1>5, <1>6, LenProperties, SeqDef DEF StatusSeq
<1>8. Statuses(p) = [i \in 1 .. n + 1 |-> p[i].status]
  BY <1>3, <1>6 DEF Statuses
<1>9. ASSUME NEW i \in 1 .. n + 1 PROVE q[i] = p[i].status
  <2>1. CASE i = n + 1
    BY <1>3, <1>5, <1>6, <2>1
  <2>2. CASE i # n + 1
    <3>1. i \in 1 .. n
      BY <2>2
    <3>2. Statuses(list)[i] = list[i].status
      BY <1>2, <3>1 DEF Statuses
    <3>3. QED
      BY <1>3, <1>5, <1>6, <3>1, <3>2
  <2>3. QED
    BY <2>1, <2>2
<1>10. QED
  BY <1>6, <1>7, <1>8, <1>9

\* Every method journals what it does to the statuses.
LEMMA MethodReplays ==
    ASSUME GovernanceInv, Method
    PROVE  \E e \in JournalEvent :
              /\ events' = Append(events, e)
              /\ Replayed(strategies', Statuses(strategies), e) = Statuses(strategies')
<1>1. PICK e \in JournalEvent : _save(e)
  BY MethodJournals
<1>2. events' = Append(events, e) /\ events \in Seq(JournalEvent)
  BY <1>1 DEF _save, GovernanceInv, StoreInv, StoreTypeOK
<1>3. ASSUME NEW d, _save(d) PROVE d = e
  <2>1. Append(events, d) = Append(events, e)
    BY <1>2, <1>3 DEF _save
  <2>2. QED
    BY <1>2, <2>1
<1>4. \A k, s, b, q : _save(Event(k, s, b, q)) =>
          e.kind = k /\ e.strategy = s /\ e.passed = b /\ e.stale = q
  BY <1>3 DEF Event
<1>5. /\ strategies \in Seq(Strategy) /\ StoreTypeOK
      /\ \A i \in DOMAIN strategies : strategies[i] \in Strategy
  BY LenProperties, ElementOfSeq DEF GovernanceInv, StoreInv, StoreTypeOK
<1>6. PICK old : old = Statuses(strategies)
  OBVIOUS
<1>7. DOMAIN old = DOMAIN strategies /\ \A i \in DOMAIN strategies : old[i] = strategies[i].status
  BY <1>6 DEF Statuses
<1>8. ASSUME NEW n \in Nat, create_profile(n)
      PROVE  Replayed(strategies', old, e) = Statuses(strategies')
  <2>1. e.kind = "trader_profile_generated" /\ strategies' = strategies
    BY <1>4, <1>8 DEF create_profile
  <2>2. QED
    BY <1>6, <2>1, ReplayedKinds
<1>9. ASSUME NEW p \in DOMAIN profiles, NEW n \in Nat, edit_profile(p, n)
      PROVE  Replayed(strategies', old, e) = Statuses(strategies')
  <2>1. /\ e.kind = "trader_profile_edited" /\ e.stale = Dependents(p)
        /\ strategies' = Restated(Dependents(p), "stale")
    BY <1>4, <1>9 DEF edit_profile
  <2>2. Replayed(strategies', old, e) =
            [i \in DOMAIN strategies |-> IF i \in Dependents(p) THEN "stale" ELSE old[i]]
    BY <1>7, <2>1 DEF Replayed, IsMandate
  <2>3. Statuses(strategies') =
            [i \in DOMAIN strategies |-> IF i \in Dependents(p) THEN "stale" ELSE old[i]]
    BY <1>5, <1>7, <2>1 DEF Statuses, Restated, Strategy
  <2>4. QED
    BY <2>2, <2>3
<1>10. ASSUME NEW s \in Strategy, s.status \in {"baseline_draft", "challenger"}, create_strategy(s)
       PROVE  Replayed(strategies', old, e) = Statuses(strategies')
  <2>1. /\ strategies' = Append(strategies, s)
        /\ e.kind = IF s.status = "baseline_draft" THEN "baseline_strategy_created"
                    ELSE "challenger_created"
    BY <1>4, <1>10 DEF create_strategy
  <2>2. Replayed(strategies', old, e) = Append(old, s.status)
    BY <1>10, <2>1 DEF Replayed, IsMandate
  <2>3. QED
    BY <1>5, <1>6, <2>1, <2>2, StatusesAppended
<1>11. ASSUME NEW s \in DOMAIN strategies, NEW m \in Metrics, evaluate(s, m)
       PROVE  Replayed(strategies', old, e) = Statuses(strategies')
  <2>1. PICK passed \in BOOLEAN :
          passed = (promotion_blockers(SampleCount(m, strategies[s].profile), m.risks) = {})
    OBVIOUS
  <2>2. /\ e.kind = "strategy_evaluation_completed" /\ e.strategy = s /\ e.passed = passed
        /\ strategies' = IF strategies[s].status = "baseline_draft" THEN strategies
                         ELSE [strategies EXCEPT ![s].status =
                                  IF passed THEN "ready_for_review" ELSE "challenger"]
    BY <1>4, <1>11, <2>1 DEF evaluate
  <2>3. Replayed(strategies', old, e) =
            [i \in DOMAIN strategies |->
                IF i # s \/ old[i] = "baseline_draft" THEN old[i]
                ELSE IF passed THEN "ready_for_review" ELSE "challenger"]
    BY <1>7, <2>2 DEF Replayed, IsMandate
  <2>4. /\ DOMAIN strategies' = DOMAIN strategies
        /\ \A i \in DOMAIN strategies : strategies'[i].status =
                IF i # s \/ old[i] = "baseline_draft" THEN old[i]
                ELSE IF passed THEN "ready_for_review" ELSE "challenger"
    BY <1>5, <1>7, <2>2 DEF Strategy
  <2>5. QED
    BY <2>3, <2>4 DEF Statuses
<1>12. ASSUME NEW s \in DOMAIN strategies, request_promotion(s)
       PROVE  Replayed(strategies', old, e) = Statuses(strategies')
  <2>1. e.kind = "promotion_recommended" /\ strategies' = strategies
    BY <1>4, <1>12 DEF request_promotion
  <2>2. QED
    BY <1>6, <2>1, ReplayedKinds
<1>13. ASSUME NEW s \in DOMAIN strategies, strategies' = Installed(s), IsMandate(e), e.strategy = s
       PROVE  Replayed(strategies', old, e) = Statuses(strategies')
  <2>1. /\ DOMAIN strategies' = DOMAIN strategies
        /\ \A i \in DOMAIN strategies :
              /\ strategies'[i].family = strategies[i].family
              /\ strategies'[i].status =
                    IF i = s THEN "champion"
                    ELSE IF /\ strategies[i].status = "champion"
                            /\ strategies[i].family = strategies[s].family
                         THEN "retired" ELSE strategies[i].status
    BY <1>5, <1>13 DEF Installed, Restated, Champions, Strategy
  <2>2. Replayed(strategies', old, e) =
            [i \in DOMAIN strategies |->
                IF i = s THEN "champion"
                ELSE IF old[i] = "champion" /\ strategies'[i].family = strategies'[s].family
                     THEN "retired" ELSE old[i]]
    BY <1>7, <1>13 DEF Replayed, IsMandate
  <2>3. \A i \in DOMAIN strategies : strategies'[i].status =
                IF i = s THEN "champion"
                ELSE IF old[i] = "champion" /\ strategies'[i].family = strategies'[s].family
                     THEN "retired" ELSE old[i]
    BY <1>7, <2>1
  <2>4. QED
    BY <2>1, <2>2, <2>3 DEF Statuses
<1>14. ASSUME NEW r \in DOMAIN promotions, confirm_promotion(r)
       PROVE  Replayed(strategies', old, e) = Statuses(strategies')
  <2>1. PICK s \in DOMAIN strategies : s = promotions[r].strategy
    BY DEF GovernanceInv, StoreInv, ReferencesKnown
  <2>2. e.kind = "champion_promoted" /\ e.strategy = s /\ strategies' = Installed(s)
    BY <1>4, <1>14, <2>1 DEF confirm_promotion
  <2>3. QED
    BY <1>13, <2>2 DEF IsMandate
<1>15. ASSUME NEW s \in DOMAIN strategies, rollback(s)
       PROVE  Replayed(strategies', old, e) = Statuses(strategies')
  <2>1. e.kind = "champion_rolled_back" /\ e.strategy = s /\ strategies' = Installed(s)
    BY <1>4, <1>15 DEF rollback
  <2>2. QED
    BY <1>13, <2>1 DEF IsMandate
<1>16. QED
  BY <1>2, <1>6, <1>8, <1>9, <1>10, <1>11, <1>12, <1>14, <1>15 DEF Method

LEMMA ReplayKept ==
    ASSUME GovernanceInv, GovernanceInv', ReplayInv, [Next]_vars
    PROVE  ReplayInv'
<1>1. CASE UNCHANGED store
  BY <1>1 DEF store, ReplayInv
<1>2. CASE Method
  <2>1. PICK e \in JournalEvent :
          /\ events' = Append(events, e)
          /\ Replayed(strategies', Statuses(strategies), e) = Statuses(strategies')
    BY <1>2, MethodReplays
  <2>2. PICK r : IsReplay(strategies, events, r)
    BY DEF ReplayInv
  <2>3. /\ strategies \in Seq(Strategy) /\ strategies' \in Seq(Strategy)
        /\ events \in Seq(JournalEvent) /\ Len(strategies) <= Len(strategies')
        /\ \A i \in DOMAIN events : IsMandate(events[i]) => events[i].strategy \in DOMAIN strategies
    BY <1>2, MethodKeeps DEF GovernanceInv, StoreInv, StoreTypeOK, ReferencesKnown
  <2>4. ASSUME NEW i \in DOMAIN strategies PROVE strategies'[i].family = strategies[i].family
    <3>1. Lineage(strategies'[i]) = Lineage(strategies[i]) /\ strategies[i] \in Strategy
      BY <1>2, <2>3, MethodKeeps, LenProperties, ElementOfSeq
    <3>2. i \in DOMAIN strategies'
      <4>1. PICK a, b \in Nat : a = Len(strategies) /\ b = Len(strategies')
        BY <2>3, LenProperties
      <4>2. DOMAIN strategies = 1 .. a /\ DOMAIN strategies' = 1 .. b /\ a <= b
        BY <2>3, <4>1, LenProperties
      <4>3. QED
        BY <4>1, <4>2
    <3>3. strategies'[i] \in Strategy
      BY <2>3, <3>2, LenProperties, ElementOfSeq
    <3>4. \A x, y \in Strategy : Lineage(x) = Lineage(y) => x.family = y.family
      BY DEF Lineage, Strategy
    <3>5. QED
      BY <3>1, <3>3, <3>4
  <2>5. \E q : IsReplay(strategies', Append(events, e), q)
    BY <2>1, <2>2, <2>3, <2>4, ReplayExtended
  <2>6. QED
    BY <2>1, <2>5 DEF ReplayInv
<1>3. QED
  BY <1>1, <1>2, NextMethod

LEMMA ReplayInit ==
    ASSUME Init
    PROVE  ReplayInv
<1>1. strategies = <<>> /\ events = <<>> /\ Len(events) = 0 /\ Len(strategies) = 0
  BY DEF Init
<1>2. PICK r : r = [n \in 0 .. 0 |-> <<>>]
  OBVIOUS
<1>3. <<>> \in StatusSeq /\ Len(<<>>) = 0 /\ Statuses(<<>>) = <<>>
  <2>1. Statuses(<<>>) = <<>>
    BY DEF Statuses
  <2>2. QED
    BY <2>1, EmptySeq DEF StatusSeq
<1>4. IsReplay(strategies, events, r)
  BY <1>1, <1>2, <1>3 DEF IsReplay
<1>5. QED
  BY <1>4 DEF ReplayInv

\* There is one way to replay a journal.
LEMMA ReplayValue ==
    ASSUME NEW list, NEW journal \in Seq(JournalEvent), NEW r, IsReplay(list, journal, r)
    PROVE  Replay(list, journal) = Statuses(list)
<1>1. PICK k \in Nat : k = Len(journal)
  BY LenProperties
<1> DEFINE F(f) == [n \in 0 .. k |-> IF n = 0 THEN <<>> ELSE Replayed(list, f[n - 1], journal[n])]
<1>2. r = F(r)
  <2>1. r = [n \in 0 .. k |-> r[n]]
    BY <1>1 DEF IsReplay
  <2>2. \A n \in 0 .. k : r[n] = IF n = 0 THEN <<>> ELSE Replayed(list, r[n - 1], journal[n])
    <3> SUFFICES ASSUME NEW n \in 0 .. k
                 PROVE  r[n] = IF n = 0 THEN <<>> ELSE Replayed(list, r[n - 1], journal[n])
      OBVIOUS
    <3>1. n = 0 \/ n \in 1 .. k
      OBVIOUS
    <3>2. QED
      BY <1>1, <3>1 DEF IsReplay
  <2>3. QED
    BY <2>1, <2>2
<1>3. PICK p : p = CHOOSE f : f = F(f)
  OBVIOUS
<1>4. p = F(p)
  BY <1>2, <1>3
<1>5. Replay(list, journal) = p[k]
  BY <1>1, <1>3 DEF Replay
<1>6. \A n \in 0 .. k : p[n] = IF n = 0 THEN <<>> ELSE Replayed(list, p[n - 1], journal[n])
  BY <1>4
<1>7. \A n \in 0 .. k : r[n] = IF n = 0 THEN <<>> ELSE Replayed(list, r[n - 1], journal[n])
  BY <1>2
<1> HIDE DEF F
<1>8. p[k] = r[k]
  <2> DEFINE T == {n \in Nat : n \in 0 .. k /\ p[n] # r[n]}
             R == {ss \in Nat \X Nat : ss[1] < ss[2]}
  <2>1. IsWellFoundedOn(R, Nat)
    BY NatLessThanWellFounded DEF OpToRel
  <2> HIDE DEF R
  <2>2. ASSUME T # {} PROVE FALSE
    <3>1. T \subseteq Nat
      OBVIOUS
    <3>2. PICK n \in T : \A m \in T : ~(<<m, n>> \in R)
      BY <2>1, <2>2, <3>1, WFMin
    <3>3. n \in 0 .. k /\ p[n] # r[n] /\ n # 0
      BY <1>6, <1>7
    <3>4. n - 1 \in 0 .. k /\ n - 1 \in Nat /\ n - 1 < n
      BY <3>3
    <3>5. <<n - 1, n>> \in R
      BY <3>3, <3>4 DEF R
    <3>6. p[n - 1] = r[n - 1]
      BY <3>2, <3>4, <3>5
    <3>7. QED
      BY <1>6, <1>7, <3>3, <3>6
  <2>3. k \in 0 .. k
    OBVIOUS
  <2>4. QED
    BY <2>2, <2>3
<1>9. QED
  BY <1>1, <1>5, <1>8 DEF IsReplay

\* The journal explains the status of every strategy: replaying its events in order
\* gives what the strategies say, after any number of steps of any number of requests.
THEOREM StatusesExplained == Spec => []JournalExplainsStatus
<1>1. Init => ReplayInv
  BY ReplayInit
<1>2. GovernanceInv /\ GovernanceInv' /\ ReplayInv /\ [Next]_vars => ReplayInv'
  BY ReplayKept
<1>3. GovernanceInv /\ ReplayInv => JournalExplainsStatus
  <2> SUFFICES ASSUME GovernanceInv, ReplayInv PROVE JournalExplainsStatus
    OBVIOUS
  <2>1. PICK r : IsReplay(strategies, events, r)
    BY DEF ReplayInv
  <2>2. events \in Seq(JournalEvent)
    BY DEF GovernanceInv, StoreInv, StoreTypeOK
  <2>3. QED
    BY <2>1, <2>2, ReplayValue DEF JournalExplainsStatus
<1>4. QED
  BY <1>1, <1>2, <1>3, GovernanceInvariant, PTL DEF Spec
================================================================================
