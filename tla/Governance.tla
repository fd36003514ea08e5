------------------------------ MODULE Governance ------------------------------
(***************************************************************************)
(* GovernanceStore (governance.py): the local journal of trader profiles,  *)
(* strategies, evaluations and promotions, kept in one JSON file.          *)
(*                                                                         *)
(* Every public method loads the file, changes it and saves it under one   *)
(* lock, so it is one action here.  Two methods are not: the first-import  *)
(* baseline and the chat challenger release the lock between their calls,  *)
(* and the HTTP server runs each request on a thread of its own.  They are *)
(* a program counter and locals per request thread.                        *)
(*                                                                         *)
(* A profile or strategy is named by its version, which the code sets to   *)
(* the length of the list plus one: it is its position in the sequence.    *)
(***************************************************************************)
EXTENDS Naturals, Sequences, FiniteSets

CONSTANTS
    Threads,        \* request threads of the HTTP server
    Families,       \* strategy families a request may name
    General,        \* the family used when none is named
    SampleCounts,   \* sample counts an import or a metrics payload may carry
    RiskReasons,    \* promotion blockers other than the sample count
    Absent,         \* a metrics payload names no sample count
    MinSamples,     \* samples a promotion needs (20 in registry.py)
    MaxEvents       \* bound: the events of a run, hence the saves

ASSUME GovernanceAssumption ==
    /\ General \in Families
    /\ SampleCounts \subseteq Nat
    /\ Absent \notin Nat
    /\ MinSamples \in Nat
    /\ MaxEvents \in Nat
    /\ "sample_count" \notin RiskReasons

VARIABLES
    profiles,       \* sequence of profiles, the version is the index
    strategies,     \* sequence of strategies, the version is the index
    evaluations,    \* sequence of evaluations
    promotions,     \* sequence of promotion requests
    events,         \* sequence of journal events
    torn,           \* the process died while the file was being rewritten
    request         \* thread -> the multi-call request it is serving

store == <<profiles, strategies, evaluations, promotions, events>>
vars == <<profiles, strategies, evaluations, promotions, events, torn, request>>

None == 0           \* None as a profile, a strategy or an evaluation

ProfileStatus == {"current", "superseded"}
StrategyStatus == {"baseline_draft", "challenger", "ready_for_review",
                   "champion", "retired", "stale"}
EventKind == {"trader_profile_generated", "trader_profile_edited",
              "baseline_strategy_created", "challenger_created",
              "strategy_evaluation_completed", "promotion_recommended",
              "champion_promoted", "champion_rolled_back"}

Metrics == [samples : SampleCounts \cup {Absent}, risks : SUBSET RiskReasons]
NoMetrics == [samples |-> Absent, risks |-> {}]

Idle == [pc |-> "idle", origin |-> "chat", family |-> General,
         parent |-> None, profile |-> None, strategy |-> None]

-------------------------------------------------------------------------------
(* Helpers *)

Latest(positions) ==
    IF positions = {} THEN None
    ELSE CHOOSE i \in positions : \A j \in positions : j <= i

\* profiles() reversed, first with status current
CurrentProfile == Latest({i \in DOMAIN profiles : profiles[i].status = "current"})

\* Mutated form: the champion lookup ignores the family.
ChampionsOfAnyFamily(family) ==
    {i \in DOMAIN strategies : strategies[i].status = "champion"}

Champions(family) ==
    {i \in DOMAIN strategies :
        strategies[i].status = "champion" /\ strategies[i].family = family}

Champion(family) ==
    IF Champions(family) = {} THEN None
    ELSE CHOOSE i \in Champions(family) : \A j \in Champions(family) : i <= j

\* Mutated form: the newest evaluation of any strategy.
IsNewestEvaluation(evaluation, strategy) == evaluation = Len(evaluations)

\* evaluations reversed, first of this strategy
IsLatestEvaluation(evaluation, strategy) ==
    /\ evaluations[evaluation].strategy = strategy
    /\ \A e \in DOMAIN evaluations : e > evaluation => evaluations[e].strategy # strategy

HasFirstImport == \E s \in DOMAIN strategies : strategies[s].origin = "first_import"

SampleCount(metrics, profile) ==
    IF metrics.samples # Absent THEN metrics.samples
    ELSE IF profile = None THEN 0 ELSE profiles[profile].samples

\* registry.promotion_blockers
promotion_blockers(samples, risks) ==
    (IF samples < MinSamples THEN {"sample_count"} ELSE {}) \cup risks

\* strategies with the status of some of them rewritten
Restated(positions, status) ==
    [i \in DOMAIN strategies |->
        IF i \in positions THEN [strategies[i] EXCEPT !.status = status]
                           ELSE strategies[i]]

\* Mutated form: the family's former champion keeps its status.
InstalledBeside(strategy) ==
    [strategies EXCEPT ![strategy].status = "champion"]

\* Mutated form: the champions of every family retire.
InstalledOverAll(strategy) ==
    [i \in DOMAIN strategies |->
        IF i = strategy THEN [strategies[i] EXCEPT !.status = "champion"]
        ELSE IF strategies[i].status = "champion"
             THEN [strategies[i] EXCEPT !.status = "retired"] ELSE strategies[i]]

\* confirm_promotion and rollback: the family's champions retire, this one reigns
Installed(strategy) ==
    [i \in DOMAIN strategies |->
        IF i = strategy THEN [strategies[i] EXCEPT !.status = "champion"]
        ELSE Restated(Champions(strategies[strategy].family), "retired")[i]]

\* edit_profile: the strategies a new version of this profile makes stale
Dependents(profile) ==
    {i \in DOMAIN strategies : /\ strategies[i].profile = profile
                               /\ strategies[i].status \notin {"retired", "stale"}}

\* _event: the part of the payload that decides a strategy's status
Event(kind, strategy, passed, stale) ==
    [kind |-> kind, strategy |-> strategy, passed |-> passed, stale |-> stale]

\* Mutated form: a file that does not parse reads as an empty journal.
ReadableAlways == TRUE

\* A file cut short is not JSON: _load raises and the request fails.
Readable == ~torn

_save(event) ==
    /\ Len(events) < MaxEvents
    /\ events' = Append(events, event)
    /\ torn' = torn

-------------------------------------------------------------------------------
(* The methods that hold the lock throughout *)

\* Mutated form: the former current profile keeps its status.
SupersededKeepsCurrent == profiles

\* Mutated form: older profiles go back to draft.
SupersededAsDraft ==
    [i \in DOMAIN profiles |-> [profiles[i] EXCEPT !.status = "draft"]]

Superseded ==
    [i \in DOMAIN profiles |-> [profiles[i] EXCEPT !.status = "superseded"]]

create_profile(samples) ==
    /\ Readable
    /\ profiles' = Append(Superseded, [status |-> "current", samples |-> samples])
    /\ _save(Event("trader_profile_generated", None, FALSE, {}))
    /\ UNCHANGED <<strategies, evaluations, promotions>>

\* Mutated form: the edit does not journal which strategies it made stale.
edit_profile_unlisted(profile, samples) ==
    /\ Readable
    /\ profile \in DOMAIN profiles
    /\ profiles' = Append(Superseded, [status |-> "current", samples |-> samples])
    /\ strategies' = Restated(Dependents(profile), "stale")
    /\ _save(Event("trader_profile_edited", None, FALSE, {}))
    /\ UNCHANGED <<evaluations, promotions>>

\* The patch may carry a sample count; any version, not only the current one,
\* may be edited.
edit_profile(profile, samples) ==
    /\ Readable
    /\ profile \in DOMAIN profiles
    /\ profiles' = Append(Superseded, [status |-> "current", samples |-> samples])
    /\ strategies' = Restated(Dependents(profile), "stale")
    /\ _save(Event("trader_profile_edited", None, FALSE, Dependents(profile)))
    /\ UNCHANGED <<evaluations, promotions>>

create_strategy(strategy) ==
    /\ Readable
    /\ strategies' = Append(strategies, strategy)
    /\ _save(Event(IF strategy.status = "baseline_draft"
                   THEN "baseline_strategy_created" ELSE "challenger_created",
                   Len(strategies) + 1, FALSE, {}))
    /\ UNCHANGED <<profiles, evaluations, promotions>>

\* Mutated form: a passed evaluation promotes a strategy on its own.
evaluate_promotes(strategy, metrics) ==
    LET samples == SampleCount(metrics, strategies[strategy].profile)
        passed == promotion_blockers(samples, metrics.risks) = {}
    IN  /\ Readable
        /\ strategy \in DOMAIN strategies
        /\ evaluations' = Append(evaluations, [strategy |-> strategy, passed |-> passed])
        /\ strategies' = IF passed THEN Installed(strategy) ELSE strategies
        /\ _save(Event("strategy_evaluation_completed", strategy, passed, {}))
        /\ UNCHANGED <<profiles, promotions>>

evaluate(strategy, metrics) ==
    LET samples == SampleCount(metrics, strategies[strategy].profile)
        passed == promotion_blockers(samples, metrics.risks) = {}
    IN  /\ Readable
        /\ strategy \in DOMAIN strategies
        /\ evaluations' = Append(evaluations, [strategy |-> strategy, passed |-> passed])
        /\ strategies' =
               IF strategies[strategy].status = "baseline_draft" THEN strategies
               ELSE [strategies EXCEPT ![strategy].status =
                         IF passed THEN "ready_for_review" ELSE "challenger"]
        /\ _save(Event("strategy_evaluation_completed", strategy, passed, {}))
        /\ UNCHANGED <<profiles, promotions>>

request_promotion(strategy) ==
    /\ Readable
    /\ strategy \in DOMAIN strategies
    /\ \E e \in DOMAIN evaluations :
           /\ IsLatestEvaluation(e, strategy)
           /\ evaluations[e].passed
           /\ promotions' = Append(promotions, [strategy |-> strategy,
                                                evaluation |-> e,
                                                status |-> "pending_confirmation"])
    /\ _save(Event("promotion_recommended", strategy, TRUE, {}))
    /\ UNCHANGED <<profiles, strategies, evaluations>>

\* A blank note is refused before the lock is taken and changes nothing.
confirm_promotion(promotion) ==
    /\ Readable
    /\ promotion \in DOMAIN promotions
    /\ evaluations[promotions[promotion].evaluation].passed
    /\ strategies' = Installed(promotions[promotion].strategy)
    /\ promotions' = [promotions EXCEPT ![promotion].status = "confirmed"]
    /\ _save(Event("champion_promoted", promotions[promotion].strategy, TRUE, {}))
    /\ UNCHANGED <<profiles, evaluations>>

rollback(strategy) ==
    /\ Readable
    /\ strategy \in DOMAIN strategies
    /\ strategies' = Installed(strategy)
    /\ _save(Event("champion_rolled_back", strategy, FALSE, {}))
    /\ UNCHANGED <<profiles, evaluations, promotions>>

-------------------------------------------------------------------------------
(* The requests that take the lock several times.  What a request carries and  *)
(* uses once (the sample count of an import, the metrics of a challenger) is   *)
(* chosen where it is used.                                                    *)

\* create_baseline_from_import, the locked check.  When the baseline and a
\* profile exist the call returns them and changes nothing.
StartImport(t) ==
    /\ Readable
    /\ request[t].pc = "idle"
    /\ ~(HasFirstImport /\ CurrentProfile # None)
    /\ request' = [request EXCEPT ![t] =
           [Idle EXCEPT !.pc = IF CurrentProfile = None THEN "create_profile"
                                                        ELSE "create_strategy",
                        !.origin = "first_import",
                        !.profile = CurrentProfile]]
    /\ UNCHANGED <<store, torn>>

ImportProfile(t, samples) ==
    /\ request[t].pc = "create_profile"
    /\ create_profile(samples)
    /\ request' = [request EXCEPT ![t] =
           [request[t] EXCEPT !.pc = "create_strategy", !.profile = Len(profiles) + 1]]

\* create_challenger_from_chat reads the champion, then the profile, each
\* under the lock but neither with the write that follows.
StartChallenger(t, family) ==
    /\ Readable
    /\ request[t].pc = "idle"
    /\ request' = [request EXCEPT ![t] =
           [Idle EXCEPT !.pc = "read_profile", !.family = family,
                        !.parent = Champion(family)]]
    /\ UNCHANGED <<store, torn>>

ReadProfile(t) ==
    /\ Readable
    /\ request[t].pc = "read_profile"
    /\ request' = [request EXCEPT ![t] =
           [request[t] EXCEPT !.pc = "create_strategy", !.profile = CurrentProfile]]
    /\ UNCHANGED <<store, torn>>

CreateStrategy(t) ==
    /\ request[t].pc = "create_strategy"
    /\ create_strategy([profile |-> request[t].profile,
                        parent |-> request[t].parent,
                        family |-> request[t].family,
                        origin |-> request[t].origin,
                        status |-> IF request[t].origin = "first_import"
                                   THEN "baseline_draft" ELSE "challenger"])
    /\ request' = [request EXCEPT ![t] =
           [request[t] EXCEPT !.pc = "evaluate", !.strategy = Len(strategies) + 1]]

EvaluateNew(t, metrics) ==
    /\ request[t].pc = "evaluate"
    /\ request[t].origin = "first_import" => metrics = NoMetrics
    /\ evaluate(request[t].strategy, metrics)
    /\ request' = [request EXCEPT ![t] = Idle]

-------------------------------------------------------------------------------
(* The direct requests, and the end of the process *)

EditProfile(profile, samples) ==
    edit_profile(profile, samples) /\ UNCHANGED request

EvaluateStrategy(strategy, metrics) ==
    evaluate(strategy, metrics) /\ UNCHANGED request

RequestPromotion(strategy) ==
    request_promotion(strategy) /\ UNCHANGED request

ConfirmPromotion(promotion) ==
    confirm_promotion(promotion) /\ UNCHANGED request

Rollback(strategy) ==
    rollback(strategy) /\ UNCHANGED request

\* The process ends and starts again: the file stays, the requests are gone.
Restart ==
    /\ request' = [t \in Threads |-> Idle]
    /\ UNCHANGED <<store, torn>>

\* The process ends inside write_text, which truncates the file first: what is
\* left is no JSON.  The store then keeps what the file said before.
TornSave ==
    /\ Readable
    /\ torn' = TRUE
    /\ request' = [t \in Threads |-> Idle]
    /\ UNCHANGED store

-------------------------------------------------------------------------------
Init ==
    /\ profiles = <<>>
    /\ strategies = <<>>
    /\ evaluations = <<>>
    /\ promotions = <<>>
    /\ events = <<>>
    /\ torn = FALSE
    /\ request = [t \in Threads |-> Idle]

ThreadStep(t) ==
    \/ StartImport(t)
    \/ \E n \in SampleCounts : ImportProfile(t, n)
    \/ \E f \in Families : StartChallenger(t, f)
    \/ ReadProfile(t)
    \/ CreateStrategy(t)
    \/ \E m \in Metrics : EvaluateNew(t, m)

DirectStep ==
    \/ \E p \in DOMAIN profiles, n \in SampleCounts : EditProfile(p, n)
    \/ \E s \in DOMAIN strategies, m \in Metrics : EvaluateStrategy(s, m)
    \/ \E s \in DOMAIN strategies : RequestPromotion(s)
    \/ \E r \in DOMAIN promotions : ConfirmPromotion(r)
    \/ \E s \in DOMAIN strategies : Rollback(s)

Next ==
    \/ \E t \in Threads : ThreadStep(t)
    \/ DirectStep
    \/ Restart
    \/ TornSave

Spec == Init /\ [][Next]_vars

-------------------------------------------------------------------------------
(* Correctness *)

Profile == [status : ProfileStatus, samples : Nat]
Strategy == [profile : Nat, parent : Nat, family : Families,
             origin : {"first_import", "chat"}, status : StrategyStatus]
Evaluation == [strategy : Nat, passed : BOOLEAN]
Promotion == [strategy : Nat, evaluation : Nat,
              status : {"pending_confirmation", "confirmed"}]
JournalEvent == [kind : EventKind, strategy : Nat, passed : BOOLEAN, stale : SUBSET Nat]
Request == [pc : {"idle", "create_profile", "read_profile", "create_strategy", "evaluate"},
            origin : {"first_import", "chat"}, family : Families,
            parent : Nat, profile : Nat, strategy : Nat]

\* Type invariant: the shape of the journal file and of the requests in flight.
TypeOK ==
    /\ profiles \in Seq(Profile)
    /\ strategies \in Seq(Strategy)
    /\ evaluations \in Seq(Evaluation)
    /\ promotions \in Seq(Promotion)
    /\ events \in Seq(JournalEvent)
    /\ torn \in BOOLEAN
    /\ request \in [Threads -> Request]

AtMostOneChampion ==
    \A i, j \in DOMAIN strategies :
        /\ strategies[i].status = "champion"
        /\ strategies[j].status = "champion"
        /\ strategies[i].family = strategies[j].family
        => i = j

\* Once there is a profile exactly one version is current and it is the newest,
\* also when an import on another thread or an edit of an old version made it.
NewestProfileIsCurrent ==
    \A i \in DOMAIN profiles :
        profiles[i].status = "current" <=> i = Len(profiles)

IsMandate(event) == event.kind \in {"champion_promoted", "champion_rolled_back"}

Mandates(family) ==
    {i \in DOMAIN events : /\ IsMandate(events[i])
                           /\ strategies[events[i].strategy].family = family}

LastMandate(family) ==
    IF Mandates(family) = {} THEN None ELSE events[Latest(Mandates(family))].strategy

IsMandated(s) ==
    \E i \in Mandates(strategies[s].family) :
        /\ events[i].strategy = s
        /\ \A j \in Mandates(strategies[s].family) : j <= i

ChampionHasMandate ==
    \A s \in DOMAIN strategies : strategies[s].status = "champion" => IsMandated(s)

\* Whatever confirmations, rollbacks, evaluations and profile edits meet: a family never
\* has two champions, and the journal accounts for the one it has, by the last promotion
\* or rollback of the family.
OneMandatedChampion == AtMostOneChampion /\ ChampionHasMandate

\* A promotion in the journal comes after a recommendation of that strategy, and
\* the recommendation after an evaluation of it that passed.
PromotionHasEvidence ==
    \A i \in DOMAIN events : events[i].kind = "champion_promoted" =>
        \E j, k \in 1..(i - 1) :
            /\ k < j
            /\ events[j].kind = "promotion_recommended"
            /\ events[k].kind = "strategy_evaluation_completed"
            /\ events[k].passed
            /\ events[j].strategy = events[i].strategy
            /\ events[k].strategy = events[i].strategy

\* The parent a chat challenger records, read in an earlier critical section
\* than the write, had been made champion of the challenger's own family by
\* the time the challenger was created.
ParentWasChampion ==
    \A i \in DOMAIN events : events[i].kind = "challenger_created" =>
        LET s == events[i].strategy
            p == strategies[s].parent
        IN  p # None =>
                /\ p < s
                /\ strategies[p].family = strategies[s].family
                /\ \E j \in 1..(i - 1) : IsMandate(events[j]) /\ events[j].strategy = p

\* Neither a promotion nor a challenger's parent comes out of nothing.
PromotionsAreEarned == PromotionHasEvidence /\ ParentWasChampion

\* What one event does to the statuses the journal has built up so far.
Replayed(list, status, event) ==
    LET s == event.strategy
    IN  CASE event.kind = "baseline_strategy_created" -> Append(status, "baseline_draft")
          [] event.kind = "challenger_created" -> Append(status, "challenger")
          [] event.kind = "trader_profile_edited" ->
                [i \in DOMAIN status |-> IF i \in event.stale THEN "stale" ELSE status[i]]
          [] event.kind = "strategy_evaluation_completed" ->
                [i \in DOMAIN status |->
                    IF i # s \/ status[i] = "baseline_draft" THEN status[i]
                    ELSE IF event.passed THEN "ready_for_review" ELSE "challenger"]
          [] IsMandate(event) ->
                [i \in DOMAIN status |->
                    IF i = s THEN "champion"
                    ELSE IF status[i] = "champion" /\ list[i].family = list[s].family
                         THEN "retired" ELSE status[i]]
          [] OTHER -> status

\* The statuses a journal builds up; the strategies give the families only.
Replay(list, journal) ==
    LET replay[n \in 0..Len(journal)] ==
            IF n = 0 THEN <<>> ELSE Replayed(list, replay[n - 1], journal[n])
    IN  replay[Len(journal)]

Statuses(list) == [s \in DOMAIN list |-> list[s].status]

\* The journal alone tells the status of every strategy: replaying the events in
\* order gives what the strategies say, so no handler changes a status without
\* journalling it.
JournalExplainsStatus == Replay(strategies, events) = Statuses(strategies)

IsExtended(old, new) == Len(old) <= Len(new) /\ \A i \in DOMAIN old : new[i] = old[i]

Lineage(s) == [s EXCEPT !.status = "any"]

\* The journal is append-only and what it records immutable: events and
\* evaluations are never rewritten, profiles and strategies change in status
\* only, a confirmed promotion stays confirmed, and a torn file is never
\* replaced by a fresh one.
JournalOnlyGrows ==
    [][ /\ torn => UNCHANGED <<store, torn>>
        /\ IsExtended(events, events')
        /\ IsExtended(evaluations, evaluations')
        /\ \A i \in DOMAIN profiles : profiles'[i].samples = profiles[i].samples
        /\ \A i \in DOMAIN strategies :
               Lineage(strategies'[i]) = Lineage(strategies[i])
        /\ \A i \in DOMAIN promotions :
               promotions'[i] \in {promotions[i],
                                   [promotions[i] EXCEPT !.status = "confirmed"]}
      ]_vars

\* Strategy governance implements the champion register.
Register == INSTANCE ChampionRegister
                WITH Strategies <- 1..MaxEvents,
                     champion <- [f \in Families |-> Champion(f)],
                     mandate <- [f \in Families |-> LastMandate(f)]
ImplementsRegister == Register!RegisterSpec

-------------------------------------------------------------------------------
(* What documents say and the code does not do *)

\* docs/harness-contract.md:33: "Challenger rules become champion only after
\* metrics pass and confirmation is explicit."
ChampionHasPassed ==
    \A s \in DOMAIN strategies :
        strategies[s].status = "champion" =>
            \E e \in DOMAIN evaluations :
                evaluations[e].strategy = s /\ evaluations[e].passed

\* docs/integrations.md:19: "Champion mutation requires explicit human
\* confirmation": a step that changes a family's champion journals a mandate.
ChampionMutationIsConfirmed ==
    [][ (\E f \in Families : Champion(f)' # Champion(f)) =>
            Len(events') > Len(events) /\ IsMandate(events'[Len(events')]) ]_vars
================================================================================
