---------------------------- MODULE ReviewPackage ----------------------------
(***************************************************************************)
(* The guided review of a session (agent/runtime.py, review_contracts.py,  *)
(* review_validation.py): what the local analysis says is previewed and    *)
(* confirmed as a redacted envelope, which is shown to a sidecar           *)
(* (agent/dsh_bridge.py), and a plugin's package is recorded.  A session   *)
(* has a context, which requests read and write back as a whole, and a log *)
(* that they append to; each of these is a step of its own, and requests   *)
(* run side by side.  The process may be killed.  No turn runs here.       *)
(***************************************************************************)
EXTENDS Redaction

CONSTANTS Client,    \* threads of the HTTP server
          Analyses,  \* what the local analysis may say
          Packages,  \* what plugins hand over, as it is sent
          Focus,     \* round trips that a session may be about
          NoFocus,
          MaxReviews, MaxAsked, MaxBreaks \* bounds: sessions, requests, kills

\* The keys of what the local analysis says: none names a file, and none has two rules.
\* A time is a number, 0 one that has no zone or cannot be read.
ASSUME ReviewAssumption ==
    /\ \A payload \in Analyses : \A leaf \in payload :
        /\ leaf \in Leaf
        /\ Unmaskable(leaf) => "blob" \in leaf.value.marks
    /\ \A raw \in Packages : raw.envelope.scope.decision \in Nat
    /\ NoFocus \notin Focus
    /\ MaxReviews \in Nat /\ MaxAsked \in Nat /\ MaxBreaks \in Nat

-----------------------------------------------------------------------------
(* The contracts.                                                          *)

\* Both versions have the same fields under different names; what is kept of either has
\* the names of the later one.
Decodes(part) == part.schema \in {"v1", "v2"} /\ part.safety /\ part.shaped

ReviewScope(raw)            == Decodes(raw)
RedactedReviewEnvelope(raw) == Decodes(raw) /\ ReviewScope(raw.scope)
ReviewEvidence(raw)         == Decodes(raw)

StructuredReviewPackage(raw) ==
    /\ Decodes(raw) /\ ReviewScope(raw.scope) /\ RedactedReviewEnvelope(raw.envelope)
    /\ \A item \in raw.evidence : ReviewEvidence(item)

_aware_timestamp(time) == time # 0

validate_source_time(decision, item) ==
    /\ item.source /\ item.quality
    /\ _aware_timestamp(decision) /\ _aware_timestamp(item.available)
    /\ item.available <= decision

validate_observation(observation, decision) ==
    \/ observation.label = "SILENT"
    \/ observation.label = "spoken" /\ observation.complete /\ validate_source_time(decision, observation)

\* mutates: its own guards say so; hints: a key or a role below them does.
validate_challenger_only_mutation(proposal) ==
    proposal.role = "challenger" /\ ~proposal.mutates /\ ~proposal.hints

AllAreFine(said, decision) ==
    /\ \A item \in said.evidence : validate_source_time(decision, item)
    /\ \A observation \in said.observations : validate_observation(observation, decision)
    /\ \A proposal \in said.challengers : validate_challenger_only_mutation(proposal)

\* What record_review_package asks of a package that is sent to session n.
Recordable(raw, n) ==
    /\ StructuredReviewPackage(raw) /\ raw.review_id = n /\ raw.scope.review_id = n
    /\ validate_redacted_payload(raw.envelope.payload)
    /\ AllAreFine(raw, raw.scope.decision)

\* A result has at most one package, whose decision time is then its own, too.
validate_plugin_result(result, decision) ==
    /\ result.safety /\ ~result.mutates
    /\ \A raw \in result.packages :
        /\ _aware_timestamp(decision)
        /\ raw.scope.decision = decision /\ raw.envelope.scope.decision = decision
        /\ validate_redacted_payload(raw.envelope.payload) /\ AllAreFine(raw, decision)
    /\ AllAreFine(result, decision)

\* The adapters at hand speak of the time of the envelope that they are given.
_observation(decision) ==
    [label |-> "spoken", complete |-> TRUE, source |-> TRUE, quality |-> TRUE, available |-> decision]
_challenger == [role |-> "challenger", mutates |-> FALSE, hints |-> FALSE]
_build_result(decision) ==
    [safety |-> TRUE, mutates |-> FALSE, packages |-> {}, evidence |-> {_observation(decision)},
     observations |-> {_observation(decision)}, challengers |-> {_challenger}]

\* An adapter is run for an envelope that has nothing left to redact.
CordisReviewRequest(envelope) == envelope.safety /\ validate_redacted_payload(envelope.payload)

Runs(envelope) ==
    CordisReviewRequest(envelope) /\ validate_plugin_result(_build_result(envelope.scope.decision), envelope.scope.decision)

-----------------------------------------------------------------------------
(* The envelope.                                                           *)

\* Lists that make the whole too large are cut.
context_payload(analysis) ==
    {part \in SUBSET analysis : \A leaf \in analysis : ~leaf.listed => leaf \in part}

build_review_envelope(analysis) == {redact_payload(part) : part \in context_payload(analysis)}

-----------------------------------------------------------------------------
VARIABLES reviews,  \* agent_session and session_event
          asked,    \* per client, its request between two steps
          sidecar,  \* the process behind the bridge, if there is one
          answers,  \* its answers that nobody has read yet
          requests, breaks,
          muddled, torn, refused, agreed, crossed \* history, see below

\* muddled: sessions whose context two requests wrote at a time, or a killed one;
\* torn: forks that a kill cut off; refused: what gave no envelope; agreed: sessions
\* whose envelope the sidecar took; crossed: two calls were under way at once.
reviewVars == <<reviews, asked, sidecar, answers, requests, breaks, muddled, torn, refused, agreed, crossed>>

NoRequest == [at |-> "none"]

Fresh(focus) == [confirmed |-> FALSE, phase |-> "none", focus |-> focus]
Begun(context, given) == [context |-> context, given |-> given, log |-> << >>, forked_from |-> 0, copied |-> 0]

ReviewInit ==
    /\ reviews = << >> /\ asked = [c \in Client |-> NoRequest]
    /\ sidecar \in {"none", "up"} /\ answers = << >>
    /\ requests = 0 /\ breaks = 0
    /\ muddled = {} /\ torn = {} /\ refused = {} /\ agreed = {} /\ crossed = FALSE

\* The requests that are about to write the context of a session, or to tell of it.
Writes(c, n) == asked[c].at \in {"read", "update", "append"} /\ asked[c].review = n
BeingWritten(n) == \E c \in Client : Writes(c, n)

Asks == requests < MaxAsked /\ requests' = requests + 1
Unasked(c) == asked[c] = NoRequest

Tell(n, entry) == reviews' = [reviews EXCEPT ![n].log = Append(@, entry)]

\* What a request leaves of the context that it has read.
Changed(kind, seen, what) ==
    CASE kind = "confirm" -> [seen EXCEPT !.confirmed = TRUE, !.phase = "scope_confirmed"]
      [] kind = "package" -> [seen EXCEPT !.phase = "completed"]
      [] kind = "trade"   -> [seen EXCEPT !.focus = what]

\* What it says afterwards; a package has said so before.
Said(kind, what) ==
    IF kind = "confirm" THEN [kind |-> "review_scope_confirmed"]
    ELSE [kind |-> "review_session_ready", trade |-> what]

\* Client c has read the context of n, or is to read it.
Takes(c, at, kind, n, what) ==
    /\ asked' = [asked EXCEPT ![c] = [at |-> at, kind |-> kind, review |-> n, seen |-> reviews[n].context, what |-> what]]
    /\ muddled' = IF BeingWritten(n) THEN muddled \cup {n} ELSE muddled
    /\ UNCHANGED <<sidecar, answers, breaks, torn, refused, agreed, crossed>>

review_scope_preview(n) ==
    /\ Asks
    /\ \E analysis \in Analyses : \E envelope \in build_review_envelope(analysis) :
        \/ /\ validate_redacted_payload(envelope)
           /\ Tell(n, [kind |-> "review_scope_preview", envelope |-> envelope])
           /\ UNCHANGED refused
        \/ /\ ~validate_redacted_payload(envelope)
           /\ refused' = refused \cup {analysis} /\ UNCHANGED reviews
    /\ UNCHANGED <<asked, sidecar, answers, breaks, muddled, torn, agreed, crossed>>

\* The envelope is built first.
confirm_review_scope(c, n) ==
    /\ Asks /\ Unasked(c)
    /\ \E analysis \in Analyses : \E envelope \in build_review_envelope(analysis) : validate_redacted_payload(envelope)
    /\ Takes(c, "update", "confirm", n, NoFocus) /\ UNCHANGED reviews

\* As record_review_package, but the package is not put on record.
record_review_package_early(c, n) ==
    /\ Asks /\ Unasked(c)
    /\ \E raw \in Packages : Recordable(raw, n)
    /\ Takes(c, "read", "package", n, NoFocus) /\ UNCHANGED reviews

\* The package is on record before the context says so.
record_review_package(c, n) ==
    /\ Asks /\ Unasked(c)
    /\ \E raw \in Packages : Recordable(raw, n) /\ Tell(n, [kind |-> "review_package", package |-> raw])
    /\ Takes(c, "read", "package", n, NoFocus)

record_challenger_proposal(n) ==
    /\ Asks
    /\ \E raw \in Packages : \E proposal \in raw.challengers :
        /\ validate_challenger_only_mutation(proposal)
        /\ Tell(n, [kind |-> "challenger_proposal", proposal |-> proposal])
    /\ UNCHANGED <<asked, sidecar, answers, breaks, muddled, torn, refused, agreed, crossed>>

\* A review of a trade goes on in a session that is given, or in a new one.
review_from_trade(c, n) ==
    /\ Asks /\ Unasked(c)
    /\ \E trade \in Focus : Takes(c, "update", "trade", n, trade)
    /\ UNCHANGED reviews

review_from_trade_new(c) ==
    /\ Asks /\ Unasked(c) /\ Len(reviews) < MaxReviews
    /\ \E trade \in Focus :
        /\ reviews' = Append(reviews, Begun(Fresh(trade), NoFocus))
        /\ asked' = [asked EXCEPT ![c] = [at |-> "append", kind |-> "trade", review |-> Len(reviews) + 1,
                                          seen |-> Fresh(NoFocus), what |-> trade]]
    /\ UNCHANGED <<sidecar, answers, breaks, muddled, torn, refused, agreed, crossed>>

create_session ==
    /\ Asks /\ Len(reviews) < MaxReviews
    /\ \E focus \in Focus \cup {NoFocus} : reviews' = Append(reviews, Begun(Fresh(focus), focus))
    /\ UNCHANGED <<asked, sidecar, answers, breaks, muddled, torn, refused, agreed, crossed>>

Fork(n, copied) ==
    /\ Len(reviews) < MaxReviews
    /\ reviews' = Append(reviews, [reviews[n] EXCEPT !.log = SubSeq(@, 1, copied), !.forked_from = n, !.copied = copied])

\* Under the store's lock; each of its writes commits.
fork_session(n) ==
    /\ Asks /\ Fork(n, Len(reviews[n].log))
    /\ muddled' = IF n \in muddled \/ BeingWritten(n) THEN muddled \cup {Len(reviews) + 1} ELSE muddled
    /\ torn' = IF n \in torn THEN torn \cup {Len(reviews) + 1} ELSE torn
    /\ UNCHANGED <<asked, sidecar, answers, breaks, refused, agreed, crossed>>

-----------------------------------------------------------------------------
(* The steps of a request under way.                                       *)

Goes(c, at) == asked' = [asked EXCEPT ![c].at = at]
Leaves(c) == asked' = [asked EXCEPT ![c] = NoRequest]

get_session(c) ==
    /\ asked[c].at = "read"
    /\ asked' = [asked EXCEPT ![c].at = "update", ![c].seen = reviews[asked[c].review].context]
    /\ UNCHANGED <<reviews, sidecar, answers, requests, breaks, muddled, torn, refused, agreed, crossed>>

update_session(c) ==
    /\ asked[c].at = "update"
    /\ reviews' = [reviews EXCEPT ![asked[c].review].context = Changed(asked[c].kind, asked[c].seen, asked[c].what)]
    /\ IF asked[c].kind = "package" THEN Leaves(c) ELSE Goes(c, "append")
    /\ UNCHANGED <<sidecar, answers, requests, breaks, muddled, torn, refused, agreed, crossed>>

append_event(c) ==
    /\ asked[c].at = "append"
    /\ Tell(asked[c].review, Said(asked[c].kind, asked[c].what))
    /\ IF asked[c].kind = "confirm" /\ sidecar # "none" THEN Goes(c, "handshake") ELSE Leaves(c)
    /\ UNCHANGED <<sidecar, answers, requests, breaks, muddled, torn, refused, agreed, crossed>>

\* The bridge writes a call and reads the next answer, whoever it is for.  The sidecar
\* takes the envelope or rejects it, and answers in order, or is found dead.
Waiting == {c \in Client : asked[c].at \in {"answer", "subscribed"}}

_write(c) ==
    /\ asked[c].at \in {"handshake", "subscribe"}
    /\ crossed' = (crossed \/ Waiting # {})
    /\ \/ /\ sidecar = "up"
          /\ \E ok \in BOOLEAN :
                /\ answers' = Append(answers, ok)
                /\ agreed' = IF ok /\ asked[c].at = "handshake" THEN agreed \cup {asked[c].review} ELSE agreed
          /\ Goes(c, IF asked[c].at = "handshake" THEN "answer" ELSE "subscribed")
          /\ UNCHANGED sidecar
       \/ /\ sidecar = "up" /\ sidecar' = "down"
          /\ Goes(c, IF asked[c].at = "handshake" THEN "answer" ELSE "subscribed")
          /\ UNCHANGED <<answers, agreed>>
       \/ sidecar = "down" /\ Goes(c, "failed") /\ UNCHANGED <<sidecar, answers, agreed>>
    /\ UNCHANGED <<reviews, requests, breaks, muddled, torn, refused>>

_read(c) ==
    /\ c \in Waiting
    /\ \/ /\ answers # << >> /\ answers' = Tail(answers)
          /\ Goes(c, IF ~Head(answers) THEN "failed" ELSE IF asked[c].at = "answer" THEN "subscribe" ELSE "connected")
       \/ answers = << >> /\ sidecar = "down" /\ Goes(c, "failed") /\ UNCHANGED answers
    /\ UNCHANGED <<reviews, sidecar, requests, breaks, muddled, torn, refused, agreed, crossed>>

\* The request ends with an event of the bridge; a failed one raises after it.
Connected(c) ==
    /\ asked[c].at \in {"connected", "failed"}
    /\ Tell(asked[c].review, [kind |-> IF asked[c].at = "connected" THEN "sidecar_connected" ELSE "terminal"])
    /\ Leaves(c)
    /\ UNCHANGED <<sidecar, answers, requests, breaks, muddled, torn, refused, agreed, crossed>>

\* A kill ends all requests, a fork that copies a log among them.  The bridge starts anew.
Broken ==
    /\ breaks < MaxBreaks /\ breaks' = breaks + 1
    /\ asked' = [c \in Client |-> NoRequest] /\ answers' = << >>
    /\ sidecar' \in {"none", "up"}
    /\ LET cut == {n \in DOMAIN reviews : BeingWritten(n)}
           new == Len(reviews) + 1
       IN  \/ UNCHANGED <<reviews, torn>> /\ muddled' = muddled \cup cut
           \/ \E n \in DOMAIN reviews : \E copied \in 0 .. Len(reviews[n].log) :
                Fork(n, copied) /\ torn' = torn \cup {new} /\ muddled' = muddled \cup cut \cup {new}
    /\ UNCHANGED <<requests, refused, agreed, crossed>>

ReviewNext ==
    \/ \E c \in Client :
        \/ \E n \in DOMAIN reviews :
            confirm_review_scope(c, n) \/ record_review_package(c, n) \/ review_from_trade(c, n)
        \/ review_from_trade_new(c) \/ get_session(c) \/ update_session(c) \/ append_event(c)
        \/ _write(c) \/ _read(c) \/ Connected(c)
    \/ \E n \in DOMAIN reviews : review_scope_preview(n) \/ record_challenger_proposal(n) \/ fork_session(n)
    \/ create_session \/ Broken

ReviewSpec == ReviewInit /\ [][ReviewNext]_reviewVars

-----------------------------------------------------------------------------
Context == [confirmed : BOOLEAN, phase : {"none", "scope_confirmed", "completed"}, focus : Focus \cup {NoFocus}]

SessionEvent ==
    [kind : {"review_scope_preview"}, envelope : SUBSET Leaf] \cup [kind : {"review_package"}, package : Packages]
    \cup [kind : {"challenger_proposal"}, proposal : UNION {raw.challengers : raw \in Packages}]
    \cup [kind : {"review_session_ready"}, trade : Focus]
    \cup [kind : {"review_scope_confirmed", "sidecar_connected", "terminal"}]

Review == [context : Context, given : Focus \cup {NoFocus}, log : Seq(SessionEvent), forked_from : Nat, copied : Nat]

\* What a request has at hand is what its steps need.
Underway ==
    [at : {"read", "update"}, kind : {"package"}, review : Nat, seen : Context, what : {NoFocus}]
    \cup [at : {"update", "append"}, kind : {"trade"}, review : Nat, seen : Context, what : Focus]
    \cup [at : {"update", "append", "handshake", "answer", "subscribe", "subscribed", "connected", "failed"},
          kind : {"confirm"}, review : Nat, seen : Context, what : {NoFocus}]

\* Shape of the state.
ReviewTypeOK ==
    /\ reviews \in Seq(Review) /\ asked \in [Client -> Underway \cup {NoRequest}]
    /\ \A c \in Client : asked[c] # NoRequest => asked[c].review \in DOMAIN reviews
    /\ sidecar \in {"none", "up", "down"} /\ answers \in Seq(BOOLEAN)
    /\ requests \in 0 .. MaxAsked /\ breaks \in 0 .. MaxBreaks
    /\ torn \subseteq muddled /\ muddled \subseteq DOMAIN reviews /\ agreed \subseteq DOMAIN reviews
    /\ refused \subseteq Analyses /\ crossed \in BOOLEAN

\* What an event says of the phase and of the trade, if anything.
PhaseOf(entry) ==
    CASE entry.kind = "review_scope_confirmed" -> "scope_confirmed"
      [] entry.kind = "review_package" -> "completed"
      [] OTHER -> "none"
FocusOf(entry) == IF entry.kind = "review_session_ready" THEN entry.trade ELSE NoFocus

\* The context is what the log makes of a session that began with this trade.
Tells(log, given, context) ==
    /\ context.confirmed <=> \E i \in DOMAIN log : log[i].kind = "review_scope_confirmed"
    /\ \/ context.phase = "none" /\ \A i \in DOMAIN log : PhaseOf(log[i]) = "none"
       \/ \E i \in DOMAIN log : /\ PhaseOf(log[i]) = context.phase /\ context.phase # "none"
                                /\ \A j \in i + 1 .. Len(log) : PhaseOf(log[j]) = "none"
    /\ \/ context.focus = given /\ \A i \in DOMAIN log : FocusOf(log[i]) = NoFocus
       \/ \E i \in DOMAIN log : /\ FocusOf(log[i]) = context.focus /\ context.focus # NoFocus
                                /\ \A j \in i + 1 .. Len(log) : FocusOf(log[j]) = NoFocus

ContextsTell ==
    \A n \in DOMAIN reviews : n \notin muddled /\ ~BeingWritten(n) => Tells(reviews[n].log, reviews[n].given, reviews[n].context)

HasPackage(log) == \E i \in DOMAIN log : log[i].kind = "review_package"

CompletedHavePackages ==
    \A n \in DOMAIN reviews : reviews[n].context.phase = "completed" /\ n \notin torn => HasPackage(reviews[n].log)

ForksContinue ==
    \A n \in DOMAIN reviews : reviews[n].copied > 0 =>
        LET source == reviews[reviews[n].forked_from].log
        IN  reviews[n].copied <= Len(source) /\ \A i \in 1 .. reviews[n].copied : reviews[n].log[i] = source[i]

\* Of an event that session n has of its own.
IsSound(entry, n) ==
    /\ entry.kind = "review_package" => Recordable(entry.package, n)
    /\ entry.kind = "review_scope_preview" =>
        validate_redacted_payload(entry.envelope) /\ \A leaf \in entry.envelope : Reduced(leaf)
    /\ entry.kind = "challenger_proposal" => validate_challenger_only_mutation(entry.proposal)
    /\ entry.kind = "sidecar_connected" => n \in agreed \/ crossed

EventsAreSound ==
    \A n \in DOMAIN reviews : \A i \in reviews[n].copied + 1 .. Len(reviews[n].log) : IsSound(reviews[n].log[i], n)

RefusedForFiles == \A analysis \in refused : scan_for_attachments(analysis) # {}

\* What may leave the machine says no more than an envelope does, and it spells out what the
\* analysis spells out under no rule; the adapters answer any envelope that has a time; and a package that the validation of a plugin's result lets
\* through, a session of its id records.
ContractsAgree ==
    /\ \A analysis \in Analyses :
        /\ \A leaf \in prepare_outbound(analysis).payload : Reduced(leaf) /\ LeafIsFine(leaf)
        /\ \A leaf \in analysis : Spells(RedactedLeaf(leaf)) <=> Spells(leaf) /\ MasksAt(leaf) = {}
    /\ \A raw \in Packages :
        /\ CordisReviewRequest(raw.envelope) /\ _aware_timestamp(raw.envelope.scope.decision) => Runs(raw.envelope)
        /\ StructuredReviewPackage(raw) /\ raw.review_id = raw.scope.review_id =>
            (validate_plugin_result([_build_result(raw.scope.decision) EXCEPT !.packages = {raw}], raw.scope.decision)
                => Recordable(raw, raw.review_id))

\* However previews, confirmations, packages, forks and kills follow one another: the
\* context of a session is what its log makes of it, unless two requests wrote it at a
\* time or were killed; one that says completed has a package on record in any case; a
\* fork goes on from a first part of its source's log; and what the log has was checked:
\* packages of this very session with no evidence from after their decision, envelopes
\* without a secret, a code or an unmasked key, challengers only, and a sidecar that took
\* the envelope wherever no two calls crossed.  No analysis is refused but for file
\* material in it: an exact quantity or an account in a text that no key puts under a rule
\* (the detail of a blocking issue, the id of a position) leaves the machine as it is.
ReviewsAreOnRecord ==
    ContextsTell /\ CompletedHavePackages /\ ForksContinue /\ EventsAreSound /\ RefusedForFiles /\ ContractsAgree
=============================================================================
