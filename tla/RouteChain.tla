----------------------------- MODULE RouteChain -----------------------------
(***************************************************************************)
(* How one round of a review turn reaches a model (agent/route_chain.py):  *)
(* the candidates of the session in their order, without those that rest   *)
(* after a failure; bounded retries of one candidate; the fall back to the *)
(* next; and what the caller, the turn of agent/runtime.py, sees of it.    *)
(* The turns of a server share one table of cooldowns, without a lock.     *)
(***************************************************************************)
EXTENDS Integers, Sequences, SequencesExt

CONSTANTS Turn,       \* the turns that ask at the same time
          Target,     \* the <<provider, model>> a session may name
          ProviderOf, \* ProviderOf[t] is the provider of target t
          Offline,    \* the offline route
          Routes,     \* the lists of targets the sessions are configured with
          Raised,     \* the codes of the failures before an answer
          Elapse,     \* how the time passes, in seconds
          MaxRetries, \* max_same_target_retries
          MaxRequests \* bound: requests in all

\* ProviderErrorCode with what follows from it: whether the same target is asked
\* again, whether the next one is, and the seconds a target rests.
Classified(retryable, fallbackable, rest) ==
    [retryable |-> retryable, fallbackable |-> fallbackable, rest |-> rest]

classify_provider_error ==
    [insufficient_quota  |-> Classified(FALSE, TRUE, 300),
     rate_limited        |-> Classified(TRUE, TRUE, 30),
     authentication      |-> Classified(FALSE, TRUE, 300),
     timeout             |-> Classified(TRUE, TRUE, 15),
     server_error        |-> Classified(TRUE, TRUE, 15),
     invalid_request     |-> Classified(FALSE, TRUE, 10),
     network_unreachable |-> Classified(TRUE, TRUE, 10),
     stream_interruption |-> Classified(FALSE, FALSE, 10),
     unknown_error       |-> Classified(FALSE, TRUE, 10)]

\* A failure in the middle of a stream is an interruption, whatever it is.
Codes(silent) == IF silent THEN Raised ELSE {"stream_interruption"}

ASSUME RouteAssumption ==
    /\ ProviderOf \in [Target -> STRING] /\ Offline \notin Target
    /\ Target \cap {ProviderOf[t] : t \in Target} = {}
    /\ Routes \subseteq Seq(Target \cup {Offline})
    /\ Raised \subseteq DOMAIN classify_provider_error \ {"stream_interruption"}
    /\ Elapse \in Nat \ {0} /\ {MaxRetries, MaxRequests} \subseteq Nat

VARIABLES cooldowns, \* CooldownTracker: what is left to rest, by target and by provider
          chain,     \* the generator each turn is reading
          marks,     \* the locals of each turn's mark_failure
          asked,     \* requests so far
          owed       \* not in the code: the rest that nothing may shorten any more

routeVars == <<cooldowns, chain, marks, asked, owed>>

Keys == Target \cup {ProviderOf[t] : t \in Target}

\* "eligible" holds the positions of the candidates that did not cool down, "output"
\* the attempts, <<candidate, attempt>>, whose events went out.  Not in the code:
\* "resting", those of the eligible candidates that were to rest when the request began.
Chain(phase, candidates, eligible, index, attempt, output, resting) ==
    [phase |-> phase, candidates |-> candidates, eligible |-> eligible, index |-> index,
     attempt |-> attempt, output |-> output, resting |-> resting]

\* No generator, or one that was dropped and left what it gave out.
Idle(phase, output) == Chain(phase, << >>, {}, 0, 0, output, {})

\* The error, what is left of its rest, and the longer of that and of the rest read
\* in the table, to be written there.
RestMark(code, due, longest) == [code |-> code, due |-> due, longest |-> longest]

NoMark == RestMark("none", 0, 0)

RouteInit ==
    /\ cooldowns = [k \in Keys |-> 0]
    /\ chain = [u \in Turn |-> Idle("unasked", {})]
    /\ marks = [u \in Turn |-> NoMark]
    /\ asked = 0
    /\ owed = [k \in Keys |-> 0]

-----------------------------------------------------------------------------
(* CooldownTracker.  The code keeps instants and compares them with the    *)
(* clock; here the clock runs the rests down.                              *)

Longer(x, y) == IF x > y THEN x ELSE y

is_cooling_down(t) ==
    t \in Target /\ Longer(cooldowns[t], cooldowns[ProviderOf[t]]) > 0

RestLeft(rest) == IF rest > Elapse THEN rest - Elapse ELSE 0

Tick ==
    /\ \/ \E k \in Keys : cooldowns[k] > 0
       \/ \E u \in Turn : marks[u].longest > 0
    /\ cooldowns' = [k \in Keys |-> RestLeft(cooldowns[k])]
    /\ owed' = [k \in Keys |-> RestLeft(owed[k])]
    /\ marks' = [u \in Turn |-> RestMark(marks[u].code, RestLeft(marks[u].due), RestLeft(marks[u].longest))]
    /\ UNCHANGED <<chain, asked>>

-----------------------------------------------------------------------------
(* A request.  Its candidates are the configured targets and then, if it   *)
(* is not among them, the offline route; those that cool down when it      *)
(* begins are left out.                                                    *)

Candidates_asConfigured(route) == route
Candidates(route) == IF Offline \in ToSet(route) THEN route ELSE Append(route, Offline)

Attempting(u) == chain[u].phase \in {"open", "stream"}

\* Between the two reads and the two writes of mark_failure.
Marking(u) == chain[u].phase \in {"target", "between", "provider"}

Asking(u) == Attempting(u) \/ Marking(u)

\* A target rests when its own failures or those of its provider's models ask for it.
Resting(t) == owed[t] > 0 \/ owed[ProviderOf[t]] > 0

Ended(u, phase, output) == chain' = [chain EXCEPT ![u] = Idle(phase, output)]

Ask(u) ==
    /\ ~Asking(u) /\ asked < MaxRequests
    /\ asked' = asked + 1
    /\ \E route \in Routes :
        LET cs   == Candidates(route)
            left == {i \in DOMAIN cs : ~is_cooling_down(cs[i])}
        IN  IF left = {} THEN Ended(u, "failed", {})
            ELSE chain' = [chain EXCEPT ![u] =
                    Chain("open", cs, left, Min(left), 0, {},
                          {t \in Target : Resting(t) /\ \E i \in left : cs[i] = t})]
    /\ UNCHANGED <<cooldowns, marks, owed>>

\* The generator goes on, with the candidates it began with.
GoOn(u, phase, index, attempt, output) ==
    chain' = [chain EXCEPT ![u] = Chain(phase, chain[u].candidates, chain[u].eligible,
                                        index, attempt, output, chain[u].resting)]

Current(u) == chain[u].candidates[chain[u].index]
Later(u)   == {i \in chain[u].eligible : i > chain[u].index}
IsLast(u)  == Later(u) = {}
Attempt(u) == <<chain[u].index, chain[u].attempt>>

\* The offline route answers at once with a text of its own.
OfflineAnswer(u) ==
    /\ chain[u].phase = "open" /\ Current(u) = Offline
    /\ Ended(u, "answered", chain[u].output \cup {Attempt(u)})
    /\ UNCHANGED <<cooldowns, marks, asked, owed>>

-----------------------------------------------------------------------------
(* One attempt at one candidate.                                           *)

OpenStream(u) ==
    /\ chain[u].phase = "open" /\ Current(u) # Offline
    /\ GoOn(u, "stream", chain[u].index, chain[u].attempt, chain[u].output)
    /\ UNCHANGED <<cooldowns, marks, asked, owed>>

Chunk(u) ==
    /\ chain[u].phase = "stream"
    /\ GoOn(u, "stream", chain[u].index, chain[u].attempt, chain[u].output \cup {Attempt(u)})
    /\ UNCHANGED <<cooldowns, marks, asked, owed>>

\* The stream is whole.  The turn leaves its loop at the event "done" and drops
\* the generator there: the line that would clear the cooldown is not reached.
Done(u) ==
    /\ chain[u].phase = "stream"
    /\ Ended(u, "answered", chain[u].output \cup {Attempt(u)})
    /\ UNCHANGED <<cooldowns, marks, asked, owed>>

Silent_always(u) == TRUE
\* Nothing of this attempt has gone out: FailurePhase.PRE_STREAM.
Silent(u) == Attempt(u) \notin chain[u].output

MayRetry_onceMore(u, f) == f.retryable /\ chain[u].attempt =< MaxRetries
MayRetry(u, f) == f.retryable /\ chain[u].attempt < MaxRetries

Retry_uncounted(u) == GoOn(u, "open", chain[u].index, chain[u].attempt, chain[u].output)
Retry(u) == GoOn(u, "open", chain[u].index, chain[u].attempt + 1, chain[u].output)

FallBack(u) ==
    GoOn(u, "open", Min(Later(u)), 0, chain[u].output)

ReadRest_overwrites(u, key, code, due) == marks' = [marks EXCEPT ![u] = RestMark(code, due, due)]
ReadRest(u, key, code, due) ==
    marks' = [marks EXCEPT ![u] = RestMark(code, due, Longer(cooldowns[key], due))]

\* A failure to open the stream, its end before its time or an error in it: before
\* its first event the same candidate may be asked again; else the target and its
\* provider are to rest, and the rest the target has is read.
Fail(u) ==
    /\ Attempting(u) /\ Current(u) # Offline
    /\ \E code \in Codes(Silent(u)) :
        LET f == classify_provider_error[code]
        IN  \/ MayRetry(u, f) /\ Retry(u) /\ UNCHANGED marks
            \/ /\ ~MayRetry(u, f)
               /\ ReadRest(u, Current(u), code, f.rest)
               /\ GoOn(u, "target", chain[u].index, chain[u].attempt, chain[u].output)
    /\ UNCHANGED <<cooldowns, asked, owed>>

ProviderAt(u) == ProviderOf[Current(u)]

\* The turns that have read the rest of this key and not yet written it.
PendingAt(key) ==
    {u \in Turn : \/ (chain[u].phase = "target" /\ Current(u) = key)
                 \/ (chain[u].phase = "provider" /\ ProviderAt(u) = key)}

\* Another turn that has read the rest before this write may write a shorter one over it.
WriteRest(u, key) ==
    /\ cooldowns' = [cooldowns EXCEPT ![key] = marks[u].longest]
    /\ owed' = IF PendingAt(key) \subseteq {u} THEN [owed EXCEPT ![key] = Longer(@, marks[u].due)]
               ELSE owed

WriteTarget(u) ==
    /\ chain[u].phase = "target"
    /\ WriteRest(u, Current(u))
    /\ GoOn(u, "between", chain[u].index, chain[u].attempt, chain[u].output)
    /\ UNCHANGED <<marks, asked>>

ReadProvider(u) ==
    /\ chain[u].phase = "between"
    /\ ReadRest(u, ProviderAt(u), marks[u].code, marks[u].due)
    /\ GoOn(u, "provider", chain[u].index, chain[u].attempt, chain[u].output)
    /\ UNCHANGED <<cooldowns, asked, owed>>

\* The provider's rest holds for all its models.  Then the next candidate is asked, or
\* the request fails; what has begun to go out is never begun again.
WriteProvider(u) ==
    /\ chain[u].phase = "provider"
    /\ WriteRest(u, ProviderAt(u))
    /\ marks' = [marks EXCEPT ![u] = NoMark]
    /\ IF classify_provider_error[marks[u].code].fallbackable /\ ~IsLast(u) THEN FallBack(u)
       ELSE Ended(u, "failed", chain[u].output)
    /\ UNCHANGED asked

mark_failure(u) == WriteTarget(u) \/ ReadProvider(u) \/ WriteProvider(u)

\* The browser goes away at an event: the generator is closed where it is.
HangUp(u) ==
    /\ chain[u].phase = "stream" /\ chain[u].output # {}
    /\ Ended(u, "dropped", chain[u].output)
    /\ UNCHANGED <<cooldowns, marks, asked, owed>>

RouteStep(u) ==
    OfflineAnswer(u) \/ OpenStream(u) \/ Chunk(u) \/ Done(u) \/ Fail(u) \/ mark_failure(u)

RouteNext == Tick \/ \E u \in Turn : Ask(u) \/ RouteStep(u) \/ HangUp(u)

\* Every read of a provider ends, by an event, the stream's end, an error or the
\* client's time limit, and a stream has an end.
RouteFairness == \A u \in Turn : WF_routeVars(RouteStep(u))

RouteSpec == RouteInit /\ [][RouteNext]_routeVars /\ RouteFairness

-----------------------------------------------------------------------------
\* Shape of the state; a live generator stands at a candidate and an attempt it has.
RouteTypeOK ==
    /\ cooldowns \in [Keys -> Nat] /\ owed \in [Keys -> Nat]
    /\ asked \in 0 .. MaxRequests
    /\ \A u \in Turn :
        /\ chain[u].phase \in {"unasked", "open", "stream", "target", "between", "provider",
                              "answered", "failed", "dropped"}
        /\ {marks[u].due, marks[u].longest} \subseteq Nat
        /\ chain[u].attempt \in 0 .. MaxRetries
        /\ chain[u].eligible \subseteq DOMAIN chain[u].candidates
        /\ Asking(u) => chain[u].index \in chain[u].eligible

\* Whatever failed, was retried or taken over on the way, all that goes out to
\* the browser comes from one attempt at one candidate (the mid-stream rule of
\* stream_chat_with_route_chain), and a whole answer is never empty.
AnswerFromOneAttempt ==
    \A u \in Turn :
        /\ \A x, y \in chain[u].output : x = y
        /\ chain[u].phase = "answered" => chain[u].output # {}

\* A request does not ask a target that was to rest when the request began, by its own
\* failures or those of another model of its provider, in whatever turn: a short rest after
\* a long one does not shorten it (CooldownTracker).  The one exception is two turns that
\* mark the same target or provider at once: the later write may lose the other's rest,
\* and then the rest of the later one is all that is owed.
RestingIsNotAsked ==
    \A u \in Turn : Asking(u) => Current(u) \notin chain[u].resting

\* Whatever rests and whatever fails, the offline route is left to answer: a
\* request fails only in the middle of an answer (_route_candidates).
OfflineIsLeft == \A u \in Turn : chain[u].phase = "failed" => chain[u].output # {}

\* Failures keep their targets and providers away from the requests that follow, but for
\* marks that cross, and still every request has somebody left to answer it.
RestsLeaveAnAnswer == RestingIsNotAsked /\ OfflineIsLeft

\* Every request ends, in an answer, an error or a hang-up, after all the retries
\* and fallbacks it may take.
RequestEnds == \A u \in Turn : Asking(u) ~> ~Asking(u)
=============================================================================
