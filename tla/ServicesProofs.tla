---------------------------- MODULE ServicesProofs ----------------------------
(***************************************************************************)
(* Theorems about the services that MCServices checks one by one, for any  *)
(* values of their constants.                                              *)
(***************************************************************************)
EXTENDS RouteChain, SelfEvolve, PluginInstall, PluginRuntime, ProviderSettings,
        AgentIntegration, FoldTheorems, SequenceTheorems, WellFoundedInduction, TLAPS

-----------------------------------------------------------------------------
(* The route chain, for any targets and providers, any configured lists, any *)
(* number of turns, and any bound on the retries and the requests.         *)

Underway == {"open", "stream", "target", "between", "provider"}
Phase    == Underway \cup {"unasked", "answered", "failed", "dropped"}

ChainType ==
    [phase : Phase, candidates : Seq(Target \cup {Offline}), eligible : SUBSET Nat,
     index : Nat, attempt : 0 .. MaxRetries, output : SUBSET (Nat \X Nat),
     resting : SUBSET Target]

Live(c) == c.phase \in Underway

\* The generator stands at a candidate it may ask, the offline route is still in
\* front of it, and what went out is of the attempt it is at.
Placed(c) ==
    /\ c.index \in c.eligible
    /\ \A x \in c.output : x = <<c.index, c.attempt>>
    /\ \A i \in c.eligible : c.candidates[i] \notin c.resting
    /\ \E i \in c.eligible : i >= c.index /\ c.candidates[i] = Offline

Sound(c) ==
    /\ c.eligible \subseteq DOMAIN c.candidates
    /\ Live(c) => Placed(c)
    /\ c.phase = "open" => c.output = {}
    /\ \A x, y \in c.output : x = y
    /\ c.phase \in {"answered", "failed"} => c.output # {}

Code == DOMAIN classify_provider_error \cup {"none"}

RestsType ==
    /\ cooldowns \in [Keys -> Nat] /\ owed \in [Keys -> Nat]
    /\ asked \in 0 .. MaxRequests
    /\ marks \in [Turn -> [code : Code, due : Nat, longest : Nat]]

\* No target and no provider is owed more rest than the table gives it, nor more than
\* a turn that has read its rest is about to write over it.
RestsInv ==
    /\ RestsType
    /\ \A k \in Keys : owed[k] <= cooldowns[k]
    /\ \A u \in Turn : marks[u].due <= marks[u].longest
    /\ \A k \in Keys : \A u \in PendingAt(k) : owed[k] <= marks[u].longest

\* A turn that marks a failure still knows which one it was, and of whom.
KnowsWhy(u) ==
    Marking(u) => Current(u) # Offline /\ marks[u].code \in Codes(Silent(u))

ChainsInv ==
    /\ chain \in [Turn -> ChainType]
    /\ \A u \in Turn : Sound(chain[u])

RouteInv == RestsInv /\ ChainsInv /\ \A u \in Turn : KnowsWhy(u)

-----------------------------------------------------------------------------
(* The operators.                                                          *)

LEMMA BoundsAreNumbers == MaxRetries \in Nat /\ MaxRequests \in Nat /\ 0 \in 0 .. MaxRetries
<1>1. MaxRetries \in Nat /\ MaxRequests \in Nat
  BY RouteAssumption, Zenon
<1>2. QED
  BY <1>1

\* A set of positions that is not empty has a first one.
LEMMA FirstOf ==
    ASSUME NEW S \in SUBSET Nat, S # {}
    PROVE  Min(S) \in S /\ \A k \in S : Min(S) <= k
<1> DEFINE R == {ss \in Nat \X Nat : ss[1] < ss[2]}
<1>1. IsWellFoundedOn(R, Nat)
  BY NatLessThanWellFounded DEF OpToRel
<1> HIDE DEF R
<1>2. PICK k \in S : \A j \in S : ~ (<<j, k>> \in R)
  BY <1>1, WFMin
<1>3. ASSUME NEW j \in S PROVE k <= j
  <2>1. ~ (<<j, k>> \in R) /\ j \in Nat /\ k \in Nat
    BY <1>2
  <2>2. ~ (j < k)
    BY <2>1 DEF R
  <2>3. QED
    BY <2>1, <2>2
<1>4. \E x \in S : \A y \in S : x <= y
  BY <1>2, <1>3
<1>5. QED
  BY <1>4, Zenon DEF Min

\* The offline route is among the candidates of every list.
LEMMA OfflineIsACandidate ==
    ASSUME NEW route \in Routes
    PROVE  /\ Candidates(route) \in Seq(Target \cup {Offline})
           /\ \E i \in DOMAIN Candidates(route) : Candidates(route)[i] = Offline
<1>1. route \in Seq(Target \cup {Offline})
  BY RouteAssumption
<1>2. CASE Offline \in ToSet(route)
  BY <1>1, <1>2 DEF Candidates, ToSet
<1>3. CASE Offline \notin ToSet(route)
  <2>1. Candidates(route) = Append(route, Offline)
    BY <1>3 DEF Candidates
  <2>2. /\ Append(route, Offline) \in Seq(Target \cup {Offline})
        /\ Len(route) + 1 \in DOMAIN Append(route, Offline)
        /\ Append(route, Offline)[Len(route) + 1] = Offline
    BY <1>1
  <2>3. QED
    BY <2>1, <2>2
<1>4. QED
  BY <1>2, <1>3

\* What follows from a failure: only an interruption ends the chain.
LEMMA FailureFacts ==
    ASSUME NEW silent \in BOOLEAN, NEW error \in Codes(silent)
    PROVE  /\ classify_provider_error[error].rest \in Nat
           /\ silent => classify_provider_error[error].fallbackable = TRUE
           /\ ~silent => /\ classify_provider_error[error].fallbackable = FALSE
                         /\ classify_provider_error[error].retryable = FALSE
<1>1. CASE silent
  <2>1. error \in DOMAIN classify_provider_error \ {"stream_interruption"}
    BY <1>1, RouteAssumption DEF Codes
  <2>2. QED
    BY <1>1, <2>1 DEF classify_provider_error, Classified
<1>2. CASE ~silent
  BY <1>2 DEF Codes, classify_provider_error, Classified
<1>3. QED
  BY <1>1, <1>2

LEMMA FailureIsKnown ==
    ASSUME NEW silent \in BOOLEAN, NEW error \in Codes(silent)
    PROVE  error \in Code
<1>1. "stream_interruption" \in DOMAIN classify_provider_error
  BY DEF classify_provider_error
<1>2. Raised \subseteq DOMAIN classify_provider_error
  BY RouteAssumption
<1>3. error \in DOMAIN classify_provider_error
  BY <1>1, <1>2 DEF Codes
<1>4. QED
  BY <1>3 DEF Code

\* A chain is of its type when its parts are.
LEMMA ChainFacts ==
    ASSUME NEW phase \in Phase, NEW cs \in Seq(Target \cup {Offline}), NEW S \in SUBSET Nat,
           NEW index \in Nat, NEW attempt \in 0 .. MaxRetries,
           NEW output \in SUBSET (Nat \X Nat), NEW resting \in SUBSET Target
    PROVE  Chain(phase, cs, S, index, attempt, output, resting) \in ChainType
  BY DEF Chain, ChainType

\* One generator moves to a sound place and the others stay where they are.
LEMMA OneMoves ==
    ASSUME ChainsInv, NEW u \in Turn, NEW c \in ChainType, Sound(c),
           chain' = [chain EXCEPT ![u] = c]
    PROVE  ChainsInv'
<1>1. chain' \in [Turn -> ChainType]
  BY DEF ChainsInv
<1>2. ASSUME NEW w \in Turn PROVE Sound(chain'[w])
  <2>1. CASE w = u
    <3>1. chain'[w] = c
      BY <2>1 DEF ChainsInv
    <3>2. QED
      BY <3>1
  <2>2. CASE w # u
    <3>1. chain'[w] = chain[w]
      BY <2>2 DEF ChainsInv
    <3>2. QED
      BY <3>1 DEF ChainsInv
  <2>3. QED
    BY <2>1, <2>2
<1>3. QED
  BY <1>1, <1>2 DEF ChainsInv

\* A generator that is dropped leaves what it gave out, of one attempt.
LEMMA EndedFacts ==
    ASSUME ChainsInv, NEW u \in Turn, NEW phase \in {"answered", "failed", "dropped"},
           NEW output \in SUBSET (Nat \X Nat), \A x, y \in output : x = y,
           phase \in {"answered", "failed"} => output # {},
           Ended(u, phase, output)
    PROVE  ChainsInv'
<1>1. Idle(phase, output) \in ChainType
  BY ChainFacts, BoundsAreNumbers, EmptySeq DEF Idle, Phase
<1>2. Sound(Idle(phase, output))
  BY DEF Idle, Chain, Sound, Live, Underway
<1>3. chain' = [chain EXCEPT ![u] = Idle(phase, output)]
  BY DEF Ended
<1>4. QED
  BY <1>1, <1>2, <1>3, OneMoves

\* The others stay: what they have read and where they are.
LEMMA OthersStay ==
    ASSUME ChainsInv, NEW u \in Turn, NEW c, chain' = [chain EXCEPT ![u] = c],
           NEW w \in Turn, w # u
    PROVE  /\ chain'[w] = chain[w]
           /\ \A k : w \in PendingAt(k)' <=> w \in PendingAt(k)
           /\ Marking(w)' = Marking(w) /\ Silent(w)' = Silent(w) /\ Current(w)' = Current(w)
<1>1. chain'[w] = chain[w]
  BY DEF ChainsInv
<1>2. Current(w)' = Current(w) /\ ProviderAt(w)' = ProviderAt(w)
  BY <1>1 DEF Current, ProviderAt
<1>3. ASSUME NEW k PROVE w \in PendingAt(k)' <=> w \in PendingAt(k)
  BY <1>1, <1>2 DEF PendingAt
<1>4. Marking(w)' = Marking(w) /\ Silent(w)' = Silent(w)
  BY <1>1 DEF Marking, Silent, Attempt
<1>5. QED
  BY <1>1, <1>2, <1>3, <1>4

\* A turn that moves to where it marks nothing changes no rest.
LEMMA NothingMarked ==
    ASSUME RouteInv, NEW u \in Turn, NEW c, chain' = [chain EXCEPT ![u] = c],
           c.phase \notin {"target", "between", "provider"},
           UNCHANGED <<cooldowns, marks, owed>>, asked' \in 0 .. MaxRequests
    PROVE  RestsInv' /\ \A w \in Turn : KnowsWhy(w)'
<1>1. ChainsInv /\ RestsInv
  BY DEF RouteInv
<1>2. chain'[u] = c
  BY <1>1 DEF ChainsInv
<1>3. ASSUME NEW k \in Keys PROVE PendingAt(k)' \subseteq PendingAt(k)
  <2>1. u \notin PendingAt(k)'
    BY <1>2 DEF PendingAt
  <2>2. PendingAt(k)' \subseteq Turn
    BY DEF PendingAt
  <2>3. QED
    BY <1>1, <2>1, <2>2, OthersStay
<1>4. RestsInv'
  BY <1>1, <1>3 DEF RestsInv, RestsType
<1>5. ASSUME NEW w \in Turn PROVE KnowsWhy(w)'
  <2>1. CASE w = u
    BY <1>2, <2>1 DEF KnowsWhy, Marking
  <2>2. CASE w # u
    BY <1>1, <2>2, OthersStay DEF RouteInv, KnowsWhy
  <2>3. QED
    BY <2>1, <2>2
<1>6. QED
  BY <1>4, <1>5

LEMMA GoesOnUnmarked ==
    ASSUME RouteInv, NEW u \in Turn, NEW phase \in {"open", "stream"}, NEW i, NEW n, NEW out,
           GoOn(u, phase, i, n, out), UNCHANGED <<cooldowns, marks, asked, owed>>
    PROVE  RestsInv' /\ \A w \in Turn : KnowsWhy(w)'
<1> DEFINE c == Chain(phase, chain[u].candidates, chain[u].eligible, i, n, out, chain[u].resting)
<1>1. chain' = [chain EXCEPT ![u] = c]
  BY DEF GoOn
<1>2. c.phase \notin {"target", "between", "provider"}
  BY DEF Chain
<1>3. asked' \in 0 .. MaxRequests
  BY DEF RouteInv, RestsInv, RestsType
<1> HIDE DEF c
<1>4. QED
  BY <1>1, <1>2, <1>3, NothingMarked

LEMMA EndsUnmarked ==
    ASSUME RouteInv, NEW u \in Turn, NEW phase \in {"answered", "failed", "dropped"}, NEW out,
           Ended(u, phase, out), UNCHANGED <<cooldowns, marks, owed>>,
           asked' \in 0 .. MaxRequests
    PROVE  RestsInv' /\ \A w \in Turn : KnowsWhy(w)'
<1> DEFINE c == Idle(phase, out)
<1>1. chain' = [chain EXCEPT ![u] = c]
  BY DEF Ended
<1>2. c.phase \notin {"target", "between", "provider"}
  BY DEF Idle, Chain
<1> HIDE DEF c
<1>3. QED
  BY <1>1, <1>2, NothingMarked

-----------------------------------------------------------------------------
(* The steps.                                                              *)

LEMMA RouteInitInv == RouteInit => RouteInv
<1> SUFFICES ASSUME RouteInit PROVE RouteInv
  OBVIOUS
<1>1. RestsInv
  <2>1. RestsType
    <3>1. NoMark \in [code : Code, due : Nat, longest : Nat]
      BY DEF NoMark, RestMark, Code
    <3>2. QED
      BY <3>1, RouteAssumption DEF RouteInit, RestsType
  <2>2. \A k \in Keys : PendingAt(k) = {}
    BY DEF RouteInit, PendingAt, Idle, Chain
  <2>3. QED
    BY <2>1, <2>2 DEF RouteInit, RestsInv, NoMark, RestMark
<1>2. Idle("unasked", {}) \in ChainType
  BY ChainFacts, BoundsAreNumbers, EmptySeq DEF Idle, Phase
<1>3. Sound(Idle("unasked", {}))
  BY DEF Idle, Chain, Sound, Live, Underway
<1>4. \A u \in Turn : KnowsWhy(u)
  BY DEF RouteInit, KnowsWhy, Marking, Idle, Chain
<1>5. QED
  BY <1>1, <1>2, <1>3, <1>4 DEF RouteInit, RouteInv, ChainsInv

\* Time takes the same from the table, from what is owed and from what is about to be
\* written.
LEMMA TickInv == RouteInv /\ Tick => RouteInv'
<1> SUFFICES ASSUME RouteInv, Tick PROVE RouteInv'
  OBVIOUS
<1>1. Elapse \in Nat
  BY RouteAssumption
<1>2. /\ \A x \in Nat : RestLeft(x) \in Nat
      /\ \A x, y \in Nat : x <= y => RestLeft(x) <= RestLeft(y)
  BY <1>1 DEF RestLeft
<1>3. RestsInv /\ RestsType
  BY DEF RouteInv, RestsInv
<1>4. RestsType'
  BY <1>2, <1>3 DEF RestsType, Tick, RestMark
<1>5. \A k \in Keys : owed'[k] <= cooldowns'[k]
  BY <1>2, <1>3 DEF RestsInv, RestsType, Tick
<1>6. \A u \in Turn : marks'[u].due <= marks'[u].longest
  BY <1>2, <1>3 DEF RestsInv, RestsType, Tick, RestMark
<1>7. ASSUME NEW k \in Keys, NEW u \in PendingAt(k)' PROVE owed'[k] <= marks'[u].longest
  <2>1. u \in PendingAt(k) /\ u \in Turn
    BY DEF PendingAt, Tick, Current, ProviderAt
  <2>2. owed[k] <= marks[u].longest /\ owed[k] \in Nat /\ marks[u].longest \in Nat
    BY <1>3, <2>1 DEF RestsInv, RestsType
  <2>3. QED
    BY <1>2, <2>1, <2>2 DEF Tick, RestMark
<1>8. RestsInv'
  BY <1>4, <1>5, <1>6, <1>7 DEF RestsInv
<1>9. ChainsInv'
  BY DEF RouteInv, ChainsInv, Tick
<1>10. ASSUME NEW u \in Turn PROVE KnowsWhy(u)'
  BY DEF RouteInv, KnowsWhy, Marking, Current, Silent, Attempt, RestsInv, RestsType, Tick, RestMark
<1>11. QED
  BY <1>8, <1>9, <1>10 DEF RouteInv

\* The candidates that do not cool down: none of them is owed a rest.
LEMMA NoneRests ==
    ASSUME RestsInv, NEW t, ~is_cooling_down(t)
    PROVE  ~(t \in Target /\ Resting(t))
<1> SUFFICES ASSUME t \in Target, Resting(t) PROVE FALSE
  OBVIOUS
<1>1. t \in Keys /\ ProviderOf[t] \in Keys
  BY DEF Keys
<1>2. /\ owed[t] <= cooldowns[t] /\ owed[ProviderOf[t]] <= cooldowns[ProviderOf[t]]
      /\ {cooldowns[t], cooldowns[ProviderOf[t]], owed[t], owed[ProviderOf[t]]} \subseteq Nat
  BY <1>1 DEF RestsInv, RestsType
<1>3. cooldowns[t] > 0 \/ cooldowns[ProviderOf[t]] > 0
  BY <1>2 DEF Resting
<1>4. QED
  BY <1>2, <1>3 DEF is_cooling_down, Longer

LEMMA AskInv == \A u \in Turn : RouteInv /\ Ask(u) => RouteInv'
<1> SUFFICES ASSUME RouteInv, NEW u \in Turn, Ask(u) PROVE RouteInv'
  OBVIOUS
<1>1. asked' \in 0 .. MaxRequests /\ UNCHANGED <<cooldowns, marks, owed>>
  BY RouteAssumption DEF RouteInv, RestsInv, RestsType, Ask
<1>2. PICK route \in Routes :
        LET cs   == Candidates(route)
            left == {i \in DOMAIN cs : ~is_cooling_down(cs[i])}
        IN  IF left = {} THEN Ended(u, "failed", {})
            ELSE chain' = [chain EXCEPT ![u] =
                    Chain("open", cs, left, Min(left), 0, {},
                          {t \in Target : Resting(t) /\ \E i \in left : cs[i] = t})]
  BY DEF Ask
<1> DEFINE cs   == Candidates(route)
           left == {i \in DOMAIN cs : ~is_cooling_down(cs[i])}
           rest == {t \in Target : Resting(t) /\ \E i \in left : cs[i] = t}
           c    == Chain("open", cs, left, Min(left), 0, {}, rest)
<1>3. cs \in Seq(Target \cup {Offline}) /\ \E i \in DOMAIN cs : cs[i] = Offline
  BY OfflineIsACandidate
<1>4. PICK i \in left : cs[i] = Offline
  BY <1>3, RouteAssumption DEF is_cooling_down
<1>5. left \in SUBSET Nat /\ left \subseteq DOMAIN cs
  BY <1>3
<1>6. Min(left) \in left /\ \A k \in left : Min(left) <= k
  BY <1>4, <1>5, FirstOf
<1>7. \A k \in left : cs[k] \notin rest
  BY NoneRests DEF RouteInv
<1>8. chain' = [chain EXCEPT ![u] = c]
  BY <1>2, <1>4
<1>9. rest \subseteq Target
  OBVIOUS
<1> HIDE DEF cs, left, rest
<1>10. c \in ChainType
  <2>1. Min(left) \in Nat /\ 0 \in 0 .. MaxRetries /\ "open" \in Phase
    BY <1>5, <1>6, BoundsAreNumbers DEF Phase, Underway
  <2>2. QED
    BY <2>1, <1>3, <1>5, <1>9, ChainFacts
<1>11. Placed(c)
  <2>1. i >= Min(left)
    BY <1>4, <1>5, <1>6
  <2>2. QED
    BY <2>1, <1>4, <1>6, <1>7 DEF Placed, Chain
<1>12. Sound(c) /\ c.phase \notin {"target", "between", "provider"}
  BY <1>5, <1>11 DEF Sound, Chain
<1> HIDE DEF c
<1>13. RestsInv' /\ \A w \in Turn : KnowsWhy(w)'
  BY <1>1, <1>8, <1>12, NothingMarked
<1>14. QED
  BY <1>8, <1>10, <1>12, <1>13, OneMoves DEF RouteInv

\* What is known of a generator that is being read.
LEMMA LiveFacts ==
    ASSUME ChainsInv, NEW u \in Turn, Live(chain[u])
    PROVE  /\ chain[u] \in ChainType
           /\ chain[u].eligible \subseteq DOMAIN chain[u].candidates
           /\ Placed(chain[u])
           /\ Current(u) \in Target \cup {Offline}
           /\ Attempt(u) \in Nat \X Nat
           /\ \A x \in chain[u].output : x = Attempt(u)
<1>1. chain[u] \in ChainType /\ Sound(chain[u])
  BY DEF ChainsInv
<1>2. Placed(chain[u]) /\ chain[u].eligible \subseteq DOMAIN chain[u].candidates
  BY <1>1 DEF Sound
<1>3. Current(u) \in Target \cup {Offline}
  BY <1>1, <1>2 DEF Current, Placed, ChainType
<1>4. Attempt(u) \in Nat \X Nat
  BY <1>1, BoundsAreNumbers DEF Attempt, ChainType
<1>5. \A x \in chain[u].output : x = Attempt(u)
  BY <1>2 DEF Placed, Attempt
<1>6. QED
  BY <1>1, <1>2, <1>3, <1>4, <1>5

\* Before the offline route there is always a later candidate to fall back to.
LEMMA LaterFacts ==
    ASSUME ChainsInv, NEW u \in Turn, Live(chain[u]), Current(u) # Offline
    PROVE  /\ Later(u) # {}
           /\ Min(Later(u)) \in chain[u].eligible
           /\ \E i \in chain[u].eligible : /\ i >= Min(Later(u))
                                           /\ chain[u].candidates[i] = Offline
<1> DEFINE d == chain[u]
<1>1. d \in ChainType /\ Placed(d)
  BY LiveFacts
<1>2. d.eligible \in SUBSET Nat /\ d.index \in Nat
  BY <1>1 DEF ChainType
<1>3. PICK i \in d.eligible : i >= d.index /\ d.candidates[i] = Offline
  BY <1>1 DEF Placed
<1>4. i # d.index
  BY <1>3 DEF Current
<1>5. i \in Later(u)
  BY <1>2, <1>3, <1>4 DEF Later
<1>6. Later(u) \in SUBSET Nat /\ Later(u) \subseteq d.eligible
  BY <1>2 DEF Later
<1>7. Min(Later(u)) \in Later(u) /\ \A k \in Later(u) : Min(Later(u)) <= k
  BY <1>5, <1>6, FirstOf
<1>8. i >= Min(Later(u))
  BY <1>5, <1>6, <1>7
<1>9. QED
  BY <1>3, <1>5, <1>6, <1>7, <1>8

\* A generator that goes on has its old candidates and what they rested.
LEMMA MovedFacts ==
    ASSUME ChainsInv, NEW u \in Turn, NEW phase \in Phase, NEW index \in Nat,
           NEW attempt \in 0 .. MaxRetries, NEW output \in SUBSET (Nat \X Nat),
           GoOn(u, phase, index, attempt, output),
           chain[u].eligible \subseteq DOMAIN chain[u].candidates,
           index \in chain[u].eligible,
           \A x \in output : x = <<index, attempt>>,
           \A i \in chain[u].eligible : chain[u].candidates[i] \notin chain[u].resting,
           \E i \in chain[u].eligible : i >= index /\ chain[u].candidates[i] = Offline,
           phase \in Underway, phase = "open" => output = {}
    PROVE  ChainsInv'
<1> DEFINE d == chain[u]
           c == Chain(phase, d.candidates, d.eligible, index, attempt, output, d.resting)
<1>1. d \in ChainType
  BY DEF ChainsInv
<1>2. /\ d.candidates \in Seq(Target \cup {Offline}) /\ d.eligible \in SUBSET Nat
      /\ d.resting \in SUBSET Target
  BY <1>1 DEF ChainType
<1> HIDE DEF d
<1>3. c \in ChainType
  BY <1>2, ChainFacts
<1>4. Placed(c)
  BY DEF Placed, Chain, d
<1>5. Sound(c)
  BY <1>4 DEF Sound, Chain, Live, Underway, d
<1>6. chain' = [chain EXCEPT ![u] = c]
  BY DEF GoOn, d
<1> HIDE DEF c
<1>7. QED
  BY <1>3, <1>5, <1>6, OneMoves

LEMMA OpenStreamInv == \A u \in Turn : RouteInv /\ OpenStream(u) => RouteInv'
<1> SUFFICES ASSUME RouteInv, NEW u \in Turn, OpenStream(u) PROVE RouteInv'
  OBVIOUS
<1>1. UNCHANGED <<cooldowns, marks, asked, owed>>
  BY DEF OpenStream
<1>2. Live(chain[u]) /\ chain[u].phase = "open"
  BY DEF OpenStream, Live, Underway
<1>3. chain[u] \in ChainType /\ Placed(chain[u])
  BY <1>2, LiveFacts DEF RouteInv
<1>4. GoOn(u, "stream", chain[u].index, chain[u].attempt, chain[u].output)
  BY DEF OpenStream
<1>5. /\ chain[u].index \in Nat /\ chain[u].attempt \in 0 .. MaxRetries
      /\ chain[u].output \in SUBSET (Nat \X Nat)
  BY <1>3 DEF ChainType
<1>6. ChainsInv'
  BY <1>2, <1>3, <1>4, <1>5, LiveFacts, MovedFacts DEF RouteInv, Placed, Phase, Underway
<1>7. RestsInv' /\ \A w \in Turn : KnowsWhy(w)'
  BY <1>1, <1>4, GoesOnUnmarked
<1>8. QED
  BY <1>6, <1>7 DEF RouteInv

\* What goes out is of the attempt the generator is at.
LEMMA ChunkInv == \A u \in Turn : RouteInv /\ Chunk(u) => RouteInv'
<1> SUFFICES ASSUME RouteInv, NEW u \in Turn, Chunk(u) PROVE RouteInv'
  OBVIOUS
<1> DEFINE out == chain[u].output \cup {Attempt(u)}
<1>1. UNCHANGED <<cooldowns, marks, asked, owed>>
  BY DEF Chunk
<1>2. Live(chain[u]) /\ chain[u].phase = "stream"
  BY DEF Chunk, Live, Underway
<1>3. /\ chain[u] \in ChainType /\ Placed(chain[u])
      /\ chain[u].eligible \subseteq DOMAIN chain[u].candidates
      /\ Attempt(u) \in Nat \X Nat
      /\ \A x \in chain[u].output : x = Attempt(u)
  BY <1>2, LiveFacts DEF RouteInv
<1>4. out \in SUBSET (Nat \X Nat)
  BY <1>3 DEF ChainType
<1>5. \A x \in out : x = <<chain[u].index, chain[u].attempt>>
  BY <1>3 DEF Attempt
<1>6. GoOn(u, "stream", chain[u].index, chain[u].attempt, out)
  BY DEF Chunk
<1>7. chain[u].index \in Nat /\ chain[u].attempt \in 0 .. MaxRetries
  BY <1>3 DEF ChainType
<1> HIDE DEF out
<1>8. ChainsInv'
  BY <1>3, <1>4, <1>5, <1>6, <1>7, MovedFacts DEF RouteInv, Placed, Phase, Underway
<1>9. RestsInv' /\ \A w \in Turn : KnowsWhy(w)'
  BY <1>1, <1>6, GoesOnUnmarked
<1>10. QED
  BY <1>8, <1>9 DEF RouteInv

\* A whole answer is of one attempt, and is not empty.
LEMMA AnsweredFacts ==
    ASSUME ChainsInv, NEW u \in Turn, Live(chain[u]),
           Ended(u, "answered", chain[u].output \cup {Attempt(u)})
    PROVE  ChainsInv'
<1> DEFINE out == chain[u].output \cup {Attempt(u)}
<1>1. /\ chain[u] \in ChainType /\ Attempt(u) \in Nat \X Nat
      /\ \A x \in chain[u].output : x = Attempt(u)
  BY LiveFacts
<1>2. out \in SUBSET (Nat \X Nat) /\ (\A x, y \in out : x = y) /\ out # {}
  BY <1>1 DEF ChainType
<1> HIDE DEF out
<1>3. Ended(u, "answered", out)
  BY DEF out
<1>4. QED
  BY <1>2, <1>3, EndedFacts

LEMMA OfflineAnswerInv == \A u \in Turn : RouteInv /\ OfflineAnswer(u) => RouteInv'
<1> SUFFICES ASSUME RouteInv, NEW u \in Turn, OfflineAnswer(u) PROVE RouteInv'
  OBVIOUS
<1>1. UNCHANGED <<cooldowns, marks, asked, owed>> /\ asked \in 0 .. MaxRequests
  BY DEF OfflineAnswer, RouteInv, RestsInv, RestsType
<1>2. Live(chain[u]) /\ Ended(u, "answered", chain[u].output \cup {Attempt(u)})
  BY DEF OfflineAnswer, Live, Underway
<1>3. RestsInv' /\ \A w \in Turn : KnowsWhy(w)'
  BY <1>1, <1>2, EndsUnmarked
<1>4. QED
  BY <1>2, <1>3, AnsweredFacts DEF RouteInv

LEMMA DoneInv == \A u \in Turn : RouteInv /\ Done(u) => RouteInv'
<1> SUFFICES ASSUME RouteInv, NEW u \in Turn, Done(u) PROVE RouteInv'
  OBVIOUS
<1>1. UNCHANGED <<cooldowns, marks, asked, owed>> /\ asked \in 0 .. MaxRequests
  BY DEF Done, RouteInv, RestsInv, RestsType
<1>2. Live(chain[u]) /\ Ended(u, "answered", chain[u].output \cup {Attempt(u)})
  BY DEF Done, Live, Underway
<1>3. RestsInv' /\ \A w \in Turn : KnowsWhy(w)'
  BY <1>1, <1>2, EndsUnmarked
<1>4. QED
  BY <1>2, <1>3, AnsweredFacts DEF RouteInv

LEMMA HangUpInv == \A u \in Turn : RouteInv /\ HangUp(u) => RouteInv'
<1> SUFFICES ASSUME RouteInv, NEW u \in Turn, HangUp(u) PROVE RouteInv'
  OBVIOUS
<1>1. UNCHANGED <<cooldowns, marks, asked, owed>> /\ asked \in 0 .. MaxRequests
  BY DEF HangUp, RouteInv, RestsInv, RestsType
<1>2. Ended(u, "dropped", chain[u].output)
  BY DEF HangUp
<1>3. /\ chain[u].output \in SUBSET (Nat \X Nat)
      /\ \A x, y \in chain[u].output : x = y
  BY DEF RouteInv, ChainsInv, ChainType, Sound
<1>4. RestsInv' /\ \A w \in Turn : KnowsWhy(w)'
  BY <1>1, <1>2, EndsUnmarked
<1>5. QED
  BY <1>2, <1>3, <1>4, EndedFacts DEF RouteInv

\* The same candidate again: nothing of it has gone out, an interruption is not retried.
LEMMA RetryFacts ==
    ASSUME ChainsInv, NEW u \in Turn, Live(chain[u]), NEW error \in Codes(Silent(u)),
           MayRetry(u, classify_provider_error[error]), Retry(u)
    PROVE  ChainsInv'
<1> DEFINE f == classify_provider_error[error]
<1>1. /\ chain[u] \in ChainType /\ Placed(chain[u])
      /\ chain[u].eligible \subseteq DOMAIN chain[u].candidates
      /\ \A x \in chain[u].output : x = Attempt(u)
  BY LiveFacts
<1>2. Silent(u) \in BOOLEAN
  BY DEF Silent
<1>3. f.retryable /\ chain[u].attempt < MaxRetries
  BY DEF MayRetry
<1>4. ~Silent(u) => f.retryable = FALSE
  BY <1>2, FailureFacts
<1>5. chain[u].output = {}
  BY <1>1, <1>3, <1>4 DEF Silent
<1>6. chain[u].index \in Nat /\ chain[u].attempt + 1 \in 0 .. MaxRetries
  BY <1>1, <1>3, BoundsAreNumbers DEF ChainType
<1>7. GoOn(u, "open", chain[u].index, chain[u].attempt + 1, {})
  BY <1>5 DEF Retry
<1>8. /\ \A i \in chain[u].eligible : chain[u].candidates[i] \notin chain[u].resting
      /\ \E i \in chain[u].eligible : i >= chain[u].index /\ chain[u].candidates[i] = Offline
      /\ chain[u].index \in chain[u].eligible
  BY <1>1 DEF Placed
<1>9. "open" \in Phase /\ "open" \in Underway
  BY DEF Phase, Underway
<1>10. QED
  BY <1>1, <1>6, <1>7, <1>8, <1>9, MovedFacts

\* The next candidate: the offline route is not left behind.
LEMMA FallBackFacts ==
    ASSUME ChainsInv, NEW u \in Turn, Live(chain[u]), Current(u) # Offline, Silent(u),
           FallBack(u)
    PROVE  ChainsInv'
<1>1. /\ chain[u] \in ChainType /\ Placed(chain[u])
      /\ chain[u].eligible \subseteq DOMAIN chain[u].candidates
      /\ \A x \in chain[u].output : x = Attempt(u)
  BY LiveFacts
<1> DEFINE next == Min(Later(u))
<1>2. /\ next \in chain[u].eligible
      /\ \E i \in chain[u].eligible : i >= next /\ chain[u].candidates[i] = Offline
  BY LaterFacts
<1>3. GoOn(u, "open", next, 0, chain[u].output)
  BY DEF FallBack
<1> HIDE DEF next
<1>4. chain[u].output = {}
  BY <1>1 DEF Silent
<1>5. next \in Nat
  BY <1>1, <1>2 DEF ChainType
<1>6. \A i \in chain[u].eligible : chain[u].candidates[i] \notin chain[u].resting
  BY <1>1 DEF Placed
<1>7. "open" \in Phase /\ "open" \in Underway
  BY DEF Phase, Underway
<1>8. GoOn(u, "open", next, 0, {})
  BY <1>3, <1>4
<1>9. QED
  BY <1>1, <1>2, <1>5, <1>6, <1>7, <1>8, MovedFacts, BoundsAreNumbers

\* A chain fails in the middle of an answer only: before it, the next candidate is left.
LEMMA FailedFacts ==
    ASSUME ChainsInv, NEW u \in Turn, Live(chain[u]), Current(u) # Offline,
           NEW error \in Codes(Silent(u)),
           ~(classify_provider_error[error].fallbackable /\ ~IsLast(u)),
           Ended(u, "failed", chain[u].output)
    PROVE  ChainsInv'
<1>1. ~IsLast(u)
  BY LaterFacts DEF IsLast
<1>2. Silent(u) \in BOOLEAN
  BY DEF Silent
<1>3. ~Silent(u)
  BY <1>1, <1>2, FailureFacts
<1>4. chain[u].output # {}
  BY <1>3 DEF Silent
<1>5. /\ chain[u].output \in SUBSET (Nat \X Nat)
      /\ \A x, y \in chain[u].output : x = y
  BY DEF ChainsInv, ChainType, Sound
<1>6. QED
  BY <1>4, <1>5, EndedFacts

\* A generator that stands where it stood, in another phase of the same attempt.
LEMMA StaysFacts ==
    ASSUME ChainsInv, NEW u \in Turn, Live(chain[u]),
           NEW phase \in {"target", "between", "provider"},
           GoOn(u, phase, chain[u].index, chain[u].attempt, chain[u].output)
    PROVE  /\ ChainsInv'
           /\ chain'[u].phase = phase
           /\ Current(u)' = Current(u) /\ ProviderAt(u)' = ProviderAt(u)
           /\ Silent(u)' = Silent(u)
<1>1. /\ chain[u] \in ChainType /\ Placed(chain[u])
      /\ chain[u].eligible \subseteq DOMAIN chain[u].candidates
  BY LiveFacts
<1>2. /\ chain[u].index \in Nat /\ chain[u].attempt \in 0 .. MaxRetries
      /\ chain[u].output \in SUBSET (Nat \X Nat)
  BY <1>1 DEF ChainType
<1>3. phase \in Phase /\ phase \in Underway
  BY DEF Phase, Underway
<1>4. ChainsInv'
  BY <1>1, <1>2, <1>3, MovedFacts DEF Placed
<1>5. chain'[u] = Chain(phase, chain[u].candidates, chain[u].eligible, chain[u].index,
                        chain[u].attempt, chain[u].output, chain[u].resting)
  BY DEF GoOn, ChainsInv
<1>6. Current(u)' = Current(u) /\ Silent(u)' = Silent(u)
  BY <1>5 DEF Chain, Current, Silent, Attempt
<1>7. QED
  BY <1>4, <1>5, <1>6 DEF Chain, ProviderAt

\* The keys of a turn that asks a provider.
LEMMA CurrentFacts ==
    ASSUME ChainsInv, NEW u \in Turn, Live(chain[u]), Current(u) # Offline
    PROVE  Current(u) \in Keys /\ ProviderAt(u) \in Keys
<1>1. Current(u) \in Target
  BY LiveFacts
<1>2. QED
  BY <1>1 DEF Keys, ProviderAt

\* A rest is read: what is to be written is at least as long as what is in the table.
LEMMA ReadKeepsRests ==
    ASSUME RouteInv, NEW u \in Turn, Live(chain[u]), NEW key \in Keys, NEW cause \in Code,
           NEW due \in Nat, ReadRest(u, key, cause, due), UNCHANGED <<cooldowns, asked, owed>>,
           NEW phase \in {"target", "provider"},
           GoOn(u, phase, chain[u].index, chain[u].attempt, chain[u].output),
           phase = "target" => key = Current(u), phase = "provider" => key = ProviderAt(u),
           cause \in Codes(Silent(u)), Current(u) # Offline
    PROVE  RouteInv'
<1>1. RestsInv /\ RestsType /\ ChainsInv
  BY DEF RouteInv, RestsInv
<1>2. /\ ChainsInv' /\ chain'[u].phase = phase /\ Silent(u)' = Silent(u)
      /\ Current(u)' = Current(u) /\ ProviderAt(u)' = ProviderAt(u)
  BY <1>1, StaysFacts
<1>3. /\ marks'[u].code = cause /\ marks'[u].due = due
      /\ marks'[u].longest = Longer(cooldowns[key], due)
      /\ \A w \in Turn \ {u} : marks'[w] = marks[w]
  BY <1>1 DEF ReadRest, RestMark, RestsType
<1>4. cooldowns[key] \in Nat /\ owed[key] \in Nat /\ owed[key] <= cooldowns[key]
  BY <1>1 DEF RestsType, RestsInv
<1>5. Longer(cooldowns[key], due) \in Nat /\ due <= Longer(cooldowns[key], due)
      /\ owed[key] <= Longer(cooldowns[key], due)
  BY <1>4 DEF Longer
<1>6. RestsType'
  BY <1>1, <1>5 DEF RestsType, ReadRest, RestMark
<1>7. \E c : chain' = [chain EXCEPT ![u] = c]
  BY DEF GoOn
<1>8. ASSUME NEW k \in Keys, NEW w \in PendingAt(k)' PROVE owed'[k] <= marks'[w].longest
  <2>1. w \in Turn
    BY DEF PendingAt
  <2>2. CASE w = u
    <3>1. k = key
      BY <1>2, <2>2 DEF PendingAt
    <3>2. QED
      BY <1>3, <1>5, <2>2, <3>1
  <2>3. CASE w # u
    <3>1. w \in PendingAt(k)
      BY <1>1, <1>7, <2>1, <2>3, OthersStay
    <3>2. QED
      BY <1>1, <1>3, <2>1, <2>3, <3>1 DEF RestsInv
  <2>4. QED
    BY <2>2, <2>3
<1>9. \A w \in Turn : marks'[w].due <= marks'[w].longest
  BY <1>1, <1>3, <1>5 DEF RestsInv
<1>10. RestsInv'
  BY <1>1, <1>6, <1>8, <1>9 DEF RestsInv
<1>11. ASSUME NEW w \in Turn PROVE KnowsWhy(w)'
  <2>1. CASE w = u
    BY <1>2, <1>3, <2>1 DEF KnowsWhy
  <2>2. CASE w # u
    BY <1>1, <1>3, <1>7, <2>2, OthersStay DEF RouteInv, KnowsWhy
  <2>3. QED
    BY <2>1, <2>2
<1>12. QED
  BY <1>2, <1>10, <1>11 DEF RouteInv

\* A rest is written: the table still covers what is owed, and so does what another turn
\* is about to write, since nothing new is owed while there is one.
LEMMA WriteKeepsRests ==
    ASSUME RouteInv, NEW u \in Turn, NEW key \in Keys, u \in PendingAt(key),
           WriteRest(u, key), UNCHANGED asked, NEW c, chain' = [chain EXCEPT ![u] = c],
           c.phase \notin {"target", "provider"},
           marks' \in [Turn -> [code : Code, due : Nat, longest : Nat]],
           \A w \in Turn \ {u} : marks'[w] = marks[w],
           marks'[u].due <= marks'[u].longest
    PROVE  RestsInv'
<1>1. RestsInv /\ RestsType /\ ChainsInv
  BY DEF RouteInv, RestsInv
<1>2. chain'[u] = c
  BY <1>1 DEF ChainsInv
<1>3. /\ owed[key] <= marks[u].longest /\ marks[u].due <= marks[u].longest
      /\ marks[u].longest \in Nat /\ marks[u].due \in Nat /\ owed[key] \in Nat
  BY <1>1 DEF RestsInv, RestsType
<1>4. cooldowns'[key] = marks[u].longest /\ \A k \in Keys \ {key} : cooldowns'[k] = cooldowns[k]
  BY <1>1 DEF WriteRest, RestsType
<1>5. /\ \A k \in Keys \ {key} : owed'[k] = owed[k]
      /\ owed'[key] = IF PendingAt(key) \subseteq {u} THEN Longer(owed[key], marks[u].due)
                      ELSE owed[key]
  BY <1>1 DEF WriteRest, RestsType
<1>6. owed'[key] \in Nat /\ owed'[key] <= marks[u].longest
  BY <1>3, <1>5 DEF Longer
<1>7. RestsType'
  <2>1. cooldowns' \in [Keys -> Nat]
    BY <1>1, <1>3 DEF WriteRest, RestsType
  <2>2. owed' \in [Keys -> Nat]
    BY <1>1, <1>3 DEF WriteRest, RestsType, Longer
  <2>3. QED
    BY <1>1, <2>1, <2>2 DEF RestsType
<1>8. \A k \in Keys : owed'[k] <= cooldowns'[k]
  BY <1>1, <1>4, <1>5, <1>6 DEF RestsInv
<1>9. ASSUME NEW k \in Keys, NEW w \in PendingAt(k)' PROVE owed'[k] <= marks'[w].longest
  <2>1. w \in Turn /\ w # u
    BY <1>2 DEF PendingAt
  <2>2. w \in PendingAt(k)
    BY <1>1, <2>1, OthersStay
  <2>3. owed[k] <= marks[w].longest /\ marks'[w] = marks[w]
    BY <1>1, <2>1, <2>2 DEF RestsInv
  <2>4. k = key => owed'[k] = owed[k]
    BY <1>5, <2>1, <2>2
  <2>5. QED
    BY <1>5, <2>3, <2>4
<1>10. \A w \in Turn : marks'[w].due <= marks'[w].longest
  BY <1>1 DEF RestsInv
<1>11. QED
  BY <1>7, <1>8, <1>9, <1>10 DEF RestsInv

LEMMA FailInv == \A u \in Turn : RouteInv /\ Fail(u) => RouteInv'
<1> SUFFICES ASSUME RouteInv, NEW u \in Turn, Fail(u) PROVE RouteInv'
  OBVIOUS
<1>1. /\ Live(chain[u]) /\ Current(u) # Offline
      /\ UNCHANGED <<cooldowns, asked, owed>>
  BY DEF Fail, Attempting, Live, Underway
<1>2. Current(u) \in Keys
  BY <1>1, CurrentFacts DEF RouteInv
<1>3. Silent(u) \in BOOLEAN
  BY DEF Silent
<1>4. PICK error \in Codes(Silent(u)) :
        LET f == classify_provider_error[error]
        IN  \/ MayRetry(u, f) /\ Retry(u) /\ UNCHANGED marks
            \/ /\ ~MayRetry(u, f)
               /\ ReadRest(u, Current(u), error, f.rest)
               /\ GoOn(u, "target", chain[u].index, chain[u].attempt, chain[u].output)
  BY DEF Fail
<1> DEFINE f == classify_provider_error[error]
<1>5. f.rest \in Nat /\ error \in Code
  BY <1>3, FailureFacts, FailureIsKnown
<1>6. CASE MayRetry(u, f) /\ Retry(u) /\ UNCHANGED marks
  <2>1. RestsInv' /\ \A w \in Turn : KnowsWhy(w)'
    BY <1>1, <1>6, GoesOnUnmarked DEF Retry
  <2>2. ChainsInv'
    BY <1>1, <1>6, RetryFacts DEF RouteInv
  <2>3. QED
    BY <2>1, <2>2 DEF RouteInv
<1>7. CASE /\ ReadRest(u, Current(u), error, f.rest)
           /\ GoOn(u, "target", chain[u].index, chain[u].attempt, chain[u].output)
  BY <1>1, <1>2, <1>5, <1>7, ReadKeepsRests
<1>8. QED
  BY <1>4, <1>6, <1>7

\* A turn that marks a failure has asked a provider, and knows the failure.
LEMMA MarkingFacts ==
    ASSUME RouteInv, NEW u \in Turn, Marking(u)
    PROVE  /\ Live(chain[u]) /\ Current(u) # Offline
           /\ Current(u) \in Keys /\ ProviderAt(u) \in Keys
           /\ marks[u].code \in Codes(Silent(u)) /\ marks[u].code \in Code
           /\ marks[u].due \in Nat
<1>1. Live(chain[u])
  BY DEF Marking, Live, Underway
<1>2. marks[u].code \in Codes(Silent(u)) /\ Current(u) # Offline
  BY DEF RouteInv, KnowsWhy
<1>3. Current(u) \in Keys /\ ProviderAt(u) \in Keys
  BY <1>1, <1>2, CurrentFacts DEF RouteInv
<1>4. marks[u].code \in Code /\ marks[u].due \in Nat
  BY DEF RouteInv, RestsInv, RestsType
<1>5. QED
  BY <1>1, <1>2, <1>3, <1>4

LEMMA WriteTargetInv == \A u \in Turn : RouteInv /\ WriteTarget(u) => RouteInv'
<1> SUFFICES ASSUME RouteInv, NEW u \in Turn, WriteTarget(u) PROVE RouteInv'
  OBVIOUS
<1> DEFINE c == Chain("between", chain[u].candidates, chain[u].eligible, chain[u].index,
                      chain[u].attempt, chain[u].output, chain[u].resting)
<1>1. chain[u].phase = "target" /\ Marking(u)
  BY DEF WriteTarget, Marking
<1>2. /\ Live(chain[u]) /\ Current(u) \in Keys /\ Current(u) # Offline
      /\ marks[u].code \in Codes(Silent(u))
  BY <1>1, MarkingFacts
<1>3. u \in PendingAt(Current(u))
  BY <1>1 DEF PendingAt
<1>4. /\ WriteRest(u, Current(u)) /\ UNCHANGED <<marks, asked>>
      /\ GoOn(u, "between", chain[u].index, chain[u].attempt, chain[u].output)
  BY DEF WriteTarget
<1>5. chain' = [chain EXCEPT ![u] = c] /\ c.phase \notin {"target", "provider"}
  BY <1>4 DEF GoOn, Chain
<1> HIDE DEF c
<1>6. /\ marks' \in [Turn -> [code : Code, due : Nat, longest : Nat]]
      /\ \A w \in Turn : marks'[w] = marks[w] /\ marks'[w].due <= marks'[w].longest
  BY <1>4 DEF RouteInv, RestsInv, RestsType
<1>7. RestsInv'
  BY <1>2, <1>3, <1>4, <1>5, <1>6, WriteKeepsRests
<1>8. /\ ChainsInv' /\ Silent(u)' = Silent(u) /\ Current(u)' = Current(u)
  BY <1>2, <1>4, StaysFacts DEF RouteInv
<1>9. ASSUME NEW w \in Turn PROVE KnowsWhy(w)'
  <2>1. CASE w = u
    BY <1>2, <1>4, <1>8, <2>1 DEF KnowsWhy
  <2>2. CASE w # u
    BY <1>4, <1>5, <2>2, OthersStay DEF RouteInv, KnowsWhy
  <2>3. QED
    BY <2>1, <2>2
<1>10. QED
  BY <1>7, <1>8, <1>9 DEF RouteInv

LEMMA ReadProviderInv == \A u \in Turn : RouteInv /\ ReadProvider(u) => RouteInv'
<1> SUFFICES ASSUME RouteInv, NEW u \in Turn, ReadProvider(u) PROVE RouteInv'
  OBVIOUS
<1>1. Marking(u)
  BY DEF ReadProvider, Marking
<1>2. /\ ReadRest(u, ProviderAt(u), marks[u].code, marks[u].due)
      /\ GoOn(u, "provider", chain[u].index, chain[u].attempt, chain[u].output)
      /\ UNCHANGED <<cooldowns, asked, owed>>
  BY DEF ReadProvider
<1>3. QED
  BY <1>1, <1>2, MarkingFacts, ReadKeepsRests

\* Before an answer the next candidate is left, and in its middle the request fails.
LEMMA WriteProviderInv == \A u \in Turn : RouteInv /\ WriteProvider(u) => RouteInv'
<1> SUFFICES ASSUME RouteInv, NEW u \in Turn, WriteProvider(u) PROVE RouteInv'
  OBVIOUS
<1> DEFINE f == classify_provider_error[marks[u].code]
<1>1. chain[u].phase = "provider" /\ Marking(u)
  BY DEF WriteProvider, Marking
<1>2. /\ Live(chain[u]) /\ ProviderAt(u) \in Keys /\ Current(u) # Offline
      /\ marks[u].code \in Codes(Silent(u))
  BY <1>1, MarkingFacts
<1>3. u \in PendingAt(ProviderAt(u))
  BY <1>1 DEF PendingAt
<1>4. /\ WriteRest(u, ProviderAt(u)) /\ UNCHANGED asked
      /\ marks' = [marks EXCEPT ![u] = NoMark]
      /\ IF f.fallbackable /\ ~IsLast(u) THEN FallBack(u)
         ELSE Ended(u, "failed", chain[u].output)
  BY DEF WriteProvider
<1>5. ChainsInv'
  <2>1. CASE f.fallbackable /\ ~IsLast(u)
    <3>1. FallBack(u) /\ Silent(u) \in BOOLEAN
      BY <1>4, <2>1 DEF Silent
    <3>2. Silent(u)
      BY <1>2, <2>1, <3>1, FailureFacts
    <3>3. QED
      BY <1>2, <3>1, <3>2, FallBackFacts DEF RouteInv
  <2>2. CASE ~(f.fallbackable /\ ~IsLast(u))
    <3>1. Ended(u, "failed", chain[u].output)
      BY <1>4, <2>2
    <3>2. QED
      BY <1>2, <2>2, <3>1, FailedFacts DEF RouteInv
  <2>3. QED
    BY <2>1, <2>2
<1>6. PICK c : /\ chain' = [chain EXCEPT ![u] = c]
               /\ c.phase \notin {"target", "between", "provider"}
  <2> DEFINE next == Chain("open", chain[u].candidates, chain[u].eligible, Min(Later(u)), 0,
                           chain[u].output, chain[u].resting)
             ended == Idle("failed", chain[u].output)
  <2>1. next.phase = "open" /\ ended.phase = "failed"
    BY DEF Idle, Chain
  <2>2. \/ chain' = [chain EXCEPT ![u] = next]
        \/ chain' = [chain EXCEPT ![u] = ended]
    BY <1>4 DEF FallBack, GoOn, Ended
  <2> HIDE DEF next, ended
  <2>3. QED
    BY <2>1, <2>2
<1>7. /\ marks' \in [Turn -> [code : Code, due : Nat, longest : Nat]]
      /\ \A w \in Turn \ {u} : marks'[w] = marks[w]
      /\ marks'[u].due <= marks'[u].longest
  <2>1. NoMark \in [code : Code, due : Nat, longest : Nat] /\ NoMark.due <= NoMark.longest
    BY DEF NoMark, RestMark, Code
  <2>2. QED
    BY <1>4, <2>1 DEF RouteInv, RestsInv, RestsType
<1>8. RestsInv'
  BY <1>2, <1>3, <1>4, <1>6, <1>7, WriteKeepsRests
<1>9. ASSUME NEW w \in Turn PROVE KnowsWhy(w)'
  <2>1. CASE w = u
    <3>1. chain'[u] = c
      BY <1>6 DEF RouteInv, ChainsInv
    <3>2. QED
      BY <1>6, <2>1, <3>1 DEF KnowsWhy, Marking
  <2>2. CASE w # u
    BY <1>6, <1>7, <2>2, OthersStay DEF RouteInv, KnowsWhy
  <2>3. QED
    BY <2>1, <2>2
<1>10. QED
  BY <1>5, <1>8, <1>9 DEF RouteInv

LEMMA RouteNextInv == RouteInv /\ [RouteNext]_routeVars => RouteInv'
<1> SUFFICES ASSUME RouteInv, [RouteNext]_routeVars PROVE RouteInv'
  OBVIOUS
<1>1. CASE Tick
  BY <1>1, TickInv
<1>2. ASSUME NEW u \in Turn, Ask(u) PROVE RouteInv'
  BY <1>2, AskInv
<1>3. ASSUME NEW u \in Turn, OfflineAnswer(u) PROVE RouteInv'
  BY <1>3, OfflineAnswerInv
<1>4. ASSUME NEW u \in Turn, OpenStream(u) PROVE RouteInv'
  BY <1>4, OpenStreamInv
<1>5. ASSUME NEW u \in Turn, Chunk(u) PROVE RouteInv'
  BY <1>5, ChunkInv
<1>6. ASSUME NEW u \in Turn, Done(u) PROVE RouteInv'
  BY <1>6, DoneInv
<1>7. ASSUME NEW u \in Turn, Fail(u) PROVE RouteInv'
  BY <1>7, FailInv
<1>8. ASSUME NEW u \in Turn, HangUp(u) PROVE RouteInv'
  BY <1>8, HangUpInv
<1>9. CASE UNCHANGED routeVars
  <2>1. RestsInv'
    BY <1>9 DEF RouteInv, RestsInv, RestsType, PendingAt, Current, ProviderAt, routeVars
  <2>2. ChainsInv'
    BY <1>9 DEF RouteInv, ChainsInv, routeVars
  <2>3. ASSUME NEW u \in Turn PROVE KnowsWhy(u)'
    BY <1>9 DEF RouteInv, KnowsWhy, Marking, Current, Silent, Attempt, routeVars
  <2>4. QED
    BY <2>1, <2>2, <2>3 DEF RouteInv
<1>10. ASSUME NEW u \in Turn, mark_failure(u) PROVE RouteInv'
  BY <1>10, WriteTargetInv, ReadProviderInv, WriteProviderInv DEF mark_failure
<1>11. QED
  BY <1>1, <1>2, <1>3, <1>4, <1>5, <1>6, <1>7, <1>8, <1>9, <1>10 DEF RouteNext, RouteStep

-----------------------------------------------------------------------------
(* The theorems.                                                           *)

\* In every state the table covers its debts and every generator is sound.
THEOREM RouteIsSound == RouteSpec => []RouteInv
<1>1. RouteInit => RouteInv
  BY RouteInitInv
<1>2. RouteInv /\ [RouteNext]_routeVars => RouteInv'
  BY RouteNextInv
<1>3. QED
  BY <1>1, <1>2, PTL DEF RouteSpec

LEMMA RouteInvType == RouteInv => RouteTypeOK
<1> SUFFICES ASSUME RouteInv PROVE RouteTypeOK
  OBVIOUS
<1>1. ASSUME NEW u \in Turn
      PROVE  /\ chain[u].phase \in {"unasked", "open", "stream", "target", "between", "provider",
                                  "answered", "failed", "dropped"}
             /\ {marks[u].due, marks[u].longest} \subseteq Nat
             /\ chain[u].attempt \in 0 .. MaxRetries
             /\ chain[u].eligible \subseteq DOMAIN chain[u].candidates
             /\ Asking(u) => chain[u].index \in chain[u].eligible
  <2>1. chain[u] \in ChainType /\ Sound(chain[u])
    BY DEF RouteInv, ChainsInv
  <2>2. {marks[u].due, marks[u].longest} \subseteq Nat
    BY DEF RouteInv, RestsInv, RestsType
  <2>3. QED
    BY <2>1, <2>2 DEF ChainType, Phase, Underway, Sound, Placed, Live, Asking, Attempting, Marking
<1>2. QED
  BY <1>1 DEF RouteTypeOK, RouteInv, RestsInv, RestsType

\* The state has its shape: a live generator stands at a candidate that was let
\* in, and no candidate is tried more often than max_same_target_retries says.
THEOREM RouteTypeCorrect == RouteSpec => []RouteTypeOK
  BY RouteInvType, RouteIsSound, PTL

\* However many turns fail, retry and fall back on one table, what a browser gets
\* comes from one attempt at one candidate, and a whole answer is never empty.
THEOREM RouteAnswersFromOneAttempt == RouteSpec => []AnswerFromOneAttempt
<1>1. RouteInv => AnswerFromOneAttempt
  BY DEF RouteInv, ChainsInv, Sound, AnswerFromOneAttempt
<1>2. QED
  BY <1>1, RouteIsSound, PTL

\* No request asks a target that was to rest when the request began, by the failures of
\* any turn, unless another turn's mark_failure wrote over that rest.
THEOREM RouteLetsRest == RouteSpec => []RestingIsNotAsked
<1>1. RouteInv => RestingIsNotAsked
  <2> SUFFICES ASSUME RouteInv, NEW u \in Turn, Asking(u)
               PROVE  Current(u) \notin chain[u].resting
    BY DEF RestingIsNotAsked
  <2>1. Placed(chain[u])
    BY DEF RouteInv, ChainsInv, Sound, Live, Underway, Asking, Attempting, Marking
  <2>2. QED
    BY <2>1 DEF Placed, Current
<1>2. QED
  BY <1>1, RouteIsSound, PTL

\* Whatever list is configured and whatever rests or fails, a request that has
\* given nothing out does not fail: the offline route is left.
THEOREM RouteEndsOffline == RouteSpec => []OfflineIsLeft
<1>1. RouteInv => OfflineIsLeft
  BY DEF RouteInv, ChainsInv, Sound, OfflineIsLeft
<1>2. QED
  BY <1>1, RouteIsSound, PTL

\* However many turns fail at whatever targets and however their reads and writes of the
\* table interleave, a rest that no other turn writes over keeps its target and its provider
\* away from the requests that follow, and every request has somebody left to answer it.
THEOREM RouteRestsAndAnswers == RouteSpec => []RestsLeaveAnAnswer
<1>1. RestingIsNotAsked /\ OfflineIsLeft => RestsLeaveAnAnswer
  BY DEF RestsLeaveAnAnswer
<1>2. QED
  BY <1>1, RouteLetsRest, RouteEndsOffline, PTL

-----------------------------------------------------------------------------
(* The self-evolve loop, for any cases, any grades, any threshold of samples *)
(* and any length of a run.                                                *)

Reviewing  == {"evaluate", "challenger", "archive"}
Running    == Reviewing \cup {"case", "candidate", "packet", "complete"}
Confirming == {"champion", "decision", "library"}

LoopFile     == [status : {"open", "complete", "torn"}, completed : SUBSET Case]
Entered   == {"challenger", "promotion_recommended"}
RegistryFile == [status : Entered \cup {"absent", "torn", "promoted"},
                 of : SUBSET Case, champion : BOOLEAN]
PacketFile   == [status : {"absent", "torn", "blocked_challenger", "promotion_recommended",
                           "promoted", "rejected"},
                 of : SUBSET Case, decision : {"none", "promote", "reject"}]

RunCommand     == [pc : Running, own : LoopFile, at : Nat \ {0}, left : Int, seen : SUBSET Case]
ConfirmCommand == [pc : Confirming, decision : {"promote", "reject"},
                   packet : PacketFile]

FilesType ==
    /\ loop \in LoopFile
    /\ evals \in [Case -> {"absent", "torn", "written"}]
    /\ registry \in RegistryFile
    /\ packet \in PacketFile
    /\ library \in {"absent", "challenger", "promotion_recommended", "champion", "rejected"}
    /\ approved \in SUBSET {"packet", "library"}

PlaceInv ==
    /\ command.pc \in {"none", "sync"} \cup Running \cup Confirming
    /\ command.pc = "sync" => registry.status \in Entered

\* A run has the loop's file in memory; what it reviews is not completed, and what
\* it shows is all that is.
RunInv ==
    command.pc \in Running =>
        /\ command \in RunCommand
        /\ command.own = loop /\ loop.status # "torn"
        /\ command.pc \in Reviewing =>
               /\ loop.status = "open" /\ command.at \in Case /\ command.at \notin loop.completed
               /\ command.pc # "evaluate" => evals[command.at] = "written"
        /\ command.pc \in {"packet", "complete"} =>
               /\ registry.status \in Entered /\ registry.of = loop.completed
               /\ command.seen = loop.completed
        /\ command.pc = "complete" => Whole(packet) /\ packet.of = loop.completed

\* A decision is about the packet that is there, and is approved if it promotes.
ConfirmInv ==
    command.pc \in Confirming =>
        /\ command \in ConfirmCommand
        /\ command.pc \in {"champion", "decision"} => command.packet = packet /\ Whole(packet)
        /\ command.pc = "champion" => command.decision = "promote"
        /\ command.decision = "promote" =>
               /\ "packet" \in approved
               /\ command.pc \in {"champion", "decision"} => ~promotion_blockers(packet.of)

CommandInv == PlaceInv /\ RunInv /\ ConfirmInv

EvolveInv == FilesType /\ CommandInv /\ EvolutionIsSound

-----------------------------------------------------------------------------
(* The invariant.                                                          *)

LEMMA EvolveInvInit == EvolveInit => EvolveInv
BY DEF EvolveInit, EvolveInv, FilesType, LoopFile, RegistryFile, PacketFile, Entered, AtRest,
       CommandInv, PlaceInv, RunInv, ConfirmInv, RunCommand, ConfirmCommand, Running, Confirming, Reviewing,
       EvolutionIsSound, EvidenceIsCounted, ChampionIsApproved, Whole

\* What mark_stage leaves the command and the file with.
LEMMA Marked ==
    ASSUME NEW own \in LoopFile, NEW pc \in Running, NEW at \in Nat \ {0}, NEW left \in Int,
           command \in RunCommand, Mark(own, pc, at, left)
    PROVE  /\ command' \in RunCommand /\ loop' = own
           /\ command'.own = own /\ command'.pc = pc /\ command'.at = at
BY DEF Mark, RunCommand

\* What a run leaves its cases with.
LEMMA RunGoesOn ==
    ASSUME NEW pc \in Running, NEW at \in Nat \ {0}, NEW left \in Int, NEW seen \in SUBSET Case,
           command \in RunCommand
    PROVE  [command EXCEPT !.pc = pc, !.at = at, !.left = left, !.seen = seen] \in RunCommand
BY DEF RunCommand

LEMMA EvolveInvNext == EvolveInv /\ [EvolveNext]_evolveVars => EvolveInv'
<1> SUFFICES ASSUME EvolveInv, [EvolveNext]_evolveVars
             PROVE  FilesType' /\ CommandInv' /\ EvidenceIsCounted' /\ ChampionIsApproved'
  BY DEF EvolveInv, EvolutionIsSound
<1> USE DEF EvolveInv, FilesType, LoopFile, RegistryFile, PacketFile, Entered, AtRest,
            CommandInv, PlaceInv, RunInv, ConfirmInv, RunCommand, ConfirmCommand, Running, Confirming, Reviewing,
            EvolutionIsSound, EvidenceIsCounted, ChampionIsApproved, Whole
<1>1. CASE self_evolve
  <2>1. FilesType'
    BY <1>1 DEF self_evolve, Reviewed
  <2>2. PlaceInv'
    BY <1>1 DEF self_evolve, Reviewed
  <2>3. RunInv'
    <3>1. (command \in RunCommand)'
      <4>1. Reviewed(loop.completed) \in SUBSET Case /\ MaxIterations \in Int /\ loop \in LoopFile
        BY EvolveAssumption DEF Reviewed
      <4> HIDE DEF LoopFile
      <4>2. QED
        BY <1>1, <4>1 DEF self_evolve
    <3>2. QED
      BY <3>1, <1>1 DEF self_evolve, Reviewed
  <2>4. ConfirmInv'
    BY <1>1 DEF self_evolve, Reviewed
  <2>5. EvidenceIsCounted'
    BY <1>1 DEF self_evolve, Reviewed
  <2>6. ChampionIsApproved'
    BY <1>1 DEF self_evolve, Reviewed
  <2>7. QED
    BY <2>1, <2>2, <2>3, <2>4, <2>5, <2>6
<1>2. CASE RunCase
  <2>1. FilesType'
    BY <1>2 DEF RunCase, Mark, Upcoming, Case
  <2>2. PlaceInv'
    BY <1>2 DEF RunCase, Mark, Upcoming, Case
  <2>3. RunInv'
    <3>1. (command \in RunCommand)'
      <4>1. PICK c \in Upcoming : Mark([command.own EXCEPT !.status = "open"], "evaluate", c, command.left)
        BY <1>2 DEF RunCase
      <4>2. c \in Nat \ {0} /\ command.left \in Int /\ command \in RunCommand
        BY <1>2 DEF RunCase, Upcoming
      <4>3. [command.own EXCEPT !.status = "open"] \in LoopFile
        BY <4>2
      <4>4. QED
        BY <4>1, <4>2, <4>3, Marked
    <3>2. QED
      BY <3>1, <1>2 DEF RunCase, Mark, Upcoming, Case
  <2>4. ConfirmInv'
    BY <1>2 DEF RunCase, Mark, Upcoming, Case
  <2>5. EvidenceIsCounted'
    BY <1>2 DEF RunCase, Mark, Upcoming, Case
  <2>6. ChampionIsApproved'
    BY <1>2 DEF RunCase, Mark, Upcoming, Case
  <2>7. QED
    BY <2>1, <2>2, <2>3, <2>4, <2>5, <2>6
<1>3. CASE BudgetGate
  <2>1. FilesType'
    BY <1>3 DEF BudgetGate, Mark
  <2>2. PlaceInv'
    BY <1>3 DEF BudgetGate, Mark
  <2>3. RunInv'
    BY <1>3 DEF BudgetGate, Mark
  <2>4. ConfirmInv'
    BY <1>3 DEF BudgetGate, Mark
  <2>5. EvidenceIsCounted'
    BY <1>3 DEF BudgetGate, Mark
  <2>6. ChampionIsApproved'
    BY <1>3 DEF BudgetGate, Mark
  <2>7. QED
    BY <2>1, <2>2, <2>3, <2>4, <2>5, <2>6
<1>4. CASE LeaveCases
  <2>1. FilesType'
    BY <1>4 DEF LeaveCases
  <2>2. PlaceInv'
    BY <1>4 DEF LeaveCases
  <2>3. RunInv'
    <3>1. (command \in RunCommand)'
      <4>1. command \in RunCommand /\ command' = [command EXCEPT !.pc = "candidate", !.at = 1, !.left = 0, !.seen = {}]
        BY <1>4 DEF LeaveCases
      <4>2. /\ "candidate" \in Running /\ 1 \in Nat \ {0} /\ 0 \in Int /\ {} \in SUBSET Case
        OBVIOUS
      <4>3. QED
        BY <4>1, <4>2, RunGoesOn
    <3>2. QED
      BY <3>1, <1>4 DEF LeaveCases
  <2>4. ConfirmInv'
    BY <1>4 DEF LeaveCases
  <2>5. EvidenceIsCounted'
    BY <1>4 DEF LeaveCases
  <2>6. ChampionIsApproved'
    BY <1>4 DEF LeaveCases
  <2>7. QED
    BY <2>1, <2>2, <2>3, <2>4, <2>5, <2>6
<1>5. CASE EvaluateCase
  <2>1. FilesType'
    BY <1>5 DEF EvaluateCase
  <2>2. PlaceInv'
    BY <1>5 DEF EvaluateCase
  <2>3. RunInv'
    BY <1>5 DEF EvaluateCase
  <2>4. ConfirmInv'
    BY <1>5 DEF EvaluateCase
  <2>5. EvidenceIsCounted'
    BY <1>5 DEF EvaluateCase
  <2>6. ChampionIsApproved'
    BY <1>5 DEF EvaluateCase
  <2>7. QED
    BY <2>1, <2>2, <2>3, <2>4, <2>5, <2>6
<1>6. CASE RegisterChallenger
  <2>1. FilesType'
    BY <1>6 DEF RegisterChallenger, register_candidate
  <2>2. PlaceInv'
    BY <1>6 DEF RegisterChallenger, register_candidate
  <2>3. RunInv'
    BY <1>6 DEF RegisterChallenger, register_candidate
  <2>4. ConfirmInv'
    BY <1>6 DEF RegisterChallenger, register_candidate
  <2>5. EvidenceIsCounted'
    BY <1>6 DEF RegisterChallenger, register_candidate
  <2>6. ChampionIsApproved'
    BY <1>6 DEF RegisterChallenger, register_candidate
  <2>7. QED
    BY <2>1, <2>2, <2>3, <2>4, <2>5, <2>6
<1>7. CASE CaseFails
  <2>1. FilesType'
    BY <1>7 DEF CaseFails, Mark, Case
  <2>2. PlaceInv'
    BY <1>7 DEF CaseFails, Mark, Case
  <2>3. RunInv'
    <3>1. (command \in RunCommand)'
      <4>1. command.at + 1 \in Nat \ {0} /\ command.left \in Int /\ command \in RunCommand
        BY <1>7 DEF CaseFails
      <4>2. [command.own EXCEPT !.status = "open"] \in LoopFile
        BY <4>1
      <4>3. QED
        BY <1>7, <4>1, <4>2, Marked DEF CaseFails
    <3>2. QED
      BY <3>1, <1>7 DEF CaseFails, Mark, Case
  <2>4. ConfirmInv'
    BY <1>7 DEF CaseFails, Mark, Case
  <2>5. EvidenceIsCounted'
    BY <1>7 DEF CaseFails, Mark, Case
  <2>6. ChampionIsApproved'
    BY <1>7 DEF CaseFails, Mark, Case
  <2>7. QED
    BY <2>1, <2>2, <2>3, <2>4, <2>5, <2>6
<1>8. CASE CompleteCase
  <2>1. FilesType'
    <3>1. command.own \in LoopFile /\ command.at \in Case
      BY <1>8 DEF CompleteCase
    <3>2. [command.own EXCEPT !.status = "open", !.completed = @ \cup {command.at}] \in LoopFile
      BY <3>1
    <3>3. loop' \in LoopFile /\ UNCHANGED <<evals, registry, packet, library, approved>>
      BY <1>8, <3>2 DEF CompleteCase, Mark
    <3> HIDE DEF LoopFile, RegistryFile, PacketFile
    <3>4. QED
      BY <3>3
  <2>2. PlaceInv'
    BY <1>8 DEF CompleteCase, Mark, Case
  <2>3. RunInv'
    <3>1. (command \in RunCommand)'
      <4>1. command.at + 1 \in Nat \ {0} /\ command.left - 1 \in Int /\ command \in RunCommand
        BY <1>8 DEF CompleteCase
      <4>2. [command.own EXCEPT !.status = "open", !.completed = @ \cup {command.at}] \in LoopFile
        BY <1>8, <4>1 DEF CompleteCase
      <4>3. QED
        BY <1>8, <4>1, <4>2, Marked DEF CompleteCase
    <3>2. QED
      BY <3>1, <1>8 DEF CompleteCase, Mark, Case
  <2>4. ConfirmInv'
    BY <1>8 DEF CompleteCase, Mark, Case
  <2>5. EvidenceIsCounted'
    BY <1>8 DEF CompleteCase, Mark, Case
  <2>6. ChampionIsApproved'
    BY <1>8 DEF CompleteCase, Mark, Case
  <2>7. QED
    BY <2>1, <2>2, <2>3, <2>4, <2>5, <2>6
<1>9. CASE RegisterCandidate
  <2>1. FilesType'
    BY <1>9 DEF RegisterCandidate, register_candidate, Reviewed
  <2>2. PlaceInv'
    BY <1>9 DEF RegisterCandidate, register_candidate, Reviewed
  <2>3. RunInv'
    <3>1. (command \in RunCommand)'
      BY <1>9 DEF RegisterCandidate, register_candidate, Reviewed
    <3>2. command.own = loop /\ loop.status # "torn" /\ Reviewed(command.own.completed) = loop.completed
      BY <1>9 DEF RegisterCandidate, Reviewed
    <3>3. /\ command'.own = command.own /\ command'.pc = "packet" /\ command'.seen = loop.completed
          /\ registry'.status \in Entered /\ registry'.of = loop.completed
      BY <1>9, <3>2 DEF RegisterCandidate, register_candidate
    <3>4. QED
      BY <3>1, <3>2, <3>3, <1>9 DEF RegisterCandidate
  <2>4. ConfirmInv'
    BY <1>9 DEF RegisterCandidate, register_candidate, Reviewed
  <2>5. EvidenceIsCounted'
    BY <1>9 DEF RegisterCandidate, register_candidate, Reviewed
  <2>6. ChampionIsApproved'
    BY <1>9 DEF RegisterCandidate, register_candidate, Reviewed
  <2>7. QED
    BY <2>1, <2>2, <2>3, <2>4, <2>5, <2>6
<1>10. CASE WritePacket
  <2>1. FilesType'
    BY <1>10 DEF WritePacket
  <2>2. PlaceInv'
    BY <1>10 DEF WritePacket
  <2>3. RunInv'
    BY <1>10 DEF WritePacket
  <2>4. ConfirmInv'
    BY <1>10 DEF WritePacket
  <2>5. EvidenceIsCounted'
    BY <1>10 DEF WritePacket
  <2>6. ChampionIsApproved'
    BY <1>10 DEF WritePacket
  <2>7. QED
    BY <2>1, <2>2, <2>3, <2>4, <2>5, <2>6
<1>11. CASE CompleteRun
  <2>1. FilesType'
    BY <1>11 DEF CompleteRun
  <2>2. PlaceInv'
    BY <1>11 DEF CompleteRun
  <2>3. RunInv'
    BY <1>11 DEF CompleteRun
  <2>4. ConfirmInv'
    BY <1>11 DEF CompleteRun
  <2>5. EvidenceIsCounted'
    BY <1>11 DEF CompleteRun
  <2>6. ChampionIsApproved'
    BY <1>11 DEF CompleteRun
  <2>7. QED
    BY <2>1, <2>2, <2>3, <2>4, <2>5, <2>6
<1>12. CASE SyncLibrary
  <2>1. FilesType'
    BY <1>12 DEF SyncLibrary
  <2>2. PlaceInv'
    BY <1>12 DEF SyncLibrary
  <2>3. RunInv'
    BY <1>12 DEF SyncLibrary
  <2>4. ConfirmInv'
    BY <1>12 DEF SyncLibrary
  <2>5. EvidenceIsCounted'
    BY <1>12 DEF SyncLibrary
  <2>6. ChampionIsApproved'
    BY <1>12 DEF SyncLibrary
  <2>7. QED
    BY <2>1, <2>2, <2>3, <2>4, <2>5, <2>6
<1>13. ASSUME NEW decision \in {"promote", "reject"}, confirm_promotion(decision)
       PROVE  FilesType' /\ CommandInv' /\ EvidenceIsCounted' /\ ChampionIsApproved'
  <2>1. FilesType'
    BY <1>13 DEF confirm_promotion
  <2>2. PlaceInv'
    BY <1>13 DEF confirm_promotion
  <2>3. RunInv'
    BY <1>13 DEF confirm_promotion
  <2>4. ConfirmInv'
    BY <1>13 DEF confirm_promotion
  <2>5. EvidenceIsCounted'
    BY <1>13 DEF confirm_promotion
  <2>6. ChampionIsApproved'
    BY <1>13 DEF confirm_promotion
  <2>7. QED
    BY <2>1, <2>2, <2>3, <2>4, <2>5, <2>6
<1>14. CASE RegisterChampion
  <2>1. FilesType'
    BY <1>14 DEF RegisterChampion, register_candidate
  <2>2. PlaceInv'
    BY <1>14 DEF RegisterChampion, register_candidate
  <2>3. RunInv'
    BY <1>14 DEF RegisterChampion, register_candidate
  <2>4. ConfirmInv'
    BY <1>14 DEF RegisterChampion, register_candidate
  <2>5. EvidenceIsCounted'
    BY <1>14 DEF RegisterChampion, register_candidate
  <2>6. ChampionIsApproved'
    BY <1>14 DEF RegisterChampion, register_candidate
  <2>7. QED
    BY <2>1, <2>2, <2>3, <2>4, <2>5, <2>6
<1>15. CASE RecordDecision
  <2>1. FilesType'
    <3>1. packet \in PacketFile /\ command.packet = packet /\ command.decision \in {"promote", "reject"}
      BY <1>15 DEF RecordDecision
    <3>2. packet' \in PacketFile
      BY <1>15, <3>1 DEF RecordDecision, StatusOf
    <3> HIDE DEF PacketFile
    <3>3. QED
      BY <1>15, <3>2 DEF RecordDecision
  <2>2. PlaceInv'
    BY <1>15 DEF RecordDecision, StatusOf
  <2>3. RunInv'
    BY <1>15 DEF RecordDecision, StatusOf
  <2>4. ConfirmInv'
    BY <1>15 DEF RecordDecision, StatusOf
  <2>5. EvidenceIsCounted'
    BY <1>15 DEF RecordDecision, StatusOf
  <2>6. ChampionIsApproved'
    BY <1>15 DEF RecordDecision, StatusOf
  <2>7. QED
    BY <2>1, <2>2, <2>3, <2>4, <2>5, <2>6
<1>16. CASE ListDecision
  <2>1. FilesType'
    BY <1>16 DEF ListDecision, StatusOf
  <2>2. PlaceInv'
    BY <1>16 DEF ListDecision, StatusOf
  <2>3. RunInv'
    BY <1>16 DEF ListDecision, StatusOf
  <2>4. ConfirmInv'
    BY <1>16 DEF ListDecision, StatusOf
  <2>5. EvidenceIsCounted'
    BY <1>16 DEF ListDecision, StatusOf
  <2>6. ChampionIsApproved'
    BY <1>16 DEF ListDecision, StatusOf
  <2>7. QED
    BY <2>1, <2>2, <2>3, <2>4, <2>5, <2>6
<1>17. CASE promote_rule \/ reject_rule
  <2>1. FilesType'
    BY <1>17 DEF promote_rule, reject_rule
  <2>2. PlaceInv'
    BY <1>17 DEF promote_rule, reject_rule
  <2>3. RunInv'
    BY <1>17 DEF promote_rule, reject_rule
  <2>4. ConfirmInv'
    BY <1>17 DEF promote_rule, reject_rule
  <2>5. EvidenceIsCounted'
    BY <1>17 DEF promote_rule, reject_rule
  <2>6. ChampionIsApproved'
    BY <1>17 DEF promote_rule, reject_rule
  <2>7. QED
    BY <2>1, <2>2, <2>3, <2>4, <2>5, <2>6
<1>18. CASE Abort
  <2>1. FilesType'
    BY <1>18 DEF Abort
  <2>2. PlaceInv'
    BY <1>18 DEF Abort
  <2>3. RunInv'
    BY <1>18 DEF Abort
  <2>4. ConfirmInv'
    BY <1>18 DEF Abort
  <2>5. EvidenceIsCounted'
    BY <1>18 DEF Abort
  <2>6. ChampionIsApproved'
    BY <1>18 DEF Abort
  <2>7. QED
    BY <2>1, <2>2, <2>3, <2>4, <2>5, <2>6
<1>19. CASE Kill
  <2>1. FilesType'
    <3>1. loop' \in LoopFile
      BY <1>19 DEF Kill
    <3>2. evals' \in [Case -> {"absent", "torn", "written"}]
      BY <1>19 DEF Kill
    <3>3. registry' \in RegistryFile
      <4>1. registry' = registry \/ registry' = [status |-> "torn", of |-> {}, champion |-> FALSE]
        BY <1>19 DEF Kill
      <4>2. [status |-> "torn", of |-> {}, champion |-> FALSE] \in RegistryFile
        OBVIOUS
      <4>3. registry \in RegistryFile
        OBVIOUS
      <4> HIDE DEF RegistryFile
      <4>4. QED
        BY <4>1, <4>2, <4>3
    <3>4. packet' \in PacketFile
      BY <1>19 DEF Kill
    <3> HIDE DEF LoopFile, RegistryFile, PacketFile
    <3>5. QED
      BY <1>19, <3>1, <3>2, <3>3, <3>4 DEF Kill
  <2>2. PlaceInv'
    BY <1>19 DEF Kill
  <2>3. RunInv'
    BY <1>19 DEF Kill
  <2>4. ConfirmInv'
    BY <1>19 DEF Kill
  <2>5. EvidenceIsCounted'
    BY <1>19 DEF Kill
  <2>6. ChampionIsApproved'
    BY <1>19 DEF Kill
  <2>7. QED
    BY <2>1, <2>2, <2>3, <2>4, <2>5, <2>6
<1>20. CASE UNCHANGED evolveVars
  <2>1. FilesType'
    BY <1>20 DEF evolveVars
  <2>2. PlaceInv'
    BY <1>20 DEF evolveVars
  <2>3. RunInv'
    BY <1>20 DEF evolveVars
  <2>4. ConfirmInv'
    BY <1>20 DEF evolveVars
  <2>5. EvidenceIsCounted'
    BY <1>20 DEF evolveVars
  <2>6. ChampionIsApproved'
    BY <1>20 DEF evolveVars
  <2>7. QED
    BY <2>1, <2>2, <2>3, <2>4, <2>5, <2>6
<1>21. QED
  BY <1>1, <1>2, <1>3, <1>4, <1>5, <1>6, <1>7, <1>8, <1>9, <1>10, <1>11, <1>12, <1>13, <1>14,
     <1>15, <1>16, <1>17, <1>18, <1>19, <1>20 DEF EvolveNext

-----------------------------------------------------------------------------
(* What holds in every state.                                              *)

\* The files and the running command are what the next command relies on: a run has
\* the loop's file in memory, a decision the packet that is there.
THEOREM EvolveInvariant == EvolveSpec => []EvolveInv
<1>1. QED
  BY EvolveInvInit, EvolveInvNext, PTL DEF EvolveSpec

\* Cases, evaluations, registry, packet and the rule's row keep their shape.
THEOREM EvolveTypeCorrect == EvolveSpec => []EvolveTypeOK
<1>1. EvolveInv => EvolveTypeOK
  BY DEF EvolveInv, FilesType, LoopFile, RegistryFile, PacketFile, EvolveTypeOK
<1>2. QED
  BY <1>1, EvolveInvariant, PTL

\* A loop that is complete has the evidence of all its completed cases and of no
\* other, and whatever calls itself a champion was approved by a human; through any
\* number of runs, failures of cases, kills inside a write, and resumptions.
THEOREM EvolutionAlwaysSound == EvolveSpec => []EvolutionIsSound
<1>1. EvolveInv => EvolutionIsSound
  BY DEF EvolveInv
<1>2. QED
  BY <1>1, EvolveInvariant, PTL

-----------------------------------------------------------------------------
(* The installation of plugins, for any catalog and any number of requests. *)

WizardState == [plugin : Curated \cup {"none"},
                phase : {"closed", "fetch", "fetching", "probe", "record", "remove"},
                cleanup : BOOLEAN]

TypeInv ==
    /\ InstallTypeOK /\ wizard \in [Wizard -> WizardState]
    \* what is built in is there and is not fetched
    /\ \A p \in Curated : Kind[p] = "builtin" => code[p] = "whole"
    /\ \A w \in Wizard : wizard[w].phase \in {"fetch", "fetching"} =>
           Kind[wizard[w].plugin] # "builtin"

At(w, p) == wizard[w].plugin = p

\* What a request at p finds at its place.
Stage(w, p) ==
    /\ wizard[w].phase \in {"probe", "record"} => code[p] = "whole"
    /\ wizard[w].phase = "fetch" /\ Kind[p] = "git" => code[p] = "none"
    /\ wizard[w].phase = "fetching" /\ Kind[p] = "git" => code[p] # "whole"
    /\ wizard[w].phase \in {"fetch", "fetching"} /\ Kind[p] = "git" => wizard[w].cleanup
    /\ wizard[w].phase = "remove" => record[p] # "ACTIVE"

\* A plugin nobody has cast doubt on: one request is at it at most, what is recorded or
\* worked in is there, and half a checkout belongs to a request that fetches it.
Good(p) ==
    /\ \A w, x \in Wizard : At(w, p) /\ At(x, p) => w = x
    /\ record[p] = "ACTIVE" \/ p \in worked => code[p] = "whole"
    /\ Kind[p] = "git" /\ code[p] = "part" =>
           \E w \in Wizard : At(w, p) /\ wizard[w].phase = "fetching"
    /\ \A w \in Wizard : At(w, p) => Stage(w, p)

InstallInv == TypeInv /\ \A p \in Curated \ doubtful : Good(p)

\* Nothing of p, nor of a request at it, has changed.
Still(p) ==
    /\ code'[p] = code[p] /\ record'[p] = record[p] /\ (p \in worked' => p \in worked)
    /\ \A w \in Wizard : At(w, p) \/ At(w, p)' => wizard'[w] = wizard[w]

LEMMA StillGood == ASSUME NEW p \in Curated, Good(p), Still(p) PROVE Good(p)'
<1>1. \A w \in Wizard : At(w, p)' => At(w, p) /\ wizard'[w] = wizard[w]
  BY DEF Still, At
<1>2. \A w \in Wizard : At(w, p) => At(w, p)' /\ wizard'[w] = wizard[w]
  BY DEF Still, At
<1>3. (\A w, x \in Wizard : At(w, p) /\ At(x, p) => w = x)'
  BY <1>1 DEF Good
<1>4. (record[p] = "ACTIVE" \/ p \in worked => code[p] = "whole")'
  BY DEF Good, Still
<1>6. (Kind[p] = "git" /\ code[p] = "part" =>
           \E w \in Wizard : At(w, p) /\ wizard[w].phase = "fetching")'
  BY <1>2 DEF Good, Still
<1>7. (\A w \in Wizard : At(w, p) => Stage(w, p))'
  BY <1>1 DEF Good, Still, Stage
<1>8. QED
  BY <1>3, <1>4, <1>6, <1>7 DEF Good

\* A request that is open is at a plugin of the catalog, and only a checkout is
\* cleaned up.
LEMMA WizardFacts ==
    ASSUME TypeInv, NEW w \in Wizard, wizard[w].phase # "closed"
    PROVE  /\ wizard[w].plugin \in Curated
           /\ wizard[w].cleanup => Kind[wizard[w].plugin] = "git"
           /\ wizard[w].phase \in {"fetch", "fetching"} => Kind[wizard[w].plugin] # "builtin"
  BY DEF TypeInv, InstallTypeOK

LEMMA InitGood == InstallInit => InstallInv
<1> SUFFICES ASSUME InstallInit PROVE InstallInv
  OBVIOUS
<1>1. \A w \in Wizard : wizard[w] = Closed
  BY DEF InstallInit
<1>2. TypeInv
  BY <1>1, InstallAssumption DEF InstallInit, TypeInv, InstallTypeOK, WizardState, Closed
<1>3. \A p \in Curated : Good(p)
  BY <1>1, InstallAssumption DEF InstallInit, Good, At, Closed
<1>4. QED
  BY <1>2, <1>3 DEF InstallInv

-----------------------------------------------------------------------------
(* Each action of a request disturbs one plugin.                           *)

LEMMA OneDisturbed ==
    ASSUME InstallInv, TypeInv', NEW p \in Curated,
           \A q \in Curated \ {p} : Still(q) /\ (q \in doubtful => q \in doubtful'),
           p \notin doubtful' => Good(p)'
    PROVE  InstallInv'
<1>1. ASSUME NEW q \in Curated \ doubtful' PROVE Good(q)'
  <2>1. CASE q = p
    BY <2>1, <1>1
  <2>2. CASE q # p
    <3>1. q \in Curated /\ Good(q) /\ Still(q)
      BY <1>1, <2>2 DEF InstallInv
    <3>2. QED
      BY <3>1, StillGood
  <2>3. QED
    BY <2>1, <2>2
<1>2. QED
  BY <1>1 DEF InstallInv

CodeState   == {"none", "part", "whole"}
RecordState == {"none", "ACTIVE", "DISABLED", "REVOKED"}

\* A request becomes s, its plugin has the code c and the record r; if nobody doubts
\* it, nobody else is there, and s, c and r go together.
Moves(w, p, s, c, r) ==
    /\ wizard[w].plugin \in {p, "none"} /\ s.plugin \in {p, "none"}
    /\ s.plugin = p <=> s.phase # "closed"
    /\ s.cleanup => s.plugin = p /\ Kind[p] = "git"
    /\ wizard' = [wizard EXCEPT ![w] = s]
    /\ code' = [code EXCEPT ![p] = c] /\ record' = [record EXCEPT ![p] = r]
    /\ Kind[p] = "builtin" => c = "whole" /\ s.phase \notin {"fetch", "fetching"}
    /\ worked' \subseteq worked /\ wizards' \in 0 .. MaxWizards
    /\ doubtful' \subseteq doubtful \cup {p} /\ doubtful \subseteq doubtful' \cup {p}
    /\ p \notin doubtful' =>
           /\ \A x \in Wizard \ {w} : ~At(x, p)
           /\ r = "ACTIVE" \/ p \in worked' => c = "whole"
           /\ Kind[p] = "git" => /\ c = "part" => s.phase = "fetching"
                                 /\ s.phase = "fetch" => c = "none"
                                 /\ s.phase = "fetching" => c # "whole"
                                 /\ s.phase \in {"fetch", "fetching"} => s.cleanup
           /\ s.phase \in {"probe", "record"} => c = "whole"
           /\ s.phase = "remove" => r # "ACTIVE"

LEMMA Moved ==
    ASSUME InstallInv, NEW w \in Wizard, NEW p \in Curated,
           NEW s \in WizardState, NEW c \in CodeState, NEW r \in RecordState,
           Moves(w, p, s, c, r)
    PROVE  InstallInv'
<1> USE DEF Moves
<1>1. TypeInv /\ p # "none"
  BY InstallAssumption DEF InstallInv
<1>2. /\ \A x \in Wizard : wizard'[x] = IF x = w THEN s ELSE wizard[x]
      /\ \A q \in Curated : code'[q] = IF q = p THEN c ELSE code[q]
      /\ \A q \in Curated : record'[q] = IF q = p THEN r ELSE record[q]
  BY <1>1 DEF TypeInv, InstallTypeOK
<1>3. TypeInv'
  <2>1. wizard' \in [Wizard -> WizardState]
    BY <1>1 DEF TypeInv
  <2>2. code' \in [Curated -> CodeState] /\ record' \in [Curated -> RecordState]
    BY <1>1 DEF TypeInv, InstallTypeOK, CodeState, RecordState
  <2>3. \A x \in Wizard :
          /\ wizard'[x].plugin \in Curated <=> wizard'[x].phase # "closed"
          /\ wizard'[x].phase \in {"closed", "fetch", "fetching", "probe", "record", "remove"}
          /\ wizard'[x].cleanup => Kind[wizard'[x].plugin] = "git"
    BY <1>1, <1>2, InstallAssumption DEF TypeInv, InstallTypeOK, WizardState
  <2>4. worked' \subseteq Curated /\ doubtful' \subseteq Curated
    BY <1>1 DEF TypeInv, InstallTypeOK
  <2>5. \A q \in Curated : Kind[q] = "builtin" => code'[q] = "whole"
    BY <1>1, <1>2 DEF TypeInv
  <2>6. \A x \in Wizard : wizard'[x].phase \in {"fetch", "fetching"} =>
            Kind[wizard'[x].plugin] # "builtin"
    BY <1>1, <1>2 DEF TypeInv
  <2>7. QED
    BY <2>1, <2>2, <2>3, <2>4, <2>5, <2>6 DEF TypeInv, InstallTypeOK, CodeState, RecordState
<1>4. ASSUME NEW q \in Curated \ {p} PROVE Still(q) /\ (q \in doubtful => q \in doubtful')
  <2>1. ~At(w, q) /\ ~At(w, q)'
    BY <1>2, InstallAssumption DEF At
  <2>2. QED
    BY <1>2, <2>1 DEF Still
<1>5. ASSUME p \notin doubtful' PROVE Good(p)'
  <2>1. \A x \in Wizard : At(x, p)' => x = w
    BY <1>2, <1>5 DEF At
  <2>2. At(w, p)' => Stage(w, p)'
    BY <1>2, <1>5 DEF Stage
  <2>3. (Kind[p] = "git" /\ code[p] = "part" =>
           \E x \in Wizard : At(x, p) /\ wizard[x].phase = "fetching")'
    BY <1>2, <1>5 DEF At
  <2>4. (record[p] = "ACTIVE" \/ p \in worked => code[p] = "whole")'
    BY <1>2, <1>5
  <2>6. QED
    BY <2>1, <2>2, <2>3, <2>4 DEF Good
<1>6. QED
  BY <1>3, <1>4, <1>5, OneDisturbed

\* The state around a request, as Moved needs it.
LEMMA Around ==
    ASSUME InstallInv, NEW p \in Curated
    PROVE  /\ code[p] \in CodeState /\ record[p] \in RecordState
           /\ code = [code EXCEPT ![p] = code[p]] /\ record = [record EXCEPT ![p] = record[p]]
           /\ wizards \in 0 .. MaxWizards /\ Kind[p] \in {"builtin", "pypi", "git"}
           /\ wizard \in [Wizard -> WizardState]
           /\ Closed \in WizardState /\ Closed.plugin = "none" /\ Closed.phase = "closed"
           /\ ~Closed.cleanup /\ p # "none"
           /\ Kind[p] = "builtin" => code[p] = "whole"
  BY InstallAssumption DEF InstallInv, TypeInv, InstallTypeOK, CodeState, RecordState,
                           Closed, WizardState

\* What the invariant says of the plugin at which a request is.
LEMMA Alone ==
    ASSUME InstallInv, NEW w \in Wizard, wizard[w].phase # "closed",
           NEW p \in Curated, p = wizard[w].plugin, p \notin doubtful
    PROVE  /\ \A x \in Wizard \ {w} : ~At(x, p)
           /\ Stage(w, p)
           /\ record[p] = "ACTIVE" \/ p \in worked => code[p] = "whole"
           /\ Kind[p] = "git" /\ code[p] = "part" => wizard[w].phase = "fetching"
<1>1. Good(p) /\ At(w, p)
  BY DEF InstallInv, At
<1>2. QED
  BY <1>1 DEF Good

LEMMA FetchGood == ASSUME InstallInv, NEW w \in Wizard, Fetch(w) PROVE InstallInv'
<1>1. PICK p \in Curated : p = wizard[w].plugin
  BY WizardFacts DEF InstallInv, Fetch
<1>2. wizard[w].phase = "fetch" /\ record' = record /\ wizards' = wizards
  BY DEF Fetch
<1>3. CASE Kind[p] = "git" /\ code[p] # "none"
  <2>1. wizard' = [wizard EXCEPT ![w] = Closed] /\ RemoveTree(w, p)
    BY <1>1, <1>3 DEF Fetch
  <2>2. PICK left \in {"none", "part"} :
          /\ code' = [code EXCEPT ![p] = left] /\ worked' = worked
          /\ doubtful' = IF left = "part" THEN doubtful \cup {p} ELSE doubtful
    BY <2>1 DEF RemoveTree
  <2>3. p \in doubtful
    BY <1>1, <1>2, <1>3, Alone DEF Stage
  <2>4. left \in CodeState
    BY DEF CodeState
  <2>5. Moves(w, p, Closed, left, record[p])
    BY <1>1, <1>2, <1>3, <2>1, <2>2, <2>3, Around DEF Moves
  <2>6. QED
    BY <2>4, <2>5, Around, Moved
<1>4. CASE ~(Kind[p] = "git" /\ code[p] # "none")
  <2> DEFINE s == [wizard[w] EXCEPT !.phase = "fetching"]
             c == IF code[p] = "whole" THEN "whole" ELSE "part"
  <2>1. /\ code' = [code EXCEPT ![p] = c] /\ wizard' = [wizard EXCEPT ![w] = s]
        /\ worked' = worked /\ doubtful' = doubtful
    BY <1>1, <1>4 DEF Fetch
  <2>2. s \in WizardState /\ s.plugin = p /\ s.phase = "fetching" /\ s.cleanup = wizard[w].cleanup
    BY <1>1, Around DEF WizardState
  <2>3. c \in CodeState
    BY DEF CodeState
  <2>4. (s.cleanup => Kind[p] = "git") /\ Kind[p] # "builtin"
    BY <1>1, <1>2, <2>2, WizardFacts DEF InstallInv
  <2>5. p \notin doubtful' =>
          /\ \A x \in Wizard \ {w} : ~At(x, p)
          /\ record[p] = "ACTIVE" \/ p \in worked' => c = "whole"
          /\ Kind[p] = "git" => c # "whole" /\ s.cleanup
    BY <1>1, <1>2, <1>4, <2>1, <2>2, Alone DEF Stage
  <2> HIDE DEF s, c
  <2>6. Moves(w, p, s, c, record[p])
    BY <1>1, <1>2, <2>1, <2>2, <2>3, <2>4, <2>5, Around DEF Moves, CodeState
  <2>7. QED
    BY <2>2, <2>3, <2>6, Around, Moved
<1>5. QED
  BY <1>3, <1>4

LEMMA FetchedGood == ASSUME InstallInv, NEW w \in Wizard, Fetched(w) PROVE InstallInv'
<1>1. PICK p \in Curated : p = wizard[w].plugin
  BY WizardFacts DEF InstallInv, Fetched
<1> DEFINE s == [wizard[w] EXCEPT !.phase = "probe"]
<1>2. /\ wizard[w].phase = "fetching" /\ record' = record /\ wizards' = wizards
      /\ worked' = worked /\ doubtful' = doubtful
      /\ code' = [code EXCEPT ![p] = "whole"] /\ wizard' = [wizard EXCEPT ![w] = s]
  BY <1>1 DEF Fetched
<1>3. s \in WizardState /\ s.plugin = p /\ s.phase = "probe" /\ s.cleanup = wizard[w].cleanup
  BY <1>1, Around DEF WizardState
<1>4. s.cleanup => Kind[p] = "git"
  BY <1>1, <1>2, <1>3, WizardFacts DEF InstallInv
<1>5. p \notin doubtful => \A x \in Wizard \ {w} : ~At(x, p)
  BY <1>1, <1>2, Alone
<1> HIDE DEF s
<1>6. Moves(w, p, s, "whole", record[p])
  BY <1>1, <1>2, <1>3, <1>4, <1>5, Around DEF Moves
<1>7. "whole" \in CodeState
  BY DEF CodeState
<1>8. QED
  BY <1>3, <1>6, <1>7, Around, Moved

\* A checkout that was begun is removed, anything else stays as it is.
LEMMA GivenUpGood ==
    ASSUME InstallInv, NEW w \in Wizard, GiveUp(w), NEW p \in Curated, p = wizard[w].plugin,
           wizard[w].phase \in {"fetching", "probe"},
           wizard[w].phase = "probe" => Kind[p] = "pypi" \/ code[p] # "whole"
    PROVE  InstallInv'
<1>1. wizard' = [wizard EXCEPT ![w] = Closed] /\ record' = record /\ wizards' = wizards
  BY DEF GiveUp
<1>2. CASE wizard[w].cleanup
  <2>1. RemoveTree(w, p) /\ Kind[p] = "git"
    BY <1>2, WizardFacts DEF GiveUp, InstallInv
  <2>2. PICK left \in {"none", "part"} :
          /\ code' = [code EXCEPT ![p] = left] /\ worked' = worked
          /\ doubtful' = IF left = "part" THEN doubtful \cup {p} ELSE doubtful
    BY <2>1 DEF RemoveTree
  <2>3. p \notin doubtful' =>
          /\ left = "none" /\ \A x \in Wizard \ {w} : ~At(x, p)
          /\ record[p] # "ACTIVE" /\ p \notin worked
    BY <2>1, <2>2, Alone DEF Stage
  <2>4. left \in CodeState
    BY DEF CodeState
  <2>5. Moves(w, p, Closed, left, record[p])
    BY <1>1, <2>1, <2>2, <2>3, Around DEF Moves
  <2>6. QED
    BY <2>4, <2>5, Around, Moved
<1>3. CASE ~wizard[w].cleanup
  <2>1. code' = code /\ worked' = worked /\ doubtful' = doubtful
    BY <1>3 DEF GiveUp
  <2>2. p \notin doubtful =>
          /\ \A x \in Wizard \ {w} : ~At(x, p)
          /\ record[p] = "ACTIVE" \/ p \in worked => code[p] = "whole"
          /\ ~(Kind[p] = "git" /\ code[p] = "part")
    BY <1>3, Alone DEF Stage
  <2>3. Moves(w, p, Closed, code[p], record[p])
    BY <1>1, <2>1, <2>2, Around DEF Moves
  <2>4. QED
    BY <2>3, Around, Moved
<1>4. QED
  BY <1>2, <1>3

LEMMA FailedGood ==
    ASSUME InstallInv, NEW w \in Wizard, FetchFailed(w) \/ ProbeFailed(w) PROVE InstallInv'
<1>1. /\ GiveUp(w) /\ wizard[w].phase \in {"fetching", "probe"}
      /\ wizard[w].phase = "probe" =>
             Kind[wizard[w].plugin] = "pypi" \/ code[wizard[w].plugin] # "whole"
  BY DEF FetchFailed, ProbeFailed
<1>2. wizard[w].plugin \in Curated
  BY <1>1, WizardFacts DEF InstallInv
<1>3. QED
  BY <1>1, <1>2, GivenUpGood

LEMMA ProbedGood == ASSUME InstallInv, NEW w \in Wizard, Probed(w) PROVE InstallInv'
<1>1. PICK p \in Curated : p = wizard[w].plugin
  BY WizardFacts DEF InstallInv, Probed
<1> DEFINE s == [wizard[w] EXCEPT !.phase = "record"]
<1>2. /\ wizard[w].phase = "probe" /\ wizard' = [wizard EXCEPT ![w] = s]
      /\ UNCHANGED <<code, record, worked, doubtful, wizards>>
  BY DEF Probed
<1>3. s \in WizardState /\ s.plugin = p /\ s.phase = "record" /\ s.cleanup = wizard[w].cleanup
  BY <1>1, Around DEF WizardState
<1>4. s.cleanup => Kind[p] = "git"
  BY <1>1, <1>2, <1>3, WizardFacts DEF InstallInv
<1>5. p \notin doubtful => code[p] = "whole" /\ \A x \in Wizard \ {w} : ~At(x, p)
  BY <1>1, <1>2, Alone DEF Stage
<1> HIDE DEF s
<1>6. Moves(w, p, s, code[p], record[p])
  BY <1>1, <1>2, <1>3, <1>4, <1>5, Around DEF Moves
<1>7. QED
  BY <1>3, <1>6, Around, Moved

LEMMA RecordGood == ASSUME InstallInv, NEW w \in Wizard, install_record(w) PROVE InstallInv'
<1>1. PICK p \in Curated : p = wizard[w].plugin
  BY WizardFacts DEF InstallInv, install_record
<1>2. /\ wizard[w].phase = "record" /\ wizard' = [wizard EXCEPT ![w] = Closed]
      /\ record' = [record EXCEPT ![p] = "ACTIVE"]
      /\ UNCHANGED <<code, worked, doubtful, wizards>>
  BY <1>1 DEF install_record
<1>3. p \notin doubtful => code[p] = "whole" /\ \A x \in Wizard \ {w} : ~At(x, p)
  BY <1>1, <1>2, Alone DEF Stage
<1>4. Moves(w, p, Closed, code[p], "ACTIVE")
  BY <1>1, <1>2, <1>3, Around DEF Moves
<1>5. "ACTIVE" \in RecordState
  BY DEF RecordState
<1>6. QED
  BY <1>4, <1>5, Around, Moved

\* Whoever begins where another is casts doubt on the plugin.
LEMMA InstallGood == ASSUME InstallInv, NEW w \in Wizard, install(w) PROVE InstallInv'
<1>1. PICK p \in Curated :
        /\ Opened(w, p)
        /\ wizard' = [wizard EXCEPT ![w] =
             [plugin |-> p, phase |-> FirstPhase(p),
              cleanup |-> Kind[p] = "git" /\ FirstPhase(p) = "fetch"]]
        /\ UNCHANGED <<code, record, worked>>
  BY DEF install
<1>2. PICK s \in WizardState :
        /\ s.plugin = p /\ s.phase = FirstPhase(p)
        /\ s.cleanup <=> (Kind[p] = "git" /\ FirstPhase(p) = "fetch")
        /\ wizard' = [wizard EXCEPT ![w] = s]
  <2> DEFINE s == [plugin |-> p, phase |-> FirstPhase(p),
                   cleanup |-> Kind[p] = "git" /\ FirstPhase(p) = "fetch"]
  <2>1. s \in WizardState
    BY DEF WizardState, FirstPhase
  <2>2. QED
    BY <1>1, <2>1
<1>3. /\ wizard[w].plugin = "none" /\ wizards' \in 0 .. MaxWizards
      /\ doubtful' \subseteq doubtful \cup {p} /\ doubtful \subseteq doubtful'
      /\ p \notin doubtful' => p \notin doubtful /\ \A x \in Wizard \ {w} : ~At(x, p)
  BY <1>1, Around, InstallAssumption DEF Opened, OthersAt, At, InstallInv, TypeInv, InstallTypeOK,
                                         WizardState
<1>4. p \notin doubtful' =>
        /\ record[p] = "ACTIVE" \/ p \in worked => code[p] = "whole"
        /\ ~(Kind[p] = "git" /\ code[p] = "part")
  BY <1>1, <1>3 DEF InstallInv, Good, Opened
<1>5. CASE FirstPhase(p) = "probe"
  <2>1. Kind[p] = "builtin" \/ (Kind[p] = "git" /\ code[p] # "none")
    BY <1>5 DEF FirstPhase
  <2>2. p \notin doubtful' => code[p] = "whole"
    BY <1>4, <2>1, Around DEF CodeState
  <2>3. Moves(w, p, s, code[p], record[p])
    BY <1>1, <1>2, <1>3, <1>4, <1>5, <2>2, Around DEF Moves
  <2>4. QED
    BY <2>3, Around, Moved
<1>6. CASE FirstPhase(p) = "fetch"
  <2>1. Kind[p] # "builtin" /\ (Kind[p] = "git" => code[p] = "none")
    BY <1>6 DEF FirstPhase
  <2>2. Moves(w, p, s, code[p], record[p])
    BY <1>1, <1>2, <1>3, <1>4, <1>6, <2>1, Around DEF Moves
  <2>3. QED
    BY <2>2, Around, Moved
<1>7. QED
  BY <1>5, <1>6 DEF FirstPhase

LEMMA RevokeGood == ASSUME InstallInv, NEW w \in Wizard, uninstall_plugin(w) PROVE InstallInv'
<1>1. PICK p \in Curated :
        /\ Opened(w, p)
        /\ record' = [record EXCEPT ![p] = IF @ = "none" THEN @ ELSE "REVOKED"]
        /\ wizard' = [wizard EXCEPT ![w] = [plugin |-> p, phase |-> "remove", cleanup |-> FALSE]]
        /\ UNCHANGED <<code, worked>>
  BY DEF uninstall_plugin
<1> DEFINE s == [plugin |-> p, phase |-> "remove", cleanup |-> FALSE]
           r == IF record[p] = "none" THEN "none" ELSE "REVOKED"
<1>2. s \in WizardState /\ s.plugin = p /\ s.phase = "remove" /\ ~s.cleanup
  BY DEF WizardState
<1>3. r \in RecordState /\ r # "ACTIVE" /\ record' = [record EXCEPT ![p] = r]
  BY <1>1, Around DEF RecordState
<1>4. /\ wizard[w].plugin = "none" /\ wizards' \in 0 .. MaxWizards
      /\ doubtful' \subseteq doubtful \cup {p} /\ doubtful \subseteq doubtful'
      /\ p \notin doubtful' => p \notin doubtful /\ \A x \in Wizard \ {w} : ~At(x, p)
  BY <1>1, Around, InstallAssumption DEF Opened, OthersAt, At, InstallInv, TypeInv, InstallTypeOK,
                                         WizardState
<1>5. p \notin doubtful' =>
        /\ p \in worked => code[p] = "whole"
        /\ ~(Kind[p] = "git" /\ code[p] = "part")
  BY <1>1, <1>4 DEF InstallInv, Good, Opened
<1>6. wizard' = [wizard EXCEPT ![w] = s]
  BY <1>1
<1> HIDE DEF s, r
<1>7. Moves(w, p, s, code[p], r)
  BY <1>1, <1>2, <1>3, <1>4, <1>5, <1>6, Around DEF Moves
<1>8. QED
  BY <1>2, <1>3, <1>7, Around, Moved

\* What an uninstallation has cleared away is in no doubt any more.
LEMMA UninstallGood == ASSUME InstallInv, NEW w \in Wizard, uninstall(w) PROVE InstallInv'
<1>1. PICK p \in Curated : p = wizard[w].plugin
  BY WizardFacts DEF InstallInv, uninstall
<1>2. PICK left \in IF Kind[p] = "builtin" \/ code[p] = "none" THEN {code[p]}
                    ELSE {"none", "part"} \cup (IF Kind[p] = "pypi" THEN {code[p]} ELSE {}) :
        /\ code' = [code EXCEPT ![p] = left]
        /\ doubtful' = CASE left = "part" /\ Kind[p] = "git" -> doubtful \cup {p}
                         [] left = "none" /\ ~OthersAt(w, p) /\ record[p] # "ACTIVE" -> doubtful \ {p}
                         [] OTHER -> doubtful
  BY <1>1 DEF uninstall
<1>3. /\ wizard[w].phase = "remove" /\ wizard' = [wizard EXCEPT ![w] = Closed]
      /\ worked' = worked \ {p} /\ UNCHANGED <<record, wizards>>
  BY <1>1 DEF uninstall
<1>4. left \in CodeState /\ (Kind[p] = "builtin" => left = "whole")
  BY <1>2, Around DEF CodeState
<1>5. doubtful' \subseteq doubtful \cup {p} /\ doubtful \subseteq doubtful' \cup {p}
  BY <1>2
<1>6. p \notin doubtful' =>
        /\ \A x \in Wizard \ {w} : ~At(x, p)
        /\ record[p] # "ACTIVE" /\ ~(left = "part" /\ Kind[p] = "git")
  <2>1. CASE p \notin doubtful
    BY <1>1, <1>2, <1>3, <2>1, Alone DEF Stage
  <2>2. CASE p \in doubtful
    BY <1>2, <2>2 DEF OthersAt, At
  <2>3. QED
    BY <2>1, <2>2
<1>7. Moves(w, p, Closed, left, record[p])
  BY <1>1, <1>3, <1>4, <1>5, <1>6, <1>2, Around DEF Moves
<1>8. QED
  BY <1>4, <1>7, Around, Moved

-----------------------------------------------------------------------------
(* The market, the user and the end of the process.                        *)

\* What the market enables is there and nobody is at it, or is in doubt.
LEMMA RecordedGood ==
    ASSUME InstallInv, NEW p \in Curated, NEW status \in {"ACTIVE", "DISABLED"}, Recorded(p, status)
    PROVE  InstallInv'
<1>1. /\ wizards' \in 0 .. MaxWizards /\ record' = [record EXCEPT ![p] = status]
      /\ doubtful' = IF status = "ACTIVE" /\ (code[p] # "whole" \/ \E w \in Wizard : At(w, p))
                     THEN doubtful \cup {p} ELSE doubtful
      /\ UNCHANGED <<code, wizard, worked>>
  BY Around, InstallAssumption DEF Recorded, At
<1>2. \A q \in Curated : record'[q] = IF q = p THEN status ELSE record[q]
  BY <1>1 DEF InstallInv, TypeInv, InstallTypeOK
<1>3. TypeInv'
  BY <1>1, <1>2 DEF InstallInv, TypeInv, InstallTypeOK
<1>4. ASSUME NEW q \in Curated \ {p} PROVE Still(q) /\ (q \in doubtful => q \in doubtful')
  BY <1>1, <1>2 DEF Still
<1>5. ASSUME p \notin doubtful' PROVE Good(p)'
  <2>1. Good(p) /\ (status = "ACTIVE" => code[p] = "whole" /\ \A w \in Wizard : ~At(w, p))
    BY <1>1, <1>5 DEF InstallInv
  <2>2. \A w \in Wizard : At(w, p)' <=> At(w, p)
    BY <1>1 DEF At
  <2>3. \A w \in Wizard : At(w, p)' => Stage(w, p)'
    BY <1>1, <1>2, <2>1, <2>2 DEF Good, Stage
  <2>4. QED
    BY <1>1, <1>2, <2>1, <2>2, <2>3 DEF Good
<1>6. QED
  BY <1>3, <1>4, <1>5, OneDisturbed

LEMMA WorkGood == ASSUME InstallInv, Work PROVE InstallInv'
<1>1. PICK p \in Curated :
        /\ code[p] = "whole" /\ worked' = worked \cup {p}
        /\ UNCHANGED <<code, record, wizard, doubtful, wizards>>
  BY DEF Work
<1>2. TypeInv'
  BY <1>1 DEF InstallInv, TypeInv, InstallTypeOK
<1>3. ASSUME NEW q \in Curated \ {p} PROVE Still(q) /\ (q \in doubtful => q \in doubtful')
  BY <1>1 DEF Still
<1>4. ASSUME p \notin doubtful' PROVE Good(p)'
  <2>1. Good(p)
    BY <1>1, <1>4 DEF InstallInv
  <2>2. QED
    BY <1>1, <2>1 DEF Good, At, Stage
<1>5. QED
  BY <1>2, <1>3, <1>4, OneDisturbed

\* What was whole stays whole, and half a checkout is in doubt.
LEMMA KilledGood == ASSUME InstallInv, ServerKilled PROVE InstallInv'
<1>1. /\ code' \in [Curated -> CodeState]
      /\ \A p \in Curated : code'[p] \in {code[p], "whole"}
      /\ doubtful' = doubtful \cup {p \in Curated : Kind[p] = "git" /\ code'[p] = "part"}
      /\ wizard' = [w \in Wizard |-> Closed]
      /\ UNCHANGED <<record, worked, wizards>>
  <2>1. \A p \in Curated : Survives(p) \subseteq {code[p], "whole"}
    BY DEF Survives
  <2>2. /\ code' \in {c \in [Curated -> {"none", "part", "whole"}] :
                        \A p \in Curated : c[p] \in Survives(p)}
        /\ doubtful' = doubtful \cup {p \in Curated : Kind[p] = "git" /\ code'[p] = "part"}
        /\ wizard' = [w \in Wizard |-> Closed]
        /\ UNCHANGED <<record, worked, wizards>>
    BY DEF ServerKilled
  <2>3. QED
    BY <2>1, <2>2 DEF CodeState
<1>2. \A w \in Wizard : wizard'[w] = Closed
  BY <1>1
<1>3. TypeInv'
  <2>1. wizard' \in [Wizard -> WizardState]
    BY <1>1 DEF Closed, WizardState
  <2>2. InstallTypeOK'
    BY <1>1, <1>2, InstallAssumption DEF InstallInv, TypeInv, InstallTypeOK, CodeState, Closed
  <2>3. \A p \in Curated : Kind[p] = "builtin" => code'[p] = "whole"
    BY <1>1 DEF InstallInv, TypeInv
  <2>4. QED
    BY <1>2, <2>1, <2>2, <2>3 DEF TypeInv, Closed
<1>4. ASSUME NEW p \in Curated \ doubtful' PROVE Good(p)'
  <2>1. Good(p) /\ ~(Kind[p] = "git" /\ code'[p] = "part")
    BY <1>1, <1>4 DEF InstallInv
  <2>2. \A w \in Wizard : ~At(w, p)'
    BY <1>2, InstallAssumption DEF At, Closed
  <2>3. QED
    BY <1>1, <2>1, <2>2 DEF Good
<1>5. QED
  BY <1>3, <1>4 DEF InstallInv

-----------------------------------------------------------------------------
(* The theorems.                                                           *)

LEMMA InstallNextGood == InstallInv /\ [InstallNext]_installVars => InstallInv'
<1> SUFFICES ASSUME InstallInv, [InstallNext]_installVars PROVE InstallInv'
  OBVIOUS
<1>1. CASE install_market_plugin \/ set_enabled
  BY <1>1, RecordedGood DEF install_market_plugin, set_enabled
<1>2. CASE Work
  BY <1>2, WorkGood
<1>3. CASE ServerKilled
  BY <1>3, KilledGood
<1>4. ASSUME NEW w \in Wizard, install(w) \/ uninstall_plugin(w) \/ uninstall(w)
      PROVE  InstallInv'
  BY <1>4, InstallGood, RevokeGood, UninstallGood
<1>5. ASSUME NEW w \in Wizard, Fetch(w) \/ Fetched(w) \/ FetchFailed(w)
      PROVE  InstallInv'
  BY <1>5, FetchGood, FetchedGood, FailedGood
<1>6. ASSUME NEW w \in Wizard, Probed(w) \/ ProbeFailed(w) \/ install_record(w)
      PROVE  InstallInv'
  BY <1>6, ProbedGood, FailedGood, RecordGood
<1>7. CASE UNCHANGED installVars
  <2>1. TypeInv'
    BY <1>7 DEF InstallInv, TypeInv, InstallTypeOK, installVars
  <2>2. ASSUME NEW p \in Curated \ doubtful' PROVE Good(p)'
    <3>1. Good(p) /\ Still(p)
      BY <1>7, <2>2 DEF InstallInv, Still, installVars
    <3>2. QED
      BY <2>2, <3>1, StillGood
  <2>3. QED
    BY <2>1, <2>2 DEF InstallInv
<1>8. QED
  BY <1>1, <1>2, <1>3, <1>4, <1>5, <1>6, <1>7 DEF InstallNext

\* A plugin nobody has cast doubt on is found by every request as its stage says.
THEOREM InstallIsSound == InstallSpec => []InstallInv
<1>1. InstallInit => InstallInv
  BY InitGood
<1>2. InstallInv /\ [InstallNext]_installVars => InstallInv'
  BY InstallNextGood
<1>3. QED
  BY <1>1, <1>2, PTL DEF InstallSpec

\* What is on the disk, what is recorded and what requests are at keep their shape.
THEOREM InstallTypeCorrect == InstallSpec => []InstallTypeOK
<1>1. InstallInv => InstallTypeOK
  BY DEF InstallInv, TypeInv, InstallTypeOK
<1>2. QED
  BY <1>1, InstallIsSound, PTL

\* What the market shows as enabled, and what the user works in, is there as a whole,
\* for any catalog and any number of installations, removals and restarts.
THEOREM EnabledPluginsAreThere == InstallSpec => []EnabledIsThere
<1>1. InstallInv => EnabledIsThere
  BY DEF InstallInv, Good, EnabledIsThere
<1>2. QED
  BY <1>1, InstallIsSound, PTL
-----------------------------------------------------------------------------
(* The plugin runtime, for any plugins, manifests and permission profiles, *)
(* and any number of provider objects.                                     *)

\* The provider objects.
Prov == [maker : Plugin, plugin : Plugin, capability : Capability, precedence : Int, object : Int]

\* y may stand before x.
Outranks(y, x) ==
    \/ y.precedence > x.precedence
    \/ y.precedence = x.precedence /\ (y.object > 0 /\ x.object > 0 => y.object <= x.object)

Ranked(regs) == \A i, j \in 1 .. Len(regs) : i < j => Outranks(regs[i], regs[j])

\* What a selection holds.
LEMMA SelectedFacts ==
    ASSUME NEW regs \in Seq(Prov), Ranked(regs), NEW S
    PROVE  /\ Selected(regs, S) \in Seq(Prov) /\ Ranked(Selected(regs, S))
           /\ ToSet(Selected(regs, S)) = ToSet(regs) \cap S
<1>1. PICK out \in Seq(Prov) : out = Selected(regs, S) /\ \E h : IsSelection(out, h, regs, Len(regs), S)
  BY SelectionExists
<1>2. PICK h : IsSelection(out, h, regs, Len(regs), S)
  BY <1>1
<1>3. PICK n \in Nat : n = Len(regs) /\ DOMAIN regs = 1 .. n
  OBVIOUS
<1>4. PICK m \in Nat : m = Len(out) /\ DOMAIN out = 1 .. m
  OBVIOUS
<1>5. /\ h \in [1 .. m -> 1 .. n]
      /\ \A k \in 1 .. m : out[k] = regs[h[k]] /\ out[k] \in S
      /\ \A j, k \in 1 .. m : j < k => h[j] < h[k]
      /\ \A i \in 1 .. n : regs[i] \in S => \E k \in 1 .. m : h[k] = i
  BY <1>2, <1>3, <1>4 DEF IsSelection
<1>6. Ranked(out)
  <2> SUFFICES ASSUME NEW i \in 1 .. m, NEW j \in 1 .. m, i < j PROVE Outranks(out[i], out[j])
    BY <1>4 DEF Ranked
  <2>1. h[i] \in 1 .. n /\ h[j] \in 1 .. n /\ h[i] < h[j]
    BY <1>5
  <2>2. Outranks(regs[h[i]], regs[h[j]])
    BY <1>3, <2>1 DEF Ranked
  <2>3. QED
    BY <1>5, <2>2
<1>7. ToSet(out) = ToSet(regs) \cap S
  <2>1. \A x \in ToSet(out) : x \in ToSet(regs) \cap S
    <3> SUFFICES ASSUME NEW x \in ToSet(out) PROVE x \in ToSet(regs) \cap S
      OBVIOUS
    <3>1. PICK k \in 1 .. m : x = out[k]
      BY <1>4 DEF ToSet
    <3>2. h[k] \in 1 .. n /\ x = regs[h[k]] /\ x \in S
      BY <1>5, <3>1
    <3>3. QED
      BY <1>3, <3>2 DEF ToSet
  <2>2. \A x \in ToSet(regs) \cap S : x \in ToSet(out)
    <3> SUFFICES ASSUME NEW x \in ToSet(regs), x \in S PROVE x \in ToSet(out)
      OBVIOUS
    <3>1. PICK i \in 1 .. n : x = regs[i]
      BY <1>3 DEF ToSet
    <3>2. PICK k \in 1 .. m : h[k] = i
      BY <1>5, <3>1
    <3>3. QED
      BY <1>4, <1>5, <3>1, <3>2 DEF ToSet
  <2>3. QED
    BY <2>1, <2>2
<1>8. QED
  BY <1>1, <1>6, <1>7

\* A provider takes its place in a ranked list if no object there is younger.
LEMMA RegisteredFacts ==
    ASSUME NEW regs \in Seq(Prov), Ranked(regs), NEW x \in Prov,
           \A y \in ToSet(regs) : y.object > 0 /\ x.object > 0 => y.object <= x.object
    PROVE  /\ Registered(regs, x) \in Seq(Prov) /\ Ranked(Registered(regs, x))
           /\ ToSet(Registered(regs, x)) = ToSet(regs) \cup {x}
<1> DEFINE higher == {y \in ToSet(regs) : y.precedence >= x.precedence}
<1>1. PICK a : a = Selected(regs, higher)
  OBVIOUS
<1>2. PICK b : b = Selected(regs, ToSet(regs) \ higher)
  OBVIOUS
<1>3. a \in Seq(Prov) /\ Ranked(a) /\ ToSet(a) = ToSet(regs) \cap higher
  BY <1>1, SelectedFacts
<1>4. b \in Seq(Prov) /\ Ranked(b) /\ ToSet(b) = ToSet(regs) \cap (ToSet(regs) \ higher)
  BY <1>2, SelectedFacts
<1>5. PICK m \in Nat : m = Len(a) /\ DOMAIN a = 1 .. m /\ \A i \in 1 .. m : a[i] \in Prov
  BY <1>3
<1>6. PICK n \in Nat : n = Len(b) /\ DOMAIN b = 1 .. n /\ \A i \in 1 .. n : b[i] \in Prov
  BY <1>4
<1>7. PICK r : r = a \o <<x>> \o b
  OBVIOUS
<1>8. /\ r \in Seq(Prov) /\ Len(r) = m + 1 + n
      /\ \A i \in 1 .. m : r[i] = a[i]
      /\ r[m + 1] = x
      /\ \A i \in 1 .. n : r[m + 1 + i] = b[i]
  BY <1>3, <1>4, <1>5, <1>6, <1>7
<1>9. \A k \in 1 .. m + 1 + n : k \in 1 .. m \/ k = m + 1 \/ \E i \in 1 .. n : k = m + 1 + i
  <2> TAKE k \in 1 .. m + 1 + n
  <2>1. k > m + 1 => k - (m + 1) \in 1 .. n /\ k = m + 1 + (k - (m + 1))
    OBVIOUS
  <2>2. QED
    BY <2>1
<1>10. \A i \in 1 .. m : a[i].precedence >= x.precedence /\ a[i] \in ToSet(regs)
  <2>1. \A i \in 1 .. m : a[i] \in ToSet(a)
    BY <1>5 DEF ToSet
  <2>2. QED
    BY <1>3, <2>1
<1>11. \A i \in 1 .. n : ~(b[i].precedence >= x.precedence)
  <2>1. \A i \in 1 .. n : b[i] \in ToSet(b)
    BY <1>6 DEF ToSet
  <2>2. QED
    BY <1>4, <2>1
<1>12. \A i \in 1 .. m : Outranks(a[i], x)
  BY <1>5, <1>10 DEF Outranks, Prov
<1>13. \A i \in 1 .. n : Outranks(x, b[i])
  BY <1>6, <1>11 DEF Outranks, Prov
<1>14. \A i \in 1 .. m : \A j \in 1 .. n : Outranks(a[i], b[j])
  BY <1>5, <1>6, <1>10, <1>11 DEF Outranks, Prov
<1>15. Ranked(r)
  <2> SUFFICES ASSUME NEW i \in 1 .. m + 1 + n, NEW j \in 1 .. m + 1 + n, i < j
               PROVE  Outranks(r[i], r[j])
    BY <1>8 DEF Ranked
  <2>1. CASE j \in 1 .. m
    <3>1. i \in 1 .. m
      BY <2>1
    <3>2. QED
      BY <1>3, <1>5, <1>8, <2>1, <3>1 DEF Ranked
  <2>2. CASE j = m + 1
    <3>1. i \in 1 .. m
      BY <2>2
    <3>2. QED
      BY <1>8, <1>12, <2>2, <3>1
  <2>3. ASSUME NEW k \in 1 .. n, j = m + 1 + k PROVE Outranks(r[i], r[j])
    <3>1. r[j] = b[k]
      BY <1>8, <2>3
    <3>2. CASE i \in 1 .. m
      BY <1>8, <1>14, <3>1, <3>2
    <3>3. CASE i = m + 1
      BY <1>8, <1>13, <3>1, <3>3
    <3>4. ASSUME NEW l \in 1 .. n, i = m + 1 + l PROVE Outranks(r[i], r[j])
      <4>1. r[i] = b[l] /\ l < k
        BY <1>8, <2>3, <3>4
      <4>2. QED
        BY <1>4, <1>6, <3>1, <4>1 DEF Ranked
    <3>5. QED
      BY <1>9, <3>2, <3>3, <3>4
  <2>4. QED
    BY <1>9, <2>1, <2>2, <2>3
<1>16. ToSet(r) = ToSet(regs) \cup {x}
  <2>1. \A y \in ToSet(r) : y \in ToSet(regs) \cup {x}
    <3> SUFFICES ASSUME NEW y \in ToSet(r) PROVE y \in ToSet(regs) \cup {x}
      OBVIOUS
    <3>1. PICK k \in 1 .. m + 1 + n : y = r[k]
      BY <1>8 DEF ToSet
    <3>2. CASE k \in 1 .. m
      BY <1>8, <1>10, <3>1, <3>2
    <3>3. CASE k = m + 1
      BY <1>8, <3>1, <3>3
    <3>4. ASSUME NEW i \in 1 .. n, k = m + 1 + i PROVE y \in ToSet(regs)
      <4>1. y = b[i] /\ b[i] \in ToSet(b)
        BY <1>6, <1>8, <3>1, <3>4 DEF ToSet
      <4>2. QED
        BY <1>4, <4>1
    <3>5. QED
      BY <1>9, <3>2, <3>3, <3>4
  <2>2. \A y \in ToSet(regs) : y \in ToSet(r)
    <3> SUFFICES ASSUME NEW y \in ToSet(regs) PROVE y \in ToSet(r)
      OBVIOUS
    <3>1. DOMAIN r = 1 .. m + 1 + n
      BY <1>8
    <3>2. CASE y \in higher
      <4>1. PICK i \in 1 .. m : y = a[i]
        BY <1>3, <1>5, <3>2 DEF ToSet
      <4>2. i \in 1 .. m + 1 + n /\ y = r[i]
        BY <1>8, <4>1
      <4>3. QED
        BY <3>1, <4>2 DEF ToSet
    <3>3. CASE y \notin higher
      <4>1. PICK i \in 1 .. n : y = b[i]
        BY <1>4, <1>6, <3>3 DEF ToSet
      <4>2. m + 1 + i \in 1 .. m + 1 + n /\ y = r[m + 1 + i]
        BY <1>8, <4>1
      <4>3. QED
        BY <3>1, <4>2 DEF ToSet
    <3>4. QED
      BY <3>2, <3>3
  <2>3. x \in ToSet(r)
    <3>1. m + 1 \in DOMAIN r
      BY <1>8
    <3>2. QED
      BY <1>8, <3>1 DEF ToSet
  <2>4. QED
    BY <2>1, <2>2, <2>3
<1>17. r = Registered(regs, x)
  BY <1>1, <1>2, <1>7 DEF Registered
<1>18. QED
  BY <1>8, <1>15, <1>16, <1>17

-----------------------------------------------------------------------------
(* The registry.                                                           *)

Registries == [Capability -> Seq(Prov)]

LEMMA RegisteredType ==
    ASSUME NEW regs \in Seq(Prov), NEW x \in Prov
    PROVE  Registered(regs, x) \in Seq(Prov)
<1>1. Selected(regs, {y \in ToSet(regs) : y.precedence >= x.precedence}) \in Seq(Prov)
  BY SelectionExists
<1>2. Selected(regs, ToSet(regs) \ {y \in ToSet(regs) : y.precedence >= x.precedence}) \in Seq(Prov)
  BY SelectionExists
<1>3. QED
  BY <1>1, <1>2 DEF Registered

LEMMA WithoutType ==
    ASSUME NEW regs \in Seq(Prov), NEW x
    PROVE  Without(regs, x) \in Seq(Prov)
BY SelectionExists DEF Without

LEMMA RegisterType ==
    ASSUME NEW provs \in Registries, NEW x \in Prov
    PROVE  register_provider(provs, x) \in Registries /\ unregister_provider(provs, x) \in Registries
<1>1. x.capability \in Capability /\ provs[x.capability] \in Seq(Prov)
  BY DEF Prov, Registries
<1>2. Registered(provs[x.capability], x) \in Seq(Prov) /\ Without(provs[x.capability], x) \in Seq(Prov)
  BY <1>1, RegisteredType, WithoutType
<1>3. QED
  BY <1>1, <1>2 DEF register_provider, unregister_provider, Registries

LEMMA RegistryRuns ==
    ASSUME NEW provs \in Registries, NEW new \in Seq(Prov)
    PROVE  \E run : /\ run[0] = provs
                    /\ \A k \in 1 .. Len(new) : run[k] = register_provider(run[k - 1], new[k])
                    /\ Registry(provs, new) = run[Len(new)]
<1> DEFINE V == Registries
           n == Len(new)
           step == [k \in 1 .. n |-> [v \in V |-> register_provider(v, new[k])]]
           F(f) == [T \in SUBSET (1 .. n) |->
                       IF T = {} THEN provs ELSE register_provider(f[T \ {Max(T)}], new[Max(T)])]
<1>1. n \in Nat /\ DOMAIN new = 1 .. n /\ provs \in V
  OBVIOUS
<1>2. \A k \in 1 .. n : \A v \in V : step[k][v] = register_provider(v, new[k]) /\ step[k][v] \in V
  <2>1. \A k \in 1 .. n : new[k] \in Prov
    OBVIOUS
  <2>2. \A k \in 1 .. n : \A v \in V : register_provider(v, new[k]) \in V
    BY <2>1, RegisterType
  <2>3. QED
    BY <2>2
<1> HIDE DEF step, V, n
<1>3. PICK g \in [SUBSET (1 .. n) -> V] : IsLeftFold(g, n, provs, step)
  BY <1>1, <1>2, LeftFoldExists
<1>4. \A T \in SUBSET (1 .. n) : T # {} => Max(T) \in 1 .. n /\ g[T \ {Max(T)}] \in V
  <2>1. \A T \in SUBSET (1 .. n) : T # {} => Max(T) \in T
    BY <1>1, GreatestOf
  <2>2. QED
    BY <2>1
<1>5. \A T \in SUBSET (1 .. n) :
          g[T] = IF T = {} THEN provs ELSE register_provider(g[T \ {Max(T)}], new[Max(T)])
  BY <1>2, <1>3, <1>4 DEF IsLeftFold
<1>6. g = F(g)
  BY <1>5, Zenon
<1>7. PICK p : p = CHOOSE f : f = F(f)
  OBVIOUS
<1>8. p = F(p)
  <2> HIDE DEF F
  <2>1. \E f : f = F(f)
    BY <1>6
  <2>2. QED
    BY <1>7, <2>1, Zenon
<1>9. Registry(provs, new) = p[1 .. n]
  BY <1>1, <1>7 DEF Registry, FoldLeft, MapThenFoldSet
<1>10. p[{}] = provs
  BY <1>8
<1>11. \A k \in 1 .. n : p[1 .. k] = register_provider(p[1 .. (k - 1)], new[k])
  <2> SUFFICES ASSUME NEW k \in 1 .. n PROVE p[1 .. k] = register_provider(p[1 .. (k - 1)], new[k])
    OBVIOUS
  <2>1. /\ 1 .. k \in SUBSET (1 .. n) /\ 1 .. k # {}
        /\ Max(1 .. k) = k /\ (1 .. k) \ {Max(1 .. k)} = 1 .. (k - 1)
    BY <1>1, InitialIndices
  <2>2. p[1 .. k] = register_provider(p[(1 .. k) \ {Max(1 .. k)}], new[Max(1 .. k)])
    BY <1>8, <2>1, Zenon
  <2>3. QED
    BY <2>1, <2>2
<1> DEFINE run == [k \in 0 .. n |-> p[1 .. k]]
<1>12. /\ run[0] = provs /\ run[n] = p[1 .. n]
       /\ \A k \in 1 .. n : run[k] = register_provider(run[k - 1], new[k])
  <2>1. 1 .. 0 = {} /\ 0 \in 0 .. n /\ n \in 0 .. n
    BY <1>1
  <2>2. \A k \in 1 .. n : k \in 0 .. n /\ k - 1 \in 0 .. n
    BY <1>1
  <2>3. QED
    BY <1>10, <1>11, <2>1, <2>2
<1>13. QED
  BY <1>9, <1>12 DEF n

Undone(provs, q) == FoldLeft(unregister_provider, provs, q)

LEMMA UnregisterRuns ==
    ASSUME NEW provs \in Registries, NEW q \in Seq(Prov)
    PROVE  \E run : /\ run[0] = provs
                    /\ \A k \in 1 .. Len(q) : run[k] = unregister_provider(run[k - 1], q[k])
                    /\ Undone(provs, q) = run[Len(q)]
<1> DEFINE V == Registries
           n == Len(q)
           step == [k \in 1 .. n |-> [v \in V |-> unregister_provider(v, q[k])]]
           F(f) == [T \in SUBSET (1 .. n) |->
                       IF T = {} THEN provs ELSE unregister_provider(f[T \ {Max(T)}], q[Max(T)])]
<1>1. n \in Nat /\ DOMAIN q = 1 .. n /\ provs \in V
  OBVIOUS
<1>2. \A k \in 1 .. n : \A v \in V : step[k][v] = unregister_provider(v, q[k]) /\ step[k][v] \in V
  <2>1. \A k \in 1 .. n : q[k] \in Prov
    OBVIOUS
  <2>2. \A k \in 1 .. n : \A v \in V : unregister_provider(v, q[k]) \in V
    BY <2>1, RegisterType
  <2>3. QED
    BY <2>2
<1> HIDE DEF step, V, n
<1>3. PICK g \in [SUBSET (1 .. n) -> V] : IsLeftFold(g, n, provs, step)
  BY <1>1, <1>2, LeftFoldExists
<1>4. \A T \in SUBSET (1 .. n) : T # {} => Max(T) \in 1 .. n /\ g[T \ {Max(T)}] \in V
  <2>1. \A T \in SUBSET (1 .. n) : T # {} => Max(T) \in T
    BY <1>1, GreatestOf
  <2>2. QED
    BY <2>1
<1>5. \A T \in SUBSET (1 .. n) :
          g[T] = IF T = {} THEN provs ELSE unregister_provider(g[T \ {Max(T)}], q[Max(T)])
  BY <1>2, <1>3, <1>4 DEF IsLeftFold
<1>6. g = F(g)
  BY <1>5, Zenon
<1>7. PICK p : p = CHOOSE f : f = F(f)
  OBVIOUS
<1>8. p = F(p)
  <2> HIDE DEF F
  <2>1. \E f : f = F(f)
    BY <1>6
  <2>2. QED
    BY <1>7, <2>1, Zenon
<1>9. Undone(provs, q) = p[1 .. n]
  BY <1>1, <1>7 DEF Undone, FoldLeft, MapThenFoldSet
<1>10. p[{}] = provs
  BY <1>8
<1>11. \A k \in 1 .. n : p[1 .. k] = unregister_provider(p[1 .. (k - 1)], q[k])
  <2> SUFFICES ASSUME NEW k \in 1 .. n PROVE p[1 .. k] = unregister_provider(p[1 .. (k - 1)], q[k])
    OBVIOUS
  <2>1. /\ 1 .. k \in SUBSET (1 .. n) /\ 1 .. k # {}
        /\ Max(1 .. k) = k /\ (1 .. k) \ {Max(1 .. k)} = 1 .. (k - 1)
    BY <1>1, InitialIndices
  <2>2. p[1 .. k] = unregister_provider(p[(1 .. k) \ {Max(1 .. k)}], q[Max(1 .. k)])
    BY <1>8, <2>1, Zenon
  <2>3. QED
    BY <2>1, <2>2
<1> DEFINE run == [k \in 0 .. n |-> p[1 .. k]]
<1>12. /\ run[0] = provs /\ run[n] = p[1 .. n]
       /\ \A k \in 1 .. n : run[k] = unregister_provider(run[k - 1], q[k])
  <2>1. 1 .. 0 = {} /\ 0 \in 0 .. n /\ n \in 0 .. n
    BY <1>1
  <2>2. \A k \in 1 .. n : k \in 0 .. n /\ k - 1 \in 0 .. n
    BY <1>1
  <2>3. QED
    BY <1>10, <1>11, <2>1, <2>2
<1>13. QED
  BY <1>9, <1>12 DEF n
-----------------------------------------------------------------------------
(* Registries in order: every list ranked, of its capability, and of the   *)
(* first n objects made.                                                   *)

Orderly(provs, n) ==
    /\ provs \in Registries
    /\ \A c \in Capability :
        /\ Ranked(provs[c])
        /\ \A x \in ToSet(provs[c]) : x.capability = c /\ x.object <= n

\* An object is named by the load that made it, or by its plugin.
NamedAt(x, n) == x.object <= 0 \/ x.object = n

\* What registering x adds.
Adds(provs, before, X) ==
    \A c \in Capability : ToSet(provs[c]) = ToSet(before[c]) \cup {x \in X : x.capability = c}

Takes(provs, before, X) ==
    \A c \in Capability : ToSet(provs[c]) = ToSet(before[c]) \ X

LEMMA RegisterKeepsOrder ==
    ASSUME NEW n \in Nat, NEW provs, Orderly(provs, n), NEW x \in Prov, NamedAt(x, n + 1)
    PROVE  /\ Orderly(register_provider(provs, x), n + 1)
           /\ Adds(register_provider(provs, x), provs, {x})
<1>1. PICK d \in Capability : d = x.capability
  BY DEF Prov
<1>2. PICK next : next = register_provider(provs, x)
  OBVIOUS
<1>3. provs \in Registries /\ next \in Registries
  BY <1>2, RegisterType DEF Orderly
<1>4. /\ next[d] = Registered(provs[d], x)
      /\ \A c \in Capability : c # d => next[c] = provs[c]
  BY <1>1, <1>2, <1>3 DEF register_provider, Registries
<1>5. provs[d] \in Seq(Prov) /\ Ranked(provs[d])
  BY <1>3 DEF Orderly, Registries
<1>6. \A c \in Capability : \A y \in ToSet(provs[c]) : y \in Prov /\ y.object \in Int /\ y.object <= n
  <2> SUFFICES ASSUME NEW c \in Capability, NEW y \in ToSet(provs[c])
               PROVE  y \in Prov /\ y.object \in Int /\ y.object <= n
    OBVIOUS
  <2>1. provs[c] \in Seq(Prov)
    BY <1>3 DEF Registries
  <2>2. y \in Prov
    BY <2>1 DEF ToSet
  <2>3. y.object <= n
    BY DEF Orderly
  <2>4. QED
    BY <2>2, <2>3 DEF Prov
<1>7. x.object \in Int /\ x.object <= n + 1
  BY DEF Prov, NamedAt
<1>8. \A y \in ToSet(provs[d]) : y.object > 0 /\ x.object > 0 => y.object <= x.object
  <2> SUFFICES ASSUME NEW y \in ToSet(provs[d]), x.object > 0 PROVE y.object <= x.object
    OBVIOUS
  <2>1. y.object \in Int /\ y.object <= n
    BY <1>6
  <2>2. x.object = n + 1
    BY <1>7 DEF NamedAt
  <2>3. QED
    BY <2>1, <2>2
<1>9. Ranked(next[d]) /\ ToSet(next[d]) = ToSet(provs[d]) \cup {x}
  BY <1>4, <1>5, <1>8, RegisteredFacts
<1>10. Adds(next, provs, {x})
  <2> SUFFICES ASSUME NEW c \in Capability
               PROVE  ToSet(next[c]) = ToSet(provs[c]) \cup {y \in {x} : y.capability = c}
    BY DEF Adds
  <2>1. CASE c = d
    <3>1. {y \in {x} : y.capability = c} = {x}
      BY <1>1, <2>1
    <3>2. QED
      BY <1>9, <2>1, <3>1
  <2>2. CASE c # d
    <3>1. {y \in {x} : y.capability = c} = {}
      BY <1>1, <2>2
    <3>2. QED
      BY <1>4, <2>2, <3>1
  <2>3. QED
    BY <2>1, <2>2
<1>11. ASSUME NEW c \in Capability
       PROVE  Ranked(next[c]) /\ \A y \in ToSet(next[c]) : y.capability = c /\ y.object <= n + 1
  <2>1. Ranked(next[c])
    <3>1. Ranked(provs[c])
      BY DEF Orderly
    <3>2. QED
      BY <1>4, <1>9, <3>1
  <2>2. ASSUME NEW y \in ToSet(next[c]) PROVE y.capability = c /\ y.object <= n + 1
    <3>1. CASE y \in ToSet(provs[c])
      <4>1. y.capability = c
        BY <3>1 DEF Orderly
      <4>2. y.object \in Int /\ y.object <= n
        BY <1>6, <3>1
      <4>3. y.object <= n + 1
        BY <4>2
      <4>4. QED
        BY <4>1, <4>3
    <3>2. CASE y = x /\ x.capability = c
      BY <1>7, <3>2
    <3>3. QED
      BY <1>10, <3>1, <3>2 DEF Adds
  <2>3. QED
    BY <2>1, <2>2
<1>12. Orderly(next, n + 1)
  BY <1>3, <1>11 DEF Orderly
<1>13. QED
  BY <1>2, <1>10, <1>12

LEMMA UnregisterKeepsOrder ==
    ASSUME NEW n \in Nat, NEW provs, Orderly(provs, n), NEW x \in Prov
    PROVE  /\ Orderly(unregister_provider(provs, x), n)
           /\ Takes(unregister_provider(provs, x), provs, {x})
<1>1. PICK d \in Capability : d = x.capability
  BY DEF Prov
<1>2. PICK next : next = unregister_provider(provs, x)
  OBVIOUS
<1>3. provs \in Registries /\ next \in Registries
  BY <1>2, RegisterType DEF Orderly
<1>4. /\ next[d] = Selected(provs[d], ToSet(provs[d]) \ {x})
      /\ \A c \in Capability : c # d => next[c] = provs[c]
  BY <1>1, <1>2, <1>3 DEF unregister_provider, Without, Registries
<1>5. provs[d] \in Seq(Prov) /\ Ranked(provs[d])
  BY <1>3 DEF Orderly, Registries
<1>6. Ranked(next[d]) /\ ToSet(next[d]) = ToSet(provs[d]) \cap (ToSet(provs[d]) \ {x})
  BY <1>4, <1>5, SelectedFacts
<1>7. Takes(next, provs, {x})
  <2> SUFFICES ASSUME NEW c \in Capability PROVE ToSet(next[c]) = ToSet(provs[c]) \ {x}
    BY DEF Takes
  <2>1. CASE c = d
    BY <1>6, <2>1
  <2>2. CASE c # d
    <3>1. x \notin ToSet(provs[c])
      BY <1>1, <2>2 DEF Orderly
    <3>2. QED
      BY <1>4, <2>2, <3>1
  <2>3. QED
    BY <2>1, <2>2
<1>8. ASSUME NEW c \in Capability
      PROVE  Ranked(next[c]) /\ \A y \in ToSet(next[c]) : y.capability = c /\ y.object <= n
  <2>1. Ranked(provs[c])
    BY DEF Orderly
  <2>2. Ranked(next[c])
    BY <1>4, <1>6, <2>1
  <2>3. \A y \in ToSet(next[c]) : y \in ToSet(provs[c])
    BY <1>7 DEF Takes
  <2>4. QED
    BY <2>2, <2>3 DEF Orderly
<1>9. QED
  BY <1>2, <1>3, <1>7, <1>8 DEF Orderly

\* The providers of a load, registered one after the other.
LEMMA RegistryKeepsOrder ==
    ASSUME NEW n \in Nat, NEW provs, Orderly(provs, n), NEW new \in Seq(Prov),
           \A i \in 1 .. Len(new) : NamedAt(new[i], n + i)
    PROVE  /\ Orderly(Registry(provs, new), n + Len(new))
           /\ Adds(Registry(provs, new), provs, ToSet(new))
<1>1. provs \in Registries
  BY DEF Orderly
<1>2. PICK run : /\ run[0] = provs
                 /\ \A k \in 1 .. Len(new) : run[k] = register_provider(run[k - 1], new[k])
                 /\ Registry(provs, new) = run[Len(new)]
  BY <1>1, RegistryRuns
<1>3. PICK m \in Nat : m = Len(new) /\ DOMAIN new = 1 .. m
  OBVIOUS
<1> DEFINE First(k) == {new[i] : i \in 1 .. k}
           Fine == {k \in 0 .. m : Orderly(run[k], n + k) /\ Adds(run[k], provs, First(k))}
<1>4. 0 \in Fine
  <2>1. First(0) = {} /\ n + 0 = n /\ 0 \in 0 .. m
    OBVIOUS
  <2>2. Adds(provs, provs, {})
    BY DEF Adds
  <2>3. QED
    BY <1>2, <2>1, <2>2
<1>5. ASSUME NEW k \in 1 .. m, k - 1 \in Fine PROVE k \in Fine
  <2>1. PICK before : before = run[k - 1] /\ Orderly(before, n + (k - 1)) /\ Adds(before, provs, First(k - 1))
    BY <1>5
  <2>2. PICK x \in Prov : x = new[k]
    BY <1>3
  <2>3. n + (k - 1) \in Nat /\ (n + (k - 1)) + 1 = n + k
    OBVIOUS
  <2>4. NamedAt(x, (n + (k - 1)) + 1)
    BY <1>3, <2>2, <2>3
  <2>5. run[k] = register_provider(before, x)
    BY <1>2, <1>3, <2>1, <2>2
  <2>6. Orderly(run[k], n + k) /\ Adds(run[k], before, {x})
    BY <2>1, <2>3, <2>4, <2>5, RegisterKeepsOrder
  <2>7. First(k) = First(k - 1) \cup {x}
    <3>1. \A i \in 1 .. k : i = k \/ i \in 1 .. (k - 1)
      OBVIOUS
    <3>2. \A i \in 1 .. (k - 1) : i \in 1 .. k
      OBVIOUS
    <3>3. QED
      BY <2>2, <3>1, <3>2
  <2> HIDE DEF First
  <2>8. Adds(run[k], provs, First(k))
    BY <2>1, <2>6, <2>7 DEF Adds
  <2>9. k \in 0 .. m
    OBVIOUS
  <2>10. QED
    BY <2>6, <2>8, <2>9
<1>6. First(m) = ToSet(new)
  BY <1>3 DEF ToSet
<1> HIDE DEF Fine
<1>7. \A k \in 0 .. m : k \in Fine
  BY <1>4, <1>5, IndexInduction
<1>8. m \in Fine
  BY <1>7
<1>9. QED
  BY <1>2, <1>3, <1>6, <1>8 DEF Fine

\* The disposers of a scope, one after the other.
LEMMA DisposedKeepsOrder ==
    ASSUME NEW n \in Nat, NEW provs, Orderly(provs, n), NEW scope \in Seq(Prov)
    PROVE  /\ Orderly(Disposed(provs, scope), n)
           /\ Takes(Disposed(provs, scope), provs, ToSet(scope))
<1>1. provs \in Registries
  BY DEF Orderly
<1>2. PICK m \in Nat : m = Len(scope) /\ DOMAIN scope = 1 .. m
  OBVIOUS
<1>3. PICK q : q = Reverse(scope)
  OBVIOUS
<1>4. q = [i \in 1 .. m |-> scope[(m - i) + 1]]
  BY <1>2, <1>3 DEF Reverse
<1>5. \A i \in 1 .. m : (m - i) + 1 \in 1 .. m /\ (m - ((m - i) + 1)) + 1 = i
  OBVIOUS
<1>6. q \in Seq(Prov) /\ Len(q) = m
  <2>1. \A i \in 1 .. m : scope[(m - i) + 1] \in Prov
    BY <1>2, <1>5
  <2>2. q \in [1 .. m -> Prov]
    BY <1>4, <2>1
  <2>3. QED
    BY <2>2
<1>7. {q[i] : i \in 1 .. m} = ToSet(scope)
  <2>1. \A i \in 1 .. m : q[i] = scope[(m - i) + 1]
    BY <1>4
  <2>2. \A i \in 1 .. m : q[(m - i) + 1] = scope[i]
    BY <1>5, <2>1
  <2>3. ToSet(scope) = {scope[i] : i \in 1 .. m}
    BY <1>2 DEF ToSet
  <2>4. ASSUME NEW x \in {q[i] : i \in 1 .. m} PROVE x \in ToSet(scope)
    <3>1. PICK i \in 1 .. m : x = q[i]
      OBVIOUS
    <3>2. PICK j \in 1 .. m : j = (m - i) + 1
      BY <1>5
    <3>3. x = scope[j]
      BY <2>1, <3>1, <3>2
    <3>4. QED
      BY <2>3, <3>3
  <2>5. ASSUME NEW x \in ToSet(scope) PROVE x \in {q[i] : i \in 1 .. m}
    <3>1. PICK i \in 1 .. m : x = scope[i]
      BY <2>3
    <3>2. PICK j \in 1 .. m : j = (m - i) + 1
      BY <1>5
    <3>3. x = q[j]
      BY <2>2, <3>1, <3>2
    <3>4. QED
      BY <3>3
  <2>6. QED
    BY <2>4, <2>5
<1>8. Disposed(provs, scope) = Undone(provs, q)
  BY <1>3 DEF Disposed, Undone, FoldLeft, MapThenFoldSet
<1>9. PICK run : /\ run[0] = provs
                 /\ \A k \in 1 .. m : run[k] = unregister_provider(run[k - 1], q[k])
                 /\ Disposed(provs, scope) = run[m]
  <2>1. \E run : /\ run[0] = provs
                 /\ \A k \in 1 .. Len(q) : run[k] = unregister_provider(run[k - 1], q[k])
                 /\ Undone(provs, q) = run[Len(q)]
    BY <1>1, <1>6, UnregisterRuns
  <2>2. QED
    BY <1>6, <1>8, <2>1
<1> DEFINE First(k) == {q[i] : i \in 1 .. k}
           Fine == {k \in 0 .. m : Orderly(run[k], n) /\ Takes(run[k], provs, First(k))}
<1>10. 0 \in Fine
  <2>1. First(0) = {} /\ 0 \in 0 .. m
    OBVIOUS
  <2>2. Takes(provs, provs, {})
    BY DEF Takes
  <2>3. QED
    BY <1>9, <2>1, <2>2
<1>11. ASSUME NEW k \in 1 .. m, k - 1 \in Fine PROVE k \in Fine
  <2>1. PICK before : before = run[k - 1] /\ Orderly(before, n) /\ Takes(before, provs, First(k - 1))
    BY <1>11
  <2>2. PICK x \in Prov : x = q[k]
    BY <1>6
  <2>3. run[k] = unregister_provider(before, x)
    BY <1>9, <2>1, <2>2
  <2>4. Orderly(run[k], n) /\ Takes(run[k], before, {x})
    BY <2>1, <2>3, UnregisterKeepsOrder
  <2>5. First(k) = First(k - 1) \cup {x}
    <3>1. \A i \in 1 .. k : i = k \/ i \in 1 .. (k - 1)
      OBVIOUS
    <3>2. \A i \in 1 .. (k - 1) : i \in 1 .. k
      OBVIOUS
    <3>3. QED
      BY <2>2, <3>1, <3>2
  <2> HIDE DEF First
  <2>6. Takes(run[k], provs, First(k))
    BY <2>1, <2>4, <2>5 DEF Takes
  <2>7. k \in 0 .. m
    OBVIOUS
  <2>8. QED
    BY <2>4, <2>6, <2>7
<1> HIDE DEF Fine
<1>12. \A k \in 0 .. m : k \in Fine
  BY <1>10, <1>11, IndexInduction
<1>13. m \in Fine
  BY <1>12
<1>14. QED
  BY <1>7, <1>9, <1>13 DEF Fine
-----------------------------------------------------------------------------
(* The invariant of the runtime.                                           *)

\* What a load of p gives.
Load(p, n, new) ==
    /\ new \in Seq(Prov)
    /\ \A i \in 1 .. Len(new) : NamedAt(new[i], n + i) /\ new[i].maker = p

LEMMA LoadsNothing ==
    ASSUME NEW p, NEW n
    PROVE  Load(p, n, << >>)
BY DEF Load

LEMMA LoadsCommands ==
    ASSUME NEW p \in Plugin, made \in Nat
    PROVE  Load(p, made, Commands(p))
<1>1. PICK cs : cs = Selected(Manifest[p].capabilities,
                         {c \in Capability \ Manifest[p].requires :
                             ~(Resolvable(providers, c) /\ resolve(c).plugin = p)})
  OBVIOUS
<1>2. Manifest[p].capabilities \in Seq(Capability)
  BY PluginAssumption
<1>3. cs \in Seq(Capability)
  BY <1>1, <1>2, SelectionExists
<1>4. PICK m \in Nat : m = Len(cs) /\ DOMAIN cs = 1 .. m
  BY <1>3
<1>5. PICK new : new = [i \in 1 .. m |-> ProviderObject(p, p, cs[i], 0, made + i)]
  OBVIOUS
<1>6. new = Commands(p)
  BY <1>1, <1>4, <1>5 DEF Commands
<1>7. \A i \in 1 .. m : /\ new[i] \in Prov /\ new[i].maker = p
                        /\ new[i].object = made + i
  <2>1. \A i \in 1 .. m : cs[i] \in Capability
    BY <1>3, <1>4
  <2>2. \A i \in 1 .. m : new[i] = ProviderObject(p, p, cs[i], 0, made + i)
    BY <1>5
  <2>3. \A i \in 1 .. m : made + i \in Int /\ 0 \in Int
    BY <1>4
  <2>4. ASSUME NEW i \in 1 .. m
        PROVE  new[i] \in Prov /\ new[i].maker = p /\ new[i].object = made + i
    <3>1. PICK o \in Int : o = made + i
      BY <2>3
    <3>2. cs[i] \in Capability /\ new[i] = ProviderObject(p, p, cs[i], 0, o)
      BY <2>1, <2>2, <3>1
    <3>3. QED
      BY <3>1, <3>2 DEF ProviderObject, Prov
  <2>5. QED
    BY <2>4
<1>8. new \in Seq(Prov) /\ Len(new) = m
  BY <1>5, <1>7
<1>9. QED
  BY <1>6, <1>7, <1>8 DEF Load, NamedAt

LEMMA LoadsOffers ==
    ASSUME NEW p \in Plugin, made \in Nat
    PROVE  Load(p, made, Loaded(p))
<1> DEFINE Offer == [id : Plugin, capability : Capability, precedence : Int]
<1>1. PICK taken : taken = Selected(Manifest[p].offers,
                               {o \in ToSet(Manifest[p].offers) :
                                   o.capability \in ToSet(Manifest[p].capabilities)})
  OBVIOUS
<1>2. Manifest[p].offers \in Seq(Offer)
  BY PluginAssumption
<1>3. taken \in Seq(Offer)
  <2> HIDE DEF Offer
  <2>1. QED
    BY <1>1, <1>2, SelectionExists
<1>4. PICK m \in Nat : m = Len(taken) /\ DOMAIN taken = 1 .. m
  BY <1>3
<1>5. PICK new : new = [i \in 1 .. m |->
                            ProviderObject(p, taken[i].id, taken[i].capability, taken[i].precedence,
                                           IF Manifest[p].shared THEN -i ELSE made + i)]
  OBVIOUS
<1>6. new = Loaded(p)
  BY <1>1, <1>4, <1>5 DEF Loaded
<1>7. \A i \in 1 .. m : /\ new[i] \in Prov /\ new[i].maker = p
                        /\ (new[i].object = -i \/ new[i].object = made + i)
  <2>1. \A i \in 1 .. m : taken[i] \in Offer
    <3> HIDE DEF Offer
    <3>1. QED
      BY <1>3, <1>4
  <2>2. \A i \in 1 .. m : /\ taken[i].id \in Plugin /\ taken[i].capability \in Capability
                            /\ taken[i].precedence \in Int
    BY <2>1
  <2>3. \A i \in 1 .. m : new[i] = ProviderObject(p, taken[i].id, taken[i].capability, taken[i].precedence,
                                           IF Manifest[p].shared THEN -i ELSE made + i)
    BY <1>5
  <2>4. ASSUME NEW i \in 1 .. m
        PROVE  /\ new[i] \in Prov /\ new[i].maker = p
               /\ (new[i].object = -i \/ new[i].object = made + i)
    <3>1. PICK o : o = IF Manifest[p].shared THEN -i ELSE made + i
      OBVIOUS
    <3>2. o \in Int /\ (o = -i \/ o = made + i)
      BY <3>1
    <3>3. new[i] = ProviderObject(p, taken[i].id, taken[i].capability, taken[i].precedence, o)
      BY <2>3, <3>1
    <3>4. new[i] \in Prov /\ new[i].maker = p /\ new[i].object = o
      BY <2>2, <3>2, <3>3 DEF ProviderObject, Prov
    <3>5. QED
      BY <3>2, <3>4
  <2>5. QED
    BY <2>4
<1>8. new \in Seq(Prov) /\ Len(new) = m
  BY <1>5, <1>7
<1>9. \A i \in 1 .. m : NamedAt(new[i], made + i)
  <2>1. \A i \in 1 .. m : -i <= 0
    OBVIOUS
  <2>2. QED
    BY <1>7, <2>1 DEF NamedAt
<1>10. QED
  BY <1>6, <1>7, <1>8, <1>9 DEF Load

\* The providers of p in a registry.
Of(provs, p) == UNION {{x \in ToSet(provs[c]) : x.maker = p} : c \in Capability}

PluginInv ==
    /\ PluginTypeOK
    /\ Orderly(providers, made)
    /\ effects \in [Plugin -> Seq(Prov)]
    /\ EffectsAreTheProviders

LEMMA RegistersForPlugin ==
    ASSUME NEW provs, NEW before, NEW p, NEW new, NEW n, Load(p, n, new),
           Adds(provs, before, ToSet(new))
    PROVE  /\ Of(provs, p) = Of(before, p) \cup ToSet(new)
           /\ \A q \in Plugin : q # p => Of(provs, q) = Of(before, q)
<1>1. \A x \in ToSet(new) : x.maker = p /\ x.capability \in Capability
  <2>1. DOMAIN new = 1 .. Len(new) /\ \A i \in 1 .. Len(new) : new[i] \in Prov /\ new[i].maker = p
    BY DEF Load
  <2>2. \A x \in ToSet(new) : x \in Prov /\ x.maker = p
    BY <2>1 DEF ToSet
  <2>3. QED
    BY <2>2 DEF Prov
<1>2. QED
  BY <1>1 DEF Adds, Of

\* To take out providers of p leaves those of the others.
LEMMA TakesFromPlugin ==
    ASSUME NEW provs, NEW before, NEW p, NEW X, Takes(provs, before, X),
           \A x \in X : x.maker = p, Of(before, p) \subseteq X
    PROVE  /\ Of(provs, p) = {}
           /\ \A q \in Plugin : q # p => Of(provs, q) = Of(before, q)
BY DEF Takes, Of

LEMMA TakesFromAll ==
    ASSUME NEW provs, NEW before, NEW X, Takes(provs, before, X)
    PROVE  \A q \in Plugin : Of(provs, q) = Of(before, q) \ X
BY DEF Takes, Of

LEMMA Concatenated ==
    ASSUME NEW a \in Seq(Prov), NEW b \in Seq(Prov)
    PROVE  a \o b \in Seq(Prov) /\ ToSet(a \o b) = ToSet(a) \cup ToSet(b)
<1>1. PICK m \in Nat : m = Len(a) /\ DOMAIN a = 1 .. m
  OBVIOUS
<1>2. PICK n \in Nat : n = Len(b) /\ DOMAIN b = 1 .. n
  OBVIOUS
<1>3. /\ a \o b \in Seq(Prov) /\ DOMAIN (a \o b) = 1 .. m + n
      /\ \A i \in 1 .. m : (a \o b)[i] = a[i]
      /\ \A i \in 1 .. n : (a \o b)[m + i] = b[i]
  BY <1>1, <1>2
<1>4. \A i \in 1 .. m + n : i \in 1 .. m \/ \E j \in 1 .. n : i = m + j
  <2> TAKE i \in 1 .. m + n
  <2>1. i > m => i - m \in 1 .. n /\ i = m + (i - m)
    OBVIOUS
  <2>2. QED
    BY <2>1
<1>5. (\A i \in 1 .. m : i \in 1 .. m + n) /\ \A i \in 1 .. n : m + i \in 1 .. m + n
  OBVIOUS
<1>6. ASSUME NEW x \in ToSet(a \o b) PROVE x \in ToSet(a) \cup ToSet(b)
  <2>1. PICK i \in 1 .. m + n : x = (a \o b)[i]
    BY <1>3 DEF ToSet
  <2>2. CASE i \in 1 .. m
    <3>1. x = a[i]
      BY <1>3, <2>1, <2>2
    <3>2. QED
      BY <1>1, <2>2, <3>1 DEF ToSet
  <2>3. ASSUME NEW j \in 1 .. n, i = m + j PROVE x \in ToSet(b)
    <3>1. x = b[j]
      BY <1>3, <2>1, <2>3
    <3>2. QED
      BY <1>2, <3>1 DEF ToSet
  <2>4. QED
    BY <1>4, <2>2, <2>3
<1>7. \A x \in ToSet(a) : x \in ToSet(a \o b)
  BY <1>1, <1>3, <1>5 DEF ToSet
<1>8. \A x \in ToSet(b) : x \in ToSet(a \o b)
  BY <1>2, <1>3, <1>5 DEF ToSet
<1>9. QED
  BY <1>3, <1>6, <1>7, <1>8

\* What still serves in the name of p carries its id.
LEMMA LeftInItsName ==
    ASSUME NEW p \in Plugin, NEW n, NEW provs, Orderly(provs, n), Leftover(p, provs) # << >>
    PROVE  LET x == provs[Leftover(p, provs)[1]][1] IN x \in Prov /\ x.plugin = p
<1> DEFINE S == {c \in Capability : Resolvable(provs, c) /\ provs[c][1].plugin = p}
<1>1. Manifest[p].capabilities \in Seq(Capability)
  BY PluginAssumption
<1>2. PICK out \in Seq(Capability) : out = Selected(Manifest[p].capabilities, S)
          /\ \E h : IsSelection(out, h, Manifest[p].capabilities, Len(Manifest[p].capabilities), S)
  <2> HIDE DEF S
  <2>1. QED
    BY <1>1, SelectionExists
<1>3. out = Leftover(p, provs) /\ out # << >>
  BY <1>2 DEF Leftover
<1>4. 1 \in DOMAIN out
  BY <1>2, <1>3
<1>5. out[1] \in S
  <2> HIDE DEF S
  <2>1. QED
    BY <1>2, <1>4 DEF IsSelection
<1>6. PICK c \in Capability : c = out[1] /\ Resolvable(provs, c) /\ provs[c][1].plugin = p
  BY <1>5
<1>7. provs[c] \in Seq(Prov) /\ provs[c] # << >>
  BY <1>6 DEF Orderly, Registries, Resolvable
<1>8. provs[c][1] \in Prov
  BY <1>7
<1>9. QED
  BY <1>3, <1>6, <1>8

LEMMA PluginInit_Inv == PluginInit => PluginInv
<1> SUFFICES ASSUME PluginInit PROVE PluginInv
  OBVIOUS
<1>1. PluginTypeOK
  BY PluginAssumption DEF PluginInit, PluginTypeOK, States
<1>2. \A c \in Capability : providers[c] = << >> /\ ToSet(providers[c]) = {}
  BY DEF PluginInit, ToSet
<1>3. Orderly(providers, made)
  <2>1. providers \in Registries
    BY DEF PluginInit, Registries
  <2>2. QED
    BY <1>2, <2>1 DEF Orderly, Ranked
<1>4. \A p \in Plugin : ToSet(effects[p]) = {} /\ Offered(p) = {}
  BY <1>2 DEF PluginInit, ToSet, Offered
<1>5. effects \in [Plugin -> Seq(Prov)]
  <2>1. << >> \in Seq(Prov)
    OBVIOUS
  <2>2. QED
    BY <2>1 DEF PluginInit
<1>6. QED
  BY <1>1, <1>3, <1>4, <1>5 DEF PluginInv, EffectsAreTheProviders

LEMMA PluginStep == PluginInv /\ [PluginNext]_pluginVars => PluginInv'
<1> SUFFICES ASSUME PluginInv, [PluginNext]_pluginVars PROVE PluginInv'
  OBVIOUS
<1>1. made \in Nat /\ Orderly(providers, made) /\ PluginTypeOK
  BY PluginAssumption DEF PluginInv, PluginTypeOK
<1>2. ASSUME UNCHANGED <<providers, effects, made>>, PluginTypeOK' PROVE PluginInv'
  BY <1>2 DEF PluginInv, EffectsAreTheProviders, Offered
<1>3. CASE UNCHANGED pluginVars
  BY <1>1, <1>2, <1>3 DEF pluginVars, PluginTypeOK
<1>4. CASE NextCommand
  <2>1. PluginTypeOK'
    BY <1>1, <1>4, PluginAssumption DEF NextCommand, PluginTypeOK
  <2>2. \A c \in Capability : providers'[c] = << >> /\ ToSet(providers'[c]) = {}
    BY <1>4 DEF NextCommand, ToSet
  <2>3. Orderly(providers', made')
    <3>1. providers' \in Registries
      BY <1>4 DEF NextCommand, Registries
    <3>2. QED
      BY <2>2, <3>1 DEF Orderly, Ranked
  <2>4. \A p \in Plugin : ToSet(effects'[p]) = {} /\ Offered(p)' = {}
    BY <1>4, <2>2 DEF NextCommand, ToSet, Offered
  <2>5. effects' \in [Plugin -> Seq(Prov)]
    <3>1. << >> \in Seq(Prov)
      OBVIOUS
    <3>2. QED
      BY <1>4, <3>1 DEF NextCommand
  <2>6. QED
    BY <2>1, <2>3, <2>4, <2>5 DEF PluginInv, EffectsAreTheProviders
<1>5. ASSUME NEW p \in Plugin, Discover(p) PROVE PluginInv'
  <2>1. hydrate \in [Plugin -> States]
    BY <1>1 DEF PluginTypeOK, hydrate
  <2>2. PluginTypeOK'
    BY <1>1, <1>5, <2>1 DEF Discover, PluginTypeOK, States
  <2>3. QED
    BY <1>2, <1>5, <2>2 DEF Discover
<1>6. ASSUME NEW p \in Plugin, deactivate(p) PROVE PluginInv'
  <2>1. PluginTypeOK'
    BY <1>1, <1>6 DEF deactivate, Persist, PluginTypeOK, States
  <2>2. /\ effects[p] \in Seq(Prov) /\ Of(providers, p) \subseteq ToSet(effects[p])
        /\ \A x \in ToSet(effects[p]) : x.maker = p
    BY DEF PluginInv, EffectsAreTheProviders, Offered, Of
  <2>3. PICK left : left = Disposed(providers, effects[p])
    OBVIOUS
  <2>4. Orderly(left, made) /\ Takes(left, providers, ToSet(effects[p]))
    BY <1>1, <2>2, <2>3, DisposedKeepsOrder
  <2>5. /\ Of(left, p) = {}
        /\ \A q \in Plugin : q # p => Of(left, q) = Of(providers, q)
    BY <2>2, <2>4, TakesFromPlugin
  <2>6. made' = made /\ effects' = [effects EXCEPT ![p] = << >>]
    BY <1>6 DEF deactivate
  <2>7. \/ providers' = left
        \/ \E x \in Prov : x.plugin = p /\ providers' = unregister_provider(left, x)
    <3>1. providers' = IF Leftover(p, left) = << >> THEN left
                       ELSE unregister_provider(left, left[Leftover(p, left)[1]][1])
      BY <1>6, <2>3 DEF deactivate
    <3>2. QED
      BY <2>4, <3>1, LeftInItsName
  <2>8. PICK X : /\ Orderly(providers', made) /\ Takes(providers', left, X)
                 /\ \A x \in X : x.plugin = p
    <3>1. CASE providers' = left
      <4>1. Orderly(providers', made) /\ Takes(providers', left, {})
        BY <2>4, <3>1 DEF Takes
      <4>2. QED
        BY <4>1
    <3>2. CASE \E x \in Prov : x.plugin = p /\ providers' = unregister_provider(left, x)
      <4>1. PICK x \in Prov : x.plugin = p /\ providers' = unregister_provider(left, x)
        BY <3>2
      <4>2. Orderly(providers', made) /\ Takes(providers', left, {x})
        BY <1>1, <2>4, <4>1, UnregisterKeepsOrder
      <4>3. QED
        BY <4>1, <4>2
    <3>3. QED
      BY <2>7, <3>1, <3>2
  <2>9. \A q \in Plugin : Of(providers', q) = Of(left, q) \ X
    BY <2>8, TakesFromAll
  <2>10. effects' \in [Plugin -> Seq(Prov)]
    BY <2>6 DEF PluginInv
  <2>11. ASSUME NEW q \in Plugin
         PROVE  /\ Of(providers', q) \subseteq ToSet(effects'[q])
                /\ \A x \in ToSet(effects'[q]) :
                      x.maker = q /\ (x \in Of(providers', q) \/ x.plugin # q)
    <3>1. CASE q = p
      <4>1. ToSet(effects'[q]) = {}
        BY <2>6, <3>1 DEF PluginInv, ToSet
      <4>2. QED
        BY <2>5, <2>9, <3>1, <4>1
    <3>2. CASE q # p
      <4>1. effects'[q] = effects[q] /\ Of(providers', q) = Of(providers, q) \ X
        BY <2>5, <2>6, <2>9, <3>2 DEF PluginInv
      <4>2. /\ Of(providers, q) \subseteq ToSet(effects[q])
            /\ \A x \in ToSet(effects[q]) : x.maker = q /\ (x \in Of(providers, q) \/ x.plugin # q)
        BY DEF PluginInv, EffectsAreTheProviders, Offered, Of
      <4>3. QED
        BY <2>8, <3>2, <4>1, <4>2
    <3>3. QED
      BY <3>1, <3>2
  <2>12. EffectsAreTheProviders'
    BY <2>11 DEF EffectsAreTheProviders, Offered, Of
  <2>13. QED
    BY <2>1, <2>6, <2>8, <2>10, <2>12 DEF PluginInv
<1>7. ASSUME NEW p \in Plugin, plugin_remove(p) PROVE PluginInv'
  <2>1. PluginTypeOK'
    BY <1>1, <1>7 DEF plugin_remove, PluginTypeOK, States
  <2>2. QED
    BY <1>2, <1>7, <2>1 DEF plugin_remove
<1>8. ASSUME NEW p \in Plugin, NEW enabled \in BOOLEAN, activate(p, enabled) PROVE PluginInv'
  <2>1. should_activate(p, enabled) \in States
    BY DEF should_activate, States
  <2>2. CASE should_activate(p, enabled) # "ACTIVE"
    <3>1. /\ Persist(p, should_activate(p, enabled))
          /\ UNCHANGED <<profile, providers, effects, made>>
      BY <1>8, <2>2 DEF activate
    <3>2. PluginTypeOK'
      BY <1>1, <2>1, <3>1 DEF Persist, PluginTypeOK
    <3>3. QED
      BY <1>2, <3>1, <3>2
  <2>3. ASSUME NEW new, new \in {Commands(p), Loaded(p), << >>}, NEW healthy \in BOOLEAN,
               made + Len(new) <= MaxObjects,
               providers' = Registry(providers, new),
               effects' = [effects EXCEPT ![p] = Scoped(p, new, healthy)],
               made' = made + Len(new),
               Persist(p, IF healthy THEN "ACTIVE" ELSE "FAILED"),
               profile' = profile
        PROVE  PluginInv'
    <3>1. Load(p, made, new)
      BY <1>1, <2>3, LoadsNothing, LoadsCommands, LoadsOffers
    <3>2. /\ new \in Seq(Prov) /\ Len(new) \in Nat
          /\ \A i \in 1 .. Len(new) : NamedAt(new[i], made + i)
      BY <3>1 DEF Load
    <3>3. PICK provs : provs = Registry(providers, new)
      OBVIOUS
    <3>4. Orderly(provs, made + Len(new)) /\ Adds(provs, providers, ToSet(new))
      BY <1>1, <3>2, <3>3, RegistryKeepsOrder
    <3>5. /\ Of(provs, p) = Of(providers, p) \cup ToSet(new)
          /\ \A q \in Plugin : q # p => Of(provs, q) = Of(providers, q)
      BY <3>1, <3>4, RegistersForPlugin
    <3>6. PICK scope : scope = effects[p] \o new
      OBVIOUS
    <3>7. effects[p] \in Seq(Prov)
      BY DEF PluginInv
    <3>8. scope \in Seq(Prov) /\ ToSet(scope) = ToSet(effects[p]) \cup ToSet(new)
      BY <3>2, <3>6, <3>7, Concatenated
    <3>9. effects' = [effects EXCEPT ![p] = scope]
      BY <2>3, <3>6 DEF Scoped
    <3>10. effects' \in [Plugin -> Seq(Prov)]
      BY <3>8, <3>9 DEF PluginInv
    <3>11. PluginTypeOK'
      <4>1. made' \in 0 .. MaxObjects
        BY <1>1, <2>3, <3>2, PluginAssumption
      <4>2. state' \in [Plugin -> States] /\ stored' \in [Plugin -> States]
        BY <1>1, <2>3 DEF Persist, PluginTypeOK, States
      <4>3. profile' \in Profiles
        BY <1>1, <2>3 DEF PluginTypeOK
      <4>4. QED
        BY <4>1, <4>2, <4>3 DEF PluginTypeOK
    <3>12. ASSUME NEW q \in Plugin
           PROVE  /\ Of(provs, q) \subseteq ToSet(effects'[q])
                  /\ \A x \in ToSet(effects'[q]) :
                        x.maker = q /\ (x \in Of(provs, q) \/ x.plugin # q)
      <4>1. /\ Of(providers, q) \subseteq ToSet(effects[q])
            /\ \A x \in ToSet(effects[q]) : x.maker = q /\ (x \in Of(providers, q) \/ x.plugin # q)
        BY DEF PluginInv, EffectsAreTheProviders, Offered, Of
      <4>2. effects'[p] = scope /\ \A r \in Plugin : r # p => effects'[r] = effects[r]
        BY <3>9 DEF PluginInv
      <4>3. \A x \in ToSet(new) : x.maker = p
        BY <3>1 DEF Load, ToSet
      <4>4. CASE q = p
        BY <3>5, <3>8, <4>1, <4>2, <4>3, <4>4
      <4>5. CASE q # p
        BY <3>5, <4>1, <4>2, <4>5
      <4>6. QED
        BY <4>4, <4>5
    <3>13. EffectsAreTheProviders'
      BY <2>3, <3>3, <3>12 DEF EffectsAreTheProviders, Offered, Of
    <3>14. QED
      BY <2>3, <3>3, <3>4, <3>10, <3>11, <3>13 DEF PluginInv
  <2>4. QED
    BY <1>8, <2>2, <2>3 DEF activate
<1>9. ASSUME NEW p \in Plugin, NEW c \in Capability, execute(p, c) PROVE PluginInv'
  <2>1. PluginTypeOK'
    BY <1>1, <1>9 DEF execute, Persist, PluginTypeOK, States
  <2>2. QED
    BY <1>2, <1>9, <2>1 DEF execute
<1>10. QED
  BY <1>3, <1>4, <1>5, <1>6, <1>7, <1>8, <1>9 DEF PluginNext

\* The strongest registered serves, since the lists are ranked.
LEMMA RankedServes == PluginInv => StrongestServes
<1> SUFFICES ASSUME PluginInv, NEW c \in Capability, NEW x \in ToSet(providers[c]),
                    Resolvable(providers, c)
             PROVE  \/ resolve(c).precedence > x.precedence
                    \/ resolve(c).precedence = x.precedence
                       /\ (resolve(c).object > 0 /\ x.object > 0 => resolve(c).object <= x.object)
  BY DEF StrongestServes
<1>1. providers[c] \in Seq(Prov) /\ Ranked(providers[c])
  BY DEF PluginInv, Orderly, Registries
<1>2. PICK m \in Nat : m = Len(providers[c]) /\ DOMAIN providers[c] = 1 .. m
  BY <1>1
<1>3. PICK i \in 1 .. m : x = providers[c][i]
  BY <1>2 DEF ToSet
<1>4. 1 \in 1 .. m
  OBVIOUS
<1>5. CASE i = 1
  <2>1. x = resolve(c) /\ x \in Prov
    BY <1>1, <1>2, <1>3, <1>5 DEF resolve
  <2>2. x.object \in Int /\ x.object <= x.object
    BY <2>1 DEF Prov
  <2>3. QED
    BY <2>1, <2>2
<1>6. CASE i # 1
  <2>1. 1 < i
    BY <1>6
  <2>2. Outranks(providers[c][1], x)
    BY <1>1, <1>2, <1>3, <1>4, <2>1 DEF Ranked
  <2>3. QED
    BY <2>2 DEF Outranks, resolve
<1>7. QED
  BY <1>5, <1>6

\* The inductive invariant of the plugin runtime: every list of the registry is ranked,
\* of its capability and of the objects made so far, and the scope of a plugin holds
\* its providers alone and all that are there, and lacks there only what carries the id
\* of another plugin.
THEOREM PluginInvariant == PluginSpec => []PluginInv
<1>1. QED
  BY PluginInit_Inv, PluginStep, PTL DEF PluginSpec

\* The states of the plugins, in the process and in the database, have their type.
THEOREM PluginTypeCorrect == PluginSpec => []PluginTypeOK
<1>1. PluginInv => PluginTypeOK
  BY DEF PluginInv
<1>2. QED
  BY <1>1, PluginInvariant, PTL

\* After any sequence of loads, failed health checks, shadowed registrations, discoveries
\* and unloads the scope of a plugin holds all the registry has of it and nothing of
\* another, what carries its id is still there, and the strongest provider of each
\* capability serves (PluginRuntime.activate, deactivate).
THEOREM RegistryStaysSound == PluginSpec => []RegistryIsSound
<1>1. PluginInv => RegistryIsSound
  BY RankedServes DEF PluginInv, RegistryIsSound
<1>2. QED
  BY <1>1, PluginInvariant, PTL

-----------------------------------------------------------------------------
(* The provider settings, for any catalog, providers, models and requests. *)

Distinct(s) == \A i, j \in 1 .. Len(s) : i < j => s[i] # s[j]

\* Nothing comes after the fallback.
FallbackLast(s) == Fallback \in ToSet(s) => s # << >> /\ Last(s) = Fallback

GoodOrder(s) == s \in Seq(Provider) /\ Distinct(s) /\ FallbackLast(s)

WellFormed(s) ==
    /\ s \in Settings
    /\ GoodOrder(s.order)
    /\ ToSet(s.order) = Configured(s)

LEMMA InSettings ==
    ASSUME NEW order \in Seq(Provider), NEW S \in SUBSET Provider, NEW entry \in [S -> Entry]
    PROVE  [order |-> order, entry |-> entry] \in Settings
<1>1. entry \in UNION {[R -> Entry] : R \in SUBSET Provider}
  OBVIOUS
<1>2. QED
  BY <1>1 DEF Settings

LEMMA OfSettings ==
    ASSUME NEW s \in Settings
    PROVE  /\ s.order \in Seq(Provider) /\ Configured(s) \in SUBSET Provider
           /\ s.entry \in [Configured(s) -> Entry]
<1>1. s.order \in Seq(Provider) /\ s.entry \in UNION {[R -> Entry] : R \in SUBSET Provider}
  BY DEF Settings
<1>2. PICK R \in SUBSET Provider : s.entry \in [R -> Entry]
  BY <1>1
<1>3. QED
  BY <1>1, <1>2 DEF Configured

\* Without p.
LEMMA OrderWithout ==
    ASSUME NEW s, GoodOrder(s), NEW p, p \in Provider
    PROVE  /\ GoodOrder(Selected(s, ToSet(s) \ {p}))
           /\ ToSet(Selected(s, ToSet(s) \ {p})) = ToSet(s) \ {p}
<1> DEFINE S == ToSet(s) \ {p}
<1>1. s \in Seq(Provider)
  BY DEF GoodOrder
<1>2. PICK out \in Seq(Provider) : out = Selected(s, S) /\ \E h : IsSelection(out, h, s, Len(s), S)
  BY <1>1, SelectionExists
<1>3. PICK h : IsSelection(out, h, s, Len(s), S)
  BY <1>2
<1>4. PICK n \in Nat : n = Len(s) /\ DOMAIN s = 1 .. n
  BY <1>1
<1>5. PICK m \in Nat : m = Len(out) /\ DOMAIN out = 1 .. m
  BY <1>2
<1>6. /\ \A k \in 1 .. m : h[k] \in 1 .. n /\ out[k] = s[h[k]] /\ out[k] \in S
      /\ \A j, k \in 1 .. m : j < k => h[j] < h[k]
      /\ \A i \in 1 .. n : s[i] \in S => \E k \in 1 .. m : h[k] = i
  BY <1>3, <1>4, <1>5 DEF IsSelection
<1>7. ToSet(s) = {s[i] : i \in 1 .. n} /\ ToSet(out) = {out[i] : i \in 1 .. m}
  BY <1>4, <1>5 DEF ToSet
<1>8. ToSet(out) = S
  <2>1. \A x \in ToSet(out) : x \in S
    BY <1>6, <1>7
  <2>2. \A x \in S : x \in ToSet(out)
    <3> SUFFICES ASSUME NEW x \in S PROVE x \in ToSet(out)
      OBVIOUS
    <3>1. PICK i \in 1 .. n : x = s[i]
      BY <1>7
    <3>2. PICK k \in 1 .. m : h[k] = i
      BY <1>6, <3>1
    <3>3. QED
      BY <1>6, <1>7, <3>1, <3>2
  <2>3. QED
    BY <2>1, <2>2
<1>9. Distinct(out)
  BY <1>4, <1>5, <1>6 DEF GoodOrder, Distinct
<1>10. FallbackLast(out)
  <2> SUFFICES ASSUME Fallback \in ToSet(out) PROVE out # << >> /\ Last(out) = Fallback
    BY DEF FallbackLast
  <2>1. Fallback \in ToSet(s) /\ Fallback \in S
    BY <1>8
  <2>2. n \in 1 .. n /\ s[n] = Fallback
    BY <1>4, <2>1 DEF GoodOrder, FallbackLast, Last
  <2>3. PICK k \in 1 .. m : h[k] = n
    BY <1>6, <2>1, <2>2
  <2>4. k = m
    <3>1. k < m => h[m] \in 1 .. n /\ n < h[m] /\ m \in 1 .. m
      BY <1>6, <2>3
    <3>2. QED
      BY <3>1
  <2>5. out[m] = Fallback /\ m # 0
    BY <1>6, <2>2, <2>3, <2>4
  <2>6. QED
    BY <1>5, <2>5 DEF Last
<1>11. QED
  BY <1>2, <1>8, <1>9, <1>10 DEF GoodOrder

\* With p at its place.
LEMMA OrderWith ==
    ASSUME NEW s, GoodOrder(s), NEW p \in Provider
    PROVE  GoodOrder(Ordered(s, p)) /\ ToSet(Ordered(s, p)) = ToSet(s) \cup {p}
<1>1. s \in Seq(Provider)
  BY DEF GoodOrder
<1>2. PICK n \in Nat : n = Len(s) /\ DOMAIN s = 1 .. n
  BY <1>1
<1>3. ToSet(s) = {s[i] : i \in 1 .. n} /\ \A i \in 1 .. n : s[i] \in Provider
  BY <1>1, <1>2 DEF ToSet
<1>4. \A i, j \in 1 .. n : i < j => s[i] # s[j]
  BY <1>2 DEF GoodOrder, Distinct
<1>5. CASE p \in ToSet(s)
  BY <1>5 DEF Ordered
<1>6. CASE p \notin ToSet(s) /\ Fallback \notin ToSet(s)
  <2>1. PICK t : t = Append(s, p)
    OBVIOUS
  <2>2. /\ t \in Seq(Provider) /\ Len(t) = n + 1 /\ DOMAIN t = 1 .. n + 1 /\ t[n + 1] = p
        /\ \A i \in 1 .. n : t[i] = s[i]
    BY <1>1, <1>2, <2>1
  <2>3. \A i \in 1 .. n + 1 : i = n + 1 \/ i \in 1 .. n
    OBVIOUS
  <2>4. (\A i \in 1 .. n : i \in 1 .. n + 1) /\ n + 1 \in 1 .. n + 1
    OBVIOUS
  <2>5. ToSet(t) = {t[i] : i \in 1 .. n + 1}
    BY <2>2 DEF ToSet
  <2>6. ToSet(t) = ToSet(s) \cup {p}
    <3>1. \A x \in ToSet(t) : x \in ToSet(s) \cup {p}
      BY <1>3, <2>2, <2>3, <2>5
    <3>2. \A x \in ToSet(s) \cup {p} : x \in ToSet(t)
      BY <1>3, <2>2, <2>4, <2>5
    <3>3. QED
      BY <3>1, <3>2
  <2>7. Distinct(t)
    <3>1. \A i \in 1 .. n : s[i] # p
      BY <1>3, <1>6
    <3>2. \A i \in 1 .. n + 1 : ~(n + 1 < i)
      OBVIOUS
    <3>3. QED
      BY <1>4, <2>2, <2>3, <3>1, <3>2 DEF Distinct
  <2>8. FallbackLast(t)
    BY <1>6, <2>2, <2>6 DEF FallbackLast, Last
  <2>9. QED
    BY <1>6, <2>1, <2>2, <2>6, <2>7, <2>8 DEF Ordered, GoodOrder
<1>7. CASE p \notin ToSet(s) /\ Fallback \in ToSet(s)
  <2>1. n # 0 /\ n \in 1 .. n /\ s[n] = Fallback
    BY <1>2, <1>7 DEF GoodOrder, FallbackLast, Last
  <2>2. SelectInSeq(s, LAMBDA x : x = Fallback) = n
    <3>1. \A i \in 1 .. n : s[i] = Fallback => i = n
      BY <1>4, <2>1
    <3>2. {i \in 1 .. Len(s) : s[i] = Fallback} = {n}
      BY <1>2, <2>1, <3>1
    <3>3. Min({n}) = n
      <4>1. {n} \in SUBSET Nat
        OBVIOUS
      <4>2. QED
        BY <4>1, LeastOf
    <3>4. QED
      BY <3>2, <3>3 DEF SelectInSeq
  <2>3. PICK t : t = InsertAt(s, n, p)
    OBVIOUS
  <2>4. /\ t \in Seq(Provider) /\ Len(t) = n + 1 /\ DOMAIN t = 1 .. n + 1
        /\ t[n] = p /\ t[n + 1] = Fallback
        /\ \A i \in 1 .. n - 1 : t[i] = s[i]
    <3>1. PICK a : a = SubSeq(s, 1, n - 1)
      OBVIOUS
    <3>2. PICK b : b = SubSeq(s, n, n)
      OBVIOUS
    <3>3. a \in Seq(Provider) /\ Len(a) = n - 1 /\ \A i \in 1 .. n - 1 : a[i] = s[i]
      BY <1>1, <1>2, <2>1, <3>1
    <3>4. b \in Seq(Provider) /\ Len(b) = 1 /\ b[1] = Fallback
      BY <1>1, <1>2, <2>1, <3>2
    <3>5. t = (a \o <<p>>) \o b
      BY <1>2, <2>3, <3>1, <3>2 DEF InsertAt
    <3>6. PICK c : c = a \o <<p>>
      OBVIOUS
    <3>7. c \in Seq(Provider) /\ Len(c) = n /\ c[n] = p /\ \A i \in 1 .. n - 1 : c[i] = a[i]
      BY <2>1, <3>3, <3>6
    <3>8. t = c \o b
      BY <3>5, <3>6
    <3>9. /\ t \in Seq(Provider) /\ Len(t) = n + 1
          /\ \A i \in 1 .. n + 1 : t[i] = IF i <= n THEN c[i] ELSE b[i - n]
      <4>1. /\ c \o b \in Seq(Provider) /\ Len(c \o b) = Len(c) + Len(b)
            /\ \A i \in 1 .. Len(c) + Len(b) :
                  (c \o b)[i] = IF i <= Len(c) THEN c[i] ELSE b[i - Len(c)]
        BY <3>4, <3>7, ConcatProperties
      <4>2. QED
        BY <3>4, <3>7, <3>8, <4>1
    <3>10. t[n + 1] = Fallback /\ \A i \in 1 .. n : t[i] = c[i]
      <4>1. n + 1 \in 1 .. n + 1 /\ ~(n + 1 <= n) /\ (n + 1) - n = 1
        OBVIOUS
      <4>2. \A i \in 1 .. n : i \in 1 .. n + 1 /\ i <= n
        OBVIOUS
      <4>3. QED
        BY <3>4, <3>9, <4>1, <4>2
    <3>11. QED
      BY <2>1, <3>3, <3>7, <3>9, <3>10
  <2>5. \A i \in 1 .. n + 1 : i = n + 1 \/ i = n \/ i \in 1 .. n - 1
    OBVIOUS
  <2>6. \A i \in 1 .. n : i = n \/ i \in 1 .. n - 1
    OBVIOUS
  <2>7. /\ \A i \in 1 .. n - 1 : i \in 1 .. n /\ i \in 1 .. n + 1 /\ i < n
        /\ n \in 1 .. n + 1 /\ n + 1 \in 1 .. n + 1
    BY <2>1
  <2>8. ToSet(t) = {t[i] : i \in 1 .. n + 1}
    BY <2>4 DEF ToSet
  <2>9. ToSet(t) = ToSet(s) \cup {p}
    <3>1. \A x \in ToSet(t) : x \in ToSet(s) \cup {p}
      <4> SUFFICES ASSUME NEW i \in 1 .. n + 1 PROVE t[i] \in ToSet(s) \cup {p}
        BY <2>8
      <4>1. CASE i \in 1 .. n - 1
        BY <1>3, <2>4, <2>7, <4>1
      <4>2. QED
        BY <1>3, <2>1, <2>4, <2>5, <4>1
    <3>2. \A x \in ToSet(s) \cup {p} : x \in ToSet(t)
      <4>1. p \in ToSet(t)
        BY <2>4, <2>7, <2>8
      <4>2. ASSUME NEW i \in 1 .. n PROVE s[i] \in ToSet(t)
        BY <2>1, <2>4, <2>6, <2>7, <2>8
      <4>3. QED
        BY <1>3, <4>1, <4>2
    <3>3. QED
      BY <3>1, <3>2
  <2>10. Distinct(t)
    <3>1. \A i \in 1 .. n : s[i] # p
      BY <1>3, <1>7
    <3> SUFFICES ASSUME NEW i \in 1 .. n + 1, NEW j \in 1 .. n + 1, i < j PROVE t[i] # t[j]
      BY <2>4 DEF Distinct
    <3>2. i \in 1 .. n - 1 \/ i = n
      OBVIOUS
    <3>3. CASE i = n
      <4>1. j = n + 1
        BY <3>3
      <4>2. QED
        BY <2>1, <2>4, <3>1, <3>3, <4>1
    <3>4. CASE i \in 1 .. n - 1
      <4>1. t[i] = s[i] /\ i \in 1 .. n /\ i < n
        BY <2>4, <2>7, <3>4
      <4>2. CASE j = n + 1
        BY <1>4, <2>1, <2>4, <4>1, <4>2
      <4>3. CASE j = n
        BY <2>4, <3>1, <4>1, <4>3
      <4>4. CASE j \in 1 .. n - 1
        BY <1>4, <2>4, <2>7, <4>1, <4>4
      <4>5. QED
        BY <2>5, <4>2, <4>3, <4>4
    <3>5. QED
      BY <3>2, <3>3, <3>4
  <2>11. FallbackLast(t)
    <3>1. t # << >>
      BY <2>4
    <3>2. QED
      BY <2>4, <3>1 DEF FallbackLast, Last
  <2>12. Ordered(s, p) = t
    BY <1>7, <2>2, <2>3 DEF Ordered
  <2>13. QED
    BY <2>4, <2>9, <2>10, <2>11, <2>12 DEF GoodOrder
<1>8. QED
  BY <1>5, <1>6, <1>7

\* Each provider stands in a whole order once.
LEMMA WholeOrder == \A s : WellFormed(s) => OrderIsWhole(s)
<1> SUFFICES ASSUME NEW s, WellFormed(s) PROVE OrderIsWhole(s)
  OBVIOUS
<1>1. PICK o \in Seq(Provider) : o = s.order
  BY DEF WellFormed, GoodOrder
<1>2. Distinct(o) /\ FallbackLast(o) /\ ToSet(o) = Configured(s)
  BY <1>1 DEF WellFormed, GoodOrder
<1>3. PICK n \in Nat : n = Len(o) /\ DOMAIN o = 1 .. n
  OBVIOUS
<1>4. ToSet(o) = {o[i] : i \in 1 .. n}
  BY <1>3 DEF ToSet
<1>5. o \in Surjection(1 .. n, ToSet(o))
  <2>1. o \in [1 .. n -> ToSet(o)]
    BY <1>3, <1>4
  <2>2. QED
    BY <1>4, <2>1 DEF Surjection
<1>6. o \in Injection(1 .. n, ToSet(o))
  <2>1. \A i, j \in 1 .. n : o[i] = o[j] => i = j
    <3> SUFFICES ASSUME NEW i \in 1 .. n, NEW j \in 1 .. n, i # j PROVE o[i] # o[j]
      OBVIOUS
    <3>1. i < j \/ j < i
      OBVIOUS
    <3>2. QED
      BY <1>2, <1>3, <3>1 DEF Distinct
  <2>2. QED
    BY <1>3, <1>5, <2>1 DEF Surjection, Injection, IsInjective
<1>7. IsFiniteSet(1 .. n) /\ Cardinality(1 .. n) = n
  BY InitialCount
<1>8. Cardinality(ToSet(o)) = n
  BY <1>5, <1>6, <1>7, FS_Surjection
<1>9. QED
  BY <1>1, <1>2, <1>3, <1>8 DEF OrderIsWhole, FallbackLast

\* What the requests make of whole settings.
LEMMA WithEntryWhole ==
    ASSUME NEW s, WellFormed(s), NEW p \in Provider, NEW entry \in Entry
    PROVE  /\ WellFormed(WithEntry(s, p, entry))
           /\ Configured(WithEntry(s, p, entry)) = Configured(s) \cup {p}
           /\ WithEntry(s, p, entry).entry[p] = entry
           /\ \A x \in Configured(s) \ {p} : WithEntry(s, p, entry).entry[x] = s.entry[x]
<1>1. PICK o : o = Ordered(s.order, p)
  OBVIOUS
<1>2. PICK f : f = [x \in Configured(s) \cup {p} |-> IF x = p THEN entry ELSE s.entry[x]]
  OBVIOUS
<1>3. PICK t : t = [order |-> o, entry |-> f]
  OBVIOUS
<1>4. t = WithEntry(s, p, entry)
  BY <1>1, <1>2, <1>3 DEF WithEntry
<1>5. Configured(s) \in SUBSET Provider /\ s.entry \in [Configured(s) -> Entry]
  BY OfSettings DEF WellFormed
<1>6. GoodOrder(o) /\ ToSet(o) = Configured(s) \cup {p}
  BY <1>1, OrderWith DEF WellFormed
<1>7. f \in [Configured(s) \cup {p} -> Entry]
  BY <1>2, <1>5
<1>8. t \in Settings
  <2>1. o \in Seq(Provider) /\ Configured(s) \cup {p} \in SUBSET Provider
    BY <1>5, <1>6 DEF GoodOrder
  <2>2. QED
    BY <1>3, <1>7, <2>1, InSettings
<1>9. t.order = o /\ t.entry = f /\ Configured(t) = Configured(s) \cup {p}
  BY <1>3, <1>7 DEF Configured
<1>10. WellFormed(t)
  BY <1>6, <1>8, <1>9 DEF WellFormed
<1>11. QED
  BY <1>2, <1>4, <1>9, <1>10

LEMMA RemovedWhole ==
    ASSUME NEW s, WellFormed(s), NEW p \in Provider
    PROVE  /\ WellFormed(Removed(s, p))
           /\ Configured(Removed(s, p)) = Configured(s) \ {p}
           /\ \A x \in Configured(s) \ {p} : Removed(s, p).entry[x] = s.entry[x]
<1>1. PICK o : o = Selected(s.order, ToSet(s.order) \ {p})
  OBVIOUS
<1>2. PICK f : f = [x \in Configured(s) \ {p} |-> s.entry[x]]
  OBVIOUS
<1>3. PICK t : t = [order |-> o, entry |-> f]
  OBVIOUS
<1>4. t = Removed(s, p)
  BY <1>1, <1>2, <1>3 DEF Removed
<1>5. Configured(s) \in SUBSET Provider /\ s.entry \in [Configured(s) -> Entry]
  BY OfSettings DEF WellFormed
<1>6. GoodOrder(o) /\ ToSet(o) = Configured(s) \ {p}
  BY <1>1, OrderWithout DEF WellFormed
<1>7. f \in [Configured(s) \ {p} -> Entry]
  BY <1>2, <1>5
<1>8. t \in Settings
  <2>1. o \in Seq(Provider) /\ Configured(s) \ {p} \in SUBSET Provider
    BY <1>5, <1>6 DEF GoodOrder
  <2>2. QED
    BY <1>3, <1>7, <2>1, InSettings
<1>9. t.order = o /\ t.entry = f /\ Configured(t) = Configured(s) \ {p}
  BY <1>3, <1>7 DEF Configured
<1>10. WellFormed(t)
  BY <1>6, <1>8, <1>9 DEF WellFormed
<1>11. QED
  BY <1>2, <1>4, <1>9, <1>10

LEMMA DefaultsWhole ==
    /\ WellFormed(Defaults) /\ Configured(Defaults) = {Main, Fallback}
    /\ \A p \in {Main, Fallback} : Defaults.entry[p].models = Catalog[p]
<1>1. PICK o : o = <<Main, Fallback>>
  OBVIOUS
<1>2. PICK f : f = [p \in {Main, Fallback} |-> [models |-> Catalog[p], removable |-> FALSE]]
  OBVIOUS
<1>3. PICK t : t = [order |-> o, entry |-> f]
  OBVIOUS
<1>4. t = Defaults
  BY <1>1, <1>2, <1>3 DEF Defaults
<1>5. {Main, Fallback} \in SUBSET Provider /\ Main # Fallback
  BY SettingsAssumption
<1>6. \A p \in {Main, Fallback} : Catalog[p] \in SUBSET Model
  BY SettingsAssumption
<1>7. f \in [{Main, Fallback} -> Entry]
  BY <1>2, <1>6 DEF Entry
<1>8. /\ o \in Seq(Provider) /\ Len(o) = 2 /\ o[1] = Main /\ o[2] = Fallback
      /\ DOMAIN o = {1, 2} /\ o # << >>
  BY <1>1, <1>5
<1>9. ToSet(o) = {Main, Fallback}
  BY <1>8 DEF ToSet
<1>10. GoodOrder(o)
  <2>1. \A i, j \in 1 .. 2 : i < j => i = 1 /\ j = 2
    OBVIOUS
  <2>2. QED
    BY <1>5, <1>8, <2>1 DEF GoodOrder, Distinct, FallbackLast, Last
<1>11. t \in Settings
  BY <1>3, <1>5, <1>7, <1>8, InSettings
<1>12. t.order = o /\ t.entry = f /\ Configured(t) = {Main, Fallback}
  BY <1>3, <1>7 DEF Configured
<1>13. QED
  BY <1>2, <1>4, <1>9, <1>10, <1>11, <1>12 DEF WellFormed
-----------------------------------------------------------------------------
(* The invariant of the settings.                                          *)

Named  == Provider \cup Managed
Ops    == {"none", "install", "describe", "update", "remove", "plugin", "check"}
Phases == {"idle", "asked", "truncate", "write", "keys", "truncateKeys", "writeKeys"}
Edits  == [op : Ops, provider : Named, key : {"same", "given", "cleared"}, phase : Phases,
           seen : SUBSET Model, base : Settings, new : Settings, keyNew : SUBSET Named]

Writing(d) == d.phase \in {"truncate", "write"}

EditOK(d) ==
    /\ d \in Edits /\ WellFormed(d.base) /\ WellFormed(d.new)
    /\ d.phase \in {"asked", "truncate", "write"} => d.provider \in Provider
    /\ Writing(d) /\ d.op # "remove" => d.provider \in Configured(d.new)
    /\ d.op = "remove" => d.key = "cleared" /\ d.provider \in Provider

\* What a request is about to write is what it read, but for its own provider.
Changes(d) ==
    LET p == d.provider IN
    /\ \A x \in Configured(d.base) \ {p} : d.new.entry[x] = d.base.entry[x]
    /\ IF d.op = "remove" THEN Configured(d.new) = Configured(d.base) \ {p}
       ELSE Configured(d.new) = Configured(d.base) \cup {p}
    /\ d.op = "check" => p \in Configured(d.base)
    /\ d.op = "check" => d.seen \subseteq d.new.entry[p].models
    /\ d.op = "install" /\ p \in Configured(d.base) =>
           d.base.entry[p].models \subseteq d.new.entry[p].models

\* The settings have all the user was told he has, but for what he lost.
Fits(s) ==
    /\ Configured(s) = DOMAIN choice
    /\ \A p \in DOMAIN choice : choice[p] \ lost[p] \subseteq s.entry[p].models

SettingsType ==
    /\ settings = Torn \/ WellFormed(settings)
    /\ credentials = Torn \/ credentials \in SUBSET Named
    /\ edit \in [Editor -> Edits] /\ \A e \in Editor : EditOK(edit[e])
    /\ DOMAIN choice \in SUBSET Provider /\ choice \in [DOMAIN choice -> SUBSET Model]
    /\ keyed \in SUBSET Named /\ clashed \in BOOLEAN /\ edits \in 0 .. MaxEdits
    /\ lost \in [Provider -> SUBSET Model] /\ strays \in SUBSET Provider

\* One request at most is writing a file, from what the file held.
OneWrites ==
    /\ settings # Torn => Fits(settings)
    /\ \A e \in Editor : edit[e].phase = "write" => settings = Torn /\ Fits(edit[e].base)
    /\ \A e, x \in Editor : edit[e].phase = "write" /\ edit[x].phase = "write" => e = x
    /\ \A e \in Editor : Writing(edit[e]) => Changes(edit[e])

OneFills ==
    /\ (\A e \in Editor : edit[e].phase # "writeKeys") => credentials = keyed
    /\ \A e \in Editor : Filling(edit[e]) => edit[e].keyNew = WrittenKeys(e, keyed)
    /\ \A e \in Editor : edit[e].phase = "writeKeys" => credentials = Torn
    /\ \A e, x \in Editor : Filling(edit[e]) /\ Filling(edit[x]) => e = x

\* No key outlives its provider, but for a stray or one that is being removed, and none
\* is about to be stored for a provider that is gone, but for a stray.
KeysHeld ==
    /\ \A p \in keyed \cap Provider :
        p \in DOMAIN choice \cup strays \/ \E e \in Editor : Removing(e) /\ edit[e].provider = p
    /\ \A e \in Editor : AtKeys(e) /\ edit[e].key = "given" /\ edit[e].provider \in Provider =>
        edit[e].provider \in DOMAIN choice \cup strays

SettingsInv == SettingsType /\ (~clashed => OneWrites /\ OneFills /\ KeysHeld)

LEMMA NoEditFacts ==
    /\ EditOK(NoEdit) /\ NoEdit.phase = "idle" /\ NoEdit.op = "none"
    /\ ~Writing(NoEdit) /\ ~Filling(NoEdit)
<1>1. WellFormed(Defaults) /\ Defaults \in Settings /\ Main \in Named
  BY DefaultsWhole, SettingsAssumption DEF WellFormed, Named
<1>2. NoEdit \in Edits
  BY <1>1 DEF NoEdit, Edits, Ops, Phases
<1>3. /\ NoEdit.base = Defaults /\ NoEdit.new = Defaults /\ NoEdit.phase = "idle"
      /\ NoEdit.op = "none"
  BY DEF NoEdit
<1>4. QED
  BY <1>1, <1>2, <1>3 DEF EditOK, Writing, Filling

LEMMA LoadedWhole == SettingsType => WellFormed(load_settings)
  BY DefaultsWhole DEF SettingsType, load_settings

LEMMA StartedFacts ==
    ASSUME SettingsType, NEW op \in Ops, NEW p \in Provider,
           NEW key \in {"same", "given", "cleared"},
           NEW new, WellFormed(new), op # "remove" => p \in Configured(new),
           op = "remove" => key = "cleared"
    PROVE  LET d == Started(op, p, key, new) IN
           /\ EditOK(d) /\ d.phase = "truncate" /\ d.base = load_settings /\ d.new = new
           /\ d.op = op /\ d.provider = p /\ d.key = key
<1>1. PICK s : s = load_settings
  OBVIOUS
<1>2. WellFormed(s) /\ s \in Settings /\ new \in Settings /\ p \in Named
  BY <1>1, LoadedWhole DEF WellFormed, Named
<1>3. PICK d : d = Started(op, p, key, new)
  OBVIOUS
<1>4. NoEdit \in Edits
  BY NoEditFacts DEF EditOK
<1>5. d \in Edits
  BY <1>1, <1>2, <1>3, <1>4 DEF Started, Edits, Phases
<1>6. /\ d.phase = "truncate" /\ d.base = s /\ d.new = new /\ d.op = op /\ d.provider = p
      /\ d.key = key
  BY <1>1, <1>3 DEF Started, NoEdit
<1>7. EditOK(d)
  BY <1>2, <1>5, <1>6 DEF EditOK
<1>8. QED
  BY <1>1, <1>3, <1>6, <1>7

\* A step of one request that touches no file.
LEMMA OneGoesOn ==
    ASSUME SettingsInv, NEW e \in Editor, NEW d,
           edit' = [edit EXCEPT ![e] = d], EditOK(d),
           edit[e].phase \in {"idle", "asked"}, d.phase \in {"idle", "asked", "truncate", "keys"},
           d.phase = "keys" => d.provider \notin Provider,
           UNCHANGED <<settings, credentials, history, clashed>>, edits' \in 0 .. MaxEdits,
           ~clashed /\ Writing(d) => Changes(d)
    PROVE  SettingsInv'
<1>1. SettingsType'
  BY DEF SettingsInv, SettingsType, EditOK, history
<1>2. /\ edit'[e] = d /\ \A x \in Editor : x # e => edit'[x] = edit[x]
      /\ ~Filling(d) /\ ~Filling(edit[e]) /\ d.phase # "write" /\ edit[e].phase # "write"
  BY DEF SettingsInv, SettingsType, Filling
<1>3. ASSUME ~clashed' PROVE OneWrites' /\ OneFills' /\ KeysHeld'
  <2>1. OneWrites /\ OneFills /\ KeysHeld
    BY <1>3 DEF SettingsInv
  <2>2. OneWrites'
    <3>1. /\ \A x \in Editor : edit'[x].phase = "write" => x # e /\ edit'[x] = edit[x]
          /\ \A x \in Editor : Writing(edit'[x]) => Changes(edit'[x])
      BY <1>2, <1>3, <2>1 DEF OneWrites
    <3>2. \A s : Fits(s) => Fits(s)'
      BY DEF Fits, history
    <3>3. QED
      BY <2>1, <3>1, <3>2 DEF OneWrites
  <2>3. OneFills'
    <3>1. \A x \in Editor : Filling(edit'[x]) => x # e /\ edit'[x] = edit[x]
      BY <1>2
    <3>2. \A x \in Editor : edit'[x].phase = "writeKeys" => x # e /\ edit'[x] = edit[x]
      BY <1>2
    <3>3. (\A x \in Editor : edit'[x].phase # "writeKeys") =>
              \A x \in Editor : edit[x].phase # "writeKeys"
      BY <1>2
    <3>4. \A x \in Editor \ {e} : WrittenKeys(x, keyed)' = WrittenKeys(x, keyed)
      BY <1>2 DEF WrittenKeys, history
    <3>5. QED
      BY <2>1, <3>1, <3>2, <3>3, <3>4 DEF OneFills, history
  <2>4. KeysHeld'
    <3>1. \A x \in Editor \ {e} : /\ AtKeys(x)' = AtKeys(x) /\ Removing(x)' = Removing(x)
                                  /\ edit'[x] = edit[x]
      BY <1>2 DEF AtKeys, Removing
    <3>2. ~AtKeys(e) /\ ~Removing(e)
      BY DEF AtKeys, Removing
    <3>3. AtKeys(e)' => edit'[e].provider \notin Provider
      BY <1>2 DEF AtKeys
    <3>4. QED
      BY <2>1, <3>1, <3>2, <3>3 DEF KeysHeld, history
  <2>5. QED
    BY <2>2, <2>3, <2>4
<1>4. QED
  BY <1>1, <1>3 DEF SettingsInv

\* Nobody comes to the keys in a step that leaves the keys and the providers alone.
LEMMA KeysStayHeld ==
    ASSUME KeysHeld, UNCHANGED <<keyed, strays, choice>>,
           \A x \in Editor : Removing(x) => Removing(x)' /\ edit'[x].provider = edit[x].provider,
           \A x \in Editor : AtKeys(x)' => AtKeys(x) /\ edit'[x].provider = edit[x].provider
                                            /\ edit'[x].key = edit[x].key
    PROVE  KeysHeld'
<1>1. \A p \in keyed' \cap Provider :
        p \in DOMAIN choice' \cup strays' \/ \E e \in Editor : Removing(e)' /\ edit'[e].provider = p
  BY DEF KeysHeld
<1>2. \A e \in Editor : AtKeys(e)' /\ edit'[e].key = "given" /\ edit'[e].provider \in Provider =>
        edit'[e].provider \in DOMAIN choice' \cup strays'
  BY DEF KeysHeld
<1>3. QED
  BY <1>1, <1>2 DEF KeysHeld

LEMMA SettingsInitInv == SettingsInit => SettingsInv
<1> SUFFICES ASSUME SettingsInit PROVE SettingsInv
  OBVIOUS
<1>1. \A e \in Editor : edit[e] = NoEdit
  BY DEF SettingsInit
<1>2. /\ Main \in Provider /\ Fallback \in Provider
      /\ \A p \in {Main, Fallback} : Catalog[p] \in SUBSET Model
  BY SettingsAssumption
<1>3. choice \in [{Main, Fallback} -> SUBSET Model] /\ DOMAIN choice = {Main, Fallback}
  BY <1>2 DEF SettingsInit
<1>4. WellFormed(settings) /\ Fits(settings)
  BY <1>3, DefaultsWhole DEF SettingsInit, Fits
<1>5. edit \in [Editor -> Edits] /\ \A e \in Editor : EditOK(edit[e])
  BY <1>1, NoEditFacts DEF SettingsInit, EditOK
<1>6. SettingsType
  <2>1. /\ credentials \in SUBSET Named /\ keyed \in SUBSET Named /\ clashed \in BOOLEAN
        /\ edits \in 0 .. MaxEdits
    <3>1. MaxEdits \in Nat
      BY SettingsAssumption
    <3>2. credentials = {} /\ keyed = {} /\ clashed = FALSE /\ edits = 0
      BY DEF SettingsInit
    <3>3. 0 \in 0 .. MaxEdits
      BY <3>1
    <3>4. QED
      BY <3>2, <3>3
  <2>2. DOMAIN choice \in SUBSET Provider /\ choice \in [DOMAIN choice -> SUBSET Model]
    BY <1>2, <1>3
  <2>3. lost \in [Provider -> SUBSET Model] /\ strays \in SUBSET Provider
    BY DEF SettingsInit
  <2>4. QED
    BY <1>4, <1>5, <2>1, <2>2, <2>3 DEF SettingsType
<1>7. OneWrites
  BY <1>1, <1>4, NoEditFacts DEF OneWrites
<1>8. OneFills
  BY <1>1, NoEditFacts DEF SettingsInit, OneFills
<1>9. KeysHeld
  BY <1>1, NoEditFacts DEF SettingsInit, KeysHeld, AtKeys
<1>10. QED
  BY <1>6, <1>7, <1>8, <1>9 DEF SettingsInv

-----------------------------------------------------------------------------
(* The requests.                                                           *)

\* A request that begins with a new text for the settings.
LEMMA RequestInv ==
    ASSUME SettingsInv, NEW e \in Editor, Begin(e),
           NEW op \in Ops, NEW p \in Provider, NEW key \in {"same", "given", "cleared"},
           NEW new, WellFormed(new), op # "remove" => p \in Configured(new),
           op = "remove" => key = "cleared",
           edit' = [edit EXCEPT ![e] = Started(op, p, key, new)],
           \A x \in Configured(load_settings) \ {p} : new.entry[x] = load_settings.entry[x],
           IF op = "remove" THEN Configured(new) = Configured(load_settings) \ {p}
           ELSE Configured(new) = Configured(load_settings) \cup {p},
           op # "check",
           op = "install" /\ p \in Configured(load_settings) =>
               load_settings.entry[p].models \subseteq new.entry[p].models
    PROVE  SettingsInv'
<1>1. PICK d : d = Started(op, p, key, new)
  OBVIOUS
<1>2. /\ EditOK(d) /\ d.phase = "truncate" /\ d.base = load_settings /\ d.new = new
      /\ d.op = op /\ d.provider = p
  BY <1>1, StartedFacts DEF SettingsInv
<1>3. Changes(d)
  BY <1>2 DEF Changes
<1>4. /\ edit[e].phase = "idle" /\ UNCHANGED <<settings, credentials, history, clashed>>
      /\ edits' \in 0 .. MaxEdits /\ clashed \in BOOLEAN
  BY SettingsAssumption DEF Begin, SettingsInv, SettingsType
<1>5. QED
  BY <1>1, <1>2, <1>3, <1>4, OneGoesOn

LEMMA InstallRequestInv == \A e \in Editor : SettingsInv /\ install_provider(e) => SettingsInv'
<1> SUFFICES ASSUME NEW e \in Editor, SettingsInv, install_provider(e) PROVE SettingsInv'
  OBVIOUS
<1>1. PICK p \in Provider, key \in {"same", "given"} :
        /\ Begin(e)
        /\ \/ \E fresh \in {{}} \cup (IF p \in DOMAIN Catalog THEN {Catalog[p]} ELSE {}) :
                edit' = [edit EXCEPT ![e] =
                            Started("install", p, key, Installed(load_settings, p, fresh))]
           \/ \E list \in Lists :
                edit' = [edit EXCEPT ![e] =
                            Started("describe", p, key, Described(load_settings, p, list))]
  BY DEF install_provider
<1>2. PICK s : s = load_settings /\ WellFormed(s)
  BY LoadedWhole DEF SettingsInv
<1>3. s.entry \in [Configured(s) -> Entry]
  BY <1>2, OfSettings DEF WellFormed
<1>4. ASSUME NEW fresh \in {{}} \cup (IF p \in DOMAIN Catalog THEN {Catalog[p]} ELSE {}),
             edit' = [edit EXCEPT ![e] = Started("install", p, key, Installed(s, p, fresh))]
      PROVE  SettingsInv'
  <2>1. fresh \in SUBSET Model
    BY SettingsAssumption
  <2>2. PICK entry : entry = [models |-> IF p \in Configured(s) THEN s.entry[p].models ELSE fresh,
                              removable |-> TRUE]
    OBVIOUS
  <2>3. entry \in Entry /\ (p \in Configured(s) => entry.models = s.entry[p].models)
    BY <1>3, <2>1, <2>2 DEF Entry
  <2>4. PICK new : new = WithEntry(s, p, entry)
    OBVIOUS
  <2>5. new = Installed(s, p, fresh)
    BY <2>2, <2>4 DEF Installed
  <2>6. /\ WellFormed(new) /\ Configured(new) = Configured(s) \cup {p} /\ new.entry[p] = entry
        /\ \A x \in Configured(s) \ {p} : new.entry[x] = s.entry[x]
    BY <1>2, <2>3, <2>4, WithEntryWhole
  <2>7. /\ "install" \in Ops /\ key \in {"same", "given", "cleared"} /\ p \in Configured(new)
        /\ "install" # "remove" /\ "install" # "check"
    BY <2>6 DEF Ops
  <2>8. p \in Configured(s) => s.entry[p].models \subseteq new.entry[p].models
    BY <2>3, <2>6
  <2>9. QED
    BY <1>1, <1>2, <1>4, <2>5, <2>6, <2>7, <2>8, RequestInv
<1>5. ASSUME NEW list \in Lists,
             edit' = [edit EXCEPT ![e] = Started("describe", p, key, Described(s, p, list))]
      PROVE  SettingsInv'
  <2>1. list \in SUBSET Model
    BY SettingsAssumption
  <2>2. PICK entry : entry = [models |-> list, removable |-> TRUE]
    OBVIOUS
  <2>3. entry \in Entry
    BY <2>1, <2>2 DEF Entry
  <2>4. PICK new : new = WithEntry(s, p, entry)
    OBVIOUS
  <2>5. new = Described(s, p, list)
    BY <2>2, <2>4 DEF Described
  <2>6. /\ WellFormed(new) /\ Configured(new) = Configured(s) \cup {p}
        /\ \A x \in Configured(s) \ {p} : new.entry[x] = s.entry[x]
    BY <1>2, <2>3, <2>4, WithEntryWhole
  <2>7. /\ "describe" \in Ops /\ key \in {"same", "given", "cleared"} /\ p \in Configured(new)
        /\ "describe" # "remove" /\ "describe" # "check" /\ "describe" # "install"
    BY <2>6 DEF Ops
  <2>8. QED
    BY <1>1, <1>2, <1>5, <2>5, <2>6, <2>7, RequestInv
<1>6. QED
  BY <1>1, <1>2, <1>4, <1>5

\* What Updated makes of whole settings.
LEMMA UpdatedWhole ==
    ASSUME NEW s, WellFormed(s), NEW p \in Configured(s), NEW list \in SUBSET Model
    PROVE  /\ WellFormed(Updated(s, p, list)) /\ p \in Provider
           /\ Configured(Updated(s, p, list)) = Configured(s) \cup {p}
           /\ Updated(s, p, list).entry[p].models = list
           /\ \A x \in Configured(s) \ {p} : Updated(s, p, list).entry[x] = s.entry[x]
<1>1. p \in Provider /\ s.entry[p] \in Entry
  BY OfSettings DEF WellFormed
<1>2. PICK entry : entry = [s.entry[p] EXCEPT !.models = list]
  OBVIOUS
<1>3. entry \in Entry /\ entry.models = list
  BY <1>1, <1>2 DEF Entry
<1>4. PICK new : new = WithEntry(s, p, entry)
  OBVIOUS
<1>5. new = Updated(s, p, list)
  BY <1>2, <1>4 DEF Updated
<1>6. /\ WellFormed(new) /\ Configured(new) = Configured(s) \cup {p} /\ new.entry[p] = entry
      /\ \A x \in Configured(s) \ {p} : new.entry[x] = s.entry[x]
  BY <1>1, <1>3, <1>4, WithEntryWhole
<1>7. QED
  BY <1>1, <1>3, <1>5, <1>6

LEMMA UpdateInv == \A e \in Editor : SettingsInv /\ update_provider(e) => SettingsInv'
<1> SUFFICES ASSUME NEW e \in Editor, SettingsInv, update_provider(e) PROVE SettingsInv'
  OBVIOUS
<1>1. PICK s : s = load_settings /\ WellFormed(s)
  BY LoadedWhole DEF SettingsInv
<1>2. PICK p \in Configured(s), list \in Lists, key \in {"same", "given", "cleared"} :
        Begin(e) /\ edit' = [edit EXCEPT ![e] = Started("update", p, key, Updated(s, p, list))]
  BY <1>1 DEF update_provider
<1>3. list \in SUBSET Model
  BY SettingsAssumption
<1>4. PICK new : new = Updated(s, p, list)
  OBVIOUS
<1>5. /\ WellFormed(new) /\ p \in Provider /\ Configured(new) = Configured(s) \cup {p}
      /\ \A x \in Configured(s) \ {p} : new.entry[x] = s.entry[x]
  BY <1>1, <1>3, <1>4, UpdatedWhole
<1>6. /\ "update" \in Ops /\ p \in Configured(new)
      /\ "update" # "remove" /\ "update" # "check" /\ "update" # "install"
  BY <1>5 DEF Ops
<1>7. QED
  BY <1>1, <1>2, <1>4, <1>5, <1>6, RequestInv

LEMMA RemoveInv == \A e \in Editor : SettingsInv /\ remove_provider(e) => SettingsInv'
<1> SUFFICES ASSUME NEW e \in Editor, SettingsInv, remove_provider(e) PROVE SettingsInv'
  OBVIOUS
<1>1. PICK s : s = load_settings /\ WellFormed(s)
  BY LoadedWhole DEF SettingsInv
<1>2. PICK p \in Configured(s) :
        Begin(e) /\ edit' = [edit EXCEPT ![e] = Started("remove", p, "cleared", Removed(s, p))]
  BY <1>1 DEF remove_provider
<1>3. p \in Provider
  BY <1>1, OfSettings DEF WellFormed
<1>4. PICK new : new = Removed(s, p)
  OBVIOUS
<1>5. /\ WellFormed(new) /\ Configured(new) = Configured(s) \ {p}
      /\ \A x \in Configured(s) \ {p} : new.entry[x] = s.entry[x]
  BY <1>1, <1>3, <1>4, RemovedWhole
<1>6. "remove" \in Ops /\ "cleared" \in {"same", "given", "cleared"}
      /\ "remove" # "check" /\ "remove" # "install"
  BY DEF Ops
<1>7. QED
  BY <1>1, <1>2, <1>3, <1>4, <1>5, <1>6, RequestInv

LEMMA PluginKeysInv == \A e \in Editor : SettingsInv /\ _save_plugin_credentials(e) => SettingsInv'
<1> SUFFICES ASSUME NEW e \in Editor, SettingsInv, _save_plugin_credentials(e) PROVE SettingsInv'
  OBVIOUS
<1>1. \E p \in Managed : \E d :
        /\ Begin(e) /\ edit' = [edit EXCEPT ![e] = d] /\ p \in Managed
        /\ d = [NoEdit EXCEPT !.op = "plugin", !.provider = p, !.key = "given", !.phase = "keys"]
  BY DEF _save_plugin_credentials
<1>2. PICK p, d :
        /\ Begin(e) /\ edit' = [edit EXCEPT ![e] = d] /\ p \in Managed
        /\ d = [NoEdit EXCEPT !.op = "plugin", !.provider = p, !.key = "given", !.phase = "keys"]
  BY <1>1
<1>3. NoEdit \in Edits /\ WellFormed(NoEdit.base) /\ WellFormed(NoEdit.new)
  BY NoEditFacts DEF EditOK
<1>4. /\ d \in Edits /\ d.base = NoEdit.base /\ d.new = NoEdit.new /\ d.phase = "keys"
  BY <1>3, <1>2 DEF Edits, Ops, Phases, Named
<1>5. EditOK(d) /\ ~Writing(d) /\ d.provider \notin Provider
  <2>1. d.op = "plugin" /\ d.provider = p
    BY <1>2, <1>3 DEF Edits
  <2>2. QED
    BY <1>2, <1>3, <1>4, <2>1, SettingsAssumption DEF EditOK, Writing
<1>6. /\ edit[e].phase = "idle" /\ UNCHANGED <<settings, credentials, history, clashed>>
      /\ edits' \in 0 .. MaxEdits /\ clashed \in BOOLEAN
  BY <1>2, SettingsAssumption DEF Begin, SettingsInv, SettingsType
<1>7. QED
  BY <1>4, <1>5, <1>6, <1>2, OneGoesOn

LEMMA CheckInv == \A e \in Editor : SettingsInv /\ check_models(e) => SettingsInv'
<1> SUFFICES ASSUME NEW e \in Editor, SettingsInv, check_models(e) PROVE SettingsInv'
  OBVIOUS
<1>1. PICK s : s = load_settings /\ WellFormed(s)
  BY LoadedWhole DEF SettingsInv
<1>2. PICK p, seen, d :
        /\ p \in Configured(s) \cup DOMAIN Catalog
        /\ Begin(e) /\ edit' = [edit EXCEPT ![e] = d]
        /\ seen = IF p \in Configured(s) THEN s.entry[p].models ELSE Catalog[p]
        /\ d = [NoEdit EXCEPT !.op = "check", !.provider = p, !.phase = "asked", !.seen = seen]
  BY <1>1 DEF check_models
<1>3. Configured(s) \in SUBSET Provider /\ s.entry \in [Configured(s) -> Entry]
  BY <1>1, OfSettings DEF WellFormed
<1>4. p \in Provider /\ p \in Named /\ seen \in SUBSET Model
  BY <1>2, <1>3, SettingsAssumption DEF Named, Entry
<1>5. NoEdit \in Edits /\ WellFormed(NoEdit.base) /\ WellFormed(NoEdit.new)
  BY NoEditFacts DEF EditOK
<1>6. /\ d \in Edits /\ d.base = NoEdit.base /\ d.new = NoEdit.new /\ d.phase = "asked"
      /\ d.provider = p /\ d.op = "check"
  BY <1>2, <1>4, <1>5 DEF Edits, Ops, Phases
<1>7. EditOK(d) /\ ~Writing(d)
  BY <1>4, <1>5, <1>6 DEF EditOK, Writing
<1>8. /\ edit[e].phase = "idle" /\ UNCHANGED <<settings, credentials, history, clashed>>
      /\ edits' \in 0 .. MaxEdits /\ clashed \in BOOLEAN
  BY <1>2, SettingsAssumption DEF Begin, SettingsInv, SettingsType
<1>9. QED
  BY <1>2, <1>6, <1>7, <1>8, OneGoesOn

LEMMA AnsweredInv == \A e \in Editor : SettingsInv /\ Answered(e) => SettingsInv'
<1> SUFFICES ASSUME NEW e \in Editor, SettingsInv, Answered(e) PROVE SettingsInv'
  OBVIOUS
<1>1. PICK s : s = load_settings /\ WellFormed(s)
  BY LoadedWhole DEF SettingsInv
<1>2. PICK p : p = edit[e].provider
  OBVIOUS
<1>3. PICK live :
        /\ edit[e].phase = "asked"
        /\ live \in IF p = Fallback THEN {{}} ELSE SUBSET Model \ {{}}
        /\ edit' = [edit EXCEPT ![e] =
             IF p \in Configured(s)
             THEN [Started("check", p, "same", Updated(s, p, reconcile_models(edit[e].seen, live)))
                   EXCEPT !.seen = edit[e].seen]
             ELSE NoEdit]
        /\ UNCHANGED <<settings, credentials, history, clashed, edits>>
  <2>1. PICK live :
        /\ edit[e].phase = "asked"
        /\ live \in IF p = Fallback THEN {{}} ELSE SUBSET Model \ {{}}
        /\ edit' = [edit EXCEPT ![e] =
             IF p \in Configured(s)
             THEN [Started("check", p, "same", Updated(s, p, reconcile_models(@.seen, live)))
                   EXCEPT !.seen = edit[e].seen]
             ELSE NoEdit]
        /\ UNCHANGED <<settings, credentials, history, clashed, edits>>
    BY <1>1, <1>2, Zenon DEF Answered
  <2>2. QED
    BY <2>1
<1>4. /\ p \in Provider /\ edit[e].seen \in SUBSET Model /\ edits' \in 0 .. MaxEdits
  BY <1>2, <1>3 DEF SettingsInv, SettingsType, EditOK, Edits
<1>5. CASE p \notin Configured(s)
  <2>1. edit' = [edit EXCEPT ![e] = NoEdit]
    BY <1>3, <1>5
  <2>2. QED
    BY <1>3, <1>4, <2>1, NoEditFacts, OneGoesOn
<1>6. CASE p \in Configured(s)
  <2>1. PICK list : list = reconcile_models(edit[e].seen, live)
    OBVIOUS
  <2>2. list \in SUBSET Model /\ edit[e].seen \subseteq list
    BY <1>3, <1>4, <2>1 DEF reconcile_models
  <2>3. PICK new : new = Updated(s, p, list)
    OBVIOUS
  <2>4. /\ WellFormed(new) /\ Configured(new) = Configured(s) \cup {p} /\ new.entry[p].models = list
        /\ \A x \in Configured(s) \ {p} : new.entry[x] = s.entry[x]
    BY <1>1, <1>6, <2>2, <2>3, UpdatedWhole
  <2>5. PICK c : c = Started("check", p, "same", new)
    OBVIOUS
  <2>6. /\ EditOK(c) /\ c.phase = "truncate" /\ c.base = s /\ c.new = new
        /\ c.op = "check" /\ c.provider = p
    <3>1. "check" \in Ops /\ "same" \in {"same", "given", "cleared"} /\ p \in Configured(new)
      BY <2>4 DEF Ops
    <3>2. "check" # "remove"
      OBVIOUS
    <3>3. QED
      BY <1>1, <1>4, <2>4, <2>5, <3>1, <3>2, StartedFacts DEF SettingsInv
  <2>7. PICK d : d = [c EXCEPT !.seen = edit[e].seen]
    OBVIOUS
  <2>8. /\ d \in Edits /\ d.phase = "truncate" /\ d.base = s /\ d.new = new
        /\ d.op = "check" /\ d.provider = p /\ d.seen = edit[e].seen
    <3>1. c \in Edits
      BY <2>6 DEF EditOK
    <3>2. QED
      BY <1>4, <2>6, <2>7, <3>1 DEF Edits
  <2>9. EditOK(d)
    BY <1>4, <2>4, <2>6, <2>8 DEF EditOK
  <2>10. edit' = [edit EXCEPT ![e] = d]
    BY <1>3, <1>6, <2>1, <2>3, <2>5, <2>7
  <2>11. Changes(d)
    BY <1>6, <2>2, <2>4, <2>8 DEF Changes
  <2>12. QED
    BY <1>3, <1>4, <2>8, <2>9, <2>10, <2>11, OneGoesOn
<1>7. QED
  BY <1>5, <1>6

LEMMA LookupFailsInv == \A e \in Editor : SettingsInv /\ LookupFails(e) => SettingsInv'
<1> SUFFICES ASSUME NEW e \in Editor, SettingsInv, LookupFails(e) PROVE SettingsInv'
  OBVIOUS
<1>1. edits' \in 0 .. MaxEdits
  BY DEF SettingsInv, SettingsType, LookupFails
<1>2. QED
  BY <1>1, NoEditFacts, OneGoesOn DEF LookupFails
-----------------------------------------------------------------------------
(* The files.                                                              *)

LEMMA TruncateInv == \A e \in Editor : SettingsInv /\ Truncate(e) => SettingsInv'
<1> SUFFICES ASSUME NEW e \in Editor, SettingsInv, Truncate(e) PROVE SettingsInv'
  OBVIOUS
<1>1. PICK d : d = edit[e]
  OBVIOUS
<1>2. PICK g : g = [d EXCEPT !.phase = "write"]
  OBVIOUS
<1>3. /\ d.phase = "truncate" /\ settings' = Torn /\ edit' = [edit EXCEPT ![e] = g]
      /\ clashed' = (clashed \/ settings # d.base)
      /\ UNCHANGED <<credentials, history, edits>>
  BY <1>1, <1>2 DEF Truncate
<1>4. edit \in [Editor -> Edits] /\ EditOK(d)
  BY <1>1 DEF SettingsInv, SettingsType
<1>5. /\ g \in Edits /\ g.phase = "write" /\ g.base = d.base /\ g.new = d.new /\ g.op = d.op
      /\ g.provider = d.provider /\ g.keyNew = d.keyNew /\ g.key = d.key /\ g.seen = d.seen
  BY <1>2, <1>4 DEF EditOK, Edits, Phases
<1>6. EditOK(g)
  BY <1>3, <1>4, <1>5 DEF EditOK, Writing
<1>7. /\ edit'[e] = g /\ \A x \in Editor : x # e => edit'[x] = edit[x]
      /\ ~Filling(d) /\ ~Filling(g)
  BY <1>3, <1>4, <1>5 DEF Filling
<1>8. SettingsType'
  BY <1>3, <1>6, <1>7 DEF SettingsInv, SettingsType, EditOK, history
<1>9. ASSUME ~clashed' PROVE OneWrites' /\ OneFills' /\ KeysHeld'
  <2>1. OneWrites /\ OneFills /\ KeysHeld /\ settings = d.base
    BY <1>3, <1>9 DEF SettingsInv
  <2>2. d.base \in Settings /\ Torn \notin Settings
    BY <1>4, SettingsAssumption DEF EditOK, WellFormed
  <2>3. settings # Torn
    BY <2>1, <2>2
  <2>4. Fits(d.base) /\ \A x \in Editor : edit[x].phase # "write"
    BY <2>1, <2>3 DEF OneWrites
  <2>5. Changes(g)
    <3>1. Changes(d)
      BY <1>1, <1>3, <2>1 DEF OneWrites, Writing
    <3>2. QED
      BY <1>5, <3>1 DEF Changes
  <2>6. /\ \A x \in Editor : edit'[x].phase = "write" => x = e
        /\ settings' = Torn /\ Fits(g.base)'
        /\ \A x \in Editor : Writing(edit'[x]) => Changes(edit'[x])
    <3>1. Fits(g.base)'
      BY <1>3, <1>5, <2>4 DEF Fits, history
    <3>2. \A x \in Editor : Writing(edit'[x]) => Changes(edit'[x])
      BY <1>7, <2>1, <2>5 DEF OneWrites
    <3>3. QED
      BY <1>3, <1>7, <2>4, <3>1, <3>2
  <2>7. OneWrites'
    <3>1. Fits(edit[e].base)'
      BY <1>7, <2>6 DEF Fits
    <3>2. QED
      BY <2>6, <3>1 DEF OneWrites
  <2>8. OneFills'
    <3>1. \A x \in Editor : Filling(edit'[x]) => x # e /\ edit'[x] = edit[x]
      BY <1>7
    <3>2. \A x \in Editor : edit'[x].phase = "writeKeys" => x # e /\ edit'[x] = edit[x]
      BY <1>5, <1>7
    <3>3. (\A x \in Editor : edit'[x].phase # "writeKeys") =>
              \A x \in Editor : edit[x].phase # "writeKeys"
      BY <1>1, <1>3, <1>7
    <3>4. \A x \in Editor \ {e} : WrittenKeys(x, keyed)' = WrittenKeys(x, keyed)
      BY <1>3, <1>7 DEF WrittenKeys, history
    <3>5. QED
      BY <1>3, <2>1, <3>1, <3>2, <3>3, <3>4 DEF OneFills, history
  <2>9. KeysHeld'
    <3>1. \A x \in Editor : /\ Removing(x) => x # e /\ edit'[x] = edit[x] /\ Removing(x)'
                            /\ AtKeys(x)' => x # e /\ edit'[x] = edit[x] /\ AtKeys(x)
      BY <1>1, <1>3, <1>5, <1>7 DEF Removing, AtKeys
    <3>2. QED
      BY <1>3, <2>1, <3>1, KeysStayHeld DEF history
  <2>10. QED
    BY <2>7, <2>8, <2>9
<1>10. QED
  BY <1>8, <1>9 DEF SettingsInv

\* What the user was told fits what was written.
LEMMA ToldFits ==
    ASSUME SettingsType, NEW e \in Editor, NEW d, d = edit[e], Writing(d),
           Changes(d), Fits(d.base), NEW told, told = Told(e), NEW missed, missed = Missed(e)
    PROVE  /\ Configured(d.new) = DOMAIN told
           /\ \A x \in DOMAIN told : told[x] \ missed[x] \subseteq d.new.entry[x].models
<1>1. PICK p : p = d.provider
  OBVIOUS
<1>2. /\ Configured(d.base) = DOMAIN choice
      /\ \A x \in DOMAIN choice : choice[x] \ lost[x] \subseteq d.base.entry[x].models
  BY DEF Fits
<1>3. \A x \in Configured(d.base) \ {p} : d.new.entry[x] = d.base.entry[x]
  BY <1>1 DEF Changes
<1>4. lost \in [Provider -> SUBSET Model] /\ p \in Provider /\ DOMAIN choice \in SUBSET Provider
  BY <1>1 DEF SettingsType, EditOK, Writing
<1>5. CASE d.op = "remove"
  <2>1. told = [x \in DOMAIN choice \ {p} |-> choice[x]]
    BY <1>1, <1>5 DEF Told
  <2>2. Configured(d.new) = Configured(d.base) \ {p}
    BY <1>1, <1>5 DEF Changes
  <2>3. missed = [lost EXCEPT ![p] = {}]
    BY <1>1, <1>5 DEF Missed
  <2>4. QED
    BY <1>2, <1>3, <1>4, <2>1, <2>2, <2>3
<1>6. CASE d.op = "check"
  <2>1. told = choice
    BY <1>1, <1>6 DEF Told
  <2>2. /\ Configured(d.new) = Configured(d.base) \cup {p} /\ p \in Configured(d.base)
        /\ d.seen \subseteq d.new.entry[p].models
    BY <1>1, <1>6 DEF Changes
  <2>3. missed = [lost EXCEPT ![p] = @ \cup (choice[p] \ d.seen)]
    BY <1>1, <1>2, <1>6, <2>2 DEF Missed
  <2>4. choice[p] \ missed[p] \subseteq d.seen
    BY <1>4, <2>3
  <2>5. \A x \in Configured(d.base) \ {p} : x \in Provider /\ missed[x] = lost[x]
    BY <1>2, <1>4, <2>3
  <2>6. Configured(d.new) = DOMAIN choice
    BY <1>2, <2>2
  <2>7. ASSUME NEW x \in DOMAIN choice PROVE choice[x] \ missed[x] \subseteq d.new.entry[x].models
    <3>1. CASE x = p
      BY <2>2, <2>4, <3>1
    <3>2. CASE x # p
      BY <1>2, <1>3, <2>5, <3>2
    <3>3. QED
      BY <3>1, <3>2
  <2>8. QED
    BY <2>1, <2>6, <2>7
<1>7. CASE d.op = "install" /\ p \in DOMAIN choice
  <2>1. told = choice /\ missed = lost
    BY <1>1, <1>7 DEF Told, Missed
  <2>2. /\ Configured(d.new) = Configured(d.base) \cup {p} /\ p \in Configured(d.base)
        /\ d.base.entry[p].models \subseteq d.new.entry[p].models
    BY <1>1, <1>2, <1>7 DEF Changes
  <2>3. QED
    BY <1>2, <1>3, <2>1, <2>2
<1>8. CASE d.op # "remove" /\ d.op # "check" /\ ~(d.op = "install" /\ p \in DOMAIN choice)
  <2>1. told = [x \in DOMAIN choice \cup {p} |->
                  IF x = p THEN d.new.entry[p].models ELSE choice[x]]
    BY <1>1, <1>8 DEF Told
  <2>2. Configured(d.new) = Configured(d.base) \cup {p}
    BY <1>1, <1>8 DEF Changes
  <2>3. missed = [lost EXCEPT ![p] = {}]
    BY <1>1, <1>8 DEF Missed
  <2>4. QED
    BY <1>2, <1>3, <1>4, <2>1, <2>2, <2>3
<1>9. QED
  BY <1>5, <1>6, <1>7, <1>8

LEMMA MissedType ==
    ASSUME SettingsType, NEW e \in Editor, Writing(edit[e])
    PROVE  Missed(e) \in [Provider -> SUBSET Model] /\ Stray(e) \in SUBSET Provider
<1>1. PICK p \in Provider : p = edit[e].provider
  BY DEF SettingsType, EditOK, Writing
<1>2. /\ lost \in [Provider -> SUBSET Model] /\ strays \in SUBSET Provider
      /\ choice \in [DOMAIN choice -> SUBSET Model]
  BY DEF SettingsType
<1>3. Missed(e) \in [Provider -> SUBSET Model]
  <2>1. PICK more \in SUBSET Model :
            more = IF p \in DOMAIN choice THEN choice[p] \ edit[e].seen ELSE {}
    BY <1>2
  <2>2. \/ Missed(e) = [lost EXCEPT ![p] = @ \cup more]
        \/ Missed(e) = lost \/ Missed(e) = [lost EXCEPT ![p] = {}]
    BY <1>1, <2>1 DEF Missed
  <2>3. QED
    BY <1>2, <2>2
<1>4. Stray(e) \in SUBSET Provider
  BY <1>1, <1>2 DEF Stray
<1>5. QED
  BY <1>3, <1>4

LEMMA ToldType ==
    ASSUME SettingsType, NEW e \in Editor, Writing(edit[e]), NEW told, told = Told(e)
    PROVE  DOMAIN told \in SUBSET Provider /\ told \in [DOMAIN told -> SUBSET Model]
<1>1. PICK d : d = edit[e] /\ EditOK(d)
  BY DEF SettingsType
<1>2. PICK p \in Provider : p = d.provider
  BY <1>1 DEF EditOK, Writing
<1>3. DOMAIN choice \in SUBSET Provider /\ choice \in [DOMAIN choice -> SUBSET Model]
  BY DEF SettingsType
<1>4. CASE d.op = "remove"
  <2>1. told = [x \in DOMAIN choice \ {p} |-> choice[x]]
    BY <1>1, <1>2, <1>4 DEF Told
  <2>2. QED
    BY <1>3, <2>1
<1>5. CASE d.op = "check" \/ (d.op = "install" /\ p \in DOMAIN choice)
  <2>1. told = choice
    BY <1>1, <1>2, <1>5 DEF Told
  <2>2. QED
    BY <1>3, <2>1
<1>6. CASE d.op # "remove" /\ ~(d.op = "check" \/ (d.op = "install" /\ p \in DOMAIN choice))
  <2>1. told = [x \in DOMAIN choice \cup {p} |->
                  IF x = p THEN d.new.entry[p].models ELSE choice[x]]
    BY <1>1, <1>2, <1>6 DEF Told
  <2>2. p \in Configured(d.new) /\ d.new \in Settings
    BY <1>1, <1>2, <1>6 DEF EditOK, Writing, WellFormed
  <2>3. d.new.entry[p].models \in SUBSET Model
    BY <2>2, OfSettings DEF Entry
  <2>4. QED
    BY <1>3, <2>1, <2>3
<1>7. QED
  BY <1>4, <1>5, <1>6

LEMMA WriteInv == \A e \in Editor : SettingsInv /\ Write(e) => SettingsInv'
<1> SUFFICES ASSUME NEW e \in Editor, SettingsInv, Write(e) PROVE SettingsInv'
  OBVIOUS
<1>1. PICK d : d = edit[e]
  OBVIOUS
<1>2. PICK g : g = IF d.key = "same" THEN NoEdit ELSE [d EXCEPT !.phase = "keys"]
  OBVIOUS
<1>3. /\ d.phase = "write" /\ settings' \in IF settings = Torn THEN {d.new} ELSE {d.new, Torn}
      /\ edit' = [edit EXCEPT ![e] = g]
      /\ choice' = Told(e) /\ lost' = Missed(e) /\ strays' = Stray(e)
      /\ UNCHANGED <<credentials, keyed, clashed, edits>>
  BY <1>1, <1>2 DEF Write
<1>4. edit \in [Editor -> Edits] /\ EditOK(d) /\ Writing(d)
  BY <1>1, <1>3 DEF SettingsInv, SettingsType, Writing
<1>5. /\ EditOK(g) /\ g.phase \in {"idle", "keys"}
      /\ g.phase = "keys" => g.provider = d.provider /\ g.op = d.op
      /\ d.op = "remove" => g.phase = "keys"
  <2>1. CASE d.key = "same"
    BY <1>2, <1>4, <2>1, NoEditFacts DEF EditOK
  <2>2. CASE d.key # "same"
    <3>1. g \in Edits /\ g.phase = "keys" /\ g.base = d.base /\ g.new = d.new
          /\ g.provider = d.provider /\ g.op = d.op /\ g.key = d.key
      BY <1>2, <1>4, <2>2 DEF EditOK, Edits, Phases
    <3>2. QED
      BY <1>4, <3>1 DEF EditOK, Writing
  <2>3. QED
    BY <2>1, <2>2
<1>6. /\ edit'[e] = g /\ \A x \in Editor : x # e => edit'[x] = edit[x]
      /\ ~Filling(d) /\ ~Filling(g) /\ ~Writing(g)
  BY <1>3, <1>4, <1>5 DEF Filling, Writing
<1>7. SettingsType'
  <2>1. DOMAIN choice' \in SUBSET Provider /\ choice' \in [DOMAIN choice' -> SUBSET Model]
    <3>1. SettingsType /\ Writing(edit[e])
      BY <1>1, <1>4 DEF SettingsInv
    <3>2. QED
      BY <1>3, <3>1, ToldType
  <2>2. settings' = Torn \/ WellFormed(settings')
    BY <1>3, <1>4 DEF EditOK
  <2>3. edit' \in [Editor -> Edits] /\ \A x \in Editor : EditOK(edit'[x])
    BY <1>3, <1>4, <1>5, <1>6 DEF SettingsInv, SettingsType, EditOK
  <2>4. lost' \in [Provider -> SUBSET Model] /\ strays' \in SUBSET Provider
    BY <1>1, <1>3, <1>4, MissedType DEF SettingsInv
  <2>5. QED
    BY <1>3, <2>1, <2>2, <2>3, <2>4 DEF SettingsInv, SettingsType
<1>8. ASSUME ~clashed' PROVE OneWrites' /\ OneFills' /\ KeysHeld'
  <2>1. SettingsType /\ OneWrites /\ OneFills /\ KeysHeld
    BY <1>3, <1>8 DEF SettingsInv
  <2>2. settings = Torn /\ Fits(d.base) /\ Changes(d) /\ \A x \in Editor : edit[x].phase = "write" => x = e
    BY <1>1, <1>3, <1>4, <2>1 DEF OneWrites
  <2>3. settings' = d.new
    BY <1>3, <2>2
  <2>4. PICK told, missed : told = Told(e) /\ missed = Missed(e)
    OBVIOUS
  <2>5. /\ Configured(d.new) = DOMAIN told
        /\ \A x \in DOMAIN told : told[x] \ missed[x] \subseteq d.new.entry[x].models
    BY <1>1, <1>4, <2>1, <2>2, <2>4, ToldFits
  <2>6. Fits(settings)'
    BY <1>3, <2>3, <2>4, <2>5 DEF Fits
  <2>7. OneWrites'
    <3>1. \A x \in Editor : edit'[x].phase # "write"
      BY <1>5, <1>6, <2>2
    <3>2. \A x \in Editor : Writing(edit'[x]) => Changes(edit'[x])
      BY <1>6, <2>1 DEF OneWrites
    <3>3. QED
      BY <2>6, <3>1, <3>2 DEF OneWrites
  <2>8. OneFills'
    <3>1. \A x \in Editor : Filling(edit'[x]) => x # e /\ edit'[x] = edit[x]
      BY <1>6
    <3>2. \A x \in Editor : edit'[x].phase = "writeKeys" => x # e /\ edit'[x] = edit[x]
      BY <1>5, <1>6
    <3>3. (\A x \in Editor : edit'[x].phase # "writeKeys") =>
              \A x \in Editor : edit[x].phase # "writeKeys"
      BY <1>1, <1>3, <1>6
    <3>4. \A x \in Editor \ {e} : WrittenKeys(x, keyed)' = WrittenKeys(x, keyed)
      BY <1>3, <1>6 DEF WrittenKeys
    <3>5. QED
      BY <1>3, <2>1, <3>1, <3>2, <3>3, <3>4 DEF OneFills
  <2>9. PICK p : p = d.provider
    OBVIOUS
  <2>10. /\ d.op = "remove" => /\ Removing(e)' /\ edit'[e].provider = p
                               /\ DOMAIN choice' = DOMAIN choice \ {p} /\ strays \subseteq strays'
         /\ d.op # "remove" => /\ DOMAIN choice' = DOMAIN choice \cup {p}
                               /\ strays' = strays \ {p}
    <3>1. CASE d.op = "remove"
      <4>1. Removing(e)' /\ edit'[e].provider = p
        BY <1>5, <1>6, <2>9, <3>1 DEF Removing, AtKeys
      <4>2. DOMAIN choice' = DOMAIN choice \ {p} /\ strays \subseteq strays'
        BY <1>1, <1>3, <2>9, <3>1 DEF Told, Stray
      <4>3. QED
        BY <3>1, <4>1, <4>2
    <3>2. CASE d.op # "remove"
      <4>1. DOMAIN choice' = Configured(d.new) /\ DOMAIN choice = Configured(d.base)
        BY <1>3, <2>2, <2>4, <2>5 DEF Fits
      <4>2. Configured(d.new) = Configured(d.base) \cup {p}
        BY <2>2, <2>9, <3>2 DEF Changes
      <4>3. strays' = strays \ {p}
        BY <1>1, <1>3, <2>9, <3>2 DEF Stray
      <4>4. QED
        BY <3>2, <4>1, <4>2, <4>3
    <3>3. QED
      BY <3>1, <3>2
  <2>11. KeysHeld'
    <3>1. \A x \in Editor \ {e} : /\ edit'[x] = edit[x] /\ AtKeys(x)' = AtKeys(x)
                                  /\ Removing(x)' = Removing(x)
      BY <1>6 DEF AtKeys, Removing
    <3>2. ~Removing(e) /\ ~AtKeys(e)
      BY <1>1, <1>3 DEF Removing, AtKeys
    <3>3. ASSUME NEW q \in keyed' \cap Provider
          PROVE  \/ q \in DOMAIN choice' \cup strays'
                 \/ \E x \in Editor : Removing(x)' /\ edit'[x].provider = q
      <4>1. q \in DOMAIN choice \cup strays \/ \E x \in Editor : Removing(x) /\ edit[x].provider = q
        BY <1>3, <2>1, <3>3 DEF KeysHeld
      <4>2. QED
        BY <2>10, <3>1, <3>2, <4>1
    <3>4. ASSUME NEW x \in Editor, AtKeys(x)', edit'[x].key = "given", edit'[x].provider \in Provider
          PROVE  edit'[x].provider \in DOMAIN choice' \cup strays'
      <4>1. CASE x = e
        <5>1. edit'[e].phase = "keys" /\ g.provider = p /\ g.op = d.op
          BY <1>5, <1>6, <2>9, <3>4, <4>1 DEF AtKeys
        <5>2. d.op # "remove"
          BY <1>5, <1>6, <3>4, <4>1, <5>1 DEF EditOK
        <5>3. QED
          BY <1>6, <2>10, <4>1, <5>1, <5>2
      <4>2. CASE x # e
        <5>1. /\ AtKeys(x) /\ edit[x].key = "given" /\ edit[x].provider \in DOMAIN choice \cup strays
              /\ edit'[x] = edit[x]
          BY <2>1, <3>1, <3>4, <4>2 DEF KeysHeld
        <5>2. CASE d.op = "remove" /\ edit[x].provider = p
          <6>1. strays' = strays \cup {p}
            BY <1>1, <1>3, <2>9, <5>1, <5>2 DEF Stray
          <6>2. QED
            BY <5>1, <5>2, <6>1
        <5>3. CASE ~(d.op = "remove" /\ edit[x].provider = p)
          BY <2>10, <5>1, <5>3
        <5>4. QED
          BY <5>2, <5>3
      <4>3. QED
        BY <4>1, <4>2
    <3>5. QED
      BY <3>3, <3>4 DEF KeysHeld
  <2>12. QED
    BY <2>7, <2>8, <2>11
<1>9. QED
  BY <1>7, <1>8 DEF SettingsInv
LEMMA LoadKeysInv == \A e \in Editor : SettingsInv /\ LoadKeys(e) => SettingsInv'
<1> SUFFICES ASSUME NEW e \in Editor, SettingsInv, LoadKeys(e) PROVE SettingsInv'
  OBVIOUS
<1>1. PICK d : d = edit[e]
  OBVIOUS
<1>2. PICK keys : keys = WrittenKeys(e, load_credentials)
  OBVIOUS
<1>3. PICK g : g = IF d.op = "remove" /\ keys = load_credentials THEN NoEdit
                   ELSE [d EXCEPT !.phase = "truncateKeys", !.keyNew = keys]
  OBVIOUS
<1>4. /\ d.phase = "keys" /\ edit' = [edit EXCEPT ![e] = g]
      /\ clashed' = (clashed \/ \E x \in Editor \ {e} : Filling(edit[x]))
      /\ UNCHANGED <<settings, credentials, history, edits>>
  BY <1>1, <1>2, <1>3 DEF LoadKeys
<1>5. edit \in [Editor -> Edits] /\ EditOK(d) /\ d.provider \in Named /\ SettingsType
  BY <1>1 DEF SettingsInv, SettingsType, EditOK, Edits
<1>6. \A known \in SUBSET Named : WrittenKeys(e, known) \in SUBSET Named
  BY <1>1, <1>5 DEF WrittenKeys
<1>7. load_credentials \in SUBSET Named
  BY <1>5 DEF SettingsType, load_credentials
<1>8. keys \in SUBSET Named
  BY <1>2, <1>6, <1>7
<1>9. /\ EditOK(g) /\ ~Writing(g) /\ g.phase # "writeKeys"
      /\ Filling(g) => g.keyNew = keys
      /\ ~Filling(g) => keys = load_credentials /\ d.op = "remove" /\ g = NoEdit
      /\ Filling(g) => g.provider = d.provider /\ g.op = d.op /\ g.key = d.key
  <2>1. CASE d.op = "remove" /\ keys = load_credentials
    BY <1>3, <2>1, NoEditFacts
  <2>2. CASE ~(d.op = "remove" /\ keys = load_credentials)
    <3>1. g = [d EXCEPT !.phase = "truncateKeys", !.keyNew = keys]
      BY <1>3, <2>2
    <3>2. /\ g \in Edits /\ g.phase = "truncateKeys" /\ g.base = d.base /\ g.new = d.new
          /\ g.keyNew = keys /\ g.provider = d.provider /\ g.op = d.op /\ g.key = d.key
      BY <1>5, <1>8, <3>1 DEF EditOK, Edits, Phases
    <3>3. QED
      BY <1>5, <3>2 DEF EditOK, Writing, Filling
  <2>3. QED
    BY <2>1, <2>2
<1>10. /\ edit'[e] = g /\ \A x \in Editor : x # e => edit'[x] = edit[x]
       /\ ~Filling(d) /\ ~Writing(d)
  BY <1>4, <1>5 DEF Filling, Writing
<1>11. SettingsType'
  <2>1. edit' \in [Editor -> Edits] /\ \A x \in Editor : EditOK(edit'[x])
    BY <1>4, <1>5, <1>9, <1>10 DEF SettingsType, EditOK
  <2>2. clashed' \in BOOLEAN
    BY <1>4, <1>5 DEF SettingsType
  <2>3. QED
    BY <1>4, <1>5, <1>8, <2>1, <2>2 DEF SettingsType, history
<1>12. ASSUME ~clashed' PROVE OneWrites' /\ OneFills' /\ KeysHeld'
  <2>1. OneWrites /\ OneFills /\ KeysHeld /\ \A x \in Editor \ {e} : ~Filling(edit[x])
    BY <1>4, <1>12 DEF SettingsInv
  <2>2. \A x \in Editor : ~Filling(edit[x])
    BY <1>1, <1>10, <2>1
  <2>3. credentials = keyed /\ credentials \in SUBSET Named
    BY <1>5, <2>1, <2>2 DEF OneFills, SettingsType, Filling
  <2>4. credentials # Torn
    BY <2>3, SettingsAssumption DEF Named
  <2>5. keys = WrittenKeys(e, keyed) /\ load_credentials = keyed
    BY <1>2, <2>3, <2>4 DEF load_credentials
  <2>6. OneWrites'
    <3>1. \A x \in Editor : edit'[x].phase = "write" => x # e /\ edit'[x] = edit[x]
      BY <1>9, <1>10 DEF Writing
    <3>2. \A x \in Editor : Writing(edit'[x]) => Changes(edit'[x])
      BY <1>9, <1>10, <2>1 DEF OneWrites
    <3>3. settings' # Torn => Fits(settings)'
      BY <1>4, <2>1 DEF OneWrites, Fits, history
    <3>4. \A x \in Editor : edit'[x].phase = "write" => settings' = Torn /\ Fits(edit[x].base)'
      BY <1>4, <2>1, <3>1 DEF OneWrites, Fits, history
    <3>5. \A x, y \in Editor : edit'[x].phase = "write" /\ edit'[y].phase = "write" => x = y
      BY <2>1, <3>1 DEF OneWrites
    <3>6. QED
      BY <3>2, <3>3, <3>4, <3>5 DEF OneWrites
  <2>7. OneFills'
    <3>1. \A x \in Editor : Filling(edit'[x]) => x = e
      BY <1>10, <2>2
    <3>2. \A x \in Editor : edit'[x].phase # "writeKeys"
      BY <1>9, <1>10, <2>2 DEF Filling
    <3>3. credentials' = keyed'
      BY <1>4, <2>3 DEF history
    <3>4. Filling(edit'[e]) => edit'[e].keyNew = WrittenKeys(e, keyed)'
      <4>1. Filling(g) => WrittenKeys(e, keyed)' = WrittenKeys(e, keyed)
        BY <1>1, <1>4, <1>9, <1>10 DEF WrittenKeys, history
      <4>2. QED
        BY <1>9, <1>10, <2>5, <4>1
    <3>5. QED
      BY <3>1, <3>2, <3>3, <3>4 DEF OneFills
  <2>8. KeysHeld'
    <3>1. \A x \in Editor \ {e} : /\ edit'[x] = edit[x] /\ AtKeys(x)' = AtKeys(x)
                                  /\ Removing(x)' = Removing(x)
      BY <1>10 DEF AtKeys, Removing
    <3>2. CASE Filling(g)
      <4>1. AtKeys(e) /\ AtKeys(e)' /\ Removing(e)' = Removing(e)
            /\ edit'[e].provider = edit[e].provider /\ edit'[e].key = edit[e].key
        BY <1>1, <1>4, <1>9, <1>10, <3>2 DEF AtKeys, Removing, Filling
      <4>2. QED
        BY <1>4, <2>1, <3>1, <4>1, KeysStayHeld DEF history
    <3>3. CASE ~Filling(g)
      <4>1. ~AtKeys(e)'
        BY <1>9, <1>10, <3>3, NoEditFacts DEF AtKeys
      <4>2. d.provider \notin keyed
        <5>1. d.key = "cleared"
          BY <1>5, <1>9, <3>3 DEF EditOK
        <5>2. keys = keyed \ {d.provider}
          BY <1>1, <2>5, <5>1 DEF WrittenKeys
        <5>3. QED
          BY <1>9, <2>5, <3>3, <5>2
      <4>3. ASSUME NEW q \in keyed' \cap Provider
            PROVE  \/ q \in DOMAIN choice' \cup strays'
                   \/ \E x \in Editor : Removing(x)' /\ edit'[x].provider = q
        <5>1. q \in keyed /\ q # d.provider
          BY <1>4, <4>2, <4>3 DEF history
        <5>2. \/ q \in DOMAIN choice \cup strays
              \/ \E x \in Editor \ {e} : Removing(x) /\ edit[x].provider = q
          BY <1>1, <2>1, <4>3, <5>1 DEF KeysHeld
        <5>3. QED
          BY <1>4, <3>1, <5>2 DEF history
      <4>4. QED
        BY <1>4, <2>1, <3>1, <4>1, <4>3 DEF KeysHeld, history
    <3>4. QED
      BY <3>2, <3>3
  <2>9. QED
    BY <2>6, <2>7, <2>8
<1>13. QED
  BY <1>11, <1>12 DEF SettingsInv

LEMMA TruncateKeysInv == \A e \in Editor : SettingsInv /\ TruncateKeys(e) => SettingsInv'
<1> SUFFICES ASSUME NEW e \in Editor, SettingsInv, TruncateKeys(e) PROVE SettingsInv'
  OBVIOUS
<1>1. PICK d : d = edit[e]
  OBVIOUS
<1>2. PICK g : g = [d EXCEPT !.phase = "writeKeys"]
  OBVIOUS
<1>3. /\ d.phase = "truncateKeys" /\ credentials' = Torn /\ edit' = [edit EXCEPT ![e] = g]
      /\ UNCHANGED <<settings, history, clashed, edits>>
  BY <1>1, <1>2 DEF TruncateKeys
<1>4. edit \in [Editor -> Edits] /\ EditOK(d)
  BY <1>1 DEF SettingsInv, SettingsType
<1>5. /\ g \in Edits /\ g.phase = "writeKeys" /\ g.base = d.base /\ g.new = d.new
      /\ g.keyNew = d.keyNew /\ g.provider = d.provider /\ g.op = d.op /\ g.key = d.key
  BY <1>2, <1>4 DEF EditOK, Edits, Phases
<1>6. EditOK(g) /\ Filling(g) /\ Filling(d) /\ ~Writing(g) /\ ~Writing(d)
  BY <1>3, <1>4, <1>5 DEF EditOK, Writing, Filling
<1>7. edit'[e] = g /\ \A x \in Editor : x # e => edit'[x] = edit[x]
  BY <1>3, <1>4
<1>8. SettingsType'
  BY <1>3, <1>6, <1>7 DEF SettingsInv, SettingsType, EditOK, history
<1>9. ASSUME ~clashed' PROVE OneWrites' /\ OneFills' /\ KeysHeld'
  <2>1. OneWrites /\ OneFills /\ KeysHeld
    BY <1>3, <1>9 DEF SettingsInv
  <2>2. OneWrites'
    <3>1. \A x \in Editor : edit'[x].phase = "write" => x # e /\ edit'[x] = edit[x]
      BY <1>6, <1>7 DEF Writing
    <3>2. \A x \in Editor : Writing(edit'[x]) => Changes(edit'[x])
      BY <1>6, <1>7, <2>1 DEF OneWrites
    <3>3. settings' # Torn => Fits(settings)'
      BY <1>3, <2>1 DEF OneWrites, Fits, history
    <3>4. \A x \in Editor : edit'[x].phase = "write" => settings' = Torn /\ Fits(edit[x].base)'
      BY <1>3, <2>1, <3>1 DEF OneWrites, Fits, history
    <3>5. \A x, y \in Editor : edit'[x].phase = "write" /\ edit'[y].phase = "write" => x = y
      BY <2>1, <3>1 DEF OneWrites
    <3>6. QED
      BY <3>2, <3>3, <3>4, <3>5 DEF OneWrites
  <2>3. OneFills'
    <3>1. \A x \in Editor : Filling(edit'[x]) => x = e
      BY <1>1, <1>6, <1>7, <2>1 DEF OneFills
    <3>2. g.keyNew = WrittenKeys(e, keyed)'
      <4>1. d.keyNew = WrittenKeys(e, keyed)
        BY <1>1, <1>6, <2>1 DEF OneFills
      <4>2. WrittenKeys(e, keyed)' = WrittenKeys(e, keyed)
        BY <1>1, <1>3, <1>5, <1>7 DEF WrittenKeys, history
      <4>3. QED
        BY <1>5, <4>1, <4>2
    <3>3. \A x \in Editor : edit'[x].phase = "writeKeys" => credentials' = Torn
      BY <1>3
    <3>4. ~(\A x \in Editor : edit'[x].phase # "writeKeys")
      BY <1>5, <1>7
    <3>5. QED
      BY <1>7, <3>1, <3>2, <3>3, <3>4 DEF OneFills
  <2>4. KeysHeld'
    <3>1. \A x \in Editor : /\ AtKeys(x)' = AtKeys(x) /\ Removing(x)' = Removing(x)
                            /\ edit'[x].provider = edit[x].provider /\ edit'[x].key = edit[x].key
      BY <1>1, <1>3, <1>5, <1>7 DEF AtKeys, Removing
    <3>2. QED
      BY <1>3, <2>1, <3>1, KeysStayHeld DEF history
  <2>5. QED
    BY <2>2, <2>3, <2>4
<1>10. QED
  BY <1>8, <1>9 DEF SettingsInv

LEMMA WriteKeysInv == \A e \in Editor : SettingsInv /\ WriteKeys(e) => SettingsInv'
<1> SUFFICES ASSUME NEW e \in Editor, SettingsInv, WriteKeys(e) PROVE SettingsInv'
  OBVIOUS
<1>1. PICK d : d = edit[e]
  OBVIOUS
<1>2. /\ d.phase = "writeKeys"
      /\ credentials' \in IF credentials = Torn THEN {d.keyNew} ELSE {d.keyNew, Torn}
      /\ keyed' = WrittenKeys(e, keyed) /\ edit' = [edit EXCEPT ![e] = NoEdit]
      /\ UNCHANGED <<settings, choice, lost, strays, clashed, edits>>
  BY <1>1 DEF WriteKeys
<1>3. edit \in [Editor -> Edits] /\ EditOK(d) /\ d.keyNew \in SUBSET Named /\ Filling(d) /\ ~Writing(d)
  BY <1>1, <1>2 DEF SettingsInv, SettingsType, EditOK, Edits, Filling, Writing
<1>4. edit'[e] = NoEdit /\ \A x \in Editor : x # e => edit'[x] = edit[x]
  BY <1>2, <1>3
<1>5. SettingsType'
  <2>1. keyed' \in SUBSET Named
    BY <1>1, <1>2, <1>3 DEF WrittenKeys, Edits, SettingsInv, SettingsType
  <2>2. QED
    BY <1>2, <1>3, <1>4, <2>1, NoEditFacts DEF SettingsInv, SettingsType, EditOK
<1>6. ASSUME ~clashed' PROVE OneWrites' /\ OneFills' /\ KeysHeld'
  <2>1. OneWrites /\ OneFills /\ KeysHeld
    BY <1>2, <1>6 DEF SettingsInv
  <2>2. OneWrites'
    <3>1. \A x \in Editor : edit'[x].phase = "write" => x # e /\ edit'[x] = edit[x]
      BY <1>4, NoEditFacts
    <3>2. \A x \in Editor : Writing(edit'[x]) => Changes(edit'[x])
      BY <1>4, <2>1, NoEditFacts DEF OneWrites
    <3>3. settings' # Torn => Fits(settings)'
      BY <1>2, <2>1 DEF OneWrites, Fits
    <3>4. \A x \in Editor : edit'[x].phase = "write" => settings' = Torn /\ Fits(edit[x].base)'
      BY <1>2, <2>1, <3>1 DEF OneWrites, Fits
    <3>5. \A x, y \in Editor : edit'[x].phase = "write" /\ edit'[y].phase = "write" => x = y
      BY <2>1, <3>1 DEF OneWrites
    <3>6. QED
      BY <3>2, <3>3, <3>4, <3>5 DEF OneWrites
  <2>3. OneFills'
    <3>1. credentials = Torn /\ d.keyNew = WrittenKeys(e, keyed)
      BY <1>1, <1>2, <1>3, <2>1 DEF OneFills
    <3>2. credentials' = keyed'
      BY <1>2, <3>1
    <3>3. \A x \in Editor : ~Filling(edit'[x]) /\ edit'[x].phase # "writeKeys"
      <4>1. \A x \in Editor : x # e => ~Filling(edit[x])
        BY <1>1, <1>3, <2>1 DEF OneFills
      <4>2. QED
        BY <1>4, <4>1, NoEditFacts DEF Filling
    <3>4. QED
      BY <3>2, <3>3 DEF OneFills
  <2>4. KeysHeld'
    <3>1. \A x \in Editor \ {e} : /\ edit'[x] = edit[x] /\ AtKeys(x)' = AtKeys(x)
                                  /\ Removing(x)' = Removing(x)
      BY <1>4 DEF AtKeys, Removing
    <3>2. ~AtKeys(e)'
      BY <1>4, NoEditFacts DEF AtKeys
    <3>3. AtKeys(e) /\ edit[e].provider = d.provider
      BY <1>1, <1>2 DEF AtKeys
    <3>4. /\ d.op = "remove" => keyed' = keyed \ {d.provider}
          /\ d.key = "given" \/ keyed' \subseteq keyed
          /\ keyed' \subseteq keyed \cup {d.provider}
      BY <1>1, <1>2, <1>3 DEF WrittenKeys, EditOK
    <3>5. ASSUME NEW q \in keyed' \cap Provider
          PROVE  \/ q \in DOMAIN choice' \cup strays'
                 \/ \E x \in Editor : Removing(x)' /\ edit'[x].provider = q
      <4>1. CASE q \notin keyed
        <5>1. q = d.provider /\ d.key = "given"
          BY <3>4, <3>5, <4>1
        <5>2. q \in DOMAIN choice \cup strays
          BY <1>1, <2>1, <3>3, <3>5, <5>1 DEF KeysHeld
        <5>3. QED
          BY <1>2, <5>2
      <4>2. CASE q \in keyed
        <5>1. q \in DOMAIN choice \cup strays \/ \E x \in Editor : Removing(x) /\ edit[x].provider = q
          BY <2>1, <3>5, <4>2 DEF KeysHeld
        <5>2. ~(Removing(e) /\ edit[e].provider = q)
          BY <1>1, <3>4, <3>5 DEF Removing
        <5>3. QED
          BY <1>2, <3>1, <5>1, <5>2
      <4>3. QED
        BY <4>1, <4>2
    <3>6. QED
      BY <1>2, <2>1, <3>1, <3>2, <3>5 DEF KeysHeld
  <2>5. QED
    BY <2>2, <2>3, <2>4
<1>7. QED
  BY <1>5, <1>6 DEF SettingsInv

LEMMA StoppedInv == SettingsInv /\ Stopped => SettingsInv'
<1> SUFFICES ASSUME SettingsInv, Stopped PROVE SettingsInv'
  OBVIOUS
<1>1. \A x \in Editor : edit'[x] = NoEdit
  BY DEF Stopped
<1>2. SettingsType'
  <2>1. edit' \in [Editor -> Edits] /\ \A x \in Editor : EditOK(edit'[x])
    BY <1>1, NoEditFacts DEF Stopped, EditOK
  <2>2. strays' \in SUBSET Provider
    <3>1. \A x \in Editor : Removing(x) => edit[x].provider \in Provider
      BY DEF Removing, AtKeys, SettingsInv, SettingsType, EditOK
    <3>2. QED
      BY <3>1 DEF Stopped, SettingsInv, SettingsType
  <2>3. QED
    BY <2>1, <2>2 DEF Stopped, SettingsInv, SettingsType
<1>3. ASSUME ~clashed' PROVE OneWrites' /\ OneFills' /\ KeysHeld'
  <2>1. OneWrites /\ OneFills /\ KeysHeld /\ \A x \in Editor : edit[x].phase \notin {"write", "writeKeys"}
    BY <1>3 DEF Stopped, SettingsInv
  <2>2. OneWrites'
    BY <1>1, <2>1, NoEditFacts DEF Stopped, OneWrites, Fits
  <2>3. OneFills'
    <3>1. credentials = keyed
      BY <2>1 DEF OneFills
    <3>2. QED
      BY <1>1, <3>1, NoEditFacts DEF Stopped, OneFills
  <2>4. KeysHeld'
    <3>1. \A x \in Editor : ~AtKeys(x)'
      BY <1>1, NoEditFacts DEF AtKeys
    <3>2. \A x \in Editor : Removing(x) => edit[x].provider \in strays'
      BY DEF Stopped
    <3>3. keyed' = keyed /\ choice' = choice /\ strays \subseteq strays'
      BY DEF Stopped
    <3>4. \A q \in keyed' \cap Provider : q \in DOMAIN choice' \cup strays'
      BY <2>1, <3>2, <3>3 DEF KeysHeld
    <3>5. QED
      BY <3>1, <3>4 DEF KeysHeld
  <2>5. QED
    BY <2>2, <2>3, <2>4
<1>4. QED
  BY <1>2, <1>3 DEF SettingsInv

LEMMA SettingsStep == SettingsInv /\ [SettingsNext]_settingsVars => SettingsInv'
<1> SUFFICES ASSUME SettingsInv, [SettingsNext]_settingsVars PROVE SettingsInv'
  OBVIOUS
<1>1. CASE UNCHANGED settingsVars
  <2>1. SettingsType'
    BY <1>1 DEF settingsVars, history, SettingsInv, SettingsType
  <2>2. ~clashed' => OneWrites' /\ OneFills'
    BY <1>1 DEF settingsVars, history, SettingsInv, OneWrites, OneFills, Fits, WrittenKeys
  <2>3. ~clashed' => KeysHeld'
    BY <1>1 DEF settingsVars, history, SettingsInv, KeysHeld, AtKeys, Removing
  <2>4. QED
    BY <2>1, <2>2, <2>3 DEF SettingsInv
<1>2. QED
  BY <1>1, StoppedInv, InstallRequestInv, UpdateInv, RemoveInv, PluginKeysInv, CheckInv, AnsweredInv,
     LookupFailsInv, TruncateInv, WriteInv, LoadKeysInv, TruncateKeysInv, WriteKeysInv DEF SettingsNext

\* The inductive invariant of the settings: while no two requests clashed, one at most is
\* writing each file, from what the file held, and what it writes is what the user will
\* be told; the key of a provider that is gone is a stray, or about to go as well.
THEOREM SettingsInvariant == SettingsSpec => []SettingsInv
<1>1. QED
  BY SettingsInitInv, SettingsStep, PTL DEF SettingsSpec

\* What is read, and what requests are about to write, has its shape.
THEOREM SettingsTypeCorrect == SettingsSpec => []SettingsTypeOK
<1>1. SettingsInv => SettingsTypeOK
  <2> SUFFICES ASSUME SettingsInv PROVE SettingsTypeOK
    OBVIOUS
  <2>1. \A s : WellFormed(s) => Configured(s) \subseteq Provider /\ \A p \in Configured(s) : s.entry[p] \in Entry
    BY OfSettings DEF WellFormed
  <2>2. \A s \in {settings} \cup UNION {{edit[e].base, edit[e].new} : e \in Editor} :
          s # Torn => WellFormed(s)
    BY DEF SettingsInv, SettingsType, EditOK
  <2>3. /\ credentials # Torn => credentials \subseteq Provider \cup Managed
        /\ keyed \subseteq Provider \cup Managed /\ clashed \in BOOLEAN
        /\ DOMAIN choice \subseteq Provider /\ \A p \in DOMAIN choice : choice[p] \subseteq Model
        /\ edits \in 0 .. MaxEdits
        /\ lost \in [Provider -> SUBSET Model] /\ strays \subseteq Provider
    BY DEF SettingsInv, SettingsType, Named
  <2>4. QED
    BY <2>1, <2>2, <2>3 DEF SettingsTypeOK
<1>2. QED
  BY <1>1, SettingsInvariant, PTL

\* For any providers, models, lists and requests, and kills between and inside their
\* writes: while no two requests clashed and no file was cut off, the user keeps the
\* providers, models and keys he was told of, but for models a check had not read; a key
\* outlives its provider only as a stray; and any settings that can be read list each
\* provider once and the fallback last (ProviderSettings, providers.py).
THEOREM ChoicesAlwaysSurvive == SettingsSpec => []ChoicesSurvive
<1>1. SettingsInv => ChoicesSurvive
  <2> SUFFICES ASSUME SettingsInv PROVE ChoicesSurvive
    OBVIOUS
  <2>1. settings # Torn => OrderIsWhole(settings)
    BY WholeOrder DEF SettingsInv, SettingsType
  <2>2. ASSUME ~clashed
        PROVE  /\ settings # Torn =>
                     /\ Configured(settings) = DOMAIN choice
                     /\ \A p \in DOMAIN choice : choice[p] \ lost[p] \subseteq settings.entry[p].models
               /\ (\A e \in Editor : edit[e].phase # "writeKeys") => credentials = keyed
               /\ \A p \in keyed \cap Provider :
                    \/ p \in DOMAIN choice \cup strays
                    \/ \E e \in Editor : Removing(e) /\ edit[e].provider = p
    BY <2>2 DEF SettingsInv, OneWrites, OneFills, Fits, KeysHeld
  <2>3. QED
    BY <2>1, <2>2 DEF ChoicesSurvive
<1>2. QED
  BY <1>1, SettingsInvariant, PTL

-----------------------------------------------------------------------------
(* The integration of agents, for files of any length.  What is left of a  *)
(* text is a selection of its lines, kept along the scan line by line.     *)

Picked(h, left, text, places) ==
    /\ h \in [DOMAIN left -> places]
    /\ \A k \in DOMAIN left : left[k] = text[h[k]]
    /\ \A j, k \in DOMAIN left : j < k => h[j] < h[k]
    /\ \A i \in places : \E k \in DOMAIN left : h[k] = i

LEMMA RemainsIsPicked ==
    ASSUME NEW left, NEW text, NEW places
    PROVE  Remains(left, text, places) <=> \E h : Picked(h, left, text, places)
  BY DEF Remains, Picked

\* One place more, after the others.
LEMMA RemainsMore ==
    ASSUME NEW X, NEW left \in Seq(X), NEW text, NEW k \in Nat, NEW places,
           places \subseteq 1 .. k - 1, text[k] \in X, Remains(left, text, places)
    PROVE  Remains(Append(left, text[k]), text, places \cup {k})
<1> DEFINE more == Append(left, text[k])
<1>1. PICK m \in Nat : m = Len(left) /\ DOMAIN left = 1 .. m
  OBVIOUS
<1>2. PICK h : Picked(h, left, text, places)
  BY RemainsIsPicked
<1>3. /\ \A j \in 1 .. m : h[j] \in places /\ h[j] \in 1 .. k - 1 /\ left[j] = text[h[j]]
      /\ \A i, j \in 1 .. m : i < j => h[i] < h[j]
      /\ \A i \in places : \E j \in 1 .. m : h[j] = i
  BY <1>1, <1>2 DEF Picked
<1>4. /\ DOMAIN more = 1 .. m + 1 /\ more[m + 1] = text[k]
      /\ \A j \in 1 .. m : more[j] = left[j]
  BY <1>1
<1> DEFINE g == [j \in 1 .. m + 1 |-> IF j = m + 1 THEN k ELSE h[j]]
<1>5. /\ g[m + 1] = k /\ m + 1 \in 1 .. m + 1 /\ \A j \in 1 .. m : j \in 1 .. m + 1 /\ g[j] = h[j]
      /\ \A j \in 1 .. m + 1 : j = m + 1 \/ j \in 1 .. m
  OBVIOUS
<1>6. g \in [1 .. m + 1 -> places \cup {k}]
  BY <1>3
<1> HIDE DEF g, more
<1>7. \A j \in 1 .. m + 1 : more[j] = text[g[j]]
  BY <1>3, <1>4, <1>5
<1>8. \A i, j \in 1 .. m + 1 : i < j => g[i] < g[j]
  <2>1. \A i, j \in 1 .. m : i < j => g[i] < g[j]
    BY <1>3, <1>5
  <2>2. \A i \in 1 .. m : g[i] < g[m + 1]
    <3>1. \A i \in 1 .. k - 1 : i < k
      OBVIOUS
    <3>2. QED
      BY <1>3, <1>5, <3>1
  <2>3. \A j \in 1 .. m + 1 : ~(m + 1 < j)
    OBVIOUS
  <2>4. QED
    BY <1>5, <2>1, <2>2, <2>3
<1>9. \A i \in places \cup {k} : \E j \in 1 .. m + 1 : g[j] = i
  BY <1>3, <1>5
<1>10. Picked(g, more, text, places \cup {k})
  BY <1>4, <1>6, <1>7, <1>8, <1>9 DEF Picked
<1>11. QED
  BY <1>10, RemainsIsPicked DEF more

\* What is left of what is left.
LEMMA RemainsThrough ==
    ASSUME NEW left, NEW text, NEW places, Remains(left, text, places),
           NEW first, NEW rest, NEW h,
           \A k \in places : h[k] \in rest /\ text[k] = first[h[k]],
           \A j, k \in places : j < k => h[j] < h[k],
           \A i \in rest : \E k \in places : h[k] = i
    PROVE  Remains(left, first, rest)
<1>1. PICK f : Picked(f, left, text, places)
  BY RemainsIsPicked
<1>2. PICK D : D = DOMAIN left
  OBVIOUS
<1>3. /\ \A k \in D : f[k] \in places /\ left[k] = text[f[k]]
      /\ \A j, k \in D : j < k => f[j] < f[k]
      /\ \A i \in places : \E k \in D : f[k] = i
  BY <1>1, <1>2 DEF Picked
<1> DEFINE g == [k \in D |-> h[f[k]]]
<1>4. \A k \in D : g[k] = h[f[k]]
  OBVIOUS
<1>5. g \in [D -> rest]
  BY <1>3
<1> HIDE DEF g
<1>6. \A k \in D : left[k] = first[g[k]]
  BY <1>3, <1>4
<1>7. \A j, k \in D : j < k => g[j] < g[k]
  BY <1>3, <1>4
<1>8. \A i \in rest : \E k \in D : g[k] = i
  BY <1>3, <1>4
<1>9. Picked(g, left, first, rest)
  BY <1>2, <1>5, <1>6, <1>7, <1>8 DEF Picked
<1>10. QED
  BY <1>9, RemainsIsPicked

\* The lines of the user are what is left without the block.
Theirs(text) == {i \in DOMAIN text : text[i] \notin Ours}

LEMMA OfUserRemains ==
    ASSUME NEW text \in Seq(AnyLine)
    PROVE  /\ OfUser(text) \in Seq(AnyLine \ Ours)
           /\ Remains(OfUser(text), text, Theirs(text))
<1>01. PICK S : S = AnyLine \ Ours
  OBVIOUS
<1>02. PICK P : P = Theirs(text)
  OBVIOUS
<1>1. PICK out \in Seq(AnyLine) : out = OfUser(text) /\ \E h : IsSelection(out, h, text, Len(text), S)
  BY <1>01, SelectionExists DEF OfUser
<1>2. PICK h : IsSelection(out, h, text, Len(text), S)
  BY <1>1
<1>3. PICK n \in Nat : n = Len(text) /\ DOMAIN text = 1 .. n /\ \A i \in 1 .. n : text[i] \in AnyLine
  OBVIOUS
<1>4. PICK m \in Nat : m = Len(out) /\ DOMAIN out = 1 .. m
  OBVIOUS
<1>5. /\ \A k \in 1 .. m : h[k] \in 1 .. n /\ out[k] = text[h[k]] /\ out[k] \in S
      /\ \A j, k \in 1 .. m : j < k => h[j] < h[k]
      /\ \A i \in 1 .. n : text[i] \in S => \E k \in 1 .. m : h[k] = i
      /\ h \in [1 .. m -> 1 .. n]
  BY <1>2, <1>3, <1>4 DEF IsSelection
<1>6. \A i : i \in P <=> i \in 1 .. n /\ text[i] \in S
  BY <1>01, <1>02, <1>3 DEF Theirs
<1>7. h \in [1 .. m -> P]
  BY <1>5, <1>6
<1>8. Picked(h, out, text, P)
  BY <1>4, <1>5, <1>6, <1>7 DEF Picked
<1>9. out \in Seq(S)
  BY <1>4, <1>5
<1>10. Remains(out, text, P)
  BY <1>8, RemainsIsPicked
<1>11. OfUser(text) \in Seq(AnyLine \ Ours)
  BY <1>01, <1>1, <1>9, Zenon
<1>12. Remains(OfUser(text), text, Theirs(text))
  BY <1>02, <1>1, <1>10, Zenon
<1>13. QED
  BY <1>11, <1>12, Zenon

-----------------------------------------------------------------------------
(* The scan.                                                               *)

ScanState == [block : BOOLEAN, out : Seq(AnyLine)]

LEMMA ReadType ==
    ASSUME NEW v \in ScanState, NEW line \in AnyLine, NEW ends
    PROVE  Read(v, line, ends) \in ScanState
<1>1. ASSUME NEW w \in ScanState PROVE Passed_over(w, line) \in ScanState
  <2>1. Append(w.out, line) \in Seq(AnyLine)
    BY DEF ScanState
  <2>2. [w EXCEPT !.out = Append(@, line)] \in ScanState
    BY <2>1 DEF ScanState
  <2>3. [w EXCEPT !.block = TRUE] \in ScanState
    BY DEF ScanState
  <2>4. QED
    BY <2>2, <2>3 DEF Passed_over
<1>2. [v EXCEPT !.block = FALSE] \in ScanState
  BY DEF ScanState
<1>3. QED
  BY <1>1, <1>2 DEF Read

\* The line belongs to the block, or comes after it before anything that ends it.
InBlock(v, line, ends) == line \in Ours \/ (v.block /\ line \notin ends)

LEMMA ReadEffect ==
    ASSUME NEW v \in ScanState, NEW line \in AnyLine, NEW ends, ends \cap Ours = {}
    PROVE  /\ Read(v, line, ends).block <=> InBlock(v, line, ends)
           /\ Read(v, line, ends).out = IF InBlock(v, line, ends) THEN v.out ELSE Append(v.out, line)
<1>1. CASE line \in Ours
  <2>1. line \notin ends
    BY <1>1
  <2>2. QED
    BY <1>1, <2>1 DEF Read, Passed_over, InBlock, ScanState
<1>2. CASE line \notin Ours /\ line \in ends
  BY <1>2 DEF Read, Passed_over, InBlock, ScanState
<1>3. CASE line \notin Ours /\ line \notin ends
  BY <1>3 DEF Read, Passed_over, InBlock, ScanState
<1>4. QED
  BY <1>1, <1>2, <1>3

LEMMA ScanRuns ==
    ASSUME NEW s \in Seq(AnyLine), NEW ends
    PROVE  \E run : /\ run[0] = NothingRead
                    /\ \A k \in 1 .. Len(s) : run[k] = Read(run[k - 1], s[k], ends)
                    /\ Scanned(s, ends) = run[Len(s)]
<1> DEFINE V == ScanState
           n == Len(s)
           step == [k \in 1 .. n |-> [v \in V |-> Read(v, s[k], ends)]]
           F(f) == [T \in SUBSET (1 .. n) |->
                       IF T = {} THEN NothingRead ELSE Read(f[T \ {Max(T)}], s[Max(T)], ends)]
<1>1. n \in Nat /\ DOMAIN s = 1 .. n /\ NothingRead \in V
  BY DEF NothingRead, ScanState
<1>2. \A k \in 1 .. n : \A v \in V : step[k][v] = Read(v, s[k], ends) /\ step[k][v] \in V
  <2>1. \A k \in 1 .. n : s[k] \in AnyLine
    OBVIOUS
  <2>2. \A k \in 1 .. n : \A v \in V : Read(v, s[k], ends) \in V
    BY <2>1, ReadType
  <2>3. QED
    BY <2>2
<1> HIDE DEF step, V, n
<1>3. PICK g \in [SUBSET (1 .. n) -> V] : IsLeftFold(g, n, NothingRead, step)
  BY <1>1, <1>2, LeftFoldExists
<1>4. \A T \in SUBSET (1 .. n) : T # {} => Max(T) \in 1 .. n /\ g[T \ {Max(T)}] \in V
  <2>1. \A T \in SUBSET (1 .. n) : T # {} => Max(T) \in T
    BY <1>1, GreatestOf
  <2>2. QED
    BY <2>1
<1>5. \A T \in SUBSET (1 .. n) :
          g[T] = IF T = {} THEN NothingRead ELSE Read(g[T \ {Max(T)}], s[Max(T)], ends)
  BY <1>2, <1>3, <1>4 DEF IsLeftFold
<1>6. g = F(g)
  BY <1>5, Zenon
<1>7. PICK p : p = CHOOSE f : f = F(f)
  OBVIOUS
<1>8. p = F(p)
  <2> HIDE DEF F
  <2>1. \E f : f = F(f)
    BY <1>6
  <2>2. QED
    BY <1>7, <2>1, Zenon
<1>9. Scanned(s, ends) = p[1 .. n]
  BY <1>1, <1>7 DEF Scanned, FoldLeft, MapThenFoldSet
<1>10. p[{}] = NothingRead
  BY <1>8
<1>11. \A k \in 1 .. n : p[1 .. k] = Read(p[1 .. (k - 1)], s[k], ends)
  <2> SUFFICES ASSUME NEW k \in 1 .. n PROVE p[1 .. k] = Read(p[1 .. (k - 1)], s[k], ends)
    OBVIOUS
  <2>1. /\ 1 .. k \in SUBSET (1 .. n) /\ 1 .. k # {}
        /\ Max(1 .. k) = k /\ (1 .. k) \ {Max(1 .. k)} = 1 .. (k - 1)
    BY <1>1, InitialIndices
  <2>2. p[1 .. k] = Read(p[(1 .. k) \ {Max(1 .. k)}], s[Max(1 .. k)], ends)
    BY <1>8, <2>1, Zenon
  <2>3. QED
    BY <2>1, <2>2
<1> DEFINE run == [k \in 0 .. n |-> p[1 .. k]]
<1>12. /\ run[0] = NothingRead /\ run[n] = p[1 .. n]
       /\ \A k \in 1 .. n : run[k] = Read(run[k - 1], s[k], ends)
  <2>1. 1 .. 0 = {} /\ 0 \in 0 .. n /\ n \in 0 .. n
    BY <1>1
  <2>2. \A k \in 1 .. n : k \in 0 .. n /\ k - 1 \in 0 .. n
    BY <1>1
  <2>3. QED
    BY <1>10, <1>11, <2>1, <2>2
<1>13. QED
  BY <1>9, <1>12 DEF n

\* The block is open after k lines.
Open(text, ends, k) == \E j \in 1 .. k : text[j] \in Ours /\ \A i \in j + 1 .. k : text[i] \notin ends

Outside(text, ends, k) == {i \in 1 .. k : text[i] \notin Ours /\ ~Open(text, ends, i)}

LEMMA OpenNext ==
    ASSUME NEW text, NEW ends, ends \cap Ours = {}, NEW k \in Nat \ {0}
    PROVE  Open(text, ends, k) <=> (text[k] \in Ours \/ (Open(text, ends, k - 1) /\ text[k] \notin ends))
<1>1. ASSUME Open(text, ends, k), text[k] \notin Ours
      PROVE  Open(text, ends, k - 1) /\ text[k] \notin ends
  <2>1. PICK j \in 1 .. k : text[j] \in Ours /\ \A i \in j + 1 .. k : text[i] \notin ends
    BY <1>1 DEF Open
  <2>2. j # k
    BY <1>1, <2>1
  <2>3. j \in 1 .. k - 1 /\ k \in j + 1 .. k /\ \A i \in j + 1 .. k - 1 : i \in j + 1 .. k
    BY <2>1, <2>2
  <2>4. QED
    BY <2>1, <2>3 DEF Open
<1>2. ASSUME text[k] \in Ours PROVE Open(text, ends, k)
  <2>1. k \in 1 .. k /\ \A i \in k + 1 .. k : FALSE
    OBVIOUS
  <2>2. QED
    BY <1>2, <2>1 DEF Open
<1>3. ASSUME Open(text, ends, k - 1), text[k] \notin ends PROVE Open(text, ends, k)
  <2>1. PICK j \in 1 .. k - 1 : text[j] \in Ours /\ \A i \in j + 1 .. k - 1 : text[i] \notin ends
    BY <1>3 DEF Open
  <2>2. j \in 1 .. k /\ \A i \in j + 1 .. k : i = k \/ i \in j + 1 .. k - 1
    OBVIOUS
  <2>3. QED
    BY <1>3, <2>1, <2>2 DEF Open
<1>4. QED
  BY <1>1, <1>2, <1>3

LEMMA ScanLeaves ==
    ASSUME NEW s \in Seq(AnyLine), NEW ends, ends \cap Ours = {}
    PROVE  /\ WithoutBlock(s, ends) \in Seq(AnyLine)
           /\ Remains(WithoutBlock(s, ends), s, Outside(s, ends, Len(s)))
<1>1. PICK run : /\ run[0] = NothingRead
                 /\ \A k \in 1 .. Len(s) : run[k] = Read(run[k - 1], s[k], ends)
                 /\ Scanned(s, ends) = run[Len(s)]
  BY ScanRuns
<1>2. PICK n \in Nat : n = Len(s) /\ \A i \in 1 .. n : s[i] \in AnyLine
  OBVIOUS
<1> DEFINE Fine == {k \in 0 .. n :
                       /\ run[k] \in ScanState
                       /\ run[k].block <=> Open(s, ends, k)
                       /\ Remains(run[k].out, s, Outside(s, ends, k))}
<1>3. 0 \in Fine
  <2>1. run[0] = [block |-> FALSE, out |-> << >>]
    BY <1>1 DEF NothingRead
  <2>2. run[0] \in ScanState /\ run[0].block = FALSE /\ run[0].out = << >>
    BY <2>1 DEF ScanState
  <2>3. ~Open(s, ends, 0) /\ Outside(s, ends, 0) = {}
    BY DEF Open, Outside
  <2>4. Picked(<< >>, << >>, s, {})
    BY DEF Picked
  <2>5. Remains(<< >>, s, {})
    BY <2>4, RemainsIsPicked
  <2>61. PICK out : out = run[0].out
    OBVIOUS
  <2>62. PICK P : P = Outside(s, ends, 0)
    OBVIOUS
  <2>63. Remains(out, s, P)
    BY <2>2, <2>3, <2>5, <2>61, <2>62
  <2>6. 0 \in 0 .. n /\ Remains(run[0].out, s, Outside(s, ends, 0))
    BY <2>61, <2>62, <2>63
  <2>7. run[0].block <=> Open(s, ends, 0)
    BY <2>2, <2>3
  <2>8. QED
    BY <2>2, <2>6, <2>7
<1>4. ASSUME NEW k \in 1 .. n, k - 1 \in Fine PROVE k \in Fine
  <2>1. PICK v : v = run[k - 1]
    OBVIOUS
  <2>2. PICK w : w = run[k]
    OBVIOUS
  <2>3. PICK line \in AnyLine : line = s[k]
    BY <1>2
  <2>4. PICK P : P = Outside(s, ends, k - 1)
    OBVIOUS
  <2>5. v \in ScanState /\ (v.block <=> Open(s, ends, k - 1)) /\ Remains(v.out, s, P)
    BY <1>4, <2>1, <2>4
  <2>6. w = Read(v, line, ends)
    BY <1>1, <1>2, <2>1, <2>2, <2>3
  <2>7. w \in ScanState
    BY <2>5, <2>6, ReadType
  <2>8. /\ w.block <=> InBlock(v, line, ends)
        /\ w.out = IF InBlock(v, line, ends) THEN v.out ELSE Append(v.out, line)
    BY <2>5, <2>6, ReadEffect
  <2>9. Open(s, ends, k) <=> (line \in Ours \/ (Open(s, ends, k - 1) /\ line \notin ends))
    BY <2>3, OpenNext
  <2>10. InBlock(v, line, ends) <=> Open(s, ends, k)
    BY <2>5, <2>9 DEF InBlock
  <2>11. P \subseteq 1 .. k - 1
    BY <2>4 DEF Outside
  <2>12. \A i \in 1 .. k : i = k \/ i \in 1 .. k - 1
    OBVIOUS
  <2>13. Remains(w.out, s, Outside(s, ends, k))
    <3>1. CASE Open(s, ends, k)
      <4>1. Outside(s, ends, k) \subseteq P
        BY <2>4, <2>12, <3>1 DEF Outside
      <4>2. P \subseteq Outside(s, ends, k)
        BY <2>4 DEF Outside
      <4>3. Outside(s, ends, k) = P
        BY <4>1, <4>2
      <4>4. w.out = v.out
        BY <2>8, <2>10, <3>1
      <4>5. QED
        BY <2>5, <4>3, <4>4
    <3>2. CASE ~Open(s, ends, k)
      <4>1. line \notin Ours
        BY <2>9, <3>2
      <4>2. Outside(s, ends, k) \subseteq P \cup {k}
        BY <2>4, <2>12 DEF Outside
      <4>3. P \cup {k} \subseteq Outside(s, ends, k)
        BY <2>3, <2>4, <3>2, <4>1 DEF Outside
      <4>4. Outside(s, ends, k) = P \cup {k}
        BY <4>2, <4>3
      <4>5. w.out = Append(v.out, s[k])
        BY <2>3, <2>8, <2>10, <3>2
      <4>6. v.out \in Seq(AnyLine) /\ k \in Nat /\ s[k] \in AnyLine
        BY <2>3, <2>5 DEF ScanState
      <4>7. Remains(Append(v.out, s[k]), s, P \cup {k})
        BY <2>5, <2>11, <4>6, RemainsMore
      <4>8. QED
        BY <4>4, <4>5, <4>7
    <3>3. QED
      BY <3>1, <3>2
  <2>14. w.block <=> Open(s, ends, k)
    BY <2>8, <2>10
  <2>15. k \in 0 .. n
    OBVIOUS
  <2>16. QED
    BY <2>2, <2>7, <2>13, <2>14, <2>15
<1> HIDE DEF Fine
<1>5. \A k \in 0 .. n : k \in Fine
  BY <1>3, <1>4, IndexInduction
<1>6. n \in Fine
  BY <1>5
<1>7. run[n] \in ScanState /\ Remains(run[n].out, s, Outside(s, ends, n))
  BY <1>6 DEF Fine
<1>8. QED
  BY <1>1, <1>2, <1>7 DEF WithoutBlock, ScanState

-----------------------------------------------------------------------------
(* What the operations make of a file.                                     *)

Sane(text) ==
    /\ text \in Seq(AnyLine)
    /\ \A i, j \in DOMAIN text : text[i] \in Ours /\ text[j] \in Ours => i = j
    /\ format # "toml" => ToSet(text) \cap Headings = {}

LEMMA Indices ==
    ASSUME NEW X, NEW text \in Seq(X)
    PROVE  /\ Len(text) \in Nat /\ DOMAIN text = 1 .. Len(text)
           /\ \A i \in 1 .. Len(text) : text[i] \in X /\ text[i] \in ToSet(text)
           /\ \A x \in ToSet(text) : \E i \in 1 .. Len(text) : text[i] = x
  BY DEF ToSet

LEMMA RemainsLines ==
    ASSUME NEW X, NEW left \in Seq(X), NEW text, NEW places, Remains(left, text, places)
    PROVE  /\ \A k \in 1 .. Len(left) : \E i \in places : left[k] = text[i]
           /\ \A i \in places : text[i] \in ToSet(left)
<1>1. PICK h : Picked(h, left, text, places)
  BY RemainsIsPicked
<1>2. /\ DOMAIN left = 1 .. Len(left)
      /\ \A k \in 1 .. Len(left) : left[k] \in ToSet(left)
  BY Indices
<1>3. /\ \A k \in 1 .. Len(left) : h[k] \in places /\ left[k] = text[h[k]]
      /\ \A i \in places : \E k \in 1 .. Len(left) : h[k] = i
  BY <1>1, <1>2 DEF Picked
<1>4. QED
  BY <1>2, <1>3

\* A section lasts to the next heading; a key as long as comments follow.
LEMMA OutsideIsUntouched ==
    ASSUME NEW text, Sane(text), NEW ends,
           \/ format = "toml" /\ ends = {"head"}
           \/ format = "yaml" /\ ends = {"key"}
    PROVE  Outside(text, ends, Len(text)) = Untouched(text)
<1>1. PICK n \in Nat : /\ n = Len(text) /\ DOMAIN text = 1 .. n
                       /\ \A i \in 1 .. n : text[i] \in AnyLine /\ text[i] \in ToSet(text)
  BY Indices DEF Sane
<1>2. \A i, j \in 1 .. n : text[i] \in Ours /\ text[j] \in Ours => i = j
  BY <1>1 DEF Sane
<1>3. ASSUME NEW i \in 1 .. n, text[i] \notin Ours
      PROVE  Open(text, ends, i) <=> Swallowed(text, i)
  <2>1. \A j \in 1 .. i : text[j] \in Ours => j \in 1 .. i - 1
    BY <1>3
  <2>2. \A j \in 1 .. i - 1 : j \in 1 .. i /\ j \in 1 .. n
    OBVIOUS
  <2>3. CASE format = "toml"
    <3>1. \A x : x \in ends <=> x = "head"
      BY <2>3
    <3>2. Swallowed(text, i) <=> \E j \in 1 .. i - 1 : text[j] \in Ours /\ \A k \in j + 1 .. i : text[k] # "head"
      BY <2>3 DEF Swallowed
    <3>3. Open(text, ends, i) <=> \E j \in 1 .. i : text[j] \in Ours /\ \A k \in j + 1 .. i : text[k] # "head"
      BY <3>1 DEF Open
    <3>4. QED
      BY <2>1, <2>2, <3>2, <3>3
  <2>4. CASE format = "yaml"
    <3>1. ends = {"key"} /\ ToSet(text) \cap Headings = {}
      BY <2>4 DEF Sane
    <3>2. Swallowed(text, i) <=> \E j \in 1 .. i - 1 : text[j] \in Ours /\ \A k \in j + 1 .. i : text[k] = "note"
      BY <2>4 DEF Swallowed
    <3>3. Open(text, ends, i) <=> \E j \in 1 .. i : text[j] \in Ours /\ \A k \in j + 1 .. i : text[k] # "key"
      BY <3>1 DEF Open
    <3>4. ASSUME NEW j \in 1 .. i - 1, text[j] \in Ours, NEW k \in j + 1 .. i
          PROVE  text[k] # "key" <=> text[k] = "note"
      <4>1. k \in 1 .. n /\ j \in 1 .. n /\ k # j
        OBVIOUS
      <4>2. text[k] \notin Ours
        BY <1>2, <3>4, <4>1
      <4>3. text[k] \in AnyLine /\ text[k] \notin Headings
        BY <1>1, <3>1, <4>1
      <4>4. QED
        BY <4>2, <4>3 DEF AnyLine, Headings
    <3>5. QED
      BY <2>1, <2>2, <3>2, <3>3, <3>4
  <2>5. QED
    BY <2>3, <2>4
<1>4. \A i : i \in Outside(text, ends, n) <=> i \in 1 .. n /\ text[i] \notin Ours /\ ~Open(text, ends, i)
  BY DEF Outside
<1>5. \A i : i \in Untouched(text) <=> i \in 1 .. n /\ text[i] \notin Ours /\ ~Swallowed(text, i)
  BY <1>1 DEF Untouched
<1>6. \A i : i \in Outside(text, ends, n) <=> i \in Untouched(text)
  BY <1>3, <1>4, <1>5
<1>7. Outside(text, ends, n) = Untouched(text)
  BY <1>6
<1>8. QED
  BY <1>1, <1>7

LEMMA TakenOutRemains ==
    ASSUME NEW text, Sane(text), format \in Formats
    PROVE  /\ TakenOut(text) \in Seq(AnyLine \ Ours)
           /\ Remains(TakenOut(text), text, Untouched(text))
<1>1. /\ Untouched(text) \subseteq DOMAIN text
      /\ \A i \in Untouched(text) : text[i] \notin Ours
  BY DEF Untouched
<1>2. TakenOut(text) \in Seq(AnyLine) /\ Remains(TakenOut(text), text, Untouched(text))
  <2>0. text \in Seq(AnyLine)
    BY DEF Sane
  <2>1. CASE format = "json"
    <3>1. \A i \in DOMAIN text : ~Swallowed(text, i)
      BY <2>1 DEF Swallowed
    <3>2. Untouched(text) = Theirs(text)
      BY <3>1 DEF Untouched, Theirs
    <3>3. TakenOut(text) = OfUser(text)
      BY <2>1 DEF TakenOut
    <3>4. OfUser(text) \in Seq(AnyLine \ Ours) /\ Remains(OfUser(text), text, Theirs(text))
      BY <2>0, OfUserRemains
    <3>5. OfUser(text) \in Seq(AnyLine)
      BY <3>4
    <3>6. QED
      BY <3>2, <3>3, <3>4, <3>5
  <2>2. CASE format = "toml"
    <3>1. TakenOut(text) = WithoutBlock(text, {"head"})
      BY <2>2 DEF TakenOut, _remove_toml_section
    <3>2. {"head"} \cap Ours = {}
      BY DEF Ours
    <3>3. PICK ends : ends = {"head"}
      OBVIOUS
    <3>4. Outside(text, ends, Len(text)) = Untouched(text)
      BY <2>2, <3>3, OutsideIsUntouched
    <3>5. WithoutBlock(text, ends) \in Seq(AnyLine) /\ Remains(WithoutBlock(text, ends), text, Outside(text, ends, Len(text)))
      BY <2>0, <3>2, <3>3, ScanLeaves
    <3>6. QED
      BY <3>1, <3>3, <3>4, <3>5
  <2>3. CASE format = "yaml"
    <3>1. TakenOut(text) = WithoutBlock(text, {"key"})
      BY <2>3 DEF TakenOut, _remove_yaml_key
    <3>2. {"key"} \cap Ours = {}
      BY DEF Ours
    <3>3. PICK ends : ends = {"key"}
      OBVIOUS
    <3>4. Outside(text, ends, Len(text)) = Untouched(text)
      BY <2>3, <3>3, OutsideIsUntouched
    <3>5. WithoutBlock(text, ends) \in Seq(AnyLine) /\ Remains(WithoutBlock(text, ends), text, Outside(text, ends, Len(text)))
      BY <2>0, <3>2, <3>3, ScanLeaves
    <3>6. QED
      BY <3>1, <3>3, <3>4, <3>5
  <2>4. QED
    BY <2>1, <2>2, <2>3 DEF Formats
<1>3. PICK out \in Seq(AnyLine) : out = TakenOut(text)
  BY <1>2
<1>4. PICK m \in Nat : m = Len(out) /\ DOMAIN out = 1 .. m /\ \A k \in 1 .. m : out[k] \in AnyLine
  OBVIOUS
<1>5. \A k \in 1 .. m : \E i \in Untouched(text) : out[k] = text[i]
  BY <1>2, <1>3, <1>4, RemainsLines
<1>6. \A k \in 1 .. m : out[k] \in AnyLine \ Ours
  BY <1>1, <1>4, <1>5
<1>7. out \in Seq(AnyLine \ Ours)
  BY <1>4, <1>6
<1>8. QED
  BY <1>2, <1>3, <1>7

\* With or without the block after them, the lines of the user are the same.
LEMMA OfUserOfRest ==
    ASSUME NEW out \in Seq(AnyLine \ Ours), NEW text, NEW places, Remains(out, text, places)
    PROVE  Remains(OfUser(out), text, places)
<1>0. PICK m \in Nat : m = Len(out) /\ DOMAIN out = 1 .. m /\ \A k \in 1 .. m : out[k] \in AnyLine \ Ours
  OBVIOUS
<1>1. out \in Seq(AnyLine)
  BY <1>0
<1>2. Remains(OfUser(out), out, Theirs(out))
  BY <1>1, OfUserRemains
<1>3. Theirs(out) = 1 .. m
  BY <1>0 DEF Theirs
<1>4. PICK h : Picked(h, out, text, places)
  BY RemainsIsPicked
<1>5. PICK R : R = 1 .. m
  OBVIOUS
<1>6. /\ \A k \in R : h[k] \in places /\ out[k] = text[h[k]]
      /\ \A j, k \in R : j < k => h[j] < h[k]
      /\ \A i \in places : \E k \in R : h[k] = i
  BY <1>0, <1>4, <1>5 DEF Picked
<1>7. Remains(OfUser(out), out, R)
  BY <1>2, <1>3, <1>5
<1>8. QED
  BY <1>6, <1>7, RemainsThrough

LEMMA OfUserOfAppended ==
    ASSUME NEW out \in Seq(AnyLine \ Ours), NEW text, NEW places, Remains(out, text, places),
           NEW block \in Ours
    PROVE  Remains(OfUser(Append(out, block)), text, places)
<1>0. PICK m \in Nat : m = Len(out) /\ DOMAIN out = 1 .. m /\ \A k \in 1 .. m : out[k] \in AnyLine \ Ours
  OBVIOUS
<1>1. PICK new : new = Append(out, block)
  OBVIOUS
<1>2. /\ DOMAIN new = 1 .. m + 1 /\ new[m + 1] = block
      /\ \A k \in 1 .. m : new[k] = out[k]
  BY <1>0, <1>1
<1>3. new \in Seq(AnyLine)
  BY <1>0, <1>1 DEF AnyLine
<1>4. Remains(OfUser(new), new, Theirs(new))
  BY <1>3, OfUserRemains
<1>5. PICK R : R = 1 .. m
  OBVIOUS
<1>6. Theirs(new) = R
  <2>1. \A k \in 1 .. m + 1 : k = m + 1 \/ k \in 1 .. m
    OBVIOUS
  <2>2. Theirs(new) \subseteq R
    BY <1>2, <1>5, <2>1 DEF Theirs
  <2>3. \A k \in 1 .. m : k \in 1 .. m + 1
    OBVIOUS
  <2>4. R \subseteq Theirs(new)
    BY <1>0, <1>2, <1>5, <2>3 DEF Theirs
  <2>5. QED
    BY <2>2, <2>4
<1>7. PICK h : Picked(h, out, text, places)
  BY RemainsIsPicked
<1>8. /\ \A k \in R : h[k] \in places /\ out[k] = text[h[k]]
      /\ \A j, k \in R : j < k => h[j] < h[k]
      /\ \A i \in places : \E k \in R : h[k] = i
  BY <1>0, <1>5, <1>7 DEF Picked
<1>9. \A k \in R : new[k] = text[h[k]]
  BY <1>2, <1>5, <1>8
<1>10. Remains(OfUser(new), new, R)
  BY <1>4, <1>6
<1>11. Remains(OfUser(new), text, places)
  BY <1>8, <1>9, <1>10, RemainsThrough
<1>12. QED
  BY <1>1, <1>11

-----------------------------------------------------------------------------
(* The block is put in.                                                    *)

LEMMA SaneRest ==
    ASSUME NEW text, Sane(text), NEW out \in Seq(AnyLine \ Ours),
           Remains(out, text, Untouched(text))
    PROVE  Sane(out) /\ \A block \in Ours : Sane(Append(out, block))
<1>1. PICK m \in Nat : m = Len(out) /\ DOMAIN out = 1 .. m /\ \A k \in 1 .. m : out[k] \in AnyLine \ Ours
  OBVIOUS
<1>2. \A k \in 1 .. m : \E i \in Untouched(text) : out[k] = text[i]
  BY <1>1, RemainsLines
<1>3. \A i \in Untouched(text) : text[i] \in ToSet(text)
  BY DEF Untouched, ToSet
<1>4. format # "toml" => \A k \in 1 .. m : out[k] \notin Headings
  BY <1>2, <1>3 DEF Sane
<1>5. Sane(out)
  <2>1. out \in Seq(AnyLine)
    BY <1>1
  <2>2. \A x \in ToSet(out) : \E k \in 1 .. m : out[k] = x
    BY <1>1 DEF ToSet
  <2>3. QED
    BY <1>1, <1>4, <2>1, <2>2 DEF Sane
<1>6. ASSUME NEW block \in Ours PROVE Sane(Append(out, block))
  <2>1. PICK new : new = Append(out, block)
    OBVIOUS
  <2>2. /\ DOMAIN new = 1 .. m + 1 /\ new[m + 1] = block
        /\ \A k \in 1 .. m : new[k] = out[k]
        /\ \A k \in 1 .. m + 1 : k = m + 1 \/ k \in 1 .. m
    BY <1>1, <2>1
  <2>3. new \in Seq(AnyLine)
    BY <1>1, <2>1 DEF AnyLine
  <2>4. \A k \in 1 .. m : new[k] \notin Ours
    BY <1>1, <2>2
  <2>5. \A i, j \in 1 .. m + 1 : new[i] \in Ours /\ new[j] \in Ours => i = j
    BY <2>2, <2>4
  <2>6. block \notin Headings
    BY DEF Ours, Headings
  <2>7. format # "toml" => \A k \in 1 .. m + 1 : new[k] \notin Headings
    BY <1>4, <2>2, <2>6
  <2>8. \A x \in ToSet(new) : \E k \in 1 .. m + 1 : new[k] = x
    BY <2>2 DEF ToSet
  <2>9. Sane(new)
    BY <2>2, <2>3, <2>5, <2>7, <2>8 DEF Sane
  <2>10. QED
    BY <2>1, <2>9
<1>7. QED
  BY <1>5, <1>6

LEMMA PutInRemains ==
    ASSUME NEW text, Sane(text), format \in Formats, NEW block \in Ours
    PROVE  /\ Sane(PutIn(text, block))
           /\ Remains(OfUser(PutIn(text, block)), text, Untouched(text))
<1>1. CASE format = "json" /\ HasBlock(text)
  <2>1. PICK n \in Nat : n = Len(text) /\ DOMAIN text = 1 .. n
                         /\ \A i \in 1 .. n : text[i] \in AnyLine /\ text[i] \in ToSet(text)
    BY Indices DEF Sane
  <2>2. PICK new : new = [i \in 1 .. n |-> IF text[i] \in Ours THEN block ELSE text[i]]
    OBVIOUS
  <2>3. PutIn(text, block) = new
    BY <1>1, <2>1, <2>2 DEF PutIn
  <2>4. /\ DOMAIN new = 1 .. n
        /\ \A i \in 1 .. n : new[i] = IF text[i] \in Ours THEN block ELSE text[i]
    BY <2>2
  <2>5. \A i \in 1 .. n : /\ new[i] \in AnyLine /\ (new[i] \in Ours <=> text[i] \in Ours)
                          /\ new[i] \notin Ours => new[i] = text[i]
    BY <2>1, <2>4 DEF AnyLine
  <2>6. new \in Seq(AnyLine)
    BY <2>2, <2>4, <2>5
  <2>7. Sane(new)
    <3>1. \A i, j \in 1 .. n : new[i] \in Ours /\ new[j] \in Ours => i = j
      BY <2>1, <2>5 DEF Sane
    <3>2. format # "toml" => \A i \in 1 .. n : new[i] \notin Headings
      BY <2>1, <2>4 DEF Sane, Ours, Headings
    <3>3. \A x \in ToSet(new) : \E k \in 1 .. n : new[k] = x
      BY <2>4 DEF ToSet
    <3>4. QED
      BY <2>4, <2>6, <3>1, <3>2, <3>3 DEF Sane
  <2>8. PICK R : R = Theirs(new)
    OBVIOUS
  <2>9. \A i : i \in R <=> i \in 1 .. n /\ text[i] \notin Ours
    BY <2>4, <2>5, <2>8 DEF Theirs
  <2>10. \A i \in 1 .. n : ~Swallowed(text, i)
    BY <1>1 DEF Swallowed
  <2>11. \A i : i \in Untouched(text) <=> i \in 1 .. n /\ text[i] \notin Ours
    BY <2>1, <2>10 DEF Untouched
  <2>12. Untouched(text) = R
    BY <2>9, <2>11
  <2>13. PICK h : h = [k \in R |-> k]
    OBVIOUS
  <2>14. \A k \in R : h[k] = k /\ h[k] \in R /\ new[k] = text[h[k]]
    BY <2>5, <2>9, <2>13
  <2>15. Remains(OfUser(new), new, R)
    BY <2>6, <2>8, OfUserRemains
  <2>16. \A j, k \in R : j < k => h[j] < h[k]
    BY <2>14
  <2>17. \A i \in R : \E k \in R : h[k] = i
    BY <2>14
  <2>18. Remains(OfUser(new), text, R)
    BY <2>14, <2>15, <2>16, <2>17, RemainsThrough
  <2>19. QED
    BY <2>3, <2>7, <2>12, <2>18
<1>2. CASE ~(format = "json" /\ HasBlock(text))
  <2>1. PutIn(text, block) = Append(TakenOut(text), block)
    BY <1>2 DEF PutIn
  <2>2. PICK out \in Seq(AnyLine \ Ours) : out = TakenOut(text) /\ Remains(out, text, Untouched(text))
    BY TakenOutRemains
  <2>3. Sane(Append(out, block))
    BY <2>2, SaneRest
  <2>4. Remains(OfUser(Append(out, block)), text, Untouched(text))
    BY <2>2, OfUserOfAppended
  <2>5. QED
    BY <2>1, <2>2, <2>3, <2>4
<1>3. QED
  BY <1>1, <1>2

LEMMA SaneNothing == Sane(<< >>)
<1>1. << >> \in Seq(AnyLine) /\ DOMAIN << >> = {}
  OBVIOUS
<1>2. ToSet(<< >>) = {}
  BY <1>1 DEF ToSet
<1>3. QED
  BY <1>1, <1>2 DEF Sane

\* Without a block nothing is swallowed.
LEMMA UnchangedRemains ==
    ASSUME NEW text, Sane(text), ~HasBlock(text) \/ format = "json"
    PROVE  Remains(OfUser(text), text, Untouched(text))
<1>1. text \in Seq(AnyLine)
  BY DEF Sane
<1>2. PICK n \in Nat : n = Len(text) /\ DOMAIN text = 1 .. n
                       /\ \A i \in 1 .. n : text[i] \in AnyLine /\ text[i] \in ToSet(text)
  BY <1>1, Indices
<1>3. ASSUME NEW i \in 1 .. n PROVE ~Swallowed(text, i)
  <2>1. CASE format = "json"
    BY <2>1 DEF Swallowed
  <2>2. CASE ~HasBlock(text)
    <3>1. \A j \in 1 .. n : text[j] \notin Ours
      BY <1>2, <2>2 DEF HasBlock
    <3>2. \A j \in 1 .. i - 1 : j \in 1 .. n
      OBVIOUS
    <3>3. QED
      BY <3>1, <3>2 DEF Swallowed
  <2>3. QED
    BY <2>1, <2>2
<1>4. \A i : i \in Untouched(text) <=> i \in 1 .. n /\ text[i] \notin Ours
  BY <1>2, <1>3 DEF Untouched
<1>5. \A i : i \in Theirs(text) <=> i \in 1 .. n /\ text[i] \notin Ours
  BY <1>2 DEF Theirs
<1>6. Untouched(text) = Theirs(text)
  BY <1>4, <1>5
<1>7. QED
  BY <1>1, <1>6, OfUserRemains

Makers == {"user", "harness", "again"}

LEMMA SaneLines ==
    ASSUME IntegrationTypeOK
    PROVE  /\ Sane(Lines) /\ format \in Formats
           /\ created \in BOOLEAN /\ maker \in Makers /\ (created => maker # "user")
<1>1. ASSUME file = Absent PROVE Sane(Lines)
  BY <1>1, SaneNothing DEF Lines
<1>2. ASSUME file # Absent PROVE Sane(Lines)
  BY <1>2 DEF Lines, IntegrationTypeOK, Sane
<1>3. /\ format \in Formats
      /\ created \in BOOLEAN /\ maker \in Makers /\ (created => maker # "user")
  BY DEF IntegrationTypeOK, Makers
<1>4. QED
  BY <1>1, <1>2, <1>3

\* What is no text of the kind is no file at all.
LEMMA SaneIsThere ==
    ASSUME NEW text, Sane(text)
    PROVE  text # Absent
<1>1. text \in Seq(AnyLine)
  BY DEF Sane
<1>2. Absent \notin Seq(AnyLine)
  BY IntegrationAssumption
<1>3. QED
  BY <1>1, <1>2

LEMMA TypeAfter ==
    ASSUME IntegrationTypeOK, UNCHANGED format, created' \in BOOLEAN,
           maker' \in Makers, created' => maker' # "user",
           author' \in {"user", "apply_agent", "disable_agent", "restore_agent"},
           file' = Absent \/ Sane(file')
    PROVE  IntegrationTypeOK'
<1>1. format' = format /\ format \in Formats
  BY DEF IntegrationTypeOK
<1>2. file' # Absent =>
          /\ file' \in Seq(AnyLine)
          /\ \A i, j \in DOMAIN file' : file'[i] \in Ours /\ file'[j] \in Ours => i = j
          /\ format' # "toml" => ToSet(file') \cap Headings = {}
  BY <1>1 DEF Sane
<1>3. QED
  BY <1>1, <1>2 DEF IntegrationTypeOK, Makers

\* An operation of the harness that leaves the user's lines alone, or deletes a file
\* without any.
Respects ==
    IF file # Absent /\ file' = Absent
    THEN maker # "user" /\ \A i \in Untouched(Lines) : Lines[i] = "note"
    ELSE \/ author' = "apply_agent" /\ format = "json" /\ ~Loads(Lines)
         \/ Remains(OfUser(Lines'), Lines, Untouched(Lines))

LEMMA ApplyKept ==
    ASSUME IntegrationTypeOK, apply_agent
    PROVE  IntegrationTypeOK' /\ Respects
<1>1. /\ Sane(Lines) /\ format \in Formats
      /\ created \in BOOLEAN /\ maker \in Makers /\ (created => maker # "user")
  BY SaneLines
<1>2. PICK text : text = IF format = "json" /\ ~Loads(Lines) THEN << >> ELSE Lines
  OBVIOUS
<1>3. Sane(text)
  BY <1>1, <1>2, SaneNothing
<1>4. "enabled" \in Ours
  BY DEF Ours
<1>5. PICK new : new = PutIn(text, "enabled")
  OBVIOUS
<1>6. Sane(new) /\ Remains(OfUser(new), text, Untouched(text))
  BY <1>1, <1>3, <1>4, <1>5, PutInRemains
<1>7. /\ file' = new /\ UNCHANGED format /\ author' = "apply_agent" /\ created' = (created \/ file = Absent)
      /\ maker' = IF file = Absent THEN "harness" ELSE maker
  BY <1>2, <1>5 DEF apply_agent
<1>8. file' # Absent
  BY <1>6, <1>7, SaneIsThere
<1>9. IntegrationTypeOK'
  <2>1. created' \in BOOLEAN /\ Sane(file')
    BY <1>1, <1>6, <1>7
  <2>2. maker' \in Makers /\ (created' => maker' # "user")
    BY <1>1, <1>7 DEF Makers
  <2>3. QED
    BY <1>7, <2>1, <2>2, TypeAfter
<1>10. Lines' = new
  BY <1>7, <1>8 DEF Lines
<1>11. CASE format = "json" /\ ~Loads(Lines)
  BY <1>7, <1>8, <1>9, <1>11 DEF Respects
<1>12. CASE ~(format = "json" /\ ~Loads(Lines))
  <2>1. text = Lines
    BY <1>2, <1>12
  <2>2. Remains(OfUser(Lines'), Lines, Untouched(Lines))
    BY <1>6, <1>10, <2>1
  <2>3. QED
    BY <1>8, <1>9, <2>2 DEF Respects
<1>13. QED
  BY <1>11, <1>12

LEMMA DisableKept ==
    ASSUME IntegrationTypeOK, disable_agent
    PROVE  IntegrationTypeOK' /\ Respects
<1>1. /\ Sane(Lines) /\ format \in Formats
      /\ created \in BOOLEAN /\ maker \in Makers /\ (created => maker # "user")
  BY SaneLines
<1>2. /\ file' = IF file = Absent \/ ~HasBlock(file) \/ (format = "json" /\ ~Loads(file))
                 THEN file ELSE PutIn(file, "disabled")
      /\ UNCHANGED <<format, created, maker>> /\ author' = "disable_agent"
  BY DEF disable_agent
<1>3. CASE file = Absent
  <2>1. file' = Absent /\ Lines' = << >> /\ Lines = << >>
    BY <1>2, <1>3 DEF Lines
  <2>2. IntegrationTypeOK'
    BY <1>1, <1>2, <2>1, TypeAfter
  <2>3. ~HasBlock(Lines)
    BY <2>1 DEF HasBlock, ToSet
  <2>4. Remains(OfUser(Lines), Lines, Untouched(Lines))
    BY <1>1, <2>3, UnchangedRemains
  <2>5. Remains(OfUser(Lines'), Lines, Untouched(Lines))
    BY <2>1, <2>4
  <2>6. QED
    BY <1>3, <2>2, <2>5 DEF Respects
<1>4. CASE file # Absent /\ (~HasBlock(file) \/ (format = "json" /\ ~Loads(file)))
  <2>1. file' = file /\ Lines = file /\ Lines' = file
    BY <1>2, <1>4 DEF Lines
  <2>2. Sane(file') /\ created' \in BOOLEAN
    BY <1>1, <1>2, <2>1
  <2>3. IntegrationTypeOK'
    BY <1>1, <1>2, <2>2, TypeAfter
  <2>4. Remains(OfUser(Lines), Lines, Untouched(Lines))
    BY <1>1, <1>4, <2>1, UnchangedRemains
  <2>5. Remains(OfUser(Lines'), Lines, Untouched(Lines))
    BY <2>1, <2>4
  <2>6. QED
    BY <1>4, <2>1, <2>3, <2>5 DEF Respects
<1>5. CASE file # Absent /\ ~(~HasBlock(file) \/ (format = "json" /\ ~Loads(file)))
  <2>1. "disabled" \in Ours
    BY DEF Ours
  <2>2. PICK new : new = PutIn(file, "disabled")
    OBVIOUS
  <2>3. file' = new /\ Lines = file
    BY <1>2, <1>5, <2>2 DEF Lines
  <2>4. Sane(file)
    BY <1>1, <2>3
  <2>5. Sane(new) /\ Remains(OfUser(new), file, Untouched(file))
    BY <1>1, <2>1, <2>2, <2>4, PutInRemains
  <2>6. file' # Absent
    BY <2>3, <2>5, SaneIsThere
  <2>7. created' \in BOOLEAN /\ Sane(file')
    BY <1>1, <1>2, <2>3, <2>5
  <2>8. IntegrationTypeOK'
    BY <1>1, <1>2, <2>7, TypeAfter
  <2>9. Lines' = new
    BY <2>3, <2>6 DEF Lines
  <2>10. Remains(OfUser(Lines'), Lines, Untouched(Lines))
    BY <2>3, <2>5, <2>9
  <2>11. QED
    BY <2>6, <2>8, <2>10 DEF Respects
<1>6. QED
  BY <1>3, <1>4, <1>5

LEMMA RestoreKept ==
    ASSUME IntegrationTypeOK, restore_agent
    PROVE  IntegrationTypeOK' /\ Respects
<1>1. /\ Sane(Lines) /\ format \in Formats
      /\ created \in BOOLEAN /\ maker \in Makers /\ (created => maker # "user")
  BY SaneLines
<1>2. PICK rest : rest = IF format = "json" /\ ~Loads(file) THEN file ELSE TakenOut(file)
  OBVIOUS
<1>3. /\ IF file = Absent THEN UNCHANGED <<file, created, maker>>
         ELSE IF created /\ IsEmpty(rest)
              THEN file' = Absent /\ created' = FALSE /\ maker' = "user"
         ELSE file' = rest /\ UNCHANGED <<created, maker>>
      /\ author' = "restore_agent" /\ UNCHANGED format
  BY <1>2 DEF restore_agent
<1>4. CASE file = Absent
  <2>1. file' = Absent /\ Lines' = << >> /\ Lines = << >> /\ UNCHANGED <<created, maker>>
    BY <1>3, <1>4 DEF Lines
  <2>2. IntegrationTypeOK'
    BY <1>1, <1>3, <2>1, TypeAfter
  <2>3. ~HasBlock(Lines)
    BY <2>1 DEF HasBlock, ToSet
  <2>4. Remains(OfUser(Lines), Lines, Untouched(Lines))
    BY <1>1, <2>3, UnchangedRemains
  <2>5. Remains(OfUser(Lines'), Lines, Untouched(Lines))
    BY <2>1, <2>4
  <2>6. QED
    BY <1>4, <2>2, <2>5 DEF Respects
<1>5. CASE file # Absent
  <2>1. Lines = file /\ Sane(file)
    BY <1>1, <1>5 DEF Lines
  <2>2. Sane(rest) /\ \A i \in Untouched(file) : file[i] \in ToSet(rest)
    <3>1. CASE format = "json" /\ ~Loads(file)
      BY <1>2, <2>1, <3>1 DEF Untouched, ToSet
    <3>2. CASE ~(format = "json" /\ ~Loads(file))
      <4>1. PICK out \in Seq(AnyLine \ Ours) : out = rest /\ Remains(out, file, Untouched(file))
        BY <1>1, <1>2, <2>1, <3>2, TakenOutRemains
      <4>2. Sane(out)
        BY <2>1, <4>1, SaneRest
      <4>3. \A i \in Untouched(file) : file[i] \in ToSet(out)
        BY <4>1, RemainsLines
      <4>4. QED
        BY <4>1, <4>2, <4>3
    <3>3. QED
      BY <3>1, <3>2
  <2>3. Remains(OfUser(rest), file, Untouched(file))
    <3>1. CASE format = "json" /\ ~Loads(file)
      <4>1. rest = file
        BY <1>2, <3>1
      <4>2. QED
        BY <2>1, <3>1, <4>1, UnchangedRemains
    <3>2. CASE ~(format = "json" /\ ~Loads(file))
      <4>1. PICK out \in Seq(AnyLine \ Ours) : out = rest /\ Remains(out, file, Untouched(file))
        BY <1>1, <1>2, <2>1, <3>2, TakenOutRemains
      <4>2. QED
        BY <4>1, OfUserOfRest
    <3>3. QED
      BY <3>1, <3>2
  <2>4. CASE created /\ IsEmpty(rest)
    <3>1. file' = Absent /\ created' = FALSE /\ maker' \in Makers
      BY <1>3, <1>5, <2>4 DEF Makers
    <3>2. IntegrationTypeOK'
      BY <1>3, <3>1, TypeAfter
    <3>3. \A x \in ToSet(rest) : x = "note"
      BY <2>4 DEF IsEmpty
    <3>4. \A i \in Untouched(Lines) : Lines[i] = "note"
      BY <2>1, <2>2, <3>3
    <3>5. QED
      BY <1>1, <1>5, <2>4, <3>1, <3>2, <3>4 DEF Respects
  <2>5. CASE ~(created /\ IsEmpty(rest))
    <3>1. file' = rest /\ UNCHANGED <<created, maker>>
      BY <1>3, <1>5, <2>5
    <3>2. file' # Absent
      BY <2>2, <3>1, SaneIsThere
    <3>3. created' \in BOOLEAN /\ Sane(file')
      BY <1>1, <2>2, <3>1
    <3>4. IntegrationTypeOK'
      BY <1>1, <1>3, <3>1, <3>3, TypeAfter
    <3>5. Lines' = rest
      BY <3>1, <3>2 DEF Lines
    <3>6. Remains(OfUser(Lines'), Lines, Untouched(Lines))
      BY <2>1, <2>3, <3>5
    <3>7. QED
      BY <3>2, <3>4, <3>6 DEF Respects
  <2>6. QED
    BY <2>4, <2>5
<1>6. QED
  BY <1>4, <1>5

-----------------------------------------------------------------------------
(* The user's own edits.                                                   *)

LEMMA Inserted ==
    ASSUME NEW X, NEW s \in Seq(X), NEW x \in X, NEW i \in 1 .. Len(s) + 1
    PROVE  /\ InsertAt(s, i, x) \in Seq(X) /\ Len(InsertAt(s, i, x)) = Len(s) + 1
           /\ \A k \in 1 .. Len(s) + 1 :
                  InsertAt(s, i, x)[k] = IF k < i THEN s[k] ELSE IF k = i THEN x ELSE s[k - 1]
<1>1. PICK n \in Nat : n = Len(s) /\ \A k \in 1 .. n : s[k] \in X
  OBVIOUS
<1>2. PICK a : a = SubSeq(s, 1, i - 1)
  OBVIOUS
<1>3. /\ a \in Seq(X) /\ Len(a) = i - 1
      /\ \A k \in 1 .. i - 1 : a[k] = s[k]
  <2>1. 1 \in Int /\ i - 1 \in Int /\ \A k \in 1 .. i - 1 : s[k] \in X
    BY <1>1
  <2>2. /\ SubSeq(s, 1, i - 1) \in Seq(X)
        /\ Len(SubSeq(s, 1, i - 1)) = IF 1 <= i - 1 THEN (i - 1) - 1 + 1 ELSE 0
        /\ \A k \in 1 .. (i - 1) - 1 + 1 : SubSeq(s, 1, i - 1)[k] = s[1 + k - 1]
    BY <2>1, SubSeqProperties
  <2>3. QED
    BY <1>1, <1>2, <2>2
<1>4. PICK c : c = SubSeq(s, i, n)
  OBVIOUS
<1>5. /\ c \in Seq(X) /\ Len(c) = n - i + 1
      /\ \A k \in 1 .. n - i + 1 : c[k] = s[i + k - 1]
  <2>1. i \in Int /\ n \in Int /\ \A k \in i .. n : s[k] \in X
    BY <1>1
  <2>2. /\ SubSeq(s, i, n) \in Seq(X)
        /\ Len(SubSeq(s, i, n)) = IF i <= n THEN n - i + 1 ELSE 0
        /\ \A k \in 1 .. n - i + 1 : SubSeq(s, i, n)[k] = s[i + k - 1]
    BY <2>1, SubSeqProperties
  <2>3. QED
    BY <1>1, <1>4, <2>2
<1>6. PICK b : b = <<x>>
  OBVIOUS
<1>7. b \in Seq(X) /\ Len(b) = 1 /\ b[1] = x
  BY <1>6
<1>8. PICK d : d = a \o b
  OBVIOUS
<1>9. /\ d \in Seq(X) /\ Len(d) = i
      /\ \A k \in 1 .. i : d[k] = IF k <= i - 1 THEN a[k] ELSE b[k - (i - 1)]
  <2>1. /\ a \o b \in Seq(X) /\ Len(a \o b) = Len(a) + Len(b)
        /\ \A k \in 1 .. Len(a) + Len(b) : (a \o b)[k] = IF k <= Len(a) THEN a[k] ELSE b[k - Len(a)]
    BY <1>3, <1>7, ConcatProperties
  <2>2. QED
    BY <1>3, <1>7, <1>8, <2>1
<1>10. PICK e : e = d \o c
  OBVIOUS
<1>11. /\ e \in Seq(X) /\ Len(e) = n + 1
       /\ \A k \in 1 .. n + 1 : e[k] = IF k <= i THEN d[k] ELSE c[k - i]
  <2>1. /\ d \o c \in Seq(X) /\ Len(d \o c) = Len(d) + Len(c)
        /\ \A k \in 1 .. Len(d) + Len(c) : (d \o c)[k] = IF k <= Len(d) THEN d[k] ELSE c[k - Len(d)]
    BY <1>5, <1>9, ConcatProperties
  <2>2. QED
    BY <1>1, <1>5, <1>9, <1>10, <2>1
<1>12. InsertAt(s, i, x) = e
  BY <1>1, <1>2, <1>4, <1>6, <1>8, <1>10 DEF InsertAt
<1>13. ASSUME NEW k \in 1 .. n + 1
       PROVE  e[k] = IF k < i THEN s[k] ELSE IF k = i THEN x ELSE s[k - 1]
  <2>1. CASE k < i
    <3>1. k \in 1 .. i /\ k \in 1 .. i - 1
      BY <2>1
    <3>2. QED
      BY <1>3, <1>9, <1>11, <2>1, <3>1
  <2>2. CASE k = i
    <3>1. k \in 1 .. i /\ k - (i - 1) = 1
      BY <2>2
    <3>2. QED
      BY <1>7, <1>9, <1>11, <2>2, <3>1
  <2>3. CASE k > i
    <3>1. k - i \in 1 .. n - i + 1 /\ i + (k - i) - 1 = k - 1
      BY <2>3
    <3>2. e[k] = c[k - i]
      BY <1>11, <2>3
    <3>3. QED
      BY <1>5, <2>3, <3>1, <3>2
  <2>4. QED
    BY <2>1, <2>2, <2>3
<1>14. QED
  BY <1>1, <1>11, <1>12, <1>13

LEMMA OneRemoved ==
    ASSUME NEW X, NEW s \in Seq(X), NEW i \in 1 .. Len(s)
    PROVE  /\ RemoveAt(s, i) \in Seq(X) /\ Len(RemoveAt(s, i)) = Len(s) - 1
           /\ \A k \in 1 .. Len(s) - 1 : RemoveAt(s, i)[k] = IF k < i THEN s[k] ELSE s[k + 1]
<1>1. PICK n \in Nat : n = Len(s) /\ \A k \in 1 .. n : s[k] \in X
  OBVIOUS
<1>2. PICK a : a = SubSeq(s, 1, i - 1)
  OBVIOUS
<1>3. /\ a \in Seq(X) /\ Len(a) = i - 1
      /\ \A k \in 1 .. i - 1 : a[k] = s[k]
  <2>1. 1 \in Int /\ i - 1 \in Int /\ \A k \in 1 .. i - 1 : s[k] \in X
    BY <1>1
  <2>2. /\ SubSeq(s, 1, i - 1) \in Seq(X)
        /\ Len(SubSeq(s, 1, i - 1)) = IF 1 <= i - 1 THEN (i - 1) - 1 + 1 ELSE 0
        /\ \A k \in 1 .. (i - 1) - 1 + 1 : SubSeq(s, 1, i - 1)[k] = s[1 + k - 1]
    BY <2>1, SubSeqProperties
  <2>3. QED
    BY <1>1, <1>2, <2>2
<1>4. PICK c : c = SubSeq(s, i + 1, n)
  OBVIOUS
<1>5. /\ c \in Seq(X) /\ Len(c) = n - i
      /\ \A k \in 1 .. n - i : c[k] = s[i + k]
  <2>1. i + 1 \in Int /\ n \in Int /\ \A k \in i + 1 .. n : s[k] \in X
    BY <1>1
  <2>2. /\ SubSeq(s, i + 1, n) \in Seq(X)
        /\ Len(SubSeq(s, i + 1, n)) = IF i + 1 <= n THEN n - (i + 1) + 1 ELSE 0
        /\ \A k \in 1 .. n - (i + 1) + 1 : SubSeq(s, i + 1, n)[k] = s[(i + 1) + k - 1]
    BY <2>1, SubSeqProperties
  <2>3. n - (i + 1) + 1 = n - i /\ \A k \in 1 .. n - i : (i + 1) + k - 1 = i + k
    BY <1>1
  <2>4. QED
    BY <1>1, <1>4, <2>2, <2>3
<1>6. PICK e : e = a \o c
  OBVIOUS
<1>7. /\ e \in Seq(X) /\ Len(e) = n - 1
      /\ \A k \in 1 .. n - 1 : e[k] = IF k <= i - 1 THEN a[k] ELSE c[k - (i - 1)]
  <2>1. /\ a \o c \in Seq(X) /\ Len(a \o c) = Len(a) + Len(c)
        /\ \A k \in 1 .. Len(a) + Len(c) : (a \o c)[k] = IF k <= Len(a) THEN a[k] ELSE c[k - Len(a)]
    BY <1>3, <1>5, ConcatProperties
  <2>2. QED
    BY <1>1, <1>3, <1>5, <1>6, <2>1
<1>8. RemoveAt(s, i) = e
  BY <1>1, <1>2, <1>4, <1>6 DEF RemoveAt
<1>9. ASSUME NEW k \in 1 .. n - 1 PROVE e[k] = IF k < i THEN s[k] ELSE s[k + 1]
  <2>1. CASE k < i
    <3>1. k \in 1 .. i - 1
      BY <2>1
    <3>2. QED
      BY <1>3, <1>7, <2>1, <3>1
  <2>2. CASE ~(k < i)
    <3>1. k - (i - 1) \in 1 .. n - i /\ i + (k - (i - 1)) = k + 1 /\ ~(k <= i - 1)
      BY <2>2
    <3>2. e[k] = c[k - (i - 1)]
      BY <1>7, <3>1
    <3>3. QED
      BY <1>5, <2>2, <3>1, <3>2
  <2>3. QED
    BY <2>1, <2>2
<1>10. QED
  BY <1>1, <1>7, <1>8, <1>9

\* A text whose lines come from another's, each from one of its own, but for lines that
\* are not of the block.
LEMMA SaneFrom ==
    ASSUME NEW text, Sane(text), NEW new \in Seq(AnyLine), NEW h, NEW n \in Nat, n = Len(new),
           \A k \in 1 .. n : \/ h[k] \in DOMAIN text /\ new[k] = text[h[k]]
                             \/ new[k] \notin Ours /\ (format # "toml" => new[k] \notin Headings),
           \A j, k \in 1 .. n : h[j] = h[k] => j = k
    PROVE  Sane(new)
<1>1. DOMAIN new = 1 .. n /\ \A x \in ToSet(new) : \E k \in 1 .. n : new[k] = x
  BY Indices
<1>2. \A i, j \in DOMAIN text : text[i] \in Ours /\ text[j] \in Ours => i = j
  BY DEF Sane
<1>3. \A i, j \in 1 .. n : new[i] \in Ours /\ new[j] \in Ours => i = j
  BY <1>2
<1>4. format # "toml" => \A i \in DOMAIN text : text[i] \notin Headings
  BY DEF Sane, ToSet
<1>5. format # "toml" => \A k \in 1 .. n : new[k] \notin Headings
  BY <1>4
<1>6. QED
  BY <1>1, <1>3, <1>5 DEF Sane

LEMMA UserKept ==
    ASSUME IntegrationTypeOK, UserEdits
    PROVE  IntegrationTypeOK'
<1>1. /\ Sane(Lines) /\ format \in Formats
      /\ created \in BOOLEAN /\ maker \in Makers /\ (created => maker # "user")
  BY SaneLines
<1>2. /\ UNCHANGED <<format, created>> /\ author' = "user"
      /\ maker' = IF file = Absent /\ maker = "harness" THEN "again" ELSE maker
  BY DEF UserEdits
<1>02. maker' \in Makers /\ (created' => maker' # "user")
  BY <1>1, <1>2 DEF Makers
<1>3. PICK text : text = Lines
  OBVIOUS
<1>4. PICK n \in Nat : n = Len(text) /\ DOMAIN text = 1 .. n /\ text \in Seq(AnyLine)
  BY <1>1, <1>3, Indices DEF Sane
<1>5. CASE \E line \in {"key", "note"} \cup (IF format = "toml" THEN Headings ELSE {}),
               i \in 1 .. Len(Lines) + 1 :
              Len(OfUser(Lines)) < MaxLines /\ file' = InsertAt(Lines, i, line)
  <2>1. PICK line \in {"key", "note"} \cup (IF format = "toml" THEN Headings ELSE {}),
             i \in 1 .. n + 1 : file' = InsertAt(text, i, line)
    BY <1>3, <1>4, <1>5
  <2>2. line \in AnyLine /\ line \notin Ours /\ (format # "toml" => line \notin Headings)
    BY DEF AnyLine, Ours, Headings
  <2>3. PICK new : new = InsertAt(text, i, line)
    OBVIOUS
  <2>4. /\ new \in Seq(AnyLine) /\ Len(new) = n + 1
        /\ \A k \in 1 .. n + 1 : new[k] = IF k < i THEN text[k] ELSE IF k = i THEN line ELSE text[k - 1]
    BY <1>4, <2>2, <2>3, Inserted
  <2>5. PICK h : h = [k \in 1 .. n + 1 |-> IF k < i THEN k ELSE IF k = i THEN 0 ELSE k - 1]
    OBVIOUS
  <2>6. \A k \in 1 .. n + 1 : h[k] = IF k < i THEN k ELSE IF k = i THEN 0 ELSE k - 1
    BY <2>5
  <2>7. \A k \in 1 .. n + 1 : \/ h[k] \in DOMAIN text /\ new[k] = text[h[k]]
                              \/ new[k] \notin Ours /\ (format # "toml" => new[k] \notin Headings)
    BY <1>4, <2>2, <2>4, <2>6
  <2>8. \A j, k \in 1 .. n + 1 : h[j] = h[k] => j = k
    BY <2>6
  <2>9. n + 1 \in Nat /\ Sane(text)
    BY <1>1, <1>3
  <2>10. Sane(new)
    BY <2>4, <2>7, <2>8, <2>9, SaneFrom
  <2>11. QED
    BY <1>1, <1>2, <1>02, <2>1, <2>3, <2>10, TypeAfter
<1>6. CASE \E i \in DOMAIN Lines : file' = RemoveAt(Lines, i)
  <2>1. PICK i \in 1 .. n : file' = RemoveAt(text, i)
    BY <1>3, <1>4, <1>6
  <2>2. PICK new : new = RemoveAt(text, i)
    OBVIOUS
  <2>3. /\ new \in Seq(AnyLine) /\ Len(new) = n - 1
        /\ \A k \in 1 .. n - 1 : new[k] = IF k < i THEN text[k] ELSE text[k + 1]
    BY <1>4, <2>2, OneRemoved
  <2>4. PICK h : h = [k \in 1 .. n - 1 |-> IF k < i THEN k ELSE k + 1]
    OBVIOUS
  <2>5. \A k \in 1 .. n - 1 : h[k] = IF k < i THEN k ELSE k + 1
    BY <2>4
  <2>6. \A k \in 1 .. n - 1 : h[k] \in DOMAIN text /\ new[k] = text[h[k]]
    BY <1>4, <2>3, <2>5
  <2>7. \A j, k \in 1 .. n - 1 : h[j] = h[k] => j = k
    BY <2>5
  <2>8. n - 1 \in Nat /\ Sane(text)
    BY <1>1, <1>3
  <2>9. Sane(new)
    BY <2>3, <2>6, <2>7, <2>8, SaneFrom
  <2>10. QED
    BY <1>1, <1>2, <1>02, <2>1, <2>2, <2>9, TypeAfter
<1>7. CASE file # Absent /\ file' = Absent
  BY <1>1, <1>2, <1>02, <1>7, TypeAfter
<1>8. QED
  BY <1>5, <1>6, <1>7 DEF UserEdits

-----------------------------------------------------------------------------
LEMMA IntegrationStep ==
    ASSUME IntegrationTypeOK, [IntegrationNext]_agentVars
    PROVE  /\ IntegrationTypeOK'
           /\ [author' # "user" => Respects]_agentVars
<1>1. CASE apply_agent
  BY <1>1, ApplyKept
<1>2. CASE disable_agent
  BY <1>2, DisableKept
<1>3. CASE restore_agent
  BY <1>3, RestoreKept
<1>4. CASE UserEdits
  <2>1. author' = "user"
    BY <1>4 DEF UserEdits
  <2>2. QED
    BY <1>4, <2>1, UserKept
<1>5. CASE UNCHANGED agentVars
  BY <1>5 DEF agentVars, IntegrationTypeOK
<1>6. QED
  BY <1>1, <1>2, <1>3, <1>4, <1>5 DEF IntegrationNext

\* A file is absent or lines, with one block of the harness at most
\* (agent/integrations.py).
THEOREM IntegrationTypeCorrect == IntegrationSpec => []IntegrationTypeOK
<1>1. IntegrationInit => IntegrationTypeOK
  BY DEF IntegrationInit, IntegrationTypeOK
<1>2. IntegrationTypeOK /\ [IntegrationNext]_agentVars => IntegrationTypeOK'
  BY IntegrationStep
<1>3. QED
  BY <1>1, <1>2, PTL DEF IntegrationSpec

\* The lines of the user survive the harness, whatever is put in, switched off and taken
\* out of files of any length, and however the user edits them in between
\* (apply_agent, disable_agent and restore_agent of agent/integrations.py).
THEOREM LinesAlwaysSurvive == IntegrationSpec => UserLinesSurvive
<1>1. IntegrationTypeOK /\ [IntegrationNext]_agentVars => [author' # "user" => Respects]_agentVars
  BY IntegrationStep
<1>2. QED
  BY <1>1, IntegrationTypeCorrect, PTL DEF IntegrationSpec, UserLinesSurvive, Respects
=============================================================================
