-------------------------- MODULE ReviewSessionProofs --------------------------
(***************************************************************************)
(* Theorems about the review session (ReviewSession.tla), for any number   *)
(* of turns, of cancel requests, of tool rounds and of candidates.         *)
(***************************************************************************)
EXTENDS ReviewSession, SequenceTheorems, FiniteSetTheorems, TLAPS

Row == [kind : EventKind, text : SUBSET Rounds]

-----------------------------------------------------------------------------
(* Type correctness.  The bound on the audit rows needs the bound on the   *)
(* rounds: a payload is prepared only while rounds are left, and each      *)
(* round prepares one.                                                     *)

StateTypeOK ==
    /\ status \in SessionStatus
    /\ cancel \in BOOLEAN
    /\ shown \in [Turns -> SUBSET Rounds] /\ sent \in [Turns -> SUBSET Rounds]
    /\ stopped \subseteq Turns
    /\ recovered \in Nat

ThreadTypeOK ==
    /\ pc \in [Requests -> TurnPC \cup CancelPC]
    /\ turn \in [Turns -> Local]
    /\ audits \in [Turns -> Nat]
    /\ log \in [Requests -> Seq(Row)]

Fresh == {"new", "resume", "clear", "ask", "mark", "announce", "route"}

\* What the place of a turn says of its rounds: none before the first payload,
\* one left when it is about to prepare a payload, and each with its row as long as
\* one may follow or its payload may go out; and where an event it has yielded sends
\* it.
Fits(place, local, rows) ==
    /\ rows <= local.round
    /\ \/ place \in {"prepare", "attempt", "stream", "call", "run"}
       \/ place = "say" /\ local.next = "stream"
       \/ place = "deliver" /\ local.next \in {"run", "prepare"}
       => rows = local.round
    /\ place \in Fresh => local.round = 0
    /\ place = "prepare" => local.round < MAX_TOOL_ROUNDS
    /\ place = "say" => local.next \in {"stream", "answer"}
    /\ place = "deliver" => local.next \in {"run", "prepare", "settle", "answer", "end"}
    /\ place = "deliver" /\ local.next = "prepare" => local.round < MAX_TOOL_ROUNDS

TypeInv ==
    /\ StateTypeOK
    /\ ThreadTypeOK
    /\ \A t \in Turns : Fits(pc[t], turn[t], audits[t])

LEMMA NewLocalType == NewLocal \in Local /\ NewLocal.round = 0
  BY SessionAssumption DEF NewLocal, Local, Rounds, TurnPC, Ended

LEMMA InitTypeInv == Init => TypeInv
<1> SUFFICES ASSUME Init PROVE TypeInv
  OBVIOUS
<1>1. StateTypeOK
  BY DEF Init, StateTypeOK, SessionStatus
<1>2. ThreadTypeOK
  BY NewLocalType DEF Init, ThreadTypeOK, TurnPC, Requests
<1>3. \A t \in Turns : Fits(pc[t], turn[t], audits[t])
  BY SessionAssumption, NewLocalType DEF Init, Fits, Requests
<1>4. QED
  BY <1>1, <1>2, <1>3 DEF TypeInv

\* One more row keeps a well-formed log.
LEMMA AppendedLog ==
    ASSUME log \in [Requests -> Seq(Row)], NEW r \in Requests,
           NEW kind \in EventKind, NEW text \in SUBSET Rounds
    PROVE  [log EXCEPT ![r] = Append(@, Entry(kind, text))] \in [Requests -> Seq(Row)]
<1>1. Entry(kind, text) \in Row
  BY DEF Entry, Row
<1>2. Append(log[r], Entry(kind, text)) \in Seq(Row)
  BY <1>1
<1>3. QED
  BY <1>2

\* A turn's thread that goes to a place its rounds fit keeps the invariant.
LEMMA ThreadMoves ==
    ASSUME TypeInv, NEW t \in Turns, NEW place \in TurnPC, NEW local \in Local,
           NEW rows \in Nat, Fits(place, local, rows),
           Goes(t, place),
           turn' = [turn EXCEPT ![t] = local],
           audits' = [audits EXCEPT ![t] = rows],
           log' \in [Requests -> Seq(Row)],
           StateTypeOK'
    PROVE  TypeInv'
<1>1. t \in Requests
  BY DEF Requests
<1>2. ThreadTypeOK'
  BY <1>1 DEF TypeInv, ThreadTypeOK, Goes
<1>3. ASSUME NEW u \in Turns
      PROVE  Fits(pc'[u], turn'[u], audits'[u])
  <2>1. u \in Requests
    BY DEF Requests
  <2>2. CASE u = t
    BY <2>1, <2>2 DEF TypeInv, ThreadTypeOK, Goes
  <2>3. CASE u # t
    <3>1. pc'[u] = pc[u] /\ turn'[u] = turn[u] /\ audits'[u] = audits[u]
      BY <2>1, <2>3 DEF TypeInv, ThreadTypeOK, Goes
    <3>2. QED
      BY <3>1 DEF TypeInv
  <2>4. QED
    BY <2>2, <2>3
<1>4. QED
  BY <1>2, <1>3 DEF TypeInv, Fits

\* The same when only its place changes.
LEMMA ThreadGoes ==
    ASSUME TypeInv, NEW t \in Turns, NEW place \in TurnPC,
           Fits(place, turn[t], audits[t]), Goes(t, place),
           UNCHANGED <<turn, audits>>,
           log' \in [Requests -> Seq(Row)],
           StateTypeOK'
    PROVE  TypeInv'
<1>1. /\ turn[t] \in Local /\ audits[t] \in Nat
      /\ turn' = [turn EXCEPT ![t] = turn[t]]
      /\ audits' = [audits EXCEPT ![t] = audits[t]]
  BY DEF TypeInv, ThreadTypeOK
<1>2. QED
  BY <1>1, ThreadMoves, Zenon

\* A row more, and the thread goes on.
LEMMA append_eventType ==
    ASSUME TypeInv, NEW t \in Turns, NEW place \in TurnPC,
           NEW kind \in EventKind, NEW text \in SUBSET Rounds,
           Fits(place, turn[t], audits[t]), append_event(t, kind, text, place)
    PROVE  TypeInv'
<1>1. log' \in [Requests -> Seq(Row)]
  BY AppendedLog DEF append_event, TypeInv, ThreadTypeOK, Requests
<1>2. StateTypeOK'
  BY DEF append_event, TypeInv, StateTypeOK
<1>3. QED
  BY <1>1, <1>2, ThreadGoes DEF append_event

LEMMA update_sessionType ==
    ASSUME TypeInv, NEW t \in Turns, NEW place \in TurnPC, NEW s \in SessionStatus,
           Fits(place, turn[t], audits[t]), update_session(t, s, place)
    PROVE  TypeInv'
<1>1. StateTypeOK'
  BY DEF update_session, TypeInv, StateTypeOK
<1>2. QED
  BY <1>1, ThreadGoes DEF update_session, TypeInv, ThreadTypeOK

LEMMA OnlyType ==
    ASSUME TypeInv, NEW t \in Turns, NEW place \in TurnPC, NEW local \in Local,
           Fits(place, local, audits[t]), Only(t, place),
           turn' = [turn EXCEPT ![t] = local]
    PROVE  TypeInv'
<1>1. StateTypeOK'
  BY DEF Only, TypeInv, StateTypeOK
<1>2. audits[t] \in Nat /\ audits' = [audits EXCEPT ![t] = audits[t]]
  BY DEF Only, TypeInv, ThreadTypeOK
<1>3. QED
  BY <1>1, <1>2, ThreadMoves DEF Only, TypeInv, ThreadTypeOK

\* A row more and locals rewritten.
LEMMA SpokenType ==
    ASSUME TypeInv, NEW t \in Turns, NEW place \in TurnPC, NEW local \in Local,
           NEW kind \in EventKind, Fits(place, local, audits[t]), Goes(t, place),
           turn' = [turn EXCEPT ![t] = local],
           log' = [log EXCEPT ![t] = Append(@, Entry(kind, {}))],
           UNCHANGED <<status, cancel, audits, sent, shown, stopped, recovered>>
    PROVE  TypeInv'
<1>1. StateTypeOK'
  BY DEF TypeInv, StateTypeOK
<1>2. log' \in [Requests -> Seq(Row)]
  BY AppendedLog DEF TypeInv, ThreadTypeOK, Requests
<1>3. audits[t] \in Nat /\ audits' = [audits EXCEPT ![t] = audits[t]]
  BY DEF TypeInv, ThreadTypeOK
<1>4. QED
  BY <1>1, <1>2, <1>3, ThreadMoves

\* What rewriting one local does to a turn's locals.
LEMMA LocalUpdates ==
    ASSUME NEW l \in Local
    PROVE  /\ l.round \in Rounds /\ l.said \subseteq Rounds /\ l.next \in TurnPC
           /\ \A n \in TurnPC : LET m == [l EXCEPT !.next = n]
                                IN  m \in Local /\ m.round = l.round /\ m.next = n
           /\ \A k \in Rounds : LET m == [l EXCEPT !.round = k]
                                IN  m \in Local /\ m.round = k /\ m.next = l.next
           /\ \A S \in SUBSET Rounds : LET m == [l EXCEPT !.said = S]
                                IN  m \in Local /\ m.round = l.round /\ m.next = l.next
           /\ \A c \in 0..CHAIN : LET m == [l EXCEPT !.target = c]
                                IN  /\ m \in Local /\ m.round = l.round
                                    /\ m.next = l.next /\ m.said = l.said
           /\ LET m == [l EXCEPT !.direct = TRUE]
              IN  m \in Local /\ m.round = l.round /\ m.next = l.next
  BY DEF Local

\* Only where its event sends it is rewritten.
LEMMA LocalSent ==
    ASSUME NEW l \in Local, NEW n \in TurnPC
    PROVE  /\ [l EXCEPT !.next = n] \in Local
           /\ [l EXCEPT !.next = n].round = l.round
           /\ [l EXCEPT !.next = n].next = n
  BY DEF Local

\* Rounds are counted from 0 to the limit.
LEMMA RoundsCount ==
    /\ Rounds \subseteq Nat
    /\ 0 \in Rounds
    /\ \A k \in Rounds : k < MAX_TOOL_ROUNDS => k + 1 \in Rounds
  BY SessionAssumption DEF Rounds

LEMMA TurnStepType ==
    ASSUME TypeInv, NEW t \in Turns, TurnStep(t)
    PROVE  TypeInv'
<1> DEFINE l == turn[t]
<1>1. /\ l \in Local /\ audits[t] \in Nat /\ pc[t] \in TurnPC \cup CancelPC
      /\ turn = [turn EXCEPT ![t] = l]
  BY DEF TypeInv, ThreadTypeOK, Requests
<1>2. Fits(pc[t], l, audits[t])
  BY DEF TypeInv
<1>3. /\ l.round \in Rounds /\ l.said \in SUBSET Rounds /\ l.next \in TurnPC
      /\ l.round \in Nat
  BY <1>1, LocalUpdates, RoundsCount, Zenon
<1> USE DEF TurnPC, Ended, Fresh
<1>4. CASE NoteResume(t)
  BY <1>2, <1>4, append_eventType DEF NoteResume, Fits, EventKind
<1>5. CASE ClearCancel(t)
  <2>1. StateTypeOK'
    BY <1>5 DEF ClearCancel, TypeInv, StateTypeOK
  <2>2. log' \in [Requests -> Seq(Row)]
    BY <1>5 DEF ClearCancel, TypeInv, ThreadTypeOK
  <2>3. CASE l.asks
    BY <1>2, <1>5, <2>1, <2>2, <2>3, ThreadGoes DEF ClearCancel, Fits
  <2>4. CASE ~l.asks
    BY <1>2, <1>5, <2>1, <2>2, <2>4, ThreadGoes DEF ClearCancel, Fits
  <2>5. QED
    BY <2>3, <2>4
<1>6. CASE AskUser(t)
  <2>1. CASE l.kind = "preview"
    BY <1>2, <1>6, <2>1, append_eventType DEF AskUser, Fits, EventKind
  <2>2. CASE l.kind # "preview"
    BY <1>2, <1>6, <2>2, append_eventType DEF AskUser, Fits, EventKind
  <2>3. QED
    BY <2>1, <2>2
<1>7. CASE MarkRunning(t)
  BY <1>2, <1>7, update_sessionType DEF MarkRunning, Fits, SessionStatus
<1>8. CASE Announce(t)
  BY <1>2, <1>8, append_eventType DEF Announce, Fits, EventKind
<1>9. CASE Route(t)
  <2>1. CASE turn' = turn /\ Only(t, "prepare")
    BY <1>1, <1>2, <1>9, <2>1, OnlyType, SessionAssumption DEF Route, Fits
  <2>2. CASE turn' = turn /\ Only(t, "fail")
    BY <1>1, <1>2, <2>2, OnlyType DEF Fits
  <2>3. CASE /\ turn' = [turn EXCEPT ![t].direct = TRUE, ![t].said = {0},
                                     ![t].next = "answer"]
             /\ Only(t, "say")
    <3> DEFINE m == [l EXCEPT !.direct = TRUE, !.said = {0}, !.next = "answer"]
    <3>1. m \in Local /\ m.round = l.round /\ m.next = "answer"
      BY <1>1, RoundsCount DEF Local
    <3>2. turn' = [turn EXCEPT ![t] = m]
      BY <1>1, <2>3 DEF TypeInv, ThreadTypeOK
    <3> HIDE DEF m
    <3>3. Fits("say", m, audits[t])
      BY <1>2, <3>1 DEF Fits
    <3>4. QED
      BY <2>3, <3>1, <3>2, <3>3, OnlyType
  <2>4. QED
    BY <1>9, <2>1, <2>2, <2>3 DEF Route
<1>10. CASE Prepare(t)
  <2>1. StateTypeOK' /\ log' \in [Requests -> Seq(Row)]
    BY <1>10 DEF Prepare, TypeInv, StateTypeOK, ThreadTypeOK
  <2>2. l.round < MAX_TOOL_ROUNDS /\ l.round + 1 \in Rounds /\ audits[t] = l.round
    BY <1>2, <1>3, <1>10, RoundsCount DEF Prepare, Fits
  <2>3. CASE /\ turn' = [turn EXCEPT ![t].round = @ + 1]
             /\ audits' = [audits EXCEPT ![t] = @ + 1]
             /\ Goes(t, "attempt")
    <3> DEFINE m == [l EXCEPT !.round = l.round + 1]
    <3>1. m \in Local /\ m.round = l.round + 1
      BY <1>1, <2>2, LocalUpdates, Zenon
    <3>2. turn' = [turn EXCEPT ![t] = m]
      BY <2>3
    <3> HIDE DEF m
    <3>3. audits[t] + 1 \in Nat /\ audits[t] + 1 = l.round + 1
      BY <1>1, <1>3, <2>2
    <3>4. Fits("attempt", m, audits[t] + 1)
      BY <1>3, <3>1, <3>3 DEF Fits
    <3>5. QED
      BY <2>1, <2>3, <3>1, <3>2, <3>3, <3>4, ThreadMoves
  <2>4. CASE /\ turn' = [turn EXCEPT ![t].round = @ + 1, ![t].next = "deliver"]
             /\ Goes(t, "fail")
             /\ UNCHANGED audits
    <3> DEFINE k == [l EXCEPT !.round = l.round + 1]
               m == [k EXCEPT !.next = "deliver"]
    <3>1. k \in Local /\ k.round = l.round + 1
      BY <1>1, <2>2, LocalUpdates, Zenon
    <3>2. m \in Local /\ m.round = l.round + 1
      BY <3>1, LocalUpdates
    <3>3. turn' = [turn EXCEPT ![t] = m]
      BY <1>1, <2>4 DEF TypeInv, ThreadTypeOK
    <3> HIDE DEF m, k
    <3>4. Fits("fail", m, audits[t])
      BY <1>1, <1>3, <2>2, <3>2 DEF Fits
    <3>5. audits' = [audits EXCEPT ![t] = audits[t]]
      BY <2>4 DEF TypeInv, ThreadTypeOK
    <3>6. QED
      BY <1>1, <2>1, <2>4, <3>2, <3>3, <3>4, <3>5, ThreadMoves
  <2>5. QED
    BY <1>10, <2>3, <2>4 DEF Prepare
<1>11. CASE Attempt(t)
  BY <1>2, <1>11, append_eventType DEF Attempt, Fits, EventKind
<1>12. CASE Stream(t)
  <2>0. audits[t] = l.round
    BY <1>2, <1>12 DEF Stream, Fits
  <2>02. 0 \in 0..CHAIN
    BY SessionAssumption
  <2>1. CASE /\ turn' = [turn EXCEPT ![t].said = @ \cup {l.round}, ![t].next = "stream"]
             /\ Only(t, "say")
    <3> DEFINE k == [l EXCEPT !.said = l.said \cup {l.round}]
               m == [k EXCEPT !.next = "stream"]
    <3>0. l.said \cup {l.round} \in SUBSET Rounds
      BY <1>3
    <3>1. k \in Local /\ k.round = l.round
      BY <1>1, <3>0, LocalUpdates, Zenon
    <3>2. turn' = [turn EXCEPT ![t] = m]
      BY <1>1, <2>1 DEF TypeInv, ThreadTypeOK
    <3> HIDE DEF k
    <3>3. m \in Local /\ m.round = k.round /\ m.next = "stream"
      BY <3>1 DEF Local
    <3> HIDE DEF m
    <3>4. Fits("say", m, audits[t])
      BY <1>2, <2>0, <3>1, <3>3 DEF Fits
    <3>5. QED
      BY <2>1, <3>2, <3>3, <3>4, OnlyType
  <2> DEFINE over == [l EXCEPT !.target = 0]
  <2>2. over \in Local /\ over.round = l.round /\ over.next = l.next /\ over.said = l.said
    BY <1>1, <2>02, LocalUpdates
  <2>3. ASSUME NEW to \in TurnPC, StreamOver(t, to)
        PROVE  turn' = [turn EXCEPT ![t] = over] /\ Only(t, to)
    BY <2>3 DEF StreamOver
  <2>4. CASE StreamOver(t, "call")
    <3>1. pc[t] = "stream"
      BY <1>12 DEF Stream
    <3> HIDE DEF over
    <3>2. Fits("call", over, audits[t])
      BY <1>2, <2>2, <3>1 DEF Fits
    <3>3. turn' = [turn EXCEPT ![t] = over] /\ Only(t, "call")
      BY <2>3, <2>4
    <3>4. QED
      BY <2>2, <3>2, <3>3, OnlyType
  <2>5. CASE StreamOver(t, IF l.said = {} THEN "settle" ELSE "answer")
    <3> DEFINE to == IF l.said = {} THEN "settle" ELSE "answer"
    <3>1. turn' = [turn EXCEPT ![t] = over] /\ Only(t, to)
      BY <2>3, <2>5
    <3>2. to \in {"settle", "answer"} /\ to \in TurnPC
      OBVIOUS
    <3> HIDE DEF over, to
    <3>3. Fits(to, over, audits[t])
      BY <1>2, <2>2, <3>2 DEF Fits
    <3>4. QED
      BY <2>2, <3>1, <3>2, <3>3, OnlyType
  <2>6. CASE turn' = [turn EXCEPT ![t].next = "end", ![t].target = 0] /\ Only(t, "report")
    <3> DEFINE k == [l EXCEPT !.next = "end"]
               m == [k EXCEPT !.target = 0]
    <3>0. k \in Local /\ k.round = l.round
      BY <1>1, LocalUpdates
    <3>1. m \in Local /\ m.round = l.round
      BY <2>02, <3>0, LocalUpdates
    <3>2. turn' = [turn EXCEPT ![t] = m]
      BY <1>1, <2>6 DEF TypeInv, ThreadTypeOK
    <3> HIDE DEF m, k
    <3>3. QED
      BY <1>2, <2>6, <3>1, <3>2, OnlyType DEF Fits
  <2>7. QED
    BY <1>12, <2>1, <2>4, <2>5, <2>6 DEF Stream
<1>13. CASE ToolCall(t)
  <2> DEFINE m == [l EXCEPT !.next = "run"]
  <2>1. m \in Local /\ m.round = l.round /\ m.next = "run"
    <3>1. "run" \in TurnPC
      OBVIOUS
    <3>2. QED
      BY <1>1, <3>1, LocalSent, Zenon
  <2>2. turn' = [turn EXCEPT ![t] = m]
    BY <1>13 DEF ToolCall
  <2> HIDE DEF m
  <2>3. Fits("deliver", m, audits[t])
    BY <1>2, <1>13, <2>1 DEF Fits, ToolCall
  <2>4. QED
    BY <1>1, <1>13, <2>1, <2>2, <2>3, SpokenType DEF ToolCall, EventKind
<1>14. CASE ToolResult(t)
  <2> DEFINE n == IF l.round < MAX_TOOL_ROUNDS THEN "prepare"
                  ELSE IF l.said = {} THEN "settle" ELSE "answer"
             m == [l EXCEPT !.next = n]
  <2>1. n \in {"prepare", "settle", "answer"} /\ (n = "prepare" => l.round < MAX_TOOL_ROUNDS)
    OBVIOUS
  <2>2. turn' = [turn EXCEPT ![t] = m]
    BY <1>14 DEF ToolResult
  <2> HIDE DEF n
  <2>3. m \in Local /\ m.round = l.round /\ m.next = n
    BY <1>1, <2>1, LocalUpdates
  <2> HIDE DEF m
  <2>4. Fits("deliver", m, audits[t])
    BY <1>2, <1>14, <2>1, <2>3 DEF Fits, ToolResult
  <2>5. QED
    BY <1>1, <1>14, <2>2, <2>3, <2>4, SpokenType DEF ToolResult, EventKind
<1>15. CASE Say(t)
  <2> DEFINE p == l.next
  <2>1. StateTypeOK'
    BY <1>3, <1>15 DEF Say, TypeInv, StateTypeOK
  <2>2. Fits(p, l, audits[t])
    BY <1>2, <1>15 DEF Say, Fits
  <2>3. p \in TurnPC /\ Goes(t, p)
    BY <1>3, <1>15 DEF Say
  <2>4. UNCHANGED <<turn, audits>> /\ log' \in [Requests -> Seq(Row)]
    BY <1>15 DEF Say, TypeInv, ThreadTypeOK
  <2> HIDE DEF p
  <2>5. QED
    BY <2>1, <2>2, <2>3, <2>4, ThreadGoes
<1>16. CASE Deliver(t)
  <2> DEFINE p == l.next
  <2>1. Fits(p, l, audits[t])
    BY <1>2, <1>16 DEF Deliver, Fits
  <2>2. p \in TurnPC /\ Only(t, p) /\ turn' = [turn EXCEPT ![t] = l]
    BY <1>1, <1>3, <1>16 DEF Deliver
  <2> HIDE DEF p
  <2>3. QED
    BY <1>1, <2>1, <2>2, OnlyType
<1>17. CASE NoticeCancel(t)
  BY <1>1, <1>2, <1>17, OnlyType DEF NoticeCancel, Fits
<1>18. CASE Report(t)
  BY <1>1, <1>2, <1>18, OnlyType DEF Report, Fits
<1>19. CASE Answer(t)
  BY <1>2, <1>3, <1>19, append_eventType DEF Answer, Fits, EventKind
<1>20. CASE Complete(t)
  BY <1>2, <1>20, append_eventType DEF Complete, Fits, EventKind
<1>21. CASE Settle(t)
  BY <1>2, <1>21, update_sessionType DEF Settle, Fits, SessionStatus
<1>22. CASE Terminate(t)
  <2> DEFINE m == [l EXCEPT !.next = "end"]
  <2>1. m \in Local /\ m.round = l.round /\ m.next = "end"
    <3>1. "end" \in TurnPC
      OBVIOUS
    <3>2. QED
      BY <1>1, <3>1, LocalSent, Zenon
  <2>2. turn' = [turn EXCEPT ![t] = m]
    BY <1>22 DEF Terminate
  <2> HIDE DEF m
  <2>3. Fits("deliver", m, audits[t]) /\ Fits("end", m, audits[t])
    BY <1>2, <2>1 DEF Fits
  <2>4. CASE Goes(t, "deliver")
    BY <1>1, <1>22, <2>1, <2>2, <2>3, <2>4, SpokenType DEF Terminate, EventKind
  <2>5. CASE Goes(t, "end")
    BY <1>1, <1>22, <2>1, <2>2, <2>3, <2>5, SpokenType DEF Terminate, EventKind
  <2>6. QED
    BY <1>22, <2>4, <2>5 DEF Terminate
<1>23. CASE CancelTurn(t)
  BY <1>2, <1>23, append_eventType DEF CancelTurn, Fits, EventKind
<1>24. CASE MarkCancelled(t)
  BY <1>2, <1>24, update_sessionType DEF MarkCancelled, Fits, SessionStatus
<1>25. CASE Fail(t)
  BY <1>2, <1>25, append_eventType DEF Fail, Fits, EventKind
<1>26. CASE MarkError(t)
  <2> DEFINE m == [l EXCEPT !.next = "end"]
             p == IF l.next = "deliver" THEN "deliver" ELSE "end"
  <2>1. m \in Local /\ m.round = l.round /\ m.next = "end"
    <3>1. "end" \in TurnPC
      OBVIOUS
    <3>2. QED
      BY <1>1, <3>1, LocalSent, Zenon
  <2>2. turn' = [turn EXCEPT ![t] = m]
    BY <1>26 DEF MarkError
  <2> HIDE DEF m
  <2>3. p \in {"deliver", "end"} /\ Goes(t, p)
    BY <1>26 DEF MarkError
  <2> HIDE DEF p
  <2>4. Fits(p, m, audits[t])
    BY <1>2, <2>1, <2>3 DEF Fits
  <2>5. StateTypeOK' /\ log' \in [Requests -> Seq(Row)]
    BY <1>26 DEF MarkError, TypeInv, StateTypeOK, ThreadTypeOK, SessionStatus
  <2>6. audits' = [audits EXCEPT ![t] = audits[t]]
    BY <1>26 DEF MarkError, TypeInv, ThreadTypeOK
  <2>7. QED
    BY <1>1, <2>1, <2>2, <2>3, <2>4, <2>5, <2>6, ThreadMoves
<1>261. CASE SendPayload(t)
  <2>1. PICK c \in 1..CHAIN : turn' = [turn EXCEPT ![t].target = c]
    BY <1>261 DEF SendPayload
  <2> DEFINE m == [l EXCEPT !.target = c]
  <2>2. c \in 0..CHAIN
    BY SessionAssumption
  <2>3. m \in Local /\ m.round = l.round /\ m.next = l.next
    BY <1>1, <2>2, LocalUpdates
  <2>4. turn' = [turn EXCEPT ![t] = m]
    BY <2>1
  <2> HIDE DEF m
  <2>5. /\ pc[t] = "stream" /\ UNCHANGED <<status, cancel, pc, log, audits, shown, stopped, recovered>>
        /\ sent' = [sent EXCEPT ![t] = sent[t] \cup {l.round}]
    BY <1>261 DEF SendPayload
  <2>6. StateTypeOK'
    <3>1. sent[t] \cup {l.round} \in SUBSET Rounds /\ sent \in [Turns -> SUBSET Rounds]
      BY <1>3 DEF TypeInv, StateTypeOK
    <3>2. sent' \in [Turns -> SUBSET Rounds]
      BY <2>5, <3>1
    <3>3. QED
      BY <2>5, <3>2 DEF TypeInv, StateTypeOK
  <2>7. Fits("stream", m, audits[t])
    BY <1>2, <2>3, <2>5 DEF Fits
  <2>8. /\ Goes(t, "stream") /\ audits' = [audits EXCEPT ![t] = audits[t]]
        /\ log' \in [Requests -> Seq(Row)]
    BY <2>5 DEF Goes, TypeInv, ThreadTypeOK
  <2>9. QED
    BY <1>1, <2>3, <2>4, <2>6, <2>7, <2>8, ThreadMoves
<1>27. QED
  BY <1>261, <1>4, <1>5, <1>6, <1>7, <1>8, <1>9, <1>10, <1>11, <1>12, <1>13, <1>14,
     <1>15, <1>16, <1>17, <1>18, <1>19, <1>20, <1>21, <1>22, <1>23, <1>24,
     <1>25, <1>26 DEF TurnStep

\* A request comes in: the turn starts from fresh locals.
LEMMA BeginsType ==
    ASSUME TypeInv, NEW t \in Turns, NEW kind \in {"message", "resume", "preview"},
           NEW asks \in BOOLEAN, NEW place \in {"clear", "resume"},
           Begins(t, kind, asks, place)
    PROVE  TypeInv'
<1> DEFINE m == [NewLocal EXCEPT !.kind = kind, !.asks = asks]
<1>1. m \in Local /\ m.round = 0
  BY NewLocalType DEF Local
<1>2. turn' = [turn EXCEPT ![t] = m] /\ pc[t] = "new" /\ Only(t, place)
  BY DEF Begins
<1> HIDE DEF m
<1>3. audits[t] \in Nat /\ audits[t] <= turn[t].round /\ turn[t].round = 0
  BY <1>2 DEF TypeInv, ThreadTypeOK, Fits, Fresh
<1>4. Fits(place, m, audits[t])
  BY <1>1, <1>3 DEF Fits
<1>5. place \in TurnPC
  BY DEF TurnPC
<1>6. QED
  BY <1>1, <1>2, <1>4, <1>5, OnlyType

\* The other steps touch no turn's rounds.
LEMMA CancelStepType ==
    ASSUME TypeInv, NEW c \in Cancels, RequestCancel(c) \/ CancelStep(c)
    PROVE  TypeInv'
<1>1. c \in Requests /\ \A t \in Turns : t \in Requests /\ t # c
  BY SessionAssumption DEF Requests
<1>2. StateTypeOK' /\ UNCHANGED <<turn, audits>>
  BY DEF TypeInv, StateTypeOK, RequestCancel, CancelStep, SetCancel, NoteCancel,
         MarkCancelRequested, Only, append_event, update_session, SessionStatus, Live
<1>3. \E p \in CancelPC : Goes(c, p)
  BY DEF CancelPC, RequestCancel, CancelStep, SetCancel, NoteCancel,
         MarkCancelRequested, Only, append_event, update_session
<1>4. log' \in [Requests -> Seq(Row)]
  <2>1. CASE NoteCancel(c)
    BY <1>1, <2>1, AppendedLog DEF NoteCancel, append_event, TypeInv, ThreadTypeOK, EventKind
  <2>2. CASE ~NoteCancel(c)
    BY <2>2 DEF RequestCancel, CancelStep, SetCancel, MarkCancelRequested, Only,
                update_session, TypeInv, ThreadTypeOK
  <2>3. QED
    BY <2>1, <2>2
<1>5. PICK p \in CancelPC : Goes(c, p)
  BY <1>3
<1>6. ThreadTypeOK'
  BY <1>2, <1>4, <1>5 DEF TypeInv, ThreadTypeOK, Goes
<1>7. \A t \in Turns : pc'[t] = pc[t]
  BY <1>1, <1>5 DEF TypeInv, ThreadTypeOK, Goes
<1>8. QED
  BY <1>2, <1>6, <1>7 DEF TypeInv, Fits

LEMMA RestartType ==
    ASSUME TypeInv, Restart
    PROVE  TypeInv'
<1>1. StateTypeOK'
  <2>1. recovered' \in Nat
    <3>1. CASE status \in Busy
      BY <3>1 DEF TypeInv, StateTypeOK, Restart
    <3>2. CASE status \notin Busy
      BY <3>2 DEF TypeInv, StateTypeOK, Restart
    <3>3. QED
      BY <3>1, <3>2
  <2>2. status' \in SessionStatus
    BY DEF TypeInv, StateTypeOK, Restart, RecoveredStatus, SessionStatus
  <2>3. QED
    BY <2>1, <2>2 DEF TypeInv, StateTypeOK, Restart
<1>2. ThreadTypeOK'
  <2>1. \A r \in Requests : pc[r] \in TurnPC \cup CancelPC
    BY DEF TypeInv, ThreadTypeOK
  <2>2. pc' \in [Requests -> TurnPC \cup CancelPC]
    BY <2>1 DEF Restart, CancelPC
  <2>3. QED
    BY <2>2 DEF TypeInv, ThreadTypeOK, Restart
<1>3. \A t \in Turns : pc'[t] \in {"dead", pc[t]} /\ (pc'[t] # "dead" => pc'[t] = pc[t])
  BY DEF Restart, Requests
<1>4. \A t \in Turns : Fits(pc[t], turn[t], audits[t]) => Fits("dead", turn[t], audits[t])
  BY DEF Fits, Fresh
<1>5. UNCHANGED <<turn, audits>>
  BY DEF Restart
<1>6. \A t \in Turns : Fits(pc'[t], turn[t], audits[t])
  BY <1>3, <1>4 DEF TypeInv
<1>7. QED
  BY <1>1, <1>2, <1>5, <1>6 DEF TypeInv, Fits

\* A hang-up drops the thread.
LEMMA HangUpType ==
    ASSUME TypeInv, NEW t \in Turns, HangUp(t)
    PROVE  TypeInv'
<1>1. turn[t] \in Local /\ turn' = [turn EXCEPT ![t] = turn[t]] /\ Only(t, "dropped")
  BY DEF TypeInv, ThreadTypeOK, HangUp
<1>2. Fits("dropped", turn[t], audits[t])
  BY DEF TypeInv, Fits, Fresh
<1>3. QED
  BY <1>1, <1>2, OnlyType DEF TurnPC, Ended

LEMMA NextTypeInv ==
    ASSUME TypeInv, [Next]_vars
    PROVE  TypeInv'
<1>1. CASE UNCHANGED vars
  BY <1>1 DEF vars, TypeInv, StateTypeOK, ThreadTypeOK, Fits
<1>2. ASSUME NEW t \in Turns, SendMessage(t) \/ Preview(t)
      PROVE  TypeInv'
  BY <1>2, BeginsType DEF SendMessage, Preview
<1>3. ASSUME NEW t \in Turns, Resume(t)
      PROVE  TypeInv'
  BY <1>3, BeginsType DEF Resume
<1>4. ASSUME NEW t \in Turns, TurnStep(t)
      PROVE  TypeInv'
  BY <1>4, TurnStepType
<1>5. ASSUME NEW t \in Turns, HangUp(t)
      PROVE  TypeInv'
  BY <1>5, HangUpType
<1>6. ASSUME NEW c \in Cancels, RequestCancel(c) \/ CancelStep(c)
      PROVE  TypeInv'
  BY <1>6, CancelStepType
<1>7. CASE Restart
  BY <1>7, RestartType
<1>8. QED
  BY <1>1, <1>2, <1>3, <1>4, <1>5, <1>6, <1>7 DEF Next

\* The rounds bound the audits, which TypeOK asks for.
LEMMA TypeInvImpliesTypeOK == TypeInv => TypeOK
<1> SUFFICES ASSUME TypeInv PROVE TypeOK
  OBVIOUS
<1>1. ASSUME NEW t \in Turns
      PROVE  audits[t] \in Rounds
  <2>1. audits[t] \in Nat /\ turn[t].round \in Rounds /\ audits[t] <= turn[t].round
    BY DEF TypeInv, ThreadTypeOK, Fits, Local
  <2>2. QED
    BY <2>1, SessionAssumption DEF Rounds
<1>2. audits \in [Turns -> Rounds]
  BY <1>1 DEF TypeInv, ThreadTypeOK
<1>3. QED
  BY <1>2 DEF TypeInv, StateTypeOK, ThreadTypeOK, TypeOK, Row

\* Every reachable state of a session is well formed, with no more audit rows
\* for a turn than it has rounds.
THEOREM SessionTypeCorrect == Spec => []TypeOK
<1>1. Init => TypeInv
  BY InitTypeInv
<1>2. TypeInv /\ [Next]_vars => TypeInv'
  BY NextTypeInv
<1>3. TypeInv => TypeOK
  BY TypeInvImpliesTypeOK
<1>4. QED
  BY <1>1, <1>2, <1>3, PTL DEF Spec

-----------------------------------------------------------------------------
(* What a step of a turn's thread does, for the invariants below. *)

\* Places at which a turn still owes the session a status, or never will pay.
OwingPC == {"announce", "route", "prepare", "attempt", "stream", "say", "call",
            "run", "answer", "complete", "settle", "cancelled", "mark_cancelled",
            "report", "fail", "mark_error", "dropped"}

Owing(place, local) ==
    place \in OwingPC \/ (place = "deliver" /\ local.next # "end")

\* Places at which a flag found set is not the turn's own.
Unasked == {"new", "resume", "clear"} \cup Ended

\* The flag is cleared before the turn is at work, and obeyed after it was seen.
Heeds(t, place) ==
    /\ stopped' = stopped
    /\ \/ pc[t] = "clear" /\ cancel' = FALSE
       \/ pc[t] = "resume" /\ place = "clear" /\ cancel' = cancel
       \/ pc[t] \notin Unasked /\ cancel' = cancel
    /\ place = "cancelled" => cancel /\ pc[t] \in {"say", "deliver"}

\* A turn writes that it was cancelled when it was, that it sends when it sends.
Writes(t) ==
    \/ log' = log
    \/ \E kind \in EventKind, text \in SUBSET Rounds :
          /\ log' = [log EXCEPT ![t] = Append(@, Entry(kind, text))]
          /\ kind = "turn_cancelled" => pc[t] = "cancelled"
          /\ kind = "provider_attempt" => pc[t] = "attempt"

\* A turn is only at its attempt when it has just audited a payload.
Audits(t, place) ==
    /\ \A u \in Turns \ {t} : audits'[u] = audits[u]
    /\ \/ audits'[t] = audits[t] + 1 /\ log' = log
       \/ audits'[t] = audits[t] /\ place # "attempt"

\* A turn that owes a status goes on owing it until it has written one.
Settles(t, place) ==
    \/ status' \notin Busy
    \/ status' = "running" /\ Owing(place, turn'[t])
    \/ status' = status /\ (Owing(pc[t], turn[t]) => Owing(place, turn'[t]))

Effect(t, place) ==
    /\ Goes(t, place)
    /\ \A u \in Turns \ {t} : turn'[u] = turn[u]
    /\ Heeds(t, place)
    /\ Writes(t)
    /\ Audits(t, place)
    /\ Settles(t, place)

LEMMA TurnStepEffect ==
    ASSUME TypeInv, NEW t \in Turns, TurnStep(t)
    PROVE  \E place \in TurnPC : Effect(t, place)
<1> USE DEF Effect, Heeds, Audits, Settles, Owing, OwingPC, Unasked, Busy, TurnPC, Ended
<1>1. /\ turn[t].said \in SUBSET Rounds /\ turn[t].next \in TurnPC
      /\ {} \in SUBSET Rounds
      /\ pc[t] = "say" => turn[t].next \in {"stream", "answer"}
      /\ pc[t] = "deliver" =>
             turn[t].next \in {"run", "prepare", "settle", "answer", "end"}
  BY DEF TypeInv, ThreadTypeOK, Fits, Local
<1>2. ASSUME NEW kind \in EventKind, NEW text \in SUBSET Rounds,
             NEW place \in TurnPC, append_event(t, kind, text, place),
             kind = "turn_cancelled" => pc[t] = "cancelled",
             kind = "provider_attempt" => pc[t] = "attempt",
             place # "attempt",
             pc[t] \notin {"new", "clear"} \cup Ended,
             pc[t] = "resume" => place = "clear",
             place # "cancelled",
             Owing(pc[t], turn[t]) => Owing(place, turn[t])
      PROVE  Effect(t, place)
  BY <1>2 DEF append_event, Writes
<1>3. CASE NoteResume(t)
  BY <1>1, <1>2, <1>3 DEF NoteResume, EventKind
<1>4. CASE ClearCancel(t)
  BY <1>4 DEF ClearCancel, Goes, Writes
<1>5. CASE AskUser(t)
  BY <1>1, <1>2, <1>5 DEF AskUser, EventKind
<1>6. CASE MarkRunning(t)
  BY <1>6 DEF MarkRunning, update_session, Goes, Writes
<1>7. CASE Announce(t) \/ Attempt(t) \/ Complete(t)
  <2>1. CASE Announce(t)
    BY <1>1, <1>2, <2>1 DEF Announce, EventKind
  <2>2. CASE Attempt(t)
    BY <1>1, <1>2, <2>2 DEF Attempt, EventKind
  <2>3. CASE Complete(t)
    BY <1>1, <1>2, <2>3 DEF Complete, EventKind
  <2>4. QED
    BY <1>7, <2>1, <2>2, <2>3
<1>8. CASE Answer(t) \/ CancelTurn(t) \/ Fail(t)
  <2>1. CASE Answer(t)
    BY <1>1, <1>2, <2>1 DEF Answer, EventKind
  <2>2. CASE CancelTurn(t)
    BY <1>1, <1>2, <2>2 DEF CancelTurn, EventKind
  <2>3. CASE Fail(t)
    BY <1>1, <1>2, <2>3 DEF Fail, EventKind
  <2>4. QED
    BY <1>8, <2>1, <2>2, <2>3
<1>9. CASE Route(t)
  BY <1>9 DEF Route, Only, Goes, Writes, TypeInv, ThreadTypeOK
<1>10. CASE Prepare(t)
  BY <1>10 DEF Prepare, Goes, Writes, TypeInv, ThreadTypeOK
<1>11. CASE Stream(t)
  BY <1>11 DEF Stream, StreamOver, Only, Goes, Writes, TypeInv, ThreadTypeOK
<1>12. CASE ToolCall(t)
  <2>1. turn[t] \in Local /\ turn \in [Turns -> Local]
    BY DEF TypeInv, ThreadTypeOK
  <2>2. turn'[t].next = "run" /\ \A u \in Turns \ {t} : turn'[u] = turn[u]
    BY <1>12, <2>1 DEF ToolCall, Local
  <2>3. Writes(t)
    BY <1>1, <1>12 DEF ToolCall, Writes, EventKind
  <2>4. Goes(t, "deliver") /\ status' = status /\ audits' = audits /\ cancel' = cancel /\ stopped' = stopped
    BY <1>12 DEF ToolCall
  <2>5. QED
    BY <1>12, <2>2, <2>3, <2>4 DEF ToolCall
<1>13. CASE ToolResult(t)
  <2>1. turn[t] \in Local /\ turn \in [Turns -> Local]
    BY DEF TypeInv, ThreadTypeOK
  <2>2. turn'[t].next # "end" /\ \A u \in Turns \ {t} : turn'[u] = turn[u]
    BY <1>13, <2>1 DEF ToolResult, Local
  <2>3. Writes(t)
    BY <1>1, <1>13 DEF ToolResult, Writes, EventKind
  <2>4. Goes(t, "deliver") /\ status' = status /\ audits' = audits /\ cancel' = cancel /\ stopped' = stopped
    BY <1>13 DEF ToolResult
  <2>5. QED
    BY <1>13, <2>2, <2>3, <2>4 DEF ToolResult
<1>14. CASE Say(t)
  BY <1>1, <1>14 DEF Say, Goes, Writes
<1>15. CASE Deliver(t)
  BY <1>1, <1>15 DEF Deliver, Only, Goes, Writes
<1>16. CASE NoticeCancel(t) \/ Report(t)
  BY <1>16 DEF NoticeCancel, Report, Only, Goes, Writes
<1>17. CASE Settle(t) \/ MarkCancelled(t)
  BY <1>17 DEF Settle, MarkCancelled, update_session, Goes, Writes
<1>18. CASE Terminate(t)
  BY <1>1, <1>18 DEF Terminate, Goes, Writes, TypeInv, ThreadTypeOK, EventKind
<1>19. CASE MarkError(t)
  BY <1>19 DEF MarkError, Goes, Writes, TypeInv, ThreadTypeOK
<1>191. CASE SendPayload(t)
  <2>1. \A u \in Turns \ {t} : turn'[u] = turn[u]
    BY <1>191 DEF SendPayload, TypeInv, ThreadTypeOK
  <2>2. /\ pc[t] = "stream" /\ Goes(t, "stream") /\ Writes(t)
        /\ UNCHANGED <<status, cancel, audits, stopped>>
    BY <1>191 DEF SendPayload, Goes, Writes, TypeInv, ThreadTypeOK
  <2>3. QED
    BY <2>1, <2>2
<1>20. QED
  BY <1>191, <1>3, <1>4, <1>5, <1>6, <1>7, <1>8, <1>9, <1>10, <1>11, <1>12, <1>13,
     <1>14, <1>15, <1>16, <1>17, <1>18, <1>19 DEF TurnStep

\* Payloads go out of a round that is streaming, and of this round alone.
Sends(t) ==
    /\ \A u \in Turns \ {t} : sent'[u] = sent[u]
    /\ \/ sent'[t] = sent[t]
       \/ pc[t] = "stream" /\ sent'[t] = sent[t] \cup {turn[t].round}

LEMMA TurnStepSends ==
    ASSUME TypeInv, NEW t \in Turns, TurnStep(t)
    PROVE  Sends(t)
<1>1. CASE SendPayload(t)
  BY <1>1 DEF SendPayload, Sends, TypeInv, StateTypeOK
<1>2. CASE ~SendPayload(t)
  <2>1. sent' = sent
    BY <1>2 DEF TurnStep, NoteResume, ClearCancel, AskUser, MarkRunning, Announce, Route,
       Prepare, Attempt, Stream, StreamOver, ToolCall, ToolResult, Say, Deliver, NoticeCancel,
       Report, Answer, Complete, Settle, Terminate, CancelTurn, MarkCancelled, Fail, MarkError,
       Only, append_event, update_session
  <2>2. QED
    BY <2>1 DEF Sends
<1>3. QED
  BY <1>1, <1>2

\* What a new row adds to the kinds of its own request's log, and of no other.
LEMMA AppendedKinds ==
    ASSUME log \in [Requests -> Seq(Row)], NEW r \in Requests,
           NEW kind \in EventKind, NEW text \in SUBSET Rounds,
           log' = [log EXCEPT ![r] = Append(@, Entry(kind, text))]
    PROVE  /\ Kinds(r)' = Kinds(r) \cup {kind}
           /\ \A u \in Requests \ {r} : Kinds(u)' = Kinds(u)
<1> DEFINE e == Entry(kind, text)
           old == log[r]
           new == Append(old, e)
<1>1. e.kind = kind /\ e \in Row
  BY DEF Entry, Row
<1>2. old \in Seq(Row) /\ log'[r] = new
  OBVIOUS
<1> HIDE DEF e, old
<1>3. /\ Len(old) \in Nat /\ DOMAIN old = 1..Len(old)
      /\ DOMAIN new = 1..(Len(old) + 1)
      /\ \A i \in 1..Len(old) : new[i] = old[i]
      /\ new[Len(old) + 1] = e
  BY <1>1, <1>2, AppendProperties, LenProperties
<1> HIDE DEF new
<1>4. \A i \in DOMAIN new : i \in DOMAIN old \/ i = Len(old) + 1
  BY <1>3
<1>5. \A i \in DOMAIN old : i \in DOMAIN new /\ new[i] = old[i]
  BY <1>3
<1>6. Len(old) + 1 \in DOMAIN new /\ new[Len(old) + 1].kind = kind
  BY <1>1, <1>3
<1>7. {new[i].kind : i \in DOMAIN new} = {old[i].kind : i \in DOMAIN old} \cup {kind}
  BY <1>4, <1>5, <1>6
<1>8. Kinds(r) = {old[i].kind : i \in DOMAIN old}
  BY DEF Kinds, old
<1>9. Kinds(r)' = {new[i].kind : i \in DOMAIN new}
  BY <1>2 DEF Kinds
<1>10. \A u \in Requests \ {r} : log'[u] = log[u]
  OBVIOUS
<1>11. \A u \in Requests \ {r} : Kinds(u)' = Kinds(u)
  BY <1>10 DEF Kinds
<1>12. QED
  BY <1>7, <1>8, <1>9, <1>11

-----------------------------------------------------------------------------
(* Cancellation.  A flag that is set is known to every turn at work to be   *)
(* meant for it: whoever set it found the turn at work, and a turn that     *)
(* comes later clears it before it looks.                                   *)

CancelInv ==
    \A t \in Turns :
        /\ cancel => pc[t] \in Unasked \/ t \in stopped
        /\ pc[t] = "cancelled" => t \in stopped
        /\ "turn_cancelled" \in Kinds(t) => t \in stopped

LEMMA InitCancelInv == Init => CancelInv
<1> SUFFICES ASSUME Init, NEW t \in Turns
             PROVE  cancel = FALSE /\ pc[t] = "new" /\ Kinds(t) = {}
  BY DEF CancelInv
<1>1. t \in Requests
  BY DEF Requests
<1>2. log[t] = <<>>
  BY <1>1 DEF Init
<1>3. Kinds(t) = {}
  BY <1>2 DEF Kinds
<1>4. QED
  BY <1>1, <1>3 DEF Init

LEMMA NextCancelInv ==
    ASSUME TypeInv, CancelInv, [Next]_vars
    PROVE  CancelInv'
<1> USE DEF Unasked, Ended
<1>0. /\ Turns \subseteq Requests /\ Cancels \subseteq Requests
      /\ \A c \in Cancels, t \in Turns : c # t
      /\ log \in [Requests -> Seq(Row)]
      /\ pc \in [Requests -> TurnPC \cup CancelPC]
  BY SessionAssumption DEF Requests, TypeInv, ThreadTypeOK
<1>1. CASE UNCHANGED vars
  BY <1>1 DEF vars, CancelInv, Kinds
<1>2. ASSUME NEW t \in Turns, NEW place \in {"clear", "resume", "dropped"},
             Only(t, place)
      PROVE  CancelInv'
  BY <1>0, <1>2 DEF Only, Goes, CancelInv, Kinds
<1>3. ASSUME NEW t \in Turns, SendMessage(t) \/ Preview(t) \/ Resume(t) \/ HangUp(t)
      PROVE  CancelInv'
  BY <1>2, <1>3 DEF SendMessage, Preview, Resume, HangUp, Begins
<1>4. ASSUME NEW t \in Turns, TurnStep(t)
      PROVE  CancelInv'
  <2>1. PICK place \in TurnPC : Effect(t, place)
    BY <1>4, TurnStepEffect
  <2>2. Goes(t, place) /\ Heeds(t, place) /\ Writes(t)
    BY <2>1 DEF Effect
  <2>3. \A u \in Turns : "turn_cancelled" \in Kinds(u)' => u \in stopped
    <3>1. CASE log' = log
      BY <3>1 DEF CancelInv, Kinds
    <3>2. CASE \E kind \in EventKind, text \in SUBSET Rounds :
                  /\ log' = [log EXCEPT ![t] = Append(@, Entry(kind, text))]
                  /\ kind = "turn_cancelled" => pc[t] = "cancelled"
      <4>1. PICK kind \in EventKind, text \in SUBSET Rounds :
                  /\ log' = [log EXCEPT ![t] = Append(@, Entry(kind, text))]
                  /\ kind = "turn_cancelled" => pc[t] = "cancelled"
        BY <3>2
      <4>2. /\ Kinds(t)' = Kinds(t) \cup {kind}
            /\ \A u \in Requests \ {t} : Kinds(u)' = Kinds(u)
        BY <1>0, <4>1, AppendedKinds
      <4>3. QED
        BY <1>0, <4>1, <4>2 DEF CancelInv
    <3>3. QED
      BY <2>2, <3>1, <3>2 DEF Writes
  <2>4. ASSUME NEW u \in Turns
        PROVE  /\ cancel' => pc'[u] \in Unasked \/ u \in stopped
               /\ pc'[u] = "cancelled" => u \in stopped
    <3>1. CASE u = t
      BY <1>0, <2>2, <3>1 DEF CancelInv, Goes, Heeds
    <3>2. CASE u # t
      BY <1>0, <2>2, <3>2 DEF CancelInv, Goes, Heeds
    <3>3. QED
      BY <3>1, <3>2
  <2>5. QED
    BY <2>2, <2>3, <2>4 DEF CancelInv, Heeds
<1>5. ASSUME NEW c \in Cancels, RequestCancel(c)
      PROVE  CancelInv'
  BY <1>0, <1>5 DEF RequestCancel, Only, Goes, CancelInv, Kinds
<1>6. ASSUME NEW c \in Cancels, SetCancel(c)
      PROVE  CancelInv'
  BY <1>0, <1>6 DEF SetCancel, Goes, CancelInv, Kinds, Live
<1>7. ASSUME NEW c \in Cancels, NoteCancel(c)
      PROVE  CancelInv'
  <2>1. "turn_cancel_requested" \in EventKind /\ {} \in SUBSET Rounds
    BY DEF EventKind
  <2>2. log' = [log EXCEPT ![c] = Append(@, Entry("turn_cancel_requested", {}))]
    BY <1>7 DEF NoteCancel, append_event
  <2>3. \A t \in Turns : Kinds(t)' = Kinds(t)
    BY <1>0, <2>1, <2>2, AppendedKinds
  <2>4. QED
    BY <1>0, <1>7, <2>3 DEF NoteCancel, append_event, Goes, CancelInv
<1>8. ASSUME NEW c \in Cancels, MarkCancelRequested(c)
      PROVE  CancelInv'
  BY <1>0, <1>8 DEF MarkCancelRequested, update_session, Goes, CancelInv, Kinds
<1>9. CASE Restart
  BY <1>0, <1>9 DEF Restart, CancelInv, Kinds
<1>10. QED
  BY <1>1, <1>3, <1>4, <1>5, <1>6, <1>7, <1>8, <1>9 DEF Next, CancelStep

\* Only a turn that was running when somebody asked to stop is ever cancelled,
\* whatever other turns and requests do to the one flag of the session.
THEOREM CancelledWereStopped == Spec => []OnlyStoppedTurnsCancel
<1>1. Init => TypeInv /\ CancelInv
  BY InitTypeInv, InitCancelInv
<1>2. TypeInv /\ CancelInv /\ [Next]_vars => TypeInv' /\ CancelInv'
  BY NextTypeInv, NextCancelInv
<1>3. CancelInv => OnlyStoppedTurnsCancel
  BY DEF CancelInv, OnlyStoppedTurnsCancel
<1>4. QED
  BY <1>1, <1>2, <1>3, PTL DEF Spec

-----------------------------------------------------------------------------
(* The busy row.  Whoever wrote it last still owes the next status, or a    *)
(* cancel request has left it behind.                                       *)

OwnerInv ==
    /\ status = "running" => \E t \in Turns : Owing(pc[t], turn[t])
    /\ status = "cancel_requested" => \E c \in Cancels : pc[c] = "end"

LEMMA NextOwnerInv ==
    ASSUME TypeInv, OwnerInv, [Next]_vars
    PROVE  OwnerInv'
<1> USE DEF Owing, OwingPC, Busy
<1>0. /\ Turns \subseteq Requests /\ Cancels \subseteq Requests
      /\ \A c \in Cancels, t \in Turns : c # t
      /\ pc \in [Requests -> TurnPC \cup CancelPC]
      /\ turn \in [Turns -> Local]
  BY SessionAssumption DEF Requests, TypeInv, ThreadTypeOK
<1>1. CASE UNCHANGED vars
  BY <1>1 DEF vars, OwnerInv
<1>2. ASSUME NEW t \in Turns, SendMessage(t) \/ Preview(t) \/ Resume(t)
      PROVE  OwnerInv'
  <2>1. /\ pc[t] = "new" /\ status' = status
        /\ \A u \in Turns \ {t} : turn'[u] = turn[u]
        /\ \A r \in Requests \ {t} : pc'[r] = pc[r]
    BY <1>0, <1>2 DEF SendMessage, Preview, Resume, Begins, Only, Goes
  <2>2. QED
    BY <1>0, <2>1 DEF OwnerInv
<1>3. ASSUME NEW t \in Turns, HangUp(t)
      PROVE  OwnerInv'
  BY <1>0, <1>3 DEF HangUp, Only, Goes, OwnerInv
<1>4. ASSUME NEW t \in Turns, TurnStep(t)
      PROVE  OwnerInv'
  <2>1. PICK place \in TurnPC : Effect(t, place)
    BY <1>4, TurnStepEffect
  <2>2. /\ pc'[t] = place /\ \A r \in Requests \ {t} : pc'[r] = pc[r]
        /\ \A u \in Turns \ {t} : turn'[u] = turn[u]
        /\ Settles(t, place)
    BY <1>0, <2>1 DEF Effect, Goes
  <2>3. CASE status' \notin Busy
    BY <2>3 DEF OwnerInv
  <2>4. CASE status' = "running" /\ Owing(place, turn'[t])
    BY <2>2, <2>4 DEF OwnerInv
  <2>5. CASE status' = status /\ (Owing(pc[t], turn[t]) => Owing(place, turn'[t]))
    <3>1. ASSUME status' = "running"
          PROVE  \E u \in Turns : Owing(pc'[u], turn'[u])
      <4>1. PICK u \in Turns : Owing(pc[u], turn[u])
        BY <2>5, <3>1 DEF OwnerInv
      <4>2. Owing(pc'[u], turn'[u])
        BY <1>0, <2>2, <2>5, <4>1
      <4>3. QED
        BY <4>2
    <3>2. ASSUME status' = "cancel_requested"
          PROVE  \E c \in Cancels : pc'[c] = "end"
      BY <1>0, <2>2, <2>5, <3>2 DEF OwnerInv
    <3>3. QED
      BY <3>1, <3>2 DEF OwnerInv
  <2>6. QED
    BY <2>2, <2>3, <2>4, <2>5 DEF Settles
<1>5. ASSUME NEW c \in Cancels, RequestCancel(c) \/ CancelStep(c)
      PROVE  OwnerInv'
  <2>1. turn' = turn /\ \A r \in Requests \ {c} : pc'[r] = pc[r]
    BY <1>0, <1>5 DEF RequestCancel, CancelStep, SetCancel, NoteCancel,
                      MarkCancelRequested, Only, append_event, update_session, Goes
  <2>2. CASE MarkCancelRequested(c)
    BY <1>0, <2>2 DEF MarkCancelRequested, update_session, Goes, OwnerInv
  <2>3. CASE RequestCancel(c) \/ SetCancel(c) \/ NoteCancel(c)
    <3>1. pc[c] # "end" /\ status' = status
      BY <2>3 DEF RequestCancel, SetCancel, NoteCancel, Only, append_event
    <3>2. ASSUME status' = "running"
          PROVE  \E t \in Turns : Owing(pc'[t], turn'[t])
      BY <1>0, <2>1, <3>1, <3>2 DEF OwnerInv
    <3>3. ASSUME status' = "cancel_requested"
          PROVE  \E d \in Cancels : pc'[d] = "end"
      BY <1>0, <2>1, <3>1, <3>3 DEF OwnerInv
    <3>4. QED
      BY <3>2, <3>3 DEF OwnerInv
  <2>4. QED
    BY <1>5, <2>2, <2>3 DEF CancelStep
<1>6. CASE Restart
  BY <1>6 DEF Restart, RecoveredStatus, OwnerInv
<1>7. QED
  BY <1>1, <1>2, <1>3, <1>4, <1>5, <1>6 DEF Next

\* A session that reads busy has somebody in this process to answer for it, for
\* any number of turns, cancel requests, hang-ups and restarts.
THEOREM BusyOwned == Spec => []BusyHasOwner
<1>1. Init => TypeInv /\ OwnerInv
  BY InitTypeInv DEF Init, OwnerInv
<1>2. TypeInv /\ OwnerInv /\ [Next]_vars => TypeInv' /\ OwnerInv'
  BY NextTypeInv, NextOwnerInv
<1>3. OwnerInv => BusyHasOwner
  BY DEF OwnerInv, BusyHasOwner, Owing, OwingPC, Runners, Live, Ended
<1>4. QED
  BY <1>1, <1>2, <1>3, PTL DEF Spec

-----------------------------------------------------------------------------
(* Audits.  A turn has one audit row more than attempts when it is about to *)
(* attempt, and no fewer at any time.                                       *)

\* A new row counts for its own request and its own kind.
LEMMA AppendedCount ==
    ASSUME log \in [Requests -> Seq(Row)], NEW r \in Requests,
           NEW kind \in EventKind, NEW text \in SUBSET Rounds, NEW counted,
           log' = [log EXCEPT ![r] = Append(@, Entry(kind, text))]
    PROVE  /\ Count(r, counted) \in Nat
           /\ Count(r, counted)' =
                  Count(r, counted) + (IF kind = counted THEN 1 ELSE 0)
           /\ \A u \in Requests \ {r} : Count(u, counted)' = Count(u, counted)
<1> DEFINE e == Entry(kind, text)
           old == log[r]
           new == Append(old, e)
           S == {i \in DOMAIN old : old[i].kind = counted}
           T == {i \in DOMAIN new : new[i].kind = counted}
<1>1. e.kind = kind /\ e \in Row
  BY DEF Entry, Row
<1>2. old \in Seq(Row) /\ log'[r] = new
  OBVIOUS
<1>3. Count(r, counted) = Cardinality(S) /\ Count(r, counted)' = Cardinality(T)
  BY <1>2 DEF Count
<1>4. \A u \in Requests \ {r} : Count(u, counted)' = Count(u, counted)
  <2>1. \A u \in Requests \ {r} : log'[u] = log[u]
    OBVIOUS
  <2>2. QED
    BY <2>1 DEF Count
<1> HIDE DEF e, old
<1>5. /\ Len(old) \in Nat /\ DOMAIN old = 1..Len(old)
      /\ DOMAIN new = 1..(Len(old) + 1)
      /\ \A i \in 1..Len(old) : new[i] = old[i]
      /\ new[Len(old) + 1] = e
  BY <1>1, <1>2, AppendProperties, LenProperties
<1> HIDE DEF new
<1>6. T = IF kind = counted THEN S \cup {Len(old) + 1} ELSE S
  <2>1. \A i \in DOMAIN new : i \in DOMAIN old \/ i = Len(old) + 1
    BY <1>5
  <2>2. \A i \in DOMAIN old : i \in DOMAIN new /\ new[i] = old[i]
    BY <1>5
  <2>3. Len(old) + 1 \in DOMAIN new /\ new[Len(old) + 1].kind = kind
    BY <1>1, <1>5
  <2>4. QED
    BY <2>1, <2>2, <2>3
<1>7. Len(old) + 1 \notin S
  BY <1>5
<1>8. IsFiniteSet(S) /\ Cardinality(S) \in Nat
  <2>1. IsFiniteSet(1..Len(old))
    BY <1>5, FS_Interval
  <2>2. S \in SUBSET (1..Len(old))
    BY <1>5
  <2>3. QED
    BY <2>1, <2>2, FS_Subset, FS_CardinalityType
<1> HIDE DEF S, T
<1>9. Cardinality(T) = Cardinality(S) + (IF kind = counted THEN 1 ELSE 0)
  <2>1. CASE kind = counted
    <3>1. T = S \cup {Len(old) + 1}
      BY <1>6, <2>1
    <3>2. Cardinality(S \cup {Len(old) + 1}) = Cardinality(S) + 1
      BY <1>7, <1>8, FS_AddElement
    <3>3. QED
      BY <2>1, <3>1, <3>2
  <2>2. CASE kind # counted
    BY <1>6, <1>8, <2>2
  <2>3. QED
    BY <2>1, <2>2
<1>10. QED
  BY <1>3, <1>4, <1>8, <1>9

AuditInv ==
    \A t \in Turns :
        /\ Count(t, "provider_attempt") \in Nat
        /\ Count(t, "provider_attempt") <= audits[t]
        /\ pc[t] = "attempt" => Count(t, "provider_attempt") + 1 <= audits[t]
        /\ \A r \in sent[t] : r <= audits[t]

LEMMA InitAuditInv == Init => AuditInv
<1> SUFFICES ASSUME Init, NEW t \in Turns
             PROVE  /\ Count(t, "provider_attempt") = 0 /\ audits[t] = 0 /\ pc[t] = "new"
                    /\ sent[t] = {}
  BY DEF AuditInv
<1>1. t \in Requests
  BY DEF Requests
<1>2. {i \in DOMAIN log[t] : log[t][i].kind = "provider_attempt"} = {}
  BY <1>1 DEF Init
<1>3. Count(t, "provider_attempt") = 0
  BY <1>2, FS_EmptySet DEF Count
<1>4. QED
  BY <1>1, <1>3 DEF Init

LEMMA NextAuditInv ==
    ASSUME TypeInv, AuditInv, [Next]_vars
    PROVE  AuditInv'
<1> DEFINE N(t) == Count(t, "provider_attempt")
<1>0. /\ Turns \subseteq Requests /\ Cancels \subseteq Requests
      /\ \A c \in Cancels, t \in Turns : c # t
      /\ log \in [Requests -> Seq(Row)]
      /\ pc \in [Requests -> TurnPC \cup CancelPC]
      /\ audits \in [Turns -> Nat]
  BY SessionAssumption DEF Requests, TypeInv, ThreadTypeOK
<1>1. ASSUME \A t \in Turns : N(t)' = N(t),
             audits' = audits, sent' = sent,
             \A t \in Turns : pc'[t] = "attempt" => pc[t] = "attempt"
      PROVE  AuditInv'
  BY <1>1 DEF AuditInv
<1>2. ASSUME log' = log
      PROVE  \A t \in Turns : N(t)' = N(t)
  BY <1>2 DEF Count
<1>3. CASE UNCHANGED vars
  BY <1>1, <1>2, <1>3 DEF vars
<1>4. ASSUME NEW t \in Turns, SendMessage(t) \/ Preview(t) \/ Resume(t) \/ HangUp(t)
      PROVE  AuditInv'
  <2>1. /\ log' = log /\ audits' = audits /\ sent' = sent
        /\ \A u \in Turns : pc'[u] = "attempt" => pc[u] = "attempt"
    BY <1>0, <1>4 DEF SendMessage, Preview, Resume, HangUp, Begins, Only, Goes
  <2>2. QED
    BY <1>1, <1>2, <2>1
<1>5. ASSUME NEW t \in Turns, TurnStep(t)
      PROVE  AuditInv'
  <2>1. PICK place \in TurnPC : Effect(t, place)
    BY <1>5, TurnStepEffect
  <2>2. /\ pc'[t] = place /\ \A u \in Turns \ {t} : pc'[u] = pc[u]
        /\ \A u \in Turns \ {t} : audits'[u] = audits[u]
        /\ Writes(t) /\ Audits(t, place)
    BY <1>0, <2>1 DEF Effect, Goes, Audits
  <2>3. /\ \A u \in Turns \ {t} : N(u)' = N(u)
        /\ N(t)' = N(t) \/ (log' # log /\ N(t)' = N(t) + 1 /\ pc[t] = "attempt")
    <3>1. CASE log' = log
      BY <1>2, <3>1
    <3>2. CASE log' # log
      <4>1. PICK kind \in EventKind, text \in SUBSET Rounds :
                /\ log' = [log EXCEPT ![t] = Append(@, Entry(kind, text))]
                /\ kind = "provider_attempt" => pc[t] = "attempt"
        BY <2>2, <3>2 DEF Writes
      <4>2. /\ N(t) \in Nat
            /\ N(t)' = N(t) + (IF kind = "provider_attempt" THEN 1 ELSE 0)
            /\ \A u \in Requests \ {t} : N(u)' = N(u)
        <5>1. log \in [Requests -> Seq(Row)] /\ t \in Requests
          BY <1>0
        <5>2. QED
          BY <4>1, <5>1, AppendedCount, ZenonT(60)
      <4> HIDE DEF N
      <4>3. QED
        BY <1>0, <3>2, <4>1, <4>2
    <3>3. QED
      BY <3>1, <3>2
  <2>4. \A u \in Turns : /\ N(u) \in Nat /\ N(u) <= audits[u] /\ audits[u] \in Nat
                         /\ pc[u] = "attempt" => N(u) + 1 <= audits[u]
    BY <1>0 DEF AuditInv
  <2> HIDE DEF N
  <2>5. \A u \in Turns : /\ N(u)' \in Nat /\ N(u)' <= audits'[u]
                         /\ pc'[u] = "attempt" => N(u)' + 1 <= audits'[u]
    <3>1. ASSUME NEW u \in Turns, u # t
          PROVE  /\ N(u)' \in Nat /\ N(u)' <= audits'[u]
                 /\ pc'[u] = "attempt" => N(u)' + 1 <= audits'[u]
      BY <2>2, <2>3, <2>4, <3>1
    <3>2. /\ N(t)' \in Nat /\ N(t)' <= audits'[t]
          /\ pc'[t] = "attempt" => N(t)' + 1 <= audits'[t]
      BY <2>2, <2>3, <2>4 DEF Audits
    <3>3. QED
      BY <3>1, <3>2
  <2>8. Sends(t)
    BY <1>5, TurnStepSends
  <2>7. \A u \in Turns : \A r \in sent'[u] : r <= audits'[u]
    <3>1. ASSUME NEW u \in Turns, u # t
          PROVE  \A r \in sent'[u] : r <= audits'[u]
      BY <2>2, <2>8, <3>1 DEF Sends, AuditInv
    <3>2. turn[t].round <= audits[t] \/ pc[t] # "stream"
      BY DEF TypeInv, Fits
    <3>3. \A r \in sent[t] : r \in Nat /\ r <= audits[t]
      BY RoundsCount DEF TypeInv, StateTypeOK, AuditInv
    <3>4. audits[t] \in Nat /\ turn[t].round \in Nat
      BY <1>0, RoundsCount DEF TypeInv, ThreadTypeOK, Local
    <3>5. \A r \in sent'[t] : r <= audits'[t]
      BY <2>2, <2>8, <3>2, <3>3, <3>4 DEF Audits, Sends
    <3>6. QED
      BY <3>1, <3>5
  <2>6. QED
    BY <2>5, <2>7 DEF AuditInv, N
<1>6. ASSUME NEW c \in Cancels, NoteCancel(c)
      PROVE  AuditInv'
  <2>1. "turn_cancel_requested" \in EventKind /\ {} \in SUBSET Rounds
    BY DEF EventKind
  <2>2. log' = [log EXCEPT ![c] = Append(@, Entry("turn_cancel_requested", {}))]
    BY <1>6 DEF NoteCancel, append_event
  <2>3. \A t \in Turns : N(t)' = N(t)
    <3>1. \A u \in Requests \ {c} : N(u)' = N(u)
      <4>1. log \in [Requests -> Seq(Row)] /\ c \in Requests
        BY <1>0
      <4>2. QED
        BY <2>1, <2>2, <4>1, AppendedCount, ZenonT(60)
    <3> HIDE DEF N
    <3>2. QED
      BY <1>0, <3>1
  <2>4. audits' = audits /\ sent' = sent /\ \A t \in Turns : pc'[t] = pc[t]
    BY <1>0, <1>6 DEF NoteCancel, append_event, Goes
  <2>5. QED
    BY <1>1, <2>3, <2>4
<1>7. ASSUME NEW c \in Cancels, RequestCancel(c) \/ SetCancel(c) \/ MarkCancelRequested(c)
      PROVE  AuditInv'
  <2>1. log' = log /\ audits' = audits /\ sent' = sent /\ \A t \in Turns : pc'[t] = pc[t]
    BY <1>0, <1>7 DEF RequestCancel, SetCancel, MarkCancelRequested, Only,
                      update_session, Goes
  <2>2. QED
    BY <1>1, <1>2, <2>1
<1>8. CASE Restart
  <2>1. /\ log' = log /\ audits' = audits /\ sent' = sent
        /\ \A t \in Turns : pc'[t] = "attempt" => pc[t] = "attempt"
    BY <1>0, <1>8 DEF Restart
  <2>2. QED
    BY <1>1, <1>2, <2>1
<1>9. QED
  BY <1>3, <1>4, <1>5, <1>6, <1>7, <1>8 DEF Next, CancelStep

\* Nothing goes out that was not redacted and recorded before: whatever candidates of the
\* route chain a payload goes to, its round has its row, and a turn never has more
\* attempts in its log than rows.
THEOREM AttemptsAudited == Spec => []AuditedBeforeSent
<1>1. Init => TypeInv /\ AuditInv
  BY InitTypeInv, InitAuditInv
<1>2. TypeInv /\ AuditInv /\ [Next]_vars => TypeInv' /\ AuditInv'
  BY NextTypeInv, NextAuditInv
<1>3. AuditInv => AuditedBeforeSent
  BY DEF AuditInv, AuditedBeforeSent
<1>4. QED
  BY <1>1, <1>2, <1>3, PTL DEF Spec

-----------------------------------------------------------------------------
(* What a turn leaves in the log.                                           *)

\* All the text, and the kinds, some rows hold.
Told(rows) == UNION {rows[i].text : i \in DOMAIN rows}
Says(rows, kind) == \E i \in DOMAIN rows : rows[i].kind = kind

\* Every call was answered since.
Answered(rows) ==
    \A i \in DOMAIN rows : rows[i].kind = "tool_call" =>
        \E k \in i .. Len(rows) : rows[k].kind = "tool_result"

\* Every call was answered before the model was asked again.
AnsweredInTime(rows) ==
    \A i, j \in DOMAIN rows :
        /\ i < j
        /\ rows[i].kind = "tool_call"
        /\ rows[j].kind = "provider_attempt"
        => \E k \in i .. j : rows[k].kind = "tool_result"

\* Places from which a turn may ask its model with no tool to run first, and places
\* from which it shows the browser nothing more.
Asking == Fresh \cup {"prepare", "attempt", "stream", "say", "call"}
Leaving == {"cancelled", "mark_cancelled", "end", "dropped", "dead"}

\* What a turn's place and locals say of its rows and of what was shown.
Whole(place, local, rows, seen) ==
    /\ seen \subseteq local.said
    /\ place = "say" => local.round \in local.said
    /\ place = "new" => rows = <<>>
    /\ place \in Fresh => seen = {}
    /\ place \in {"complete", "settle", "terminal"} => local.said \subseteq Told(rows)
    /\ place = "deliver" /\ local.next = "settle" => local.said \subseteq Told(rows)
    /\ Says(rows, "terminal") =>
          /\ seen \subseteq Told(rows)
          /\ place \in Leaving \/ (place = "deliver" /\ local.next = "end")
    /\ place \in Asking \/ (place = "deliver" /\ local.next = "prepare") => Answered(rows)
    /\ AnsweredInTime(rows)

\* What one more row does.
LEMMA RowAppended ==
    ASSUME NEW rows \in Seq(Row), NEW kind \in EventKind, NEW text \in SUBSET Rounds
    PROVE  LET new == Append(rows, Entry(kind, text))
           IN  /\ Told(rows) \subseteq Told(new) /\ text \subseteq Told(new)
               /\ \A k : Says(new, k) => Says(rows, k) \/ k = kind
               /\ kind # "tool_call" /\ Answered(rows) => Answered(new)
               /\ kind = "tool_result" => Answered(new)
               /\ AnsweredInTime(rows) /\ (kind = "provider_attempt" => Answered(rows))
                      => AnsweredInTime(new)
<1> DEFINE e == Entry(kind, text)
           new == Append(rows, Entry(kind, text))
<1>1. e \in Row /\ e.kind = kind /\ e.text = text
  BY DEF Entry, Row
<1>2. PICK n \in Nat : n = Len(rows)
  BY LenProperties
<1>3. /\ DOMAIN rows = 1 .. n /\ Len(new) = n + 1 /\ DOMAIN new = 1 .. n + 1
      /\ \A i \in 1 .. n : new[i] = rows[i]
      /\ new[n + 1] = e
  BY <1>1, <1>2, AppendProperties, LenProperties
<1> HIDE DEF e, new
<1>4. /\ \A i \in 1 .. n : i \in 1 .. n + 1
      /\ \A i \in 1 .. n + 1 : i = n + 1 \/ i \in 1 .. n
      /\ n + 1 \in 1 .. n + 1
  OBVIOUS
<1>5. Told(rows) \subseteq Told(new) /\ text \subseteq Told(new)
  BY <1>1, <1>3, <1>4 DEF Told
<1>6. \A k : Says(new, k) => Says(rows, k) \/ k = kind
  BY <1>1, <1>3, <1>4 DEF Says
<1>7. ASSUME kind # "tool_call", Answered(rows) PROVE Answered(new)
  <2> SUFFICES ASSUME NEW i \in 1 .. n + 1, new[i].kind = "tool_call"
               PROVE  \E k \in i .. n + 1 : new[k].kind = "tool_result"
    BY <1>3 DEF Answered
  <2>1. i \in 1 .. n /\ rows[i].kind = "tool_call"
    BY <1>1, <1>3, <1>4, <1>7
  <2>2. PICK k \in i .. n : rows[k].kind = "tool_result"
    BY <1>2, <1>3, <1>7, <2>1 DEF Answered
  <2>3. k \in 1 .. n /\ k \in i .. n + 1
    BY <2>1
  <2>4. QED
    BY <1>3, <2>2, <2>3
<1>8. ASSUME kind = "tool_result" PROVE Answered(new)
  <2> SUFFICES ASSUME NEW i \in 1 .. n + 1
               PROVE  \E k \in i .. n + 1 : new[k].kind = "tool_result"
    BY <1>3 DEF Answered
  <2>1. n + 1 \in i .. n + 1
    OBVIOUS
  <2>2. QED
    BY <1>1, <1>3, <1>8, <2>1
<1>9. ASSUME AnsweredInTime(rows), kind = "provider_attempt" => Answered(rows)
      PROVE  AnsweredInTime(new)
  <2> SUFFICES ASSUME NEW i \in 1 .. n + 1, NEW j \in 1 .. n + 1, i < j,
                      new[i].kind = "tool_call", new[j].kind = "provider_attempt"
               PROVE  \E k \in i .. j : new[k].kind = "tool_result"
    BY <1>3 DEF AnsweredInTime
  <2>1. i \in 1 .. n /\ rows[i].kind = "tool_call"
    BY <1>3
  <2>2. CASE j = n + 1
    <3>1. Answered(rows)
      BY <1>1, <1>3, <1>9, <2>2
    <3>2. PICK k \in i .. n : rows[k].kind = "tool_result"
      BY <1>2, <1>3, <2>1, <3>1 DEF Answered
    <3>3. k \in 1 .. n /\ k \in i .. j
      BY <2>1, <2>2
    <3>4. QED
      BY <1>3, <3>2, <3>3
  <2>3. CASE j \in 1 .. n
    <3>1. rows[j].kind = "provider_attempt"
      BY <1>3, <2>3
    <3>2. PICK k \in i .. j : rows[k].kind = "tool_result"
      BY <1>3, <1>9, <2>1, <2>3, <3>1 DEF AnsweredInTime
    <3>3. k \in 1 .. n
      BY <2>1, <2>3
    <3>4. QED
      BY <1>3, <3>2, <3>3
  <2>4. QED
    BY <1>4, <2>2, <2>3
<1>10. QED
  BY <1>5, <1>6, <1>7, <1>8, <1>9 DEF new

\* A row of a turn that goes on to write, not to yield.
LEMMA WholeAppended ==
    ASSUME NEW place, NEW local, NEW rows \in Seq(Row), NEW seen,
           Whole(place, local, rows, seen),
           NEW kind \in EventKind \ {"terminal", "tool_call"}, NEW text \in SUBSET Rounds,
           NEW to, to \notin {"new", "say", "deliver"},
           to \in {"complete", "settle", "terminal"} => local.said \subseteq Told(rows) \cup text,
           Says(rows, "terminal") => to \in Leaving,
           to \in Fresh => seen = {},
           to \in Asking \/ kind = "provider_attempt" => Answered(rows)
    PROVE  Whole(to, local, Append(rows, Entry(kind, text)), seen)
<1> DEFINE new == Append(rows, Entry(kind, text))
<1>1. kind \in EventKind /\ kind # "tool_call" /\ kind # "terminal"
  OBVIOUS
<1>2. /\ Told(rows) \subseteq Told(new) /\ text \subseteq Told(new)
      /\ \A k : Says(new, k) => Says(rows, k) \/ k = kind
      /\ kind # "tool_call" /\ Answered(rows) => Answered(new)
      /\ AnsweredInTime(rows) /\ (kind = "provider_attempt" => Answered(rows)) => AnsweredInTime(new)
  BY <1>1, RowAppended
<1> HIDE DEF new
<1>3. Whole(to, local, new, seen)
  BY <1>1, <1>2 DEF Whole
<1>4. QED
  BY <1>3 DEF new

\* A turn that moves without a row.
LEMMA WholeMoved ==
    ASSUME NEW place, NEW local, NEW rows, NEW seen, Whole(place, local, rows, seen),
           NEW to, to \notin {"new", "say", "deliver"},
           to \in {"complete", "settle", "terminal"} => local.said \subseteq Told(rows),
           Says(rows, "terminal") => to \in Leaving,
           to \in Fresh => seen = {},
           to \in Asking => Answered(rows)
    PROVE  Whole(to, local, rows, seen)
  BY DEF Whole

\* Only what a turn is about to do with its event changed: it says nothing of its
\* rows but where the event sends it.
LEMMA WholeRedirected ==
    ASSUME NEW place, NEW local, NEW rows, NEW seen, Whole(place, local, rows, seen),
           NEW local2, local2.said = local.said, local2.round = local.round,
           NEW to, to \notin {"new", "say", "deliver"},
           to \in {"complete", "settle", "terminal"} => local.said \subseteq Told(rows),
           Says(rows, "terminal") => to \in Leaving,
           to \in Fresh => seen = {},
           to \in Asking => Answered(rows)
    PROVE  Whole(to, local2, rows, seen)
  BY DEF Whole

WholeInv == \A t \in Turns : Whole(pc[t], turn[t], log[t], shown[t])

LEMMA InitWholeInv == Init => WholeInv
<1> SUFFICES ASSUME Init, NEW t \in Turns
             PROVE  Whole(pc[t], turn[t], log[t], shown[t])
  BY DEF WholeInv
<1>1. pc[t] = "new" /\ log[t] = <<>> /\ shown[t] = {} /\ t \in Requests
  BY DEF Init, Requests
<1>2. DOMAIN log[t] = {}
  BY <1>1
<1>3. Told(log[t]) = {} /\ ~Says(log[t], "terminal") /\ Answered(log[t]) /\ AnsweredInTime(log[t])
  BY <1>2 DEF Told, Says, Answered, AnsweredInTime
<1>4. QED
  BY <1>1, <1>3 DEF Whole

\* What a step of a turn's thread does to the turn's own state.
LEMMA RowWritten ==
    ASSUME TypeInv, NEW t \in Turns, NEW kind \in EventKind, NEW text \in SUBSET Rounds,
           NEW to, append_event(t, kind, text, to)
    PROVE  /\ pc'[t] = to /\ turn'[t] = turn[t] /\ shown'[t] = shown[t]
           /\ log'[t] = Append(log[t], Entry(kind, text))
           /\ log[t] \in Seq(Row)
  BY DEF append_event, Goes, TypeInv, ThreadTypeOK, Requests

LEMMA OnlyGone ==
    ASSUME TypeInv, NEW t \in Turns, NEW to, Only(t, to)
    PROVE  pc'[t] = to /\ shown'[t] = shown[t] /\ log'[t] = log[t]
  BY DEF Only, Goes, TypeInv, ThreadTypeOK, Requests

LEMMA RowAndLocals ==
    ASSUME TypeInv, NEW t \in Turns, NEW kind \in EventKind, NEW next \in TurnPC,
           log' = [log EXCEPT ![t] = Append(@, Entry(kind, {}))],
           turn' = [turn EXCEPT ![t].next = next],
           NEW to, Goes(t, to), shown' = shown
    PROVE  /\ pc'[t] = to /\ shown'[t] = shown[t]
           /\ turn'[t].next = next /\ turn'[t].said = turn[t].said
           /\ turn'[t].round = turn[t].round
           /\ log'[t] = Append(log[t], Entry(kind, {}))
           /\ log[t] \in Seq(Row)
<1>1. t \in Requests /\ turn[t] \in Local
  BY DEF Requests, TypeInv, ThreadTypeOK
<1>2. turn'[t] = [turn[t] EXCEPT !.next = next]
  BY DEF TypeInv, ThreadTypeOK
<1>3. turn'[t].next = next /\ turn'[t].said = turn[t].said /\ turn'[t].round = turn[t].round
  BY <1>1, <1>2 DEF Local
<1>4. QED
  BY <1>1, <1>3 DEF Goes, TypeInv, ThreadTypeOK

LEMMA WholeStep ==
    ASSUME TypeInv, NEW t \in Turns, TurnStep(t),
           Whole(pc[t], turn[t], log[t], shown[t])
    PROVE  Whole(pc'[t], turn'[t], log'[t], shown'[t])
<1> DEFINE l == turn[t]
           rows == log[t]
           seen == shown[t]
<1>1. /\ t \in Requests /\ l \in Local /\ rows \in Seq(Row)
      /\ l.said \in SUBSET Rounds /\ l.round \in Rounds /\ {} \in SUBSET Rounds
  BY DEF TypeInv, ThreadTypeOK, Requests, Local
<1>2. Fits(pc[t], l, audits[t])
  BY DEF TypeInv
<1>3. ASSUME NEW kind \in EventKind \ {"terminal", "tool_call"}, NEW text \in SUBSET Rounds,
             NEW to, append_event(t, kind, text, to),
             to \notin {"new", "say", "deliver"},
             to \in {"complete", "settle", "terminal"} => l.said \subseteq Told(rows) \cup text,
             Says(rows, "terminal") => to \in Leaving,
             to \in Fresh => seen = {},
             to \in Asking \/ kind = "provider_attempt" => Answered(rows)
      PROVE  Whole(pc'[t], turn'[t], log'[t], shown'[t])
  <2>1. kind \in EventKind
    OBVIOUS
  <2>2. /\ pc'[t] = to /\ turn'[t] = l /\ shown'[t] = seen
        /\ log'[t] = Append(rows, Entry(kind, text))
    BY <1>3, <2>1, RowWritten, Zenon
  <2>3. Whole(to, l, Append(rows, Entry(kind, text)), seen)
    BY <1>1, <1>3, WholeAppended
  <2>4. QED
    BY <2>2, <2>3
<1>4. ASSUME NEW to, Only(t, to), turn'[t].said = l.said, turn'[t].round = l.round,
             to \notin {"new", "say", "deliver"},
             to \in {"complete", "settle", "terminal"} => l.said \subseteq Told(rows),
             Says(rows, "terminal") => to \in Leaving,
             to \in Fresh => seen = {},
           to \in Asking => Answered(rows)
      PROVE  Whole(pc'[t], turn'[t], log'[t], shown'[t])
  <2>1. pc'[t] = to /\ shown'[t] = seen /\ log'[t] = rows
    BY <1>4, OnlyGone
  <2>2. Whole(to, turn'[t], rows, seen)
    BY <1>4, WholeRedirected
  <2>3. QED
    BY <2>1, <2>2
<1>5. ASSUME NEW s, NEW to, update_session(t, s, to),
             to \notin {"new", "say", "deliver"},
             to \in {"complete", "settle", "terminal"} => l.said \subseteq Told(rows),
             Says(rows, "terminal") => to \in Leaving,
             to \in Fresh => seen = {},
           to \in Asking => Answered(rows)
      PROVE  Whole(pc'[t], turn'[t], log'[t], shown'[t])
  <2>1. pc'[t] = to /\ turn'[t] = l /\ log'[t] = rows /\ shown'[t] = seen
    BY <1>1, <1>5 DEF update_session, Goes, TypeInv, ThreadTypeOK
  <2>2. QED
    BY <1>5, <2>1, WholeMoved
\* Before its last event a turn has no terminal row.
<1>6. Says(rows, "terminal") => pc[t] \in Leaving \/ (pc[t] = "deliver" /\ l.next = "end")
  BY DEF Whole
<1>7. pc[t] \in Asking => Answered(rows)
  BY DEF Whole
<1>8. pc[t] \in Fresh => seen = {}
  BY DEF Whole
<1> USE DEF Asking, Leaving, Fresh
<1>10. CASE NoteResume(t)
  BY <1>1, <1>3, <1>6, <1>7, <1>8, <1>10 DEF NoteResume, EventKind
<1>11. CASE ClearCancel(t)
  <2>1. PICK to \in {"ask", "mark"} : pc' = [pc EXCEPT ![t] = to]
    BY <1>11 DEF ClearCancel, Goes
  <2>2. pc'[t] = to /\ turn'[t] = l /\ log'[t] = rows /\ shown'[t] = seen
    BY <1>1, <1>11, <2>1 DEF ClearCancel, TypeInv, ThreadTypeOK
  <2>3. pc[t] = "clear"
    BY <1>11 DEF ClearCancel
  <2>4. Whole(to, l, rows, seen)
    BY <1>6, <1>7, <1>8, <2>3, WholeMoved
  <2>5. QED
    BY <2>2, <2>4
<1>12. CASE AskUser(t)
  <2>1. PICK to \in {"end", "mark"} : append_event(t, "user_message", {}, to)
    BY <1>12 DEF AskUser
  <2>2. pc[t] = "ask"
    BY <1>12 DEF AskUser
  <2>3. "user_message" \in EventKind \ {"terminal", "tool_call"}
    BY DEF EventKind
  <2>4. QED
    BY <1>1, <1>3, <1>6, <1>7, <1>8, <2>1, <2>2, <2>3
<1>13. CASE MarkRunning(t)
  BY <1>5, <1>6, <1>7, <1>8, <1>13 DEF MarkRunning
<1>14. CASE Announce(t)
  BY <1>1, <1>3, <1>6, <1>7, <1>8, <1>14 DEF Announce, EventKind
<1>15. CASE Route(t)
  <2>1. pc[t] = "route" /\ l.round = 0 /\ ~Says(rows, "terminal") /\ Answered(rows)
    BY <1>2, <1>6, <1>7, <1>8, <1>15 DEF Route, Fits
  <2>2. CASE turn' = turn /\ Only(t, "prepare")
    BY <1>4, <2>1, <2>2
  <2>3. CASE turn' = turn /\ Only(t, "fail")
    BY <1>4, <2>1, <2>3
  <2>4. CASE /\ turn' = [turn EXCEPT ![t].direct = TRUE, ![t].said = {0}, ![t].next = "answer"]
             /\ Only(t, "say")
    <3>1. turn'[t] = [l EXCEPT !.direct = TRUE, !.said = {0}, !.next = "answer"]
      BY <2>4 DEF TypeInv, ThreadTypeOK
    <3>2. turn'[t].said = {0} /\ turn'[t].round = 0
      BY <1>1, <2>1, <3>1 DEF Local
    <3>3. pc'[t] = "say" /\ shown'[t] = seen /\ log'[t] = rows
      BY <2>4, OnlyGone
    <3>4. seen \subseteq {0}
      BY <1>8, <2>1
    <3>5. QED
      BY <2>1, <3>2, <3>3, <3>4 DEF Whole
  <2>5. QED
    BY <1>15, <2>2, <2>3, <2>4 DEF Route
<1>16. CASE Prepare(t)
  <2>1. pc[t] = "prepare" /\ ~Says(rows, "terminal") /\ Answered(rows) /\ log' = log /\ shown' = shown
    BY <1>6, <1>7, <1>16 DEF Prepare
  <2>2. PICK to \in {"attempt", "fail"} : pc' = [pc EXCEPT ![t] = to]
    BY <1>16 DEF Prepare, Goes
  <2>3. pc'[t] = to
    BY <1>1, <2>2 DEF TypeInv, ThreadTypeOK
  <2>4. turn'[t].said = l.said
    <3>1. CASE turn' = [turn EXCEPT ![t].round = @ + 1]
      <4>1. turn'[t] = [l EXCEPT !.round = l.round + 1]
        BY <3>1 DEF TypeInv, ThreadTypeOK
      <4>2. QED
        BY <1>1, <4>1 DEF Local
    <3>2. CASE turn' = [turn EXCEPT ![t].round = @ + 1, ![t].next = "deliver"]
      <4>1. turn'[t] = [l EXCEPT !.round = l.round + 1, !.next = "deliver"]
        BY <3>2 DEF TypeInv, ThreadTypeOK
      <4>2. QED
        BY <1>1, <4>1 DEF Local
    <3>3. QED
      BY <1>16, <3>1, <3>2 DEF Prepare
  <2>5. QED
    BY <2>1, <2>3, <2>4 DEF Whole
<1>17. CASE Attempt(t)
  BY <1>1, <1>3, <1>6, <1>7, <1>17 DEF Attempt, EventKind
<1>18. CASE Stream(t)
  <2>1. pc[t] = "stream" /\ ~Says(rows, "terminal") /\ Answered(rows)
    BY <1>6, <1>7, <1>18 DEF Stream
  <2>2. CASE /\ turn' = [turn EXCEPT ![t].said = @ \cup {turn[t].round}, ![t].next = "stream"]
             /\ Only(t, "say")
    <3>1. turn'[t] = [l EXCEPT !.said = l.said \cup {l.round}, !.next = "stream"]
      BY <2>2 DEF TypeInv, ThreadTypeOK
    <3>2. turn'[t].said = l.said \cup {l.round} /\ turn'[t].round = l.round
      BY <1>1, <3>1 DEF Local
    <3>3. pc'[t] = "say" /\ shown'[t] = seen /\ log'[t] = rows
      BY <2>2, OnlyGone
    <3>4. QED
      BY <2>1, <3>2, <3>3 DEF Whole
  <2>3. ASSUME NEW to, StreamOver(t, to)
        PROVE  Only(t, to) /\ turn'[t].said = l.said /\ turn'[t].round = l.round
    <3>1. turn'[t] = [l EXCEPT !.target = 0] /\ Only(t, to)
      BY <2>3 DEF StreamOver, TypeInv, ThreadTypeOK
    <3>2. QED
      BY <1>1, <3>1 DEF Local
  <2>4. CASE StreamOver(t, "call")
    BY <1>4, <2>1, <2>3, <2>4
  <2>5. CASE StreamOver(t, IF l.said = {} THEN "settle" ELSE "answer")
    <3>1. CASE l.said = {}
      BY <1>4, <2>1, <2>3, <2>5, <3>1
    <3>2. CASE l.said # {}
      BY <1>4, <2>1, <2>3, <2>5, <3>2
    <3>3. QED
      BY <3>1, <3>2
  <2>6. CASE turn' = [turn EXCEPT ![t].next = "end", ![t].target = 0] /\ Only(t, "report")
    <3>1. turn'[t] = [l EXCEPT !.next = "end", !.target = 0]
      BY <2>6 DEF TypeInv, ThreadTypeOK
    <3>2. turn'[t].said = l.said /\ turn'[t].round = l.round
      BY <1>1, <3>1 DEF Local
    <3>3. QED
      BY <1>4, <2>1, <2>6, <3>2
  <2>7. QED
    BY <1>18, <2>2, <2>4, <2>5, <2>6 DEF Stream
<1>181. CASE SendPayload(t)
  <2>1. PICK c \in 1..CHAIN : turn' = [turn EXCEPT ![t].target = c]
    BY <1>181 DEF SendPayload
  <2>2. turn'[t] = [l EXCEPT !.target = c]
    BY <2>1 DEF TypeInv, ThreadTypeOK
  <2>3. turn'[t].said = l.said /\ turn'[t].round = l.round /\ turn'[t].next = l.next
    BY <1>1, <2>2 DEF Local
  <2>4. pc[t] = "stream" /\ UNCHANGED <<pc, log, shown>>
    BY <1>181 DEF SendPayload
  <2>5. QED
    BY <2>3, <2>4 DEF Whole
<1>19. CASE ToolCall(t)
  <2>1. pc[t] = "call" /\ ~Says(rows, "terminal")
    BY <1>6, <1>19 DEF ToolCall
  <2>2. "tool_call" \in EventKind /\ "run" \in TurnPC
    BY DEF EventKind, TurnPC
  <2>3. /\ pc'[t] = "deliver" /\ shown'[t] = seen
        /\ turn'[t].next = "run" /\ turn'[t].said = l.said
        /\ log'[t] = Append(rows, Entry("tool_call", {}))
    <3>1. /\ log' = [log EXCEPT ![t] = Append(@, Entry("tool_call", {}))]
          /\ turn' = [turn EXCEPT ![t].next = "run"]
          /\ Goes(t, "deliver")
          /\ shown' = shown
      BY <1>19 DEF ToolCall
    <3>2. QED
      BY <2>2, <3>1, RowAndLocals, ZenonT(60)
  <2> DEFINE new == Append(rows, Entry("tool_call", {}))
  <2>4. /\ \A k : Says(new, k) => Says(rows, k) \/ k = "tool_call"
        /\ AnsweredInTime(rows) => AnsweredInTime(new)
    BY <1>1, <2>2, RowAppended
  <2> HIDE DEF new
  <2>5. Whole("deliver", turn'[t], new, seen)
    BY <2>1, <2>3, <2>4 DEF Whole
  <2>6. QED
    BY <2>3, <2>5 DEF new
<1>20. CASE ToolResult(t)
  <2>1. pc[t] = "run" /\ ~Says(rows, "terminal")
    BY <1>6, <1>20 DEF ToolResult
  <2>2. PICK n \in {"prepare", "settle", "answer"} :
            turn' = [turn EXCEPT ![t].next = n] /\ (n = "settle" => l.said = {})
    <3>1. CASE l.round < MAX_TOOL_ROUNDS
      BY <1>20, <3>1 DEF ToolResult
    <3>2. CASE ~(l.round < MAX_TOOL_ROUNDS) /\ l.said = {}
      BY <1>20, <3>2 DEF ToolResult
    <3>3. CASE ~(l.round < MAX_TOOL_ROUNDS) /\ l.said # {}
      BY <1>20, <3>3 DEF ToolResult
    <3>4. QED
      BY <3>1, <3>2, <3>3
  <2>3. "tool_result" \in EventKind /\ n \in TurnPC
    BY DEF EventKind, TurnPC
  <2>4. /\ pc'[t] = "deliver" /\ shown'[t] = seen
        /\ turn'[t].next = n /\ turn'[t].said = l.said
        /\ log'[t] = Append(rows, Entry("tool_result", {}))
    <3>1. /\ log' = [log EXCEPT ![t] = Append(@, Entry("tool_result", {}))]
          /\ Goes(t, "deliver")
          /\ shown' = shown
      BY <1>20 DEF ToolResult
    <3>2. QED
      BY <2>2, <2>3, <3>1, RowAndLocals, ZenonT(60)
  <2> DEFINE new == Append(rows, Entry("tool_result", {}))
  <2>5. /\ \A k : Says(new, k) => Says(rows, k) \/ k = "tool_result"
        /\ Answered(new)
        /\ AnsweredInTime(rows) => AnsweredInTime(new)
    BY <1>1, <2>3, RowAppended
  <2> HIDE DEF new
  <2>6. Whole("deliver", turn'[t], new, seen)
    BY <2>1, <2>2, <2>4, <2>5 DEF Whole
  <2>7. QED
    BY <2>4, <2>6 DEF new
<1>21. CASE Say(t)
  <2>1. pc[t] = "say" /\ l.next \in {"stream", "answer"} /\ ~Says(rows, "terminal") /\ Answered(rows)
    BY <1>2, <1>6, <1>7, <1>21 DEF Say, Fits
  <2>2. /\ pc'[t] = l.next /\ turn'[t] = l /\ log'[t] = rows
        /\ shown'[t] = seen \cup {l.round}
    BY <1>1, <1>21 DEF Say, Goes, TypeInv, ThreadTypeOK, StateTypeOK
  <2>3. QED
    BY <2>1, <2>2 DEF Whole
<1>22. CASE Deliver(t)
  <2>1. /\ pc[t] = "deliver" /\ l.next \in {"run", "prepare", "settle", "answer", "end"}
        /\ turn' = turn /\ Only(t, l.next)
    BY <1>2, <1>22 DEF Deliver, Fits
  <2>2. /\ l.next = "settle" => l.said \subseteq Told(rows)
        /\ l.next = "prepare" => Answered(rows)
        /\ Says(rows, "terminal") => l.next = "end"
    BY <2>1 DEF Whole
  <2>3. QED
    BY <1>4, <2>1, <2>2
<1>23. CASE NoticeCancel(t)
  BY <1>4, <1>23 DEF NoticeCancel
<1>24. CASE Report(t)
  BY <1>4, <1>6, <1>24 DEF Report
<1>25. CASE Answer(t)
  <2>1. "assistant_message" \in EventKind \ {"terminal", "tool_call"}
    BY DEF EventKind
  <2>2. QED
    BY <1>1, <1>3, <1>6, <1>25, <2>1 DEF Answer
<1>26. CASE Complete(t)
  <2>1. pc[t] = "complete" /\ l.said \subseteq Told(rows)
    BY <1>26 DEF Complete, Whole
  <2>2. "turn_completed" \in EventKind \ {"terminal", "tool_call"}
    BY DEF EventKind
  <2>3. QED
    BY <1>1, <1>3, <1>6, <1>26, <2>1, <2>2 DEF Complete
<1>27. CASE Settle(t)
  <2>1. pc[t] = "settle" /\ l.said \subseteq Told(rows)
    BY <1>27 DEF Settle, Whole
  <2>2. QED
    BY <1>5, <1>6, <1>27, <2>1 DEF Settle
<1>28. CASE Terminate(t)
  <2>1. pc[t] = "terminal" /\ seen \subseteq Told(rows)
    BY <1>28 DEF Terminate, Whole
  <2>2. "terminal" \in EventKind /\ "end" \in TurnPC
    BY DEF EventKind, TurnPC, Ended
  <2>3. PICK to \in {"deliver", "end"} : Goes(t, to)
    BY <1>28 DEF Terminate
  <2>4. /\ pc'[t] = to /\ shown'[t] = seen
        /\ turn'[t].next = "end" /\ turn'[t].said = l.said
        /\ log'[t] = Append(rows, Entry("terminal", {}))
    <3>1. /\ log' = [log EXCEPT ![t] = Append(@, Entry("terminal", {}))]
          /\ turn' = [turn EXCEPT ![t].next = "end"]
          /\ shown' = shown
      BY <1>28 DEF Terminate
    <3>2. QED
      BY <2>2, <2>3, <3>1, RowAndLocals, ZenonT(60)
  <2> DEFINE new == Append(rows, Entry("terminal", {}))
  <2>5. /\ Told(rows) \subseteq Told(new)
        /\ AnsweredInTime(rows) => AnsweredInTime(new)
    BY <1>1, <2>2, RowAppended
  <2> HIDE DEF new
  <2>6. Whole(to, turn'[t], new, seen)
    BY <2>1, <2>4, <2>5 DEF Whole
  <2>7. QED
    BY <2>4, <2>6 DEF new
<1>29. CASE CancelTurn(t)
  <2>1. "turn_cancelled" \in EventKind \ {"terminal", "tool_call"}
    BY DEF EventKind
  <2>2. QED
    BY <1>1, <1>3, <1>6, <1>29, <2>1 DEF CancelTurn
<1>30. CASE MarkCancelled(t)
  BY <1>5, <1>30 DEF MarkCancelled
<1>31. CASE Fail(t)
  <2>1. "error" \in EventKind \ {"terminal", "tool_call"}
    BY DEF EventKind
  <2>2. QED
    BY <1>1, <1>3, <1>6, <1>31, <2>1 DEF Fail
<1>32. CASE MarkError(t)
  <2>1. pc[t] = "mark_error" /\ ~Says(rows, "terminal") /\ log' = log /\ shown' = shown
    BY <1>6, <1>32 DEF MarkError
  <2>2. PICK to \in {"deliver", "end"} : pc' = [pc EXCEPT ![t] = to]
    BY <1>32 DEF MarkError, Goes
  <2>3. pc'[t] = to
    BY <1>1, <2>2 DEF TypeInv, ThreadTypeOK
  <2>4. turn'[t] = [l EXCEPT !.next = "end"]
    BY <1>32 DEF MarkError, TypeInv, ThreadTypeOK
  <2>5. turn'[t].said = l.said /\ turn'[t].next = "end"
    BY <1>1, <2>4 DEF Local
  <2>6. QED
    BY <2>1, <2>3, <2>5 DEF Whole
<1>33. QED
  BY <1>181, <1>10, <1>11, <1>12, <1>13, <1>14, <1>15, <1>16, <1>17, <1>18, <1>19, <1>20,
     <1>21, <1>22, <1>23, <1>24, <1>25, <1>26, <1>27, <1>28, <1>29, <1>30, <1>31,
     <1>32 DEF TurnStep

\* A thread writes its own rows and locals only.
LEMMA TurnAlone ==
    ASSUME TypeInv, NEW t \in Turns, TurnStep(t), NEW u \in Turns, u # t
    PROVE  pc'[u] = pc[u] /\ turn'[u] = turn[u] /\ log'[u] = log[u] /\ shown'[u] = shown[u]
<1>0. u \in Requests /\ t \in Requests
  BY DEF Requests
<1>1. pc'[u] = pc[u] /\ log'[u] = log[u]
  <2>1. PICK place \in TurnPC : Effect(t, place)
    BY TurnStepEffect
  <2>2. Goes(t, place) /\ Writes(t)
    BY <2>1 DEF Effect
  <2>3. QED
    BY <1>0, <2>2 DEF Goes, Writes, TypeInv, ThreadTypeOK
<1>2. shown'[u] = shown[u]
  <2>1. CASE Say(t)
    BY <2>1 DEF Say, TypeInv, StateTypeOK
  <2>2. CASE ~Say(t)
    BY <2>2 DEF TurnStep, NoteResume, ClearCancel, AskUser, MarkRunning, Announce, Route,
                Prepare, Attempt, SendPayload, Stream, StreamOver, ToolCall, ToolResult, Deliver, NoticeCancel,
                Report, Answer, Complete, Settle, Terminate, CancelTurn, MarkCancelled,
                Fail, MarkError, append_event, update_session, Only
  <2>3. QED
    BY <2>1, <2>2
<1>3. turn'[u] = turn[u]
  <2> USE DEF TypeInv, ThreadTypeOK
  <2>1. CASE Route(t)
    BY <2>1 DEF Route
  <2>2. CASE Prepare(t)
    BY <2>2 DEF Prepare
  <2>3. CASE Stream(t) \/ SendPayload(t)
    BY <2>3 DEF Stream, StreamOver, SendPayload
  <2>4. CASE ToolCall(t) \/ ToolResult(t) \/ Terminate(t) \/ MarkError(t)
    BY <2>4 DEF ToolCall, ToolResult, Terminate, MarkError
  <2>5. CASE \/ NoteResume(t) \/ ClearCancel(t) \/ AskUser(t) \/ MarkRunning(t)
             \/ Announce(t) \/ Attempt(t) \/ Say(t) \/ Deliver(t) \/ NoticeCancel(t)
             \/ Report(t) \/ Answer(t) \/ Complete(t) \/ Settle(t) \/ CancelTurn(t)
             \/ MarkCancelled(t) \/ Fail(t)
    BY <2>5 DEF NoteResume, ClearCancel, AskUser, MarkRunning, Announce, Attempt, Say,
                Deliver, NoticeCancel, Report, Answer, Complete, Settle, CancelTurn,
                MarkCancelled, Fail, append_event, update_session
  <2>6. QED
    BY <2>1, <2>2, <2>3, <2>4, <2>5 DEF TurnStep
<1>4. QED
  BY <1>1, <1>2, <1>3

\* A turn that has just come in.
LEMMA BeginsWhole ==
    ASSUME TypeInv, WholeInv, NEW t \in Turns,
           NEW kind \in {"message", "resume", "preview"}, NEW asks \in BOOLEAN,
           NEW to \in {"clear", "resume"}, Begins(t, kind, asks, to)
    PROVE  WholeInv'
<1>1. /\ pc[t] = "new" /\ Only(t, to)
      /\ turn' = [turn EXCEPT ![t] = [NewLocal EXCEPT !.kind = kind, !.asks = asks]]
  BY DEF Begins
<1>2. ASSUME NEW u \in Turns
      PROVE  Whole(pc'[u], turn'[u], log'[u], shown'[u])
  <2>1. u \in Requests /\ Whole(pc[u], turn[u], log[u], shown[u])
    BY DEF Requests, WholeInv
  <2>2. CASE u = t
    <3>1. pc'[u] = to /\ shown'[u] = shown[u] /\ log'[u] = log[u]
      BY <1>1, <2>2, OnlyGone
    <3>2. log[u] = <<>> /\ shown[u] = {}
      BY <1>1, <2>1, <2>2 DEF Whole, Fresh
    <3>3. DOMAIN log[u] = {}
      BY <3>2
    <3>4. Told(log[u]) = {} /\ ~Says(log[u], "terminal") /\ Answered(log[u]) /\ AnsweredInTime(log[u])
      BY <3>3 DEF Told, Says, Answered, AnsweredInTime
    <3>5. QED
      BY <3>1, <3>2, <3>4 DEF Whole
  <2>3. CASE u # t
    <3>1. pc'[u] = pc[u] /\ shown'[u] = shown[u] /\ log'[u] = log[u] /\ turn'[u] = turn[u]
      BY <1>1, <2>1, <2>3 DEF Only, Goes, TypeInv, ThreadTypeOK
    <3>2. QED
      BY <2>1, <3>1
  <2>4. QED
    BY <2>2, <2>3
<1>3. QED
  BY <1>2 DEF WholeInv

\* A thread that is gone, whether its browser hung up or its process died.
LEMMA WholeLeft ==
    ASSUME NEW place, NEW local, NEW rows, NEW seen, Whole(place, local, rows, seen),
           NEW to \in {"dropped", "dead"}
    PROVE  Whole(to, local, rows, seen)
  BY DEF Whole, Leaving, Asking, Fresh

LEMMA NextWholeInv ==
    ASSUME TypeInv, WholeInv, [Next]_vars
    PROVE  WholeInv'
<1>0. /\ Turns \subseteq Requests /\ Cancels \subseteq Requests
      /\ \A c \in Cancels, t \in Turns : c # t
      /\ log \in [Requests -> Seq(Row)]
      /\ pc \in [Requests -> TurnPC \cup CancelPC]
  BY SessionAssumption DEF Requests, TypeInv, ThreadTypeOK
<1>1. CASE UNCHANGED vars
  BY <1>1 DEF vars, WholeInv
<1>2. ASSUME NEW t \in Turns, SendMessage(t) \/ Preview(t) \/ Resume(t)
      PROVE  WholeInv'
  <2>1. PICK kind \in {"message", "resume", "preview"}, asks \in BOOLEAN, to \in {"clear", "resume"} :
            Begins(t, kind, asks, to)
    BY <1>2 DEF SendMessage, Preview, Resume
  <2>2. QED
    BY <2>1, BeginsWhole
<1>3. ASSUME NEW t \in Turns, HangUp(t)
      PROVE  WholeInv'
  <2>1. turn' = turn /\ Only(t, "dropped")
    BY <1>3 DEF HangUp
  <2>2. ASSUME NEW u \in Turns
        PROVE  Whole(pc'[u], turn'[u], log'[u], shown'[u])
    <3>1. Whole(pc[u], turn[u], log[u], shown[u])
      BY DEF WholeInv
    <3>2. pc'[u] \in {pc[u], "dropped"} /\ log' = log /\ shown' = shown
      BY <1>0, <2>1 DEF Only, Goes
    <3>3. QED
      BY <2>1, <3>1, <3>2, WholeLeft
  <2>3. QED
    BY <2>2 DEF WholeInv
<1>4. ASSUME NEW t \in Turns, TurnStep(t)
      PROVE  WholeInv'
  <2>1. ASSUME NEW u \in Turns
        PROVE  Whole(pc'[u], turn'[u], log'[u], shown'[u])
    <3>1. Whole(pc[u], turn[u], log[u], shown[u])
      BY DEF WholeInv
    <3>2. CASE u = t
      BY <1>4, <3>1, <3>2, WholeStep
    <3>3. CASE u # t
      BY <1>4, <3>1, <3>3, TurnAlone
    <3>4. QED
      BY <3>2, <3>3
  <2>2. QED
    BY <2>1 DEF WholeInv
<1>5. ASSUME NEW c \in Cancels, RequestCancel(c) \/ CancelStep(c)
      PROVE  WholeInv'
  <2>1. turn' = turn /\ shown' = shown
    BY <1>5 DEF RequestCancel, CancelStep, SetCancel, NoteCancel, MarkCancelRequested,
                Only, append_event, update_session
  <2>2. \E to : Goes(c, to)
    BY <1>5 DEF RequestCancel, CancelStep, SetCancel, NoteCancel, MarkCancelRequested,
                Only, append_event, update_session
  <2>3. log' = log \/ \E row : log' = [log EXCEPT ![c] = row]
    BY <1>5 DEF RequestCancel, CancelStep, SetCancel, NoteCancel, MarkCancelRequested,
                Only, append_event, update_session
  <2>4. \A u \in Turns : pc'[u] = pc[u] /\ log'[u] = log[u]
    BY <1>0, <2>2, <2>3 DEF Goes
  <2>5. QED
    BY <2>1, <2>4 DEF WholeInv
<1>6. CASE Restart
  <2>1. turn' = turn /\ shown' = shown /\ log' = log
    BY <1>6 DEF Restart
  <2>2. ASSUME NEW u \in Turns
        PROVE  Whole(pc'[u], turn'[u], log'[u], shown'[u])
    <3>1. Whole(pc[u], turn[u], log[u], shown[u])
      BY DEF WholeInv
    <3>2. pc'[u] \in {pc[u], "dead"}
      BY <1>0, <1>6 DEF Restart
    <3>3. QED
      BY <2>1, <3>1, <3>2, WholeLeft
  <2>3. QED
    BY <2>2 DEF WholeInv
<1>7. QED
  BY <1>1, <1>2, <1>3, <1>4, <1>5, <1>6 DEF Next

LEMMA WholeInvSuffices == WholeInv => TurnLogIsWhole
<1> SUFFICES ASSUME WholeInv PROVE TurnLogIsWhole
  OBVIOUS
<1>1. AnswerIsWhole
  <2> SUFFICES ASSUME NEW t \in Turns, "terminal" \in Kinds(t)
               PROVE  shown[t] \subseteq UNION {log[t][i].text : i \in DOMAIN log[t]}
    BY DEF AnswerIsWhole
  <2>1. Says(log[t], "terminal")
    BY DEF Kinds, Says
  <2>2. shown[t] \subseteq Told(log[t])
    BY <2>1 DEF WholeInv, Whole
  <2>3. QED
    BY <2>2 DEF Told
<1>2. CallsAreAnswered
  <2>1. \A t \in Turns : AnsweredInTime(log[t])
    BY DEF WholeInv, Whole
  <2>2. QED
    BY <2>1 DEF CallsAreAnswered, AnsweredInTime
<1>3. QED
  BY <1>1, <1>2 DEF TurnLogIsWhole

\* What a turn leaves in the log is the whole of it, however its rounds end and
\* whoever hangs up, cancels or restarts meanwhile: a turn that ended well stored all
\* the text its browser was shown, and the model was asked again only after its tool
\* had answered.
THEOREM TurnLogsWhole == Spec => []TurnLogIsWhole
<1>1. Init => TypeInv /\ WholeInv
  BY InitTypeInv, InitWholeInv
<1>2. TypeInv /\ WholeInv /\ [Next]_vars => TypeInv' /\ WholeInv'
  BY NextTypeInv, NextWholeInv
<1>3. WholeInv => TurnLogIsWhole
  BY WholeInvSuffices
<1>4. QED
  BY <1>1, <1>2, <1>3, PTL DEF Spec
================================================================================
