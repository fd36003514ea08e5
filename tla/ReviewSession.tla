----------------------------- MODULE ReviewSession -----------------------------
(***************************************************************************)
(* One review session of the workbench: the turns of                       *)
(* ReviewAgentRuntime (agent/runtime.py), the status and the event log     *)
(* Store keeps for it (store.py), and the HTTP threads that start a turn,  *)
(* resume one, ask for a preview, cancel, or hang up (workbench/server.py).*)
(*                                                                         *)
(* Every request is served by a thread of its own.  Store serialises its   *)
(* writes, one statement per lock, and nothing holds a lock across two of  *)
(* them: each write of the log, of the status or of the cancellation flag  *)
(* is one step of its thread.  A turn is a generator: at each event it     *)
(* yields the runtime tests the flag before the event goes out.            *)
(*                                                                         *)
(* The log is kept per request: the interleaving of two requests' rows is  *)
(* not told apart, the order of one request's rows is.                     *)
(***************************************************************************)
EXTENDS Naturals, Sequences, FiniteSets

CONSTANTS
    Turns,              \* requests that may run a turn, each served once
    Cancels,            \* requests that may cancel, each served once
    MAX_TOOL_ROUNDS,    \* model calls a turn may make (6 in the code)
    CHAIN               \* candidates of the route chain; the first is the session's own

ASSUME SessionAssumption ==
    /\ Turns \cap Cancels = {}
    /\ MAX_TOOL_ROUNDS \in Nat \ {0} /\ CHAIN \in Nat \ {0}

Requests == Turns \cup Cancels

VARIABLES
    status,     \* status of the session's row
    cancel,     \* the session's cancellation flag, in memory
    pc,         \* request -> where its thread is
    turn,       \* turn -> the locals of its thread
    log,        \* request -> the events it has appended, in order
    audits,     \* turn -> outbound payloads recorded as allowed: one a round, in order
    sent,       \* turn -> rounds whose payload has gone to a provider
    shown,      \* turn -> rounds whose text went out to the browser
    stopped,    \* turns that were running when some request set the flag
    recovered   \* runtime_recovered events in the log

vars == <<status, cancel, pc, turn, log, audits, sent, shown, stopped, recovered>>

SessionStatus == {"idle", "running", "cancel_requested", "cancelled", "error",
                  "interrupted"}
EventKind == {"user_message", "turn_started", "provider_attempt", "tool_call",
              "tool_result", "assistant_message", "turn_completed", "terminal",
              "error", "turn_cancel_requested", "turn_cancelled", "turn_resumed"}

\* Where a turn's thread may be: at a write, at an event it yields ("say",
\* "deliver", "report"), or past its end.
Ended == {"end", "dropped", "dead"}
TurnPC == {"new", "resume", "clear", "ask", "mark", "announce", "route",
           "prepare", "attempt", "stream", "say", "call", "run", "deliver",
           "answer", "complete", "settle", "terminal", "cancelled",
           "mark_cancelled", "report", "fail", "mark_error"} \cup Ended
CancelPC == {"new", "set", "note", "mark", "end", "dead"}

Rounds == 0..MAX_TOOL_ROUNDS
Local == [kind : {"message", "resume", "preview"},
          direct : BOOLEAN,             \* answered without a model's rounds
          asks : BOOLEAN,               \* record_user_message
          round : Rounds,
          target : 0..CHAIN,            \* candidate the round's payload last went to
          said : SUBSET Rounds,         \* assistant_text, as the rounds it came from
          next : TurnPC]                \* where it goes once its event is out
NewLocal == [kind |-> "message", direct |-> FALSE, asks |-> TRUE, round |-> 0,
             target |-> 0, said |-> {}, next |-> "end"]

Entry(kind, text) == [kind |-> kind, text |-> text]
Kinds(r) == {log[r][i].kind : i \in DOMAIN log[r]}

Busy == {"running", "cancel_requested"}
Resumable == {"interrupted", "cancelled", "error", "cancel_requested"}

\* Turns whose thread is serving the session now.
Live == {t \in Turns : pc[t] \notin {"new"} \cup Ended}

-----------------------------------------------------------------------------
(* The three kinds of step a thread is made of. *)

Goes(r, to) == pc' = [pc EXCEPT ![r] = to]

\* Store.append_event: one more row, whatever else the log holds.
append_event(r, kind, text, to) ==
    /\ log' = [log EXCEPT ![r] = Append(@, Entry(kind, text))]
    /\ Goes(r, to)
    /\ UNCHANGED <<status, cancel, turn, audits, sent, shown, stopped, recovered>>

\* Store.update_session with a status: the last writer wins.
update_session(r, s, to) ==
    /\ status' = s
    /\ Goes(r, to)
    /\ UNCHANGED <<cancel, turn, log, audits, sent, shown, stopped, recovered>>

Only(r, to) ==
    /\ Goes(r, to)
    /\ UNCHANGED <<status, cancel, log, audits, sent, shown, stopped, recovered>>

-----------------------------------------------------------------------------
(* The start of a turn. *)

Begins(t, kind, asks, to) ==
    /\ pc[t] = "new"
    /\ turn' = [turn EXCEPT ![t] = [NewLocal EXCEPT !.kind = kind, !.asks = asks]]
    /\ Only(t, to)

\* Nothing looks at the session's status: a message is taken while a turn runs.
SendMessage(t) == Begins(t, "message", TRUE, "clear")

\* session_preview runs the turn dry; the prompt is recorded all the same.
Preview(t) == Begins(t, "preview", TRUE, "clear")

\* A resume without a text needs a message to reuse.
Resume(t) ==
    /\ status \in Resumable
    /\ \E asks \in BOOLEAN :
          /\ ~asks => \E u \in Turns : "user_message" \in Kinds(u)
          /\ Begins(t, "resume", asks, "resume")

NoteResume(t) ==
    /\ pc[t] = "resume"
    /\ append_event(t, "turn_resumed", {}, "clear")

\* Mutated form: a new turn keeps the flag it finds.
ClearCancel_kept(t) ==
    /\ pc[t] = "clear"
    /\ turn' = turn
    /\ Only(t, IF turn[t].asks THEN "ask" ELSE "mark")

ClearCancel(t) ==
    /\ pc[t] = "clear"
    /\ cancel' = FALSE
    /\ Goes(t, IF turn[t].asks THEN "ask" ELSE "mark")
    /\ UNCHANGED <<status, turn, log, audits, sent, shown, stopped, recovered>>

AskUser(t) ==
    /\ pc[t] = "ask"
    /\ append_event(t, "user_message", {},
                    IF turn[t].kind = "preview" THEN "end" ELSE "mark")

MarkRunning(t) ==
    /\ pc[t] = "mark"
    /\ update_session(t, "running", "announce")

Announce(t) ==
    /\ pc[t] = "announce"
    /\ append_event(t, "turn_started", {}, "route")

\* A local agent or the offline text answers directly, in one piece; a missing
\* model or a failed agent ends the turn in an error.
Route(t) ==
    /\ pc[t] = "route"
    /\ \/ /\ turn' = turn
          /\ Only(t, "prepare")
       \/ /\ turn' = [turn EXCEPT ![t].direct = TRUE, ![t].said = {0},
                                  ![t].next = "answer"]
          /\ Only(t, "say")
       \/ /\ turn' = turn
          /\ Only(t, "fail")

-----------------------------------------------------------------------------
(* The rounds of a provider turn. *)

\* Mutated form: the payload is redacted and audited once per turn.
Prepare_once(t) ==
    /\ pc[t] = "prepare"
    /\ turn' = [turn EXCEPT ![t].round = @ + 1]
    /\ audits' = IF turn[t].round = 0 THEN [audits EXCEPT ![t] = @ + 1] ELSE audits
    /\ Goes(t, "attempt")
    /\ UNCHANGED <<status, cancel, log, sent, shown, stopped, recovered>>

\* A payload that fails its check is recorded as blocked and never sent.
Prepare(t) ==
    /\ pc[t] = "prepare"
    /\ \/ /\ turn' = [turn EXCEPT ![t].round = @ + 1]
          /\ audits' = [audits EXCEPT ![t] = @ + 1]
          /\ Goes(t, "attempt")
       \/ /\ turn' = [turn EXCEPT ![t].round = @ + 1, ![t].next = "deliver"]
          /\ Goes(t, "fail")
          /\ UNCHANGED audits
    /\ UNCHANGED <<status, cancel, log, sent, shown, stopped, recovered>>

Attempt(t) ==
    /\ pc[t] = "attempt"
    /\ append_event(t, "provider_attempt", {}, "stream")

\* stream_chat_with_route_chain: the payload goes to a candidate, again to the same one,
\* or to a later one, until something has come back.  The round's one row in the audit
\* names the first candidate, whoever it goes to.
SendPayload(t) ==
    /\ pc[t] = "stream"
    /\ turn[t].round \notin turn[t].said
    /\ \E c \in 1..CHAIN :
          /\ turn[t].target <= c
          /\ turn' = [turn EXCEPT ![t].target = c]
    /\ sent' = [sent EXCEPT ![t] = @ \cup {turn[t].round}]
    /\ UNCHANGED <<status, cancel, pc, log, audits, shown, stopped, recovered>>

StreamOver(t, to) ==
    /\ turn' = [turn EXCEPT ![t].target = 0]
    /\ Only(t, to)

\* Text comes back, at most once a round here, then a tool is called, or the answer is
\* over, or the chain fails at any point.  The offline candidate takes no payload and
\* calls no tool; where all candidates rest nothing is sent either.
Stream(t) ==
    /\ pc[t] = "stream"
    /\ \/ /\ turn[t].round \notin turn[t].said
          /\ turn' = [turn EXCEPT ![t].said = @ \cup {turn[t].round},
                                  ![t].next = "stream"]
          /\ Only(t, "say")
       \/ turn[t].target # 0 /\ StreamOver(t, "call")
       \/ StreamOver(t, IF turn[t].said = {} THEN "settle" ELSE "answer")
       \/ /\ turn' = [turn EXCEPT ![t].next = "end", ![t].target = 0]
          /\ Only(t, "report")

ToolCall(t) ==
    /\ pc[t] = "call"
    /\ log' = [log EXCEPT ![t] = Append(@, Entry("tool_call", {}))]
    /\ turn' = [turn EXCEPT ![t].next = "run"]
    /\ Goes(t, "deliver")
    /\ UNCHANGED <<status, cancel, audits, sent, shown, stopped, recovered>>

\* Mutated form: the round goes on before the tool has answered.
ToolResult_skipped(t) ==
    /\ pc[t] = "run"
    /\ turn' = [turn EXCEPT ![t].next = "end"]
    /\ Only(t, IF turn[t].round < MAX_TOOL_ROUNDS THEN "prepare" ELSE "settle")

\* Mutated form: one round too many.
ToolResult_offByOne(t) ==
    /\ pc[t] = "run"
    /\ log' = [log EXCEPT ![t] = Append(@, Entry("tool_result", {}))]
    /\ turn' = [turn EXCEPT ![t].next =
                  IF turn[t].round <= MAX_TOOL_ROUNDS THEN "prepare" ELSE "settle"]
    /\ Goes(t, "deliver")
    /\ UNCHANGED <<status, cancel, audits, sent, shown, stopped, recovered>>

\* Out of rounds, the turn ends with the text it has.  The artifact card that a
\* proposed rule adds to the log and to the stream is one with its tool_result.
ToolResult(t) ==
    /\ pc[t] = "run"
    /\ log' = [log EXCEPT ![t] = Append(@, Entry("tool_result", {}))]
    /\ turn' = [turn EXCEPT ![t].next =
                  IF turn[t].round < MAX_TOOL_ROUNDS THEN "prepare"
                  ELSE IF turn[t].said = {} THEN "settle" ELSE "answer"]
    /\ Goes(t, "deliver")
    /\ UNCHANGED <<status, cancel, audits, sent, shown, stopped, recovered>>

-----------------------------------------------------------------------------
(* Events going out: the flag is tested, then the frame is written. *)

Say(t) ==
    /\ pc[t] = "say"
    /\ ~cancel
    /\ shown' = [shown EXCEPT ![t] = @ \cup {turn[t].round}]
    /\ Goes(t, turn[t].next)
    /\ UNCHANGED <<status, cancel, turn, log, audits, sent, stopped, recovered>>

Deliver(t) ==
    /\ pc[t] = "deliver"
    /\ ~cancel
    /\ turn' = turn
    /\ Only(t, turn[t].next)

NoticeCancel(t) ==
    /\ pc[t] \in {"say", "deliver"}
    /\ cancel
    /\ turn' = turn
    /\ Only(t, "cancelled")

\* Mutated form: a provider error is tried again without bound.
Report_retries(t) ==
    /\ pc[t] = "report"
    /\ turn' = turn
    /\ Only(t, "stream")

\* A provider error goes out before it is recorded, and untested.
Report(t) ==
    /\ pc[t] = "report"
    /\ turn' = turn
    /\ Only(t, "fail")

\* The browser is gone: the write of the frame fails and the generator is left
\* where it is.
HangUp(t) ==
    /\ \/ pc[t] \in {"say", "deliver"} /\ ~cancel
       \/ pc[t] = "report"
    /\ turn' = turn
    /\ Only(t, "dropped")

-----------------------------------------------------------------------------
(* The three ends of a turn: answered, cancelled, failed. *)

\* Mutated form: only the last round's text is kept.
Answer_lastRound(t) ==
    /\ pc[t] = "answer"
    /\ append_event(t, "assistant_message", turn[t].said \cap {turn[t].round}, "complete")

Answer(t) ==
    /\ pc[t] = "answer"
    /\ append_event(t, "assistant_message", turn[t].said, "complete")

Complete(t) ==
    /\ pc[t] = "complete"
    /\ append_event(t, "turn_completed", {}, "settle")

Settle(t) ==
    /\ pc[t] = "settle"
    /\ update_session(t, "idle", "terminal")

\* The last event goes out untested when a local agent gave the answer.
Terminate(t) ==
    /\ pc[t] = "terminal"
    /\ log' = [log EXCEPT ![t] = Append(@, Entry("terminal", {}))]
    /\ turn' = [turn EXCEPT ![t].next = "end"]
    /\ \/ Goes(t, "deliver")
       \/ turn[t].direct /\ Goes(t, "end")
    /\ UNCHANGED <<status, cancel, audits, sent, shown, stopped, recovered>>

CancelTurn(t) ==
    /\ pc[t] = "cancelled"
    /\ append_event(t, "turn_cancelled", {}, "mark_cancelled")

MarkCancelled(t) ==
    /\ pc[t] = "mark_cancelled"
    /\ update_session(t, "cancelled", "end")

Fail(t) ==
    /\ pc[t] = "fail"
    /\ append_event(t, "error", {}, "mark_error")

\* Mutated form: the session's row is left as it was.
MarkError_unmarked(t) ==
    /\ pc[t] = "mark_error"
    /\ turn' = turn
    /\ Only(t, "end")

\* Only a blocked payload's event goes through the test afterwards.
MarkError(t) ==
    /\ pc[t] = "mark_error"
    /\ status' = "error"
    /\ turn' = [turn EXCEPT ![t].next = "end"]
    /\ Goes(t, IF turn[t].next = "deliver" THEN "deliver" ELSE "end")
    /\ UNCHANGED <<cancel, log, audits, sent, shown, stopped, recovered>>

-----------------------------------------------------------------------------
(* cancel_turn: the status is read without the lock, then three writes. *)

RequestCancel(c) ==
    /\ pc[c] = "new"
    /\ turn' = turn
    /\ Only(c, IF status \in Busy THEN "set" ELSE "end")

SetCancel(c) ==
    /\ pc[c] = "set"
    /\ cancel' = TRUE
    /\ stopped' = stopped \cup Live
    /\ Goes(c, "note")
    /\ UNCHANGED <<status, turn, log, audits, sent, shown, recovered>>

NoteCancel(c) ==
    /\ pc[c] = "note"
    /\ append_event(c, "turn_cancel_requested", {}, "mark")

MarkCancelRequested(c) ==
    /\ pc[c] = "mark"
    /\ update_session(c, "cancel_requested", "end")

-----------------------------------------------------------------------------
(* The process dies with its threads and its flags; the next one recovers the *)
(* session before it serves a request.                                        *)

\* recover_interrupted_sessions.
RecoveredStatus == IF status \in Busy THEN "interrupted" ELSE status

Restart ==
    /\ \E r \in Requests : pc[r] \notin {"new", "dead"}
    /\ status' = RecoveredStatus
    /\ recovered' = recovered + (IF status \in Busy THEN 1 ELSE 0)
    /\ cancel' = FALSE
    /\ pc' = [r \in Requests |-> IF pc[r] = "new" THEN "new" ELSE "dead"]
    /\ UNCHANGED <<turn, log, audits, sent, shown, stopped>>

-----------------------------------------------------------------------------
Init ==
    /\ status = "idle"
    /\ cancel = FALSE
    /\ pc = [r \in Requests |-> "new"]
    /\ turn = [t \in Turns |-> NewLocal]
    /\ log = [r \in Requests |-> <<>>]
    /\ audits = [t \in Turns |-> 0] /\ sent = [t \in Turns |-> {}]
    /\ shown = [t \in Turns |-> {}]
    /\ stopped = {}
    /\ recovered = 0

\* What a request's thread does by itself, once the request has come in.
TurnStep(t) ==
    \/ NoteResume(t) \/ ClearCancel(t) \/ AskUser(t) \/ MarkRunning(t)
    \/ Announce(t) \/ Route(t) \/ Prepare(t) \/ Attempt(t)
    \/ SendPayload(t) \/ Stream(t)
    \/ ToolCall(t) \/ ToolResult(t) \/ Say(t) \/ Deliver(t) \/ NoticeCancel(t)
    \/ Report(t) \/ Answer(t) \/ Complete(t) \/ Settle(t) \/ Terminate(t)
    \/ CancelTurn(t) \/ MarkCancelled(t) \/ Fail(t) \/ MarkError(t)

CancelStep(c) == SetCancel(c) \/ NoteCancel(c) \/ MarkCancelRequested(c)

Next ==
    \/ \E t \in Turns :
          SendMessage(t) \/ Preview(t) \/ Resume(t) \/ TurnStep(t) \/ HangUp(t)
    \/ \E c \in Cancels : RequestCancel(c) \/ CancelStep(c)
    \/ Restart

\* Threads are scheduled and every wait of a turn has a timeout; nobody has to
\* send a request, hang up or restart the process.
Fairness ==
    /\ \A t \in Turns : WF_vars(TurnStep(t))
    /\ \A c \in Cancels : WF_vars(CancelStep(c))

Spec == Init /\ [][Next]_vars /\ Fairness

-----------------------------------------------------------------------------
(* Properties. *)

\* The type of the state.
TypeOK ==
    /\ status \in SessionStatus
    /\ cancel \in BOOLEAN
    /\ pc \in [Requests -> TurnPC \cup CancelPC]
    /\ turn \in [Turns -> Local]
    /\ log \in [Requests -> Seq([kind : EventKind, text : SUBSET Rounds])]
    /\ audits \in [Turns -> Rounds] /\ sent \in [Turns -> SUBSET Rounds]
    /\ shown \in [Turns -> SUBSET Rounds]
    /\ stopped \subseteq Turns
    /\ recovered \in Nat

\* Threads of this process whose write may be the one the status shows: a turn
\* that has announced itself and not ended, or one whose browser hung up.
Runners == {t \in Live : pc[t] \notin {"resume", "clear", "ask", "mark"}}
               \cup {t \in Turns : pc[t] = "dropped"}

\* A session that reads busy has somebody to answer for it in this process: a
\* turn on its way or left by its browser, or a cancel request that was served.
\* However turns, cancellations, errors and restarts interleave, no session is
\* left running by a turn that has ended.
BusyHasOwner ==
    /\ status = "running" => Runners # {}
    /\ status = "cancel_requested" => \E c \in Cancels : pc[c] = "end"

\* Only a turn that was already running when somebody asked to stop is
\* cancelled: a flag left over from an earlier turn or process stops nothing.
OnlyStoppedTurnsCancel ==
    \A t \in Turns : "turn_cancelled" \in Kinds(t) => t \in stopped

Count(t, kind) == Cardinality({i \in DOMAIN log[t] : log[t][i].kind = kind})

\* Whatever goes out was redacted and recorded before: a payload that has gone to a
\* provider - however often, and to whichever candidates of the route chain - is that of a
\* round whose row in the audit was written before it first went out, and no round is in
\* the log as an attempt without a row (_prepare before stream_chat_with_route_chain).
\* There is one row a round, not one a sending: see SendPayload.
AuditedBeforeSent ==
    \A t \in Turns :
        /\ Count(t, "provider_attempt") <= audits[t]
        /\ \A r \in sent[t] : r <= audits[t]

\* The text of a turn that ended well is in the log, all of it: what the browser
\* was shown in any round is part of the stored assistant message.
AnswerIsWhole ==
    \A t \in Turns : "terminal" \in Kinds(t) =>
        shown[t] \subseteq UNION {log[t][i].text : i \in DOMAIN log[t]}

\* A model is asked again only after the tool it called has answered.
CallsAreAnswered ==
    \A t \in Turns : \A i, j \in DOMAIN log[t] :
        /\ i < j
        /\ log[t][i].kind = "tool_call"
        /\ log[t][j].kind = "provider_attempt"
        => \E k \in i..j : log[t][k].kind = "tool_result"

\* What a turn leaves is the whole of it: the text of every round, and of every call
\* the model was asked on after, the answer (_provider_turn).
TurnLogIsWhole == AnswerIsWhole /\ CallsAreAnswered

\* A turn ends, whatever the model keeps asking for: it is answered, cancelled,
\* failed, dropped by its browser, or killed with the process.
TurnsEnd == \A t \in Turns : t \in Live ~> t \notin Live

\* review-agent.md: "A running turn can be stopped."  Once a request has set the
\* flag, the turns it caught show the browser nothing more.
StopStops ==
    [][\A t \in stopped : shown'[t] = shown[t]]_shown

\* server.py on a closed tab: "The turn stays in the local event log, so the
\* conversation resumes where it stopped."  When no thread is at work, the
\* session accepts a resume or is at rest.
DroppedTurnResumes ==
    (\A r \in Requests : pc[r] \in {"new"} \cup Ended) =>
        status \in Resumable \cup {"idle"}
================================================================================
