------------------------------ MODULE AgentLoop ------------------------------
(***************************************************************************)
(* The offline loop (loop.py): it runs a command, freezes what it gave     *)
(* into a run directory, and leaves its outcome, evaluation, case, memory  *)
(* and proposed rule there, one file after the other.  Other loops and     *)
(* captures run at the same time, a process may be killed at or within any *)
(* write, and the user may repeat single steps in any directory by hand    *)
(* (cli.py).  A command is started in one place and told to write under    *)
(* another.  Every capture has the same decision time and mode, so that    *)
(* all compete for the same names.  Prices are the moves since the close   *)
(* of the day of the decision, in percent.  Left out are the files no step *)
(* reads again: the plan, the position check, the review, the ledger, the  *)
(* report and the trace.  A step reads what it needs and writes its file   *)
(* at once.                                                                *)
(***************************************************************************)
EXTENDS Evaluation, Sequences, FiniteSets, FiniteSetsExt

CONSTANTS Worker,      \* processes that loop or capture
          Symbol, Nothing, \* symbols, and none
          Place,       \* directories one is started in, or writes under
          Captured,    \* what the commands of a capture may give: sequences of results
          Toyed,       \* what the toy strategy may give
          Prices,      \* price sources: of some symbols, the moves of some days
          ToyPrices,   \* the one of the package
          MaxSiblings, \* unique_run_dir: 999
          MaxRuns, MaxMishaps \* bounds: runs, and kills and steps by hand

\* codes: the symbols anywhere in what a command printed; chose: it names a candidate, whose
\* symbol is there or not, and whether an invalidation price is; signal: it printed something.
Result == [name : STRING, returncode : Nat, timed_out : BOOLEAN, signal : BOOLEAN, chose : BOOLEAN,
           stop : BOOLEAN, candidate : Symbol \cup {Nothing}, codes : SUBSET Symbol]
Move == [gain : Int, dip : Int, pattern : BOOLEAN]
Horizon == {1, 3}

ASSUME LoopAssumption ==
    /\ Toyed \subseteq Captured /\ Captured \subseteq Seq(Result)
    /\ \A rs \in Captured : \A i \in DOMAIN rs : rs[i].timed_out => rs[i].returncode = 124
    /\ ToyPrices \in Prices
    /\ \A prices \in Prices : \A symbol \in DOMAIN prices :
           DOMAIN prices[symbol] \subseteq Nat /\ prices[symbol] \in [DOMAIN prices[symbol] -> Move]
    /\ Nothing \notin Symbol /\ MaxSiblings \in Nat /\ MaxRuns \in Nat /\ MaxMishaps \in Nat

-----------------------------------------------------------------------------
(* What a capture writes.                                                  *)

Erred(rs) == {i \in DOMAIN rs : rs[i].returncode # 0}
Signals(rs) == {i \in DOMAIN rs \ Erred(rs) : rs[i].signal}

\* Attempts are told apart by name: what a failed one printed counts if another succeeded.
Candidates(rs) == {i \in DOMAIN rs : rs[i].chose /\ \E j \in Signals(rs) : rs[j].name = rs[i].name}

\* The first candidate is the one decided on, even one without a symbol.
derive_decision(rs) ==
    LET chosen == Candidates(rs)
    IN  [label |-> IF Erred(rs) # {} THEN "ERROR" ELSE IF Signals(rs) # {} THEN "ALERT" ELSE "SILENT",
         declared |-> TRUE,
         complete |-> chosen # {} /\ rs[Min(chosen)].stop,
         symbol |-> IF chosen # {} THEN rs[Min(chosen)].candidate ELSE Nothing]

Quality(rs) == [i \in DOMAIN rs |-> IF rs[i].returncode = 0 THEN "ok" ELSE "error"]

_actual_tool_status(r) == IF r.returncode = 0 /\ ~r.timed_out THEN "succeeded" ELSE "failed"

_failure_state(calls) ==
    LET failed == {i \in DOMAIN calls : calls[i] = "failed"}
        trailing == Trailing(Len(calls), failed)
    IN  [count |-> Cardinality(failed), trailing |-> trailing,
         status |-> IF failed = {} THEN "completed" ELSE IF trailing >= 3 THEN "blocked" ELSE "pending_review"]

build_run_envelope(rs) ==
    LET calls == [i \in DOMAIN rs |-> _actual_tool_status(rs[i])]
    IN  [results |-> rs, calls |-> calls, state |-> _failure_state(calls)]

\* What of an envelope is recomputed.
validate_run_envelope(e) ==
    /\ \A i \in DOMAIN e.results : e.calls[i] = _actual_tool_status(e.results[i])
    /\ e.state = _failure_state([i \in DOMAIN e.results |-> _actual_tool_status(e.results[i])])

-----------------------------------------------------------------------------
(* What comes of a decision.                                               *)

\* The symbol an outcome is about; of several that the artifacts name, any.
_derive_symbol(decision, rs, prices) ==
    LET named == {rs[i].candidate : i \in DOMAIN rs} \cap DOMAIN prices
        codes == UNION {rs[i].codes : i \in DOMAIN rs}
    IN  IF decision.symbol # Nothing THEN {decision.symbol}
        ELSE IF named # {} THEN named
        ELSE IF codes # {} THEN IF Cardinality(codes) = 1 THEN codes ELSE {}
        ELSE IF Cardinality(DOMAIN prices) = 1 THEN DOMAIN prices ELSE {}

Later(days) == {day \in days : day > 0}

_select_exit_date(days, horizon) ==
    IF \E day \in Later(days) : day >= horizon
    THEN Min({day \in Later(days) : day >= horizon}) ELSE Max(Later(days))

OutcomeOf(moves, symbol, horizon) ==
    LET exit == _select_exit_date(DOMAIN moves, horizon)
    IN  [symbol |-> symbol, horizon |-> horizon, gain |-> moves[exit].gain,
         adverse |-> Min({moves[day].dip : day \in {d \in Later(DOMAIN moves) : d <= exit}}),
         pattern |-> moves[exit].pattern]

\* The outcomes that may be built of the files of a run: none where it raises.
Outcomes(files, horizon, prices) ==
    IF ~("decision" \in DOMAIN files) \/ files["decision"] = Torn THEN {}
    ELSE {OutcomeOf(prices[symbol], symbol, horizon) :
              symbol \in {s \in _derive_symbol(files["decision"], files["artifacts"], prices) \cap DOMAIN prices :
                             0 \in DOMAIN prices[s] /\ Later(DOMAIN prices[s]) # {}}}

OutcomeFile(horizon) == IF horizon = 1 THEN "outcome_d1" ELSE "outcome_d3"

Judged(decision, outcome) == [of |-> outcome, grade |-> evaluate_decision(decision, outcome).grade]

Legal(files, name) == name \in DOMAIN files /\ files[name] # Torn
Payload(files, name) == IF name \in DOMAIN files THEN files[name] ELSE Nothing

\* The outcome of one day goes before the outcome of three.
CaseOutcome(files) == IF "outcome_d1" \in DOMAIN files THEN "outcome_d1" ELSE "outcome_d3"

\* The cases that may be collected: one, or none where a file cannot be read.
collect_offline_case(files) ==
    IF Torn \in {Payload(files, name) : name \in {"decision", CaseOutcome(files), "eval"}}
       \/ ~Legal(files, "decision") THEN {}
    ELSE {[status |-> IF CaseOutcome(files) \in DOMAIN files THEN "normalized" ELSE "raw",
           decision |-> files["decision"], outcome |-> Payload(files, CaseOutcome(files)),
           evaluation |-> Payload(files, "eval")]}

\* The proposal has one sample, and nobody confirms it.
register_proposal(grade) ==
    [rule |-> grade, champion |-> FALSE, status |-> "challenger"]

\* Nobody takes a file that was cut off for a whole one.
ASSUME CutAssumption ==
    \A rs \in Captured : Torn \notin {rs, Quality(rs), build_run_envelope(rs)}

-----------------------------------------------------------------------------
VARIABLES dirs,     \* the run directories: of each, the files it has
          work,     \* of each process: its run, and the file it writes next
          ended, \* the loops that came to their end
          disturbed, \* directories something other than their own loop wrote into
          runs, mishaps

loopVars == <<dirs, work, ended, disturbed, runs, mishaps>>

FileOrder == <<"artifacts", "manifest", "envelope", "decision", "outcome", "eval", "case", "memory",
               "registry">>

NoWork == [at |-> 0]

LoopInit ==
    /\ dirs = << >>
    /\ work = [w \in Worker |-> NoWork]
    /\ ended = {} /\ disturbed = {}
    /\ runs = 0 /\ mishaps = 0

Put(run, name, content) ==
    [dirs EXCEPT ![run] = [f \in DOMAIN dirs[run] \cup {name} |-> IF f = name THEN content ELSE dirs[run][f]]]

\* As unique_run_dir, but that a directory that exists will do.
unique_run_dir_shared(under, n) == n = 1

\* mkdir refuses a directory that exists: the first name that is free.
unique_run_dir(under, n) ==
    <<under, n>> \notin DOMAIN dirs /\ \A m \in 1 .. n - 1 : <<under, m>> \in DOMAIN dirs

\* The commands have run when the directory is made.
capture_run(w, loops, results) ==
    /\ work[w] = NoWork /\ runs < MaxRuns
    /\ runs' = runs + 1
    /\ \E in, under \in Place, n \in 1 .. MaxSiblings, horizon \in Horizon :
        /\ ~loops => horizon = 1 /\ in = under
        /\ unique_run_dir(under, n)
        /\ dirs' = [run \in DOMAIN dirs \cup {<<under, n>>} |-> IF run \in DOMAIN dirs THEN dirs[run] ELSE << >>]
        /\ work' = [work EXCEPT ![w] = [at |-> 1, loops |-> loops, in |-> in, run |-> <<under, n>>,
                                        horizon |-> horizon, results |-> results, outcome |-> Nothing,
                                        evaluation |-> Nothing]]
    /\ UNCHANGED <<ended, disturbed, mishaps>>

Capture(w) == \E results \in Captured : capture_run(w, FALSE, results)
run_agent_loop(w) == \E results \in Toyed : capture_run(w, TRUE, results)

\* The loop hands build_outcome its directory relative to the one it writes under.
Target(job) == IF FileOrder[job.at] = "outcome" THEN <<job.in, job.run[2]>> ELSE job.run

FileName(job) == IF FileOrder[job.at] = "outcome" THEN OutcomeFile(job.horizon) ELSE FileOrder[job.at]

\* What may be written next: nothing where the step raises.
Made(job) ==
    LET files == IF Target(job) \in DOMAIN dirs THEN dirs[Target(job)] ELSE << >>
        own   == derive_decision(job.results)
    IN  CASE FileOrder[job.at] = "artifacts" -> {job.results}
          [] FileOrder[job.at] = "manifest"  -> {Quality(job.results)}
          [] FileOrder[job.at] = "envelope"  -> {build_run_envelope(job.results)}
          [] FileOrder[job.at] = "decision"  -> {own}
          [] FileOrder[job.at] = "outcome"   -> Outcomes(files, job.horizon, ToyPrices)
          [] FileOrder[job.at] = "eval"      -> {Judged(own, job.outcome)}
          [] FileOrder[job.at] = "case"      -> collect_offline_case(files)
          [] FileOrder[job.at] = "memory"    -> IF Legal(files, "case") THEN {files["case"]} ELSE {}
          [] FileOrder[job.at] = "registry"  -> {register_proposal(job.evaluation.grade)}

Ends(job) == job.at = Len(FileOrder) \/ (~job.loops /\ FileOrder[job.at] = "decision")

WriteStep(w) ==
    LET job == work[w]
    IN  /\ job # NoWork
        /\ \E content \in Made(job) :
            /\ dirs' = Put(Target(job), FileName(job), content)
            /\ work' = [work EXCEPT ![w] =
                  IF Ends(job) THEN NoWork
                  ELSE [job EXCEPT !.at = @ + 1,
                                   !.outcome = IF FileOrder[job.at] = "outcome" THEN content ELSE @,
                                   !.evaluation = IF FileOrder[job.at] = "eval" THEN content ELSE @]]
        /\ ended' = IF Ends(job) /\ job.loops
                       THEN ended \cup {[run |-> job.run, horizon |-> job.horizon, in |-> job.in]} ELSE ended
        /\ disturbed' = IF Target(job) # job.run THEN disturbed \cup {Target(job)} ELSE disturbed
        /\ UNCHANGED <<runs, mishaps>>

Raises(w) ==
    /\ work[w] # NoWork /\ Made(work[w]) = {}
    /\ work' = [work EXCEPT ![w] = NoWork]
    /\ UNCHANGED <<dirs, ended, disturbed, runs, mishaps>>

LoopKilled(w) ==
    /\ work[w] # NoWork /\ mishaps < MaxMishaps
    /\ \/ UNCHANGED <<dirs, disturbed>>
       \/ /\ Made(work[w]) # {}
          /\ dirs' = Put(Target(work[w]), FileName(work[w]), Torn)
          /\ disturbed' = IF Target(work[w]) # work[w].run THEN disturbed \cup {Target(work[w])} ELSE disturbed
    /\ work' = [work EXCEPT ![w] = NoWork]
    /\ mishaps' = mishaps + 1
    /\ UNCHANGED <<ended, runs>>

-----------------------------------------------------------------------------
(* The same steps by hand, in any directory.                               *)

WrittenByHand(run, name, contents) ==
    /\ mishaps < MaxMishaps
    /\ \E content \in contents : dirs' = Put(run, name, content)
    /\ disturbed' = disturbed \cup {run}
    /\ mishaps' = mishaps + 1
    /\ UNCHANGED <<work, ended, runs>>

build_outcome(run) ==
    \E horizon \in Horizon, prices \in Prices :
        WrittenByHand(run, OutcomeFile(horizon), Outcomes(dirs[run], horizon, prices))

evaluate_run(run) ==
    /\ Legal(dirs[run], "decision")
    /\ \E horizon \in Horizon :
        LET decision == dirs[run]["decision"]
            outcome  == OutcomeFile(horizon)
        IN  WrittenByHand(run, "eval",
                IF decision.label = "ERROR" THEN {[of |-> Nothing, grade |-> "not_evaluated"]}
                ELSE IF Legal(dirs[run], outcome) THEN {Judged(decision, dirs[run][outcome])} ELSE {})

collect_case(run) == WrittenByHand(run, "case", collect_offline_case(dirs[run]))

save_memory_record(run) ==
    Legal(dirs[run], "case") /\ WrittenByHand(run, "memory", {dirs[run]["case"]})

LoopNext ==
    \/ \E w \in Worker : Capture(w) \/ run_agent_loop(w) \/ WriteStep(w) \/ Raises(w) \/ LoopKilled(w)
    \/ \E run \in DOMAIN dirs : build_outcome(run) \/ evaluate_run(run) \/ collect_case(run) \/ save_memory_record(run)

LoopSpec == LoopInit /\ [][LoopNext]_loopVars

-----------------------------------------------------------------------------
\* Shape of the state: each directory has at most one process, and names no gap.
LoopTypeOK ==
    /\ DOMAIN dirs \subseteq Place \X (1 .. MaxSiblings)
    /\ \A run \in DOMAIN dirs, m \in 1 .. MaxSiblings : m < run[2] => <<run[1], m>> \in DOMAIN dirs
    /\ \A w \in Worker : work[w] # NoWork =>
        /\ work[w].at \in 1 .. Len(FileOrder) /\ work[w].run \in DOMAIN dirs
        /\ \A v \in Worker \ {w} : work[v] # NoWork => work[v].run # work[w].run
    /\ {s.run : s \in ended} \cup disturbed \subseteq DOMAIN dirs
    /\ runs \in 0 .. MaxRuns /\ mishaps \in 0 .. MaxMishaps

\* The files of one run, of a loop over this horizon.
OneStory(files, horizon) ==
    LET outcome == files[OutcomeFile(horizon)]
    IN  /\ {"decision", OutcomeFile(horizon), "eval", "case", "memory", "registry"} \subseteq DOMAIN files
        /\ outcome \in Outcomes(files, horizon, ToyPrices)
        /\ files["eval"] = Judged(files["decision"], outcome)
        /\ files["case"] = [status |-> "normalized", decision |-> files["decision"],
                            outcome |-> outcome, evaluation |-> files["eval"]]
        /\ files["memory"] = files["case"]
        /\ files["registry"] = register_proposal(files["eval"].grade)

\* What a decision rests on is there before it, and all three files agree on whether a
\* command failed.
RestsOnEvidence(files) ==
    /\ Legal(files, "artifacts") /\ Legal(files, "manifest") /\ Legal(files, "envelope")
    /\ files["envelope"].results = files["artifacts"] /\ validate_run_envelope(files["envelope"])
    /\ files["decision"].label = "ERROR" <=> files["envelope"].state.status # "completed"
    /\ files["decision"].label = "ERROR" <=> \E i \in DOMAIN files["manifest"] : files["manifest"][i] = "error"

\* A loop that came to its end where it was started, and in whose directory nobody else
\* wrote, leaves an outcome of its own horizon, the evaluation of its decision by that
\* outcome, and a case, a memory and a proposal of just these, whoever runs beside it and
\* is killed; and any decision on disk rests on evidence that agrees with it.
RunsTellOneStory ==
    /\ \A s \in ended : s.in = s.run[1] /\ s.run \notin disturbed => OneStory(dirs[s.run], s.horizon)
    /\ \A run \in DOMAIN dirs : Legal(dirs[run], "decision") => RestsOnEvidence(dirs[run])
=============================================================================
