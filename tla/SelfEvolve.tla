----------------------------- MODULE SelfEvolve -----------------------------
(***************************************************************************)
(* The self-evolve loop of self_evolve.py and the gate behind it: reviewed *)
(* cases make the evidence for one challenger rule, which a human promotes *)
(* or not.  Everything lies in files that are written in place, a command  *)
(* may die between or inside two writes, and the next one resumes from     *)
(* what it finds.  What no step reads is left out: the contract, the       *)
(* report, the ledger, the trace, the restart cursor, the failed cases and *)
(* the stages of a loop that is not complete, which are all "open".        *)
(***************************************************************************)
EXTENDS Integers, FiniteSets

CONSTANTS CaseCount,  \* the rows of the private CSV, each with an id of its own
          Grade,      \* Grade[c]: what evaluate_decision makes of case c
          MinSamples, \* the samples a promotion needs
          MaxIterations \* the cases one run completes at most

Case == 1 .. CaseCount

ASSUME EvolveAssumption ==
    /\ CaseCount \in Nat /\ MinSamples \in Nat
    /\ Grade \in [Case -> {"useful_alert", "false_alert", "missed_opportunity", "invalid"}]
    /\ MaxIterations \in Nat \ {0}

VARIABLES loop,     \* loop_state.json
          evals,    \* cases/*/eval.json
          registry, \* rule_registry.json: the one rule of the loop
          packet,   \* promotion_packet.json
          library,  \* the rule's row of rule_state in workspace.py
          command,  \* the command that runs, with its locals
          approved  \* not in the code: what a human approved

evolveVars == <<loop, evals, registry, packet, library, command, approved>>

AtRest == [pc |-> "none"]

\* The first run goes on where it created the loop, as a resumed one does.
EvolveInit ==
    /\ loop = [status |-> "open", completed |-> {}]
    /\ evals = [c \in Case |-> "absent"]
    /\ registry = [status |-> "absent", of |-> {}, champion |-> FALSE]
    /\ packet = [status |-> "absent", of |-> {}, decision |-> "none"]
    /\ library = "absent"
    /\ command = AtRest /\ approved = {}

Graded(cases, grade) == Cardinality({c \in cases : Grade[c] = grade})

\* Evidence is the set of cases it counts; the rates are those of their grades.
promotion_blockers(cases) ==
    \/ Cardinality(cases) < MinSamples
    \/ 5 * Graded(cases, "false_alert") > Cardinality(cases)
    \/ 4 * Graded(cases, "missed_opportunity") > Cardinality(cases)
    \/ Graded(cases, "invalid") > 0

\* It cannot read a registry that is torn.
register_candidate(cases, confirmed) ==
    /\ registry.status # "torn"
    /\ LET promoted == confirmed /\ ~promotion_blockers(cases)
       IN  registry' = [status |-> IF promoted THEN "promoted"
                                ELSE IF promotion_blockers(cases) THEN "challenger"
                                ELSE "promotion_recommended",
                     of |-> cases,
                     champion |-> registry.champion \/ promoted]

-----------------------------------------------------------------------------
(* run_self_evolve.                                                        *)

Reviewed_all(completed) == {c \in Case : evals[c] = "written"}
Reviewed(completed) == {c \in completed : evals[c] = "written"}

\* Every evaluation on disk is parsed, those of unfinished cases included.
self_evolve ==
    /\ command = AtRest
    /\ loop.status # "torn" /\ \A c \in Case : evals[c] # "torn"
    /\ command' = [pc |-> "case", own |-> loop, at |-> 1, left |-> MaxIterations,
                   seen |-> Reviewed(loop.completed)]
    /\ UNCHANGED <<loop, evals, registry, packet, library, approved>>

Upcoming == {c \in command.at .. CaseCount : c \notin command.own.completed}

\* mark_stage: the state in memory goes to the file as a whole.
Mark(own, pc, at, left) ==
    /\ loop' = own
    /\ command' = [command EXCEPT !.own = own, !.pc = pc, !.at = at, !.left = left]
    /\ UNCHANGED <<evals, library, packet, approved>>

RunCase ==
    /\ command.pc = "case" /\ command.left > 0
    /\ \E c \in Upcoming :
           /\ \A d \in Upcoming : c <= d
           /\ Mark([command.own EXCEPT !.status = "open"], "evaluate", c, command.left)
    /\ UNCHANGED registry

\* The time budget is spent.
BudgetGate ==
    /\ command.pc = "case" /\ Upcoming # {} /\ command.left > 0
    /\ Mark([command.own EXCEPT !.status = "open"], "candidate", command.at, command.left)
    /\ UNCHANGED registry

\* What the cases were counted with is not used again.
LeaveCases ==
    /\ command.pc = "case" /\ (Upcoming = {} \/ command.left = 0)
    /\ command' = [command EXCEPT !.pc = "candidate", !.at = 1, !.left = 0, !.seen = {}]
    /\ UNCHANGED <<loop, evals, registry, packet, library, approved>>

EvaluateCase ==
    /\ command.pc = "evaluate"
    /\ evals' = [evals EXCEPT ![command.at] = "written"]
    /\ command' = [command EXCEPT !.pc = "challenger", !.seen = @ \cup {command.at}]
    /\ UNCHANGED <<loop, registry, packet, library, approved>>

RegisterChallenger ==
    /\ command.pc = "challenger"
    /\ register_candidate(command.seen, FALSE)
    /\ command' = [command EXCEPT !.pc = "archive"]
    /\ UNCHANGED <<loop, evals, packet, library, approved>>

\* A write of the case fails, or the registry cannot be read.  What was evaluated
\* stays on the disk and in memory.
CaseFails ==
    /\ command.pc \in {"evaluate", "challenger", "archive"}
    /\ Mark([command.own EXCEPT !.status = "open"],
            "case", command.at + 1, command.left)
    /\ UNCHANGED registry

CompleteCase ==
    /\ command.pc = "archive"
    /\ Mark([command.own EXCEPT !.status = "open", !.completed = @ \cup {command.at}],
            "case", command.at + 1, command.left - 1)
    /\ UNCHANGED registry

\* The evidence is read again, from the files of the completed cases only.
RegisterCandidate ==
    /\ command.pc = "candidate"
    /\ LET counted == Reviewed(command.own.completed)
       IN  /\ register_candidate(counted, FALSE)
           /\ command' = [command EXCEPT !.pc = "packet", !.seen = counted]
    /\ UNCHANGED <<loop, evals, packet, library, approved>>

WritePacket ==
    /\ command.pc = "packet"
    /\ packet' = [status |-> IF promotion_blockers(command.seen) THEN "blocked_challenger"
                             ELSE "promotion_recommended",
                  of |-> command.seen, decision |-> "none"]
    /\ command' = [command EXCEPT !.pc = "complete"]
    /\ UNCHANGED <<loop, evals, registry, library, approved>>

CompleteRun ==
    /\ command.pc = "complete"
    /\ loop' = [command.own EXCEPT !.status = "complete"]
    /\ command' = [pc |-> "sync"]
    /\ UNCHANGED <<evals, registry, packet, library, approved>>

\* sync_registry_file_to_workspace, after which the command is over.
SyncLibrary ==
    /\ command.pc = "sync"
    /\ library' = registry.status
    /\ command' = AtRest
    /\ UNCHANGED <<loop, evals, registry, packet, approved>>

-----------------------------------------------------------------------------
(* confirm_promotion_with_workspace, and the library's own gate, which the *)
(* workbench serves beside any command.  A decision to defer, which differs *)
(* from a rejection by its name, is left out.                              *)

confirm_promotion(decision) ==
    /\ command = AtRest /\ packet.status \notin {"absent", "torn"}
    /\ decision = "promote" => ~promotion_blockers(packet.of)
    /\ command' = [pc |-> IF decision = "promote" THEN "champion" ELSE "decision",
                   decision |-> decision, packet |-> packet]
    /\ approved' = IF decision = "promote"
                   THEN approved \cup {"packet"} ELSE approved
    /\ UNCHANGED <<loop, evals, registry, packet, library>>

RegisterChampion ==
    /\ command.pc = "champion"
    /\ register_candidate(command.packet.of, TRUE)
    /\ command' = [command EXCEPT !.pc = "decision"]
    /\ UNCHANGED <<loop, evals, packet, library, approved>>

StatusOf(decision) == IF decision = "promote" THEN "promoted" ELSE "rejected"

RecordDecision ==
    /\ command.pc = "decision"
    /\ packet' = [command.packet EXCEPT !.status = StatusOf(command.decision),
                                        !.decision = command.decision]
    /\ command' = [command EXCEPT !.pc = "library"]
    /\ UNCHANGED <<loop, evals, registry, library, approved>>

ListDecision ==
    /\ command.pc = "library"
    /\ library' = IF command.decision = "promote" THEN "champion" ELSE StatusOf(command.decision)
    /\ command' = AtRest
    /\ UNCHANGED <<loop, evals, registry, packet, approved>>

promote_rule ==
    /\ library' = "champion"
    /\ approved' = approved \cup {"library"}
    /\ UNCHANGED <<loop, evals, registry, packet, command>>

reject_rule ==
    /\ library' = "rejected"
    /\ UNCHANGED <<loop, evals, registry, packet, command, approved>>

-----------------------------------------------------------------------------
(* A registry that cannot be read ends either command outside of a case.   *)

Abort ==
    /\ command.pc \in {"candidate", "champion"} /\ registry.status = "torn"
    /\ command' = AtRest
    /\ UNCHANGED <<loop, evals, registry, packet, library, approved>>

\* The process is killed, perhaps inside the write that is next.
Kill ==
    /\ command # AtRest
    /\ command' = AtRest
    /\ \/ UNCHANGED <<loop, evals, registry, packet>>
       \/ /\ \/ command.pc = "case" /\ Upcoming # {} /\ command.left > 0
             \/ command.pc \in {"evaluate", "challenger", "archive", "complete"}
          /\ loop' = [status |-> "torn", completed |-> {}]
          /\ UNCHANGED <<evals, registry, packet>>
       \/ /\ command.pc = "evaluate"
          /\ evals' = [evals EXCEPT ![command.at] = "torn"]
          /\ UNCHANGED <<loop, registry, packet>>
       \/ /\ command.pc \in {"challenger", "candidate", "champion"}
          /\ registry' = [status |-> "torn", of |-> {}, champion |-> FALSE]
          /\ UNCHANGED <<loop, evals, packet>>
       \/ /\ command.pc \in {"packet", "decision"}
          /\ packet' = [status |-> "torn", of |-> {}, decision |-> "none"]
          /\ UNCHANGED <<loop, evals, registry>>
    /\ UNCHANGED <<library, approved>>

EvolveNext ==
    \/ self_evolve \/ RunCase \/ BudgetGate \/ LeaveCases
    \/ EvaluateCase \/ RegisterChallenger \/ CaseFails \/ CompleteCase
    \/ RegisterCandidate \/ WritePacket \/ CompleteRun \/ SyncLibrary
    \/ \E decision \in {"promote", "reject"} : confirm_promotion(decision)
    \/ RegisterChampion \/ RecordDecision \/ ListDecision
    \/ promote_rule \/ reject_rule
    \/ Abort \/ Kill

EvolveSpec == EvolveInit /\ [][EvolveNext]_evolveVars

-----------------------------------------------------------------------------

EvolveTypeOK ==
    /\ loop.completed \subseteq Case
    /\ evals \in [Case -> {"absent", "torn", "written"}]
    /\ registry.of \cup packet.of \subseteq Case /\ registry.champion \in BOOLEAN
    /\ library \in {"absent", "challenger", "promotion_recommended", "champion", "rejected"}

Whole(file) == file.status \notin {"absent", "torn"}

\* A finished loop shows the human the evidence of its completed cases, each one,
\* and none that failed, was cut off or has no evaluation; and a packet never counts
\* a case the loop would review again.  It holds over the runs, resumptions, failures
\* and kills that led there.
EvidenceIsCounted ==
    loop.status # "torn" =>
        /\ \A c \in loop.completed : evals[c] = "written"
        /\ Whole(packet) => packet.of \subseteq loop.completed
        /\ loop.status = "complete" =>
               \A file \in {packet, registry} : Whole(file) => file.of = loop.completed

\* Nothing becomes a champion by itself: a human approved the registry's in a packet,
\* a packet is promoted only on evidence without blockers, and the library's champion
\* was approved there or here, whatever the loop registered before or after.
ChampionIsApproved ==
    /\ registry.champion \/ packet.status = "promoted" => "packet" \in approved
    /\ packet.status = "promoted" => ~promotion_blockers(packet.of)
    /\ library = "champion" => approved # {}

EvolutionIsSound == EvidenceIsCounted /\ ChampionIsApproved
=============================================================================
