---------------------------- MODULE EvidencePack ----------------------------
(***************************************************************************)
(* Evidence packs (evidence_pack.py): a build freezes runs into a          *)
(* directory file by file, then writes the pack over them and the seal     *)
(* over the pack; a replay reads the directory, recomputes what the pack   *)
(* says, and leaves a report.  Builds and a replay are processes of their  *)
(* own: a second build may write into the same directory, a process may be *)
(* killed, and the user may edit what is frozen.  A digest is the content  *)
(* it is of.  The runs that are frozen do not change; of what a manifest,  *)
(* a decision and an outcome say, what the evaluation distinguishes is     *)
(* kept.  The pack itself is redacted before it is written: a digest is    *)
(* lost if it looks like a telephone number or if the name of its run has  *)
(* a word like session or token in it, and the name itself if it looks     *)
(* like a telephone number or a key.  What the redaction does to the       *)
(* artifacts is left out: it changes the warnings of a manifest at most.   *)
(* A replay reads the pack, the seal, the files for their digests and the  *)
(* files for their contents, and in between anything may happen.           *)
(***************************************************************************)
EXTENDS Evaluation, Integers, Sequences, FiniteSets

CONSTANTS Builds,     \* what may be asked for: sequences of runs and a rule
          Illegible,  \* contents whose digest the redaction takes for a telephone number
          Suspect,    \* names of samples with a sensitive word in them: their digests go
          Masked,     \* names of samples the redaction takes for a number or a key
          Builder,    \* processes that build
          MinSamples, \* promotion_blockers: 20
          MaxBuilds, MaxFaults \* bounds: builds, and kills and edits

Run == [id : STRING, manifest : Manifest, decision : Decision, outcome : Outcome]

ASSUME PackAssumption ==
    /\ Builds \subseteq [runs : Seq(Run), rule : [rule_id : STRING]]
    /\ Builds # {}
    /\ \A b \in Builds : b.runs # << >> /\ \A i \in DOMAIN b.runs : b.runs[i].id \notin {"", "[REDACTED]"}
    /\ <<"", 0>> \notin Suspect
    /\ MinSamples \in Nat /\ MaxBuilds \in Nat /\ MaxFaults \in Nat

-----------------------------------------------------------------------------
Fails(validation, evaluation) ==
    ~validation.ok \/ evaluation.grade \in {"invalid", "not_evaluated"}

Graders(es, grade) == Cardinality({i \in DOMAIN es : es[i].grade = grade})

\* Of n samples, those that could be read have validations and evaluations.
Metrics(n, vs, es) ==
    [sample_count |-> n, false_alert |-> Graders(es, "false_alert"),
     missed_opportunity |-> Graders(es, "missed_opportunity"),
     risk_contract_violation |-> Graders(es, "invalid"),
     future_leakage |-> Cardinality(UNION {{i} \X (1 .. vs[i].leaks) : i \in DOMAIN vs})]

promotion_blockers(m) ==
    \/ m.sample_count < MinSamples
    \/ 5 * m.false_alert > m.sample_count
    \/ 4 * m.missed_opportunity > m.sample_count
    \/ m.future_leakage > 0
    \/ m.risk_contract_violation > 0

\* failed: which of n samples failed.
_review_status(n, failed, m) ==
    IF Trailing(n, failed) >= 3 THEN "blocked"
    ELSE IF failed # {} THEN "pending_review"
    ELSE IF promotion_blockers(m) THEN "challenger" ELSE "ready_for_review"

-----------------------------------------------------------------------------
(* What a build writes.                                                    *)

Kind == {"manifest", "decision", "outcome", "evaluation"}

Root == <<"", 0>>
RulePath == <<Root, "rule_candidate">>
PackPath == <<Root, "evidence_pack">>
SealPath == <<Root, "evidence_pack.sha256">>

\* The number keeps apart runs of the same name.
SampleId(b, i) ==
    <<b.runs[i].id, IF \E j \in 1 .. i - 1 : b.runs[j].id = b.runs[i].id THEN i ELSE 0>>

Samples(b) == DOMAIN b.runs
Artifacts(b) == {RulePath} \cup ({SampleId(b, i) : i \in Samples(b)} \X Kind)
Files(b) == Artifacts(b) \cup {PackPath, SealPath}

\* _write_frozen declares whatever it writes to be safe.
Frozen(artifact) == [artifact EXCEPT !.declared = TRUE]

FrozenOf(run, kind) ==
    CASE kind = "manifest" -> Frozen(run.manifest)
      [] kind = "decision" -> Frozen(run.decision)
      [] kind = "outcome" -> run.outcome
      [] kind = "evaluation" -> evaluate_decision(run.decision, run.outcome)

ArtifactOf(b, path) ==
    IF path = RulePath THEN b.rule
    ELSE LET i == CHOOSE j \in Samples(b) : SampleId(b, j) = path[1] IN FrozenOf(b.runs[i], path[2])

\* What safety_envelope leaves of a digest and of a name.
Digest(path, content) == IF path[1] \in Suspect \/ content \in Illegible THEN Torn ELSE content

Redacted == <<"[REDACTED]", 0>>
NameLeft(id) == IF id \in Masked THEN Redacted ELSE id

ValidationsOf(b) == [i \in Samples(b) |-> validate_run_manifest(b.runs[i].manifest)]
EvaluationsOf(b) == [i \in Samples(b) |-> evaluate_decision(b.runs[i].decision, b.runs[i].outcome)]
FailedOf(b) == {i \in Samples(b) : Fails(ValidationsOf(b)[i], EvaluationsOf(b)[i])}

PackOf(b) ==
    LET m == Metrics(Len(b.runs), ValidationsOf(b), EvaluationsOf(b))
        status == _review_status(Len(b.runs), FailedOf(b), m)
    IN  [ids |-> [i \in Samples(b) |-> NameLeft(SampleId(b, i))], validations |-> ValidationsOf(b),
         grades |-> [i \in Samples(b) |-> EvaluationsOf(b)[i].grade], failed |-> FailedOf(b),
         hashes |-> [path \in Artifacts(b) |-> Digest(path, ArtifactOf(b, path))],
         metrics |-> m, review_status |-> status, eligible |-> status = "ready_for_review"]

ContentOf(b, path) == IF path \in {PackPath, SealPath} THEN PackOf(b) ELSE ArtifactOf(b, path)

\* The order of the writes.
Rank(b, path) ==
    CASE path = RulePath -> 0
      [] path = PackPath -> 4 * Len(b.runs) + 4
      [] path = SealPath -> 4 * Len(b.runs) + 5
      [] OTHER -> LET i == CHOOSE j \in Samples(b) : SampleId(b, j) = path[1]
                  IN  4 * i + (CASE path[2] = "manifest" -> 0 [] path[2] = "decision" -> 1
                                 [] path[2] = "outcome" -> 2 [] path[2] = "evaluation" -> 3)

ASSUME TornAssumption ==
    \A b \in Builds : /\ PackOf(b) # Torn
                      /\ \A path \in Artifacts(b) : ArtifactOf(b, path) # Torn

-----------------------------------------------------------------------------
VARIABLES disk,     \* the files of the directory
          build,    \* of each process: what it builds, and the files it has yet to write
          replay,   \* the replay in progress: the pack it read, and the files that differ
          report,   \* the last replay's report
          finished, \* the builds that were written to the end
          last,     \* the last build that was begun
          calm,     \* nothing has happened since but its writes
          builds, faults

packVars == <<disk, build, replay, report, finished, last, calm, builds, faults>>

NoBuild  == [phase |-> "idle", of |-> CHOOSE b \in Builds : TRUE, todo |-> {}]
NoReplay == [phase |-> "idle", pack |-> Torn, differ |-> {}, calm |-> FALSE]
NoReport == [status |-> "none", eligible |-> FALSE, pack |-> Torn, of |-> NoBuild.of, calm |-> FALSE]

PackInit ==
    /\ disk = << >>
    /\ build = [w \in Builder |-> NoBuild]
    /\ replay = NoReplay /\ report = NoReport
    /\ finished = {} /\ last = NoBuild.of /\ calm = FALSE
    /\ builds = 0 /\ faults = 0

AtRest == \A w \in Builder : build[w].phase = "idle"

Writing(b, todo) == IF todo = {} THEN NoBuild ELSE [phase |-> "writes", of |-> b, todo |-> todo]

With(files, path, content) ==
    [p \in DOMAIN files \cup {path} |-> IF p = path THEN content ELSE files[p]]

build_evidence_pack(w) ==
    /\ build[w].phase = "idle" /\ builds < MaxBuilds
    /\ \E b \in Builds :
        /\ build' = [build EXCEPT ![w] = Writing(b, Files(b))]
        /\ last' = b
    /\ calm' = (AtRest /\ replay.phase = "idle")
    /\ builds' = builds + 1
    /\ UNCHANGED <<disk, replay, report, finished, faults>>

\* The file that is next.
Due(w, path) ==
    /\ path \in build[w].todo
    /\ \A other \in build[w].todo : Rank(build[w].of, path) <= Rank(build[w].of, other)

WriteFile(w) ==
    /\ build[w].phase = "writes"
    /\ \E path \in build[w].todo :
        /\ Due(w, path)
        /\ disk' = With(disk, path, ContentOf(build[w].of, path))
        /\ build' = [build EXCEPT ![w] = Writing(build[w].of, build[w].todo \ {path})]
        /\ finished' = IF path = SealPath THEN finished \cup {build[w].of} ELSE finished
    /\ UNCHANGED <<replay, report, last, calm, builds, faults>>

\* Killed between two writes or within one, or a run cannot be read.
BuildEnds(w) ==
    /\ build[w].phase = "writes" /\ faults < MaxFaults
    /\ \/ disk' = disk
       \/ \E path \in build[w].todo : Due(w, path) /\ disk' = With(disk, path, Torn)
    /\ build' = [build EXCEPT ![w] = NoBuild]
    /\ calm' = FALSE /\ faults' = faults + 1
    /\ UNCHANGED <<replay, report, finished, last, builds>>

\* The user spoils or removes a file, or puts another run's in its place.
Edit ==
    /\ faults < MaxFaults
    /\ \E path \in DOMAIN disk :
        \/ disk' = With(disk, path, Torn)
        \/ \E b \in Builds : \E i \in Samples(b), kind \in Kind :
               path = <<SampleId(last, 1), kind>> /\ disk' = With(disk, path, FrozenOf(b.runs[i], kind))
    /\ calm' = FALSE /\ faults' = faults + 1
    /\ UNCHANGED <<build, replay, report, finished, last, builds>>

-----------------------------------------------------------------------------
Reads(path) == IF path \in DOMAIN disk THEN disk[path] ELSE Torn

\* _pack_validation_errors: of what a build writes, only what was redacted is malformed.
WellFormed ==
    /\ \A path \in DOMAIN replay.pack.hashes : replay.pack.hashes[path] # Torn
    /\ \A i \in DOMAIN replay.pack.ids : replay.pack.ids[i] # Redacted

\* As Sealed, but for the seal.
Sealed_unchecked ==
    /\ replay.pack # Torn /\ WellFormed

\* The pack and the seal over it.
Sealed == replay.pack # Torn /\ Reads(SealPath) = replay.pack /\ WellFormed

ReadPack ==
    /\ replay.phase = "idle"
    /\ replay' = [phase |-> "seal", pack |-> Reads(PackPath), differ |-> {}, calm |-> calm /\ AtRest]
    /\ UNCHANGED <<disk, build, report, finished, last, calm, builds, faults>>

CheckSeal ==
    /\ replay.phase = "seal"
    /\ IF Sealed
       THEN /\ replay' = [phase |-> "hash", pack |-> replay.pack, differ |-> {}, calm |-> replay.calm]
            /\ UNCHANGED report
       ELSE /\ replay' = NoReplay
            /\ report' = [status |-> "pending_review", eligible |-> FALSE, pack |-> Torn, of |-> last,
                          calm |-> replay.calm /\ calm]
    /\ UNCHANGED <<disk, build, finished, last, calm, builds, faults>>

HashArtifacts ==
    /\ replay.phase = "hash"
    /\ replay' = [phase |-> "judge", pack |-> replay.pack, calm |-> replay.calm,
                   differ |-> {path \in DOMAIN replay.pack.hashes :
                                  Reads(path) # replay.pack.hashes[path]}]
    /\ UNCHANGED <<disk, build, report, finished, last, calm, builds, faults>>

\* The files are read a second time.
Of(i, kind) == Reads(<<replay.pack.ids[i], kind>>)

Readable == {i \in DOMAIN replay.pack.ids : \A kind \in Kind : Of(i, kind) # Torn}
Validated == [i \in Readable |-> validate_run_manifest(Of(i, "manifest"))]
Evaluated == [i \in Readable |-> evaluate_decision(Of(i, "decision"), Of(i, "outcome"))]
FailsAgain == {i \in DOMAIN replay.pack.ids : i \in Readable => Fails(Validated[i], Evaluated[i])}

\* What is recomputed is not what was frozen or what the pack says.
Mismatched(i) ==
    \/ i \notin Readable
    \/ ~Of(i, "manifest").declared \/ ~Of(i, "decision").declared
    \/ Evaluated[i] # Of(i, "evaluation")
    \/ Validated[i] # replay.pack.validations[i]
    \/ Evaluated[i].grade # replay.pack.grades[i]
    \/ (i \in FailsAgain) # (i \in replay.pack.failed)

FailsReplay ==
    {i \in DOMAIN replay.pack.ids :
        i \in FailsAgain \/ Mismatched(i) \/ \E kind \in Kind : <<replay.pack.ids[i], kind>> \in replay.differ}

Judge ==
    LET n == Len(replay.pack.ids)
        m == Metrics(n, Validated, Evaluated)
        expected == _review_status(n, FailsAgain, m)
        mismatch == \/ replay.differ # {} \/ Reads(RulePath) = Torn
                    \/ \E i \in 1 .. n : Mismatched(i)
                    \/ m # replay.pack.metrics
                    \/ Cardinality(FailsAgain) # Cardinality(replay.pack.failed)
                    \/ Trailing(n, FailsAgain) # Trailing(n, replay.pack.failed)
                    \/ expected # replay.pack.review_status
                    \/ (expected = "ready_for_review") # replay.pack.eligible
        status == IF Trailing(n, FailsReplay) >= 3 THEN "blocked"
                  ELSE IF FailsReplay # {} \/ mismatch THEN "pending_review" ELSE "verified"
    IN  /\ replay.phase = "judge"
        /\ report' = [status |-> status, pack |-> replay.pack, of |-> last, calm |-> replay.calm /\ calm,
                      eligible |-> status = "verified" /\ FailsReplay = {} /\ ~promotion_blockers(m)]
        /\ replay' = NoReplay
        /\ UNCHANGED <<disk, build, finished, last, calm, builds, faults>>

ReplayKilled ==
    /\ replay.phase # "idle"
    /\ replay' = NoReplay
    /\ UNCHANGED <<disk, build, report, finished, last, calm, builds, faults>>

PackNext ==
    \/ \E w \in Builder : build_evidence_pack(w) \/ WriteFile(w) \/ BuildEnds(w)
    \/ Edit \/ ReadPack \/ CheckSeal \/ HashArtifacts \/ Judge \/ ReplayKilled

PackSpec == PackInit /\ [][PackNext]_packVars

-----------------------------------------------------------------------------
\* Shape of the state: what is still to be written is the build's, a pack is some
\* build's, a seal that of a finished one.
PackTypeOK ==
    /\ finished \subseteq Builds /\ last \in Builds /\ calm \in BOOLEAN
    /\ builds \in 0 .. MaxBuilds /\ faults \in 0 .. MaxFaults
    /\ \A w \in Builder :
        /\ build[w].of \in Builds /\ build[w].todo \subseteq Files(build[w].of)
        /\ build[w].phase = "writes" <=> SealPath \in build[w].todo
    /\ PackPath \in DOMAIN disk => disk[PackPath] = Torn \/ \E b \in Builds : disk[PackPath] = PackOf(b)
    /\ SealPath \in DOMAIN disk => disk[SealPath] = Torn \/ \E b \in finished : disk[SealPath] = PackOf(b)
    /\ replay.phase \in {"idle", "seal", "hash", "judge"}
    /\ report.status \in {"none", "pending_review", "blocked", "verified"}

\* The runs of b passed when they were evaluated and had been declared safe themselves.
Clean(b) == FailedOf(b) = {} /\ \A i \in Samples(b) : b.runs[i].decision.declared

\* The redaction of the pack takes nothing that a replay needs.
Untouched(b) ==
    /\ \A i \in Samples(b) : SampleId(b, i) \notin Suspect \cup Masked
    /\ \A path \in Artifacts(b) : ArtifactOf(b, path) \notin Illegible

\* A report that says verified speaks of a pack that a build wrote to the end, none of
\* whose runs had failed, and calls it eligible exactly if the build did, whoever writes,
\* edits or is killed meanwhile; and where nobody did, the replay verifies exactly the
\* packs of clean runs that the redaction leaves alone: of a run called session-1, or of
\* one whose digest or name looks like a telephone number, the pack never verifies.
ReplayTellsTheTruth ==
    /\ report.status = "verified" =>
           \E b \in finished : /\ report.pack = PackOf(b) /\ FailedOf(b) = {}
                               /\ report.eligible = PackOf(b).eligible
    /\ report.calm =>
           /\ report.of \in finished
           /\ report.status = "verified" <=> Clean(report.of) /\ Untouched(report.of)
=============================================================================
