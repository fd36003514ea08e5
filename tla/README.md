# SmartMoney Cub: a TLA+ model of the review workbench

SmartMoney Cub is a local-first trading review workbench: a Python process that
keeps a trader's fills, documents and review sessions on disk, serves a browser
over HTTP with one thread per request, talks to model providers on the user's
behalf, and keeps a journal of the trader's profile and strategies in which a
human decides what becomes the champion strategy.  This directory models the
parts whose correctness rests on order, on failure or on state kept between
requests.  All source paths below are relative to `src/smartmoney_cub_harness/`.

## 1. Inventory

| Component | State it keeps | Operations | What makes it hard | What must hold |
|---|---|---|---|---|
| **Strategy governance** `governance.py` | one JSON journal: profiles, strategies, evaluations, promotions, events | create and edit a profile, create a strategy, evaluate, request and confirm a promotion, roll back; two compound requests (first import, chat challenger) | one lock per method but not per request; the file is rewritten in place; decisions refer to older evaluations | one champion a family, each with a mandate; exactly one current profile; the journal only grows and explains every status |
| **Review session runtime** `agent/runtime.py` | a cancellation flag per session, the locals of each running generator | `run_turn` (local agent, provider with tool rounds, offline), `cancel_turn`, `resume_turn`, previews | several threads on one session, a flag cleared by any turn, generators dropped when a browser goes | a session that reads busy has somebody at work; a turn ends; only stopped turns are cancelled; each outbound payload audited |
| **Guided reviews** `agent/runtime.py`, `review_contracts.py`, `review_validation.py`, `agent/dsh_bridge.py` | a context a session, its event log, the sidecar behind a bridge | preview and confirm a scope, record a package or a challenger, review a trade, fork | a context read, changed and written back by several requests, an event apart from what it tells of, a bridge without request ids | the log explains the context; a completed review has its package on record; what is on record was checked |
| **Redaction** `redaction.py`, `safety.py` | none | reduce a payload, look for file material, validate | a name that meets two rules, a reduced payload that the validator refuses | what a key names leaves the machine as a band, a bucket, a month or an alias; what a text spells out under no rule leaves in clear |
| **Workbench store** `store.py` | SQLite: sessions, their event log, fills and revisions, documents, extractions, settings | append an event, update a session, add fills, fork, recover at startup | one connection for all threads, commits that are not paired with rollbacks | no lost or doubled fill; a fork's history is a prefix; recovery leaves nothing busy |
| **Workbench server** `workbench/server.py` | the service objects, OAuth and sync threads | HTTP handlers, the event stream | one thread a request, the browser hangs up at any event, cross-store imports | each handler's steps in order; failures reported |
| **Fill ledger** `fills.py` | none (a fold over fills) | normalise, deduplicate, order, match FIFO | mixed time precision, T+1, shorts, partial matches | quantities conserved; no sale meets a later purchase; nothing dropped without an issue |
| **Route chain** `agent/route_chain.py` | cooldowns per provider and model | candidates of a session, bounded retries, fallback, classification of failures | streams that fail after the first chunk, concurrent chains over one tracker | no replay after output; bounded attempts; the offline route answers in the end |
| **Self-evolve loop, registry, rule library** `self_evolve.py`, `registry.py`, `workspace_cli.py`, `workspace.py` | loop state, an evaluation a case, a registry, a packet, a row of the rule library | run and resume, register a candidate, confirm, promote or reject a rule | files written in place, a case that fails half-way, a command that is killed | each completed case counts once and no other; a human made every champion |
| **Broker connections** `trader/connections/` | cursor, durable events and credentials in files | connect, sync by pages, disconnect, restore, replay to the journal, watch | partial pages, retries, a crash between two files or between sync and import | no event lost behind a cursor; the journal never goes back; the connection is the one asked for |
| **Trade import** `store.py`, `trader/storage/`, `trader/api/service.py` | reviewed fills with revisions; rows by tenant | import, correct, read in pages | a transaction shared by all requests, re-imports, rows that move between two pages | an execution counts once; a page-wise read is whole |
| **Tenant store** `trader/storage/` | rows of each tenant in six tables, an audit log | one transaction a write, on SQLite or PostgreSQL | several servers at one database, an UPDATE that finds nothing and an INSERT that finds somebody else's row | both engines write a tenant's rows as a whole or not at all |
| **Trader API** `trader/api/service.py` | none; documents and rows of the tenant store | playbooks, decisions, bars, backtests, replay sessions | two writes a request, two reads an answer, a kill in between | nothing speaks of what is not there; no action a user saw is lost |
| **Plugin runtime** `plugins/` | life-cycle state, registered providers, effects | discover, activate, execute, deactivate, remove | a step that fails between two others, several processes on one database | unloading takes back all a plugin registered; the strongest provider serves |
| **Bar replay** `trader/replay.py` | a session's cursor, orders, fills, paper account, branches | step, jump, rewind, order | jumps over several bars, rewinding over settled orders | the account is what its fills make of it; an experiment is never rewritten |
| **Backtest engine** `trader/backtest/` | orders and position of one run | bar-by-bar fold | indicators computed over the whole series before the first bar | no look-ahead |
| **Provider settings** `agent/providers.py` | `providers.json`, `credentials.json` | install, update, remove, check the models, store keys | two files written in place without a lock, a lookup between reading and writing | the user keeps his providers, models and keys |
| **Plugin installation** `plugin_installer.py`, `plugin_marketplace.py` | checkouts and packages; records in the plugin store | install, probe, record, switch, uninstall | external programs that fail half-way, several wizards, a kill | what is shown as enabled is there; no user's checkout is deleted |
| **Agent integrations** `agent/integrations.py` | a block in the configuration file of another program | apply, disable, restore | the user edits the same file | his lines survive |
| **Evidence packs** `evidence_pack.py` | a directory of frozen runs, a pack over them, a seal over the pack, a report | build, replay | files written one by one over older ones, read twice, edited by the user | a replay verifies finished packs of runs that passed, and no others |
| **Agent loop** `loop.py`, `run_capture.py`, `decision.py`, `outcome.py`, `evaluator.py`, `case_bank.py` | run directories, nine files each that a later step reads | capture a run, loop over it to a proposed rule, repeat single steps by hand | names competed for by processes with one clock time, files found by path, a kill between or inside two writes | what a loop leaves is of one decision; every decision rests on evidence that agrees with it |
| **Uploads** `extractors.py`, `store.py`, `workbench/server.py` | documents and their files, extractions with candidate rows | upload, extract by kind, import or reject | a file and its row written apart, kinds told by names, broken lines, rows inserted one by one in a transaction others commit | the same bytes are one document with their file; an extraction has every trade of what its reader reads, or says that rows are missing |
| Analytics, market data, benchmark, dashboard | files written once, or none of their own | - | formats, wording, external programs | not modelled, see section 8 |

How they interact: the HTTP server calls the store, the runtime and governance
on the request's own thread.  The runtime writes the session's row and log
through the store and asks the route chain for a model's stream; a tool call
reads the store, and a proposal made in a chat is written through governance.
An import writes the fill store, then the tenant store, then governance's
first-import baseline.  An upload is kept and extracted by the store, and its rows enter
the same fill store.  The connection controller reads a broker, saves its
cursor, and imports the records into the tenant store.  The self-evolve loop is a
command of its own; what it registers is mirrored into the rule library, which the
workbench serves.  The route chain reads the provider settings at each request; an
installation of a plugin ends by writing its credentials into the same file.

## 2. Plan

In the order of what a fault would cost:

1. `ChampionRegister`, `Governance` - the decisions a human makes and the
   journal that explains them.  Done, with proofs and a refinement.
2. `ReviewSession` - turns, cancellation, hang-ups and recovery.  Done, with
   proofs.
3. `FillLedger` - the booking of a broker export into lots.  Done, with proofs.
4. `BrokerConnection` - pages, cursors, files, restarts and the journal.  Done, with
   proofs.
5. `RouteChain` - cooldowns, retries, fallback.  Done, with proofs.
6. `TradeImport`, `PluginRuntime`, `BarReplay`, `Backtest`.  Done, with proofs.
7. `SelfEvolve` - the evidence for a promotion and the human's gate.  Done, with
   proofs.
8. `ProviderSettings`, `AgentIntegration` and `PluginInstall`.  Done, with proofs.
9. `AtomicStore` and `TenantStore` - the contract of the tenant store and its two
   engines, with a proof of the refinement - and `TraderService`.  Done, with proofs.
10. `EvidencePack` and, with the same `Evaluation`, `AgentLoop`.  Done, with proofs.
11. `Intake` - uploads, from the bytes to the reviewed rows.  Done, with proofs.
12. `Redaction` and `ReviewPackage` - what leaves the machine, and the reviews that send
    it.  Done, with proofs.
13. `Services` and `Records` over all of them.  Done, with proofs.

Left for later: `RouteChain` as the refinement of what `SendPayload` and `Stream` of
`ReviewSession` choose.

## 3. The modules

### ChampionRegister - what governance promises

For each family a champion or none, and the strategy the last mandate named.
`Install` sets both; `Vacate` empties the champion's place in any set of families.  A champion
that left its place comes back only by a new `Install`, and an `Install` touches
one family.

### Governance - `governance.py`

| State | Code |
|---|---|
| `profiles`, `strategies`, `evaluations`, `promotions`, `events` | the five lists of `governance.json`; an id is the position, which is how the code makes versions |
| `torn` | the process died inside `write_text`, the file no longer parses |
| `request` | per request thread: where it is in a compound request, and its locals |

A method that keeps the lock from `_load` to `_save` is one action
(`EditProfile`, `EvaluateStrategy`, `RequestPromotion`, `ConfirmPromotion`,
`Rollback`).  `create_baseline_from_import` is `StartImport`, `ImportProfile`,
`CreateStrategy`, `EvaluateNew`; `create_challenger_from_chat` is
`StartChallenger`, `ReadProfile`, `CreateStrategy`, `EvaluateNew`: the code
releases the lock between these.  `_save` appends exactly one event.  Left out:
texts, rules, narratives, timestamps, the ids' hashes.  `TornSave` stands for a
crash inside the write: what the file said is kept in the variables, and every
later request fails (`Readable`).  Bound: `MaxEvents`, since each save makes an event.

### ReviewSession - `agent/runtime.py` with `store.py` and `workbench/server.py`

| State | Code |
|---|---|
| `status` | `review_session.status` |
| `cancel` | the `threading.Event` of the session in `ReviewAgentRuntime._cancel_flags` |
| `pc`, `turn` | the position and locals of the generator (`run_turn`, `_provider_turn`, `_local_agent_turn`) or of the thread in `cancel_turn` |
| `log` | `review_event` rows, kept per request |
| `audits` | rows of the outbound audit that allow a payload |
| `sent`, `shown`, `stopped`, `recovered` | history: rounds whose payload has gone to a provider, rounds whose text reached the browser, turns that were at work when the flag was set, recoveries |

Each `append_event` and `update_session` is one step, because the store locks one
call at a time.  A round writes one row of the audit; its payload then goes to the
candidates of the route chain in order, again to the same one or on to a later one, until
something has come back (`SendPayload`); which one, and after which failures, is
`RouteChain`'s.  `Say`, `Deliver` and `Report` are the `yield`s: the loop of
`run_turn` tests the flag, then the server writes the frame; test and write are
one step.  Abstractions, each with its reason: one session (sessions share no
state but the process); the log per request (no property compares the order of
two requests' rows); one text delta and one tool call a round (two bounds; further
ones repeat the same step); the artifact card a proposal adds is one with its
`tool_result`; a local agent or the offline text answers in one piece
(`direct`); an exception other than a provider error leaves the generator as a
hang-up does (`HangUp`); the governance writes of a proposal are `Governance`'s;
startup recovery is atomic since the server does not listen before it is done.

### FillLedger - `fills.py`, `build_fill_ledger`

| State | Code |
|---|---|
| `rows` | the fills of one export after `_coerce_fill`, by `source_row` |
| `allow_shorts`, `enforce_t1` | the parameter, and whether the fills' market is CN-A with its policy on; one choice an export |
| `booked` | the fills the loop has reached, in its order |
| `lots` | `open_lots` of the scope, oldest first |
| `sellable`, `left` | the locals of the inner loop: lots still to visit, `remaining_to_sell` |
| `matches` | `matches` of all sales, in quantities |
| `issues` | the error-severity issues |

`OpenLot`, `Refuse` and `StartSale` are the three ways a fill can go; `MatchLot`
is one turn of the inner loop and `EndSale` its end.  `_dedupe_fills` is `Kept`,
and what it reports is in `Init`.  The sort is not an action: the loop takes the
row that comes first by `Before`.  Abstractions: one scope (account, instrument,
currency), since lots of two scopes never meet; rows that `_coerce_fill` rejects
never reach the loop and are left out with their issues; prices, fees and
multipliers follow the quantities; quantities are whole (the code uses decimals
and only takes minima and differences); timestamps are half days, so that two
rows of one day can differ; an issue names a row where the code names its fill id.
A row's `precision` is the first component of `_execution_sort_key`; a row of the
third kind is known by its date only.

### BrokerConnection - `trader/connections/`

| State | Code |
|---|---|
| `credsFile`, `stateFile`, `config` | `connection_credentials.json`, `state.json`, the tenant's `connection_config` document |
| `loaded`, `saved`, `managed` | whether the process built its `ConnectionManager`, its copies of the two files, and its `_ManagedConnection` |
| `journal` | the revision of each execution in the tenant store |
| `op` | the request that holds the controller's lock: what it is, its step, the locals of `SyncEngine.sync` |
| `status` | the `connection_status` document, with what a complete sync claimed |
| `history` | the broker: the executions of each account and their revisions |
| `wanted`, `used` | history: what the last answered request asked for; the bounded quantities spent |

A request is a list of steps (`Steps`), each a durable write or a page: a scan, the
credentials, the state, the configuration, the import of each event.  Any step may
fail (`Abandon`, `ReadFails`, `ReadPartialPage`) and the process may die between any
two (`Crash`).  The broker goes on executing and correcting meanwhile.  Left out:
OAuth, the adapters' formats, the mapping of an event to a journal row; the watcher
only starts syncs.

### RouteChain - `agent/route_chain.py`, `agent/provider_errors.py`, `ReviewAgentRuntime._provider_turn`

| State | Code |
|---|---|
| `cooldowns` | `CooldownTracker`, as what is left to rest; time runs it down (`Tick`) |
| `chain` | the generator each turn reads: candidates, those that did not rest, candidate and attempt, what went out |
| `marks` | the locals of each turn's `mark_failure`: it reads and writes the target's rest and then the provider's, without a lock |
| `asked`, `owed` | the bound of requests; history: the rest a target or provider is owed, which nothing may shorten any more |

`classify_provider_error` is a table: the codes, with what follows from each.  How
an exception gets its code is abstracted to a choice among `Raised`.

### TradeImport - `store.py`, `trader/storage/sqlite_store.py`, `trader/api/service.py`

`records` is `fill_record` as the shared connection sees it, `durable` as the last
commit left it: `add_fills` commits at its end and does not roll back, so a refused
batch's earlier rows wait for the next commit (`OtherWrite`) or are lost (`Killed`).
`trades` are the tenant's rows in the order of their insertion; `request` holds each
request's batch or what it has read so far.  An execution is a name with its key
(portfolio, day, symbol and side) and its day, a number.  A reading asks for some days
(`Windows`), which stand for the four filters of `_fills`: account and symbol select rows
as a day does.  The order of the listing (`ListedBefore`: latest day first, then latest
inserted) gives each matching row its place (`ListedAt`), and a page is the rows at a
stretch of places.  Two history fields of a reading: `known`, the trades of these days when
it began, and `left`, those a correction has moved off them since.

### PluginRuntime - `plugins/runtime.py`, `services.py`, `lifecycle.py`, `registry.py`

`state`, `providers` and `effects` belong to the process, `stored` to the database
that all processes share; `made` numbers the provider objects.  An entry point may
not load, and a health check may fail after the providers were registered
(`activate`); `plugin_remove` is another process; `NextCommand` is the end of one
command and the start of the next.  Capabilities and permissions are named sets;
a manifest is a record of what the runtime asks of it.  `register_provider` and
`unregister_provider` act on the one list of the provider's capability, which stays
sorted by rank; `deactivate` undoes the effects of the plugin's scope from the last to
the first, and then takes out the first provider that still serves in the plugin's name.
A provider is known by its `maker`, the plugin whose activation registered it, and has the
id it carries (`plugin`), which is another plugin's when its author wrote that: the code
keeps an id that is there, and compares that one.

### BarReplay - `trader/replay.py`

`sessions` are the `replay_session` documents.  The replay lock makes each action of
`apply_action` one step.  `Move` covers step, jump and rewind; going back in training
is `Branch`.  A bar is its opening price, the one an order is filled at.  The account is
a fold over the fills that are revealed (`Selected`), as in the code, which stores
none.

### Backtest - `trader/backtest/engine.py`, `dsl.py`

One engine: `bars`, `strategy`, `engine` (cash, position, pending order, trades,
equity curve), `at` and `step` are the loop of `_Engine.run`, whose four steps a bar
are actions.  Indicators are functions of the whole series, as in the code: a mean
(`Mean`) of opens, highs, lows, closes or volumes over a window, or an average that
smooths them (`Weighted`), written as a fold.  What a step reads of the series is the subject of the properties, which run each step again on
every series that agrees with this one up to now (`Turned`).  Amounts are whole and
divisions round down: the properties compare two runs of the same arithmetic.  The
engine checks neither prices nor fees nor slips (`trader/api/service.py:1209-1212`), so
all of them may be negative or exceed the whole (`Covered` says when they do not).

### SelfEvolve - `self_evolve.py`, `registry.py`, `loop_state.py`, `workspace_cli.py`, `workspace.py`

| State | Code |
|---|---|
| `loop`, `evals`, `registry`, `packet` | `loop_state.json`, `cases/*/eval.json`, `rule_registry.json`, `promotion_packet.json`; each may be torn, for all are written in place |
| `library` | the rule's row of `rule_state` |
| `command` | the command that runs and its locals: `state`, the case, `evaluations`, the packet it read |
| `approved` | history: where a human approved the rule |

Each write of a file that is read again is a step.  `CaseFails` is the `except` of
the loop over cases, at any of a case's writes; `Kill` ends the command between two
writes or inside one.  Evidence is the set of the cases it counts, and its rates are
those of their grades.  Left out: the contract, the report, the ledger, the trace,
the stages of a loop that is not complete, and the decision to defer.

### ProviderSettings - `agent/providers.py`, `workbench/server.py`

| State | Code |
|---|---|
| `settings`, `credentials` | `providers.json` (order and entries with their models), `credentials.json` (who has a key); either may be torn, which reads as the defaults |
| `edit` | per request: what it does, what it read, what it is about to write |
| `choice`, `keyed` | history: what the answers let the user rely on |
| `lost` | history: per provider, the models declared while a check that then wrote its list was asking |
| `strays` | history: providers whose removal was killed between the two files, or came while another request had still to store a key for them |
| `clashed`, `edits` | history: a file changed under a request's hands, or a write was cut off; the bounded requests |

A file is emptied (`Truncate`) and then filled (`Write`); a second request may fall
between the two, or between a check's question and its answer (`check_models`,
`Answered`).  The keys follow in a file of their own, and the server may be killed at
any of these steps (`Stopped`): inside a write the file stays cut off, between the two
files both are whole, and what the request had still to do is not done.  Left out: keys given by the
environment, endpoints and labels, the marks a check puts on a model, the default
selection, which falls back to a provider that is there when it is read.

### PluginInstall - `plugin_installer.py`, `plugin_marketplace.py`

| State | Code |
|---|---|
| `code` | the checkout in `sources`, the package in the virtual environment, or the built-in module: none, part, whole |
| `record` | the plugin's state in `PluginStateStore`, which the market's view reports |
| `wizard` | per request: the plugin and the step of `install` or `uninstall`; `cleanup` is `fetch_cleanup_needed` |
| `worked` | history: checkouts in which the user works |
| `doubtful` | history: plugins of which the record is not known to be true |

Each request makes an installer of its own, so the installer's lock excludes nobody;
the market's lock makes each of its operations one step.  pip and git are choices of
their outcomes, in the middle of which the server may be killed (`Survives`).  A
plugin is in doubt once two requests were at it, a checkout was left half-written or
half-removed, or the market enabled it without looking; an uninstallation clears it.

### AgentIntegration - `agent/integrations.py`

A file is a sequence of lines: the harness' block is one, the user's are keys, notes
(comments) and, in TOML, headings, with a comment behind them or without (`headnote`,
`head`): the code knows a heading only without.  `apply_agent`, `disable_agent` and `restore_agent`
are one step each, `UserEdits` is the user's editor; `created` is the entry of
`.smartmoney_cub_created.json`, and `maker` is who really made the file that is there:
the entry stays when the user deletes the harness' file and writes another, "again".
A JSON file with a note in it does not load.
`Scanned` is the scan for the block's own lines; `Remains` is what a file has without
them.

### Services, MCServices

`Services` composes the nine modules from `RouteChain` to `AgentIntegration`.  They share
no state, so a behaviour picks one of them at its start and the others stand still:
their state spaces add up instead of multiplying, and nothing is lost.  `MCServices` has
the values of their constants.

### Selection, FoldTheorems and the modules of proofs

`Selection` has one operator, the elements of a sequence that are in a set, as a fold:
it is what the code's list comprehensions are in the modules that are proved about.
`FoldTheorems` has what the proofs need of sums over sets and of folds over sequences.
The theorems of a module are in a module of proofs beside it, or together with those of
its neighbours: `GovernanceProofs`, `ReviewSessionProofs`, `FillLedgerProofs`,
`BrokerConnectionProofs`, `RecordsProofs` (`TenantStore`, `TraderService`,
`EvidencePack`, `AgentLoop`, `Intake`, `Redaction`, `ReviewPackage` and `Records`), `ServicesProofs` (`RouteChain`, `SelfEvolve`,
`PluginInstall`, `PluginRuntime`, `ProviderSettings`, `AgentIntegration`) and
`TraderProofs` (`TradeImport`, `BarReplay`, `Backtest` and `Services`).

### AtomicStore, TenantStore - `trader/storage/`

`AtomicStore` is the contract of `base.py` that both engines implement: a write of one
tenant, as a whole, with its audit entry.  `TenantStore` has the two engines.

| State | Code |
|---|---|
| `stored` | the committed rows of each tenant's tables: the write a row is from, the one that created it, whether a trade has its name |
| `audit_log` | the rows of the audited tables' log |
| `engine` | `SQLiteTenantStore` or `PostgresTenantStore` |
| `conn` | per server (PostgreSQL) or per thread (SQLite): the open transaction, the rows left to write, the rows written and not committed, the trades a statement found |
| `writes` | the bounded writes, which number the rows |

SQLite has one connection behind one lock and one upsert a row (`UpsertRow`).
PostgreSQL has a connection in each server; a row takes an UPDATE (`UpdateRow`) and,
where that found nothing, an INSERT (`InsertRow`) that fails on a row that has
appeared meanwhile; statements wait for a row another transaction has written
(`Unlocked`).  Any transaction may fail anywhere (`Rollback`: a refused row, a
duplicate key, a deadlock, a lost connection, a kill).  Left out: what a row says,
reads, the schema, and the table of symbols, which belongs to no tenant.

### TraderService - `trader/api/service.py`

| State | Code |
|---|---|
| `first`, `second`, `newest` | per pair of writes (a playbook or a decision and its audit entry, bars and their provenance, a run and its detail, symbols and names): those in the store, each known by its number |
| `known` | the tenant's row, made by `_ensure_tenant` |
| `replayed`, `replay_lock` | the stored replay session, as the number of actions it has taken; the service's lock |
| `acknowledged` | history: the actions the user was told of |
| `call`, `calls` | per request: its step and what it has read; the bounded requests |

Each write and each read of the store is a step; it may fail (`WriteFails`) or be the
last before the process is killed (`ServiceKilled`).

### EvidencePack - `evidence_pack.py`, `evaluator.py`, `manifest.py`, `registry.py`

| State | Code |
|---|---|
| `disk` | the files of the pack's directory, each as its content; `Torn` is one that does not parse |
| `build` | per process: what it builds and the files it has yet to write |
| `replay` | the replay in progress: the pack it has read, the files whose digest differs |
| `report` | `replay_report.json` |
| `finished`, `last`, `calm` | history: the builds written to the end, the last one begun, and that nothing has happened since but its writes |
| `builds`, `faults` | the bounded builds, kills and edits |

`WriteFile` writes one file in the order of the code: the rule, four files a run, the
pack, the seal.  A replay takes four steps (`ReadPack`, `CheckSeal`, `HashArtifacts`,
`Judge`), between which others write; `HashArtifacts` and `Judge` read all their files
in one step.  `validate_run_manifest`, `evaluate_decision`, `promotion_blockers` and
`_review_status` are operators.  A digest is the content it is of.  `safety_envelope` is
applied to the finished pack too, and that is modelled by what it takes: a digest in which
eleven digits follow one another, as a telephone number (`Illegible`, about one digest in
three hundred); every digest of a run whose name, which is part of the key, has a word like
session, token, account or secret in it (`Suspect`); and the name itself, with its paths,
where it looks like a telephone number or an API key (`Masked`).  What it does to the
artifacts is left out: it can change the warnings of a manifest (a late source that is
named by a local path), which a replay then finds to differ.

### Evaluation, AgentLoop - `evaluator.py`; `loop.py`, `run_capture.py`, `run_envelope.py`, `decision.py`, `outcome.py`, `case_bank.py`

`Evaluation` has what a decision and its outcome make of each other
(`evaluate_decision`), which the packs and the loop share.

| State | Code |
|---|---|
| `dirs` | the run directories below each root, and of each the files in it, as their contents; `Torn` is one that does not parse |
| `work` | per process: the directory it made, the file it writes next, and the locals `results`, `outcome`, `evaluation` of `run_agent_loop` |
| `ended`, `disturbed` | history: the loops that came to their end, the directories somebody else wrote into |
| `runs`, `mishaps` | the bounded captures, and kills and steps by hand |

`capture_run` makes the directory (`unique_run_dir`) after its commands have run;
`WriteStep` then writes one file in the order of the code (`FileOrder`), for which it
reads what it needs in the same step.  A step that raises ends the process (`Raises`),
which a kill does too, before a write or in the middle of it (`LoopKilled`).
`build_outcome`, `evaluate_run`, `collect_case` and `save_memory_record` are the commands
of `cli.py` that do one step in any directory.  A directory is a root and a number:
decision time and mode are constants of a loop, so that runs differ in the suffix only.
A command's result keeps its return code, the candidate it selects and the symbols it
names; prices are moves in percent since the day of the decision.  Left out are the files
no step reads again: the plan, the position check, the review, the report, the trace.

### Intake - `extractors.py`; `store.py`, `workbench/server.py`

| State | Code |
|---|---|
| `documents`, `on_disk` | the rows of `source_document`, and what `documents_dir` has under each name |
| `extractions`, `committed_runs` | the extraction runs with their candidate rows as the shared connection sees them, and how many of them the last commit has |
| `imported` | the extractions whose rows were taken over |
| `uploading` | where the upload in progress is: before its file, before its row, before its extraction |
| `cut` | history: files whose writing was cut off by a kill |

A content is a format and a sequence of lines, each the set of what is found in it (a
day, a symbol, a side, a price, a quantity, a word of the header, a number too large for
SQLite).  `first` of them are on the first sheet of a workbook, in the first list of a JSON
file, or on the pages of a PDF that have a text layer, where its reader stops (`First`).  `detect_source_kind` gives the kinds a file may be taken for; `extract` reads
it by that kind, whatever it really is.  `parse_table_text` joins a line that has a day
or a symbol alone with the next one (`Window`), a table skips what is above its header
(`Header`).  `write_bytes` leaves alone a file that exists, `add_document` is the row;
`record_extraction` inserts rows until SQLite refuses one (`Inserted`), after which the
transaction is open until any request writes (`StoreWrites`) or the process is killed.
The user's corrections of a row are left out: rows are taken over as they are.  A line
that a document breaks in two is broken after the day or the symbol (`wrapped`).

### Redaction - `redaction.py`, `safety.py`, `validate_redacted_payload`

No state.  A payload is the set of its leaves; a leaf is the keys on the way to it and a
value.  A key is the set of the rules its name meets (`Rule`), a value its form - text,
anything else, or one of the masks - and what its text contains (`Mark`: a secret, a
symbol's code, file material, and an exact quantity or an account, which no expression
of the code knows, `SpelledOut`).  `MaskOf` has the rules in the order of the code, of which
the first that a key meets decides; everything below it goes.  `KeyIsFine` has the
validator's rules, of which each key must satisfy all, and `StopsAt` where it does not
look further.  The two were written apart and disagree on three kinds of leaf
(`Unmaskable`); on any other, what redaction makes the validator accepts.  Names and texts
are not matched here: which rules a name meets is given with it, within what the tables
of names allow (`Key`).

### ReviewPackage - `agent/runtime.py`, `review_contracts.py`, `review_validation.py`, `agent/dsh_bridge.py`, `store.py`

| State | Code |
|---|---|
| `reviews` | `agent_session` and `session_event`: of each session its context (the scope's confirmation, the phase, the trade in focus), its log, what it was forked from |
| `asked` | per thread of the server: the request between two of its steps, with the context it has read |
| `sidecar`, `answers` | the process behind the bridge, and its answers nobody has read |
| `muddled`, `torn`, `refused`, `agreed`, `crossed` | history: sessions whose context two requests wrote at a time or a killed one, forks cut off, analyses refused, sessions whose envelope the sidecar took, calls under way at once |
| `requests`, `breaks` | the bounded requests and kills |

A context is read (`get_session`), changed and written back as a whole
(`update_session`), and the event that tells of it comes after (`append_event`), or
before in the case of a package; each is a step.  `fork_session` holds the store's lock
over the session and its copied events, each of which commits: a kill cuts it off
(`Broken`).  `_write` and `_read` are the two halves of a call to the sidecar, which no
lock holds together.  What a session is about is chosen anew at each preview
(`Analyses`), since the ledger changes under it; `context_payload` may cut lists.
`StructuredReviewPackage` and its parts decode what a plugin sends (`Packages`);
`Recordable` is all the checks of `record_review_package`, `validate_plugin_result`
those of a plugin's result, `Runs` an adapter's.  Left out: contexts that a client posts
or patches as a whole, requests that are refused for a wrong review id, the turns
(`ReviewSession`), and with them the busy status that sends a review of a trade away.

### Records, MCRecords

`Records` composes `FillLedger`, `TenantStore`, `TraderService`, `EvidencePack`,
`AgentLoop`, `Intake` and `ReviewPackage` in the same way, and `MCRecords` has the values of their constants.  Exports of
four rows are explored in one order, that of their timestamps: rows are sorted before
they are booked, and those of up to three rows come in every order.  Shorts are allowed
only where a row declares them, since the parameter is read of no other.

## 4. The runs

| Run | Module and cfg | Shows |
|---|---|---|
| `governance` | `MCGovernance`, `MCGovernance.cfg` | all invariants, the append-only journal and the refinement of the register |
| `governance_metrics` | `MCGovernance`, `GovernanceMetrics.cfg` | the contract's "only after metrics pass" fails on rollback |
| `governance_confirmation` | `MCGovernance`, `GovernanceConfirmation.cfg` | a champion is displaced without a confirmation |
| `session` | `MCReviewSession`, `MCReviewSession.cfg` | status, log, audit and cancellation of two concurrent requests and a cancellation |
| `session_liveness` | `MCReviewSession`, `ReviewSessionLiveness.cfg` | every turn ends |
| `session_stop` | `MCReviewSession`, `ReviewSessionStop.cfg` | a stopped turn goes on when another one begins |
| `session_hang_up` | `MCReviewSession`, `ReviewSessionHangUp.cfg` | a dropped turn leaves a session no resume accepts |
| `records` | `MCRecords`, `MCRecords.cfg` | every ledger of up to four rows: both sides of the books balance and match a position count (`LedgerBalances`), FIFO, T+1 and no sale before its purchase (`SoldInOrder`); the tenant store implements its contract; the trader product's requests keep its records consistent; a replay of an evidence pack tells the truth (`ReplayTellsTheTruth`); a loop leaves one story (`RunsTellOneStory`); uploads are kept and extracted as a whole, or say that they are not (`UploadsAreWhole`); a review's log explains its context and what it has on record was checked (`ReviewsAreOnRecord`) |
| `fill_ledger_ambiguity` | `MCFillLedger`, `FillLedgerAmbiguity.cfg` | a date-only sale is matched in silence with a purchase days later |
| `broker_connection` | `MCBrokerConnection`, `MCBrokerConnection.cfg` | what a complete sync, a durable cursor, a connect and a disconnect promise, that the journal never goes back, and that executions arrive |
| `services` | `MCServices`, `MCServices.cfg` | the properties of the nine services below |
| `backtest_look_ahead` | `MCServices`, `BacktestLookAhead.cfg` | a stop and a size set at the open read the ATR of the bar that opens |

**Bounds of governance.**  Two threads are enough for every race of two compound
requests (a method in between is atomic); two families tell a family's own
champion from another's; one risk reason and a threshold met exactly, or missed
by giving no count, make both outcomes of the gate; five events cover baseline or
challenger, evaluation, recommendation, confirmation, and one thing more.  The
theorems remove the bounds for the invariants they name.  Symmetry is over
threads only, and every property checked under it treats threads alike.

**Bounds of the session.**  Two turns and one cancellation are the smallest
instance in which a flag is set for one turn and cleared by another, and in which
a cancellation meets a turn that has begun after the one it saw.  Two rounds give a
last round and one before it; with two candidates a payload can go on to another
provider.  The liveness and violation runs use one round and
no symmetry.  Deadlock is not checked: a session whose requests have all been served stops.

**Bounds of the fill ledger.**  Four rows of fourteen shapes over three days.  Two
purchases, a sale over both and a further sale are the longest story a lot has
(untouched, used in part, used up, oversold); quantities one and two make a sale
smaller than, equal to and larger than a lot.  The shapes hold each effect, each
precision, a repeated row and two rows that differ in their declared id only.  The
run tries every order of up to three rows, and T+1 on and off.  Deadlock is
not checked: the loop ends.

**Bounds of the broker connection.**  Account `a` has three executions and a sync
reads two pages of one, so a scan spans two syncs; account `b` has one, and is there
for its credentials to replace those of `a`.  Two requests are a connect and either
a disconnect or another account; one correction, one fault and one crash each fall
anywhere, between any two steps.  A page is tried twice.  Deadlock is not checked:
without a connection nothing happens.

**Bounds of the tenant store and the trader product.**  Two tenants with the same two
identifiers, two servers and two writes, each at any step of the other: an import of
one row, of two in either order, and of one row twice.  Two writes of two tenants show
a row that crosses from one to the other; two of one tenant, the duplicate key and the
deadlock; a third could only meet one of them committed, which the theorem covers.
The trader product has two requests side by side and four in all, so that a reader
comes after a declaration and beside another.

**Bounds of the evidence packs.**  Six packs of one run each: one that passes, one
that was not declared safe, one whose sources came too late, one with an unlucky digest,
and two that pass under the names `session-1` and `13912345678`.
All use the same directory, so that a build overwrites the files of the one before; two
builds one after the other and one kill or edit, with replays at any moment, make every
mixture of two packs.  Several runs a pack and several builds at once are the theorem's.

**Bounds of the loop.**  Two processes, each a loop or a capture, and two runs, so that
two of them compete for one name, or one comes after the other; two places to be started
in and to write under, so that a loop may be started elsewhere while a run of the same
name is there; one kill, or one step by hand, at any moment.  The toy strategy gives a
candidate or fails; other commands name a symbol only, name none, choose another
candidate or one without a symbol, or time out with one printed, beside one of the same
name that went well or not, which is every way a symbol is derived and each label.  One price source ends after two days and knows one symbol.  Directories have
two names a place, which is as many as two runs need; a third run is the theorem's.

**Bounds of the uploads.**  Two uploads, one after the other, so that the second may bring
the same bytes, the same name, or both; three names, of which one tells nothing; six
contents, among them a PDF with two wrapped trades one after the other, a table with a
title above its header and a trade on a second sheet, one with a number SQLite refuses in
the middle, a JSON file with a second list, a PDF whose second trade goes over from a page
with text to a scanned one, a scan and a picture, each under each name.  One kill, at any step; imports and other writes at any
moment.

**Bounds of the guided reviews.**  Two threads and two sessions, so that two requests
meet in one session, a fork is beside its source, and two calls cross on the bridge;
three requests, so that one comes after two that met; one kill.  Packages are sent to
either session, one in each version of the contract, and one each with evidence from after
its decision, with an exact amount, and with a proposal that is no challenger.  Of two analyses, one has a
text that spells out a quantity and an account, under no rule, beside a list with a symbol,
which may be cut, the other file material; what redaction does to any other leaf is the
theorem's.  A sidecar is there or not, takes an
envelope or rejects it, and may die.

**The services and their bounds.**

* Route chain (`AnswerFromOneAttempt`, `RestsLeaveAnAnswer`, `RequestEnds`): two turns share one table; two models of one
  provider; a list that ends in the offline route and one that has it in its middle.
  Of the failures before an answer one is retried and rests shortly, one is not and
  rests for longer than one passage of time (290 s).  One retry, three requests: two whose
  marks cross, and one that meets what they left.
* Plugins (`RegistryIsSound`): a command, a package that
  serves one of its capabilities better, and a package that needs that capability
  and the network and hands out the same provider at each load; with and without the
  permission; four provider objects, which are those of the command twice, or of the
  package and the last one.
* Import (`JournalIsExact`): two requests, three imports or corrections,
  pages of two, over all days or the first two of three.  The batches hold a correction,
  a repetition and a row SQLite refuses after one it takes; a trade can be moved into the
  window and out of it between two pages.
* Bar replay (`AccountIsReplayable`, `ExperimentsOnlyGrow`): three bars, so that a
  jump passes over a fill; one replay with two branches; two orders; cash three, so
  that an order of two is affordable at one bar and not at another.
* Backtest (`LooksAheadInAtrOnly`): every series of four bars of four shapes, under
  five strategies that between them use each rule, stop, target, size and fill mode.
* Self-evolve (`EvolutionIsSound`): three cases, the third of them invalid, a run of
  two; two samples stand for the twenty a promotion needs.  Runs, decisions and kills
  are unbounded.
* Provider settings (`ChoicesSurvive`): two requests side by side, three in all, over a
  provider that is there from the beginning, one from the catalog, the fallback, which
  can be installed and removed as well, and a plugin's credentials; a model one can
  talk to and one not.  Kills are unbounded.  Requests stop once two have clashed, for
  then nothing but the order is promised.
* Plugin installation (`EnabledIsThere`): two wizards and three requests in all (an
  installation, a removal and another installation, two of them at once), over a
  plugin of each kind.  The theorem removes the bounds.
* Agent integration (`UserLinesSurvive`): each format, three lines of the user's
  before, between and after, of each kind of line; edits and requests without end.

Deadlock is not checked: a service stops when its bounds are reached.

## 5. Fairness

Three liveness properties use it.

`TurnsEnd` (`session_liveness`).  `TurnStep` of each turn and `CancelStep` of each
cancel are weakly fair: a request's thread is scheduled by the operating system, and
every wait inside a turn is bounded, by the provider client's timeout
(`agent/providers.py`, REQUEST_TIMEOUT_SECONDS) or the local agent's.  Nothing is
assumed of the environment: no request has to come, no browser has to hang up, no
process has to restart.  The model's own choice in `Stream` is not fair in favour of
an end: what ends the turn is the limit of tool rounds.  The bound of one text delta
a round stands for a stream that is finite.

`RequestEnds` (`services`).  `RouteStep` of each turn is weakly fair, for the same
reason.  Time need not pass, and no target has to recover.

`FillsArrive` (`broker_connection`).  `Load`, `Step` and `SyncStart` are weakly fair:
a request that has begun goes on, a process that runs restores its connections with
its first request, and a connected source is synced again and again, by the watcher
of a local directory every 30 seconds (`watcher.py`), by the user elsewhere.  Reads
and writes need not succeed; that they fail only `MaxFaults` times is a bound.  The
property itself asks for an account that stays connected.

## 6. What is proved

`GovernanceProofs` proves, for any number of threads, families and events and any
threshold, that `Spec` implies

* `TypeOK` (theorem `TypeCorrect`),
* `NewestProfileIsCurrent` (`CurrentProfileUnique`),
* `OneMandatedChampion` (`ChampionsAreMandated`): a family has at most one champion, and
  that one has its mandate,
* `PromotionsAreEarned` (`PromotionsEarned`),
* `JournalExplainsStatus` (`StatusesExplained`),
* `JournalOnlyGrows` (`JournalGrows`),
* `ImplementsRegister` (`RegisterImplemented`).

The only assumption is `GovernanceAssumption` on the constants.  The argument is
one inductive invariant (`GovernanceInvariant`): the shape of the journal, that
every index kept in it (an evaluation's strategy, a promotion's strategy and
evaluation, a request's profile and strategy, an event's strategy) lies within the
list it points into, that a request between its steps holds indices of rows
already written, and the three properties.  The indices are needed because
`Installed` and `IsMandated` look strategies up by what promotions and events
remember; the mandate goes with them because it names, by the last event of a
family, the one strategy that may be its champion.  Each step of `Next` has a step of
the proof.

That promotions are earned rests on `EarnedInvariant`: what the lists and the requests
in flight lean on is in the journal already - behind an evaluation that passed stands
the event that says so, behind a promotion that waits the recommendation, behind a
challenger's parent its installation - and a journal that grows keeps saying it.  The register is implemented step by step: a save
that installs a champion is an `Install`, one that demotes is a `Vacate`, all others
stutter.  `JournalExplainsStatus` compares the statuses with a replay of the whole
journal, which is a fold over its events; the fold of a journal with one event more is
the step of that event on the fold so far, and each save is shown to make the same step
on the statuses.

`ReviewSessionProofs` proves, for any number of turns, of cancel requests, of tool
rounds and of restarts, that `Spec` implies

* `TypeOK` (theorem `SessionTypeCorrect`): the rows of the audit are bounded by the
  rounds, which needs that a payload is prepared only while rounds are left and
  where each yielded event sends the turn (`Fits`, part of `TypeInv`);
* `OnlyStoppedTurnsCancel` (`CancelledWereStopped`), by `CancelInv`: while the flag
  is set, every turn is either among those it was set for, or still ahead of
  clearing it, or over;
* `BusyHasOwner` (`BusyOwned`), by `OwnerInv`: whoever wrote `running` is at a place
  from which a status is still owed (`Owing`), dropped turns included;
* `AuditedBeforeSent` (`AttemptsAudited`), by `AuditInv`: attempts never exceed audit
  rows, and are fewer when a turn stands before an attempt; a payload goes out only of a
  round that has its row, which `Fits` says of every place a round can still send from;
* `TurnLogIsWhole` (`TurnLogsWhole`): at each place of a turn, what its log must have
  and must not have (`Whole`): which rounds it tells of, whether their tools are
  answered, and that the terminal row is the last.

Each needs `TypeInv` beside it; the only assumption is `SessionAssumption`.
`TurnStepEffect` says once what any step of a turn can do to the flag, the log, the
audits and the status; the three arguments use it instead of the program's text.

`FillLedgerProofs` proves, for any set of rows, any length of the export and both
market rules, that `Spec` implies

* `TypeOK` (`LedgerTypeCorrect`), which holds that no lot is overdrawn;
* `SoldInOrder` (`SalesAreInOrder`), from its three parts, `FirstInFirstOut`
  (`OldestFirst`), `SettledBeforeSold` (`SoldWhenSettled`) and `BoughtBeforeSold`
  (`SoldAfterBought`);
* `LedgerBalances` (`LedgerBalanced`): for each side of the books, what the rows
  bought and sold is what is matched, open or refused, and the open lots are the count
  of positions.

The inductive invariant `LedgerInv` adds two facts.  `SaleInv`: a sale that wants
more holds exactly the lots it may take, so that the least of them has no usable
elder; without it nothing ties the list computed at the start of a sale to the
lots as they are.  `OrderInv`: rows that are booked come before all that are not,
hence each lot before whatever closes it.  The only assumption is `FillAssumption`.

The balance needs sums over sets of rows and of matches, which are folds over a set in
an order that is chosen.  `FoldTheorems` shows that every order gives the same sum
(`SumInAnyOrder`), that a sum over a set with one element more or less changes by that
element, and that sums go apart along a partition.  With these, `BooksInv` carries both
sides of the books through the inner loop: what a sale still wants is the difference
while it runs.

`ServicesProofs` has the services, each with an invariant of its own.

**Route chain.**  It proves, for any targets, providers and lists, any number of turns
and any bounds, that `RouteSpec` implies `RouteTypeOK` (`RouteTypeCorrect`),
`AnswerFromOneAttempt` (`RouteAnswersFromOneAttempt`) and `RestsLeaveAnAnswer`
(`RouteRestsAndAnswers`), from `RouteLetsRest` and `RouteEndsOffline`.  The inductive invariant
(`RouteIsSound`) has two parts.  `RestsInv`: no target or provider
is owed more rest than the table gives it, nor more than a turn that has read that rest
is about to write over it; the second is what a rest written while another turn's mark
is pending would break, so such a rest is not owed.  `ChainsInv`: a live generator stands at a candidate that was let in, no
such candidate was resting, the offline route is at or ahead of it, and what went out
is of its present attempt.  That the list always has the offline route is a lemma
about the candidates.  The only assumption is `RouteAssumption`.

**Self-evolve.**  It proves, for any cases, grades, threshold and length of a run, that
`EvolveSpec` implies `EvolveTypeOK` (`EvolveTypeCorrect`) and `EvolutionIsSound`
(`EvolutionAlwaysSound`).  `EvolutionIsSound` speaks of files only and is not
inductive: what a command will write next is in its memory.  The invariant
(`EvolveInvariant`) adds `RunInv` - a run has in memory the loop that is on the disk,
the case it reviews is not among the completed, its evaluation is written before it
is, and what it registers and shows is all that is completed - and `ConfirmInv` - a
decision is about the packet that is there, and one that promotes was approved on
evidence without blockers.  The only assumption is `EvolveAssumption`; one command
runs at a time.

**Plugin installation.**  It proves, for any catalog and any number of requests, that
`InstallSpec` implies `EnabledIsThere` (`EnabledPluginsAreThere`).  The property is not
inductive: that an installation may record its plugin depends on what it found or
fetched before.  The invariant (`InstallIsSound`) says of each plugin nobody doubts
that one request is at it at most, that half a checkout belongs to a request that is
fetching it, and what each stage finds (`Stage`): nothing before a clone, the whole
before a record, no record before a removal.  Every action of a request disturbs one
plugin (`Moved`); the market, the user and a kill have lemmas of their own.  The only
assumption is `InstallAssumption`.

**Plugin runtime.**  For any plugins, capabilities, permissions and number of provider
objects, `PluginSpec` implies `PluginTypeOK` (`PluginTypeCorrect`) and
`RegistryIsSound` (`RegistryStaysSound`).  The invariant (`PluginInv`,
`PluginInvariant`) says that each list of the registry is ranked and holds only
providers of its capability that have been made, that the scope of a plugin holds all
that the registry has of it and nothing of another, and that what is in a scope and no
longer in the registry carries the id of another plugin.  So disposing of a scope leaves
the others' providers alone (`TakesFromPlugin`); what `deactivate` takes out besides
carries the plugin's own id (`LeftInItsName`).  The only assumption is
`PluginAssumption`, which lets an offer carry any plugin's id.

**Provider settings.**  For any providers and models and any number of requests,
`SettingsSpec` implies `SettingsTypeOK` (`SettingsTypeCorrect`) and `ChoicesSurvive`
(`ChoicesAlwaysSurvive`).  The invariant (`SettingsInv`, `SettingsInvariant`): until
two requests clash, at most one of them has a file open, which is empty meanwhile, and
what it is about to write is what the file held with its own change; the keys on the
disk are those the requests that came to their end gave and took, or one request is about
to write them; and the key of a provider that is gone is a stray or that of a removal still
under way (`KeysHeld`).  A check has in what it writes all that it had read (`Changes`),
so what is lost to it is what it had not.  The order
has no provider twice and ends in the fallback, where that is there, at all times,
clashes included.  The only assumption is
`SettingsAssumption`.

**Agent integration.**  For any lines and any bound of a file's length,
`IntegrationSpec` implies `IntegrationTypeOK` (`IntegrationTypeCorrect`), which says
that a file has at most one block and headings in TOML only, and that a file the
registry knows was once made by the harness, and `UserLinesSurvive`
(`LinesAlwaysSurvive`).  The type is invariant enough.  What a scan leaves is a
selection of the lines, in their order, at the places it does not touch; the block is
among the touched, and no line of the user's is, but for the exceptions the property
names.  The only assumption is `IntegrationAssumption`.

`RecordsProofs` proves, for any tenants, identifiers, imports and number of
servers, that `TenantSpec` implies `ImplementsAtomicStore` (`EnginesAreAtomic`): every
step of either engine is a write of the contract or a stutter.  Only `Commit` is a
write, and it is one because of what the invariant (`TenantInvariant`) says of every
open transaction: the rows it has staged are what its write makes of the rows that are
committed at this moment, nobody else has written those rows, and its tenant is known.
That holds although rows were read long before, because a staged row keeps others from
writing it and an INSERT fails where a row has come up.  The only assumption is
`TenantAssumption`.

`RecordsProofs` also has `TraderService`: for any callers and number of calls,
`TraderSpec` implies `TraderTypeOK` (`TraderTypeCorrect`) and `TraderIsConsistent`
(`TraderStaysConsistent`).  `TraderInv` (`TraderInvariant`) says of each request, by
its step, that its first write is in the store before its second, that what it answers
is no older than what it found when it began, and that the one which holds the replay
lock has read what is stored; so no stored session forgets an acknowledged action.  The only assumption is `TraderAssumption`.

`BrokerConnectionProofs` proves, for any accounts, executions, page size and any number
of requests, faults and crashes, that `Spec` implies

* `TypeOK` (`BrokerTypeCorrect`),
* `NothingIsSkipped` (`NothingGetsSkipped`): a complete sync has what its account had, and
  a durable cursor has what was scanned to get to it,
* `ConnectionIsTheOneAskedFor` (`ConnectionsAreTheOnesAskedFor`),
* `JournalNeverGoesBack` (`JournalsNeverGoBack`).

The invariant (`BrokerInvariant`) follows events and cursor through the three copies of
a connection's state - the file, the manager's, the connection's own.  In each, a cursor
has behind it only events the copy holds, no event is newer than the broker's, and none
is older than the journal's (`KnownInv`); so an import never takes an execution back,
whichever copy it comes from.  `OwnerInv` says whose credentials the files and the
process hold at each step of a request, and `SyncInv` what a scan has gathered by the
place it has reached; a complete answer is the end of one.  The broker may execute and
correct at any time, so the claims speak of what it had when the sync began.  After a
connection with another account the scan goes on from the cursor of the account
before: the property promises completeness only of a scan that began at its start or at
a cursor of its own account.  The only assumption is `ConnectionAssumption`.

`TraderProofs` has three modules.

**Import.**  For any executions, batches, number of requests and page length,
`ImportSpec` implies `ImportTypeOK` (`ImportTypeCorrect`) and `JournalIsExact`
(`JournalStaysExact`).  `ImportInv` (`ImportInvariant`): an identifier is among the
trades once; what a request has read is of its days or has left them (`left`), each once;
and so is what it knew.  The places of the listing are shown to be a bijection with the
matching rows (`PlacesAreTaken`), so the list is as long as there are trades of these days.
A short page is met only with at least as many rows as that; the rows read and the trades
missing together are then at most those of these days and those that left, so no more can
be missing than have left (`FewAreMissing`) - and none has left all days.  A row met twice,
because somebody wrote, ends the reading.  The only assumption is `ImportAssumption`.

**Bar replay.**  For any prices, bars, branches, orders and cash, `ReplaySpec` implies
`ReplayTypeOK` (`ReplayTypeCorrect`), `AccountIsReplayable` (`AccountStaysReplayable`)
and `ExperimentsOnlyGrow` (`ExperimentsGrow`).  `ReplayInv` (`ReplayInvariant`): orders
are numbered; fills are in the order of their bars and can be paid one after another;
an order still pending was given at the cursor.  Moving over several bars settles the
pending orders bar by bar, and `HalfSettled` is the invariant of that loop.  The fills
that are revealed at a cursor are a first part of all fills, because these are sorted;
hence the account at a cursor is that of a run which had stopped there.  The only
assumption is `ReplayAssumption`.

**Backtest.**  For any series, windows, strategies, fees and slips, negative ones among
them, `BacktestSpec` implies `BacktestTypeOK` (`BacktestTypeCorrect`), which says
that cash is never negative as long as no sale costs more than it brings (`Covered`; the
run's own fees and prices are such), and `LooksAheadInAtrOnly`
(`NothingElseLooksAhead`).  An indicator at a bar is a function of the bars up to it
(`IndicatorSame`): a mean is a sum over a window that ends there, whatever the order of
summing, and a smoothed average is a fold that has not gone further.  Each of the four
steps of a bar is then compared with the same step on a series that turns after this
bar; a stop and a size that use no ATR depend on nothing of the bar that opens but its
open.  The only assumption is `BacktestAssumption`.

**Evidence packs.**  For any runs and rules, number of processes, kills and edits,
`PackSpec` implies `PackTypeOK` (`PackTypeCorrect`) and `ReplayTellsTheTruth`
(`ReplaysTellTheTruth`).  A seal is the last file of a build (`RankBeforeSeal`), so a
seal on the disk is that of a finished build, and with it the pack a replay goes by, read
before before the seal (`PackShape`).  A pack passes the checks of a replay exactly if the
redaction leaves its names and digests alone (`LeftAlone`).  While nothing else happens (`CalmInv`), one process at most
writes, what it has written is there, and what a replay has read is the last build's; what
it recomputes then is what the build had computed, since a run that was declared safe is
frozen as it is and one that was not gives itself away (`Recomputed`, `Declared`).  The
assumptions are `PackAssumption` and `TornAssumption`: what a build writes does parse.

**Agent loop.**  For any processes, places, commands and prices and any number of runs,
kills and steps by hand, `LoopSpec` implies `LoopTypeOK` (`LoopTypeCorrect`) and
`RunsTellOneStory` (`LoopsTellOneStory`).  A decision on the disk says nothing of how it
came there, so the invariant (`LoopInv`, `LoopInvariant`) follows each process: the
directory it writes into was free when it made it and is nobody else's; the three files
below a decision are those of its commands (`Evidenced`, and `Grounded` once the decision
is there, whoever has been killed since); and while nobody disturbed the directory, each
file from the outcome on is what the process has in its locals (`Told`).  The evidence of
a decision is in no danger from a step by hand, since none of these writes it; the files
above it are, which is why the property excepts disturbed directories.  The assumptions
are `LoopAssumption` and `CutAssumption`: a file that was cut off is not taken for a
whole one.

**Uploads.**  For any contents, names, number of uploads and kills, `IntakeSpec` implies
`IntakeTypeOK` (part of `RecordsTypeCorrect`) and `UploadsAreWhole` (`UploadsStayWhole`).
`IntakeInv` (`IntakeInvariant`): each file is named by its content, so a file that exists
already has the bytes about to be written, or a part of them; the upload in progress is of
bytes no document has until its own row, and its file is there before that row; imports
refer to committed extractions only, so a kill never takes one away.  What an extraction tells
is a fact about the readers, proved for each kind: a wrapped trade is read at its first
line because the two lines together have what either lacks (`TextTold`), and a trade
that is missing without a word is on another sheet, in another list, or on a scanned page
of a PDF with text (`Beyond`).  The only assumption is `IntakeAssumption`, which says where
a document may break a line, and that what a reader stops at comes first.

**Redaction and the guided reviews.**  For any analyses, packages, threads, sessions and
kills, `ReviewSpec` implies `ReviewTypeOK` (part of `RecordsTypeCorrect`) and
`ReviewsAreOnRecord` (`ReviewsStayOnRecord`).  Two lemmas about a single leaf, of any
length and any values, carry what is said of payloads: redaction leaves nothing to reduce
of what it goes by (`RedactionReduces`), but a quantity or an account that a text spells
out stays in clear just where no key on its path has a rule (`SpelledOutStays`), and what it makes of a leaf that is not `Unmaskable` the validator
accepts (`RedactionIsFine`): the first key that asks for a mask is the last one of the
reduced leaf, and no key above it asks for anything, so an analysis is refused for file
material alone.  The inductive invariant is `ReviewInv` (`ReviewInvariant`).  Its first
part, `TellInv`, is about contexts: two requests write one session only if it is muddled
(`WritersApart`); what one that is alone has read, or has just written, is what the log
makes of the session up to the event that is still to come (`RequestsTell`), and its
package is in the log already (`PackagesAtHand`); hence the context is what the log makes of it
whenever nobody writes (`ContextsTell`).  The second, `LogsInv`, is about logs, which only
grow: a fork is later than its source and begins with a first part of it
(`ForksAreLater`, `ForksContinue`), and every event was checked when it was appended.  The
third, `BridgeAnswers`, says that as long as no two calls crossed, an answer that waits
is that of the one who waits for it.  The only assumption is `ReviewAssumption`; it says
of an analysis that none of its names is one of a file or meets two rules that redaction
and the validator treat differently, which is so of the names the context is made of
(`context_payload`, `agent/runtime.py:136`).

**The compositions.**  `ServicesTypeCorrect` and `RecordsTypeCorrect`: whichever
component a behaviour of `Services` or `Records` is about, its state has its shape.  Each
step of a composition is shown to be a step or a stutter of every component, so that it
behaves as alone and the theorems above hold of it.

Every invariant and action property that a run shows to hold is thus a theorem for
every value of the constants.  Two things are only model-checked: the
liveness properties `TurnsEnd`, `RequestEnds` and `FillsArrive`, since fairness and
ENABLED are out of the prover's reach, and what the violation runs refute.

The provers here cannot use an induction theorem that takes a formula as a parameter.
Where an argument is one by induction over data - a sum, a fold, a list that is
selected from - the set of numbers (or of subsets) for which the claim fails is defined
and its least member refuted (`NumberInduction`, `IndexInduction`, `SubsetInduction` of
`FoldTheorems`, stated for a set).  They know nothing of SelectSeq and SortSeq either:
`Selected` and places by rank say the same.

## 7. Where documents and code differ

* `docs/harness-contract.md:33` says rules become champion only after metrics
  pass; `rollback` installs any strategy (run `governance_metrics`).
* `docs/integrations.md:19` says champion mutation requires confirmation;
  `evaluate` and `edit_profile` take a champion away without one (run
  `governance_confirmation`).
* `docs/review-agent.md:16` says a running turn can be stopped; a turn begun in
  the meantime clears the flag (run `session_stop`).
* `workbench/server.py:2282` says a conversation resumes where a closed tab left
  it; the session stays `running`, which `resume_turn` refuses (run
  `session_hang_up`).
* `fills.py:518` says ambiguity never becomes a silent trade; rows are sorted by
  the precision of their timestamps first, so a date-only sale is matched with a
  timed purchase of a later day, with no issue and status `ok`; the code
  `ambiguous_execution_time` (`fills.py:61`) is never reported (run
  `fill_ledger_ambiguity`).
* `trader/backtest/engine.py:3` says every decision reads only closed bars; an order
  filled at an open takes its stop and its size from the ATR of that very bar
  (`engine.py:250`, run `backtest_look_ahead`).

Met while modelling, each visible in one definition and without a run of its own:

* `trader/backtest/engine.py:259-261` says the engine models no leverage: a purchase
  beyond the cash is not made.  Nothing bounds fees, slips and prices from a request
  (`trader/api/service.py:1209-1212`), so a sale may cost more than it brings and leave
  less than no cash (`engine.py:304`; `Covered` of `Backtest`).
* `docs/convergence.md:57` says a batch with a row that fails validation is refused
  as a whole.  A row that passes validation and that SQLite refuses ends `add_fills`
  without a rollback: the rows before it are committed by the next write of any
  request (`store.py:462`, `OtherWrite` of `TradeImport`).
* A correction back to an execution already recorded is skipped, and two executions
  of one symbol, day and side supersede each other (`store.py:455`, `AddFill`).
* `trader/api/service.py:692` says re-importing a trade corrects it; a row without an
  id of its own is named by what it says, so a corrected one is a second trade
  (`Generated`).
* `trader/api/service.py:309` says the complete matching history is read, and `:324` that a
  journal that changed is noticed.  A repeated id is what is noticed: a correction that
  moves a row already read out of the filter shifts the rest up, and the reading ends well
  without one of them (`Overtaken` of `TradeImport`; `JournalIsExact` bounds what is
  missing by what was moved).
* A provider that already carries an id keeps it (`plugins/runtime.py:438`), and
  `deactivate` takes out the provider that serves under the id of its plugin, whoever
  registered it (`plugins/runtime.py:490-497`): unloading one plugin can take out a
  provider of another, whose scope still lists it (`Leftover`; `RegistryIsSound` names the
  exception).
* A command shadowed by a stronger provider registers its providers again when it is
  activated again (`plugins/runtime.py:388`, `Commands` of `PluginRuntime`).
* `cli.py:591` and `workspace_cli.py:405` say the registry and the rule library must
  not disagree.  A loop resumed after its promotion registers its rule as a
  recommendation again, and the mirror takes the library's champion away while the
  registry keeps it; a rejection after a promotion leaves the registry's champion
  (`SyncLibrary` and `ListDecision` of `SelfEvolve`).
* A `loop_state.json`, `eval.json` or `rule_registry.json` that a kill has cut off is
  parsed by every later run, which stops there (`self_evolve` and `Abort`).
* `docs/review-agent.md:110-112` says that every attempt is recorded in the audit, with
  provider and model.  A round writes one row, which names the session's own provider and
  model (`agent/runtime.py:695`); the route chain then sends its payload again, and to
  other candidates, with no further row (`agent/runtime.py:763`, `route_chain.py:169-187`;
  `SendPayload`).  What holds is that the payload had its row before it first went out
  (`AuditedBeforeSent`).
* `docs/review-agent.md:28` says that the offline entry is a migration record and no answer
  route, and lines 73-75 that no local template answer is ever substituted silently.
  Every list of candidates ends in the offline route (`_route_candidates`,
  `agent/runtime.py:1012`), whose fixed text is the answer when all others fail or rest
  (`OfflineAnswer`; `RestsLeaveAnAnswer` states what the code does).
* `mark_failure` reads a rest, takes the longer one and writes it, without a lock
  (`agent/route_chain.py:74-75`): of two failures marked at once the shorter rest may be
  the one that stays (`WriteRest`; `RestsLeaveAnAnswer` names the exception).
* `plugins/catalog_contract.py:28` says only installed and enabled plugins have code
  here and that a half-installed one can never be observed.  The market records and
  enables a plugin without looking for its code; two installers of one plugin exclude
  each other by locks of their own; a clone that a kill cut off passes for a checkout of
  the user's, and is recorded by the next installation (`doubtful` of `PluginInstall`).
* `agent/integrations.py:464` says restoring leaves other user configuration intact.
  Applying replaces a JSON file that does not load, `opencode.jsonc` with a comment
  among them; what follows the block up to the next heading (TOML), and comments
  after it (YAML), are taken for part of it.  A heading is a line that ends in `]`
  (`integrations.py:549`), so a section the user opens with `[section]  # comment` after
  the block is deleted with all it holds.  A file the harness made goes even if the
  user has put comments into it, and so does one he made himself, if nothing but comments
  is left of it, where he had deleted the harness' before: the registry's entry stays
  (`integrations.py:325`, `:505`).  `UserLinesSurvive` names these exceptions.
* `docs/agent-integration.md:36` says a replay recomputes what a pack claims and fails
  closed when the seal or the manifest is invalid.  A pack nobody has touched is refused,
  because the pack itself is redacted (`evidence_pack.py:337`, `safety.py:44-65`): as
  `invalid_pack:hash_digest` if one of its digests has eleven digits in a row, or if a run
  has a name like `session-1`, whose digests are then taken for secrets; and for its sample
  names if one looks like a telephone number or a key.  One with a silent run that was not declared safe is `ready_for_review` when it is
  built and `pending_review` when it is replayed, because the frozen copy is declared
  (`evidence_pack.py:48`).  `ReplayTellsTheTruth` names these exceptions (`Untouched`,
  `Clean`).
* An extraction is `ok` when it has rows, whatever it has left out: of a workbook every
  sheet but the first (`extractors.py:285-289`), of a JSON file every list but one
  (`:361-364`), of a PDF with forty characters of text every scanned page (`:474-487`).
  Neither its status nor its row count says so (`Beyond` of `Intake`; `UploadsAreWhole`
  names the exception).
* `cli.py:236` says that `--root` is the directory a loop's artifacts are written under.
  The loop hands `build_outcome` its run directory relative to that root (`loop.py:401`):
  started elsewhere, it fails there, or reads and writes a run of the same name
  where it was started (`Target` of `AgentLoop`; `RunsTellOneStory` names the exception).
* `extractors.py:633` says that a header or a page footer cannot pull a trade from the
  following line and duplicate it.  One with a date does: a line with a day and no symbol
  is joined with the row below, which is then a candidate twice
  (`Window` of `Intake`; `UploadsAreWhole` bounds what an extra row can be).
* A file whose writing a kill cut off stays cut off: the next upload of the same bytes
  finds that the name exists (`store.py:301`, `write_bytes` of `Intake`).
* A review's context is read, changed and written back without a lock
  (`agent/runtime.py:515`): of a confirmation and a package at once, the later write takes
  back what the earlier one said, though both are in the log; a fork, or a kill, between
  a write and its event leaves a context the log does not explain (`muddled` of
  `ReviewPackage`).
* `record_review_package` accepts a package whose envelope has another decision time than
  the package, which `validate_plugin_result` refuses
  (`tests/test_review_contracts.py:434`), and one of a session whose scope nobody has
  confirmed (`Recordable`).
* `docs/review-agent.md:83-87` and `redaction.py:16-18` say that account values are removed
  and exact quantities reduced.  They are under a key that names them.  The detail of an
  oversell says by how many shares (`fills.py:679`) and goes out with the blocking issues
  (`agent/runtime.py:479`); the id of a position is made of its account (`fills.py:770`).
  Neither key has a rule and no expression knows such a text, so both leave in clear
  (`Spells` of `Redaction`; `ReviewsAreOnRecord` names the exception).
* The bridge does not compare the id of an answer with that of its call
  (`agent/dsh_bridge.py:154`): of two confirmations at once one may take the other's
  answer, and a session is told connected whose envelope was rejected (`crossed`).
* Two requests that change the provider settings at once lose one of the changes, and
  the end of the longer text stays behind the shorter one (`Write` of
  `ProviderSettings`).
* `agent/providers.py:1046` says deleting the user's working choice is worse than
  flagging it, and `workbench/server.py:1274` that no choice is silently deleted.  A
  check writes the list it read before it asked: models declared in the meantime are gone
  (`Missed`; `ChoicesSurvive` names the exception).
* A removal killed between its two files leaves the key of a provider that is gone, which
  a later provider of the same name finds as its own (`agent/providers.py:758-762`); so
  does a removal between the two files of another request that stores a key (`Stray`;
  `ChoicesSurvive` names both).

## 8. What is not modelled

OCR, the expressions of the redaction, the cells and dates of broker exports, statistics and the metrics of a finished
backtest are functions of their input whose faults are about values and formats, and
have unit tests.  Market data, the dashboard, the benchmark and what the command line
does around the modules above read and print.

Of the components that are modelled in part: the share pack; the OAuth round trip and the adapters'
formats; two watchers of one directory; several hosted servers at one replay session,
whose lock is of one process, and at the market-wide table of symbols; CSV parsing and rows of equal
case ids in the self-evolve loop, and two of its commands at once; two decisions on one
trading pattern at once, of which a rename keeps the state it has read
(`trader/api/service.py:955-969`); two registrations
in one registry at once; contexts that a client writes itself.

Of the parts modelled last: the environment's keys, the default selection and the
reading of a provider's HTTP answers; pip's and git's own steps (all plugins share one
virtual environment, so that installing or removing one may change what another imports);
the detection of
agents, the directories made for their files and the launching of local agents.
