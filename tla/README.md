# agent-circuit-breaker: specifications, model checks and proofs

Agent Circuit Breaker decides, in front of an agent's tools, which actions may
run, and keeps the record of what was allowed, started, finished, approved and
revoked.  This directory models the parts of it in which an order of events can
go wrong, and the text inspection every decision rests on; it checks the models
with TLC on small instances and proves with TLAPS, for every value of the constants,
all safety properties of the stateful components and, for texts of any
length, that the inspectors' readers of a text agree and that what is allowed unasked
is one known safe operation.  Where the code does not do what a property would say, the property
names the case it excepts, and section 6 lists it.

1. [The system](#1-the-system)
2. [Modules and how they correspond to the code](#2-modules-and-how-they-correspond-to-the-code)
3. [Runs](#3-runs)
4. [Fairness and stopping](#4-fairness-and-stopping)
5. [Proofs](#5-proofs)
6. [Where code and documentation disagree](#6-where-code-and-documentation-disagree)
7. [Not modelled](#7-not-modelled)
8. [Plan](#8-plan)

To repeat a check: `tlc -workers 2 -config gate_execution.cfg MCRuntimeGate` (the
module of each configuration is in the table of section 3); to repeat the proofs:
`tlapm M.tla` for `RuntimeGateProofs`, `RuntimeGateLogProofs`, `InspectionProofs`,
`RunStoreProofs`, `AuditChainProofs`, `GuardPipelineProofs`, `MCPProxyProofs` and
`ApprovalsProofs`.

## 1. The system

Paths are under `src/agent_circuit_breaker/` unless they name
`agent_circuit_breaker_mcp/`.

| Component | Source | State it keeps | Operations |
|---|---|---|---|
| Runtime gate | `runtime.py` `RuntimeGate` | one run: `status`, `last_reason`, the append-only `events`, the contract | `create_run`, `propose_action`, `execute_authorized`, `grant_approval`, `execute_approved`, `revoke_approval`, `record_outcome`, `reconcile_execution`, `suspend_run`, `resume_run`, `cancel_run`, `revoke_authorizations` |
| Run stores | `runtime.py` `InMemoryRunStore`, `SQLiteRunStore` | two tables, runs and private contracts; schema metadata | `create`, `set_contract`, `read`, `update`, opening the file |
| Trajectory analysis | `trajectory.py` | none: a function of an action history | `evaluate_trajectory` |
| MCP proxy | `agent_circuit_breaker_mcp/proxy.py`, `security.py`, `taint.py` | pending requests, quarantined tools; over stdio the run of calls, the pin file and the taint ledger | `proxy_stdio`, `proxy_http`: inspect a request, forward it, inspect the server's answer, relay it |
| Guard pipeline | `core/pipeline.py`, `core/sdk.py`, `core/results.py` | per call: guard tasks and a queue of their results | `evaluate` |
| Loop and halting guards | `guards/loops.py` | none of their own | `evaluate` of each guard |
| Circuit state | `state/*.py` | one row per circuit, in memory, SQLite or Redis | `read_state`, `transition`, `record_sequence`, `record_tool_call`, `record_progress`, `open_circuit` |
| Command decision | `cli.py`, `engine.py`, `profiles.py`, `policy.py`, `decision.py` | the policy file | `evaluate_command`, `apply_policy_mode`, `load_policy` |
| Approval store | `approvals.py` | one JSON file per approval | `create`, `decide`, `is_valid_for_result`, `list` |
| Audit log, run ledger | `audit.py`, `ledger.py` | a JSONL file of hash-chained entries, retained checkpoints | `append`, `verify`, `checkpoint`, `verify_checkpoint`, `get`, `replay` |
| Inspectors and rules | `inspectors/`, `normalization.py`, `rules/` | none: functions of a text | splitting and reading commands and SQL, normalizing paths, the risks of a command and of what is nested in it, the built-in rules |
| Signing, plugins | `signing.py`, `plugins.py` | none | verify a policy's signature; import rules |
| Public API, reports, observability, hooks, production checks | `api.py`, `explain.py`, `sarif.py`, `observability/`, `hooks*.py`, `guard.py`, `production.py`, ... | none a decision reads | wrappers, printing, counters, file writes |

### How the parts interact

A host calls `RuntimeGate.propose_action`; the gate evaluates the action against
the run's contract and the trajectory of earlier proposals, and appends the
proposal with its verdict in one `store.update`.  An authorized proposal carries
a single-use authorization.  `execute_authorized` consumes it by appending
`started`, calls the executor outside any lock or transaction, and appends the
outcome; `RuntimeToolExecutor` does both under an optional timeout.  Operators
revoke, suspend, resume, cancel, approve and reconcile through the same store,
and several processes may hold the same SQLite file.

The command line and the API inspect a command, ask the rules in order, rewrite
the verdict by the policy's mode and, for a command that needs approval, write a
file that another process approves.  The inspectors read one text several times, each
for its own risks, and read again what an interpreter would be given.  The guard pipeline runs stateful and
stateless guards of one tool call at the same time; its stateful guards share a
circuit's row with other calls and other processes.  The MCP proxy sits between
an agent and a server, over stdio with one thread in each direction, over HTTP with
one thread for each request; they share pending requests, quarantined tools and two files.

### What is hard in it, and what makes each part correct

The hazards that matter most, each at its line and with the properties aimed at it, are
listed in `PROJECT.json`; section 6 names smaller ones.  In short:

- **Runtime gate.**  The log is the only lock: whether an authorization is
  fresh, consumed, revoked, stale or unresolved is found by scanning events, and
  between `started` and the outcome everything may happen, the end of the process
  included.  Correct means: one call of the executor per authorization; nothing
  new authorized while an effect is open; stops honoured; approvals fresh, by
  somebody else, for the contract in force; the budget kept; every start
  accounted for in the end.
- **Run stores.**  Creation is two commits and a read, reading is two selects.
  Correct means: no update lost, corruption reported only when there was a race,
  creation completes, the file can be opened again.
- **MCP proxy.**  Two threads, or one for each request, ids that collide when several
  agents choose them, a run of calls each harmless alone, definitions
  that change under a known name, files that fail.  Correct means: no secret
  crosses tools, no pattern passes piece by piece, no tool is shown with two
  definitions, every request is answered.
- **Guard pipeline and circuit state.**  Read, compute, write later, with
  cancellation in between.  Correct means: an allow is unanimous, breakers trip
  only on what was recorded, loops that do not overlap are always broken,
  evaluations end.
- **Decision and approvals.**  First match wins among lists put together from
  several places, five postures rewrite verdicts, files are written in two
  halves.  Correct means: an allow is earned, an untrusted repository cannot grant
  one, approvals are for the decision of now, lapse, and follow the last word.
- **Inspectors and rules.**  Two lexers with different rules read the same text, SQL
  statements are written anew and read again, paths take detours, commands sit in chains,
  in arguments of interpreters, behind lookalike letters.  Correct means: the readings
  agree, harm is refused behind other commands and in arguments, neighbours and wrappers make nothing
  harmless harmful, and only one plain known operation is allowed unasked; each but for the few spellings
  that the code itself misreads.
- **Audit log.**  Append reads the last hash and writes later, unlocked, and may die at any byte.  Correct
  means: serial appends are kept and verify, a race leaves a trace for ever,
  checkpoints pin a prefix.

## 2. Modules and how they correspond to the code

`PROJECT.json` maps each definition to the lines it models.

### Runtime gate

- `RunLog`: the event records and the scans of `runtime.py` over them
  (`_has_unresolved_execution`, `_has_uncertain_execution`, the checks of
  `_authorization_error`, `_validate_state_integrity`).  Positions in the log stand for event, authorization
  and approval identifiers; reasons are kept as far as the code branches on them.  An operator's reason is
  free text and becomes `last_reason`, which `reconcile_execution` compares with the gate's own wording:
  `Wordings` is the set of reasons the callers may write, the gate's among them.
- `RuntimeGate`: one run.  Every method is one `store.update`, whose updater sees
  the whole state and either replaces it or raises and leaves it, so every method
  is one action: `Propose`, `StartAuthorized`, `StartApproved`, `GrantApproval`,
  `RevokeApproval`, `RecordOutcome`, `Reconcile`, `Suspend`, `Resume`, `Cancel`,
  `RevokeAuthorizations`.  Executing is not one update, so a worker takes several steps:
  the started event (`StartAuthorized`), the call (`CallExecutor`), the outcome
  (`FinishExecution`, or `FinishRefused` when the store refuses the event), or
  none (`Abandon`: the process ends, the coroutine is cancelled, or the timeout
  strikes).  `Tick` and `StepBack` are `time.time`.  `Durable` chooses the store
  that validates each log before it writes it.  The trajectory verdict on a
  proposal is a nondeterministic refusal here, capability scopes and actor
  tokens are `validUntil`, the time from which the gate refuses the action.
- `RuntimeGateProps`: what the gate promises.  `invoked`, the executors that
  have been called, is a history variable: the code's log never says so.
- `ExecutionLedger`: the abstract specification an integrator may rely on,
  tickets that are issued, spent, called and closed, without any log.  `RuntimeGateLedger` maps the log to
  them, and `ImplementsLedger` says that the gate implements it.
- `RuntimeGateProofs`, `RuntimeGateLogProofs`: section 5.
  `MCRuntimeGate`: contracts and principals.

### Run stores

- `RunStore`: one database file, the store objects of several processes, the
  threads that call them.  Every transaction is one action; `create_run` is
  `Create`, `SetFirstContract`, `SelectState`, `SelectContract` with anything in
  between; `Open` is `_initialize` with its schema and whole-file validation;
  `Interrupt` cancels a coroutine between two of its calls and `Crash` ends a process.
  `updates`, `raced` and `orphaned` are history.  How a payload is encoded is
  abstracted to the version and fingerprint the checks compare.
- `RunStoreProofs`: section 5.

### Audit log and run ledger

- `AuditChain`: a file of lines, which may be torn and of which the last may lack its newline (`open`); hashes are
  numbers that never repeat, which is what a hash without collisions gives.  `ReadTip`, `Write`
  and `Return` are the parts of `append`.  The process may die between them (`Die`), in the middle of the line
  (`DieInLine`) or with only the newline missing (`DieBeforeNewline`); what is written next is
  then glued to that line, which no longer parses (`Added`).  `Checkpoint`,
  `Verifies`, `CheckpointHolds` and `Get` are the readers; `Rekey` and `LoseLines`
  are the environment.  `acked`, `overlapped`, `passed`, `raced`, `glued` and `damaged` are history.
- `AuditChainProofs`: section 5.

### Circuit state and guard pipeline

- `CircuitState`: a circuit's row and the pure updates of it.
- `GuardPipeline`: `evaluate` with one task per guard.  A stateful guard reads
  (`ReadSequence`, `ReadCalls`, `ReadProgress`), sends its transition, which the store
  applies later (`Record`, `Open`) or fails (`StoreFails`); a cancelled guard's transition may
  still land (`Land`).  `Collect` is a turn of the loop over the queue, `GiveUp` the caller's
  cancellation.  `InMemoryStore` does not suspend: its behaviours are those in which a guard's
  steps follow one another.  A pipeline without guards returns "unknown" at once and is left out.
- `GuardPipelineProofs`: section 5.

### Trajectory and MCP proxy

- `Trajectory`: `evaluate_trajectory` as a function of a sequence of actions,
  an action being its own verdict, the signs the heuristics look for in its text, and the files it fetches and runs:
  a download is a finding only when a later action runs the same file (`RunsDownload`).
- `MCPProxy`: `proxy_stdio` and `proxy_http`; `transport` says which.  What is sent to the
  server takes `Check`, `Record`, `Forward`, what comes back `Pop`, `LoadPins` and
  `InspectCatalog` or `InspectResult`, `Deliver`.  A message may have no id, or a null one (`Unidentified`): it is not
  looked up among the quarantined tools nor recorded, and over HTTP, where a refusal needs an id, it is
  forwarded though it is refused (`Unstoppable`).  A catalog is a list, which may name a tool twice; the pins hold
  the last definition (`Live`).  Over stdio one request and one answer are under way
  at a time and a run guard judges every call; over HTTP every request has its thread, there is neither
  run guard nor ledger nor pin file, and two agents may choose one id, so that one answer takes the
  entry of the other (`clashed`).  `ClientFails` and `InspectionFails` are the two `except` clauses,
  which differ: one refuses, the other passes the line on as it is.  `Expire` and
  `Restart` are the ledger's ttl and a new proxy on the old files.
- `MCPProxyProofs`: section 5.

### Inspectors and rules

These modules compute, on sequences of items (a character the code tells apart, or a word);
the inspectors keep no state.

- `CommandText`: the command splitter and the words of `shlex`.  Each loop over a text is a function from
  how many items it has read to its state (`SplitStates`, `LexStates`), one turn of it an operator (`SplitStep`, `LexStep`).
- `SqlText`: the SQL tokenizer (`TokenStep`) and the split into statements written anew
  (`StatementStep`), both with the code's skipping of comments and reading of quotes as modes, and the risks of a statement.
- `PathText`: the stack of `normalize_path` on components (`Stacks`), and what is protected.
- `CommandRisks`: the normalization of lookalikes, the detectors of `inspectors/command.py`, and `AnalyzeCommand`, which calls
  itself on what an interpreter is given.
- `BuiltinRules`: the built-in rules in their order, and `Verdict`, the decision of `Decision` on
  what these inspectors find.
- In `CommandText`, `Backgrounds` and `EscapesInSingleQuotes` are the two places in which the splitter reads a text otherwise
  than a shell does: a single `&` is a letter to it, and a backslash in single quotes an escape.
- `Inspection`: texts and what is known of them.  `Type` and `Descend` type any text or path;
  `Follow`, `Lead`, `Trail`, `Wrap`, `LooksAlike`, `Conceal`, `QuoteWord` and `CommentOut` compose
  one from pieces whose harm is known; `InspectionConstants` says what makes a piece, an interpreter
  and a disguise one (`SoundPiece`, `SoundWrapper`).  Pieces may hold backslashes and quotes.  `ChainOperators` are the shell's
  operators, `&` among them, which is set off by blanks; glued to a word it is part of that word to the
  code, and such texts are typed but not composed.  The reference lexers and the reference path
  are written from what a text means, not from the code.
- `InspectionProofs`: section 5.

### Command decision and approvals

- `Decision`: `evaluate_command` from the inspectors' results to the validated
  decision, the modes and profiles, and `load_policy` with signatures and trust.  A policy document may carry rules and name
  a rule file; the trust check looks at one (`CheckedRules`), the decision applies the other (`AppliedRules`), and
  the rule file is read twice (`file`, `reread`).
  It has no variables: operators only.
- `Approvals`: processes that evaluate, ask, review and use approvals.  `Run` and
  `Recheck` are evaluations under the policy of the moment; `Ask` and `Review` read
  a record; `EmptyFile` and `FillFile` are the two halves of `write_text`;
  `Verify` is `is_valid_for_result`; `Die` cuts a write short.  An approval's id is the tuple of what
  `_approval_id` hashes.
- `ApprovalsProofs`: section 5.

Definitions whose comment begins with "Mutant:" are plausible wrong versions of
the definition next to them.  `PROJECT.json` pairs each with a property that TLC
finds violated when it takes that definition's place; nothing else uses them.

## 3. Runs

| Run (`.cfg`) | Module | What it shows | Bounds |
|---|---|---|---|
| `gate_execution` | `MCRuntimeGate` | `TypeOK`, `ExecutesOnce`, `LogReferencesSound`, `StopsAreHonoured`, `StartsAreFresh`, `BudgetRespected`, `NoIssueOverOpenEffect` under every operator call but contract changes and approvals | 2 workers, 2 actions, 4 events besides outcomes and reconciliations, memory store (nothing but the gate keeps the log sound), clock 0..1 |
| `gate_approval` | `MCRuntimeGate` | `ApprovedBeforeStart`, and `ImplementsLedger`, the refinement | 1 worker, 1 action, 2 approvers of whom one is its principal, 2 contracts of which one asks for approval, 5 events, validating store, clock 0..1 that steps back, ttl 1 |
| `gate_recovery` | `MCRuntimeGate` | liveness: `StartsAreAccounted`, `SteadyStartsGetOutcome`; and `ReleasesOnlyUncertainty` | 1 worker that may be lost, 1 that may not, 4 events, 2 reasons an operator may write, one of them the gate's own |
| `store_create` | `MCRunStore` | `NoUpdateIsLost`, `CorruptionReportsAreRaces`, `AtMostOneHalf`, `CreationCompletes` | 2 runs, 2 contracts, 2 processes, 3 callers (two threads of one process), 2 updates of one run |
| `chain` | `MCAuditChain` | `SerialAppendsAreKept`, `CheckpointPinsPrefix`, `RacesAreFound` | 2 writers, 2 runs, a key or none, 3 writes |
| `breaker` | `MCGuardPipeline` | `AllowMeansUnanimous`, `TripsOnlyOnRepeats`, `LoopsAreBroken`, `EvaluationsEnd` | 2 evaluations with inspector and sequence guard or with both stateful guards, 3 with the sequence guard alone; `max_repeats` 2, `max_tool_calls` 1, window 0, clock 0..1 |
| `mcp` | `MCMCPProxy` | `NoCrossToolSecret`, `ReceivedRunIsAllowed`, `RefusalIsFinal`, `OneDefinitionPerTool`, `QuarantineHolds`, `RequestsAreAnswered` | both transports, 2 tools, 1 secret, 3 catalogs of which one names a tool twice, 3 requests of which 2 under way, 1 fault or message without an id |
| `inspection` | `MCInspection` | `LexersAgree`, `StatementsKeepTokens`, `SpellingsAgree`, `HarmIsRefused`, `HarmlessIsNotBlocked`, `AllowsOneOperation` | typed: commands of 5 items, SQL of 4, paths of 5 components; composed: 38 pieces, 4 interpreters, an effort of 3 |
| `approvals` | `MCApprovals` | `AllowIsEarned`, `RepositoryCannotAllow`, `UseWasAsked`, `ApprovalsLapse`, `LastWordHolds` | 2 processes, 1 command with 3 things the inspectors may say, 11 policies, ttl 1, clock 0..1, 1 change of policy, 1 process that dies |
| `doc_start_over_unresolved`, `doc_cancel_is_final` | `MCRuntimeGate` | violated: section 6 | 1 or 2 workers, 1 action, 4 or 5 events, memory store |
| `doc_store_restart` | `MCRunStore` | violated: section 6 | 1 caller |

Why these bounds reach the cases of interest:

- *Runtime gate.*  An authorization's life is at most three events besides its
  outcome and reconciliation (proposal, a control, started), so four events hold
  two authorizations that overlap, or one with a stop and a release around its
  start; the events that close an execution are not counted, so no execution is
  left open for want of room.  Two workers are enough for two to want one
  authorization.  An approved execution takes a grant, a consumption, a proposal and a start; five
  events leave one for a second grant, a revocation or an issue under the laxer contract.  One tick
  separates "before expiry" from "at it", the only thing a comparison with an expiry tells apart.
  The second contract's capabilities outlive the clock, so that there an approval expires first.  The clock of
  `gate_recovery` stands still: `SteadyStartsGetOutcome` is said of clocks that do not step back, for the
  SQLite store refuses an outcome that would be older than the last event.
  `gate_execution` has a contract with three actions to spend and four events, so the budget is used up.
- *Run store.*  A lost update or a torn read needs one writer between two steps
  of another, and a second update to show the first was lost; `create_run` reads other runs, so two runs; two callers in one
  process and one in another distinguish what the lock keeps apart from what SQLite does.
- *Audit log.*  Two writers race, a third entry is the later append that might
  heal the chain; one of the three may be the line that lost its newline, the next the one glued to
  it.  A key and no key are the two sides of a change.
- *Guards.*  With `max_repeats` 2 a third evaluation shows a count that was lost
  and one that was invented.  Two evaluations are enough for a guard to be cancelled
  while its transition is on its way and for the two stateful guards to mix their updates of one row.
- *MCP.*  A leak is a result with a secret and a call of another tool; a pattern
  of the trajectory is two calls, and a third shows what follows a refusal.  A fault is a restart, an
  expired entry or a file that fails; one separates each from the rest.  A message without an id counts
  as one, so that each run has at most one of these.  The three catalogs are a
  definition, another of the same tool beside a suspicious tool, and one that gives both definitions.  Only messages
  whose id is missing are in the run; a null id differs in that it can be refused, and the
  proofs cover both.
- *Inspection.*  Five items hold a quote, a backslash, an operator and a blank in any order, which is
  all the two lexers treat specially; four hold a quote, its pair and something in
  between.  Five components hold every pair of detours inside a protected directory.  An effort of
  three is a second command and one thing done to both, a disguise in a wrapper,
  or three wrappers in one another; a fourth repeats one of these.  The pieces
  have something for each kind of risk that `command.py` and `sql.py` name, and three have a backslash: one in single
  quotes behind a safe command, one in single quotes behind a harmful one, one outside quotes.  Each exception of
  the last three properties is needed in this run: without it TLC finds a counterexample.
- *Approvals.*  The eleven policies are one of each kind of outcome: default, two
  postures with different thresholds, an explicit file that allows, a
  repository's files that ask, block and would allow, one whose posture is written in other capitals, and rule files
  that would allow, that are rewritten to allow, and that stand beside rules.  Two processes are enough to overlap any
  two of the steps ask, review and use.

Symmetry (`WorkerSymmetry`, `WriterSymmetry`, `MCSymmetry`) is used only in runs
without liveness properties, for sets no definition tells the members of apart.

`TypeOK` is listed by the run of the gate, whose proofs rest on it.  In the other modules it
documents the variables; where a proof needs types, they are part of the inductive invariant.

Every property of a passing run is broken by a mutant of the code's definitions
under the same configuration.

## 4. Fairness and stopping

- `RecoverySpec` (gate): the event loop runs a coroutine that is ready and an
  executor ends, if need be by its timeout, so a worker that is not lost goes on
  (weak fairness).  That an operator keeps calling `reconcile_execution` for what
  is unresolved is an assumption on people, needed because nothing in the code
  reconciles by itself; it is what `docs/API.md` asks of a host.
- `RunStore!FairSpec`: a call that has begun goes on (weak fairness); a
  `BEGIN IMMEDIATE` that finds the file locked waits in SQLite's busy handler and
  is let in if the lock is free again and again (strong fairness of `SetFirstContract`
  only).  Nothing obliges a caller to call or a process to open the file: a
  process that never comes back has orphaned its creation.
- `GuardPipeline!FairSpec`: the event loop runs what is ready, and a call of the
  store returns or raises.
- `MCPProxy!FairSpec`: the threads run (weak fairness of `ClientThread` and `RelayThread`)
  and the server answers (`Respond`); an answer may be an error.  Faults are never fair.

Passing runs other than `chain` say `CHECK_DEADLOCK FALSE`: a bounded log fills up, requests run
out, evaluations are all done, and an agent that has nothing more to ask is a
legal end.  Where stopping would be a fault (a worker, an evaluation, a request,
a creation that is stuck) a liveness property says so.

## 5. Proofs

`RuntimeGateProofs`, for all sets of actions, policies, workers and approvers, all
contracts, expiries, both stores and all bounds, from `GateConstants` alone:

- `TypeCorrect`: `Spec => []TypeOK`.  Each action is first reduced to its shape
  (`ProposeShape`, `StartAuthorizedShape`, `StartApprovedShape`, ...): which typed event it
  appends and what it leaves alone.  `TypeInductive` then follows case by case.
- `ExecutesOnceCorrect`: `Spec => []ExecutesOnce`.  That no two workers hold one
  authorization and no executor is called twice for it is not inductive: a worker
  could start an authorization that somebody had called before.  `ExecutionInv`
  adds what makes it so: starts in the log refer to positions of the log, whatever was
  called is in the log as started, and a busy worker's authorization is in the log as started.
  Starting needs an authorization that is not (`StartAuthorized` scans for it; an
  approved execution makes a new one at a position the log did not have), so
  uniqueness is kept (`BeginKeepsExecution`); no other step touches workers and
  starts at once (`QuietKeepsExecution`, `PlainKeepsExecution`, `EndKeepsExecution`).
- `NoIssueOverOpenEffectCorrect`: the action property of the same name.
  `IssueNeedsPrecheck` shows that only a proposal or an approved execution adds an
  authorization, both after `Precheck`; `PrecheckedCallsEnded` that after
  `Precheck` every called authorization, being started by `ExecutionInv`, has an outcome
  other than unknown, or was reconciled.

`RuntimeGateLogProofs`, from the same assumptions.  `StepsOfTheLog` says once what all the rest uses:
a step leaves the log, appends one event that the log and the run `Justified`, or is an approved
execution, whose three events and what was checked before them `ApprovedStartEvents` spells out.
Then one inductive invariant for each property:

- `StartsAreFreshCorrect`: `StartsAreFresh` is inductive with `TypeOK` once it is known that
  events stay what they are (`FreshStays`).
- `LogReferencesSoundCorrect`: an event that fits a sound log leaves it sound
  (`FittingKeepsReferences`), and what the gate appends fits (`JustifiedFits`, `ApprovedEventsFit`), although
  it never runs the validator on a memory store.
- `StopsAreHonouredCorrect`: `StopInv` adds to the property which stop or resumption is the
  latest and that nothing follows a stop but what may (`AgreementAfter`, `ResumptionsAfter`).
- `BudgetRespectedCorrect`: the count is of a finite set of positions
  (`PositionsFinite`), an issue adds one position, and only under a contract with room (`BudgetAfterIssue`).
- `ApprovedBeforeStartCorrect`: an authorization for what needs approval is
  consumed in the step that makes it (`GrantInv`), so only `StartApproved` starts it.
- `ReleasesOnlyUncertaintyCorrect`: `BlameInv` relates `last_reason` to the event that set it, which is the last one but
  for outcomes, whoever worded it.

- `ImplementsLedgerCorrect`, `Spec => ImplementsLedger`.  `IssuedAfter`, `OpenAfter`,
  `LiveAfter` and `SetsAfter` say what one more event does to the sets the mapping reads
  off the log; with them `EventIsLedgerStep`, `ApprovedStartIsLedgerStep` and `CallIsLedgerStep` show that each
  kind of step is a step of `ExecutionLedger` or a stutter.  `LedgerInv` joins what they need of the reachable
  states: types and starts (`ExecutionInv`), sound references, and that authorizations are positions of the bounded log.

`RunStoreProofs`, for all runs, contracts, processes and callers, from `StoreConstants`:
`NoUpdateIsLostCorrect`, `CorruptionReportsAreRacesCorrect`, `AtMostOneHalfCorrect`.  All three follow from `StoreInv`:
rows and history agree; who waits before `set_contract` is the only one who owes a contract, to the
only row without one; and who is between two selects has seen a row that still exists, of a contract that
still stands unless it was `raced`.  One lemma for each action
(`CreateKeepsStore`, `UpdateKeepsStore`, `SelectStateKeepsStore`, ...).

`AuditChainProofs`, for all writers, runs and keys and any number of writes, from `ChainConstants`:

- `CheckpointPinsPrefixCorrect` from `ChainInv`: every hash was given out once
  and to one entry.  `ChainsAgree` is the argument about chains: two verified chains with an entry of the same hash at the
  same place have the same entries before it, for at the largest place where
  they differ (`LargestExists`) the next entry would name two different predecessors.
- `RacesAreFoundCorrect` from `RaceInv`: who holds a hash holds that of the last entry unless another has written
  since (`passed`), so that an entry links (`LinkedAppend`) exactly if its writer was not passed; a break stays where
  it is, and a file that cannot be read stays so (`StillUnreadable`).
- `SerialAppendsAreKeptCorrect` from `SerialInv`: while no two appends have overlapped, whoever is between its read
  and its write holds the last hash of the file; the lines are the first, the second, ... entry written, with at most a torn
  one behind them, open to be glued to; and what was returned is there.

`GuardPipelineProofs`, for all evaluations, actions, registrations and limits, from `PipelineConstants`; each starts from
`Shapes`, the types of a pipeline:

- `AllowMeansUnanimousCorrect`: `AnswersInv` says that each guard answers at most once, in the queue or among the results, and only
  when its task is done; then as many answers as guards are the answers of all guards, and
  `evaluate`, which counts them, has heard everybody.
- `TripsOnlyOnRepeatsCorrect`: `RepeatsInv` bounds what the row counts for an action by the evaluations that recorded
  it, and a transition on its way counts at most itself beyond what is recorded (`SequenceCountsItself`),
  whatever lands late, fails or is overwritten.
- `LoopsAreBrokenCorrect` from `LoopInv`, the bound from below: while no two sequences have overlapped, at most one is on its way
  and was computed from the row as it is (`AtMostOneOnItsWay`), so that the row counts at least the streak that ends
  what is recorded (`RowIsHigh`, `StreakGrows`).  A run that is too long then sends its task on to open the circuit or
  into a denial, and an evaluation with either is never allowed (`Refused`, `RefusalsStay`, `AllowIsUnanimous`).

`MCPProxyProofs`, for all tools, secrets, catalogs, transports and bounds, from `ProxyConstants`:

- `QuarantineHoldsCorrect` from `QuarantineInv`: whatever an agent was told is blocked is among the quarantined.  It is said of
  calls with an id; the others are not looked up.
- `OneDefinitionPerToolCorrect` from `PinInv`: the last definition that a list which passed gives of a tool is the one
  pinned, or is compared at this moment, unless two catalogs were compared at once (`raced`).
- `ReceivedRunIsAllowedCorrect` and `RefusalIsFinalCorrect` from `RunInv`: what the server received embeds in what the guard
  recorded (`Embeds`), and `LessIsAllowed`: a shorter run of an allowed one is allowed.  This is a fact about every pattern
  of `Trajectory`: leaving actions out makes no finding.
- `NoCrossToolSecretCorrect` from `OnceInv` (a request is in one place), `ExpectInv` (an answer finds the
  entry of its own request unless keys clashed) and `SecretInv` (what was shown is in the ledger or was exempted, as is
  what answers a call without an id).

`ApprovalsProofs`, for all facts, rule lists, policies and options, from
`ApprovalConstants`:

- `DecisionIsEarned`: a decision that allows had complete inspection, and either an
  allow rule before which no rule spoke or, when none speaks, a known safe
  operation.  `DecideAllows` shows on the way that no mode or profile makes an
  allow (`ModeKeepsAllow`) and that `_validate_decision` never has an allow to reject in
  `evaluate_command`: it is a second line of defence.
- `RulesThatDoNotAllow`: rules that allow nothing, appended to built-in rules under any
  posture, allow nothing those do not allow under none.  The first rule of a list exists
  because its positions are well-founded (`FirstDecides`); appended rules come later (`MoreRules`).
- `AllowIsEarnedCorrect` and `RepositoryCannotAllowCorrect`: the invariants, from
  `ShownInv`: what a process shows was computed from well typed facts and rules,
  by a policy that had been accepted.  The second is said of documents whose applied rules are those
  that were checked (`EscapesCheck`).
- `UseWasAskedCorrect`, `ApprovalsLapseCorrect`, `LastWordHoldsCorrect`: from `RecordInv`: a record that can be read, or
  that a process is about to write, is that of a request which was made, with its time of expiry, and says approved only
  if the last word on it does.  Going on needs a file that passes `Verify` (`GoingOnIsVerified`).

`InspectionProofs`, for all alphabets, components and lengths, from `SqlConstants` (what starts a line comment is no quote,
blank or punctuation) and `InspectionConstants`: pieces and interpreters are typed, readable, written without lookalikes
and do not end in a backslash, a piece is marked known exactly if its own words are a known safe operation without a risk, SQL and interpreters
do not go by the names of such operations, and normalization takes a lookalike back and an invisible item away.  TLC
evaluates both for the pieces of the run.  A loop's states exist and are
well typed (`StatesExist`, `LexRuns`, `SplitRuns`, `TokenRuns`, `StatementRuns`), and what holds at the start and
from each item to the next holds all along (`AllAlong`).

- `SpellingsAgreeCorrect`: the stack of `normalize_path` holds, in order, the names that
  no later `..` takes away, which is how the reference picks them.
- `StatementsKeepTokensCorrect`: `SqlKeeps` relates three readers of one text: the splitter, the
  tokenizer of the whole, and the tokenizer of the whole with its separators blanked.  The tokens of the statements
  written so far, followed by those of the statement in hand, read as it would be written (`Held`), are those
  of the third.  It is kept while a quote is open, at its end, in a comment and at a separator (`SqlKeepsStep`);
  that a blank around a statement makes no difference is `LexedLed`.  A doubled quote is excluded by
  the property, and only the step from a closed quote to its double needs that.
- `LexersAgreeCorrect`: `Reads` says which mode of `shlex` belongs to which quote and escape of the splitter, and
  is kept outside `EscapesInSingleQuotes` (`ReadsStep`).  With `InText`, the parity of a run
  of ampersands, an operator is cut exactly where the reference blanks one (`OperatorsAgree`).  `LexersKeep` is the
  simulation: the reference has the words of the commands cut so far followed by those of the command in hand, as
  long as all of them can be read (`SameWords`); `HandedOver` compares the command in hand as it stands with
  what `strip` leaves of it, which differs where an escaped blank ends it.  `NoEscape` is the
  same for texts without backslashes, where every command can be read.
- Both hold of what is typed, whatever its length, since `TextTyped` is an invariant (`TextTypedHolds`).
- `AllowedIsOneOperation`, of every text, composed or not: a verdict of "allow" needs `Alone`, one segment and no operator entry.  An
  operator that `shlex` sees outside quotes would have cut the line or left an entry (`OneSegment`, on the simulation of
  `LexersAgreeCorrect`), so that the words of the one segment are those of the line, and they are the operation that was looked up.
  It is a lemma: the operators it speaks of are those the splitter knows, and no backslash may stand in single quotes.
- `AllowsOneOperationCorrect`, of composed texts, from `ComposedKept`, which says of a composed command what `shlex`
  reads of it once it is normalized (`ReadsAs`): an operator of the shell outside quotes, `&` included, a first word that no safe operation goes by, or the
  words of its one piece; and of a composed statement that no item of it is such a name.  The property alone is
  not inductive, for it says nothing of a text that is refused, and that a text is one piece must survive lookalikes, invisible
  items and quotes.  There is one lemma for each action (`FollowKeeps`, `WrapKeeps`, `QuoteWordKeeps`, ...): what is put behind a readable
  text is read as it was (`QuotesBehind`, `OperatorStays`, `ForeignStays`), an operator behind one is live
  (`OperatorBehind`), quotes around a word change no word and hide no operator (`QuotedSame`, `OperatorQuoted`), and a
  spelling is undone by normalization (`DisguisedText`).  `AllowedIsTheOne` joins it with `AllowedIsOneOperation`;
  there, and only there, the two exceptions of the property are used: without a single `&` every operator is one the splitter
  knows (`StandingIsLive`).  The invariant itself needs neither, and speaks of texts with both.

TLC checked each of these properties first, on the runs of section 3.  Only model-checked are

- what is about liveness: `StartsAreAccounted`, `SteadyStartsGetOutcome`, `CreationCompletes`, `EvaluationsEnd`, `RequestsAreAnswered`;
- `HarmIsRefused` and `HarmlessIsNotBlocked`: both need what `NestedDanger` says of an argument that composing put behind
  an interpreter.  It calls itself on arguments and literals found in text and on what they decode to, which need be no shorter, so
  that nothing in the model says that the recursion ends for every value of the constants, and its
  defining equation, which the provers would need, cannot be proved.  (`AllowsOneOperation` needs no such equation: an
  interpreter is refused for not being a known operation, whatever its argument.)

## 6. Where code and documentation disagree

Three runs end in a counterexample to a sentence of the documentation
(`PROJECT.json`, "findings"):

- `doc_start_over_unresolved`: with two authorizations issued, the second
  executor is called while the first execution is unresolved.
- `doc_cancel_is_final`: cancel, suspend, resume reopens a cancelled run.
- `doc_store_restart`: a process that dies between the two commits of `create_run`
  leaves a file that no store can be opened on.

Other behaviours worth a maintainer's eye were met while modelling.  The models have them where they
cover the code:

- Runtime: an unknown outcome recorded for an authorization that never started blocks the run and cannot be
  reconciled (`runtime.py:967`, against `docs/API.md:386-387`); the values of tokens are not in the policy
  fingerprint, so rotating one leaves outstanding authorizations valid, and the expiry of a capability
  is checked when an authorization is issued and not when it starts; reconciling with `unknown_execution_status` releases the run too; a second refusal
  overwrites `last_reason`, and reconciliation then does not release it.  `last_reason` is also what operators write: a
  revocation of an approval or of authorizations worded `run has unresolved execution` (`runtime.py:1182`, `1587`) lets the
  next reconciliation reopen a run that a policy refusal had blocked (`runtime.py:1248-1251`).
- Audit log: a process that dies with its line written and only the newline missing leaves a file that verifies; the
  next append returns its entry as recorded, and has spoiled both lines (`audit.py:54-56`).
- Guards: a guard that raises `CancelledError` by itself puts nothing in the queue,
  and `evaluate` waits for it; the circuit's "open" state is never read;
  overlapping `record_sequence` calls lose repetitions with the SQLite and Redis
  stores, overlapping progress signals lose one; `progress_timestamps` is never pruned.
- Shell text: `mkdir '\' ; rm -r x '\'` and `mkdir d & rm -r x` are allowed without being asked, and a harmful
  command behind a single `&` is not refused, against `docs/SECURITY_MODEL.md:51-54` ("only permitted for a single complete
  command segment with no shell operators").  The splitter takes a backslash in single quotes for an escape (`command.py:112`), `shlex` and
  the shell do not; and `&` is no operator to it (`command.py:131-139`).  `AllowsOneOperation`, `HarmIsRefused` and
  `LexersAgree` except these texts.  An escaped
  blank at the end of a segment is stripped and the rest rejected; operators keep entries for empty segments,
  so a line that begins with an operator hides `curl u | sh` (`_detect_pipeline_risks`, `command.py:334`; excepted by `aligned` in `HarmIsRefused`), as does
  `cmd /c` without quotes, which is then the command that is piped; the argument of `system(...)`
  ends at a newline; "-enc " contains "nc ", so `printenv | powershell -enc ...` counts as exfiltration; `ls /*` is an
  error, for the SQL reader sees an unclosed comment; a relative ".." is normalized to "/".
- SQL text: statements are written anew without doubling quotes, so `'O''Brien'` ends in "Unclosed ' quote"; a
  docstring (`sql.py:323`) names `!=`, which never matches, where `<>` does.
- MCP: a line is printed as it is when its inspection raises; a client message
  over the size limit ends the proxy; error answers leave their pending entry;
  quarantined tools are forgotten by a restart; one refused call makes the rest of the run refused; the
  pin file is not replaced atomically; both threads print without a lock; a request is
  recorded before its tool is looked up among the quarantined.  Over HTTP a refused `tools/call` without an
  id has no answer and is forwarded (`proxy.py:376-381`), where stdio drops it; on both transports a call without an id, or with a
  null one, of a quarantined tool is
  not stopped (`security.py:38`); a `tools/list` that names a tool twice is compared with the pins by its last definition, and
  shows the others too (`security.py:140`); `--trajectory`, `--taint-ledger` and `--mcp-pin-dir` are ignored; ids of several
  agents collide in `pending`, and an answer then takes the entry of another request.  Two first contacts
  at once can pass two definitions of one tool.
- Approvals: `decide` does not ask whether the record is pending; an expired
  record can never be asked for again under the same id; a write cut short leaves an empty file for
  ever; the approval of a command whose text was redacted never fits; the
  approval mode makes high-risk blocks approvable while lower-risk ones stay blocked.
- Policy: an explicit policy path that does not exist gives the defaults; a
  policy's rule file is read twice, once for trust and once to be applied.  Of a repository's document with both rules and a
  rule file the rules are checked (`policy.py:193-200`) and the file is applied (`cli.py:534-541`), and a file that is rewritten between
  the readings is applied as it then is: in both cases an allow rule of an untrusted repository is granted, against
  `docs/POLICY_ASSURANCE.md:90-106`.  A mode or profile in other capitals (`Solo`, `Advisory`) passes the check, which is
  case-sensitive (`policy.py:184`, `187`), and is applied; it makes no allow.

## 7. Not modelled

- Text beyond the inspectors: redaction patterns, the word lists of the trajectory heuristics and of the
  stateless guards, messages, output formats, the loader's message for each wrong field, `rule_testing`.  What they
  find is an input (the signs of an action, `redacted`, a policy's rules).  Characters the inspectors do not tell
  apart are one item.
- Cryptography: hashes do not collide, a signature is good or is not.
- `inspect_stdin`: a loop over the proxy's checks that keeps nothing.  What makes an MCP message malformed.
- Capability scopes, actor tokens and authority checks of the gate beyond the time from which they
  refuse; SQLite's own crash recovery (transactions are atomic and durable).
- The parts that decide nothing: API wrappers, reports, SARIF, observability, benchmarks,
  production checks, hook installation, plugins.
- `gate_*` has one run: runs share nothing but the file, which `RunStore` models.

## 8. Plan

The order was: runtime gate and its abstract ledger first, since every other
front end relies on "at most once, and accounted for"; then its store, the
audit chain, guards on shared circuit state, the MCP proxy on both transports, the decision with the inspectors below it, and
approvals; then the proofs of the safety properties of each.  These are in place.  Next:

1. *Model.*  Capability scopes and tokens in the gate, with expiry between issue and start.  A history of
   progress signals long enough to lose one.  Operators of the shell glued to words.  The hook guard's drift check and repair.
2. *Prove.*  The properties the first item will add.  Of today's, what is not proved is liveness, out of the prover's reach,
   and the two properties of composed texts that depend on the recursion into interpreters' arguments.
