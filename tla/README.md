# Qnty in TLA+

Qnty is a shadow-only research and paper-accounting system: an observer
publishes one row per 8-hour bar, and Qnty turns those rows into a simulated
book (fills, trades, funding, equity), keeps the evidence for it, and refuses
to say `OK` when the evidence does not hold together. Nothing trades. What can
go wrong is therefore accounting and evidence: a status that says `OK` over
ledgers that changed, a bar accounted twice or from two versions of its source,
a sidecar that no longer proves what the database says it proves.

This directory models the parts of the system that have state, order or
failure, checks them with TLC on small instances and proves the main results
with TLAPS for every instance.

## 1. The system

| component | state it keeps | operations | talks to | what makes it correct | here |
|---|---|---|---|---|---|
| observer `scripts/run_validation_v2.py` and its heartbeat outside the repository | `observation_log.json` (a rolling window of bars), `bar_decisions.jsonl` (heartbeat) | append a bar, recompute a bar | reads the price files; read by both paper lanes | publishes closed bars only | actions of `PaperEngine` and `PaperRun` |
| data refresh `ops/bin/qnty-data-refresh.sh`, `scripts/fetch_*_rest.py` | price and funding CSVs, one per symbol | overwrite all price files, then all funding files | read by everything below | - | actions of `PaperEngine` |
| **paper run, JSONL lane** `paper/runner.py`, `ledger.py`, `snapshots.py`, `reconcile.py`, `provenance.py` | six append-only JSONL ledgers; atomically replaced state, summary, manifest and receipt | `run_once`: config, stage, marker, health gate, inputs, appends, reconcile gate, OK publication, three terminal publications | observer files, market files, engine | a visible `OK` is true; no bar and no money is lost unnoticed; the watermark never outruns the ledgers; one source per bar; recovery | `PaperRun`, `PaperDamage` |
| paper engine `paper/engine.py` | none (a function of its inputs and the state) | `run_engine`: defer, funding, exit stub, equity, exits, entries | called by both lanes | the funding windows tile the time held; how many runs it took makes no difference; every bar is booked | `PaperEngine` |
| gates `paper/freshness.py`, `funding_coverage.py` | none | one verdict per run | called by both lanes | no window is booked without the settlement that is due in it | `PaperEngine` |
| **SQLite lane** `paper/sqlite_writer.py`, `db.py`, `sqlite_verify.py`, `funding_source_snapshot.py` | database (batches, events, typed rows, state, open positions), snapshot sidecar files | one accounting transaction; pending sidecar, commit, committed sidecar, database mark; read-only verification | observer and market files | one transaction per batch; clean carry only on linked, committed evidence | `SqliteLane` |
| JSONL verifier `paper/verify.py` | trusted baseline, report | compare with baseline, publish | reads the lane | only append-only growth of what was trusted | not modelled |
| **artifact store** `artifacts/store.py` | content-addressed objects and manifests, restore destinations | ingest, verify, restore, by any number of processes | files | a manifest implies its objects; a restored tree is whole | `ArtifactStore`, `ArtifactRestore` |
| artifact registry `artifacts/registry.py` | Git-owned records | validate | store | two independent verified copies | not modelled |
| control state `control/` | a versioned control document | validate a transition, authorise, project legacy documents | Git files | deny-only, revisions increase | not modelled |
| intent publication `paper/accepted_execution_intent*.py` | receipt, sidecar, lock file | write once | files | write-once, fail closed | not modelled |
| continuity `continuity/` | a chain of handoff receipts and active-task documents in Git | validate the chain | Git files | each step extends the one before | not modelled |
| assurance `assurance/` | contracts | validate | - | a contract is complete before it is used | not modelled |
| **offline-edge validation, gated run** `experiment/offline_edge_real_validation.py` | none; a receipt file | inventory, nine passes over the data, seven packets, thirty gates, the receipt | data and packets that others write | what a receipt says is true of what was read; a gate opens only after the gates before it | `PreregistrationChain`, `FundingDiagnostics`, `RunnerGates`, `OfflineEdge` |
| **offline-edge validation, holdout protocol** (same file) | none; receipts and the trial registry | audit, seal, packet lock, gate, first statistic, decomposition | data directories, registry, operator | a passed gate is about this cut; the score never sees a row behind the purge | `TrainStatistic`, `HoldoutProtocol` |
| other experiment code `experiment/` | none | walk-forward, PBO, diagnostics, calibration | data files | - | not modelled |
| replay and lab `replay/`, `lab/`, `strategy/`, `data/`, `exec/`, `core/` | none | pure computations, loaders | data files | - | not modelled |
| operations `ops/`, `scripts/` | timers, lock, watchdog | start a run, alert | all of the above | one run at a time | fairness of `PaperEngine`; one run at a time is assumed |

Hard behaviour: process death between any two file operations and inside a
JSONL append; a second process (the observer) that rewrites what was already
consumed; files that cannot be read, renamed or removed; processes racing on
one path of the store; evidence that is written partly before and partly
after the database commit it describes; price and funding files of different
age, and settlements and bars that come late; data and packets that are
replaced between two reads of one run; and checks that compare a run with what
earlier runs were registered as.

## 2. Modules

| module | what it is | code |
|---|---|---|
| `OkCommit` | the promise: OK is a commit marker over a body of ledger rows | what a reader of `paper_pnl_summary.json` relies on |
| `PaperRun` | one `run_once` after another, file write by file write, with the observer beside it | `runner.py`, and what it calls in `ledger.py`, `snapshots.py`, `reconcile.py`, `provenance.py`, `engine.py` |
| `PaperDamage` | `PaperRun` next to rows that disappear from the disk | the reasons `reconcile` and the state gate exist |
| `MC_PaperRun`, `MC_PaperDamage` | instances for TLC | - |
| `PaperRunProofs` | theorems about `PaperRun` and `PaperDamage` for every value of its constants | - |
| `ArtifactStore` | any number of processes ingesting artifacts into one store | `artifacts/store.py`: `ingest`, `_write_atomic`, `_install_new_file` |
| `ArtifactRestore` | any number of restores of one manifest to one destination | `artifacts/store.py`: `restore`, `_rename_directory_no_replace` |
| `MC_ArtifactStore`, `MC_ArtifactRestore` | instances for TLC | - |
| `SqliteLane` | the accounting commands and the verifier on one database and its sidecar files | `sqlite_writer.py`, `sqlite_verify.py`, `funding_source_snapshot.py` |
| `MC_SqliteLane` | instances for TLC | - |
| `SqliteLaneProofs` | theorems about `SqliteLane` for every value of its constants | - |
| `PaperEngine` | the engine bar by bar, the refresh, the observer and the gates of either lane around it | `paper/engine.py`, `freshness.py`, `funding_coverage.py`, `funding_time.py`, `scripts/` |
| `MC_PaperEngine` | instance for TLC | - |
| `PaperEngineProofs` | theorems about `PaperEngine` for every value of its constants | - |
| `TrainStatistic` | the first statistic and its decomposition, as operators on rows | `offline_edge_real_validation.py` 1604-1905, 2224-2535, 3054-3185 |
| `HoldoutProtocol` | runs of the protocol slice, read by read, with the operator and the refresh beside them | same file, 239-3403 |
| `PreregistrationChain` | the seven packets, their diagnostics and gates | same file, 10692-15450 |
| `FundingDiagnostics` | what each pass computes of the bars and the funding | same file, 4979-10660 |
| `RunnerGates` | the thirty stages behind the chain, each derived from a few of those before | same file, 15469-22227 |
| `OfflineEdge` | one run of `main` that composes the three, next to those who replace files and packets | same file, 22314-24498 |
| `MC_HoldoutProtocol`, `MC_OfflineEdge` | instances for TLC | - |
| `ArtifactStoreProofs`, `ArtifactRestoreProofs` | theorems about the store and about `restore` for every value of their constants | - |
| `HoldoutProofs`, `OfflineEdgeProofs` | theorems about `HoldoutProtocol` and `OfflineEdge` for every value of their constants | - |
| `InductionFacts` | induction over finite sets and over numbers, for the proof modules | - |

### 2.1 `PaperRun`

`run_once` is a one-shot process. Its program counter `pc` names the next file
operation and `mem` is what it carries in memory; the other variables are
files, and they are all a crash leaves behind.

| variable | file or object |
|---|---|
| `obs`, `nextOpen` | `observation_log.json` of the observer; whether the market file holds the bar after the last observed one |
| `summary`, `staged` | `paper_pnl_summary.json`; the copies of it moved aside |
| `ledger`, `torn`, `unended` | the six JSONL files; which of them hold a line that cannot be parsed; which end in a whole row without its newline |
| `state` | `paper_position_state.json` |
| `prov`, `receipt` | `paper_provenance.json`, `paper_receipt.md` |
| `faults`, `committed` | how many faults happened; history: the ledgers at the last OK |

| action | in `run_once` |
|---|---|
| `ConfigError` | `load_config` raises, a visible summary is superseded |
| `StagePrevious`, `StagePreviousFails` | `_stage_previous_summary` |
| `WriteMarker` | `_write_preflight_marker` |
| `HealthGate`, `HealthGateUnreadable` | `_staged_summaries`, `check_existing_ledgers` and the handler of its failures |
| `Cleanup`, `CleanupLeavesOne` | `_cleanup_staged_summaries` |
| `ReadInputs`, `InputProblem` | freshness, divergence and coverage gates, `run_engine` |
| `AppendLedger` | one `append_new`, in the order of `AppendOrder`; behind a row without its newline it makes one bad line of two (`Glued`) |
| `ReconcileGate`, `GateUnreadable` | `reconcile` and the handler around it |
| `OkManifest` ... `OkSummary` | the OK publication: manifest, receipt, final gate, log, state, summary |
| `TerminalManifest` ... `TerminalSummary` | `_abort`, `_corrupt`, `_no_eligible_bars` |
| `Crash`, `CutAppend` | a process death between any two of these, or inside an append or a cleanup |
| `PublishBar`, `MarketBar`, `RecomputeBar` | the observer and the market data, at any moment |

What is abstracted. There is one symbol and one bar per tick. A source row
stands for its digest and for the `bar_commit_id` derived from it, so two rows
are different exactly when their digests are. A ledger row is its bar and its
source row, and is in its ledger as long as its text is in the file. Prices and
funding rates do not change once published, so what a row amounts to (the fee
of a fill, the gross profit of a trade, the funding of a bar) is a constant,
`Amount`, which may be zero or negative. The state holds sums; the model holds
the set of rows it has summed, and every check adds them up as the code does:
`SameTotal` is `_ledger_sum` and the comparison within `STATE_ACC_EPS`, whose
width is `Tolerance`, and only equity rows are counted (`InLockstep`,
`FundingTiesToEquity`, `PositionTies`). The final gate compares the state in
memory with the ledgers and the manifest and receipt on disk with the document
to be published (`FinalGate`). The engine
appears as the rows it returns and the state it leaves (`EngineRows`,
`EngineState`); what `reconcile` recomputes from the snapshots is written
separately (`RowHeld`, `RowEntry`, `RowFunding`), as it is in the code, so that
a disagreement between the two is found. `summary` keeps the fields of an OK
document that a later run compares; wording, counts and timestamps are left
out, and so is the audit log, which nothing reads back.

### 2.2 `PaperDamage`

`LoseRow` takes one row out of one ledger at any moment except between the
final gate and the OK summary, where the documentation of the lane promises no
read. Everything else is `PaperRun`.

`LossBlocksOk` says what the gates make of it. Snapshots and equity rows are
matched bar by bar and equity rows are counted, so each of them that an OK
attested is there at every later OK. Fills, trades and funding are compared by
amount only, so at an OK those on disk add up, within the tolerance, to all that
the state has ever counted, and what it counted once it counts ever after: no
money goes. A row can: one of funding for which no rate was available, whose
amount is zero, a trade that closed at its entry price, or any positions row.
`docs/paper_pnl_v1_schema.md:305` promises more than that and the code does not
keep it (section 4), so the property does not claim it.

### 2.3 `ArtifactStore`

`store` says, for each object and manifest, whether the file at its path is
absent, holds what its name says, or does not. `temps` are the temporary files
present. `pc`, `next` and `data` are each process' step, its place in the list
of files its manifest names (the manifest itself comes last), and what its
temporary file holds. `rotted` remembers which files the medium spoiled after
they were written.

| action | in `FilesystemStore` |
|---|---|
| `Start`, `CheckExisting` | `ingest`: the existing file is hashed and accepted or refused |
| `WriteTemp`, `SourceFails` | `_write_atomic`: copy and hash to a temporary file in the final directory |
| `Link`, `RemoveTemp` | `_install_new_file`: `os.link`, which refuses an existing path, then the unlink |
| `Recheck` | another process was first: its file is hashed |
| `ReadBack`, `Discard` | the read-back; a bad object is removed, a bad manifest is not |
| `Crash`, `Rot` | a death between any two of these; a stored file going bad |

What is abstracted. A file's content is what its digest tells. A write that
leaves something else on the disk than was hashed is `data = "bad"`. The bundle
and manifest validation that precede the first write have no state and appear
as the fixed list `Files[a]`.

### 2.4 `ArtifactRestore`

`workspace` and `destination` are the two directories; `opened` and `listed`
are what a running `rmtree` holds: the directory it has opened, by the path it
has now, and the files it listed in it. They are state because the removal
addresses files through the open directory, and a rename by another restore
moves that directory to the destination under it.

| action | in `restore` |
|---|---|
| `Begin`, `CheckWorkspace`, `LoadManifest` | the refusals before anything is made |
| `MakeWorkspace`, `CopyFile`, `Rebuild` | mkdir, the copies each with its digest, the manifest recomputed from the tree |
| `Publish`, `SyncParent`, `SyncFails` | the rename that does not replace, and the fsyncs around it |
| `OpenTree`, `RemoveFile`, `RemoveTree` | `shutil.rmtree` of the workspace path after any failure |
| `Crash`, `Rot`, `OutsiderMakesDestination`, `OperatorRemovesStale` | the surroundings |

The role directories inside the tree are left out, and copying a file and
scanning the tree are one step each.

`met` is a history variable: a restore found the workspace free and then, at its
mkdir, found that another restore had made it. Two restores that met
share one path, and the one that failed removes what is there: that is finding
2, and `RestoredIsWhole` is stated for restores that did not meet.

### 2.5 `SqliteLane`

| variable | in the code |
|---|---|
| `obs`, `source` | the last published bar; the revision of the funding CSVs |
| `batches`, `wm` | the committed rows of `ledger_batches` with their sidecar reference; the watermark |
| `sidecar` | `funding_source_snapshots/`, at most one file for each path |
| `lock`, `pc`, `txn` | the write lock of the database; each command's step and memory |
| `reader`, `verdict` | the verifier's pinned snapshot and what it read; its report |

| action | in the code |
|---|---|
| `Begin`, `Account`, `GateAborts` | `run_sqlite_accounting`: `BEGIN IMMEDIATE`, the reads, the engine, the gates that end the transaction |
| `Emit`, `Commit`, `RollBack` | the pending sidecar, then the rows, the check and the commit, or the rollback, which leaves the file |
| `Finish`, `Mark`, `FinishFails` | the committed sidecar and, through a second connection, its reference; either failing costs a caveat only |
| `Crash` | a death anywhere; SQLite gives the lock back |
| `Pin`, `ReadSidecar`, `Publish` | the verifier's read transaction, the sidecar file, the funding files and the report |
| `PublishBar`, `ReviseSource` | the observer and the data refresh |

What is abstracted. A transaction is atomic. The rows of a batch and the check
of them inside the transaction are one step; how rows are derived is the
engine's part. A sidecar's name is the digest of the files and row subsets of
its windows, so its `Path` is the set of windows and the revision; with no
position held there are no windows and all such batches share one path, as in
the code. The database's digest of a sidecar is the sidecar it was taken of.
Full-window sidecars, immutable bundles, schema migrations and `lane_init` are
left out.

### 2.6 `PaperEngine`

| variable | in the code |
|---|---|
| `now`, `source` | the clock; what the exchange has: holes in its price history, its settlements, and the sets of symbols the observer may find active |
| `prices`, `rates` | the price and the funding CSV of each symbol |
| `log` | `observation_log.json`: bar to active symbols |
| `book`, `ledger` | the state a run starts from; the rows of all runs |
| `run` | the engine at work: the book it has reached and its `EngineResult` |

| action | in the code |
|---|---|
| `FullRefresh`, `CutRefresh` | `qnty-data-refresh.sh`: all price files, then all funding files. A symbol whose prices do not come ends it (`fetch_ohlcv_rest.py:185`); one whose funding does not come is passed over (`fetch_funding_rest.py:184`) |
| `Observe` | `run_observer_window`: the bars of the reference file that the clock says are closed; a bar that is not in the file yet is missed, and may be published later |
| `Start` | freshness, and in the JSONL lane the batch gate, before the engine |
| `Step` | one bar of `run_engine`: deferral, funding of the bar, exit stubs, equity, exits, entries |
| `Commit`, `Abort` | the rows are appended and the state replaced; in the SQLite lane the windows are checked first |
| `Tick`, `Refill` | time passes; the exchange fills a hole of its history |

What is abstracted. A funding row is its second and whether a fraction
follows, and an amount is how many settlements it was charged for (`Amount`
counts the pairs of a row and a settlement), so that a settlement two rows charge
counts twice. Prices, fees and
profit are left out, and what the observer decides is arbitrary and fixed once
published. Nothing else happens while the engine is at work, because what may
is `PaperRun`'s and `SqliteLane`'s subject; that a file is cut off in the middle by
a refresh that dies is left out, and so is the rolling of the observer's window
(`WINDOW_SIZE` bars), which a lane that was down for longer would notice.

### 2.7 `TrainStatistic`, `HoldoutProtocol`

`bars` and `funding` are the data directories, `entry` the registry entry in force,
`run` the process under way with its step `pc`, `receipt` and `decomposition`
the last ones written and `archive` the receipt the decomposition is registered
against. A run reads the data seven times, and each read is an action
(`ReadTimestamps` ... `ReadRates`); between any two of them `ReviseBar`,
`ReviseFunding` or `AppendBar` may happen. `run.touched` is a history variable: the
parts of the split (train, gap, quarantine) a refresh touched
since the run took its fingerprint; the properties use it to say for which
receipts they hold. The operator's actions copy what a receipt reports into the
registry (`RegisterTrial`, `RegisterSeal`, `RegisterPacket`, `RegisterGate`), which
is how the seal, the packet and the gate get the values the next run compares
with.

What is abstracted. A fingerprint is what it is taken of. The rows behind a
boundary are those of their rank among the rows selected (`RowsOf`), which is how a
sequence that is filtered can be reasoned about. Closes and rates are
small integers and money is counted in units in which the price ratio is exact,
as it is with `Decimal`. The git, path and argument checks of the command line,
and what an entry says of families and versions that only a constant can
satisfy, are left out.

### 2.8 `PreregistrationChain`, `FundingDiagnostics`, `RunnerGates`, `OfflineEdge`

`OfflineEdge` has the data files, the packets with their sidecars, the commit
binding and the commits on one side, `run` (the process: its pass or packet, the
digests and the inventory it holds, the diagnostics and gates so far) and
`receipt` on the other. `TakeHashes` and the action of the pass are two steps, as
the code digests a file and opens it again by its name; `ReadPacket` takes one
packet with its sidecar; `CloseChain` to `ExtractAndProject` derive the stages;
`BeginWrite` and `EndWrite` write the receipt, which a `Crash` in between leaves
cut. `Refresh`, `Amend`, `Refreeze` and `Rebind` are the others. `doc.torn` is a
history variable: some pass of this run opened a file that was replaced after
its digest was taken.

Each `<Stage>Diagnostics` is what the function of that name builds, and each
`<Stage>Gate` what is derived from it alone. A gate's value is what it blames:
nothing when it passed, `"own"` for its own evidence, and otherwise the stages of
the first group it looks at that have not passed. Declarations the stages make
of constants are left out, because no input reaches them; a packet is what the
code tells apart about it: its digest, whether its keys are the required ones,
which frozen declarations it departs from, and the digests it names. The rows of
the rule at a time are written by their rank (`TimedRows`), as in section 2.7.

## 3. Runs

| run | question | bounds | states |
|---|---|---|---|
| `paper_run` | type, true OK, backed watermark, one source per bar, refinement of `OkCommit`; does the lane come back to OK | 2 bars; any 3 of 2 crashes and 1 each of recompute, unlink failure, stopped run, unreadable file; amounts of zero, below and above the tolerance | 1.05 million: every triple of the faults, and the fairness below |
| `paper_damage` | does a run say OK over lost bars or lost money | 3 bars, 1 crash, 1 stopped run, 1 lost row; amounts of zero, below and above the tolerance | 1.73 million |
| `paper_crash` | violation, finding 1 | 2 bars, 1 crash | - |
| `store` | does a manifest imply its objects; is a good file ever replaced or removed; does a repeated ingest complete | 2 processes, 2 artifacts with a shared object, 1 crash, source fault, miswrite, rot | every combination |
| `restore` | is a published tree whole and unreplaced, and the workspace gone | 2 restores, 3 files, 1 each of crash, rot, failed fsync, outsider | every combination |
| `restore_race` | violation, finding 2 | 2 restores, no faults | - |
| `sqlite` | do batches chain; is evidence kept; does a verdict hold; are gaps only faults; are all bars accounted | 2 commands, 3 bars of which 2 need funding, any 2 of crash, abort, late failure, revision | 714 thousand: every pair |
| `sqlite_source` | violation, finding 3 | 1 command, 2 bars, 1 revision | - |
| `engine` | do the windows tile the holding; is what is due charged; do the books tie; do batches matter; is every bar booked | 2 symbols, 6 bars, either lane, 4 exchanges (complete; a hole in the reference; a hole in the other; one that ends), 1 cut refresh or refill | 84 thousand |
| `holdout` | is a passed gate true; does the seal tell the quarantine; is the score of the train rows; does the decomposition add up | 2 commands, 8 bars, 5 settlements, 1 refresh | 980 thousand |
| `holdout_live` | does registering lead to a pass | 1 command, 1 refresh | - |
| `offline_edge` | is a closed chain bound and frozen; is what passes a prefix; do the passes agree; are the eligible joined; is each row validated once | 2 symbols, 4 bars, 10 command lines, 17 troubles in the funding, 7 in the bars, every single flaw of a packet, 1 refresh or 2 writes, 1 death | 61 thousand |

Two bars are enough to have a bar accounted, a second batch on top of it, a
deferred bar and both fills of a trade; the third bar adds a holding period
between entry and exit, which is when funding is charged and when a trade
refers to an entry two batches back. Three faults together (`MaxTogether`) give
all pairs of faults in all orders, which is where the gates disagree with each
other, and one more that hits the recovery from such a pair; a run that starts
reads only files, so a further fault meets only states that these leave behind.

For the store, two processes whose manifests share an object reach every race
on one path (a third finds what the second found), and the second artifact is
what makes a discarded object matter to somebody else's manifest. For a restore
a third file puts a file before, at and after the one that fails.

For the SQLite lane two commands are all the roles there are: one that holds
the lock and one that finishes late. Three bars make a batch without windows
and two with them, which is what a late `Finish` or `Mark` needs to hit the
wrong one. Faults are bounded in pairs (`MaxTogether`): a third one meets a lane
that is already missing one batch's evidence, and nothing a run does depends on
the evidence of earlier batches.

Six bars in `engine` are a bar before `forward_start_ts`, an entry, a holding, an exit and one more
round; the settlements are two ticks apart like the bars, with one between two
bars, so that a window may have none, one or two of them. A run has one fault
(`MaxFaults`), a cut refresh or a refill: the first leaves price and funding
files of different age, the second shows that a lane that waited for a hole
takes up what it deferred. One fault of each kind gives 190 thousand states and
the same result; the run is kept short.

Eight bars in `holdout` are warm-up, two slots, one purged, one embargoed and
two quarantined bars, so that each index at a boundary has a row on both sides.
One refresh at each of the seven reads meets every pair of reads; a second one
would meet a receipt that is already of two versions, about which nothing is
claimed. `offline_edge` has no two troubles at once: a gate or pass looks at one
file or packet at a time, and what it does with two is a conjunction.

### Fairness

`FairSpec` adds `WF_vars(RunStep)`: a started run goes on, and a new run is
started when none is in progress. The operations documentation has a timer
start the runs, and `docs/paper_pnl_v1_schema.md` calls a `RUNNING` summary that
outlives one timer interval a crashed run. Faults, the observer and the market
are not fair. That two runs of this lane do not overlap is an assumption: the
timer's unit is a oneshot and its script takes a lock
(`ops/bin/qnty-paper-pnl-run.sh`), but `run_once` itself takes none.

`ArtifactStore.FairSpec` adds `WF_vars(Step(p))` for every process: a running
ingest goes on, and a command that failed is given again, as the operator is
told to. `RepeatCompletes` asks for nothing more: an item that is bad on the
disk is refused forever, so it is a premise that none stays so.

`SqliteLane.FairSpec` adds `WF_vars(Step(w))` for every command: a run goes on, a
timer starts another one, and a command waiting for the lock does not wait
while it is free. Aborts, late failures and deaths are not fair.

`PaperEngine.Spec` has `SF_vars` for `FullRefresh`, `Observe` and `Start` and
`WF_vars(Step \/ Commit \/ Abort)`. Each command has a timer of its own
(`ops/systemd`: every eight hours at :05, :10 and :20), so a command that can
run again and again is run; strong fairness is needed because they wait for the
engine in the model, which takes no time in comparison. `Tick`, `CutRefresh` and
`Refill` are not fair: `EveryBarIsBooked` has it as a premise that the exchange's
data becomes whole.

`HoldoutProtocol.FairSpec` has `WF_vars(RunStep)` and `SF_vars` for `Command` and
`Register`: a run that was started ends, and the operator keeps running the
slice and keeps registering what its receipts ask for, which is the procedure
of the holdout-open-gate memo. Refreshes are not fair.

## 4. Findings

1. *A crash inside the appends is not completed* (`paper_crash`). The comment at
   `runner.py:423` and `docs/paper_pnl_v1_schema.md:658` say that a crash before
   the state write lets the next run reprocess the bar and complete half-written
   ledgers. The health gate of that next run finds a snapshot without its equity
   row and publishes `CORRUPT_LEDGER` before the engine is reached; so does every
   later run. Only a bar whose last append had put down all its rows is completed;
   if that write was cut just before its final newline the bar is completed too,
   and the next one is appended to the same line, so the lane is corrupt after all.
2. *Two restores of one destination can publish a tree that is then emptied*
   (`restore_race`). A restore that loses the mkdir removes the workspace path,
   `store.py:551`, which is the winner's workspace. If the winner renames it
   meanwhile, the removal goes on inside the published destination and the
   winner reports success.
3. *What a clean batch was charged is not what its evidence attests*
   (`sqlite_source`). The audit says the data used for a batch must be
   content-addressed. The rates come from `load_all_funding`, the digests from
   the files read again later in the run, and the verifier compares the digests
   with the files and never with the rates in the database.

What else was seen while modelling, and is stated by no run:

- *Leftover staged copy.* The comment at `runner.py:90` says it is harmless. With
  two staged OK copies `reconcile.py:236` compares the manifest with the one whose
  random file name sorts last, which may be the old one.
- *Rows that amount to nothing.* `docs/paper_pnl_v1_schema.md:305` says an existing
  partial ledger can never be normalised into OK. Trades, fills and funding are
  compared as sums within 1e-4 and not counted (`reconcile.py:487-500`, `867-873`).
  The symbol is held over three bars, no funding is available for the third, so
  its row has amount 0 (`engine.py:120-133`); the OK run attests the row, it
  disappears, and the next run says OK. The same goes for a trade of gross
  profit about 0. The instance of `paper_damage` has these states: with
  `committed[f] \subseteq ledger'[f]` for the funding as well, `LossBlocksOk` is
  violated there.
- *Partial positions ledger.* Nothing requires a positions row per accounted bar
  (`reconcile.py:884`), so one can go unnoticed against the same promise.
- *Rolled-back batch.* The receipt plan
  (`docs/plans/QNTY_FUNDING_SOURCE_SNAPSHOT_RECEIPT_PLAN.md:251`) says an orphaned
  snapshot must be ignored. Batches without a position share one sidecar
  path (`sqlite_writer.py:1292`), so the pending sidecar of the next run
  replaces the committed one, and a rollback leaves it replaced.
- *Ingest and restore.* The loser of an ingest race leaves its temporary file
  (`store.py:261`), and a restore whose last fsync fails reports failure and
  leaves the destination it published (`store.py:550`).
- *Silent hours.* After a bar the observer missed, the hours before the interval of
  the next bar are charged to nobody (`engine.py:243`), although sections 3.1 and
  11 of the schema speak of the actual holding interval: `SkippedTicks` in
  `HoldingIsTiled`.
- *Filled holes.* The exit stub is not clamped to the entry fill. If a hole of a
  price file is filled between entry and exit, the exit fill may come before the
  entry fill and funding is charged before the position exists; `HoldingIsTiled`
  leaves refilled symbols aside.
- *Exit stubs in the JSONL lane* are not looked at by the batch gate and can be
  charged 0 when the funding refresh stopped: the exception in `ChargedInFull`.
- *One row is enough.* Both coverage gates ask for at least one settlement in a
  window, so a window of two settlements can be undercharged when the second
  comes late: the premise in `ChargedInFull`.
- *Listed symbols.* The JSONL batch gate needs funding for every symbol with a
  price file; one delisted symbol stops the lane (`Needed`).
- *Stub mark.* A stub is marked with the running price of the bar of the fill,
  five minutes after it opened (`engine.py:286`), where section 11 says its close.
- *Verbatim gate record.* The holdout-open-gate memo records the gate's outcome
  "verbatim for auditability"; a gate that is registered with the value of
  its first receipt makes the next run report
  `holdout_open_gate_declaration_stale`. What has to be registered is the outcome
  expected of the next run, which is what `RegisterGate` does.
- *Jitter.* The comment at `offline_edge_real_validation.py:7806` says a false range
  mismatch is avoided, but the counts of rows outside the range compare with raw
  times, so a fraction of a second in the first funding row blocks the symbol.
- *Digest and open.* The docstring at line 6036 of that file says a file is
  verified before it is read; it is opened again by name after the digest, so
  receipts of two versions can be reached (`torn`).

## 5. Proofs

`PaperRunProofs` proves, from `RowsAssumption` (there are finitely many rows and
`LongRows` is a set of them), `AmountAssumption` (amounts are integers, the
tolerance is a natural number) and `NBarsAssumption` (there is at least one bar)
only, and so for any number of
bars, rows and faults:

| theorem | states |
|---|---|
| `TypeCorrect` | `Spec => []TypeOK` |
| `OkCorrect` | `Spec => []OkIsTrue` |
| `Implementation` | `Spec => Commit!Spec` |
| `SourceCorrect` | `Spec => []OneSourcePerBar` |
| `StateBacked` | `Spec => []StateIsBacked` |
| `LossIsNoticed` | `DamageSpec => LossBlocksOk` |

`OkIsTrue` alone is not inductive: when the summary is written, that everything
holds was established at the final gate three steps before, partly by files
written before it. `OkInv` says what is known on the way there: no step of a
run has an OK on display (`NoOkInRun`); after the reconcile gate the document
in memory may be an OK one (`Prepared`) and is that of these ledgers and this
state (`GatePassed`); after the manifest and the receipt are written they are of that document (`Written`);
after the final gate the ledgers reconcile and tie to the state (again `GatePassed`); and the
ledgers attested by the last OK are still there (`CommittedHeld`), which
together with `NoOkInRun` gives the refinement. `SourceInv` strengthens
`OneSourcePerBar` by what the engine's rows in memory agree with: the snapshots
are appended first, so a row that is appended later agrees with the snapshot of
its bar even if the observer rewrote the bar after it was read. `BackInv`
strengthens `StateIsBacked` by where, in the order of the appends, the rows of
the state about to be committed are.

`LossIsNoticed` is about `PaperDamage`, of which `OkInv` is no invariant: what an OK
attested may be gone. `LossInv` says where it is remembered. The persisted state
counts the attested fills, trades, funding and equity rows (`AttestedIsSummed`),
a run only adds to them (`SumsGrow`), a batch is one equity row for each bar
between the old watermark and the new (`BatchAgrees`), and an equity row at or
before the watermark is one the state counts (`EquityIsSummed`). At the final
gate the number of equity rows is compared: all of them lie at or before the
watermark, hence are counted by the state, and there are as many as it counts,
so they are the same rows. Amounts have no such argument: what the gate gives is
that the sums agree (`SummedIsThere`), and that is all the theorem says of them.
The snapshots are in no sum; `ReconciledSnapshots` shows that a book that
reconciles has exactly one for each equity row, so they are remembered through
these.

`ArtifactStoreProofs` proves, from `FilesAssumption` (a manifest lists
objects), `JobAssumption` (a process ingests an artifact) and `ItemsAssumption`
(object and manifest digests differ), for any number of processes and faults:

| theorem | states |
|---|---|
| `TypeCorrect` | `Spec => []TypeOK` |
| `ManifestLast` | `Spec => []ManifestImpliesObjects` |
| `NeverReplaced` | `Spec => GoodStays` |

`ManifestImpliesObjects` is not inductive, because a process that found bytes
bad removes whatever is at the path. `StoreInv` adds what makes that safe: only
one process can be between the link and the read-back of an item (`OneHolder`),
the file is there as long as it is (`PathHeld`), what it is about to discard is
bad (`DiscardsBad`), and the items of a process' list before its place are
good, or were spoiled later (`DoneKept`).

`ArtifactRestoreProofs` proves, from `NFilesAssumption` (a manifest has files) and
`RestorersAssumption` (a restore is neither nobody nor an outsider), for any
number of restores, files and faults:

| theorem | states |
|---|---|
| `RestoreTypeCorrect` | `Spec => []TypeOK` |
| `PublishedIsWhole` | `Spec => []RestoredIsWhole` |
| `WorkspaceIsRemoved` | `Spec => []NoWorkspaceStays` |
| `DestinationStays` | `Spec => DestinationIsNotReplaced` |

The mkdir is what excludes: as long as no two restores met, at most one is
behind its mkdir (`OneAtWork`), and the tree it is building has the files before
its place good or spoiled later (`WholeAndLeftAlone`), so what it renames is
whole. `OpenedAtPath` and `PublisherKnown` say what an `rmtree` that is under way
can still reach: while there was no meeting and no crash it is the restore's own
workspace and never a destination somebody published. `Attended` says that a
workspace that is there belongs to a restore that will publish or remove it,
unless somebody died. `DestinationIsNotReplaced` is an action property: no step
takes a directory away from the destination, and where there is one there is
somebody who put it there (`PublisherKnown`).

`SqliteLaneProofs` proves, from `HeldAssumption` (bars are numbers), for any number
of accounting commands, bars and faults:

| theorem | states |
|---|---|
| `TypeCorrect` | `Spec => []TypeOK` |
| `BatchesCorrect` | `Spec => []BatchesChain` |
| `EvidenceCorrect` | `Spec => EvidenceStays` |
| `VerdictCorrect` | `Spec => []PublishedHolds` |
| `GapsCorrect` | `Spec => []GapsAreFaults` |

`BatchesChain` is inductive only with `Locked` and `StillCurrent`: a command inside
its transaction has the lock for itself, so the watermark it has read is still
the one in the database when it commits. `EvidenceStays` needs that batches do
not overlap (`Ordered`) and that a reference is about the bars of its batch
(`RefsFit`), because then two batches of which one has windows have different
sidecar paths (`PathsDiffer`); and that a command that still has to finish has a
batch of its own whose reference is pending (`StillPending`, `OneFinisher`), so
that what it overwrites is not complete. `PublishedHolds` follows from these and
from what the verifier holds on to while it reads: a committed reference it has
pinned is still in the database (`Pinned`), and the sidecar it has found is still
there (`Found`). `GapsAreFaults` bounds a cardinality: the batches whose evidence
is incomplete and that no command is still finishing inject into the crashes and
failed finishes, so each fault has to account for one new element of that set at
most (`AbandonedAreFaults`), and a finish that succeeds must leave the file of its
own batch in place until it is marked (`FinishedThere`).

`PaperEngineProofs` proves, from `EngineAssumption` (the reference symbol is one of
the symbols, the interval is positive, the order lists the symbols, the bounds
are numbers) and `SourcesAssumption` (what the exchange may have is a finite set of
settlements for each symbol), for any symbols, any data and any horizon:

| theorem | states |
|---|---|
| `EngineTypeCorrect` | `Spec => []TypeOK` |
| `HoldingsAreTiled` | `Spec => []HoldingIsTiled` |
| `EveryWindowIsCharged` | `Spec => []ChargedInFull` |
| `BooksAgree` | `Spec => []BooksTie` |
| `BatchesAgree` | `Spec => []BatchesDoNotMatter` |
| `GateAcceptsWhatIsCharged` | the gate, which keeps the fraction of a funding time and canonicalizes it, accepts exactly the rows that the engine, which cuts the fraction off, charges |

`EngineInv` is said twice, of the account that is saved and of the one a run has
reached (`Saved`, `Reached`). `PositionsOK` gives each open position a fill bar
behind the bar that decided it; `HeldOK` lays the funding windows of a symbol
end to end from its fills to its exits, of which `HoldingIsTiled` is a
consequence; `ChargedOK` says that a row charges nothing the exchange did not
settle in its window, and that it charges something if the batch gate came first;
`GatedOK` says the same of the rows saved behind the gate of the SQLite lane: an
account that has not passed it is reached and never saved. `BooksOK` has the total
that the book carries, the one of each equity row, of each trade and of each open
position equal to what the rows left behind add up to. Of a symbol whose history
had no hole filled, the file has every bar before one it has (`FilesOK`), which is
why a window booked once stays adjacent to the next. An amount is a count of
pairs of a row and a settlement, so that the sums of `BooksTie` are cardinalities
of disjoint unions and no fold has to be unfolded.

`ReplayInv` compares an account with the replay of the log, a function from bars to
accounts that exists because each of its values needs the one before only
(`ReplayExists`). `Skeleton` keeps of an account what `BatchesDoNotMatter` compares
and the fills of the open positions; what a bar adds to it depends on who is active
and on the fills of those acted on (`BookBarSkeleton`, `SkeletonsAgree`). A replay
done later reads longer files and a longer log. That it leaves the same rests on three
facts: the engine booked a bar only when all it acted on had a next bar
(`ResolvedUpTo`: the "whole bar" of `engine.py:225`), the next bar of a symbol without
a filled hole stays its next bar (`FillStays`), and the log gets new bars behind its
last one only (`LateOK`), since what is not in it by then is not in the reference
file. Without deferral the first fails, and with it the theorem.

`HoldoutProofs` proves, from `WindowAssumption`, `DataAssumption` (the initial
data are sequences of rows, and a close and a rate are whole numbers of units) and
`InvocationsAssumption` (what `main` accepts as arguments), for any data, any split
and any number of revisions:

| theorem | states |
|---|---|
| `HoldoutTypeCorrect` | `Spec => []TypeOK` |
| `PassedGateIsTrue` | `Spec => []PassIsTrue` |
| `SealTells` | `Spec => []SealTellsTheQuarantine` |
| `ScoreIsOfTheTrain` | `Spec => []ScoreIsOfTheTrainRows` |
| `DecompositionAddsUp` | `Spec => []DecompositionIsOfTheArchive` |

The run reads its data in seven passes and a revision may fall between any two.
`HoldoutInv` says what survives: which fields the run has at each step and how
those it derives follow from those it read (`RunOK`); and, as long as nothing of the
quarantine was touched and the audit did not fail, that the times are those of
the cut the run began with and so are the rows behind the embargo, each time
they are read (`SeenOK` under `Clean`). What a receipt says of both is kept
(`ReceiptOK`). The rows behind a boundary are selected
rank by rank (`RowsOf`, `RankIn`), and the lemmas `RanksAreTaken` to
`FundingWithin` say when two such selections are equal: when they have the same
rows at the same times. `PassIsTrue` was first stated of fewer receipts; the proof
needs only that nothing of the quarantine was replaced, so a row of the train part
may change while the run reads and a gate that passes is still true of its packet.

`ScoreInv` is the counterpart for the train part. The statistic is bound to a
declared cut, and the bars and the funding are read after that; the invariant
says that up to the last bar before the purge both are those of that cut, unless
`run.touched` tells of the train part (`ReadOK`), and that an audit that passed
still describes the file (`Surveyed`). What remains is about the score alone
(`ScoreIsOfTheCut`): a slot that is scored closes before the purge, so its bars, its
funding rows and its rank among the active slots are the same in the cut cut down
to that bar (`EntriesAre`, `ScoredIsSame`, `SlotIsSame`). The proof corrected the
property: the scorer stops at the first funding row that is late, and a file out of
order may have earlier ones behind it, which it never reads. The property therefore
speaks of the rows in front of the first late one (`FundingBefore`).

`DecompositionInv` has the receipt the decomposition was started for be the one that
is archived, the train part not empty, and the slots those of the rows read. That a
published decomposition adds up is a fact about sums over the scored slots, of which
there may be any number: a sum of integers is one (`SumIsInt`), the sum of the
differences is the difference of the sums (`SumOfDifferences`), and what the two
sides leave is a constant for each active slot (`SumOfCounted`). The fold of the
community modules is a recursive function over the subsets of its domain; that there
is such a function (`SumsExist`) and what it adds up to are inductions over finite
sets with a set in place of the predicate (`FiniteSetDescent`). That every quotient is
a number needs the scorer's own check that no close of the scored part is zero.

`OfflineEdgeProofs` proves, from `NumbersAssumption`, `MaxRowsAssumption`,
`StartsAssumption` and `RefreshesAssumption` (the files are sequences of rows, in
any order), `SymbolsAssumption` (the symbols are finitely many) and
`MaxRunsAssumption`, for any files, any packets and any interleaving of those who
replace them with the run:

| theorem | states |
|---|---|
| `EdgeTypeCorrect` | `Spec => []TypeOK` |
| `ClosureBinds` | `Spec => []ClosedChainIsBound` |
| `ClosureFreezes` | `Spec => []ClosedChainIsFrozen` |
| `GatesPassInOrder` | `Spec => []OnlyAPrefixPasses` |
| `RowsAreValidatedOnce` | `Spec => []EveryRowIsValidatedOnce` |
| `EligibleAreJoined` | `Spec => []EligibleIsJoined` |
| `DiagnosticsAreOne` | `Spec => []DiagnosticsAgree` |

`ChainInv` has the packets read so far as its induction: a packet whose gate
passed names the digests of those read before it, departs from nothing and
authorizes nothing (`HasRead`, `IsVouched`), so that the closure gate, which
looks at seven states, is a statement about every binding between them (`IsBound`). For the
gates, `PrefixTo(gates, n)` says that the first `n` stages have their gates, that
those that pass are a prefix and that each of the others blames itself or
stages before it; a lemma for each stage behind the closure (`BoundaryCarries` to
`ComparisonLockCarries`) extends it by one. A gate does not see the
gates before it but what the diagnostics of its stage say of them, which were
copied from stage to stage; `Carrier` says that these copies and the counts of
rows that go along with them are the right ones.

The three theorems about the data rest on three more inductive invariants. `SurveyInv`
says of a run that was not torn so far that its inventory is the one of files it
has the digests of, and its windows those between the bounds of that inventory. That
the windows tile what is between (`WindowsTile`) is arithmetic: flooring and
dividing are monotone, so are the boundaries, and the first and the last one are the
bounds, which are whole seconds already (`SurveyHasBounds`). A time with a fraction
may lie behind the last boundary, which is why the property speaks of whole
seconds. `JoinInv` says what is known where the scaffold is built: that the files
of the inventory are in order and that the verdict is of them (`IsReady`). A symbol
the gate found clean has the same seconds on both sides and no collision, so floors
pair bars and funding one to one; the windows agree because their boundaries are
whole seconds (`BeforeASecond`), but for the last one, which is closed: there the
gate's own comparison within the window is needed, and its range check, which
keeps the bars from reaching behind the last second (`CleanIsJoined`).

`AgreeInv` says of every section an untorn run has written down that it is of the
files its inventory has the digests of (`SectionsAgree`): a pass asks for the
digests before it opens the files, so files that did not change in between are
those of the inventory (`UnchangedIsSurveyed`); the passes over the rows and the
adjustments do not ask again when they open them, and `HashedOK` says what was asked
before. The last pass insists on nothing and has no rows when the files are other
ones (`ExtractedAre`); the stages behind it keep the rows of the rule as they are
(`RuleRowsStay`) and, by `Carrier`, count them. From there the agreement is one of
definitions: of a file in order a window has as many rows as times
(`RowsAreTimes`), a join at no shift is the join, and the rows of the rule of a
window are in bijection with its matches (`RuleRowsOfAWindow`).

`InductionFacts` proves what the others need of induction: a family of subsets
of a finite set that is closed under adding an element is everything, so is one
that has a set when it has all that lack one of its elements, and the same for
numbers. The library states these with an operator as a parameter,
which no installed prover can instantiate; stated with a set in its place they
follow from the well-foundedness of strict inclusion.

Every inductive invariant was checked by TLC, as an invariant of the instances
of section 3, before it was proved.

Only model-checked:

- `ComesBackToOk`, `RepeatCompletes`, `EveryBarAccounted`, `EveryBarIsBooked` and
  `RegisteringLeadsToAPass`: liveness under fairness is out of the prover's reach.

Every invariant and action property of a passing run is also a theorem.

No module declares a RECURSIVE operator.

## 6. Plan

Done: every module of section 2 with its runs; the proofs of section 5.

Worth doing next: a module for the execution-intent receipts of section 7.

## 7. Not modelled

- Execution-intent receipts, control state, artifact registry, JSONL verifier,
  continuity chain, assurance contracts: each reads one or a few documents and
  accepts or refuses them; they keep no state between calls except for the
  write-once publication of a receipt under a lock file, which is the next
  candidate for a module.
- The rest of `experiment/`, `strategy/`, `sandbox/`, `lab/` and `replay/`:
  floating-point statistics, seeded simulation and folds over fixed lists, in
  which there is no order of events to get wrong.
- Command lines, formatting, CSV and JSON parsing, and the read-only reports over a
  finished lane.
- `core/`, `exec/`, `protocols/`: interfaces without an implementation that runs.
