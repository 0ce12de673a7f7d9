------------------------------ MODULE PaperRun ------------------------------
(***************************************************************************)
(* One accounting run of the paper lane, quantbot/paper/runner.py run_once, *)
(* file write by file write.                                                *)
(*                                                                         *)
(* The runner is a one-shot process started by a timer.  It has no memory   *)
(* between runs: everything it knows it reads from the files it left.  A    *)
(* crash (a kill, a full disk, an exception no handler catches) may hit     *)
(* between any two file operations, and in the middle of a JSONL append,    *)
(* which, unlike the overwritten JSON files, is not an atomic replace.      *)
(* Meanwhile the observer, a separate process, appends bars to              *)
(* observation_log.json and may recompute bars it already published.        *)
(*                                                                         *)
(* Abstractions.  One symbol.  An observation row is a member of Rows, its  *)
(* digest and its bar_commit_id are the row itself, and the row says by     *)
(* membership in LongRows whether the symbol is active.  A ledger row is    *)
(* the bar it accounts for and the source row it was computed from; it is   *)
(* in its ledger as long as its text is in the file.  Market prices and     *)
(* funding rates are fixed once published, so the amount of a row, which    *)
(* may be nothing, is given by Amount.  The state holds sums; here it holds *)
(* the rows it has summed, and every check of the code adds them up.        *)
(***************************************************************************)
EXTENDS Integers, Sequences, FiniteSets, Functions

CONSTANTS
    Rows,                \* contents a per_bar_obs row can have
    LongRows,            \* the rows whose active_symbols holds the symbol
    Amount,              \* the fee, the gross profit or the funding of a row
    Tolerance,           \* by how much two equal sums of floats may differ
    NBars,               \* bound: bars the observer publishes
    MaxCrashes,          \* bound: process deaths
    MaxRecomputes,       \* bound: published bars the observer rewrites
    MaxUnlinkFailures,   \* bound: staged summaries that cannot be removed
    MaxInputProblems,    \* bound: runs stopped by a bad input or config
    MaxReadFailures,     \* bound: OSErrors on the runner's own artifacts
    MaxTogether          \* bound: faults of all these kinds together

ASSUME RowsAssumption == LongRows \subseteq Rows /\ IsFiniteSet(Rows)
ASSUME NBarsAssumption == NBars \in Nat \ {0}

Bars == 1..NBars

\* Mutant: the positions append is lost to a repeated equity append.
AppendOrder_NoPositions ==
    <<"snapshots", "fills", "trades", "funding", "equity", "equity">>
\* The append-only JSONL files, in the order run_once appends to them.
AppendOrder ==
    <<"snapshots", "fills", "trades", "funding", "positions", "equity">>
Ledgers == {"snapshots", "fills", "trades", "funding", "positions", "equity"}
\* The ledgers whose rows the persisted state sums up.
Summed == {"fills", "trades", "funding", "equity"}
\* Those it sums by amount: fees_cum, realized_gross and funding_cum.  The
\* equity rows are counted, in bars_elapsed.
Charged == {"fills", "trades", "funding"}

Entry == [bar : Bars, row : Rows]
ASSUME AmountAssumption == Amount \in [Charged -> [Entry -> Int]] /\ Tolerance \in Nat

\* _ledger_sum, and its comparison within STATE_ACC_EPS.
Total(f, rows) == SumFunction([e \in rows |-> Amount[f][e]])
SameTotal(f, rows, others) ==
    LET difference == Total(f, rows) - Total(f, others)
    IN  -Tolerance <= difference /\ difference <= Tolerance

Statuses ==
    {"ABSENT", "RUNNING", "OK", "ABORTED", "CORRUPT_LEDGER",
     "NO_ELIGIBLE_BARS_YET"}

VARIABLES
    \* Inputs, written by other processes.
    obs,        \* observation_log.json: the row of each published bar
    nextOpen,   \* whether the price file already holds the bar after them
    \* Files in the paper output directory.
    summary,    \* paper_pnl_summary.json, the visible status
    staged,     \* prior summaries moved aside and not yet removed
    ledger,     \* the JSONL ledgers
    torn,       \* the ledgers with a line that is not a row
    unended,    \* the ledgers whose last row lacks its newline
    state,      \* paper_position_state.json
    prov,       \* paper_provenance.json
    receipt,    \* paper_receipt.md: the summary it renders
    \* The run in progress.
    pc, mem,
    \* How much of each fault bound is spent.
    faults,
    \* History: the ledgers as of the last published OK.
    committed

envVars  == <<obs, nextOpen>>
docVars  == <<summary, staged, prov, receipt>>
bookVars == <<ledger, torn, unended, state>>
runVars  == <<pc, mem>>
vars     == <<envVars, docVars, bookVars, runVars, faults, committed>>

(***************************************************************************)
(* Documents.                                                              *)
(***************************************************************************)
Long(r) == r \in LongRows

BarsIn(rows) == {e.bar : e \in rows}
\* The latest bar of S, 0 if there is none.
LastBar(S) ==
    IF \E b \in S : \A c \in S : c <= b
    THEN CHOOSE b \in S : \A c \in S : c <= b
    ELSE 0

\* A summary of another status carries nothing a later run reads.
Doc(status) == [status |-> status, equity |-> {}, trades |-> {}, entry |-> 0]

\* compute_summary: a function of the ledgers and the state, with no clock.
OkDoc(book, st) ==
    [status |-> "OK", equity |-> book["equity"], trades |-> book["trades"],
     entry |-> st.entry]

\* paper_position_state.json.  entry is the signal bar of the open position,
\* 0 when flat; sums holds, per ledger, the rows its accumulators include.
NewState ==
    [present |-> TRUE, wm |-> 0, entry |-> 0, sums |-> [f \in Summed |-> {}]]
AbsentState == [NewState EXCEPT !.present = FALSE]

\* paper_provenance.json: its status and the digests it pins.
Manifest(status, doc, st) ==
    [status |-> status, summary |-> doc, receipt |-> doc, state |-> st]
NoManifest == Manifest("ABSENT", Doc("ABSENT"), AbsentState)

(***************************************************************************)
(* The engine, as run_once sees it: the rows it returns and the new state.  *)
(***************************************************************************)
\* Whether the symbol is held when bar b is reached, before b's fills.
HeldBefore(st, b) ==
    IF b = st.wm + 1 THEN st.entry # 0 ELSE Long(obs[b - 1])
Acts(st, b) == Long(obs[b]) # HeldBefore(st, b)
\* The fill happens at the next bar's open; without it the whole bar waits.
Deferred(st, b) == Acts(st, b) /\ b = Len(obs) /\ ~nextOpen

Processed(st) ==
    {b \in (st.wm + 1)..Len(obs) : \A c \in (st.wm + 1)..b : ~Deferred(st, c)}

\* The signal bar of the position held before bar b's fills.
EntryBefore(st, b) ==
    LET opened == {c \in (st.wm + 1)..(b - 1) : Acts(st, c) /\ Long(obs[c])}
    IN  IF b > st.wm + 1 /\ ~HeldBefore(st, b) THEN 0
        ELSE IF opened = {} THEN st.entry
        ELSE LastBar(opened)

\* A held position is charged funding at every bar after its fill bar, and
\* an exiting one also up to its exit fill.
FundingDue(st, b) ==
    /\ HeldBefore(st, b)
    /\ EntryBefore(st, b) + 1 < b \/ ~Long(obs[b])

EngineBars(st, f) ==
    CASE f = "fills"   -> {b \in Processed(st) : Acts(st, b)}
      [] f = "trades"  -> {b \in Processed(st) : Acts(st, b) /\ ~Long(obs[b])}
      [] f = "funding" -> {b \in Processed(st) : FundingDue(st, b)}
      [] OTHER         -> Processed(st)

EngineRows(st) ==
    [f \in Ledgers |-> {[bar |-> b, row |-> obs[b]] : b \in EngineBars(st, f)}]

\* Mutant: the watermark is the fill bar instead of the signal bar.
EngineState_FillBar(st) ==
    [NewState EXCEPT !.wm = LastBar(Processed(st)) + 1]
EngineState(st) ==
    LET last == IF Processed(st) = {} THEN st.wm ELSE LastBar(Processed(st))
    IN  [present |-> TRUE,
         wm      |-> last,
         entry   |-> IF last = st.wm THEN st.entry
                     ELSE IF ~Long(obs[last]) THEN 0
                     ELSE IF Acts(st, last) THEN last
                     ELSE EntryBefore(st, last),
         sums    |-> [f \in Summed |-> st.sums[f] \cup EngineRows(st)[f]]]

(***************************************************************************)
(* The gates.                                                              *)
(***************************************************************************)
\* What the engine wrote into the rows of a bar, recovered from the source
\* rows it froze.
RowHeld(book, b) ==
    \E s \in book["snapshots"] : s.bar = b - 1 /\ Long(s.row)
\* The signal bar of the position a trade closing at b refers to.
RowEntry(book, b) ==
    LastBar({s.bar : s \in {t \in book["snapshots"] :
                /\ t.bar < b
                /\ Long(t.row)
                /\ ~RowHeld(book, t.bar)}})
RowFunding(book, s) ==
    /\ RowHeld(book, s.bar)
    /\ RowEntry(book, s.bar) + 1 < s.bar \/ ~Long(s.row)

\* The open book by the fills ledger: more entries than exits.
FillsHeld(book, b) ==
    LET before == {e \in book["fills"] : e.bar < b}
    IN  Cardinality({e \in before : Long(e.row)})
          > Cardinality({e \in before : ~Long(e.row)})
LastEntryFill(book) ==
    LastBar(BarsIn({e \in book["fills"] : Long(e.row)}))

\* reconcile: the structural invariants over the persisted ledgers.
Unique(book) ==
    \A f \in Ledgers : \A d, e \in book[f] : d.bar = e.bar => d = e
SnapshotsMatchEquity(book) ==
    BarsIn(book["snapshots"]) = BarsIn(book["equity"])
RowsMatchSnapshots(book) ==
    \A f \in Ledgers : book[f] \subseteq book["snapshots"]
TradesReferToFills(book) ==
    \A t \in book["trades"] :
        /\ t \in book["fills"]
        /\ RowEntry(book, t.bar) \in BarsIn(book["fills"])
FundingTiesToEquity(book) ==
    book["equity"] # {} =>
        SameTotal("funding", book["funding"],
                  {s \in book["snapshots"] : RowFunding(book, s)})
PositionsMatchFills(book) ==
    \A p \in book["positions"] : RowHeld(book, p.bar) = FillsHeld(book, p.bar)

Reconciles(book) ==
    /\ Unique(book)
    /\ SnapshotsMatchEquity(book)
    /\ RowsMatchSnapshots(book)
    /\ TradesReferToFills(book)
    /\ FundingTiesToEquity(book)
    /\ PositionsMatchFills(book)

\* _reconcile_state_dict_against_ledgers: what always holds, and the exact
\* lockstep required after an OK and right before one.
WatermarkHasEquity(book, st) == st.wm <= LastBar(BarsIn(book["equity"]))
\* hold_bars and funding_accrued of the open position.
After(rows, b) == {e \in rows : e.bar > b}
PositionTies(book, st) ==
    /\ Cardinality(After(st.sums["equity"], st.entry)) =
          Cardinality(After(book["equity"], st.entry))
    /\ SameTotal("funding", After(st.sums["funding"], st.entry),
                 After(book["funding"], st.entry))
\* Mutant: only the watermark is compared.
InLockstep_WatermarkOnly(book, st) == st.wm = LastBar(BarsIn(book["equity"]))
InLockstep(book, st) ==
    /\ st.wm = LastBar(BarsIn(book["equity"]))
    /\ Cardinality(st.sums["equity"]) = Cardinality(book["equity"])
    /\ \A f \in Charged : SameTotal(f, st.sums[f], book[f])
    /\ st.entry = IF FillsHeld(book, NBars + 1) THEN LastEntryFill(book) ELSE 0
    /\ st.entry # 0 => PositionTies(book, st)
\* Mutant: a state behind the ledgers is never accepted.
StateTies_AlwaysStrict(book, st, strict) ==
    IF ~st.present THEN book["equity"] = {} ELSE InLockstep(book, st)
StateTies(book, st, strict) ==
    IF ~st.present THEN strict => book["equity"] = {}
    ELSE WatermarkHasEquity(book, st) /\ (strict => InLockstep(book, st))

\* _check_provenance_committed, against one staged OK summary.
ManifestPins(doc, st) ==
    prov.status = "OK" /\ prov.summary = doc /\ prov.state = st

\* check_existing_ledgers.  okDocs: the staged summaries that say OK; the
\* manifest is compared with the last of them by file name, which is random.
HealthyWith(okDocs, doc) ==
    /\ torn = {}
    /\ Reconciles(ledger)
    /\ StateTies(ledger, state, okDocs # {})
    /\ okDocs # {} => ManifestPins(doc, state)

\* check_divergence: a frozen snapshot whose source row has changed.
\* Mutant: the divergence gate is gone.
Diverged_Never == FALSE
Diverged ==
    \E s \in ledger["snapshots"] : s.bar <= Len(obs) /\ obs[s.bar] # s.row

\* final_integrity_gate.  The ledgers, the receipt and the manifest are read
\* from disk; the state and the summary are those about to be written.
FinalGate(st, doc) ==
    /\ torn = {}
    /\ Reconciles(ledger)
    /\ StateTies(ledger, st, TRUE)
    /\ prov.summary = doc /\ prov.receipt = doc /\ prov.state = st
    /\ receipt = doc

(***************************************************************************)
(* Faults.                                                                 *)
(***************************************************************************)
NoFaults == [crash |-> 0, recompute |-> 0, unlink |-> 0, input |-> 0, read |-> 0]
MaxFaults ==
    [crash |-> MaxCrashes, recompute |-> MaxRecomputes,
     unlink |-> MaxUnlinkFailures, input |-> MaxInputProblems,
     read |-> MaxReadFailures]
Together ==
    faults.crash + faults.recompute + faults.unlink + faults.input + faults.read
Spend(kind) ==
    /\ faults[kind] < MaxFaults[kind] /\ Together < MaxTogether
    /\ faults' = [faults EXCEPT ![kind] = @ + 1]

(***************************************************************************)
(* The run.  mem is the process memory: the rows and the state the engine   *)
(* returned, the ledger to append next, the summary to be published and     *)
(* the staged summaries to remove.                                         *)
(***************************************************************************)
NoMem ==
    [rows |-> [f \in Ledgers |-> {}], st |-> AbsentState, next |-> 1,
     doc |-> Doc("ABSENT"), clean |-> {}]

Init ==
    /\ obs = <<>> /\ nextOpen = TRUE
    /\ summary = Doc("ABSENT") /\ staged = {}
    /\ ledger = [f \in Ledgers |-> {}] /\ torn = {} /\ unended = {}
    /\ state = AbsentState
    /\ prov = NoManifest /\ receipt = Doc("ABSENT")
    /\ pc = "idle" /\ mem = NoMem
    /\ faults = NoFaults
    /\ committed = [f \in Ledgers |-> {}]

Goto(label) == pc' = label
Exit == pc' = "idle" /\ mem' = NoMem
\* Enter one of the terminal publications with the given summary status.
Terminate(status, clean) ==
    /\ Goto("tprov")
    /\ mem' = [NoMem EXCEPT !.doc = Doc(status), !.clean = clean]

\* load_config fails: a visible summary is superseded, nothing else happens.
ConfigError ==
    /\ pc = "idle"
    /\ Spend("input")
    /\ summary' = IF summary.status = "ABSENT" THEN summary ELSE Doc("RUNNING")
    /\ UNCHANGED <<envVars, staged, prov, receipt, bookVars, runVars,
                   committed>>

\* Mutant: the run goes straight to its gates, the old status in place.
StagePrevious_Skipped ==
    /\ pc = "idle"
    /\ Goto("health")
    /\ UNCHANGED <<envVars, docVars, bookVars, mem, faults, committed>>
\* _stage_previous_summary: an atomic rename, before anything is read.
StagePrevious ==
    /\ pc = "idle"
    /\ Goto("marker")
    /\ staged' = IF summary.status = "ABSENT" THEN staged
                 ELSE staged \cup {summary}
    /\ summary' = Doc("ABSENT")
    /\ UNCHANGED <<envVars, prov, receipt, bookVars, mem, faults,
                   committed>>
\* The rename fails: remembered as a failure of the health gate.
StagePreviousFails ==
    /\ pc = "idle"
    /\ summary.status # "ABSENT"
    /\ Spend("read")
    /\ Goto("marker")
    /\ mem' = [mem EXCEPT !.doc = Doc("CORRUPT_LEDGER")]
    /\ UNCHANGED <<envVars, docVars, bookVars, committed>>

\* _write_preflight_marker.
WriteMarker ==
    /\ pc = "marker"
    /\ Goto("health")
    /\ summary' = Doc("RUNNING")
    /\ UNCHANGED <<envVars, staged, prov, receipt, bookVars, mem,
                   faults, committed>>

\* _staged_summaries and check_existing_ledgers.
OkDocs == {d \in staged : d.status = "OK"}
HealthGate ==
    /\ pc = "health"
    /\ \E last \in (IF OkDocs = {} THEN {Doc("ABSENT")} ELSE OkDocs) :
         IF mem.doc.status # "CORRUPT_LEDGER" /\ HealthyWith(OkDocs, last)
         THEN Goto("cleanup") /\ mem' = [mem EXCEPT !.clean = staged]
         ELSE Terminate("CORRUPT_LEDGER", staged)
    /\ UNCHANGED <<envVars, docVars, bookVars, faults, committed>>
\* A persisted artifact, or the directory itself, cannot be read.
HealthGateUnreadable ==
    /\ pc = "health"
    /\ Spend("read")
    /\ \E listed \in {{}, staged} : Terminate("CORRUPT_LEDGER", listed)
    /\ UNCHANGED <<envVars, docVars, bookVars, committed>>

\* _cleanup_staged_summaries: best effort, on the way to the inputs or, for
\* a run the health gate stopped, out of the run.
AfterCleanup ==
    IF mem.doc.status = "CORRUPT_LEDGER" THEN Exit
    ELSE Goto("inputs") /\ mem' = [mem EXCEPT !.clean = {}]
Cleanup ==
    /\ pc = "cleanup"
    /\ AfterCleanup
    /\ staged' = staged \ mem.clean
    /\ UNCHANGED <<envVars, summary, prov, receipt, bookVars, faults,
                   committed>>
CleanupLeavesOne ==
    /\ pc = "cleanup"
    /\ Spend("unlink")
    /\ AfterCleanup
    /\ \E d \in mem.clean : staged' = (staged \ mem.clean) \cup {d}
    /\ UNCHANGED <<envVars, summary, prov, receipt, bookVars, committed>>

\* The freshness, divergence and funding-coverage gates over one read of the
\* inputs, then run_engine on the persisted state or a new one.
ReadInputs ==
    /\ pc = "inputs"
    /\ \/ obs = <<>> /\ Terminate("NO_ELIGIBLE_BARS_YET", {})
       \/ obs # <<>> /\ Diverged /\ Terminate("ABORTED", {})
       \/ /\ obs # <<>> /\ ~Diverged
          /\ Goto("append")
          /\ LET st == [state EXCEPT !.present = TRUE]
             IN  mem' = [mem EXCEPT !.rows = EngineRows(st), !.st = EngineState(st),
                                   !.next = 1]
    /\ UNCHANGED <<envVars, docVars, bookVars, faults, committed>>
\* A malformed, stale or incomplete input: the run aborts.
InputProblem ==
    /\ pc = "inputs"
    /\ Spend("input")
    /\ Terminate("ABORTED", {})
    /\ UNCHANGED <<envVars, docVars, bookVars, committed>>

\* append_new: the rows whose id the file does not hold yet.  On a last row
\* without its newline the next one makes one line of both, which is neither.
Current == AppendOrder[mem.next]
Fresh(f) == {e \in mem.rows[f] : e.bar \notin BarsIn(ledger[f])}
Glued == Current \in unended /\ Fresh(Current) # {}
AppendLedger ==
    /\ pc = "append"
    /\ ledger' = [ledger EXCEPT ![Current] = @ \cup Fresh(Current)]
    /\ torn' = IF Glued THEN torn \cup {Current} ELSE torn
    /\ IF mem.next < Len(AppendOrder)
       THEN mem' = [mem EXCEPT !.next = @ + 1] /\ UNCHANGED pc
       ELSE mem' = [mem EXCEPT !.next = 1] /\ Goto("reconcile")
    /\ UNCHANGED <<envVars, docVars, unended, state, faults, committed>>

\* The reconcile gate over everything on disk.
ReconcileGate ==
    /\ pc = "reconcile"
    /\ IF torn = {} /\ Reconciles(ledger)
       THEN /\ Goto("okprov")
            /\ mem' = [mem EXCEPT !.doc = OkDoc(ledger, mem.st)]
       ELSE Terminate("CORRUPT_LEDGER", {})
    /\ UNCHANGED <<envVars, docVars, bookVars, faults, committed>>
\* An artifact cannot be read at the reconcile gate, while the OK bundle is
\* built, or at the final gate.
GateUnreadable ==
    /\ pc \in {"reconcile", "gate"}
    /\ Spend("read")
    /\ Terminate("CORRUPT_LEDGER", {})
    /\ UNCHANGED <<envVars, docVars, bookVars, committed>>

\* The OK publication: manifest, receipt, gate, log, state, summary.
OkManifest ==
    /\ pc = "okprov"
    /\ Goto("okreceipt")
    /\ prov' = Manifest("OK", mem.doc, mem.st)
    /\ UNCHANGED <<envVars, summary, staged, receipt, bookVars, mem,
                   faults, committed>>
OkReceipt ==
    /\ pc = "okreceipt"
    /\ Goto("gate")
    /\ receipt' = mem.doc
    /\ UNCHANGED <<envVars, summary, staged, prov, bookVars, mem,
                   faults, committed>>
OkGate ==
    /\ pc = "gate"
    /\ IF FinalGate(mem.st, mem.doc) THEN Goto("oklog") /\ UNCHANGED mem
       ELSE Terminate("CORRUPT_LEDGER", {})
    /\ UNCHANGED <<envVars, docVars, bookVars, faults, committed>>
\* The audit log is appended to and never read back, so it is not kept.
OkLog ==
    /\ pc = "oklog"
    /\ Goto("okstate")
    /\ UNCHANGED <<envVars, docVars, bookVars, mem, faults, committed>>
\* Mutant: the state is created once and never replaced.
OkState_CreateOnly ==
    /\ pc = "okstate"
    /\ Goto("oksummary")
    /\ state' = IF state.present THEN state ELSE mem.st
    /\ UNCHANGED <<envVars, docVars, ledger, torn, unended, mem, faults, committed>>
OkState ==
    /\ pc = "okstate"
    /\ Goto("oksummary")
    /\ state' = mem.st
    /\ UNCHANGED <<envVars, docVars, ledger, torn, unended, mem, faults, committed>>
OkSummary ==
    /\ pc = "oksummary"
    /\ Exit
    /\ summary' = mem.doc
    /\ committed' = ledger
    /\ UNCHANGED <<envVars, staged, prov, receipt, bookVars, faults>>

\* _abort, _corrupt and _no_eligible_bars: manifest, log, receipt, summary.
TerminalManifest ==
    /\ pc = "tprov"
    /\ Goto("tlog")
    /\ prov' = Manifest(mem.doc.status, mem.doc, state)
    /\ UNCHANGED <<envVars, summary, staged, receipt, bookVars, mem,
                   faults, committed>>
TerminalLog ==
    /\ pc = "tlog"
    /\ Goto("treceipt")
    /\ UNCHANGED <<envVars, docVars, bookVars, mem, faults, committed>>
TerminalReceipt ==
    /\ pc = "treceipt"
    /\ Goto("tsummary")
    /\ receipt' = mem.doc
    /\ UNCHANGED <<envVars, summary, staged, prov, bookVars, mem,
                   faults, committed>>
TerminalSummary ==
    /\ pc = "tsummary"
    /\ summary' = mem.doc
    /\ IF mem.clean # {} THEN Goto("cleanup") /\ UNCHANGED mem ELSE Exit
    /\ UNCHANGED <<envVars, staged, prov, receipt, bookVars, faults,
                   committed>>

\* The process dies.  An append in progress leaves some first part of its
\* rows, possibly followed by a cut line or short of the last newline only;
\* a cleanup leaves what it had not removed; the other files are replaced
\* atomically.
CutAppend ==
    \E k \in 0..NBars :
        LET part == {e \in Fresh(Current) : e.bar <= k}
        IN  /\ ledger' = [ledger EXCEPT ![Current] = @ \cup part]
            /\ \/ /\ part # Fresh(Current)
                  /\ torn' \in (IF Glued THEN {} ELSE {torn}) \cup {torn \cup {Current}}
                  /\ UNCHANGED unended
               \/ /\ part # {} /\ ~Glued
                  /\ unended' = unended \cup {Current}
                  /\ UNCHANGED torn
Crash ==
    /\ pc # "idle"
    /\ Spend("crash")
    /\ Exit
    /\ \/ UNCHANGED <<ledger, torn, unended, staged>>
       \/ pc = "append" /\ CutAppend /\ UNCHANGED staged
       \/ /\ pc = "cleanup"
          /\ \E removed \in SUBSET mem.clean : staged' = staged \ removed
          /\ UNCHANGED <<ledger, torn, unended>>
    /\ UNCHANGED <<envVars, summary, prov, receipt, state, committed>>

(***************************************************************************)
(* The observer and the market data, between any two steps of the run.     *)
(***************************************************************************)
PublishBar ==
    /\ Len(obs) < NBars /\ nextOpen
    /\ \E r \in Rows : obs' = Append(obs, r)
    /\ nextOpen' = FALSE
    /\ UNCHANGED <<docVars, bookVars, runVars, faults, committed>>
MarketBar ==
    /\ ~nextOpen
    /\ nextOpen' = TRUE
    /\ UNCHANGED <<obs, docVars, bookVars, runVars, faults, committed>>
RecomputeBar ==
    /\ Spend("recompute")
    /\ \E b \in DOMAIN obs, r \in Rows :
         r # obs[b] /\ obs' = [obs EXCEPT ![b] = r]
    /\ UNCHANGED <<nextOpen, docVars, bookVars, runVars, committed>>

(***************************************************************************)
(* Specification.                                                          *)
(***************************************************************************)
\* What the process does when nothing goes wrong.
RunStep ==
    \/ StagePrevious \/ WriteMarker \/ HealthGate \/ Cleanup \/ ReadInputs
    \/ AppendLedger \/ ReconcileGate
    \/ OkManifest \/ OkReceipt \/ OkGate \/ OkLog \/ OkState \/ OkSummary
    \/ TerminalManifest \/ TerminalLog \/ TerminalReceipt \/ TerminalSummary
Fault ==
    \/ ConfigError \/ StagePreviousFails \/ HealthGateUnreadable
    \/ CleanupLeavesOne \/ InputProblem \/ GateUnreadable \/ Crash
Outside == PublishBar \/ MarketBar \/ RecomputeBar

Next == RunStep \/ Fault \/ Outside

Spec == Init /\ [][Next]_vars

\* The timer starts a run whenever none is in progress, and a started run
\* goes on until it ends or dies.  Nothing is assumed of the observer.
FairSpec == Spec /\ WF_vars(RunStep)

(***************************************************************************)
(* Properties.                                                             *)
(***************************************************************************)
BarSet == SUBSET Entry
DocType ==
    [status : Statuses, equity : BarSet, trades : BarSet, entry : 0..NBars]
StateType ==
    [present : BOOLEAN, wm : 0..NBars, entry : 0..NBars, sums : [Summed -> BarSet]]
ManifestType ==
    [status : Statuses, summary : DocType, receipt : DocType, state : StateType]
BookType == [Ledgers -> BarSet]
Labels ==
    {"idle", "marker", "health", "cleanup", "inputs", "append", "reconcile",
     "okprov", "okreceipt", "gate", "oklog", "okstate", "oksummary",
     "tprov", "tlog", "treceipt", "tsummary"}

\* Every file holds a document of its own shape, and the process is at one
\* of the steps of run_once.
TypeOK ==
    /\ obs \in Seq(Rows) /\ Len(obs) <= NBars /\ nextOpen \in BOOLEAN
    /\ summary \in DocType /\ staged \subseteq DocType
    /\ ledger \in BookType /\ torn \subseteq Ledgers /\ unended \subseteq Ledgers
    /\ state \in StateType
    /\ prov \in ManifestType /\ receipt \in DocType
    /\ pc \in Labels
    /\ mem \in [rows : BookType, st : StateType, next : 1..Len(AppendOrder),
                doc : DocType, clean : SUBSET DocType]
    /\ faults \in [DOMAIN NoFaults -> Nat]
    /\ committed \in BookType

\* "In no failure case is a stale/partial/false OK visible": whenever the
\* summary says OK, the ledgers reconcile, the state is in lockstep with
\* them, the manifest pins this summary and this state, the receipt renders
\* this summary, and nothing was written to the ledgers since.
OkIsTrue ==
    summary.status = "OK" =>
        /\ torn = {} /\ Reconciles(ledger)
        /\ state.present /\ InLockstep(ledger, state)
        /\ summary = OkDoc(ledger, state)
        /\ ManifestPins(summary, state)
        /\ receipt = summary
        /\ committed = ledger

\* The watermark is the commit marker of the accounting: at every moment,
\* in the middle of a run, after a crash, with a later batch half written,
\* every bar up to it has all its rows on disk and the accumulators sum rows
\* that are there.
StateIsBacked ==
    /\ \A b \in 1..state.wm :
         \A f \in {"snapshots", "positions", "equity"} : b \in BarsIn(ledger[f])
    /\ \A f \in Summed : state.sums[f] \subseteq ledger[f]

\* However often runs die in the middle of an append and the observer
\* rewrites published bars in between, the ledgers never hold two versions
\* of a bar: each row was computed from the source row that is frozen.
OneSourcePerBar ==
    /\ Unique(ledger)
    /\ \A f \in Ledgers : ledger[f] \subseteq ledger["snapshots"]

\* run_once implements the commit marker: a run withdraws OK before it
\* touches anything the OK attested, and OKs only grow.
Commit == INSTANCE OkCommit WITH
    Item  <- Ledgers \X Entry,
    shown <- summary.status = "OK",
    book  <- {i \in Ledgers \X Entry : i[2] \in committed[i[1]]}
ImplementsOkCommit == Commit!Spec

\* Whatever finitely many crashes, unreadable files, staged summaries left
\* behind and stopped runs happened, a lane whose ledgers stay whole and
\* whose inputs stay consistent comes back to OK by itself, again and again.
ComesBackToOk ==
    <>[](obs # <<>> /\ torn = {} /\ Reconciles(ledger) /\ ~Diverged)
        => []<>(summary.status = "OK")

\* The comment on the commit order: "a crash before the state write leaves
\* the watermark un-advanced, so the next run reprocesses the bar and
\* idempotently completes any half-written ledger".  If so, a process death
\* alone never makes a later run report CORRUPT_LEDGER.
CrashIsCompleted == summary.status # "CORRUPT_LEDGER"
=============================================================================
