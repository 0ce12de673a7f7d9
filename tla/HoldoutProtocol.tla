-------------------------- MODULE HoldoutProtocol ---------------------------
(***************************************************************************)
(* The protocol slice of the offline-edge validation,                       *)
(* quantbot/experiment/offline_edge_real_validation.py                      *)
(* build_protocol_computed_validation_slice: a run fingerprints the data    *)
(* directories, audits the train/holdout split, seals the quarantined rows, *)
(* locks the execution packet, evaluates the structural gate and scores the *)
(* train partition.  It writes a receipt and nothing else.  An operator      *)
(* copies what receipts report into the trial registry, and the next run    *)
(* compares with it.                                                       *)
(*                                                                         *)
(* A run reads the data directories seven times, and they may be refreshed  *)
(* in between.                                                             *)
(*                                                                         *)
(* Abstractions.  A fingerprint is what it is taken of.  Each role is one   *)
(* file.  The registry is the entry in force, which is the first one of the *)
(* candidate family; a later entry only changes the trial count.  Names of  *)
(* families, rules, policies and versions are constants of the code and are *)
(* left out where they can only be equal.  Optional values are sets of at    *)
(* most one element.                                                       *)
(***************************************************************************)
EXTENDS TrainStatistic

CONSTANTS
    InitialBars, InitialFunding,
    Invocations,    \* the runs' arguments: [split: [boundary, purge, embargo],
                    \* commit, roles: {"bars"} or both]
    Closes, Rates,  \* what a refresh may put in a row
    BarsAt, FundingAt, \* the rows a refresh may revise
    MaxEdits        \* bound: refreshes of the data

BothRoles == {"bars", "funding"}

\* There are bars before anything runs, a close and a rate are numbers of units,
\* and a command line gives whole numbers.
ASSUME DataAssumption ==
    /\ InitialBars \in Seq([t : Nat, v : Closes]) /\ InitialBars # <<>>
    /\ InitialFunding \in Seq([t : Nat, v : Rates])
    /\ Closes \subseteq Int /\ Rates \subseteq Int
    /\ MaxEdits \in Nat
ASSUME InvocationsAssumption ==
    \A args \in Invocations :
        /\ args.split \in [boundary : Int, purge : Int, embargo : Int]
        /\ args.roles \in {{"bars"}, BothRoles}

VARIABLES
    bars, funding,  \* the data directories
    entry,          \* the registry entry in force
    archive,        \* the receipt the decomposition is registered against
    run,            \* the run under way
    receipt,        \* the last receipt
    decomposition,  \* the last decomposition
    edits           \* how much of MaxEdits is spent

dataVars == <<bars, funding, edits>>
vars == <<dataVars, entry, archive, run, receipt, decomposition>>

Idle == [pc |-> "idle"]
Unregistered ==
    [cut |-> {}, split |-> {}, policy |-> {}, statistic |-> {}, seal |-> {}, packet |-> {}, gate |-> {}]

Init ==
    /\ bars = InitialBars /\ funding = InitialFunding /\ edits = 0
    /\ entry = Unregistered
    /\ archive = {} /\ run = Idle /\ receipt = {} /\ decomposition = {}

\* _data_cut_fingerprint over the files of the roles that were given.
CutOf(b, f, roles) == [bars |-> b, funding |-> IF "funding" \in roles THEN f ELSE <<>>]

-----------------------------------------------------------------------------
(* The split audit reads the times of the bars, in file order.              *)

TrainCount(split) == split.boundary - split.purge
HoldoutCount(rows, split) == rows - split.boundary - split.embargo

\* Every partition has rows, and the purge and the embargo are as long as declared.
PartitionOK(rows, split) ==
    /\ split.purge >= 1 /\ split.embargo >= 1
    /\ split.boundary \in 1..(rows - 1)
    /\ TrainCount(split) >= 1
    /\ HoldoutCount(rows, split) >= 1

Audit(b, split, declared) ==
    [passed  |-> declared = {split} /\ Increasing(b) /\ PartitionOK(Len(b), split),
     rows    |-> Len(b),
     holdout |-> HoldoutCount(Len(b), split)]

-----------------------------------------------------------------------------
(* The seal hashes the raw rows of the quarantine: the bars behind the       *)
(* embargo, and the funding between the first and the last of them.         *)

QuarantineStart(split) == split.boundary + split.embargo
SpanResolved(lines, split, audit) ==
    /\ Len(lines) = audit.rows
    /\ QuarantineStart(split) <= Len(lines)
    /\ Len(lines) - QuarantineStart(split) = audit.holdout

\* Mutant: the embargoed rows are sealed too.
BarsFromBoundary(b, split) == SubSeq(b, split.boundary + 1, Len(b))
BarsFrom(b, split) == SubSeq(b, QuarantineStart(split) + 1, Len(b))
\* The rows of some indices in their order, which is what SelectSeq selects;
\* with the indices in sight a proof can tell what is selected.
RankIn(indices, i) == Cardinality({j \in indices : j <= i})
RowsOf(rows, indices) ==
    [n \in 1..Cardinality(indices) |-> rows[CHOOSE i \in indices : RankIn(indices, i) = n]]
RowsWithin(rows, from, to) ==
    RowsOf(rows, {i \in DOMAIN rows : from <= rows[i].t /\ rows[i].t <= to})
ProjectedWindow(b, f, split) ==
    RowsWithin(f, At(b, QuarantineStart(split)).t, b[Len(b)].t)

Projectable(lines, b, f) ==
    Increasing(b) /\ Increasing(f) /\ Len(b) = Len(lines) /\ f # <<>>

\* What the seal is over, when the reads of it agree.
Sealable(split, audit, lines, b, f, roles) ==
    IF ~audit.passed \/ ~SpanResolved(lines, split, audit) THEN {}
    ELSE IF "funding" \notin roles
         THEN {[roles |-> roles, split |-> split, bars |-> BarsFrom(lines, split), funding |-> <<>>]}
    ELSE IF ~Projectable(lines, b, f) THEN {}
    ELSE {[roles |-> roles, split |-> split,
           bars |-> BarsFrom(b, split), funding |-> ProjectedWindow(b, f, split)]}

\* Mutant: a state the code never reports.
SealStateChanged(rows, declared) ==
    IF rows = declared THEN "sealed" ELSE "changed"
\* A declaration of other roles or of another split is never compared.
SealState(rows, declared) ==
    IF rows = {} \/ declared = {} THEN "not_sealed"
    ELSE LET now == CHOOSE r \in rows : TRUE
             was == CHOOSE d \in declared : TRUE
         IN IF was.roles # now.roles \/ was.split # now.split THEN "not_sealed"
            ELSE IF was = now THEN "sealed" ELSE "mismatch"

-----------------------------------------------------------------------------
(* The packet binds the cut, the declared split, the seal and the commit.    *)

PacketOf(cut, declaredSplit, seal, commit) ==
    [cut |-> cut, split |-> declaredSplit, seal |-> seal, commit |-> commit]
PacketCandidate(audit, sealState, seal, cut, declaredSplit, commit) ==
    {PacketOf(cut, declaredSplit, rows, commit) :
        rows \in {r \in seal : audit.passed /\ sealState = "sealed"}}
\* Mutant: a declaration of any packet locks it.
PacketDeclared(candidate, declared) ==
    IF candidate = {} \/ declared = {} THEN "not_locked" ELSE "locked"
PacketState(candidate, declared) ==
    IF candidate = {} \/ declared = {} THEN "not_locked"
    ELSE IF declared = candidate THEN "locked" ELSE "mismatch"

-----------------------------------------------------------------------------
(* The structural gate over audit, seal and packet.                         *)

\* Reason codes of the prerequisites; a seal or a packet that is not in its
\* good state is also killed.
PrerequisiteReasons(audit, sealState, packetState) ==
    (IF audit.passed THEN {} ELSE {"leakage_audit_not_passed", "leakage_audit_killed"}) \cup
    (IF sealState = "sealed" THEN {} ELSE {"holdout_not_sealed", "holdout_seal_killed"}) \cup
    (IF packetState = "locked" THEN {} ELSE {"packet_not_locked", "packet_lock_killed"}) \cup
    (IF packetState = "mismatch" THEN {"stale_constituent_reference"} ELSE {})

\* The cut is the fourth prerequisite.
PrerequisiteCount(audit, sealState, packetState) ==
    1 + Cardinality({n \in 1..3 :
            <<audit.passed, sealState = "sealed", packetState = "locked">>[n]})

\* The fingerprint leaves out what depends on the declaration it is kept in.
GateFingerprint(candidate, packetState, prerequisites) ==
    {[packet |-> p, state |-> packetState, reasons |-> prerequisites] : p \in candidate}

\* What a comparison with the declaration adds to the reasons.
DeclarationReasons(fingerprint, declared) ==
    (IF declared = {} THEN {"holdout_open_gate_declaration_missing"} ELSE {}) \cup
    (IF \E d \in declared : d.fingerprint = {} THEN {"gate_fingerprint_missing"} ELSE {}) \cup
    (IF \E d \in declared : fingerprint # {} /\ d.fingerprint \notin {{}, fingerprint}
     THEN {"gate_fingerprint_mismatch"} ELSE {})

\* A matching fingerprint is not enough: the declaration must also have
\* recorded the outcome this run comes to.
\* Mutant: the recorded outcome counts among the prerequisites, so that it
\* has to be recorded before it can be reached.
GateNeedsItsRecord(audit, sealState, packetState, candidate, declared) ==
    LET passed == \E d \in declared : d.state = "gate_passed" /\ d.count = 5
        reasons == PrerequisiteReasons(audit, sealState, packetState)
    IN [fingerprint |-> GateFingerprint(candidate, packetState, reasons), count |-> 4,
        state |-> IF reasons = {} /\ passed THEN "gate_passed" ELSE "blocked", reasons |-> reasons]
Gate(audit, sealState, packetState, candidate, declared) ==
    LET prerequisites == PrerequisiteReasons(audit, sealState, packetState)
        fingerprint == GateFingerprint(candidate, packetState, prerequisites)
        compared == \E d \in declared : d.fingerprint # {} /\ d.fingerprint = fingerprint
        reasons == prerequisites \cup DeclarationReasons(fingerprint, declared)
        count == PrerequisiteCount(audit, sealState, packetState)
        state == IF prerequisites = {} /\ compared THEN "gate_passed"
                 ELSE IF {"stale_constituent_reference", "gate_fingerprint_mismatch"} \cap reasons # {}
                      THEN "mismatch" ELSE "blocked"
        stale == compared /\ \E d \in declared :
                     d.state # state \/ d.count # count \/ d.reasons # reasons
    IN [fingerprint |-> fingerprint, count |-> count,
        state   |-> IF stale THEN "mismatch" ELSE state,
        reasons |-> reasons \cup (IF stale THEN {"holdout_open_gate_declaration_stale"} ELSE {})]

\* build_partition_use_policy_v0: metadata of the entry alone.
PolicyState(e) == IF e.policy # {} /\ e.policy = e.cut THEN "quarantine_only" ELSE "blocked"

-----------------------------------------------------------------------------
(* One run of the slice.                                                    *)

\* The cut and the registry are read first; nothing of the entry is read again.
Start(args) ==
    /\ run.pc = "idle"
    /\ run' = [pc |-> "audit", split |-> args.split, commit |-> args.commit, roles |-> args.roles,
               cut |-> CutOf(bars, funding, args.roles), entry |-> entry, touched |-> {}]
    /\ UNCHANGED <<dataVars, entry, archive, receipt, decomposition>>

Step(label, read) == run' = [f \in (DOMAIN run) \cup (DOMAIN read) |->
                               IF f = "pc" THEN label
                               ELSE IF f \in DOMAIN read THEN read[f] ELSE run[f]]
RunUnchanged == UNCHANGED <<dataVars, entry, archive, receipt, decomposition>>

ReadTimestamps ==
    /\ run.pc = "audit"
    /\ Step("lines", [audit |-> Audit(bars, run.split, run.entry.split)])
    /\ RunUnchanged
ReadLines ==
    /\ run.pc = "lines"
    /\ Step("projection", [lines |-> bars])
    /\ RunUnchanged
ReadProjectedBars ==
    /\ run.pc = "projection"
    /\ Step("seal", [rows |-> bars])
    /\ RunUnchanged
ReadProjectedFunding ==
    /\ run.pc = "seal"
    /\ Step("compare", [seal |-> Sealable(run.split, run.audit, run.lines, run.rows, funding, run.roles)])
    /\ RunUnchanged
\* What is compared with the registry from here on is not read again.
CompareSeal ==
    /\ run.pc = "compare"
    /\ Step("lock", [sealState |-> SealState(run.seal, run.entry.seal)])
    /\ RunUnchanged
LockPacket ==
    /\ run.pc = "lock"
    /\ Step("gate", [packet |-> PacketCandidate(run.audit, run.sealState, run.seal, run.cut,
                                                run.entry.split, run.commit)])
    /\ RunUnchanged
PacketLock == PacketState(run.packet, run.entry.packet)
EvaluateGate ==
    /\ run.pc = "gate"
    /\ Step("bind", [gate |-> Gate(run.audit, run.sealState, PacketLock, run.packet, run.entry.gate)])
    /\ RunUnchanged

\* The statistic heeds the audit and its own declaration, not the seal, the
\* packet or the gate: it never reads the holdout as data.
ScoringError ==
    IF run.entry.statistic = {} THEN "first_computed_statistic_declaration_missing"
    ELSE IF run.roles # BothRoles THEN "source_directory_missing"
    ELSE IF run.entry.statistic # {CutOf(bars, funding, BothRoles)} THEN "data_cut_fingerprint_mismatch"
    ELSE IF ~run.audit.passed THEN "split_audit_not_clean"
    ELSE IF run.split.purge # Purge \/ run.split.embargo # Embargo THEN "split_purge_embargo_mismatch"
    ELSE "none"
Bind ==
    /\ run.pc = "bind"
    /\ Step(IF ScoringError = "none" THEN "train" ELSE "report", [error |-> ScoringError])
    /\ RunUnchanged
ReadTrain ==
    /\ run.pc = "train"
    /\ Step("rates", [train |-> TrainBars(bars, run.split.boundary)])
    /\ RunUnchanged

Killed ==
    \/ run.entry.cut # {run.cut}
    \/ ~run.audit.passed \/ run.sealState # "sealed" \/ PacketLock # "locked"
    \/ run.gate.state # "gate_passed"

ReadRates ==
    /\ run.pc = "rates"
    /\ Step("report", [rates |-> IF run.train = <<>> THEN <<>> ELSE TrainFunding(funding, run.train)])
    /\ RunUnchanged

Report ==
    /\ run.pc = "report"
    /\ receipt' =
          {[split |-> run.split, commit |-> run.commit, roles |-> run.roles, cut |-> run.cut,
            audited |-> run.audit.passed,
            seal |-> run.seal, sealState |-> run.sealState,
            packet |-> run.packet, packetState |-> PacketLock,
            gate |-> run.gate, policy |-> PolicyState(run.entry), killed |-> Killed,
            statistic |-> IF run.error # "none" THEN Unscored("blocked", run.error)
                          ELSE Score(run.train, run.rates, run.split.boundary),
            entry |-> run.entry, touched |-> run.touched]}
    /\ run' = Idle
    /\ UNCHANGED <<dataVars, entry, archive, decomposition>>

-----------------------------------------------------------------------------
(* The decomposition of an archived train score.  Nothing in the code calls  *)
(* it or advances its execution count: a caller passes the split audit, and *)
(* the count is one of the registry's fields.                               *)

\* The operator archives a receipt once and registers the decomposition on it.
Archive ==
    /\ archive = {}
    /\ \E r \in receipt :
          /\ r.statistic.state = "computed" /\ r.gate.state = "gate_passed"
          /\ archive' = {[source |-> r, spent |-> FALSE]}
    /\ UNCHANGED <<dataVars, entry, run, receipt, decomposition>>
RecordExecution ==
    /\ \E a \in archive, d \in decomposition :
          ~a.spent /\ d.state = "computed" /\ archive' = {[a EXCEPT !.spent = TRUE]}
    /\ UNCHANGED <<dataVars, entry, run, receipt, decomposition>>

\* What the archived receipt must show, and the data and the split be again.
SourceStates(source) ==
    /\ source.statistic.state = "computed"
    /\ source.sealState = "sealed" /\ source.roles = BothRoles
    /\ source.packetState = "locked" /\ source.gate.state = "gate_passed"
    /\ source.policy = "quarantine_only"
ContractHolds(a, audit) ==
    /\ ~a.spent
    /\ SourceStates(a.source)
    /\ a.source.cut = CutOf(bars, funding, BothRoles)
    /\ audit.passed
    /\ a.source.split.purge = Purge /\ a.source.split.embargo = Embargo

StartDecomposition ==
    /\ run.pc = "idle"
    /\ \E a \in archive :
          run' = [pc |-> "contract", touched |-> {}, split |-> a.source.split,
                  archived |-> a, audit |-> Audit(bars, a.source.split, {a.source.split})]
    /\ UNCHANGED <<dataVars, entry, archive, receipt, decomposition>>
CheckContract ==
    /\ run.pc = "contract"
    /\ IF ContractHolds(run.archived, run.audit)
       THEN Step("slots", [touched |-> run.touched]) /\ UNCHANGED decomposition
       ELSE run' = Idle /\ decomposition' = {Blocked({"contract"})}
    /\ UNCHANGED <<dataVars, entry, archive, receipt>>
ReadSlotBars ==
    /\ run.pc = "slots"
    /\ Step("components", [train |-> TrainBars(bars, run.split.boundary)])
    /\ RunUnchanged
ReadSlotRates ==
    /\ run.pc = "components"
    /\ Step("slotted", [rates |-> TrainFunding(funding, run.train)])
    /\ RunUnchanged
MaterializeSlots ==
    /\ run.pc = "slotted"
    /\ Step("decompose", [slots |-> Materialized(run.train, run.rates, run.split.boundary)])
    /\ RunUnchanged
PublishDecomposition ==
    /\ run.pc = "decompose"
    /\ decomposition' = {Decompose(run.rates, run.slots, run.archived.source.statistic)}
    /\ run' = Idle
    /\ UNCHANGED <<dataVars, entry, archive, receipt>>

-----------------------------------------------------------------------------
(* The operator, who acts between the runs: a run reads the registry once.   *)

Copy(field, value) ==
    /\ run.pc = "idle"
    /\ entry[field] # value
    /\ entry' = [entry EXCEPT ![field] = value]
    /\ UNCHANGED <<dataVars, archive, run, receipt, decomposition>>

\* A trial is registered for the cut and the split of a receipt, with its
\* statistic and its partition policy.
RegisterTrial ==
    \E r \in receipt :
        /\ run.pc = "idle"
        /\ {r.cut} # entry.cut \/ {r.split} # entry.split
        /\ entry' = [entry EXCEPT !.cut = {r.cut}, !.split = {r.split},
                                  !.policy = {r.cut}, !.statistic = {r.cut}]
        /\ UNCHANGED <<dataVars, archive, run, receipt, decomposition>>
RegisterSeal ==
    \E r \in receipt : r.seal # {} /\ r.sealState # "sealed" /\ Copy("seal", r.seal)
RegisterPacket ==
    \E r \in receipt : r.packet # {} /\ r.packetState # "locked" /\ Copy("packet", r.packet)

\* The gate is registered with the fingerprint of the receipt and the outcome
\* that is expected of the next run.
GateDeclaration(gate) ==
    [fingerprint |-> gate.fingerprint, state |-> "gate_passed", count |-> 4, reasons |-> {}]
RegisterGate ==
    \E r \in receipt :
        /\ r.packetState = "locked" /\ r.gate.state # "gate_passed"
        /\ Copy("gate", {GateDeclaration(r.gate)})

-----------------------------------------------------------------------------
(* Refreshes of the data directories.                                       *)

\* Which rows the scored slots can touch: up to the last bar before the purge.
PartOf(t) ==
    IF run.pc = "idle" THEN {}
    ELSE LET last == TrainCount(run.split) IN
         IF last \in DOMAIN bars /\ t <= bars[last].t THEN {"train"}
         ELSE IF QuarantineStart(run.split) < Len(bars) /\ t < At(bars, QuarantineStart(run.split)).t
              THEN {"gap"} ELSE {"quarantine"}
Refresh(t) ==
    /\ edits < MaxEdits /\ edits' = edits + 1
    /\ run' = IF run.pc = "idle" THEN run ELSE [run EXCEPT !.touched = @ \cup PartOf(t)]
    /\ UNCHANGED <<entry, archive, receipt, decomposition>>

ReviseBar ==
    \E i \in BarsAt \cap DOMAIN bars, v \in Closes :
        /\ v # bars[i].v
        /\ bars' = [bars EXCEPT ![i].v = v]
        /\ Refresh(bars[i].t)
        /\ UNCHANGED funding
ReviseFunding ==
    \E i \in FundingAt \cap DOMAIN funding, v \in Rates :
        /\ v # funding[i].v
        /\ funding' = [funding EXCEPT ![i].v = v]
        /\ Refresh(funding[i].t)
        /\ UNCHANGED bars
\* A bar is appended, in its place or, badly, with the time of the last one.
AppendBar ==
    \E t \in {bars[Len(bars)].t, bars[Len(bars)].t + Hour} :
        /\ bars' = Append(bars, [t |-> t, v |-> bars[Len(bars)].v])
        /\ Refresh(t)
        /\ UNCHANGED funding

-----------------------------------------------------------------------------
RunStep ==
    \/ ReadTimestamps \/ ReadLines \/ ReadProjectedBars \/ ReadProjectedFunding
    \/ CompareSeal \/ LockPacket \/ EvaluateGate \/ Bind \/ ReadTrain \/ ReadRates \/ Report
    \/ CheckContract \/ ReadSlotBars \/ ReadSlotRates \/ MaterializeSlots \/ PublishDecomposition
Command == \E args \in Invocations : Start(args)

Register == RegisterTrial \/ RegisterSeal \/ RegisterPacket \/ RegisterGate

Next ==
    \/ Command \/ RunStep \/ StartDecomposition
    \/ Archive \/ RecordExecution
    \/ Register
    \/ ReviseBar \/ ReviseFunding \/ AppendBar

\* A run that was started ends; the operator keeps running the slice, and
\* keeps registering what its receipts ask for.
Fairness == WF_vars(RunStep) /\ SF_vars(Command) /\ SF_vars(Register)
Spec == Init /\ [][Next]_vars
FairSpec == Spec /\ Fairness

-----------------------------------------------------------------------------
(* Properties.                                                              *)

\* The quarantine, said by times: the bars from the embargo's end, and the
\* funding from the first of them to the last.
QuarantineOf(cut, split, roles) ==
    LET opening == cut.bars[split.boundary + split.embargo + 1].t
        closing == cut.bars[Len(cut.bars)].t
    IN [roles |-> roles, split |-> split,
        bars |-> RowsWithin(cut.bars, opening, closing),
        funding |-> RowsWithin(cut.funding, opening, closing)]

TypeOK ==
    /\ edits \in 0..MaxEdits
    /\ \A row \in {bars[i] : i \in DOMAIN bars} : row.v \in Closes /\ row.t \in Nat
    /\ \A row \in {funding[i] : i \in DOMAIN funding} : row.v \in Rates /\ row.t \in Nat
    /\ run.pc \in {"idle", "audit", "lines", "projection", "seal", "compare", "lock", "gate", "bind", "train", "rates", "report",
                   "contract", "slots", "components", "slotted", "decompose"}
    /\ \A f \in DOMAIN entry : Cardinality(entry[f]) <= 1
    /\ \A r \in receipt :
          /\ r.sealState \in {"not_sealed", "sealed", "mismatch"}
          /\ r.packetState \in {"not_locked", "locked", "mismatch"}
          /\ r.gate.state \in {"blocked", "gate_passed", "mismatch"}

\* A gate that passes says of the registered packet that it is this cut, this
\* split, this commit and these quarantined rows, unless one of those was
\* replaced during the run.
PassIsTrue ==
    \A r \in receipt :
        r.gate.state = "gate_passed" /\ "quarantine" \notin r.touched =>
            r.entry.packet = {PacketOf(r.cut, {r.split}, QuarantineOf(r.cut, r.split, r.roles), r.commit)}

\* The seal tells exactly whether the registered rows are the quarantined ones:
\* a change elsewhere never breaks it, a change among them always does.
SealTellsTheQuarantine ==
    \A r \in receipt :
        (r.audited /\ r.touched \cap {"quarantine"} = {} /\ r.seal # {}) =>
            (r.sealState = "sealed" <=> r.entry.seal = {QuarantineOf(r.cut, r.split, r.roles)})

\* The score is that of the declared cut with the closes of the purged bars and
\* the funding behind them taken out, unless a row before the purge was replaced
\* while the run read it.
ScoreIsOfTheTrainRows ==
    \A r \in receipt :
        (r.statistic.state = "computed" /\ "train" \notin r.touched) =>
            \A cut \in r.entry.statistic :
                LET last == TrainCount(r.split)
                    train == TrainBars(cut.bars, r.split.boundary)
                    closes == [i \in DOMAIN train |-> IF i <= last THEN train[i]
                                                     ELSE [train[i] EXCEPT !.v = 0]]
                    s == Score(closes, FundingBefore(cut.funding, cut.bars[last].t + 1), r.split.boundary)
                IN r.statistic.total = s.total /\ r.statistic.scored = s.scored

\* A decomposition that is published adds up to the archived score, and leaves
\* nothing between the sides it reports.
DecompositionIsOfTheArchive ==
    \A d \in decomposition, a \in archive :
        d.state = "computed" =>
            /\ NetOf(d.relative) = a.source.statistic.total
            /\ NetOf(d.candidate) - NetOf(d.null) = a.source.statistic.total
            /\ d.scored = a.source.statistic.scored
            /\ d.long + d.short = - 2 * Cost * d.active

\* Once the data stays and one command is repeated, registering what the
\* receipts report leads to a receipt whose gate passes.
Repeating(args) ==
    run.pc \in {"audit", "lines", "projection", "seal", "compare", "lock", "gate", "bind", "train", "rates", "report"} =>
        args = [split |-> run.split, commit |-> run.commit, roles |-> run.roles]
Passed == \E r \in receipt : r.gate.state = "gate_passed"
RegisteringLeadsToAPass ==
    \A args \in Invocations : <>[]Repeating(args) => <>(Passed \/ ~Increasing(bars))
=============================================================================
