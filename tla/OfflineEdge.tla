---------------------------- MODULE OfflineEdge -----------------------------
(***************************************************************************)
(* A run of the offline-edge validation over bars and funding on disk and     *)
(* the seven pre-registration packets, up to the receipt it writes.         *)
(* quantbot/experiment/offline_edge_real_validation.py, main                *)
(*                                                                         *)
(* The files belong to others: a refresh job replaces data, the author       *)
(* amends, re-freezes and re-binds packets.  A run reads every data file      *)
(* once for each of its passes, and each packet once.                        *)
(*                                                                         *)
(* Abstractions.  A pass takes the digests of all its files in one step and   *)
(* opens all of them in a second one; the code goes file by file.  What is    *)
(* computed between two reads is one step.  No file is removed during a run.  *)
(***************************************************************************)
EXTENDS RunnerGates, PreregistrationChain

CONSTANTS
    Symbols,               \* a fixed tuple of them in the code
    Invocations,           \* [given, bound, funding, declared, refused] of a command line
    Starts,                \* [data, json, sidecar, binding, commits] before anything runs,
                           \* with the numbers of refreshes and writes to come: bounds
    Refreshes(_, _),       \* the files that may come to replace one of a role and symbol
    Drafts(_, _, _),       \* the packets the author may write under a name
    MaxRuns                \* bound

VARIABLES
    data,       \* role -> symbol -> file
    json, sidecar, binding, commits,    \* of the packets; see PreregistrationChain
    run,        \* what the process has in memory
    receipt,    \* the receipt file, a set of at most one [whole, doc]
    refreshes, writes, runs   \* still to come

\* What is there before anything runs: a file for every role and symbol, a set
\* of at most one packet under every name, and the commits in their order.
ASSUME StartsAssumption ==
    \A s \in Starts :
        /\ s.data = [role \in Roles |-> [y \in Symbols |-> s.data[role][y]]]
        /\ \A role \in Roles, y \in Symbols : IsFile(s.data[role][y])
        /\ s.json = [p \in Packets |-> s.json[p]]
        /\ \A p \in Packets : \A c, other \in s.json[p] : IsPacket(p, c) /\ c = other
        /\ s.commits \in Seq(Nat) /\ s.refreshes \in Nat /\ s.writes \in Nat
ASSUME RefreshesAssumption ==
    \A role \in Roles, s \in Symbols : \A file \in Refreshes(role, s) : IsFile(file)
ASSUME SymbolsAssumption == IsFiniteSet(Symbols)
ASSUME MaxRunsAssumption == MaxRuns \in Nat

files == <<data, json, sidecar, binding, commits>>
vars == <<data, json, sidecar, binding, commits, run, receipt, refreshes, writes, runs>>

\* One entry, and the entries of new over those of old: TLC's :> and @@ under
\* names that a proof can expand.
Entry(key, value) == [k \in {key} |-> value]
Over(new, old) ==
    [k \in DOMAIN new \cup DOMAIN old |-> IF k \in DOMAIN new THEN new[k] ELSE old[k]]
NoSection == [section \in {} |-> {}]

NoInventory == [role \in {} |-> {}]
NoRun == [pc |-> "idle", args |-> {}, at |-> 0, hashed |-> {}, inventory |-> NoInventory,
          windows |-> <<>>, seen |-> [p \in {} |-> Absent], gates |-> [s \in {} |-> {}],
          doc |-> NoSection, torn |-> FALSE, exit |-> 0]
Args == CHOOSE args \in run.args : TRUE

Init ==
    /\ \E s \in Starts :
          /\ data = s.data /\ json = s.json /\ sidecar = s.sidecar
          /\ binding = s.binding /\ commits = s.commits
          /\ refreshes = s.refreshes /\ writes = s.writes
    /\ run = NoRun
    /\ receipt = {}
    /\ runs = MaxRuns

-----------------------------------------------------------------------------
(* The others.                                                              *)

Refresh ==
    /\ refreshes > 0 /\ refreshes' = refreshes - 1
    /\ \E role \in Roles, s \in Symbols : \E file \in Refreshes(role, s) :
          data' = [data EXCEPT ![role][s] = file]
    /\ UNCHANGED <<json, sidecar, binding, commits, run, receipt, writes, runs>>

Write == writes > 0 /\ writes' = writes - 1 /\ UNCHANGED <<run, receipt, refreshes, runs>>

\* A new packet has a digest no packet had, and its sidecar is behind.
Amend ==
    /\ Write
    /\ \E p \in Packets : \E c \in Drafts(p, json, 100 + writes) :
          /\ IsPacket(p, c) /\ c.digest = 100 + writes
          /\ json' = [json EXCEPT ![p] = {c}]
    /\ UNCHANGED <<data, sidecar, binding, commits>>

Refreeze ==
    /\ Write
    /\ \E p \in Packets : sidecar' = [sidecar EXCEPT ![p] = {c.digest : c \in json[p]}]
    /\ sidecar' # sidecar
    /\ UNCHANGED <<data, json, binding, commits>>

\* The contract is committed and the binding names the commit, in one command.
Rebind ==
    /\ Write
    /\ \E c \in json["contract"] :
          /\ commits' = Append(commits, c.digest)
          /\ binding' = {[digest |-> c.digest, commit |-> Len(commits) + 1]}
    /\ UNCHANGED <<data, json, sidecar>>

-----------------------------------------------------------------------------
(* The beginning of a run, and its end without a receipt.                    *)

\* A refused directory ends it with 3; a receipt is left as it is.
Refuse(args) == args.refused /\ run' = [NoRun EXCEPT !.exit = 3]
\* Without data it needs the bounds of the time declared.
Undeclared(args) ==
    /\ ~args.refused /\ args.funding = {} /\ args.declared = {}
    /\ run' = [NoRun EXCEPT !.exit = 5]
FromDeclared(args) ==
    /\ ~args.refused /\ args.funding = {}
    /\ \E d \in args.declared :
          LET windows == FallbackWindows(d.from, d.to)
          IN run' = [NoRun EXCEPT !.pc = "packets", !.args = {args}, !.at = 1,
                       !.windows = windows,
                       !.doc = Entry("leakage", SplitLeakage(windows))]
FromData(args) ==
    /\ ~args.refused /\ args.funding # {}
    /\ run' = [NoRun EXCEPT !.pc = "inventory", !.args = {args}]
Start ==
    /\ run.pc = "idle" /\ runs > 0 /\ runs' = runs - 1
    /\ \E args \in Invocations :
          Refuse(args) \/ Undeclared(args) \/ FromDeclared(args) \/ FromData(args)
    /\ UNCHANGED <<files, receipt, refreshes, writes>>

\* A ValueError on the way ends it with 4.
Failed == run' = [NoRun EXCEPT !.exit = 4]
\* Killed: nothing is left but the files.
Crash ==
    /\ run.pc # "idle"
    /\ run' = [NoRun EXCEPT !.exit = 9]
    /\ UNCHANGED <<files, receipt, refreshes, writes, runs>>

-----------------------------------------------------------------------------
(* Passes over the data.                                                    *)

WithFunding == TRUE \in Args.funding
DataRoles == IF WithFunding THEN Roles ELSE {"bars"}
HasData == run.inventory # NoInventory
Given == [role \in DataRoles |-> data[role]]
Passes == {"inventory", "rows", "adjustments", "joinability", "convention", "canonicalization",
           "scaffold", "temporal", "joins", "rule_rows"}

\* What a pass asks of the digests before it opens a file; two passes do not
\* insist, and find their files not to load.
HashesHold(pass, hashed) ==
    CASE pass \in {"inventory", "joins", "rule_rows"} -> TRUE
      [] pass = "adjustments" -> Unchanged(run.inventory, hashed, DOMAIN run.inventory \cap {"funding"})
      [] pass = "scaffold" -> HashesOfEligible(run.doc["readiness"], run.inventory, hashed)
      [] OTHER -> Unchanged(run.inventory, hashed, DOMAIN run.inventory)
TakeHashes ==
    /\ run.pc \in Passes /\ run.hashed = {} /\ (run.pc = "inventory" \/ HasData)
    /\ IF HashesHold(run.pc, Given) THEN run' = [run EXCEPT !.hashed = {Given}] ELSE Failed
    /\ UNCHANGED <<files, receipt, refreshes, writes, runs>>

\* Opens the files, goes on to the next pass with what the sections say, or fails.
Opens(pass, reads, next, sections) ==
    /\ run.pc = pass /\ run.hashed # {}
    /\ IF reads
       THEN run' = [run EXCEPT !.pc = next, !.hashed = {}, !.doc = Over(sections, run.doc),
                      !.torn = run.torn \/ run.hashed # {Given}]
       ELSE Failed
    /\ UNCHANGED <<files, receipt, refreshes, writes, runs>>

TakeInventory ==
    /\ run.pc = "inventory" /\ run.hashed # {}
    /\ LET hashed == CHOOSE h \in run.hashed : TRUE
           inventory == Inventory(hashed, Given)
       IN IF InventoryReads(Given) /\ HasBounds(inventory)
          THEN run' = [run EXCEPT !.pc = "rows", !.hashed = {}, !.inventory = inventory,
                         !.windows = Windows(inventory), !.torn = run.hashed # {Given}]
          ELSE Failed
    /\ UNCHANGED <<files, receipt, refreshes, writes, runs>>

AssignRows ==
    Opens("rows",
          \A role \in DOMAIN Given : \A s \in DOMAIN Given[role] :
              RowsRead(run.inventory[role][s], Given[role][s]),
          "adjustments", Entry("rows", RowMaterialization(run.windows, Given)))

Adjust ==
    /\ run.pc = "adjustments" /\ WithFunding
    /\ Opens("adjustments",
          \A s \in Symbols : AdjustmentReads(run.inventory["funding"][s], Given["funding"][s]),
          "joinability",
          Entry("alignment", Alignment(run.doc["rows"], FundingAdjustments(run.windows, Given))))
\* Without funding the diagnostics of the join are left out.
LeaveFundingOut ==
    /\ run.pc = "adjustments" /\ ~WithFunding /\ run.hashed # {}
    /\ run' = [run EXCEPT !.pc = "leakage", !.hashed = {}]
    /\ UNCHANGED <<files, receipt, refreshes, writes, runs>>

JoinsAt(pass, next, section) ==
    Opens(pass, Loads(run.inventory, CHOOSE h \in run.hashed : TRUE, Given), next, section)
DiagnoseJoinability ==
    JoinsAt("joinability", "convention", Entry("joinability", Joinability(run.windows, Given)))
DiagnoseConvention ==
    JoinsAt("convention", "canonicalization", Entry("convention", Convention(run.windows, Given)))
\* The readiness gate follows from what was diagnosed.
Canonicalize ==
    JoinsAt("canonicalization", "scaffold",
            LET canon == Canonicalization(run.windows, Given)
            IN [canonicalization |-> canon,
                readiness |-> Readiness(run.doc["alignment"], run.doc["joinability"],
                                        run.doc["convention"], canon)])

\* The scaffold is built for the eligible, and what is said of it with it.
BuildScaffold ==
    /\ Opens("scaffold",
          LET readiness == run.doc["readiness"]
          IN /\ ScaffoldTakes(readiness, run.doc["canonicalization"])
             /\ ScaffoldReads(readiness, Given)
             /\ LET scaffold == Scaffold(readiness, Given)
                IN /\ SkippedIsWhole(scaffold) /\ ArithmeticScaffold
                   /\ RowScaffoldTakes(scaffold)
                   /\ AggregateTakes(RowScaffold(scaffold))
                   /\ AggregateBalances(SampleAggregate(RowScaffold(scaffold))),
          "leakage",
          LET scaffold == Scaffold(run.doc["readiness"], Given)
          IN [scaffold |-> scaffold, policy |-> PolicyContract(scaffold),
              aggregate |-> SampleAggregate(RowScaffold(scaffold))])
AuditSplits ==
    /\ run.pc = "leakage"
    /\ run' = [run EXCEPT !.pc = "packets", !.at = 1,
                 !.doc = Over(Entry("leakage", SplitLeakage(run.windows)), run.doc)]
    /\ UNCHANGED <<files, receipt, refreshes, writes, runs>>

-----------------------------------------------------------------------------
(* The packets, one after the other.                                        *)

BindingRead == IF Args.bound THEN binding ELSE {}
ReadPacket ==
    /\ run.pc = "packets" /\ run.at \in DOMAIN Chain
    /\ LET p == Chain[run.at]
           read(c) == Accepted(p, c, sidecar[p], run.seen, BindingRead, commits)
       IN IF p \notin Args.given
          THEN run' = [run EXCEPT !.at = @ + 1, !.seen = Over(Entry(p, AbsentOf(p)), run.seen)]
          ELSE IF \E c \in json[p] : read(c)
          THEN \E c \in json[p] :
                  run' = [run EXCEPT !.at = @ + 1,
                            !.seen = Over(Entry(p, SeenOf(p, c, BindingRead)), run.seen),
                            !.doc = Over(Entry(p, c), run.doc)]
          ELSE Failed
    /\ UNCHANGED <<files, receipt, refreshes, writes, runs>>

-----------------------------------------------------------------------------
(* The gates between reads: each is derived of those before it.               *)

Lock(p, stage, gate) == [p EXCEPT !.gates = Over(Entry(stage, gate), @)]
Emit(p, stage, gate, rows) ==
    [p EXCEPT !.gates = Over(Entry(stage, gate), @), !.rows = Over(Entry(stage, rows), @)]

OwnGate(passed) == IF passed THEN {} ELSE {"own"}
ChainGates(seen) ==
    [gates |-> [contract |-> OwnGate(seen["contract"].gate = "passed"),
                manifest |-> OwnGate(seen["manifest"].gate = "passed"),
                closure  |-> OwnGate(ClosureGate(Closure(seen)) = "passed")]]
WithBoundary(p) == Lock(p, "boundary", BoundaryGate(BoundaryDiagnostics(p.gates)))
WithInvocation(p) == Lock(p, "invocation", InvocationGate(InvocationDiagnostics(p.gates)))
WithProjection(p) == Lock(p, "projection", ProjectionGate(ProjectionDiagnostics(p.gates)))
WithShape(p) == Lock(p, "shape", ShapeGate(ShapeDiagnostics(p.gates)))
WithRowCount(p, inventory) ==
    Lock(p, "row_count", RowCountGate(RowCountDiagnostics(p.gates, inventory)))
GatesToRowCount(seen, inventory) ==
    WithRowCount(WithShape(WithProjection(WithInvocation(WithBoundary(ChainGates(seen))))), inventory).gates
CloseChain ==
    /\ run.pc = "packets" /\ run.at \notin DOMAIN Chain
    /\ run' = [run EXCEPT !.pc = "temporal", !.gates = GatesToRowCount(run.seen, run.inventory)]
    /\ UNCHANGED <<files, receipt, refreshes, writes, runs>>

\* Without data these three have nothing to open.
\* Mutant: the digests of a pass are kept for the next one.
OpensIfAnyKeepingHashes(pass, next, gates, sections) ==
    /\ run.pc = pass /\ (HasData => run.hashed # {})
    /\ run' = [run EXCEPT !.pc = next, !.gates = Over(gates, run.gates), !.doc = Over(sections, run.doc)]
    /\ UNCHANGED <<files, receipt, refreshes, writes, runs>>
OpensIfAny(pass, next, gates, sections) ==
    /\ run.pc = pass /\ (HasData => run.hashed # {})
    /\ run' = [run EXCEPT !.pc = next, !.hashed = {}, !.gates = Over(gates, run.gates),
                 !.doc = Over(sections, run.doc),
                 !.torn = run.torn \/ (HasData /\ run.hashed # {Given})]
    /\ UNCHANGED <<files, receipt, refreshes, writes, runs>>

CheckTimes ==
    OpensIfAny("temporal", "joins",
        Entry("temporal", TemporalGate(TemporalDiagnostics(run.gates, run.inventory, Given))),
        NoSection)

WithJoinability(g, joinability) == [gates |-> Over(Entry("joinability", JoinabilityGate(joinability)), g)]
WithDryHarness(p, joinability) ==
    Lock(p, "dry_harness", DryHarnessGate(DryHarnessDiagnostics(p.gates, joinability)))
WithRuleLock(p) == Lock(p, "rule_lock", RuleLockGate(RuleLockDiagnostics(p.gates)))
GatesToRuleLock(g, joinability) ==
    WithRuleLock(WithDryHarness(WithJoinability(g, joinability), joinability)).gates
CheckJoins ==
    LET hashed == CHOOSE h \in run.hashed \cup {NoInventory} : run.hashed # {} => h \in run.hashed
        joinability == JoinabilityDiagnostics(run.gates, run.inventory, run.windows, hashed, Given)
    IN OpensIfAny("joins", "rule_rows", GatesToRuleLock(run.gates, joinability), NoSection)

\* From the rule rows on nothing is read.  The diagnostics of the economic rows
\* are looked at by every stage after them.
WithRuleRows(g, extracted) ==
    LET d == RuleRowsDiagnostics(g, extracted)
    IN [gates |-> Over(Entry("rule_rows", RuleRowsGate(d)), g), rows |-> Entry("rule_rows", d.rows)]
WithEventLock(p) == Lock(p, "event_lock", EventLockGate(EventLockDiagnostics(p.gates)))
WithEvents(p) ==
    LET d == EventsDiagnostics(p.gates, p.rows["rule_rows"])
    IN Emit(p, "events", EventsGate(d), d.rows)
WithEconomicLock(p) == Lock(p, "economic_lock", EconomicLockGate(EconomicLockDiagnostics(p.gates)))
WithEconomicRows(p) ==
    LET d == EconomicRowsDiagnostics(p.gates, p.rows["events"])
    IN Over(Entry("economic", d), Emit(p, "economic_rows", EconomicRowsGate(d), d.rows))

WithNullLock(p) == Lock(p, "null_lock", NullLockGate(NullLockDiagnostics(p.gates, p.economic)))
WithNullRows(p) ==
    LET d == NullRowsDiagnostics(p.gates, p.economic)
    IN Emit(p, "null_rows", NullRowsGate(d), d.rows)
WithStatisticLock(p) ==
    Lock(p, "statistic_lock", StatisticLockGate(StatisticLockDiagnostics(p.gates, p.economic)))
WithStatisticRows(p) ==
    LET d == StatisticRowsDiagnostics(p.gates, p.economic, p.rows["null_rows"])
    IN Emit(p, "statistic_rows", StatisticRowsGate(d), d.rows)
WithContractLock(p) ==
    Lock(p, "contract_lock", ContractLockGate(ContractLockDiagnostics(p.gates, p.economic)))
WithReadinessRows(p) ==
    LET d == ReadinessRowsDiagnostics(p.gates, p.economic, p.rows["statistic_rows"])
    IN Emit(p, "readiness_rows", ReadinessRowsGate(d), d.rows)
WithDescriptiveLock(p) ==
    Lock(p, "descriptive_lock", DescriptiveLockGate(DescriptiveLockDiagnostics(p.gates, p.economic)))
WithDescriptiveRows(p) ==
    LET d == DescriptiveRowsDiagnostics(p.gates, p.economic, p.rows["readiness_rows"])
    IN Emit(p, "descriptive_rows", DescriptiveRowsGate(d), d.rows)
WithCountPolicy(p) ==
    Lock(p, "count_policy", CountPolicyGate(CountPolicyDiagnostics(p.gates, p.economic)))
WithCounts(p) ==
    LET d == CountsDiagnostics(p.gates, p.economic, p.rows["descriptive_rows"])
    IN Emit(p, "counts", CountsGate(d), d.counts)
WithInferenceLock(p) ==
    Lock(p, "inference_lock", InferenceLockGate(InferenceLockDiagnostics(p.gates, p.economic)))
WithInferenceRows(p) ==
    LET d == InferenceRowsDiagnostics(p.gates, p.economic, p.rows["counts"])
    IN Over(Entry("inference", d), Emit(p, "inference_rows", InferenceRowsGate(d), d.counts))
WithComparisonLock(p) ==
    Lock(p, "comparison_lock", ComparisonLockGate(ComparisonLockDiagnostics(p.gates, p.inference)))

GatesToEconomicRows(g, extracted) ==
    WithEconomicRows(WithEconomicLock(WithEvents(WithEventLock(WithRuleRows(g, extracted)))))
GatesToReadiness(p) ==
    WithReadinessRows(WithContractLock(WithStatisticRows(WithStatisticLock(WithNullRows(WithNullLock(p))))))
GatesToTheEnd(p) ==
    WithComparisonLock(WithInferenceRows(WithInferenceLock(WithCounts(WithCountPolicy(
        WithDescriptiveRows(WithDescriptiveLock(p)))))))
ExtractAndProject ==
    LET hashed == CHOOSE h \in run.hashed \cup {NoInventory} : run.hashed # {} => h \in run.hashed
        extracted == ExtractRows(run.inventory, run.windows, hashed, Given)
        last == GatesToTheEnd(GatesToReadiness(GatesToEconomicRows(run.gates, extracted)))
    IN OpensIfAny("rule_rows", "write", last.gates, Entry("emitted", last.rows))

-----------------------------------------------------------------------------
(* The receipt: validated, then written over the one before.                 *)

Receipt == Over([gates |-> run.gates, torn |-> run.torn, inventory |-> run.inventory,
                 windows |-> run.windows], run.doc)
\* The file is truncated when it is opened.
BeginWrite ==
    /\ run.pc = "write"
    /\ receipt' = {[whole |-> FALSE, doc |-> <<>>]}
    /\ run' = [run EXCEPT !.pc = "written"]
    /\ UNCHANGED <<files, refreshes, writes, runs>>
EndWrite ==
    /\ run.pc = "written"
    /\ receipt' = {[whole |-> TRUE, doc |-> Receipt]}
    /\ run' = NoRun
    /\ UNCHANGED <<files, refreshes, writes, runs>>

RunStep ==
    \/ TakeHashes \/ TakeInventory \/ AssignRows \/ Adjust \/ LeaveFundingOut
    \/ DiagnoseJoinability \/ DiagnoseConvention \/ Canonicalize \/ BuildScaffold \/ AuditSplits \/ ReadPacket
    \/ CloseChain \/ CheckTimes \/ CheckJoins \/ ExtractAndProject \/ BeginWrite \/ EndWrite
Next == Refresh \/ Amend \/ Refreeze \/ Rebind \/ Start \/ RunStep \/ Crash
Spec == Init /\ [][Next]_vars

-----------------------------------------------------------------------------
(* What holds of it.                                                        *)

Docs == {r.doc : r \in {x \in receipt : x.whole}}
Closed(doc) == doc["gates"]["closure"] = {}
InventoriedRows(doc, role, s) == doc["inventory"][role][s].sha
Sound(doc) == ~doc["torn"] /\ "alignment" \in DOMAIN doc

\* The state is of its type: a process between two reads is at a pass, at a
\* packet or at the receipt, and has taken digests at a pass alone.
TypeOK ==
    /\ run.pc \in {"idle", "packets", "leakage", "write", "written"} \cup Passes
    /\ run.exit \in {0, 3, 4, 5, 9} /\ (run.exit # 0 => run.pc = "idle")
    /\ run.at \in 0..(Len(Chain) + 1)
    /\ DOMAIN run.seen = {Chain[i] : i \in 1..(run.at - 1)}
    /\ run.hashed # {} => run.pc \in Passes /\ run.hashed \subseteq [DataRoles -> [Symbols ->
           (UNION {Range(data[role]) : role \in Roles})
           \cup (UNION {UNION {Range(h[role]) : role \in DataRoles} : h \in run.hashed})]]
    /\ DOMAIN run.gates \subseteq StageNames
    /\ \A s \in DOMAIN run.gates : run.gates[s] \subseteq StageNames \cup {"own"}
    /\ Cardinality(receipt) <= 1

\* A receipt that says the chain is closed is of seven packets each of which
\* names the digests of all before it as they were read, whatever the author
\* wrote while they were read, and of a contract that was committed.
ClosedChainIsBound ==
    \A doc \in Docs : Closed(doc) =>
        /\ \A p \in Packets : \A q \in Before(p) : doc[p].bound[q] = doc[q].digest
        /\ \E i \in DOMAIN commits : commits[i] = doc["contract"].digest

\* All seven were given, and none departs from what is frozen.
ClosedChainIsFrozen ==
    \A doc \in Docs : Closed(doc) =>
        \A p \in Packets : p \in DOMAIN doc /\ doc[p].loosened = {} /\ ~doc[p].authorizes

\* Thirty gates are derived one from the other, each looking at a few: the
\* ones that pass come before all that do not, and whoever is blamed by a gate
\* is a stage before it that has not passed.
OnlyAPrefixPasses ==
    \A doc \in Docs :
        LET gates == doc["gates"]
        IN /\ DOMAIN gates = StageNames
           /\ \A s, u \in StageNames :
                 (gates[u] = {} /\ StagePlace(s) < StagePlace(u)) => gates[s] = {}
           /\ \A s \in StageNames : \A b \in gates[s] \ {"own"} :
                 StagePlace(b) < StagePlace(s) /\ gates[b] # {}

\* Every pass reads the files anew and assigns the times to the windows by
\* itself.  If no file was replaced between its digest and its opening, all
\* agree on how many there are, and the rows of the rule are the matches the
\* diagnostics counted.
DiagnosticsAgree ==
    \A doc \in Docs : Sound(doc) =>
        \A s \in Symbols, k \in DOMAIN doc["windows"], part \in Parts :
            LET join == doc["joinability"][s].windows[k][part]
                rows == doc["emitted"]["rule_rows"]
            IN /\ doc["rows"]["bars"][s].counts[k][part] = join.bars
               /\ doc["rows"]["funding"][s].counts[k][part] = join.funding
               /\ doc["alignment"][s].observed[k][part] = join.funding
               /\ doc["convention"][s].windows[k][part].unshifted = join
               /\ rows # {} => join.matched =
                     Cardinality({r \in rows : r.symbol = s /\ r.split = k /\ r.part = part})
               /\ rows # {} /\ doc["emitted"]["counts"] # <<>> =>
                     doc["emitted"]["inference_rows"][1] = Cardinality(rows)

\* Of a symbol found eligible every bar has one funding in its second and every
\* funding a bar, the two are in the same windows, and the scaffold has them all.
EligibleIsJoined ==
    \A doc \in Docs : Sound(doc) =>
        \A s \in Eligible(doc["readiness"]) :
            LET bars == TimesOf(InventoriedRows(doc, "bars", s))
                funding == TimesOf(InventoriedRows(doc, "funding", s))
                pairs == {pair \in bars \X funding : FloorToSecond(pair[1]) = FloorToSecond(pair[2])}
            IN /\ \A b \in bars : Cardinality({pair \in pairs : pair[1] = b}) = 1
               /\ \A f \in funding : \E pair \in pairs : pair[2] = f
               /\ \A pair \in pairs, k \in DOMAIN doc["windows"], part \in Parts :
                     InWindow(pair[1], doc["windows"][k], part)
                         <=> InWindow(pair[2], doc["windows"][k], part)
               /\ doc["scaffold"].eligible[s].total = Cardinality(bars)

\* The windows of an inventory are disjoint and cover it: a row at a whole second
\* is validated by one of them, and training never overlaps validation.
EveryRowIsValidatedOnce ==
    \A doc \in Docs : ~doc["torn"] /\ DOMAIN doc["inventory"] # {} =>
        /\ doc["leakage"].status = "insufficient" /\ doc["leakage"].adjacent
        /\ \A role \in DOMAIN doc["inventory"], s \in Symbols :
              \A t \in TimesOf(InventoriedRows(doc, role, s)) : t % Second = 0 =>
                  Cardinality({k \in DOMAIN doc["windows"] :
                                  InWindow(t, doc["windows"][k], "validation")}) = 1
=============================================================================
