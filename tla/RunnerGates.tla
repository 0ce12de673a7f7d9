---------------------------- MODULE RunnerGates -----------------------------
(***************************************************************************)
(* The stages between the closed pre-registration chain and the receipt of   *)
(* the offline-edge validation: each builds its diagnostics out of the gates  *)
(* and rows of the stages before it, and derives a gate from them alone.     *)
(* quantbot/experiment/offline_edge_real_validation.py                      *)
(*                                                                         *)
(* Abstractions.  The gates of a run are a function g from the stages so far *)
(* to what they blame: {} when the gate has passed, {"own"} when the stage's *)
(* own evidence is not whole, and otherwise the stages that have not passed   *)
(* of the first group it looks at.  Diagnostics are                          *)
(*   [passed: the upstream gates copied as passed, own: the own evidence]     *)
(* and the rows of the stages that emit some.  A row is named by the bar time *)
(* it was made of, [symbol, split, part, t]; rows are sorted by what they are  *)
(* named and numbered in that order.  Declarations that the stages make of    *)
(* constants (policies, schemas, what is not authorized) are left out: no     *)
(* input reaches them.                                                      *)
(***************************************************************************)
EXTENDS FundingDiagnostics

CONSTANT MaxRows   \* the cap of every stage that emits rows
ASSUME MaxRowsAssumption == MaxRows \in Nat

Stages ==
    <<"contract", "manifest", "closure", "boundary", "invocation", "projection", "shape",
      "row_count", "temporal", "joinability", "dry_harness", "rule_lock", "rule_rows",
      "event_lock", "events", "economic_lock", "economic_rows", "null_lock", "null_rows",
      "statistic_lock", "statistic_rows", "contract_lock", "readiness_rows",
      "descriptive_lock", "descriptive_rows", "count_policy", "counts",
      "inference_lock", "inference_rows", "comparison_lock">>
StageNames == {Stages[i] : i \in DOMAIN Stages}
StagePlace(s) == CHOOSE i \in DOMAIN Stages : Stages[i] = s

Passed(g) == {s \in DOMAIN g : g[s] = {}}
Copied(g, names) == names \cap Passed(g)
\* The first group that has a failing stage is blamed, the stage itself last.
Blame(passed, groups, own) ==
    LET failing == {i \in DOMAIN groups : ~(groups[i] \subseteq passed)}
    IN IF failing # {}
       THEN groups[CHOOSE i \in failing : \A j \in failing : i <= j] \ passed
       ELSE IF own THEN {} ELSE {"own"}

Chained == {"contract", "manifest"}
Invoked == {"boundary", "invocation"}
Shaped == Invoked \cup {"projection", "shape"}
Measured == Shaped \cup {"row_count", "temporal"}
Harnessed == Measured \cup {"joinability", "dry_harness"}

-----------------------------------------------------------------------------
(* Declarations of the runner, and the shape of its input.                  *)

BoundaryDiagnostics(g) == [passed |-> Copied(g, {"closure"} \cup Chained), own |-> TRUE]
BoundaryGate(d) == Blame(d.passed, <<{"closure"}, Chained>>, d.own)

InvocationDiagnostics(g) == [passed |-> Copied(g, {"boundary"} \cup Chained), own |-> TRUE]
InvocationGate(d) == Blame(d.passed, <<{"boundary"}, Chained>>, d.own)

ProjectionDiagnostics(g) == [passed |-> Copied(g, Invoked \cup Chained), own |-> TRUE]
ProjectionGate(d) == Blame(d.passed, <<{"invocation"}, {"boundary"}, Chained>>, d.own)

\* The shape is declared of the projection; the files are not looked at.
ShapeDiagnostics(g) == [passed |-> Copied(g, Invoked \cup {"projection"}), own |-> TRUE]
ShapeGate(d) == Blame(d.passed, <<{"projection"}, {"invocation"}, {"boundary"}>>, d.own)

\* A column is there when some file of the role has it.
ColumnsOf(files) == UNION {files[s].columns : s \in DOMAIN files}
\* The inventory decides; no row has to be there.
RowCountSummary(inventory) ==
    /\ DOMAIN inventory = Roles
    /\ \A role \in Roles :
          DOMAIN inventory[role] # {} /\ ColumnsOf(inventory[role]) = {"time", "value"}
RowCountDiagnostics(g, inventory) ==
    [passed |-> Copied(g, Shaped), own |-> RowCountSummary(inventory)]
RowCountGate(d) ==
    Blame(d.passed, <<{"shape"}, {"projection"}, {"invocation"}, {"boundary"}>>, d.own)

-----------------------------------------------------------------------------
(* The order of the times, and whether the two roles join.                   *)

\* The files are opened at their inventoried paths once their hashes were right.
TemporalSummary(inventory, opened) ==
    /\ DOMAIN inventory = Roles
    /\ \A role \in Roles :
          /\ DOMAIN inventory[role] # {}
          /\ \A s \in DOMAIN inventory[role] :
                /\ opened[role][s].rows # <<>> => "time" \in opened[role][s].columns
                /\ StrictlyIncreasing(opened[role][s])
TemporalDiagnostics(g, inventory, opened) ==
    [passed |-> Copied(g, Shaped \cup {"row_count"}), own |-> TemporalSummary(inventory, opened)]
\* Mutant: the gate over the row counts is not asked.
TemporalGateOfTheShape(d) ==
    Blame(d.passed, <<{"shape"}, {"projection"}, {"invocation"}, {"boundary"}>>, d.own)
TemporalGate(d) ==
    Blame(d.passed, <<{"row_count"}, {"shape"}, {"projection"}, {"invocation"}, {"boundary"}>>, d.own)

\* Exact matches, in the whole and in every window, where both may be empty.
SymbolJoins(barTimes, fundingTimes, windows) ==
    /\ barTimes = fundingTimes /\ barTimes # {}
    /\ \A w \in Range(windows), part \in Parts :
          Within(barTimes, w, part) = Within(fundingTimes, w, part)
\* Nothing is read before the temporal gate has passed.  A file that cannot be
\* read with the inventory in hand blocks; it does not end the run.
JoinabilitySummary(g, inventory, windows, hashed, opened) ==
    /\ DOMAIN inventory = Roles /\ g["temporal"] = {}
    /\ Loads(inventory, hashed, opened)
    /\ DOMAIN inventory["bars"] = DOMAIN inventory["funding"]
    /\ \A s \in DOMAIN inventory["bars"] :
          SymbolJoins(TimesOf(opened["bars"][s]), TimesOf(opened["funding"][s]), windows)
JoinabilityDiagnostics(g, inventory, windows, hashed, opened) ==
    [passed |-> Copied(g, Measured), own |-> JoinabilitySummary(g, inventory, windows, hashed, opened)]
JoinabilityGate(d) ==
    Blame(d.passed, <<{"temporal"}, {"row_count"}, {"shape"}, {"projection"}, {"invocation"},
                      {"boundary"}>>, d.own)

-----------------------------------------------------------------------------
(* The dry harness and the rows of the rule.                                *)

DryHarnessSummary(g, joinability) == g["joinability"] = {} /\ joinability.own
DryHarnessDiagnostics(g, joinability) ==
    [passed |-> Copied(g, Measured \cup {"joinability"}), own |-> DryHarnessSummary(g, joinability)]
DryHarnessGate(d) == Blame(d.passed, <<{"joinability"}, Measured>>, d.own)

RuleLockDiagnostics(g) == [passed |-> Copied(g, Harnessed), own |-> TRUE]
RuleLockGate(d) ==
    Blame(d.passed, <<{"dry_harness"}, {"joinability"}, {"temporal"}, {"row_count"}, {"shape"},
                      {"projection"}, {"invocation"}, {"boundary"}>>, d.own)

RowsOf(inventory, windows, opened) ==
    UNION {{[symbol |-> s, split |-> i, part |-> part, t |-> t] :
               t \in Within(TimesOf(opened["bars"][s]) \cap TimesOf(opened["funding"][s]),
                            windows[i], part)} :
           s \in DOMAIN inventory["bars"] \cap DOMAIN inventory["funding"],
           i \in DOMAIN windows, part \in Parts}
\* None when the files are not as inventoried, none when there are too many.
ExtractRows(inventory, windows, hashed, opened) ==
    IF DOMAIN inventory # Roles \/ ~Loads(inventory, hashed, opened) THEN [rows |-> {}, over |-> FALSE]
    ELSE LET found == RowsOf(inventory, windows, opened)
         IN IF Cardinality(found) > MaxRows THEN [rows |-> {}, over |-> TRUE]
            ELSE [rows |-> found, over |-> FALSE]
Required == {"rule_lock", "dry_harness", "joinability"}
RuleRowsDiagnostics(g, extracted) ==
    LET passed == Copied(g, Required)
        rows == IF Required \subseteq passed THEN extracted.rows ELSE {}
    IN [passed |-> passed, rows |-> rows, own |-> rows # {}]
RuleRowsGate(d) == Blame(d.passed, <<{"rule_lock"}, {"dry_harness"}, {"joinability"}>>, d.own)

-----------------------------------------------------------------------------
(* From here on a row is made of each row of the stage before, or none is.   *)

Emitted(passed, upstream, rows) ==
    IF upstream \subseteq passed /\ Cardinality(rows) <= MaxRows THEN rows ELSE {}
OneForOne(rows, source) == rows # {} /\ Cardinality(rows) = Cardinality(source)

RuleRowed == Harnessed \cup {"rule_lock", "rule_rows"}
EventLockDiagnostics(g) == [passed |-> Copied(g, RuleRowed), own |-> TRUE]
EventLockGate(d) ==
    Blame(d.passed, <<{"rule_rows"}, {"rule_lock"}, {"dry_harness"}, {"joinability"}>>,
          d.own /\ RuleRowed \subseteq d.passed)

Evented == RuleRowed \cup {"event_lock"}
EventsDiagnostics(g, source) ==
    LET passed == Copied(g, Evented)
        rows == Emitted(passed, Evented, source)
    IN [passed |-> passed, rows |-> rows, own |-> OneForOne(rows, source)]
EventsGate(d) ==
    Blame(d.passed, <<{"event_lock"}, {"rule_rows"}, {"rule_lock"}>>,
          d.own /\ Evented \subseteq d.passed)

Settled == Evented \cup {"events"}
EconomicLockDiagnostics(g) == [passed |-> Copied(g, Settled), own |-> TRUE]
EconomicLockGate(d) ==
    Blame(d.passed, <<{"events"}, {"event_lock"}, {"rule_rows"}>>,
          d.own /\ Settled \subseteq d.passed)

Older == Settled \cup {"economic_lock"}
\* Every amount in a row is the literal zero.
EconomicRowsDiagnostics(g, source) ==
    LET passed == Copied(g, Older)
        rows == Emitted(passed, Older, source)
    IN [passed |-> passed, rows |-> rows, own |-> OneForOne(rows, source)]
EconomicRowsGate(d) ==
    Blame(d.passed, <<{"economic_lock"}, {"events"}, {"event_lock"}, {"rule_rows"}>>,
          d.own /\ Older \subseteq d.passed)

-----------------------------------------------------------------------------
(* Locks and rows of the comparison, the statistic, its readiness and its     *)
(* description.  What is older than the economic rows is taken from the       *)
(* gates these have copied.                                                 *)

Carried(g, names, economic) == Copied(g, names) \cup (economic.passed \cap Older)

NullLockDiagnostics(g, economic) ==
    [passed |-> Carried(g, {"economic_rows"}, economic), own |-> TRUE]
NullLockGate(d) == Blame(d.passed, <<{"economic_rows"}, Older>>, d.own)

NullRowed == {"null_lock", "economic_rows"}
NullRowsDiagnostics(g, economic) ==
    LET passed == Carried(g, NullRowed, economic)
        rows == Emitted(passed, NullRowed \cup Older, economic.rows)
    IN [passed |-> passed, rows |-> rows, own |-> OneForOne(rows, economic.rows)]
NullRowsGate(d) == Blame(d.passed, <<{"null_lock"}, {"economic_rows"}, Older>>, d.own)

StatisticLockDiagnostics(g, economic) ==
    [passed |-> Carried(g, {"null_rows"} \cup NullRowed, economic), own |-> TRUE]
StatisticLockGate(d) ==
    Blame(d.passed, <<{"null_rows"}, {"null_lock"}, {"economic_rows"}, Older>>, d.own)

StatisticRowed == {"statistic_lock", "null_rows"} \cup NullRowed
StatisticRowsDiagnostics(g, economic, source) ==
    LET passed == Carried(g, StatisticRowed, economic)
        rows == Emitted(passed, StatisticRowed \cup Older, source)
    IN [passed |-> passed, rows |-> rows, own |-> OneForOne(rows, source)]
StatisticRowsGate(d) ==
    Blame(d.passed, <<{"statistic_lock"}, {"null_rows"}, {"null_lock"}, {"economic_rows"}, Older>>, d.own)

ContractLockDiagnostics(g, economic) ==
    [passed |-> Carried(g, {"statistic_rows"} \cup StatisticRowed, economic), own |-> TRUE]
ContractLockGate(d) ==
    Blame(d.passed, <<{"statistic_rows"}, {"statistic_lock"}, {"null_rows"}, {"null_lock"},
                      {"economic_rows"}, Older>>, d.own)

ReadinessRowed == {"contract_lock", "statistic_rows"} \cup StatisticRowed
ReadinessRowsDiagnostics(g, economic, source) ==
    LET passed == Carried(g, ReadinessRowed, economic)
        rows == Emitted(passed, ReadinessRowed \cup Older, source)
    IN [passed |-> passed, rows |-> rows, own |-> OneForOne(rows, source)]
ReadinessRowsGate(d) ==
    Blame(d.passed, <<{"contract_lock"}, {"statistic_rows"}, {"statistic_lock"}, {"null_rows"},
                      {"null_lock"}, {"economic_rows"}, Older>>, d.own)

DescriptiveLockDiagnostics(g, economic) ==
    [passed |-> Carried(g, {"readiness_rows"} \cup ReadinessRowed, economic), own |-> TRUE]
DescriptiveLockGate(d) ==
    Blame(d.passed, <<{"readiness_rows"}, {"contract_lock"}, {"statistic_rows"}, {"statistic_lock"},
                      {"null_rows"}, {"null_lock"}, {"economic_rows"}, Older>>, d.own)

DescriptiveRowed == {"descriptive_lock", "readiness_rows"} \cup ReadinessRowed
DescriptiveRowsDiagnostics(g, economic, source) ==
    LET passed == Carried(g, DescriptiveRowed, economic)
        rows == Emitted(passed, DescriptiveRowed \cup Older, source)
    IN [passed |-> passed, rows |-> rows, own |-> OneForOne(rows, source)]
DescriptiveRowsGate(d) ==
    Blame(d.passed, <<{"descriptive_lock"}, {"readiness_rows"}, {"contract_lock"}, {"statistic_rows"},
                      {"statistic_lock"}, {"null_rows"}, {"null_lock"}, {"economic_rows"}, Older>>, d.own)

-----------------------------------------------------------------------------
(* The counts of the descriptive rows, and what is allowed to be made of them. *)

CountPolicyDiagnostics(g, economic) ==
    [passed |-> Carried(g, {"descriptive_rows"} \cup DescriptiveRowed, economic), own |-> TRUE]
CountPolicyGate(d) ==
    Blame(d.passed, <<{"descriptive_rows"}, {"descriptive_lock"}, {"readiness_rows"}, {"contract_lock"},
                      {"statistic_rows"}, {"statistic_lock"}, {"null_rows"}, {"null_lock"},
                      {"economic_rows"}, Older>>, d.own)

CountsOf(rows) ==
    <<Cardinality(rows), Cardinality({r.symbol : r \in rows}),
      Cardinality({<<r.split, r.part>> : r \in rows})>>
Counted == {"count_policy", "descriptive_rows"} \cup DescriptiveRowed
CountsDiagnostics(g, economic, source) ==
    LET passed == Carried(g, Counted, economic)
        counts == IF Counted \cup Older \subseteq passed THEN CountsOf(source) ELSE <<>>
    IN [passed |-> passed, counts |-> counts, own |-> counts = CountsOf(source)]
CountsGate(d) ==
    Blame(d.passed, <<{"count_policy"}, {"descriptive_rows"}, DescriptiveRowed, Older>>, d.own)

InferenceLockDiagnostics(g, economic) ==
    [passed |-> Carried(g, {"counts"} \cup Counted, economic), own |-> TRUE]
InferenceLockGate(d) ==
    Blame(d.passed, <<{"counts"}, {"count_policy"}, {"descriptive_rows"}, DescriptiveRowed, Older>>, d.own)

Inferred == {"inference_lock", "counts"} \cup Counted
\* The counts as they are, in the order of their kinds.
ProjectCounts(counts) == [i \in DOMAIN counts |-> counts[i]]
InferenceRowsDiagnostics(g, economic, counts) ==
    LET passed == Carried(g, Inferred, economic)
        projected == IF Inferred \cup Older \subseteq passed THEN ProjectCounts(counts) ELSE <<>>
    IN [passed |-> passed, counts |-> projected, own |-> Len(projected) = 3 /\ projected = counts]
InferenceRowsGate(d) ==
    Blame(d.passed, <<{"inference_lock"}, {"counts"}, Counted \cup Older>>, d.own)

\* The last lock reads the older gates off the rows before it.
ComparisonLockDiagnostics(g, inference) ==
    [passed |-> Copied(g, {"inference_rows"}) \cup (inference.passed \cap (Inferred \cup Older)),
     own |-> TRUE]
ComparisonLockGate(d) == Blame(d.passed, <<{"inference_rows"} \cup Inferred \cup Older>>, d.own)
=============================================================================
