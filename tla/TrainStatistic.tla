--------------------------- MODULE TrainStatistic ---------------------------
(***************************************************************************)
(* The first computed statistic of the offline-edge protocol and its        *)
(* decomposition, quantbot/experiment/offline_edge_real_validation.py:      *)
(* a slot opens at the first bar after a funding event and closes Hold bars *)
(* later, on the side against the funding rate; it is compared with a null  *)
(* that alternates its side over the active slots.                         *)
(*                                                                         *)
(* A bar is [t, v] with its close as v, a funding row [t, v] with its rate.  *)
(* Indices into the bars count from 0, as in the code.  Money is in units    *)
(* of 1/Scale, which every close divides, so that the price ratio is exact  *)
(* as it is with Decimal.                                                   *)
(***************************************************************************)
EXTENDS Integers, Sequences, FiniteSets, FiniteSetsExt, Functions

CONSTANTS
    Hour,       \* the distance of two bars
    Warmup,     \* FIRST_COMPUTED_WARMUP_BARS
    Purge,      \* FIRST_COMPUTED_PURGE_BARS
    Embargo,    \* FIRST_COMPUTED_EMBARGO_BARS
    Hold,       \* FIRST_COMPUTED_HOLD_BARS
    Cost,       \* FIRST_COMPUTED_ROUND_TRIP_COST
    Scale

ASSUME WindowAssumption ==
    /\ {Warmup, Cost} \subseteq Nat
    /\ {Hour, Purge, Embargo, Hold, Scale} \subseteq Nat \ {0}

At(rows, i) == rows[i + 1]
\* bisect_right in a strictly increasing sequence of times.
FirstAfter(rows, t) == Cardinality({i \in DOMAIN rows : rows[i].t <= t})
Increasing(rows) == \A i \in 2..Len(rows) : rows[i - 1].t < rows[i].t
Hourly(rows) == \A i \in 2..Len(rows) : rows[i].t = rows[i - 1].t + Hour

\* Only the rows before the holdout boundary are read as data ...
TrainBars(bars, boundary) == SubSeq(bars, 1, Min({boundary, Len(bars)}))
\* ... and of the funding, those before the bar that would follow them: the
\* scorer stops at the first row that is late and looks at none behind it.
FundingBefore(funding, t) ==
    LET late == {i \in DOMAIN funding : funding[i].t >= t}
    IN SubSeq(funding, 1, IF late = {} THEN Len(funding) ELSE Min(late) - 1)
TrainFunding(funding, train) == FundingBefore(funding, train[Len(train)].t + Hour)

\* Mutant: the purged bars are scored.
AllowedEndUnpurged(boundary) == boundary - 1
AllowedEnd(boundary) == boundary - Purge - 1

\* What stops the scorer before it reaches a slot.
BarsError(train, boundary) ==
    IF Len(train) < boundary THEN "split_boundary_invalid"
    ELSE IF boundary < 2 \/ ~Hourly(train) THEN "bars_not_strict_hourly_sequence"
    ELSE IF Warmup > AllowedEnd(boundary) THEN "allowed_scored_partition_empty"
    ELSE IF \E i \in Warmup..AllowedEnd(boundary) : At(train, i).v <= 0 THEN "bars_close_invalid"
    ELSE "none"
FundingError(rows) ==
    IF Increasing(rows) THEN "none" ELSE "funding_times_not_strictly_increasing"

\* The scored slots, named by the funding rows that decide them.
EntryOf(train, rows, i) == FirstAfter(train, rows[i].t)
Scored(train, rows) ==
    {i \in DOMAIN rows :
        /\ EntryOf(train, rows, i) >= Warmup
        /\ EntryOf(train, rows, i) + Hold <= AllowedEnd(Len(train))}

CandidateSide(rows, i) == IF rows[i].v > 0 THEN -1 ELSE IF rows[i].v < 0 THEN 1 ELSE 0
Active(rows, i) == rows[i].v # 0
NullSide(rows, scored, i) ==
    LET before == Cardinality({j \in scored : j < i /\ Active(rows, j)})
    IN IF ~Active(rows, i) THEN 0 ELSE IF before % 2 = 0 THEN 1 ELSE -1

\* Funding strictly after the entry and up to the exit.
IntervalFunding(train, rows, i) ==
    LET from == At(train, EntryOf(train, rows, i)).t
        upto == At(train, EntryOf(train, rows, i) + Hold).t
        within == {j \in DOMAIN rows : from < rows[j].t /\ rows[j].t <= upto}
    IN SumFunction([j \in within |-> rows[j].v])
PriceDelta(train, rows, i) ==
    LET e == EntryOf(train, rows, i)
    IN (Scale * At(train, e + Hold).v) \div At(train, e).v - Scale

\* What a side earns in a slot.
Net(side, train, rows, i) ==
    side * PriceDelta(train, rows, i) - side * IntervalFunding(train, rows, i)
      - (IF Active(rows, i) THEN Cost ELSE 0)

\* build_first_computed_statistic_v0, from the bars and the funding it reads.
\* T is the total over the scored count.
Unscored(state, reason) == [state |-> state, reason |-> reason, scored |-> 0, invalid |-> 0, total |-> 0]
Difference(train, rows, scored, i) ==
    Net(CandidateSide(rows, i), train, rows, i) - Net(NullSide(rows, scored, i), train, rows, i)
ScoreOf(train, rows, scored) ==
    IF scored = {} THEN [Unscored("invalid", "no_scored_slots") EXCEPT !.invalid = Len(rows)]
    ELSE [state   |-> "computed",
          reason  |-> "holdout_remained_sealed_non_holdout_scored",
          scored  |-> Cardinality(scored),
          invalid |-> Len(rows) - Cardinality(scored),
          total   |-> SumFunction([i \in scored |-> Difference(train, rows, scored, i)])]
Score(train, rows, boundary) ==
    IF BarsError(train, boundary) # "none" THEN Unscored("invalid", BarsError(train, boundary))
    ELSE IF FundingError(rows) # "none" THEN Unscored("invalid", FundingError(rows))
    ELSE ScoreOf(train, rows, Scored(train, rows))

(***************************************************************************)
(* The decomposition does the slots again, each as price, funding and cost  *)
(* of the candidate, of the null and of their difference, next to the two   *)
(* sides held throughout.                                                  *)
(***************************************************************************)
SideParts(side, train, rows, i) ==
    [price   |-> side * PriceDelta(train, rows, i),
     funding |-> - side * IntervalFunding(train, rows, i),
     cost    |-> IF Active(rows, i) THEN Cost ELSE 0]
Relative(a, b) ==
    [price |-> a.price - b.price, funding |-> a.funding - b.funding, cost |-> a.cost - b.cost]
NetOf(parts) == parts.price + parts.funding - parts.cost

DecompositionSlots(train, rows) ==
    LET scored == Scored(train, rows)
        always(side, i) == IF Active(rows, i) THEN Net(side, train, rows, i) ELSE 0
    IN [i \in scored |->
          LET candidate == SideParts(CandidateSide(rows, i), train, rows, i)
              null      == SideParts(NullSide(rows, scored, i), train, rows, i)
          IN [active    |-> Active(rows, i),
              candidate |-> candidate, null |-> null, relative |-> Relative(candidate, null),
              net |-> [candidate |-> Net(CandidateSide(rows, i), train, rows, i),
                       null      |-> Net(NullSide(rows, scored, i), train, rows, i)],
              long |-> always(1, i), short |-> always(-1, i)]]

\* The identities the decomposition is refused on when one fails.
SlotIdentities(slots) ==
    \A i \in DOMAIN slots :
        /\ slots[i].net.candidate = NetOf(slots[i].candidate)
        /\ slots[i].net.null = NetOf(slots[i].null)
        /\ slots[i].net.candidate - slots[i].net.null = NetOf(slots[i].relative)

\* Means are totals here: every output has the same divisor.
PartTotals(slots, who) ==
    [part \in {"price", "funding", "cost"} |->
        SumFunction([i \in DOMAIN slots |-> slots[i][who][part]])]
Classification(candidate, relative) ==
    IF NetOf(candidate) <= 0 THEN "absolute_net_nonpositive"
    ELSE IF relative.price <= 0 THEN "relative_price_nonpositive"
    ELSE "net_and_relative_price_positive"

\* build_candidate1_train_mechanism_decomposition_v0 behind its contract checks:
\* it must find the archived counts and the archived T again.
Blocked(reasons) == [state |-> "blocked", reasons |-> reasons]
\* Mutant: the archived counts and T are not looked at.
NoDecompositionReasons(rows, slots, relative, source) == {}
DecompositionReasons(rows, slots, relative, source) ==
    (IF Cardinality(DOMAIN slots) # source.scored THEN {"source_slot_universe_mismatch"} ELSE {}) \cup
    (IF Len(rows) - Cardinality(DOMAIN slots) # source.invalid
     THEN {"source_invalid_slot_count_mismatch"} ELSE {}) \cup
    (IF relative.cost # 0 THEN {"relative_cost_difference_nonzero"} ELSE {}) \cup
    (IF NetOf(relative) # source.total THEN {"reconstruction_mismatch"} ELSE {})
DecompositionOf(rows, slots, source) ==
    LET relative == PartTotals(slots, "relative") IN
    IF slots = <<>> THEN Blocked({"source_slot_universe_mismatch"})
    ELSE IF ~SlotIdentities(slots) THEN Blocked({"per_slot_component_identity_violation"})
    ELSE IF DecompositionReasons(rows, slots, relative, source) # {}
         THEN Blocked(DecompositionReasons(rows, slots, relative, source))
    ELSE [state     |-> "computed",
          class     |-> Classification(PartTotals(slots, "candidate"), relative),
          candidate |-> PartTotals(slots, "candidate"),
          relative  |-> relative,
          null      |-> PartTotals(slots, "null"),
          long      |-> SumFunction([i \in DOMAIN slots |-> slots[i].long]),
          short     |-> SumFunction([i \in DOMAIN slots |-> slots[i].short]),
          active    |-> Cardinality({i \in DOMAIN slots : slots[i].active}),
          scored    |-> Cardinality(DOMAIN slots)]
Materialized(train, rows, boundary) ==
    IF BarsError(train, boundary) # "none" THEN [error |-> BarsError(train, boundary), slots |-> <<>>]
    ELSE [error |-> FundingError(rows), slots |-> DecompositionSlots(train, rows)]
Decompose(rows, materialized, source) ==
    IF materialized.error # "none" THEN Blocked({materialized.error})
    ELSE DecompositionOf(rows, materialized.slots, source)
=============================================================================
