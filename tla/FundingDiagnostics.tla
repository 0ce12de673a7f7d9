------------------------- MODULE FundingDiagnostics -------------------------
(***************************************************************************)
(* What the offline-edge validation computes of the bars and the funding:    *)
(* the inventory, the splits, the row assignment, the diagnostics of how      *)
(* funding joins bars, the readiness gate, and the scaffolds that are built    *)
(* for the symbols it finds eligible.                                       *)
(* quantbot/experiment/offline_edge_real_validation.py                      *)
(*                                                                         *)
(* Abstractions.  A time is a number of ticks, Second of them to a second     *)
(* and Hour to an hour; a cell with no time in it is Blank or Malformed, one   *)
(* with no finite rate is NoRate.  A file is [columns, rows], a row [t, v],    *)
(* the columns of interest "time" and "value", and a digest is the content    *)
(* it is of.  Each role has one file to a symbol; the data is a function       *)
(* from roles to functions from symbols to files, and funding is not in its    *)
(* domain when no funding directory is given.  Entries of the receipt that    *)
(* repeat constants, paths and labels are left out.                          *)
(***************************************************************************)
EXTENDS Integers, FiniteSets, Sequences, FiniteSetsExt, Functions, TLC

CONSTANTS
    Second, Hour,    \* in ticks
    SplitCount,
    OutlierRate,     \* the rate above which a symbol is flagged
    HalfSample       \* rows of a sample from each end, five in the code

ASSUME NumbersAssumption ==
    {Second, Hour, SplitCount, HalfSample} \subseteq Nat \ {0} /\ OutlierRate \in Nat

Roles == {"bars", "funding"}
Parts == {"train", "validation"}
Blank == 0
Malformed == -1
NoRate == 99

IsFile(file) == file.columns \subseteq {"time", "value"} /\ file.rows \in Seq([t : Int, v : Int])

IsTime(t) == t > 0
\* What is written of a time has whole seconds.
FloorToSecond(t) == t - (t % Second)

-----------------------------------------------------------------------------
(* The inventory: a digest, and what is read when the file is opened again.  *)

Timed(file) == {i \in DOMAIN file.rows : "time" \in file.columns /\ file.rows[i].t # Blank}
TimesOf(file) == {file.rows[i].t : i \in Timed(file)}
NothingMalformed(file) == \A i \in Timed(file) : IsTime(file.rows[i].t)
FileMetadata(hashed, file) ==
    [sha     |-> hashed, columns |-> file.columns, count |-> Len(file.rows),
     min |-> {FloorToSecond(Min(ts)) : ts \in {TimesOf(file)} \ {{}}},
     max |-> {FloorToSecond(Max(ts)) : ts \in {TimesOf(file)} \ {{}}}]
Inventory(hashed, opened) ==
    [role \in DOMAIN opened |->
        [s \in DOMAIN opened[role] |-> FileMetadata(hashed[role][s], opened[role][s])]]
InventoryReads(opened) ==
    \A role \in DOMAIN opened : \A s \in DOMAIN opened[role] : NothingMalformed(opened[role][s])

\* Every later pass compares the digests before it opens the files.
Unchanged(inventory, hashed, roles) ==
    \A role \in roles : \A s \in DOMAIN inventory[role] : inventory[role][s].sha = hashed[role][s]

-----------------------------------------------------------------------------
(* Splits: equal segments of the time covered, a validation window on each    *)
(* and a training window on all before it.                                  *)

Mins(inventory) ==
    UNION {UNION {inventory[role][s].min : s \in DOMAIN inventory[role]} : role \in DOMAIN inventory}
Maxes(inventory) ==
    UNION {UNION {inventory[role][s].max : s \in DOMAIN inventory[role]} : role \in DOMAIN inventory}
HasBounds(inventory) == Mins(inventory) # {} /\ Maxes(inventory) # {}
Boundary(low, high, i) == FloorToSecond(low + (i * (high - low)) \div SplitCount)
WindowsBetween(low, high) ==
    [i \in 1..SplitCount |->
        [train      |-> [from |-> Boundary(low, high, 0), to |-> Boundary(low, high, i - 1)],
         validation |-> [from |-> Boundary(low, high, i - 1), to |-> Boundary(low, high, i)],
         last       |-> i = SplitCount]]
Windows(inventory) == WindowsBetween(Min(Mins(inventory)), Max(Maxes(inventory)))

\* Without an inventory of times every window is the whole of what was declared.
FallbackWindows(low, high) ==
    [i \in 1..SplitCount |->
        [train |-> [from |-> low, to |-> high], validation |-> [from |-> low, to |-> high],
         last |-> i = SplitCount]]

\* The end of a window is outside it, but for the end of the last validation.
\* Mutant: the end of every window is outside it.
InWindowHalfOpen(t, w, part) == w[part].from <= t /\ t < w[part].to
InWindow(t, w, part) ==
    /\ w[part].from <= t
    /\ t < w[part].to \/ (t = w[part].to /\ part = "validation" /\ w.last)
Within(times, w, part) == {t \in times : InWindow(t, w, part)}

-----------------------------------------------------------------------------
(* Rows that fall into the windows; a row without a time is unassigned.      *)

\* Mutant: the rows at the end of the last window are not its own.
RowsBefore(file, w, part) ==
    {i \in Timed(file) : w[part].from <= file.rows[i].t /\ file.rows[i].t < w[part].to}
RowsIn(file, w, part) == {i \in Timed(file) : InWindow(file.rows[i].t, w, part)}
RowsRead(entry, file) == NothingMalformed(file) /\ Len(file.rows) = entry.count
FileRows(file, windows) ==
    LET assigned == UNION {RowsIn(file, windows[k], part) : k \in DOMAIN windows, part \in Parts}
    IN [total      |-> Len(file.rows),
        unassigned |-> Len(file.rows) - Cardinality(assigned),
        counts     |-> [k \in DOMAIN windows |->
                          [part \in Parts |-> Cardinality(RowsIn(file, windows[k], part))]]]
RowMaterialization(windows, opened) ==
    [role \in DOMAIN opened |-> [s \in DOMAIN opened[role] |-> FileRows(opened[role][s], windows)]]

-----------------------------------------------------------------------------
(* Rates of the funding, by window.                                         *)

RateSummary(file, rows) ==
    LET rates == {file.rows[i].v : i \in rows}
    IN [count    |-> Cardinality(rows),
        positive |-> Cardinality({i \in rows : file.rows[i].v > 0}),
        negative |-> Cardinality({i \in rows : file.rows[i].v < 0}),
        zero     |-> Cardinality({i \in rows : file.rows[i].v = 0}),
        min      |-> {Min(vs) : vs \in {rates} \ {{}}},
        max      |-> {Max(vs) : vs \in {rates} \ {{}}}]

StrictlyIncreasing(file) ==
    /\ \A i \in DOMAIN file.rows : IsTime(file.rows[i].t)
    /\ \A i \in 2..Len(file.rows) : file.rows[i - 1].t < file.rows[i].t
AdjustmentReads(entry, file) ==
    /\ file.columns = {"time", "value"}
    /\ StrictlyIncreasing(file)
    /\ \A i \in DOMAIN file.rows : file.rows[i].v # NoRate
    /\ Len(file.rows) = entry.count
FundingAdjustments(windows, opened) ==
    [s \in DOMAIN opened["funding"] |->
        LET file == opened["funding"][s]
        IN [all     |-> RateSummary(file, DOMAIN file.rows),
            windows |-> [k \in DOMAIN windows |->
                [part \in Parts |-> RateSummary(file, RowsIn(file, windows[k], part))]]]]

-----------------------------------------------------------------------------
(* Alignment pairs the two by symbol, out of what was computed before.       *)

SameSymbols(files) == DOMAIN files["bars"] = DOMAIN files["funding"]
Outlier(summary) == \E v \in summary.min \cup summary.max : v > OutlierRate \/ -v > OutlierRate
Alignment(rows, adjustments) ==
    [s \in DOMAIN rows["bars"] |->
        [complete |-> rows["bars"][s].unassigned = 0 /\ rows["funding"][s].unassigned = 0,
         outlier  |-> Outlier(adjustments[s].all),
         bars     |-> rows["bars"][s].counts,
         funding  |-> rows["funding"][s].counts,
         observed |-> [k \in DOMAIN adjustments[s].windows |->
             [part \in Parts |-> adjustments[s].windows[k][part].count]]]]

-----------------------------------------------------------------------------
(* Joinability: the times of the two as sets, nothing but equal times match.  *)

LoadsFile(entry, file) ==
    "time" \in file.columns /\ StrictlyIncreasing(file) /\ Len(file.rows) = entry.count
Loads(inventory, hashed, opened) ==
    /\ Unchanged(inventory, hashed, DOMAIN inventory)
    /\ \A role \in DOMAIN inventory : \A s \in DOMAIN inventory[role] :
          LoadsFile(inventory[role][s], opened[role][s])

MatchStatus(left, right) ==
    IF left = {} /\ right = {} THEN "empty"
    ELSE IF left \cap right = {} THEN "none"
    ELSE IF left = right THEN "exact" ELSE "partial"
MatchSummary(bars, funding) ==
    [bars |-> Cardinality(bars), funding |-> Cardinality(funding),
     matched |-> Cardinality(bars \cap funding), status |-> MatchStatus(bars, funding)]
\* From the later of the first times to the earlier of the last ones.
Overlap(bars, funding) ==
    IF bars = {} \/ funding = {} THEN {}
    ELSE {[from |-> Max({Min(bars), Min(funding)}), to |-> Min({Max(bars), Max(funding)})]}
OutsideOverlap(times, overlap) ==
    {t \in times : \A o \in overlap : t < o.from \/ t > o.to}
JoinabilityOf(bars, funding, windows) ==
    LET overlap == {o \in Overlap(bars, funding) : o.from <= o.to}
    IN [all            |-> MatchSummary(bars, funding),
        overlap        |-> {[from |-> FloorToSecond(o.from), to |-> FloorToSecond(o.to)] : o \in overlap},
        barsOutside    |-> Cardinality(OutsideOverlap(bars, overlap)),
        fundingOutside |-> Cardinality(OutsideOverlap(funding, overlap)),
        windows        |-> [k \in DOMAIN windows |-> [part \in Parts |->
            MatchSummary(Within(bars, windows[k], part), Within(funding, windows[k], part))]]]
Joinability(windows, opened) ==
    [s \in DOMAIN opened["bars"] |->
        JoinabilityOf(TimesOf(opened["bars"][s]), TimesOf(opened["funding"][s]), windows)]

-----------------------------------------------------------------------------
(* Convention: would the bars match if they were shifted, and how regular     *)
(* are the two.                                                             *)

Offsets == <<-24, -16, -12, -8, -4, -1, 0, 1, 4, 8, 12, 16, 24>>   \* hours
Shifted(bars, n) == {t + Offsets[n] * Hour : t \in bars}
OffsetMatch(bars, funding, n) == MatchSummary(Shifted(bars, n), funding)
NoShift == CHOOSE n \in DOMAIN Offsets : Offsets[n] = 0
\* The first of those that match most; a ratio to the number of bars, or of
\* fundings, is largest where the number of matches is.
BestOffset(bars, funding) ==
    LET matches(n) == OffsetMatch(bars, funding, n).matched
    IN CHOOSE n \in DOMAIN Offsets : \A m \in DOMAIN Offsets :
          matches(n) > matches(m) \/ (matches(n) = matches(m) /\ n <= m)
OffsetSummary(bars, funding) ==
    [best |-> BestOffset(bars, funding),
     unshifted |-> OffsetMatch(bars, funding, NoShift),
     shifted |-> OffsetMatch(bars, funding, BestOffset(bars, funding))]

\* Whole seconds from a time to the next one; the shortest of the commonest.
After(times, t) == Min({u \in times : u > t})
Step(times, t) == (After(times, t) - t) \div Second
Steps(times) == {t \in times : \E u \in times : u > t}
WithStep(times, d) == {t \in Steps(times) : Step(times, t) = d}
ModeStep(times) ==
    {d \in {Step(times, t) : t \in Steps(times)} :
        \A t \in Steps(times) :
            LET e == Step(times, t)
                more == Cardinality(WithStep(times, d)) - Cardinality(WithStep(times, e))
            IN more > 0 \/ (more = 0 /\ d <= e)}
Cadence(times) ==
    [mode |-> ModeStep(times),
     others |-> Cardinality({t \in Steps(times) : \A d \in ModeStep(times) : Step(times, t) # d}),
     residues |-> [r \in {(t \div Second) % (8 * (Hour \div Second)) : t \in times} |->
         Cardinality({t \in times : (t \div Second) % (8 * (Hour \div Second)) = r})]]

Magnitude(d) == IF d < 0 THEN -d ELSE d
\* The nearest funding, the earlier one of two as near.
NearestDelta(bar, funding) ==
    CHOOSE d \in {f - bar : f \in funding} : \A e \in {f - bar : f \in funding} :
        Magnitude(d) < Magnitude(e) \/ (Magnitude(d) = Magnitude(e) /\ d <= e)
NearestDeltas(bars, funding) ==
    LET unmatched == {b \in bars \ funding : funding # {}}
        delta == [b \in unmatched |-> NearestDelta(b, funding)]
        count == [d \in Range(delta) |-> Cardinality({b \in unmatched : delta[b] = d})]
    IN [histogram |-> count,
        commonest |-> {d \in DOMAIN count : \A e \in DOMAIN count :
            count[d] > count[e] \/ (count[d] = count[e] /\ d <= e)},
        subsecond |-> Cardinality({b \in unmatched : Magnitude(delta[b]) < Second}),
        furthest  |-> Max({0} \cup {Magnitude(d) : d \in DOMAIN count})]

ConventionOf(bars, funding, windows) ==
    [all     |-> OffsetSummary(bars, funding),
     bars    |-> Cadence(bars),
     funding |-> Cadence(funding),
     nearest |-> NearestDeltas(bars, funding),
     windows |-> [k \in DOMAIN windows |-> [part \in Parts |->
         OffsetSummary(Within(bars, windows[k], part), Within(funding, windows[k], part))]]]
Convention(windows, opened) ==
    [s \in DOMAIN opened["bars"] |->
        ConventionOf(TimesOf(opened["bars"][s]), TimesOf(opened["funding"][s]), windows)]

-----------------------------------------------------------------------------
(* Canonicalization: the whole second a funding time stands for, under three   *)
(* policies in the order in which ties are broken.                           *)

Policies == <<"floor", "round", "ceil">>
Canonical(policy, t) ==
    LET part == t % Second
    IN CASE policy = "floor" -> t - part
         [] policy = "round" -> IF 2 * part >= Second THEN t - part + Second ELSE t - part
         [] policy = "ceil"  -> IF part > 0 THEN t - part + Second ELSE t
CanonicalTimes(policy, times) == {Canonical(policy, t) : t \in times}
Collisions(policy, times) ==
    {c \in CanonicalTimes(policy, times) :
        Cardinality({t \in times : Canonical(policy, t) = c}) > 1}
\* As far from the bar before as from the one at or after it.
Ambiguous(policy, funding, bars) ==
    {c \in CanonicalTimes(policy, funding) :
        LET before == {b \in bars : b < c}
            after  == {b \in bars : b >= c}
        IN before # {} /\ after # {} /\ c - Max(before) = Min(after) - c}
SubsecondJitter(times) ==
    [count |-> Cardinality({t \in times : t % Second # 0}),
     max   |-> Max({0} \cup {t % Second : t \in times})]

\* Ranges that differ in their first times alone count as matching.
RangeStatus(bars, funding) ==
    CASE bars = {} \/ funding = {} -> "empty"
      [] Max(bars) < Min(funding) \/ Max(funding) < Min(bars) -> "disjoint"
      [] Max(bars) < Max(funding) -> "bars_end_before"
      [] Max(funding) < Max(bars) -> "funding_ends_before"
      [] OTHER -> "matching"

\* Bars are floored whatever the policy, and compared as a set.
PolicyEvidence(policy, bars, funding) ==
    LET left == CanonicalTimes("floor", bars)
        right == CanonicalTimes(policy, funding)
    IN [policy       |-> policy,
        bars         |-> Cardinality(left),
        funding      |-> Cardinality(right),
        matched      |-> Cardinality(left \cap right),
        barsOnly     |-> Cardinality(left \ right),
        fundingOnly  |-> Cardinality(right \ left),
        status       |-> MatchStatus(left, right),
        collisions   |-> Cardinality(Collisions(policy, funding)),
        ambiguous    |-> Cardinality(Ambiguous(policy, funding, bars)),
        maxDelta     |-> Max({0} \cup {Magnitude(Canonical(policy, t) - t) : t \in funding})]
EvidenceByPolicy(bars, funding) ==
    [i \in DOMAIN Policies |-> PolicyEvidence(Policies[i], bars, funding)]
\* The first of those no other one is better than.
BestPolicy(evidence) ==
    LET unbeaten(better(_, _)) ==
            Min({i \in DOMAIN evidence :
                    \A j \in DOMAIN evidence : ~better(evidence[j], evidence[i])})
    IN [matched    |-> unbeaten(LAMBDA a, b : a.matched > b.matched),
        ratio      |-> unbeaten(LAMBDA a, b : a.matched * b.funding > b.matched * a.funding),
        collisions |-> unbeaten(LAMBDA a, b : a.collisions < b.collisions)]

\* Floored times against the first and the last of the other role as they are.
OutsideRange(times, range) ==
    {t \in CanonicalTimes("floor", times) : range # {} /\ (t < Min(range) \/ t > Max(range))}
StructuralFlags(bars, funding) ==
    [raw     |-> RangeStatus(bars, funding),
     ranges  |-> [i \in DOMAIN Policies |-> RangeStatus(bars, CanonicalTimes(Policies[i], funding))],
     jitter  |-> SubsecondJitter(funding),
     extraFunding |-> Cardinality(OutsideRange(funding, bars)),
     extraBars    |-> Cardinality(OutsideRange(bars, funding))]
\* A window takes the times as they are and makes them canonical afterwards.
CanonicalizationOf(bars, funding, windows) ==
    LET evidence == EvidenceByPolicy(bars, funding)
    IN [policies |-> evidence,
        best     |-> BestPolicy(evidence),
        flags    |-> StructuralFlags(bars, funding),
        windows  |-> [k \in DOMAIN windows |-> [part \in Parts |->
            EvidenceByPolicy(Within(bars, windows[k], part), Within(funding, windows[k], part))]]]
Canonicalization(windows, opened) ==
    [s \in DOMAIN opened["bars"] |->
        CanonicalizationOf(TimesOf(opened["bars"][s]), TimesOf(opened["funding"][s]), windows)]

-----------------------------------------------------------------------------
(* The readiness gate: which symbols may have funding applied to them.        *)

Floor(evidence) == evidence[1]
ReadinessReasons(e) ==
    {r \in {"count_mismatch", "partial", "none", "unexpected_status", "funding_without_bars",
            "bars_without_funding", "collision", "ambiguous"} :
        CASE r = "count_mismatch"       -> e.bars # e.funding \/ e.matched # e.bars
          [] r = "partial"              -> e.status = "partial"
          [] r = "none"                 -> e.status = "none"
          [] r = "unexpected_status"    -> e.status = "empty"
          [] r = "funding_without_bars" -> e.fundingOnly > 0
          [] r = "bars_without_funding" -> e.barsOnly > 0
          [] r = "collision"            -> e.collisions > 0
          [] r = "ambiguous"            -> e.ambiguous > 0}
SplitReadiness(e) ==
    IF e.bars = 0 /\ e.funding = 0 THEN {}
    ELSE ReadinessReasons(e)
         \cup (IF e.bars = 0 THEN {"empty_bars"} ELSE {})
         \cup (IF e.funding = 0 THEN {"empty_funding"} ELSE {})
\* Mutant: what is wrong with a window is left to the windows.
NoSplitReasons(canon) == {}
SplitReasons(canon) ==
    UNION {SplitReadiness(Floor(canon.windows[k][part])) : k \in DOMAIN canon.windows, part \in Parts}
BlockedReasons(canon) ==
    ReadinessReasons(Floor(canon.policies))
    \cup (IF Floor(canon.flags.ranges) = "matching" THEN {} ELSE {"range_mismatch"})
    \cup (IF canon.flags.extraFunding > 0 THEN {"extra_funding_outside_bars_range"} ELSE {})
    \cup (IF canon.flags.extraBars > 0 THEN {"bars_outside_funding_range"} ELSE {})
    \cup SplitReasons(canon)
\* The other diagnostics corroborate by having the symbol.
Readiness(aligned, joinability, convention, canon) ==
    [s \in DOMAIN aligned \cup DOMAIN joinability \cup DOMAIN convention \cup DOMAIN canon |->
        IF s \notin DOMAIN canon THEN {"missing_canonicalization"}
        ELSE BlockedReasons(canon[s])
             \cup (IF s \in DOMAIN aligned \cap DOMAIN joinability \cap DOMAIN convention THEN {}
                   ELSE {"missing_policy_diagnostics"})]
Eligible(readiness) == {s \in DOMAIN readiness : readiness[s] = {}}

-----------------------------------------------------------------------------
(* The scaffold: rows of bars and the rates that go with them, for the        *)
(* eligible symbols alone.  A bar or rate that is not as the gate saw it ends   *)
(* the run.                                                                 *)

EvidenceIsClean(e, bars) ==
    /\ e.status = "exact" /\ e.matched = bars /\ e.funding = bars /\ e.bars = bars
    /\ e.barsOnly = 0 /\ e.fundingOnly = 0 /\ e.collisions = 0 /\ e.ambiguous = 0
EligibleIsClean(canon) ==
    /\ EvidenceIsClean(Floor(canon.policies), Floor(canon.policies).bars)
    /\ Floor(canon.flags.ranges) = "matching"
    /\ canon.flags.extraFunding = 0 /\ canon.flags.extraBars = 0
    /\ SplitReasons(canon) = {}
ScaffoldTakes(readiness, canon) == \A s \in Eligible(readiness) : EligibleIsClean(canon[s])
HashesOfEligible(readiness, inventory, hashed) ==
    \A s \in Eligible(readiness), role \in Roles : inventory[role][s].sha = hashed[role][s]

\* What is opened is not compared again; rows without a time are skipped.  The
\* others are in their order, which is what SelectSeq selects; with the indices
\* in sight a proof can tell how many they are.
TimedRows(file) ==
    LET timed == {i \in DOMAIN file.rows : file.rows[i].t # Blank}
        rank(i) == Cardinality({j \in timed : j <= i})
    IN [n \in 1..Cardinality(timed) |-> file.rows[CHOOSE i \in timed : rank(i) = n]]
FundingLookup(file) == {[at |-> Canonical("floor", row.t), rate |-> row.v] : row \in Range(TimedRows(file))}
ScaffoldReadsOf(bars, funding) ==
    /\ "time" \in bars.columns /\ funding.columns = {"time", "value"}
    /\ \A row \in Range(TimedRows(bars)) \cup Range(TimedRows(funding)) : IsTime(row.t)
    /\ \A i, j \in DOMAIN TimedRows(funding) :
          Canonical("floor", TimedRows(funding)[i].t) = Canonical("floor", TimedRows(funding)[j].t) => i = j
    /\ \A row \in Range(TimedRows(bars)) :
          \E f \in FundingLookup(funding) : f.at = Canonical("floor", row.t)
    /\ \A f \in FundingLookup(funding) : f.rate # NoRate
ScaffoldReads(readiness, opened) ==
    \A s \in Eligible(readiness) : ScaffoldReadsOf(opened["bars"][s], opened["funding"][s])
JoinedRows(bars, funding) ==
    [i \in DOMAIN TimedRows(bars) |->
        [t |-> TimedRows(bars)[i].t,
         rate |-> (CHOOSE f \in FundingLookup(funding) :
                      f.at = Canonical("floor", TimedRows(bars)[i].t)).rate]]
Sample(rows) ==
    IF Len(rows) <= 2 * HalfSample THEN rows
    ELSE SubSeq(rows, 1, HalfSample) \o SubSeq(rows, Len(rows) - HalfSample + 1, Len(rows))
ScaffoldOf(bars, funding) ==
    LET rows == JoinedRows(bars, funding)
    IN [total    |-> Len(rows),
        zero     |-> Cardinality({i \in DOMAIN rows : rows[i].rate = 0}),
        positive |-> Cardinality({i \in DOMAIN rows : rows[i].rate > 0}),
        negative |-> Cardinality({i \in DOMAIN rows : rows[i].rate < 0}),
        sample   |-> Sample(rows)]
\* Blocked symbols come first, with their reasons and nothing else.
Scaffold(readiness, opened) ==
    [blocked  |-> [s \in DOMAIN readiness \ Eligible(readiness) |-> readiness[s]],
     eligible |-> [s \in Eligible(readiness) |->
         ScaffoldOf(opened["bars"][s], opened["funding"][s])]]

-----------------------------------------------------------------------------
(* What is said of the scaffold: a policy, an arithmetic of fixed cases, the   *)
(* cash flows of the sample, and their sums.                                 *)

SkippedIsWhole(scaffold) == \A s \in DOMAIN scaffold.blocked : scaffold.blocked[s] # {}
PolicyContract(scaffold) ==
    [eligible |-> [s \in DOMAIN scaffold.eligible |-> scaffold.eligible[s].total],
     blocked  |-> scaffold.blocked]

\* Longs pay a positive rate, shorts receive it.
Cashflow(side, rate, notional) == IF side = "long" THEN -(rate * notional) ELSE rate * notional
FixtureCases == {<<"long", 1>>, <<"short", 1>>, <<"long", -1>>, <<"short", -1>>,
                 <<"long", 0>>, <<"short", 0>>}
FixtureExpected(case) ==
    IF case[2] = 0 THEN 0
    ELSE IF (case[1] = "long") = (case[2] > 0) THEN -1 ELSE 1
ArithmeticScaffold == \A case \in FixtureCases : Cashflow(case[1], case[2], 1) = FixtureExpected(case)

RowScaffoldTakes(scaffold) ==
    \A s \in DOMAIN scaffold.eligible : Len(scaffold.eligible[s].sample) <= 2 * HalfSample
CashflowRows(sample) ==
    [i \in DOMAIN sample |->
        [rate |-> sample[i].rate, long |-> Cashflow("long", sample[i].rate, 1),
         short |-> Cashflow("short", sample[i].rate, 1)]]
RowScaffold(scaffold) ==
    [eligible |-> [s \in DOMAIN scaffold.eligible |-> CashflowRows(scaffold.eligible[s].sample)],
     blocked  |-> scaffold.blocked]

AggregateTakes(rowScaffold) ==
    \A s \in DOMAIN rowScaffold.eligible :
        LET rows == rowScaffold.eligible[s]
        IN rows # <<>> /\ \A i \in DOMAIN rows :
              rows[i].long = -rows[i].rate /\ rows[i].short = rows[i].rate
SumOf(rows, side) == FoldFunction(+, 0, [i \in DOMAIN rows |-> rows[i][side]])
AggregateOf(rows) ==
    [rows |-> Len(rows), long |-> SumOf(rows, "long"), short |-> SumOf(rows, "short")]
SampleAggregate(rowScaffold) ==
    [eligible |-> [s \in DOMAIN rowScaffold.eligible |-> AggregateOf(rowScaffold.eligible[s])],
     blocked  |-> rowScaffold.blocked]
AggregateBalances(aggregate) ==
    \A s \in DOMAIN aggregate.eligible : aggregate.eligible[s].long + aggregate.eligible[s].short = 0

-----------------------------------------------------------------------------
(* Whether training and validation overlap; touching is not overlapping.      *)

Overlapping(w) ==
    Max({w.train.from, w.validation.from}) < Min({w.train.to, w.validation.to})
Gap(w) == (w.validation.from - w.train.to) \div Second
SplitLeakage(windows) ==
    [status   |-> IF \E k \in DOMAIN windows : Overlapping(windows[k]) THEN "blocked" ELSE "insufficient",
     adjacent |-> \A k \in DOMAIN windows : Gap(windows[k]) <= 0]
=============================================================================
