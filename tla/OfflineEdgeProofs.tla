------------------------- MODULE OfflineEdgeProofs --------------------------
(***************************************************************************)
(* Proofs about a run of the offline-edge validation: what a receipt that     *)
(* says the pre-registration chain is closed says of the seven packets, how    *)
(* the thirty gates of a receipt hang together, and what a receipt of a run    *)
(* over files that stayed as they were says of the data: the windows tile the   *)
(* times of the inventory, the symbols found eligible are joined in full, and  *)
(* what the passes counted, each on its own reading, is one count.           *)
(***************************************************************************)
EXTENDS OfflineEdge, InductionFacts, TLAPS

-----------------------------------------------------------------------------
(* Functions that are put together of others.                               *)

LEMMA OverIs ==
    ASSUME NEW new, NEW old
    PROVE  /\ DOMAIN Over(new, old) = DOMAIN new \cup DOMAIN old
           /\ \A k \in DOMAIN new : Over(new, old)[k] = new[k]
           /\ \A k \in DOMAIN old \ DOMAIN new : Over(new, old)[k] = old[k]
  BY DEF Over

LEMMA PutIs ==
    ASSUME NEW key, NEW value, NEW old
    PROVE  /\ DOMAIN Over(Entry(key, value), old) = DOMAIN old \cup {key}
           /\ Over(Entry(key, value), old)[key] = value
           /\ \A k \in DOMAIN old \ {key} : Over(Entry(key, value), old)[k] = old[k]
  BY DEF Over, Entry

-----------------------------------------------------------------------------
(* The seven packets.                                                       *)

LEMMA ChainIs ==
    /\ DOMAIN Chain = 1..7 /\ Len(Chain) = 7
    /\ Chain[1] = "contract" /\ Chain[2] = "manifest" /\ Chain[3] = "seal" /\ Chain[4] = "null"
    /\ Chain[5] = "testing" /\ Chain[6] = "simulation" /\ Chain[7] = "economic"
  BY DEF Chain

LEMMA PacketsAre ==
    Packets = {"contract", "manifest", "seal", "null", "testing", "simulation", "economic"}
  <1>1. \A i \in 1..7 : i = 1 \/ i = 2 \/ i = 3 \/ i = 4 \/ i = 5 \/ i = 6 \/ i = 7
    OBVIOUS
  <1> QED
    BY <1>1, ChainIs DEF Packets

LEMMA PlaceIs == \A i \in 1..7 : Place(Chain[i]) = i
  <1>1. \A i, j \in 1..7 : Chain[i] = Chain[j] => i = j
    BY ChainIs
  <1> QED
    BY <1>1, ChainIs DEF Place

LEMMA BeforeIs ==
    /\ Before("contract") = {}
    /\ Before("manifest") = {"contract"}
    /\ Before("seal") = {"contract", "manifest"}
    /\ Before("null") = {"contract", "manifest", "seal"}
    /\ Before("testing") = {"contract", "manifest", "seal", "null"}
    /\ Before("simulation") = {"contract", "manifest", "seal", "null", "testing"}
    /\ Before("economic") = {"contract", "manifest", "seal", "null", "testing", "simulation"}
  <1>1. \A i \in 1..7 : Before(Chain[i]) = {Chain[j] : j \in 1..(i - 1)}
    BY PlaceIs DEF Before
  <1>2. /\ 1..(1 - 1) = {} /\ 1..(2 - 1) = {1} /\ 1..(3 - 1) = {1, 2} /\ 1..(4 - 1) = {1, 2, 3}
        /\ 1..(5 - 1) = {1, 2, 3, 4} /\ 1..(6 - 1) = {1, 2, 3, 4, 5}
        /\ 1..(7 - 1) = {1, 2, 3, 4, 5, 6}
    OBVIOUS
  <1>3. Before("contract") = {} /\ Before("manifest") = {"contract"}
    BY <1>1, <1>2, ChainIs
  <1>4. Before("seal") = {"contract", "manifest"}
    BY <1>1, <1>2, ChainIs
  <1>5. Before("null") = {"contract", "manifest", "seal"}
    BY <1>1, <1>2, ChainIs
  <1>6. Before("testing") = {"contract", "manifest", "seal", "null"}
    BY <1>1, <1>2, ChainIs
  <1>7. Before("simulation") = {"contract", "manifest", "seal", "null", "testing"}
    BY <1>1, <1>2, ChainIs
  <1>8. Before("economic") = {"contract", "manifest", "seal", "null", "testing", "simulation"}
    BY <1>1, <1>2, ChainIs
  <1> QED
    BY <1>3, <1>4, <1>5, <1>6, <1>7, <1>8

\* What a packet that was read and has passed its gate is known for: it departs
\* from nothing, and names the digests of all before it as they were read.
IsVouched(p, c, seen, heads) ==
    /\ c.loosened = {} /\ ~c.authorizes
    /\ \A q \in Before(p) : c.bound[q] = seen[q].digest
    /\ p = "contract" => \E i \in DOMAIN heads : heads[i] = c.digest
    /\ p = "manifest" => seen["contract"].gate = "passed"

LEMMA ContractIsVouched ==
    ASSUME NEW c, IsPacket("contract", c), NEW own, NEW reads, NEW heads, NEW seen,
           ContractAccepted(c, own, reads, heads), ContractSeen(c, reads).gate = "passed"
    PROVE  ContractSeen(c, reads).digest = c.digest /\ IsVouched("contract", c, seen, heads)
  <1>1. Upholds(c, {"ceiling", "boundary"}) /\ ~c.authorizes
    BY DEF ContractAccepted, ContractIsBounded
  <1>2. reads # {} /\ Upholds(c, {"hash"})
    BY DEF ContractSeen, ContractPacketGate, ContractDiagnostics
  <1>3. c.loosened = {}
    BY <1>1, <1>2 DEF IsPacket, Declarations, Upholds
  <1>4. \E i \in DOMAIN heads : heads[i] = c.digest
    <2>1. PICK b \in reads : BindsCommit(c, b, heads)
      BY <1>2 DEF ContractAccepted, ContractBindingHolds
    <2> QED
      BY <2>1 DEF BindsCommit, BlobAt
  <1> QED
    BY <1>1, <1>3, <1>4, BeforeIs DEF IsVouched, ContractSeen

LEMMA ManifestIsVouched ==
    ASSUME NEW c, IsPacket("manifest", c), NEW own, NEW heads, NEW seen,
           ManifestAccepted(c, own, seen), ManifestSeen(c).gate = "passed"
    PROVE  ManifestSeen(c).digest = c.digest /\ IsVouched("manifest", c, seen, heads)
  <1>1. c.loosened = {} /\ ~c.authorizes
    BY DEF ManifestAccepted, ManifestIsFrozen, ManifestSeen, ManifestGate, ManifestDiagnostics
  <1>2. \A q \in Before("manifest") : c.bound[q] = seen[q].digest
    BY BeforeIs DEF ManifestAccepted, ManifestBinds, Names
  <1> QED
    BY <1>1, <1>2 DEF IsVouched, ManifestSeen, ManifestAccepted, ManifestBinds

LEMMA SealIsVouched ==
    ASSUME NEW c, IsPacket("seal", c), NEW own, NEW heads, NEW seen,
           SealAccepted(c, own, seen), SealSeen(c).gate = "passed"
    PROVE  SealSeen(c).digest = c.digest /\ IsVouched("seal", c, seen, heads)
  <1>1. c.loosened = {} /\ ~c.authorizes
    BY DEF SealAccepted, SealIsFrozen, SealSeen, SealGate, SealDiagnostics
  <1>2. \A q \in Before("seal") : c.bound[q] = seen[q].digest
    BY BeforeIs DEF SealAccepted, SealBinds, Names
  <1> QED
    BY <1>1, <1>2 DEF IsVouched, SealSeen

LEMMA NullIsVouched ==
    ASSUME NEW c, IsPacket("null", c), NEW own, NEW heads, NEW seen,
           NullAccepted(c, own, seen), NullSeen(c).gate = "passed"
    PROVE  NullSeen(c).digest = c.digest /\ IsVouched("null", c, seen, heads)
  <1>1. c.loosened = {} /\ ~c.authorizes
    BY DEF NullAccepted, NullIsFrozen, NullSeen, NullGate, NullDiagnostics
  <1>2. \A q \in Before("null") : c.bound[q] = seen[q].digest
    BY BeforeIs DEF NullAccepted, NullBinds, Names
  <1> QED
    BY <1>1, <1>2 DEF IsVouched, NullSeen

LEMMA TestingIsVouched ==
    ASSUME NEW c, IsPacket("testing", c), NEW own, NEW heads, NEW seen,
           TestingAccepted(c, own, seen), TestingSeen(c).gate = "passed"
    PROVE  TestingSeen(c).digest = c.digest /\ IsVouched("testing", c, seen, heads)
  <1>1. c.loosened = {} /\ ~c.authorizes
    BY DEF TestingAccepted, TestingIsFrozen, TestingSeen, TestingGate, TestingDiagnostics
  <1>2. \A q \in Before("testing") : c.bound[q] = seen[q].digest
    BY BeforeIs DEF TestingAccepted, TestingBinds, Names
  <1> QED
    BY <1>1, <1>2 DEF IsVouched, TestingSeen

LEMMA SimulationIsVouched ==
    ASSUME NEW c, IsPacket("simulation", c), NEW own, NEW heads, NEW seen,
           SimulationAccepted(c, own, seen), SimulationSeen(c).gate = "passed"
    PROVE  SimulationSeen(c).digest = c.digest /\ IsVouched("simulation", c, seen, heads)
  <1>1. c.loosened = {} /\ ~c.authorizes
    BY DEF SimulationAccepted, SimulationIsFrozen, SimulationSeen, SimulationGate, SimulationDiagnostics
  <1>2. \A q \in Before("simulation") : c.bound[q] = seen[q].digest
    BY BeforeIs DEF SimulationAccepted, SimulationBinds, Names
  <1> QED
    BY <1>1, <1>2 DEF IsVouched, SimulationSeen

LEMMA EconomicIsVouched ==
    ASSUME NEW c, IsPacket("economic", c), NEW own, NEW heads, NEW seen,
           EconomicAccepted(c, own, seen), EconomicSeen(c).gate = "passed"
    PROVE  EconomicSeen(c).digest = c.digest /\ IsVouched("economic", c, seen, heads)
  <1>1. c.loosened = {} /\ ~c.authorizes
    BY DEF EconomicAccepted, EconomicIsFrozen, EconomicSeen, EconomicGate, EconomicDiagnostics
  <1>2. \A q \in Before("economic") : c.bound[q] = seen[q].digest
    BY BeforeIs DEF EconomicAccepted, EconomicBinds, Names
  <1> QED
    BY <1>1, <1>2 DEF IsVouched, EconomicSeen

\* Whatever its name, a packet that is accepted and passes its gate is vouched for.
LEMMA AcceptedIsVouched ==
    ASSUME NEW p \in Packets, NEW c, IsPacket(p, c), NEW own, NEW reads, NEW heads, NEW seen,
           Accepted(p, c, own, seen, reads, heads), SeenOf(p, c, reads).gate = "passed"
    PROVE  SeenOf(p, c, reads).digest = c.digest /\ IsVouched(p, c, seen, heads)
  <1> CASE p = "contract"
    BY ContractIsVouched DEF Accepted, SeenOf
  <1> CASE p = "manifest"
    BY ManifestIsVouched DEF Accepted, SeenOf
  <1> CASE p = "seal"
    BY SealIsVouched DEF Accepted, SeenOf
  <1> CASE p = "null"
    BY NullIsVouched DEF Accepted, SeenOf
  <1> CASE p = "testing"
    BY TestingIsVouched DEF Accepted, SeenOf
  <1> CASE p = "simulation"
    BY SimulationIsVouched DEF Accepted, SeenOf
  <1> CASE p = "economic"
    BY EconomicIsVouched DEF Accepted, SeenOf
  <1> QED
    BY PacketsAre

LEMMA AbsentHasNotPassed == \A p \in Packets : AbsentOf(p).gate # "passed"
  BY PacketsAre DEF AbsentOf, Absent, NullAbsent, TestingAbsent, SimulationAbsent, EconomicAbsent,
                    EconomicPolicyAbsent

-----------------------------------------------------------------------------
(* The stages, and what is asked of a gate.                                 *)

Upto(n) == {Stages[i] : i \in 1..n}

LEMMA StagesAre ==
    /\ DOMAIN Stages = 1..30
    /\ Stages[1] = "contract" /\ Stages[2] = "manifest" /\ Stages[3] = "closure"
    /\ Stages[4] = "boundary" /\ Stages[5] = "invocation" /\ Stages[6] = "projection"
    /\ Stages[7] = "shape" /\ Stages[8] = "row_count" /\ Stages[9] = "temporal"
    /\ Stages[10] = "joinability" /\ Stages[11] = "dry_harness" /\ Stages[12] = "rule_lock"
    /\ Stages[13] = "rule_rows" /\ Stages[14] = "event_lock" /\ Stages[15] = "events"
    /\ Stages[16] = "economic_lock" /\ Stages[17] = "economic_rows" /\ Stages[18] = "null_lock"
    /\ Stages[19] = "null_rows" /\ Stages[20] = "statistic_lock" /\ Stages[21] = "statistic_rows"
    /\ Stages[22] = "contract_lock" /\ Stages[23] = "readiness_rows"
    /\ Stages[24] = "descriptive_lock" /\ Stages[25] = "descriptive_rows"
    /\ Stages[26] = "count_policy" /\ Stages[27] = "counts" /\ Stages[28] = "inference_lock"
    /\ Stages[29] = "inference_rows" /\ Stages[30] = "comparison_lock"
  BY DEF Stages

\* No stage is there twice.
LEMMA StagesDiffer == \A i, j \in 1..30 : Stages[i] = Stages[j] => i = j
  BY StagesAre

LEMMA StagePlaceIs == \A i \in 1..30 : StagePlace(Stages[i]) = i
  BY StagesAre, StagesDiffer DEF StagePlace

LEMMA UptoGrows ==
    /\ \A n \in 1..29 : Upto(n + 1) = Upto(n) \cup {Stages[n + 1]} /\ Stages[n + 1] \notin Upto(n)
    /\ Upto(30) = StageNames
  <1>1. ASSUME NEW n \in 1..29
        PROVE  Upto(n + 1) = Upto(n) \cup {Stages[n + 1]} /\ Stages[n + 1] \notin Upto(n)
    <2>1. 1..(n + 1) = (1..n) \cup {n + 1}
      OBVIOUS
    <2>2. Stages[n + 1] \notin Upto(n)
      BY StagesDiffer DEF Upto
    <2> QED
      BY <2>1, <2>2 DEF Upto
  <1>2. Upto(30) = StageNames
    BY StagesAre DEF Upto, StageNames
  <1> QED
    BY <1>1, <1>2

\* The gates of the first n stages are there; the ones that pass come before
\* the ones that do not, and the blamed are earlier stages that do not pass.
PrefixTo(g, n) ==
    /\ DOMAIN g = Upto(n)
    /\ \A i, j \in 1..n : (g[Stages[j]] = {} /\ i <= j) => g[Stages[i]] = {}
    /\ \A j \in 1..n : \A b \in g[Stages[j]] \ {"own"} :
          \E i \in 1..(j - 1) : b = Stages[i] /\ g[b] # {}

\* What a new gate owes the gates before it.
Follows(gate, g, n) ==
    /\ gate = {} => g[Stages[n]] = {}
    /\ \A b \in gate \ {"own"} : b \in DOMAIN g /\ g[b] # {}

LEMMA GateExtends ==
    ASSUME NEW g, NEW n \in 1..29, PrefixTo(g, n), NEW gate, Follows(gate, g, n)
    PROVE  PrefixTo(Over(Entry(Stages[n + 1], gate), g), n + 1)
  <1> DEFINE h == Over(Entry(Stages[n + 1], gate), g)
  <1>1. /\ DOMAIN h = Upto(n + 1) /\ h[Stages[n + 1]] = gate
        /\ \A i \in 1..n : h[Stages[i]] = g[Stages[i]] /\ Stages[i] \in DOMAIN g
    <2>1. DOMAIN g = Upto(n) /\ Stages[n + 1] \notin Upto(n)
      BY UptoGrows DEF PrefixTo
    <2>2. \A i \in 1..n : Stages[i] \in DOMAIN g
      BY <2>1 DEF Upto
    <2>3. /\ DOMAIN h = DOMAIN g \cup {Stages[n + 1]} /\ h[Stages[n + 1]] = gate
          /\ \A k \in DOMAIN g \ {Stages[n + 1]} : h[k] = g[k]
      BY DEF Over, Entry
    <2>4. Upto(n + 1) = Upto(n) \cup {Stages[n + 1]}
      BY UptoGrows
    <2> HIDE DEF h
    <2> QED
      BY <2>1, <2>2, <2>3, <2>4
  <1>2. \A b \in DOMAIN g : h[b] = g[b] /\ \E i \in 1..n : b = Stages[i]
    BY <1>1 DEF PrefixTo, Upto
  <1>3. ASSUME NEW i \in 1..(n + 1), NEW j \in 1..(n + 1), h[Stages[j]] = {}, i <= j
        PROVE  h[Stages[i]] = {}
    <2> CASE j \in 1..n
      BY <1>1, <1>3 DEF PrefixTo
    <2> CASE j = n + 1
      <3>1. g[Stages[n]] = {} /\ h[Stages[n]] = {}
        BY <1>1, <1>3 DEF Follows
      <3>2. \A k \in 1..n : h[Stages[k]] = {}
        BY <1>1, <3>1 DEF PrefixTo
      <3> QED
        BY <1>3, <3>2
    <2> QED
      OBVIOUS
  <1>4. ASSUME NEW j \in 1..(n + 1), NEW b \in h[Stages[j]] \ {"own"}
        PROVE  \E i \in 1..(j - 1) : b = Stages[i] /\ h[b] # {}
    <2> CASE j \in 1..n
      <3>1. PICK i \in 1..(j - 1) : b = Stages[i] /\ g[b] # {}
        BY <1>1, <1>4 DEF PrefixTo
      <3> QED
        BY <1>1, <3>1
    <2> CASE j = n + 1
      <3>1. b \in DOMAIN g /\ g[b] # {}
        BY <1>1, <1>4 DEF Follows
      <3>2. PICK i \in 1..n : b = Stages[i] /\ h[b] = g[b]
        BY <1>2, <3>1
      <3> QED
        BY <3>1, <3>2
    <2> QED
      OBVIOUS
  <1> HIDE DEF h
  <1>5. PrefixTo(h, n + 1)
    BY <1>1, <1>3, <1>4 DEF PrefixTo
  <1> QED
    BY <1>5 DEF h

\* The first group with a stage that has not passed is well defined, and what a
\* gate blames is of it.
LEMMA BlameIs ==
    ASSUME NEW passed, NEW groups, NEW own, DOMAIN groups \in SUBSET Nat
    PROVE  \/ \E i \in DOMAIN groups :
                 groups[i] \ passed # {} /\ Blame(passed, groups, own) = groups[i] \ passed
           \/ /\ \A i \in DOMAIN groups : groups[i] \subseteq passed
              /\ Blame(passed, groups, own) \in {{}, {"own"}}
  <1> DEFINE failing == {i \in DOMAIN groups : ~(groups[i] \subseteq passed)}
  <1> CASE failing = {}
    BY DEF Blame
  <1> CASE failing # {}
    <2>1. PICK m \in failing : \A j \in failing : m <= j
      BY LeastNatural
    <2>2. PICK k : k = CHOOSE i \in failing : \A j \in failing : i <= j
      OBVIOUS
    <2>3. k \in failing
      BY <2>1, <2>2
    <2>4. Blame(passed, groups, own) = groups[k] \ passed
      BY <2>2 DEF Blame
    <2> QED
      BY <2>3, <2>4
  <1> QED
    OBVIOUS

\* A gate that copies the stages it asks about, that is asked for the stage just
\* before it, and blames the first group that has not passed.
LEMMA BlameFollows ==
    ASSUME NEW g, NEW n \in 1..29, DOMAIN g = Upto(n),
           NEW names, names \subseteq Upto(n), NEW passed, passed = Copied(g, names),
           NEW groups, DOMAIN groups \in SUBSET Nat,
           \A i \in DOMAIN groups : groups[i] \subseteq names,
           \E i \in DOMAIN groups : Stages[n] \in groups[i],
           NEW own
    PROVE  Follows(Blame(passed, groups, own), g, n)
  <1>1. \A b \in names \ passed : b \in DOMAIN g /\ g[b] # {}
    BY DEF Copied, Passed
  <1>2. \A b \in passed : g[b] = {}
    BY DEF Copied, Passed
  <1>3. CASE \E i \in DOMAIN groups :
                groups[i] \ passed # {} /\ Blame(passed, groups, own) = groups[i] \ passed
    BY <1>1, <1>3 DEF Follows
  <1>4. CASE /\ \A i \in DOMAIN groups : groups[i] \subseteq passed
             /\ Blame(passed, groups, own) \in {{}, {"own"}}
    BY <1>2, <1>4 DEF Follows
  <1> QED
    BY <1>3, <1>4, BlameIs

-----------------------------------------------------------------------------
(* What is carried from stage to stage: the gates, and once they are there   *)
(* the rows and the diagnostics of the economic rows and of the inference.    *)

LEMMA StageSets ==
    /\ Chained \subseteq Upto(2) /\ Invoked \subseteq Upto(5) /\ Shaped \subseteq Upto(7)
    /\ Measured \subseteq Upto(9) /\ Harnessed \subseteq Upto(11)
    /\ RuleRowed \subseteq Upto(13) /\ Evented \subseteq Upto(14) /\ Settled \subseteq Upto(15)
    /\ Older \subseteq Upto(16) /\ NullRowed \subseteq Upto(18) /\ StatisticRowed \subseteq Upto(20)
    /\ ReadinessRowed \subseteq Upto(22) /\ DescriptiveRowed \subseteq Upto(24)
    /\ Counted \subseteq Upto(26) /\ Inferred \subseteq Upto(28)
    /\ \A i, j \in 1..30 : i <= j => Stages[i] \in Upto(j) /\ Upto(i) \subseteq Upto(j)
  <1>1. \A i, j \in 1..30 : i <= j => Stages[i] \in Upto(j) /\ Upto(i) \subseteq Upto(j)
    BY DEF Upto
  <1>2. Chained \subseteq Upto(2) /\ Invoked \subseteq Upto(5)
    BY <1>1, StagesAre DEF Chained, Invoked
  <1>3. Shaped \subseteq Upto(7)
    BY <1>1, <1>2, StagesAre DEF Shaped
  <1>4. Measured \subseteq Upto(9)
    BY <1>1, <1>3, StagesAre DEF Measured
  <1>5. Harnessed \subseteq Upto(11)
    BY <1>1, <1>4, StagesAre DEF Harnessed
  <1>6. RuleRowed \subseteq Upto(13)
    BY <1>1, <1>5, StagesAre DEF RuleRowed
  <1>7. Evented \subseteq Upto(14)
    BY <1>1, <1>6, StagesAre DEF Evented
  <1>8. Settled \subseteq Upto(15)
    BY <1>1, <1>7, StagesAre DEF Settled
  <1>9. Older \subseteq Upto(16)
    BY <1>1, <1>8, StagesAre DEF Older
  <1>10. NullRowed \subseteq Upto(18)
    BY <1>1, StagesAre DEF NullRowed
  <1>11. StatisticRowed \subseteq Upto(20)
    BY <1>1, <1>10, StagesAre DEF StatisticRowed
  <1>12. ReadinessRowed \subseteq Upto(22)
    BY <1>1, <1>11, StagesAre DEF ReadinessRowed
  <1>13. DescriptiveRowed \subseteq Upto(24)
    BY <1>1, <1>12, StagesAre DEF DescriptiveRowed
  <1>14. Counted \subseteq Upto(26)
    BY <1>1, <1>13, StagesAre DEF Counted
  <1>15. Inferred \subseteq Upto(28)
    BY <1>1, <1>14, StagesAre DEF Inferred
  <1> QED
    BY <1>1, <1>2, <1>3, <1>4, <1>5, <1>6, <1>7, <1>8, <1>9, <1>10, <1>11, <1>12, <1>13, <1>14, <1>15

Keeps(old, new) == DOMAIN old \subseteq DOMAIN new /\ \A s \in DOMAIN old : new[s] = old[s]

LEMMA CopiedIsKept ==
    ASSUME NEW old, NEW new, Keeps(old, new), NEW names, names \subseteq DOMAIN old
    PROVE  Copied(new, names) = Copied(old, names)
  BY DEF Keeps, Copied, Passed

LEMMA CarriedIs ==
    ASSUME NEW g, NEW names, NEW economic, economic.passed = Copied(g, Older)
    PROVE  Carried(g, names, economic) = Copied(g, names \cup Older)
  BY DEF Carried, Copied

\* The stages that emit rows, but for the counts and what is inferred of them.
RowStages ==
    {"rule_rows", "events", "economic_rows", "null_rows", "statistic_rows", "readiness_rows",
     "descriptive_rows"}
\* A stage that has passed has the rows of the rule.
RowsFollow(p, n) ==
    /\ "rows" \in DOMAIN p
    /\ \A s \in RowStages \cap Upto(n) :
          s \in DOMAIN p.rows /\ (p.gates[s] = {} => p.rows[s] = p.rows["rule_rows"])
EconomicFollows(p) ==
    /\ "economic" \in DOMAIN p
    /\ p.economic.passed = Copied(p.gates, Older)
    /\ p.economic.rows = p.rows["economic_rows"]
\* What is counted is counted of the rows of the rule.
CountsFollow(p) ==
    /\ "counts" \in DOMAIN p.rows
    /\ p.rows["counts"] # <<>> => /\ p.gates["counts"] = {}
                                  /\ p.rows["counts"] = CountsOf(p.rows["rule_rows"])
LockFollows(p) == p.gates["counts"] = {} => p.gates["inference_lock"] = {}
InferenceFollows(p) ==
    /\ "inference" \in DOMAIN p
    /\ p.inference.passed = Copied(p.gates, Inferred \cup Older)
    /\ "inference_rows" \in DOMAIN p.rows
    /\ p.rows["counts"] # <<>> =>
          p.rows["inference_rows"][1] = Cardinality(p.rows["rule_rows"])
Carrier(p, n) ==
    /\ "gates" \in DOMAIN p /\ PrefixTo(p.gates, n)
    /\ n >= 13 => RowsFollow(p, n)
    /\ n >= 17 => EconomicFollows(p)
    /\ n >= 27 => CountsFollow(p)
    /\ n >= 28 => LockFollows(p)
    /\ n >= 29 => InferenceFollows(p)

LEMMA LockIs ==
    ASSUME NEW p, "gates" \in DOMAIN p, NEW stage, NEW gate
    PROVE  /\ DOMAIN Lock(p, stage, gate) = DOMAIN p
           /\ Lock(p, stage, gate).gates = Over(Entry(stage, gate), p.gates)
           /\ \A k \in DOMAIN p \ {"gates"} : Lock(p, stage, gate)[k] = p[k]
  BY DEF Lock

LEMMA EmitIs ==
    ASSUME NEW p, "gates" \in DOMAIN p, "rows" \in DOMAIN p, NEW stage, NEW gate, NEW rows
    PROVE  /\ DOMAIN Emit(p, stage, gate, rows) = DOMAIN p
           /\ Emit(p, stage, gate, rows).gates = Over(Entry(stage, gate), p.gates)
           /\ Emit(p, stage, gate, rows).rows = Over(Entry(stage, rows), p.rows)
           /\ \A k \in DOMAIN p \ {"gates", "rows"} : Emit(p, stage, gate, rows)[k] = p[k]
  BY DEF Emit

\* The gates are one longer, and those before are as they were.
LEMMA GateIsKept ==
    ASSUME NEW g, NEW n \in 1..29, PrefixTo(g, n), NEW gate
    PROVE  /\ Keeps(g, Over(Entry(Stages[n + 1], gate), g))
           /\ Over(Entry(Stages[n + 1], gate), g)[Stages[n + 1]] = gate
  <1>1. DOMAIN g = Upto(n) /\ Stages[n + 1] \notin Upto(n)
    BY UptoGrows DEF PrefixTo
  <1> QED
    BY <1>1 DEF Over, Entry, Keeps

LEMMA LockCarries ==
    ASSUME NEW p, NEW n \in 1..29, n + 1 \notin {13, 15, 17, 19, 21, 23, 25, 27, 29},
           Carrier(p, n), NEW gate, Follows(gate, p.gates, n),
           n + 1 = 28 => (p.gates["counts"] = {} => gate = {})
    PROVE  /\ Carrier(Lock(p, Stages[n + 1], gate), n + 1)
           /\ Keeps(p.gates, Lock(p, Stages[n + 1], gate).gates)
  <1> DEFINE q == Lock(p, Stages[n + 1], gate)
  <1>1. "gates" \in DOMAIN p /\ PrefixTo(p.gates, n)
    BY DEF Carrier
  <1>2. /\ DOMAIN q = DOMAIN p /\ q.gates = Over(Entry(Stages[n + 1], gate), p.gates)
        /\ \A k \in DOMAIN p \ {"gates"} : q[k] = p[k]
    BY <1>1, LockIs
  <1>3. PrefixTo(q.gates, n + 1) /\ Keeps(p.gates, q.gates)
    BY <1>1, <1>2, GateExtends, GateIsKept
  <1>4. \A s \in Upto(n) : q.gates[s] = p.gates[s]
    BY <1>1, <1>3 DEF Keeps, PrefixTo
  <1> HIDE DEF q
  <1>5. ASSUME n + 1 >= 13 PROVE RowsFollow(q, n + 1)
    <2>1. RowsFollow(p, n) /\ q.rows = p.rows
      BY <1>2, <1>5 DEF Carrier, RowsFollow
    <2>2. RowStages \cap Upto(n + 1) = RowStages \cap Upto(n)
      <3>1. Upto(n + 1) = Upto(n) \cup {Stages[n + 1]}
        BY UptoGrows
      <3>2. Stages[n + 1] \notin RowStages
        <4>1. Stages[n + 1] \in RowStages =>
                  \/ Stages[n + 1] = Stages[13] \/ Stages[n + 1] = Stages[15]
                  \/ Stages[n + 1] = Stages[17] \/ Stages[n + 1] = Stages[19]
                  \/ Stages[n + 1] = Stages[21] \/ Stages[n + 1] = Stages[23]
                  \/ Stages[n + 1] = Stages[25]
          BY StagesAre DEF RowStages
        <4> QED
          BY <4>1, StagesDiffer
      <3> QED
        BY <3>1, <3>2
    <2> QED
      BY <1>2, <1>4, <2>1, <2>2 DEF RowsFollow
  <1>6. ASSUME n + 1 >= 17 PROVE EconomicFollows(q)
    <2>1. EconomicFollows(p) /\ RowsFollow(p, n)
      BY <1>6 DEF Carrier
    <2>2. Copied(q.gates, Older) = Copied(p.gates, Older)
      BY <1>3, <1>1, <1>6, StageSets, CopiedIsKept DEF PrefixTo
    <2> QED
      BY <1>2, <2>1, <2>2 DEF EconomicFollows, RowsFollow
  <1>7. ASSUME n + 1 >= 27
        PROVE  CountsFollow(q) /\ LockFollows(q) /\ (n >= 29 => InferenceFollows(q))
    <2>1. n >= 27 /\ CountsFollow(p) /\ RowsFollow(p, n)
      BY <1>7 DEF Carrier
    <2>2. q.rows = p.rows
      BY <1>2, <2>1 DEF RowsFollow
    <2>3. q.gates["counts"] = p.gates["counts"]
      BY <1>4, <2>1, StagesAre, StageSets
    <2>4. LockFollows(q)
      <3> CASE n = 27
        <4>1. q.gates["inference_lock"] = gate
          BY <1>1, <1>2, GateIsKept, StagesAre
        <4> QED
          BY <2>3, <4>1 DEF LockFollows
      <3> CASE n # 27
        <4>1. n >= 28 /\ LockFollows(p)
          BY <2>1 DEF Carrier
        <4>2. q.gates["inference_lock"] = p.gates["inference_lock"]
          BY <1>4, <4>1, StagesAre, StageSets
        <4> QED
          BY <2>3, <4>1, <4>2 DEF LockFollows
      <3> QED
        OBVIOUS
    <2>5. ASSUME n >= 29 PROVE InferenceFollows(q)
      <3>1. InferenceFollows(p)
        BY <2>5 DEF Carrier
      <3>2. "inference" \in DOMAIN q /\ q.inference = p.inference
        BY <1>2, <3>1 DEF InferenceFollows
      <3>3. Copied(q.gates, Inferred \cup Older) = Copied(p.gates, Inferred \cup Older)
        <4>1. Inferred \cup Older \subseteq DOMAIN p.gates
          BY <1>1, <2>5, StageSets DEF PrefixTo
        <4> QED
          BY <1>3, <4>1, CopiedIsKept
      <3> QED
        BY <2>2, <3>1, <3>2, <3>3 DEF InferenceFollows
    <2> QED
      BY <2>1, <2>2, <2>3, <2>4, <2>5 DEF CountsFollow
  <1>8. Carrier(q, n + 1)
    BY <1>1, <1>2, <1>3, <1>5, <1>6, <1>7 DEF Carrier
  <1> QED
    BY <1>3, <1>8 DEF q

LEMMA EmitCarries ==
    ASSUME NEW p, NEW n \in 1..29, n + 1 \in {15, 19, 21, 23, 25},
           Carrier(p, n), NEW gate, Follows(gate, p.gates, n),
           NEW rows, gate = {} => rows = p.rows["rule_rows"]
    PROVE  /\ Carrier(Emit(p, Stages[n + 1], gate, rows), n + 1)
           /\ Keeps(p.gates, Emit(p, Stages[n + 1], gate, rows).gates)
  <1> DEFINE q == Emit(p, Stages[n + 1], gate, rows)
  <1>1. "gates" \in DOMAIN p /\ PrefixTo(p.gates, n) /\ RowsFollow(p, n)
    BY DEF Carrier
  <1>2. /\ DOMAIN q = DOMAIN p /\ q.gates = Over(Entry(Stages[n + 1], gate), p.gates)
        /\ q.rows = Over(Entry(Stages[n + 1], rows), p.rows)
        /\ \A k \in DOMAIN p \ {"gates", "rows"} : q[k] = p[k]
    BY <1>1, EmitIs DEF RowsFollow
  <1>3. /\ PrefixTo(q.gates, n + 1) /\ Keeps(p.gates, q.gates)
        /\ q.gates[Stages[n + 1]] = gate
    BY <1>1, <1>2, GateExtends, GateIsKept
  <1>4. \A s \in Upto(n) : q.gates[s] = p.gates[s]
    BY <1>1, <1>3 DEF Keeps, PrefixTo
  <1>5. /\ Stages[n + 1] \in DOMAIN q.rows /\ q.rows[Stages[n + 1]] = rows
        /\ \A s \in DOMAIN p.rows : s # Stages[n + 1] => s \in DOMAIN q.rows /\ q.rows[s] = p.rows[s]
    BY <1>2 DEF Over, Entry
  <1> HIDE DEF q
  <1>6. "rule_rows" \in RowStages \cap Upto(n) /\ Stages[n + 1] # "rule_rows"
        /\ (n + 1 >= 17 => "economic_rows" \in RowStages \cap Upto(n) /\ Stages[n + 1] # "economic_rows")
    BY StagesAre, StageSets DEF RowStages
  <1>7. RowsFollow(q, n + 1)
    <2>1. Upto(n + 1) = Upto(n) \cup {Stages[n + 1]} /\ Stages[n + 1] \notin Upto(n)
      BY UptoGrows
    <2>2. q.rows["rule_rows"] = p.rows["rule_rows"]
      BY <1>1, <1>5, <1>6 DEF RowsFollow
    <2>3. ASSUME NEW s \in RowStages \cap Upto(n + 1)
          PROVE  s \in DOMAIN q.rows /\ (q.gates[s] = {} => q.rows[s] = q.rows["rule_rows"])
      <3> CASE s = Stages[n + 1]
        BY <1>3, <1>5, <2>2
      <3> CASE s # Stages[n + 1]
        BY <1>1, <1>4, <1>5, <2>1, <2>2 DEF RowsFollow
      <3> QED
        OBVIOUS
    <2> QED
      BY <1>1, <1>2, <2>3 DEF RowsFollow
  <1>8. ASSUME n + 1 >= 17 PROVE EconomicFollows(q)
    <2>1. EconomicFollows(p)
      BY <1>8 DEF Carrier
    <2>2. Copied(q.gates, Older) = Copied(p.gates, Older)
      BY <1>3, <1>1, <1>8, StageSets, CopiedIsKept DEF PrefixTo
    <2>3. q.rows["economic_rows"] = p.rows["economic_rows"]
      BY <1>1, <1>5, <1>6, <1>8 DEF RowsFollow
    <2>4. "economic" \in DOMAIN q /\ q.economic = p.economic
      BY <1>2, <2>1 DEF EconomicFollows
    <2> QED
      BY <2>1, <2>2, <2>3, <2>4 DEF EconomicFollows
  <1>9. Carrier(q, n + 1)
    BY <1>1, <1>2, <1>3, <1>7, <1>8 DEF Carrier
  <1> QED
    BY <1>3, <1>9 DEF q

\* A gate that passes has all its groups pass, and its own evidence; one that has
\* both passes.
LEMMA BlamePasses ==
    ASSUME NEW passed, NEW groups, NEW own, DOMAIN groups \in SUBSET Nat
    PROVE  /\ Blame(passed, groups, own) = {} => own
           /\ (own /\ \A i \in DOMAIN groups : groups[i] \subseteq passed)
                 => Blame(passed, groups, own) = {}
  <1> DEFINE failing == {i \in DOMAIN groups : ~(groups[i] \subseteq passed)}
  <1> CASE failing = {}
    BY DEF Blame
  <1> CASE failing # {}
    BY BlameIs DEF Blame
  <1> QED
    OBVIOUS

-----------------------------------------------------------------------------
(* Every stage carries them on.                                             *)

LEMMA BoundaryCarries ==
    ASSUME NEW p, Carrier(p, 3)
    PROVE  Carrier(WithBoundary(p), 4) /\ Keeps(p.gates, WithBoundary(p).gates)
  <1> DEFINE names == {"closure"} \cup Chained
             groups == <<{"closure"}, Chained>>
             passed == Copied(p.gates, names)
             own == TRUE
             gate == Blame(passed, groups, own)
  <1>1. DOMAIN p.gates = Upto(3) /\ names \subseteq Upto(3) /\ passed = Copied(p.gates, names)
    <2>1. DOMAIN p.gates = Upto(3)
      BY DEF Carrier, PrefixTo
    <2>2. names \subseteq Upto(3)
      BY StagesAre, StageSets
    <2>3. passed = Copied(p.gates, names)
      OBVIOUS
    <2> QED
      BY <2>1, <2>2, <2>3
  <1>2. /\ DOMAIN groups \in SUBSET Nat /\ \A i \in DOMAIN groups : groups[i] \subseteq names
        /\ \E i \in DOMAIN groups : Stages[3] \in groups[i]
    <2>1. DOMAIN groups = 1..2
      OBVIOUS
    <2>2. \A i \in 1..2 : groups[i] \subseteq names
      BY DEF Chained
    <2>3. Stages[3] \in groups[1]
      BY StagesAre
    <2> QED
      BY <2>1, <2>2, <2>3
  <1>3. Follows(gate, p.gates, 3)
    <2> HIDE DEF names, groups, passed, own
    <2> QED
      BY <1>1, <1>2, BlameFollows
  <1>4. WithBoundary(p) = Lock(p, Stages[4], gate)
    BY StagesAre DEF WithBoundary, BoundaryGate, BoundaryDiagnostics
  <1> HIDE DEF gate
  <1> QED
    BY <1>3, <1>4, LockCarries

LEMMA InvocationCarries ==
    ASSUME NEW p, Carrier(p, 4)
    PROVE  Carrier(WithInvocation(p), 5) /\ Keeps(p.gates, WithInvocation(p).gates)
  <1> DEFINE names == {"boundary"} \cup Chained
             groups == <<{"boundary"}, Chained>>
             passed == Copied(p.gates, names)
             own == TRUE
             gate == Blame(passed, groups, own)
  <1>1. DOMAIN p.gates = Upto(4) /\ names \subseteq Upto(4) /\ passed = Copied(p.gates, names)
    <2>1. DOMAIN p.gates = Upto(4)
      BY DEF Carrier, PrefixTo
    <2>2. names \subseteq Upto(4)
      BY StagesAre, StageSets
    <2>3. passed = Copied(p.gates, names)
      OBVIOUS
    <2> QED
      BY <2>1, <2>2, <2>3
  <1>2. /\ DOMAIN groups \in SUBSET Nat /\ \A i \in DOMAIN groups : groups[i] \subseteq names
        /\ \E i \in DOMAIN groups : Stages[4] \in groups[i]
    <2>1. DOMAIN groups = 1..2
      OBVIOUS
    <2>2. \A i \in 1..2 : groups[i] \subseteq names
      BY DEF Chained
    <2>3. Stages[4] \in groups[1]
      BY StagesAre
    <2> QED
      BY <2>1, <2>2, <2>3
  <1>3. Follows(gate, p.gates, 4)
    <2> HIDE DEF names, groups, passed, own
    <2> QED
      BY <1>1, <1>2, BlameFollows
  <1>4. WithInvocation(p) = Lock(p, Stages[5], gate)
    BY StagesAre DEF WithInvocation, InvocationGate, InvocationDiagnostics
  <1> HIDE DEF gate
  <1> QED
    BY <1>3, <1>4, LockCarries

LEMMA ProjectionCarries ==
    ASSUME NEW p, Carrier(p, 5)
    PROVE  Carrier(WithProjection(p), 6) /\ Keeps(p.gates, WithProjection(p).gates)
  <1> DEFINE names == Invoked \cup Chained
             groups == <<{"invocation"}, {"boundary"}, Chained>>
             passed == Copied(p.gates, names)
             own == TRUE
             gate == Blame(passed, groups, own)
  <1>1. DOMAIN p.gates = Upto(5) /\ names \subseteq Upto(5) /\ passed = Copied(p.gates, names)
    <2>1. DOMAIN p.gates = Upto(5)
      BY DEF Carrier, PrefixTo
    <2>2. names \subseteq Upto(5)
      BY StagesAre, StageSets
    <2>3. passed = Copied(p.gates, names)
      OBVIOUS
    <2> QED
      BY <2>1, <2>2, <2>3
  <1>2. /\ DOMAIN groups \in SUBSET Nat /\ \A i \in DOMAIN groups : groups[i] \subseteq names
        /\ \E i \in DOMAIN groups : Stages[5] \in groups[i]
    <2>1. DOMAIN groups = 1..3
      OBVIOUS
    <2>2. \A i \in 1..3 : groups[i] \subseteq names
      BY DEF Chained, Invoked
    <2>3. Stages[5] \in groups[1]
      BY StagesAre
    <2> QED
      BY <2>1, <2>2, <2>3
  <1>3. Follows(gate, p.gates, 5)
    <2> HIDE DEF names, groups, passed, own
    <2> QED
      BY <1>1, <1>2, BlameFollows
  <1>4. WithProjection(p) = Lock(p, Stages[6], gate)
    BY StagesAre DEF WithProjection, ProjectionGate, ProjectionDiagnostics
  <1> HIDE DEF gate
  <1> QED
    BY <1>3, <1>4, LockCarries

LEMMA ShapeCarries ==
    ASSUME NEW p, Carrier(p, 6)
    PROVE  Carrier(WithShape(p), 7) /\ Keeps(p.gates, WithShape(p).gates)
  <1> DEFINE names == Invoked \cup {"projection"}
             groups == <<{"projection"}, {"invocation"}, {"boundary"}>>
             passed == Copied(p.gates, names)
             own == TRUE
             gate == Blame(passed, groups, own)
  <1>1. DOMAIN p.gates = Upto(6) /\ names \subseteq Upto(6) /\ passed = Copied(p.gates, names)
    <2>1. DOMAIN p.gates = Upto(6)
      BY DEF Carrier, PrefixTo
    <2>2. names \subseteq Upto(6)
      BY StagesAre, StageSets
    <2>3. passed = Copied(p.gates, names)
      OBVIOUS
    <2> QED
      BY <2>1, <2>2, <2>3
  <1>2. /\ DOMAIN groups \in SUBSET Nat /\ \A i \in DOMAIN groups : groups[i] \subseteq names
        /\ \E i \in DOMAIN groups : Stages[6] \in groups[i]
    <2>1. DOMAIN groups = 1..3
      OBVIOUS
    <2>2. \A i \in 1..3 : groups[i] \subseteq names
      BY DEF Invoked
    <2>3. Stages[6] \in groups[1]
      BY StagesAre
    <2> QED
      BY <2>1, <2>2, <2>3
  <1>3. Follows(gate, p.gates, 6)
    <2> HIDE DEF names, groups, passed, own
    <2> QED
      BY <1>1, <1>2, BlameFollows
  <1>4. WithShape(p) = Lock(p, Stages[7], gate)
    BY StagesAre DEF WithShape, ShapeGate, ShapeDiagnostics
  <1> HIDE DEF gate
  <1> QED
    BY <1>3, <1>4, LockCarries

LEMMA RowCountCarries ==
    ASSUME NEW p, Carrier(p, 7), NEW inventory
    PROVE  Carrier(WithRowCount(p, inventory), 8) /\ Keeps(p.gates, WithRowCount(p, inventory).gates)
  <1> DEFINE names == Shaped
             groups == <<{"shape"}, {"projection"}, {"invocation"}, {"boundary"}>>
             passed == Copied(p.gates, names)
             own == RowCountSummary(inventory)
             gate == Blame(passed, groups, own)
  <1>1. DOMAIN p.gates = Upto(7) /\ names \subseteq Upto(7) /\ passed = Copied(p.gates, names)
    <2>1. DOMAIN p.gates = Upto(7)
      BY DEF Carrier, PrefixTo
    <2>2. names \subseteq Upto(7)
      BY StagesAre, StageSets
    <2>3. passed = Copied(p.gates, names)
      OBVIOUS
    <2> QED
      BY <2>1, <2>2, <2>3
  <1>2. /\ DOMAIN groups \in SUBSET Nat /\ \A i \in DOMAIN groups : groups[i] \subseteq names
        /\ \E i \in DOMAIN groups : Stages[7] \in groups[i]
    <2>1. DOMAIN groups = 1..4
      OBVIOUS
    <2>2. \A i \in 1..4 : groups[i] \subseteq names
      BY DEF Shaped, Invoked
    <2>3. Stages[7] \in groups[1]
      BY StagesAre
    <2> QED
      BY <2>1, <2>2, <2>3
  <1>3. Follows(gate, p.gates, 7)
    <2> HIDE DEF names, groups, passed, own
    <2> QED
      BY <1>1, <1>2, BlameFollows
  <1>4. WithRowCount(p, inventory) = Lock(p, Stages[8], gate)
    BY StagesAre DEF WithRowCount, RowCountGate, RowCountDiagnostics
  <1> HIDE DEF gate
  <1> QED
    BY <1>3, <1>4, LockCarries

LEMMA DryHarnessCarries ==
    ASSUME NEW p, Carrier(p, 10), NEW joinability
    PROVE  Carrier(WithDryHarness(p, joinability), 11) /\ Keeps(p.gates, WithDryHarness(p, joinability).gates)
  <1> DEFINE names == Measured \cup {"joinability"}
             groups == <<{"joinability"}, Measured>>
             passed == Copied(p.gates, names)
             own == DryHarnessSummary(p.gates, joinability)
             gate == Blame(passed, groups, own)
  <1>1. DOMAIN p.gates = Upto(10) /\ names \subseteq Upto(10) /\ passed = Copied(p.gates, names)
    <2>1. DOMAIN p.gates = Upto(10)
      BY DEF Carrier, PrefixTo
    <2>2. names \subseteq Upto(10)
      BY StagesAre, StageSets
    <2>3. passed = Copied(p.gates, names)
      OBVIOUS
    <2> QED
      BY <2>1, <2>2, <2>3
  <1>2. /\ DOMAIN groups \in SUBSET Nat /\ \A i \in DOMAIN groups : groups[i] \subseteq names
        /\ \E i \in DOMAIN groups : Stages[10] \in groups[i]
    <2>1. DOMAIN groups = 1..2
      OBVIOUS
    <2>2. \A i \in 1..2 : groups[i] \subseteq names
      BY DEF Measured
    <2>3. Stages[10] \in groups[1]
      BY StagesAre
    <2> QED
      BY <2>1, <2>2, <2>3
  <1>3. Follows(gate, p.gates, 10)
    <2> HIDE DEF names, groups, passed, own
    <2> QED
      BY <1>1, <1>2, BlameFollows
  <1>4. WithDryHarness(p, joinability) = Lock(p, Stages[11], gate)
    BY StagesAre DEF WithDryHarness, DryHarnessGate, DryHarnessDiagnostics
  <1> HIDE DEF gate
  <1> QED
    BY <1>3, <1>4, LockCarries

LEMMA RuleLockCarries ==
    ASSUME NEW p, Carrier(p, 11)
    PROVE  Carrier(WithRuleLock(p), 12) /\ Keeps(p.gates, WithRuleLock(p).gates)
  <1> DEFINE names == Harnessed
             groups == <<{"dry_harness"}, {"joinability"}, {"temporal"}, {"row_count"},
                         {"shape"}, {"projection"}, {"invocation"}, {"boundary"}>>
             passed == Copied(p.gates, names)
             own == TRUE
             gate == Blame(passed, groups, own)
  <1>1. DOMAIN p.gates = Upto(11) /\ names \subseteq Upto(11) /\ passed = Copied(p.gates, names)
    <2>1. DOMAIN p.gates = Upto(11)
      BY DEF Carrier, PrefixTo
    <2>2. names \subseteq Upto(11)
      BY StagesAre, StageSets
    <2>3. passed = Copied(p.gates, names)
      OBVIOUS
    <2> QED
      BY <2>1, <2>2, <2>3
  <1>2. /\ DOMAIN groups \in SUBSET Nat /\ \A i \in DOMAIN groups : groups[i] \subseteq names
        /\ \E i \in DOMAIN groups : Stages[11] \in groups[i]
    <2>1. DOMAIN groups = 1..8
      OBVIOUS
    <2>2. \A i \in 1..8 : groups[i] \subseteq names
      BY DEF Harnessed, Measured, Shaped, Invoked
    <2>3. Stages[11] \in groups[1]
      BY StagesAre
    <2> QED
      BY <2>1, <2>2, <2>3
  <1>3. Follows(gate, p.gates, 11)
    <2> HIDE DEF names, groups, passed, own
    <2> QED
      BY <1>1, <1>2, BlameFollows
  <1>4. WithRuleLock(p) = Lock(p, Stages[12], gate)
    BY StagesAre DEF WithRuleLock, RuleLockGate, RuleLockDiagnostics
  <1> HIDE DEF gate
  <1> QED
    BY <1>3, <1>4, LockCarries

LEMMA EventLockCarries ==
    ASSUME NEW p, Carrier(p, 13)
    PROVE  Carrier(WithEventLock(p), 14) /\ Keeps(p.gates, WithEventLock(p).gates)
  <1> DEFINE names == RuleRowed
             groups == <<{"rule_rows"}, {"rule_lock"}, {"dry_harness"}, {"joinability"}>>
             passed == Copied(p.gates, names)
             own == RuleRowed \subseteq passed
             gate == Blame(passed, groups, own)
  <1>1. DOMAIN p.gates = Upto(13) /\ names \subseteq Upto(13) /\ passed = Copied(p.gates, names)
    <2>1. DOMAIN p.gates = Upto(13)
      BY DEF Carrier, PrefixTo
    <2>2. names \subseteq Upto(13)
      BY StagesAre, StageSets
    <2>3. passed = Copied(p.gates, names)
      OBVIOUS
    <2> QED
      BY <2>1, <2>2, <2>3
  <1>2. /\ DOMAIN groups \in SUBSET Nat /\ \A i \in DOMAIN groups : groups[i] \subseteq names
        /\ \E i \in DOMAIN groups : Stages[13] \in groups[i]
    <2>1. DOMAIN groups = 1..4
      OBVIOUS
    <2>2. \A i \in 1..4 : groups[i] \subseteq names
      BY DEF RuleRowed, Harnessed
    <2>3. Stages[13] \in groups[1]
      BY StagesAre
    <2> QED
      BY <2>1, <2>2, <2>3
  <1>3. Follows(gate, p.gates, 13)
    <2> HIDE DEF names, groups, passed, own
    <2> QED
      BY <1>1, <1>2, BlameFollows
  <1>4. WithEventLock(p) = Lock(p, Stages[14], gate)
    BY StagesAre DEF WithEventLock, EventLockGate, EventLockDiagnostics
  <1> HIDE DEF gate
  <1> QED
    BY <1>3, <1>4, LockCarries

LEMMA EventsCarries ==
    ASSUME NEW p, Carrier(p, 14)
    PROVE  Carrier(WithEvents(p), 15) /\ Keeps(p.gates, WithEvents(p).gates)
  <1> DEFINE names == Evented
             groups == <<{"event_lock"}, {"rule_rows"}, {"rule_lock"}>>
             passed == Copied(p.gates, names)
             rows == Emitted(passed, Evented, p.rows["rule_rows"])
             own == OneForOne(rows, p.rows["rule_rows"]) /\ Evented \subseteq passed
             gate == Blame(passed, groups, own)
  <1>1. DOMAIN p.gates = Upto(14) /\ names \subseteq Upto(14) /\ passed = Copied(p.gates, names)
    <2>1. DOMAIN p.gates = Upto(14)
      BY DEF Carrier, PrefixTo
    <2>2. names \subseteq Upto(14)
      BY StagesAre, StageSets
    <2>3. passed = Copied(p.gates, names)
      OBVIOUS
    <2> QED
      BY <2>1, <2>2, <2>3
  <1>2. /\ DOMAIN groups \in SUBSET Nat /\ \A i \in DOMAIN groups : groups[i] \subseteq names
        /\ \E i \in DOMAIN groups : Stages[14] \in groups[i]
    <2>1. DOMAIN groups = 1..3
      OBVIOUS
    <2>2. \A i \in 1..3 : groups[i] \subseteq names
      BY DEF Evented, RuleRowed
    <2>3. Stages[14] \in groups[1]
      BY StagesAre
    <2> QED
      BY <2>1, <2>2, <2>3
  <1>3. Follows(gate, p.gates, 14)
    <2> HIDE DEF names, groups, passed, own
    <2> QED
      BY <1>1, <1>2, BlameFollows
  <1>4. WithEvents(p) = Emit(p, Stages[15], gate, rows)
    BY StagesAre DEF WithEvents, EventsGate, EventsDiagnostics
  <1>5. ASSUME gate = {} PROVE rows = p.rows["rule_rows"]
    <2>1. own
      <3> HIDE DEF groups, passed, own
      <3> QED
        BY <1>2, <1>5, BlamePasses
    <2>2. rows = p.rows["rule_rows"]
      BY <2>1 DEF OneForOne, Emitted
    <2>3. p.gates[Stages[13]] = {} /\ Stages[13] \in RowStages \cap Upto(14)
      <3> HIDE DEF gate
      <3>1. p.gates[Stages[14]] = {}
        BY <1>3, <1>5 DEF Follows
      <3>2. \A i, j \in 1..14 : (p.gates[Stages[j]] = {} /\ i <= j) => p.gates[Stages[i]] = {}
        BY DEF Carrier, PrefixTo
      <3>3. Stages[13] \in RowStages \cap Upto(14)
        BY StagesAre, StageSets DEF RowStages
      <3> QED
        BY <3>1, <3>2, <3>3
    <2> HIDE DEF rows
    <2> QED
      BY <2>2, <2>3, StagesAre DEF Carrier, RowsFollow
  <1> HIDE DEF gate, rows
  <1> QED
    BY <1>3, <1>4, <1>5, EmitCarries

LEMMA EconomicLockCarries ==
    ASSUME NEW p, Carrier(p, 15)
    PROVE  Carrier(WithEconomicLock(p), 16) /\ Keeps(p.gates, WithEconomicLock(p).gates)
  <1> DEFINE names == Settled
             groups == <<{"events"}, {"event_lock"}, {"rule_rows"}>>
             passed == Copied(p.gates, names)
             own == Settled \subseteq passed
             gate == Blame(passed, groups, own)
  <1>1. DOMAIN p.gates = Upto(15) /\ names \subseteq Upto(15) /\ passed = Copied(p.gates, names)
    <2>1. DOMAIN p.gates = Upto(15)
      BY DEF Carrier, PrefixTo
    <2>2. names \subseteq Upto(15)
      BY StagesAre, StageSets
    <2>3. passed = Copied(p.gates, names)
      OBVIOUS
    <2> QED
      BY <2>1, <2>2, <2>3
  <1>2. /\ DOMAIN groups \in SUBSET Nat /\ \A i \in DOMAIN groups : groups[i] \subseteq names
        /\ \E i \in DOMAIN groups : Stages[15] \in groups[i]
    <2>1. DOMAIN groups = 1..3
      OBVIOUS
    <2>2. \A i \in 1..3 : groups[i] \subseteq names
      BY DEF Settled, Evented, RuleRowed
    <2>3. Stages[15] \in groups[1]
      BY StagesAre
    <2> QED
      BY <2>1, <2>2, <2>3
  <1>3. Follows(gate, p.gates, 15)
    <2> HIDE DEF names, groups, passed, own
    <2> QED
      BY <1>1, <1>2, BlameFollows
  <1>4. WithEconomicLock(p) = Lock(p, Stages[16], gate)
    BY StagesAre DEF WithEconomicLock, EconomicLockGate, EconomicLockDiagnostics
  <1> HIDE DEF gate
  <1> QED
    BY <1>3, <1>4, LockCarries

LEMMA NullLockCarries ==
    ASSUME NEW p, Carrier(p, 17)
    PROVE  Carrier(WithNullLock(p), 18) /\ Keeps(p.gates, WithNullLock(p).gates)
  <1> DEFINE names == {"economic_rows"} \cup Older
             groups == <<{"economic_rows"}, Older>>
             passed == Carried(p.gates, {"economic_rows"}, p.economic)
             own == TRUE
             gate == Blame(passed, groups, own)
  <1>1. DOMAIN p.gates = Upto(17) /\ names \subseteq Upto(17) /\ passed = Copied(p.gates, names)
    <2>1. DOMAIN p.gates = Upto(17)
      BY DEF Carrier, PrefixTo
    <2>2. names \subseteq Upto(17)
      BY StagesAre, StageSets
    <2>3. passed = Copied(p.gates, names)
      BY CarriedIs DEF Carrier, EconomicFollows
    <2> QED
      BY <2>1, <2>2, <2>3
  <1>2. /\ DOMAIN groups \in SUBSET Nat /\ \A i \in DOMAIN groups : groups[i] \subseteq names
        /\ \E i \in DOMAIN groups : Stages[17] \in groups[i]
    <2>1. DOMAIN groups = 1..2
      OBVIOUS
    <2>2. \A i \in 1..2 : groups[i] \subseteq names
      BY DEF NullRowed
    <2>3. Stages[17] \in groups[1]
      BY StagesAre
    <2> QED
      BY <2>1, <2>2, <2>3
  <1>3. Follows(gate, p.gates, 17)
    <2> HIDE DEF names, groups, passed, own
    <2> QED
      BY <1>1, <1>2, BlameFollows
  <1>4. WithNullLock(p) = Lock(p, Stages[18], gate)
    BY StagesAre DEF WithNullLock, NullLockGate, NullLockDiagnostics
  <1> HIDE DEF gate
  <1> QED
    BY <1>3, <1>4, LockCarries

LEMMA NullRowsCarries ==
    ASSUME NEW p, Carrier(p, 18)
    PROVE  Carrier(WithNullRows(p), 19) /\ Keeps(p.gates, WithNullRows(p).gates)
  <1> DEFINE names == NullRowed \cup Older
             groups == <<{"null_lock"}, {"economic_rows"}, Older>>
             passed == Carried(p.gates, NullRowed, p.economic)
             rows == Emitted(passed, NullRowed \cup Older, p.economic.rows)
             own == OneForOne(rows, p.economic.rows)
             gate == Blame(passed, groups, own)
  <1>1. DOMAIN p.gates = Upto(18) /\ names \subseteq Upto(18) /\ passed = Copied(p.gates, names)
    <2>1. DOMAIN p.gates = Upto(18)
      BY DEF Carrier, PrefixTo
    <2>2. names \subseteq Upto(18)
      BY StagesAre, StageSets
    <2>3. passed = Copied(p.gates, names)
      BY CarriedIs DEF Carrier, EconomicFollows
    <2> QED
      BY <2>1, <2>2, <2>3
  <1>2. /\ DOMAIN groups \in SUBSET Nat /\ \A i \in DOMAIN groups : groups[i] \subseteq names
        /\ \E i \in DOMAIN groups : Stages[18] \in groups[i]
    <2>1. DOMAIN groups = 1..3
      OBVIOUS
    <2>2. \A i \in 1..3 : groups[i] \subseteq names
      BY DEF NullRowed
    <2>3. Stages[18] \in groups[1]
      BY StagesAre
    <2> QED
      BY <2>1, <2>2, <2>3
  <1>3. Follows(gate, p.gates, 18)
    <2> HIDE DEF names, groups, passed, own
    <2> QED
      BY <1>1, <1>2, BlameFollows
  <1>4. WithNullRows(p) = Emit(p, Stages[19], gate, rows)
    BY StagesAre DEF WithNullRows, NullRowsGate, NullRowsDiagnostics
  <1>5. ASSUME gate = {} PROVE rows = p.rows["rule_rows"]
    <2>1. own
      <3> HIDE DEF groups, passed, own
      <3> QED
        BY <1>2, <1>5, BlamePasses
    <2>2. rows = p.rows["economic_rows"]
      BY <2>1 DEF OneForOne, Emitted, Carrier, EconomicFollows
    <2>3. p.gates[Stages[17]] = {} /\ Stages[17] \in RowStages \cap Upto(18)
      <3> HIDE DEF gate
      <3>1. p.gates[Stages[18]] = {}
        BY <1>3, <1>5 DEF Follows
      <3>2. \A i, j \in 1..18 : (p.gates[Stages[j]] = {} /\ i <= j) => p.gates[Stages[i]] = {}
        BY DEF Carrier, PrefixTo
      <3>3. Stages[17] \in RowStages \cap Upto(18)
        BY StagesAre, StageSets DEF RowStages
      <3> QED
        BY <3>1, <3>2, <3>3
    <2> HIDE DEF rows
    <2> QED
      BY <2>2, <2>3, StagesAre DEF Carrier, RowsFollow
  <1> HIDE DEF gate, rows
  <1> QED
    BY <1>3, <1>4, <1>5, EmitCarries

LEMMA StatisticLockCarries ==
    ASSUME NEW p, Carrier(p, 19)
    PROVE  Carrier(WithStatisticLock(p), 20) /\ Keeps(p.gates, WithStatisticLock(p).gates)
  <1> DEFINE names == {"null_rows"} \cup NullRowed \cup Older
             groups == <<{"null_rows"}, {"null_lock"}, {"economic_rows"}, Older>>
             passed == Carried(p.gates, {"null_rows"} \cup NullRowed, p.economic)
             own == TRUE
             gate == Blame(passed, groups, own)
  <1>1. DOMAIN p.gates = Upto(19) /\ names \subseteq Upto(19) /\ passed = Copied(p.gates, names)
    <2>1. DOMAIN p.gates = Upto(19)
      BY DEF Carrier, PrefixTo
    <2>2. names \subseteq Upto(19)
      BY StagesAre, StageSets
    <2>3. passed = Copied(p.gates, names)
      BY CarriedIs DEF Carrier, EconomicFollows
    <2> QED
      BY <2>1, <2>2, <2>3
  <1>2. /\ DOMAIN groups \in SUBSET Nat /\ \A i \in DOMAIN groups : groups[i] \subseteq names
        /\ \E i \in DOMAIN groups : Stages[19] \in groups[i]
    <2>1. DOMAIN groups = 1..4
      OBVIOUS
    <2>2. \A i \in 1..4 : groups[i] \subseteq names
      BY DEF NullRowed
    <2>3. Stages[19] \in groups[1]
      BY StagesAre
    <2> QED
      BY <2>1, <2>2, <2>3
  <1>3. Follows(gate, p.gates, 19)
    <2> HIDE DEF names, groups, passed, own
    <2> QED
      BY <1>1, <1>2, BlameFollows
  <1>4. WithStatisticLock(p) = Lock(p, Stages[20], gate)
    BY StagesAre DEF WithStatisticLock, StatisticLockGate, StatisticLockDiagnostics
  <1> HIDE DEF gate
  <1> QED
    BY <1>3, <1>4, LockCarries

LEMMA StatisticRowsCarries ==
    ASSUME NEW p, Carrier(p, 20)
    PROVE  Carrier(WithStatisticRows(p), 21) /\ Keeps(p.gates, WithStatisticRows(p).gates)
  <1> DEFINE names == StatisticRowed \cup Older
             groups == <<{"statistic_lock"}, {"null_rows"}, {"null_lock"}, {"economic_rows"},
                         Older>>
             passed == Carried(p.gates, StatisticRowed, p.economic)
             rows == Emitted(passed, StatisticRowed \cup Older, p.rows["null_rows"])
             own == OneForOne(rows, p.rows["null_rows"])
             gate == Blame(passed, groups, own)
  <1>1. DOMAIN p.gates = Upto(20) /\ names \subseteq Upto(20) /\ passed = Copied(p.gates, names)
    <2>1. DOMAIN p.gates = Upto(20)
      BY DEF Carrier, PrefixTo
    <2>2. names \subseteq Upto(20)
      BY StagesAre, StageSets
    <2>3. passed = Copied(p.gates, names)
      BY CarriedIs DEF Carrier, EconomicFollows
    <2> QED
      BY <2>1, <2>2, <2>3
  <1>2. /\ DOMAIN groups \in SUBSET Nat /\ \A i \in DOMAIN groups : groups[i] \subseteq names
        /\ \E i \in DOMAIN groups : Stages[20] \in groups[i]
    <2>1. DOMAIN groups = 1..5
      OBVIOUS
    <2>2. \A i \in 1..5 : groups[i] \subseteq names
      BY DEF StatisticRowed, NullRowed
    <2>3. Stages[20] \in groups[1]
      BY StagesAre
    <2> QED
      BY <2>1, <2>2, <2>3
  <1>3. Follows(gate, p.gates, 20)
    <2> HIDE DEF names, groups, passed, own
    <2> QED
      BY <1>1, <1>2, BlameFollows
  <1>4. WithStatisticRows(p) = Emit(p, Stages[21], gate, rows)
    BY StagesAre DEF WithStatisticRows, StatisticRowsGate, StatisticRowsDiagnostics
  <1>5. ASSUME gate = {} PROVE rows = p.rows["rule_rows"]
    <2>1. own
      <3> HIDE DEF groups, passed, own
      <3> QED
        BY <1>2, <1>5, BlamePasses
    <2>2. rows = p.rows["null_rows"]
      BY <2>1 DEF OneForOne, Emitted
    <2>3. p.gates[Stages[19]] = {} /\ Stages[19] \in RowStages \cap Upto(20)
      <3> HIDE DEF gate
      <3>1. p.gates[Stages[20]] = {}
        BY <1>3, <1>5 DEF Follows
      <3>2. \A i, j \in 1..20 : (p.gates[Stages[j]] = {} /\ i <= j) => p.gates[Stages[i]] = {}
        BY DEF Carrier, PrefixTo
      <3>3. Stages[19] \in RowStages \cap Upto(20)
        BY StagesAre, StageSets DEF RowStages
      <3> QED
        BY <3>1, <3>2, <3>3
    <2> HIDE DEF rows
    <2> QED
      BY <2>2, <2>3, StagesAre DEF Carrier, RowsFollow
  <1> HIDE DEF gate, rows
  <1> QED
    BY <1>3, <1>4, <1>5, EmitCarries

LEMMA ContractLockCarries ==
    ASSUME NEW p, Carrier(p, 21)
    PROVE  Carrier(WithContractLock(p), 22) /\ Keeps(p.gates, WithContractLock(p).gates)
  <1> DEFINE names == {"statistic_rows"} \cup StatisticRowed \cup Older
             groups == <<{"statistic_rows"}, {"statistic_lock"}, {"null_rows"}, {"null_lock"},
                         {"economic_rows"}, Older>>
             passed == Carried(p.gates, {"statistic_rows"} \cup StatisticRowed, p.economic)
             own == TRUE
             gate == Blame(passed, groups, own)
  <1>1. DOMAIN p.gates = Upto(21) /\ names \subseteq Upto(21) /\ passed = Copied(p.gates, names)
    <2>1. DOMAIN p.gates = Upto(21)
      BY DEF Carrier, PrefixTo
    <2>2. names \subseteq Upto(21)
      BY StagesAre, StageSets
    <2>3. passed = Copied(p.gates, names)
      BY CarriedIs DEF Carrier, EconomicFollows
    <2> QED
      BY <2>1, <2>2, <2>3
  <1>2. /\ DOMAIN groups \in SUBSET Nat /\ \A i \in DOMAIN groups : groups[i] \subseteq names
        /\ \E i \in DOMAIN groups : Stages[21] \in groups[i]
    <2>1. DOMAIN groups = 1..6
      OBVIOUS
    <2>2. \A i \in 1..6 : groups[i] \subseteq names
      BY DEF StatisticRowed, NullRowed
    <2>3. Stages[21] \in groups[1]
      BY StagesAre
    <2> QED
      BY <2>1, <2>2, <2>3
  <1>3. Follows(gate, p.gates, 21)
    <2> HIDE DEF names, groups, passed, own
    <2> QED
      BY <1>1, <1>2, BlameFollows
  <1>4. WithContractLock(p) = Lock(p, Stages[22], gate)
    BY StagesAre DEF WithContractLock, ContractLockGate, ContractLockDiagnostics
  <1> HIDE DEF gate
  <1> QED
    BY <1>3, <1>4, LockCarries

LEMMA ReadinessRowsCarries ==
    ASSUME NEW p, Carrier(p, 22)
    PROVE  Carrier(WithReadinessRows(p), 23) /\ Keeps(p.gates, WithReadinessRows(p).gates)
  <1> DEFINE names == ReadinessRowed \cup Older
             groups == <<{"contract_lock"}, {"statistic_rows"}, {"statistic_lock"},
                         {"null_rows"}, {"null_lock"}, {"economic_rows"}, Older>>
             passed == Carried(p.gates, ReadinessRowed, p.economic)
             rows == Emitted(passed, ReadinessRowed \cup Older, p.rows["statistic_rows"])
             own == OneForOne(rows, p.rows["statistic_rows"])
             gate == Blame(passed, groups, own)
  <1>1. DOMAIN p.gates = Upto(22) /\ names \subseteq Upto(22) /\ passed = Copied(p.gates, names)
    <2>1. DOMAIN p.gates = Upto(22)
      BY DEF Carrier, PrefixTo
    <2>2. names \subseteq Upto(22)
      BY StagesAre, StageSets
    <2>3. passed = Copied(p.gates, names)
      BY CarriedIs DEF Carrier, EconomicFollows
    <2> QED
      BY <2>1, <2>2, <2>3
  <1>2. /\ DOMAIN groups \in SUBSET Nat /\ \A i \in DOMAIN groups : groups[i] \subseteq names
        /\ \E i \in DOMAIN groups : Stages[22] \in groups[i]
    <2>1. DOMAIN groups = 1..7
      OBVIOUS
    <2>2. \A i \in 1..7 : groups[i] \subseteq names
      BY DEF ReadinessRowed, StatisticRowed, NullRowed
    <2>3. Stages[22] \in groups[1]
      BY StagesAre
    <2> QED
      BY <2>1, <2>2, <2>3
  <1>3. Follows(gate, p.gates, 22)
    <2> HIDE DEF names, groups, passed, own
    <2> QED
      BY <1>1, <1>2, BlameFollows
  <1>4. WithReadinessRows(p) = Emit(p, Stages[23], gate, rows)
    BY StagesAre DEF WithReadinessRows, ReadinessRowsGate, ReadinessRowsDiagnostics
  <1>5. ASSUME gate = {} PROVE rows = p.rows["rule_rows"]
    <2>1. own
      <3> HIDE DEF groups, passed, own
      <3> QED
        BY <1>2, <1>5, BlamePasses
    <2>2. rows = p.rows["statistic_rows"]
      BY <2>1 DEF OneForOne, Emitted
    <2>3. p.gates[Stages[21]] = {} /\ Stages[21] \in RowStages \cap Upto(22)
      <3> HIDE DEF gate
      <3>1. p.gates[Stages[22]] = {}
        BY <1>3, <1>5 DEF Follows
      <3>2. \A i, j \in 1..22 : (p.gates[Stages[j]] = {} /\ i <= j) => p.gates[Stages[i]] = {}
        BY DEF Carrier, PrefixTo
      <3>3. Stages[21] \in RowStages \cap Upto(22)
        BY StagesAre, StageSets DEF RowStages
      <3> QED
        BY <3>1, <3>2, <3>3
    <2> HIDE DEF rows
    <2> QED
      BY <2>2, <2>3, StagesAre DEF Carrier, RowsFollow
  <1> HIDE DEF gate, rows
  <1> QED
    BY <1>3, <1>4, <1>5, EmitCarries

LEMMA DescriptiveLockCarries ==
    ASSUME NEW p, Carrier(p, 23)
    PROVE  Carrier(WithDescriptiveLock(p), 24) /\ Keeps(p.gates, WithDescriptiveLock(p).gates)
  <1> DEFINE names == {"readiness_rows"} \cup ReadinessRowed \cup Older
             groups == <<{"readiness_rows"}, {"contract_lock"}, {"statistic_rows"},
                         {"statistic_lock"}, {"null_rows"}, {"null_lock"}, {"economic_rows"},
                         Older>>
             passed == Carried(p.gates, {"readiness_rows"} \cup ReadinessRowed, p.economic)
             own == TRUE
             gate == Blame(passed, groups, own)
  <1>1. DOMAIN p.gates = Upto(23) /\ names \subseteq Upto(23) /\ passed = Copied(p.gates, names)
    <2>1. DOMAIN p.gates = Upto(23)
      BY DEF Carrier, PrefixTo
    <2>2. names \subseteq Upto(23)
      BY StagesAre, StageSets
    <2>3. passed = Copied(p.gates, names)
      BY CarriedIs DEF Carrier, EconomicFollows
    <2> QED
      BY <2>1, <2>2, <2>3
  <1>2. /\ DOMAIN groups \in SUBSET Nat /\ \A i \in DOMAIN groups : groups[i] \subseteq names
        /\ \E i \in DOMAIN groups : Stages[23] \in groups[i]
    <2>1. DOMAIN groups = 1..8
      OBVIOUS
    <2>2. \A i \in 1..8 : groups[i] \subseteq names
      BY DEF ReadinessRowed, StatisticRowed, NullRowed
    <2>3. Stages[23] \in groups[1]
      BY StagesAre
    <2> QED
      BY <2>1, <2>2, <2>3
  <1>3. Follows(gate, p.gates, 23)
    <2> HIDE DEF names, groups, passed, own
    <2> QED
      BY <1>1, <1>2, BlameFollows
  <1>4. WithDescriptiveLock(p) = Lock(p, Stages[24], gate)
    BY StagesAre DEF WithDescriptiveLock, DescriptiveLockGate, DescriptiveLockDiagnostics
  <1> HIDE DEF gate
  <1> QED
    BY <1>3, <1>4, LockCarries

LEMMA DescriptiveRowsCarries ==
    ASSUME NEW p, Carrier(p, 24)
    PROVE  Carrier(WithDescriptiveRows(p), 25) /\ Keeps(p.gates, WithDescriptiveRows(p).gates)
  <1> DEFINE names == DescriptiveRowed \cup Older
             groups == <<{"descriptive_lock"}, {"readiness_rows"}, {"contract_lock"},
                         {"statistic_rows"}, {"statistic_lock"}, {"null_rows"}, {"null_lock"},
                         {"economic_rows"}, Older>>
             passed == Carried(p.gates, DescriptiveRowed, p.economic)
             rows == Emitted(passed, DescriptiveRowed \cup Older, p.rows["readiness_rows"])
             own == OneForOne(rows, p.rows["readiness_rows"])
             gate == Blame(passed, groups, own)
  <1>1. DOMAIN p.gates = Upto(24) /\ names \subseteq Upto(24) /\ passed = Copied(p.gates, names)
    <2>1. DOMAIN p.gates = Upto(24)
      BY DEF Carrier, PrefixTo
    <2>2. names \subseteq Upto(24)
      BY StagesAre, StageSets
    <2>3. passed = Copied(p.gates, names)
      BY CarriedIs DEF Carrier, EconomicFollows
    <2> QED
      BY <2>1, <2>2, <2>3
  <1>2. /\ DOMAIN groups \in SUBSET Nat /\ \A i \in DOMAIN groups : groups[i] \subseteq names
        /\ \E i \in DOMAIN groups : Stages[24] \in groups[i]
    <2>1. DOMAIN groups = 1..9
      OBVIOUS
    <2>2. \A i \in 1..9 : groups[i] \subseteq names
      BY DEF DescriptiveRowed, ReadinessRowed, StatisticRowed, NullRowed
    <2>3. Stages[24] \in groups[1]
      BY StagesAre
    <2> QED
      BY <2>1, <2>2, <2>3
  <1>3. Follows(gate, p.gates, 24)
    <2> HIDE DEF names, groups, passed, own
    <2> QED
      BY <1>1, <1>2, BlameFollows
  <1>4. WithDescriptiveRows(p) = Emit(p, Stages[25], gate, rows)
    BY StagesAre DEF WithDescriptiveRows, DescriptiveRowsGate, DescriptiveRowsDiagnostics
  <1>5. ASSUME gate = {} PROVE rows = p.rows["rule_rows"]
    <2>1. own
      <3> HIDE DEF groups, passed, own
      <3> QED
        BY <1>2, <1>5, BlamePasses
    <2>2. rows = p.rows["readiness_rows"]
      BY <2>1 DEF OneForOne, Emitted
    <2>3. p.gates[Stages[23]] = {} /\ Stages[23] \in RowStages \cap Upto(24)
      <3> HIDE DEF gate
      <3>1. p.gates[Stages[24]] = {}
        BY <1>3, <1>5 DEF Follows
      <3>2. \A i, j \in 1..24 : (p.gates[Stages[j]] = {} /\ i <= j) => p.gates[Stages[i]] = {}
        BY DEF Carrier, PrefixTo
      <3>3. Stages[23] \in RowStages \cap Upto(24)
        BY StagesAre, StageSets DEF RowStages
      <3> QED
        BY <3>1, <3>2, <3>3
    <2> HIDE DEF rows
    <2> QED
      BY <2>2, <2>3, StagesAre DEF Carrier, RowsFollow
  <1> HIDE DEF gate, rows
  <1> QED
    BY <1>3, <1>4, <1>5, EmitCarries

LEMMA CountPolicyCarries ==
    ASSUME NEW p, Carrier(p, 25)
    PROVE  Carrier(WithCountPolicy(p), 26) /\ Keeps(p.gates, WithCountPolicy(p).gates)
  <1> DEFINE names == {"descriptive_rows"} \cup DescriptiveRowed \cup Older
             groups == <<{"descriptive_rows"}, {"descriptive_lock"}, {"readiness_rows"},
                         {"contract_lock"}, {"statistic_rows"}, {"statistic_lock"},
                         {"null_rows"}, {"null_lock"}, {"economic_rows"}, Older>>
             passed == Carried(p.gates, {"descriptive_rows"} \cup DescriptiveRowed, p.economic)
             own == TRUE
             gate == Blame(passed, groups, own)
  <1>1. DOMAIN p.gates = Upto(25) /\ names \subseteq Upto(25) /\ passed = Copied(p.gates, names)
    <2>1. DOMAIN p.gates = Upto(25)
      BY DEF Carrier, PrefixTo
    <2>2. names \subseteq Upto(25)
      BY StagesAre, StageSets
    <2>3. passed = Copied(p.gates, names)
      BY CarriedIs DEF Carrier, EconomicFollows
    <2> QED
      BY <2>1, <2>2, <2>3
  <1>2. /\ DOMAIN groups \in SUBSET Nat /\ \A i \in DOMAIN groups : groups[i] \subseteq names
        /\ \E i \in DOMAIN groups : Stages[25] \in groups[i]
    <2>1. DOMAIN groups = 1..10
      OBVIOUS
    <2>2. \A i \in 1..10 : groups[i] \subseteq names
      BY DEF DescriptiveRowed, ReadinessRowed, StatisticRowed, NullRowed
    <2>3. Stages[25] \in groups[1]
      BY StagesAre
    <2> QED
      BY <2>1, <2>2, <2>3
  <1>3. Follows(gate, p.gates, 25)
    <2> HIDE DEF names, groups, passed, own
    <2> QED
      BY <1>1, <1>2, BlameFollows
  <1>4. WithCountPolicy(p) = Lock(p, Stages[26], gate)
    BY StagesAre DEF WithCountPolicy, CountPolicyGate, CountPolicyDiagnostics
  <1> HIDE DEF gate
  <1> QED
    BY <1>3, <1>4, LockCarries

-----------------------------------------------------------------------------
(* The stages that begin a record of gates, and those that add to it.         *)

LEMMA TemporalExtends ==
    ASSUME NEW g, PrefixTo(g, 8), NEW inventory, NEW opened
    PROVE  LET gate == TemporalGate(TemporalDiagnostics(g, inventory, opened))
           IN /\ PrefixTo(Over(Entry("temporal", gate), g), 9)
              /\ Keeps(g, Over(Entry("temporal", gate), g))
  <1> DEFINE names == Shaped \cup {"row_count"}
             groups == <<{"row_count"}, {"shape"}, {"projection"}, {"invocation"}, {"boundary"}>>
             passed == Copied(g, names)
             own == TemporalSummary(inventory, opened)
             gate == Blame(passed, groups, own)
  <1>1. DOMAIN g = Upto(8) /\ names \subseteq Upto(8)
    <2>1. DOMAIN g = Upto(8)
      BY DEF PrefixTo
    <2>2. names \subseteq Upto(8)
      BY StagesAre, StageSets
    <2> QED
      BY <2>1, <2>2
  <1>2. /\ DOMAIN groups \in SUBSET Nat /\ \A i \in DOMAIN groups : groups[i] \subseteq names
        /\ \E i \in DOMAIN groups : Stages[8] \in groups[i]
    <2>1. DOMAIN groups = 1..5
      OBVIOUS
    <2>2. \A i \in 1..5 : groups[i] \subseteq names
      BY DEF Shaped, Invoked
    <2>3. Stages[8] \in groups[1]
      BY StagesAre
    <2> QED
      BY <2>1, <2>2, <2>3
  <1>3. Follows(gate, g, 8)
    <2>1. passed = Copied(g, names)
      OBVIOUS
    <2> HIDE DEF names, groups, passed, own
    <2> QED
      BY <1>1, <1>2, <2>1, BlameFollows
  <1>4. TemporalGate(TemporalDiagnostics(g, inventory, opened)) = gate
    BY DEF TemporalGate, TemporalDiagnostics
  <1> HIDE DEF gate
  <1>5. Stages[8 + 1] = "temporal"
    BY StagesAre
  <1>6. PrefixTo(Over(Entry(Stages[8 + 1], gate), g), 8 + 1)
    BY <1>3, GateExtends
  <1>7. Keeps(g, Over(Entry(Stages[8 + 1], gate), g))
    BY GateIsKept
  <1> QED
    BY <1>4, <1>5, <1>6, <1>7

LEMMA JoinabilityCarries ==
    ASSUME NEW g, PrefixTo(g, 9), NEW inventory, NEW windows, NEW hashed, NEW opened
    PROVE  LET joinability == JoinabilityDiagnostics(g, inventory, windows, hashed, opened)
           IN /\ Carrier(WithJoinability(g, joinability), 10)
              /\ Keeps(g, WithJoinability(g, joinability).gates)
  <1> DEFINE names == Measured
             groups == <<{"temporal"}, {"row_count"}, {"shape"}, {"projection"}, {"invocation"},
                         {"boundary"}>>
             passed == Copied(g, names)
             own == JoinabilitySummary(g, inventory, windows, hashed, opened)
             gate == Blame(passed, groups, own)
             joinability == JoinabilityDiagnostics(g, inventory, windows, hashed, opened)
  <1>1. DOMAIN g = Upto(9) /\ names \subseteq Upto(9)
    BY StageSets DEF PrefixTo
  <1>2. /\ DOMAIN groups \in SUBSET Nat /\ \A i \in DOMAIN groups : groups[i] \subseteq names
        /\ \E i \in DOMAIN groups : Stages[9] \in groups[i]
    <2>1. DOMAIN groups = 1..6
      OBVIOUS
    <2>2. \A i \in 1..6 : groups[i] \subseteq names
      BY DEF Measured, Shaped, Invoked
    <2>3. Stages[9] \in groups[1]
      BY StagesAre
    <2> QED
      BY <2>1, <2>2, <2>3
  <1>3. Follows(gate, g, 9)
    <2>1. passed = Copied(g, names)
      OBVIOUS
    <2> HIDE DEF names, groups, passed, own
    <2> QED
      BY <1>1, <1>2, <2>1, BlameFollows
  <1>4. JoinabilityGate(joinability) = gate
    BY DEF JoinabilityGate, JoinabilityDiagnostics
  <1> HIDE DEF gate
  <1>5. PrefixTo(Over(Entry(Stages[9 + 1], gate), g), 9 + 1)
    BY <1>3, GateExtends
  <1>6. Keeps(g, Over(Entry(Stages[9 + 1], gate), g))
    BY GateIsKept
  <1>7. WithJoinability(g, joinability) = [gates |-> Over(Entry(Stages[9 + 1], gate), g)]
    BY <1>4, StagesAre DEF WithJoinability
  <1> HIDE DEF joinability
  <1> QED
    BY <1>5, <1>6, <1>7 DEF Carrier, joinability

LEMMA RuleRowsCarries ==
    ASSUME NEW g, PrefixTo(g, 12), NEW extracted
    PROVE  Carrier(WithRuleRows(g, extracted), 13) /\ Keeps(g, WithRuleRows(g, extracted).gates)
  <1> DEFINE names == Required
             groups == <<{"rule_lock"}, {"dry_harness"}, {"joinability"}>>
             passed == Copied(g, names)
             rows == IF Required \subseteq passed THEN extracted.rows ELSE {}
             own == rows # {}
             gate == Blame(passed, groups, own)
  <1>1. DOMAIN g = Upto(12) /\ names \subseteq Upto(12)
    <2>1. DOMAIN g = Upto(12)
      BY DEF PrefixTo
    <2>2. names \subseteq Upto(12)
      BY StagesAre, StageSets DEF Required
    <2> QED
      BY <2>1, <2>2
  <1>2. /\ DOMAIN groups \in SUBSET Nat /\ \A i \in DOMAIN groups : groups[i] \subseteq names
        /\ \E i \in DOMAIN groups : Stages[12] \in groups[i]
    <2>1. DOMAIN groups = 1..3
      OBVIOUS
    <2>2. \A i \in 1..3 : groups[i] \subseteq names
      BY DEF Required
    <2>3. Stages[12] \in groups[1]
      BY StagesAre
    <2> QED
      BY <2>1, <2>2, <2>3
  <1>3. Follows(gate, g, 12)
    <2>1. passed = Copied(g, names)
      OBVIOUS
    <2> HIDE DEF names, groups, passed, own
    <2> QED
      BY <1>1, <1>2, <2>1, BlameFollows
  <1>4. /\ RuleRowsDiagnostics(g, extracted) = [passed |-> passed, rows |-> rows, own |-> own]
        /\ RuleRowsGate(RuleRowsDiagnostics(g, extracted)) = gate
    BY DEF RuleRowsGate, RuleRowsDiagnostics
  <1> HIDE DEF gate, rows
  <1>5. PrefixTo(Over(Entry(Stages[12 + 1], gate), g), 12 + 1)
    BY <1>3, GateExtends
  <1>6. Keeps(g, Over(Entry(Stages[12 + 1], gate), g))
    BY GateIsKept
  <1>7. WithRuleRows(g, extracted) =
           [gates |-> Over(Entry(Stages[12 + 1], gate), g), rows |-> Entry("rule_rows", rows)]
    BY <1>4, StagesAre DEF WithRuleRows
  <1>8. RowStages \cap Upto(13) = {"rule_rows"}
    <2>1. \A s \in RowStages : s = Stages[13] \/ \E i \in 14..30 : s = Stages[i]
      BY StagesAre DEF RowStages
    <2>2. \A i \in 14..30 : Stages[i] \notin Upto(13)
      BY StagesDiffer DEF Upto
    <2>3. Stages[13] = "rule_rows" /\ Stages[13] \in Upto(13) /\ "rule_rows" \in RowStages
      BY StagesAre, StageSets DEF RowStages
    <2> QED
      BY <2>1, <2>2, <2>3
  <1>9. RowsFollow(WithRuleRows(g, extracted), 13)
    <2> DEFINE p == WithRuleRows(g, extracted)
    <2>1. "rows" \in DOMAIN p /\ p.rows = Entry("rule_rows", rows)
      BY <1>7
    <2>2. "rule_rows" \in DOMAIN p.rows
      BY <2>1 DEF Entry
    <2> HIDE DEF p
    <2>3. RowsFollow(p, 13)
      BY <1>8, <2>1, <2>2 DEF RowsFollow
    <2> QED
      BY <2>3 DEF p
  <1> QED
    BY <1>5, <1>6, <1>7, <1>9 DEF Carrier

LEMMA EconomicRowsCarries ==
    ASSUME NEW p, Carrier(p, 16)
    PROVE  Carrier(WithEconomicRows(p), 17) /\ Keeps(p.gates, WithEconomicRows(p).gates)
  <1> DEFINE names == Older
             groups == <<{"economic_lock"}, {"events"}, {"event_lock"}, {"rule_rows"}>>
             passed == Copied(p.gates, names)
             rows == Emitted(passed, Older, p.rows["events"])
             own == OneForOne(rows, p.rows["events"])
             gate == Blame(passed, groups, own /\ Older \subseteq passed)
             d == [passed |-> passed, rows |-> rows, own |-> own]
             e == Emit(p, Stages[17], gate, rows)
             q == WithEconomicRows(p)
  <1>1. DOMAIN p.gates = Upto(16) /\ names \subseteq Upto(16)
    BY StageSets DEF Carrier, PrefixTo
  <1>2. /\ DOMAIN groups \in SUBSET Nat /\ \A i \in DOMAIN groups : groups[i] \subseteq names
        /\ \E i \in DOMAIN groups : Stages[16] \in groups[i]
    <2>1. DOMAIN groups = 1..4
      OBVIOUS
    <2>2. \A i \in 1..4 : groups[i] \subseteq names
      BY DEF Older, Settled, Evented, RuleRowed
    <2>3. Stages[16] \in groups[1]
      BY StagesAre
    <2> QED
      BY <2>1, <2>2, <2>3
  <1>3. Follows(gate, p.gates, 16)
    <2>1. passed = Copied(p.gates, names)
      OBVIOUS
    <2> HIDE DEF names, groups, passed, own
    <2> QED
      BY <1>1, <1>2, <2>1, BlameFollows
  <1>4. gate = {} => rows = p.rows["rule_rows"]
    <2> SUFFICES ASSUME gate = {} PROVE rows = p.rows["rule_rows"]
      OBVIOUS
    <2>1. own
      <3> HIDE DEF groups, passed, own
      <3> QED
        BY <1>2, BlamePasses
    <2>2. rows = p.rows["events"]
      BY <2>1 DEF OneForOne, Emitted
    <2>3. p.gates[Stages[15]] = {} /\ Stages[15] \in RowStages \cap Upto(16)
      <3> HIDE DEF gate
      <3>1. p.gates[Stages[16]] = {}
        BY <1>3 DEF Follows
      <3>2. \A i, j \in 1..16 : (p.gates[Stages[j]] = {} /\ i <= j) => p.gates[Stages[i]] = {}
        BY DEF Carrier, PrefixTo
      <3>3. Stages[15] \in RowStages \cap Upto(16)
        BY StagesAre, StageSets DEF RowStages
      <3> QED
        BY <3>1, <3>2, <3>3
    <2> HIDE DEF rows
    <2> QED
      BY <2>2, <2>3, StagesAre DEF Carrier, RowsFollow
  <1>5. q = Over(Entry("economic", d), e)
    <2>1. EconomicRowsDiagnostics(p.gates, p.rows["events"]) = d
      BY DEF EconomicRowsDiagnostics
    <2>2. EconomicRowsGate(d) = gate
      BY DEF EconomicRowsGate
    <2> HIDE DEF d, gate
    <2>3. d.rows = rows
      BY DEF d
    <2> HIDE DEF rows
    <2> QED
      BY <2>1, <2>2, <2>3, StagesAre DEF WithEconomicRows
  <1>6. d.passed = Copied(p.gates, Older) /\ d.rows = rows
    OBVIOUS
  <1> HIDE DEF gate, rows, d, q
  <1>7. "gates" \in DOMAIN p /\ PrefixTo(p.gates, 16) /\ RowsFollow(p, 16)
    BY DEF Carrier
  <1>8. /\ DOMAIN e = DOMAIN p /\ e.gates = Over(Entry(Stages[16 + 1], gate), p.gates)
        /\ e.rows = Over(Entry(Stages[16 + 1], rows), p.rows)
    BY <1>7, EmitIs DEF RowsFollow
  <1> HIDE DEF e
  <1>9. /\ {"gates", "rows", "economic"} \subseteq DOMAIN q
        /\ q.economic = d /\ q.gates = e.gates /\ q.rows = e.rows
    <2>1. "gates" \in DOMAIN e /\ "rows" \in DOMAIN e
      BY <1>7, <1>8 DEF RowsFollow
    <2> QED
      BY <1>5, <2>1 DEF Over, Entry
  <1>10. /\ PrefixTo(q.gates, 16 + 1) /\ Keeps(p.gates, q.gates) /\ q.gates[Stages[17]] = gate
    <2>1. PrefixTo(q.gates, 16 + 1)
      BY <1>3, <1>7, <1>8, <1>9, GateExtends
    <2>2. Keeps(p.gates, q.gates) /\ q.gates[Stages[16 + 1]] = gate
      BY <1>7, <1>8, <1>9, GateIsKept
    <2> QED
      BY <2>1, <2>2
  <1>11. /\ Stages[17] = "economic_rows" /\ Stages[17] \in DOMAIN q.rows /\ q.rows[Stages[17]] = rows
         /\ \A s \in DOMAIN p.rows : s # Stages[17] => s \in DOMAIN q.rows /\ q.rows[s] = p.rows[s]
    BY <1>8, <1>9, StagesAre DEF Over, Entry
  <1>12. EconomicFollows(q)
    <2>1. Copied(q.gates, Older) = Copied(p.gates, Older)
      BY <1>1, <1>10, CopiedIsKept
    <2> QED
      BY <1>6, <1>9, <1>11, <2>1 DEF EconomicFollows
  <1>13. RowsFollow(q, 17)
    <2>1. Upto(16 + 1) = Upto(16) \cup {Stages[16 + 1]} /\ Stages[16 + 1] \notin Upto(16)
      BY UptoGrows
    <2>2. "rule_rows" \in RowStages \cap Upto(16) /\ Stages[17] # "rule_rows"
      BY StagesAre, StageSets DEF RowStages
    <2>3. q.rows["rule_rows"] = p.rows["rule_rows"]
      BY <1>7, <1>11, <2>2 DEF RowsFollow
    <2>4. ASSUME NEW s \in RowStages \cap Upto(17)
          PROVE  s \in DOMAIN q.rows /\ (q.gates[s] = {} => q.rows[s] = q.rows["rule_rows"])
      <3> CASE s = Stages[17]
        BY <1>4, <1>10, <1>11, <2>3
      <3> CASE s # Stages[17]
        <4>1. s \in RowStages \cap Upto(16) /\ q.gates[s] = p.gates[s]
          BY <1>1, <1>10, <2>1 DEF Keeps
        <4> QED
          BY <1>7, <1>11, <2>3, <4>1 DEF RowsFollow
      <3> QED
        OBVIOUS
    <2> QED
      BY <1>9, <2>4 DEF RowsFollow
  <1>14. Carrier(q, 17)
    BY <1>9, <1>10, <1>12, <1>13 DEF Carrier
  <1> QED
    BY <1>10, <1>14 DEF q

LEMMA CountsCarries ==
    ASSUME NEW p, Carrier(p, 26)
    PROVE  Carrier(WithCounts(p), 27) /\ Keeps(p.gates, WithCounts(p).gates)
  <1> DEFINE names == Counted \cup Older
             groups == <<{"count_policy"}, {"descriptive_rows"}, DescriptiveRowed, Older>>
             passed == Carried(p.gates, Counted, p.economic)
             source == p.rows["descriptive_rows"]
             rows == IF Counted \cup Older \subseteq passed THEN CountsOf(source) ELSE <<>>
             own == rows = CountsOf(source)
             gate == Blame(passed, groups, own)
             q == WithCounts(p)
  <1>1. DOMAIN p.gates = Upto(26) /\ names \subseteq Upto(26) /\ passed = Copied(p.gates, names)
    <2>1. DOMAIN p.gates = Upto(26)
      BY DEF Carrier, PrefixTo
    <2>2. names \subseteq Upto(26)
      BY StagesAre, StageSets
    <2>3. passed = Copied(p.gates, names)
      BY CarriedIs DEF Carrier, EconomicFollows
    <2> QED
      BY <2>1, <2>2, <2>3
  <1>2. /\ DOMAIN groups \in SUBSET Nat /\ \A i \in DOMAIN groups : groups[i] \subseteq names
        /\ \E i \in DOMAIN groups : Stages[26] \in groups[i]
    <2>1. DOMAIN groups = 1..4
      OBVIOUS
    <2>2. \A i \in 1..4 : groups[i] \subseteq names
      BY DEF Counted
    <2>3. Stages[26] \in groups[1]
      BY StagesAre
    <2> QED
      BY <2>1, <2>2, <2>3
  <1>3. Follows(gate, p.gates, 26)
    <2> HIDE DEF names, groups, passed, own
    <2> QED
      BY <1>1, <1>2, BlameFollows
  <1>4. ASSUME rows # <<>>
        PROVE  gate = {} /\ rows = CountsOf(p.rows["rule_rows"])
    <2>1. Counted \cup Older \subseteq passed /\ rows = CountsOf(source)
      BY <1>4
    <2>2. gate = {}
      <3>1. own
        BY <2>1
      <3>2. \A i \in DOMAIN groups : groups[i] \subseteq passed
        BY <1>2, <2>1
      <3> HIDE DEF groups, passed, own
      <3> QED
        BY <1>2, <3>1, <3>2, BlamePasses
    <2>3. p.gates["descriptive_rows"] = {}
      BY <1>1, <2>1 DEF Counted, Copied, Passed
    <2>4. "descriptive_rows" \in RowStages \cap Upto(26)
      BY StagesAre, StageSets DEF RowStages
    <2>5. source = p.rows["rule_rows"]
      BY <2>3, <2>4 DEF Carrier, RowsFollow
    <2> QED
      BY <2>1, <2>2, <2>5
  <1>5. q = Emit(p, Stages[26 + 1], gate, rows)
    <2> DEFINE d == [passed |-> passed, counts |-> rows, own |-> own]
    <2>1. CountsDiagnostics(p.gates, p.economic, source) = d
      BY DEF CountsDiagnostics
    <2>2. CountsGate(d) = gate
      BY DEF CountsGate
    <2>3. d.counts = rows
      OBVIOUS
    <2> HIDE DEF d, gate, rows
    <2> QED
      BY <2>1, <2>2, <2>3, StagesAre DEF WithCounts
  <1> HIDE DEF gate, rows, q
  <1>6. /\ "gates" \in DOMAIN p /\ PrefixTo(p.gates, 26) /\ RowsFollow(p, 26)
        /\ EconomicFollows(p)
    BY DEF Carrier
  <1>7. /\ DOMAIN q = DOMAIN p /\ q.gates = Over(Entry(Stages[26 + 1], gate), p.gates)
        /\ q.rows = Over(Entry(Stages[26 + 1], rows), p.rows)
        /\ \A k \in DOMAIN p \ {"gates", "rows"} : q[k] = p[k]
    BY <1>5, <1>6, EmitIs DEF RowsFollow
  <1>8. PrefixTo(q.gates, 26 + 1)
    BY <1>3, <1>6, <1>7, GateExtends
  <1>9. Keeps(p.gates, q.gates) /\ q.gates[Stages[26 + 1]] = gate
    BY <1>6, <1>7, GateIsKept
  <1>10. /\ Stages[27] = "counts" /\ Stages[27] \in DOMAIN q.rows /\ q.rows[Stages[27]] = rows
         /\ \A s \in DOMAIN p.rows : s # Stages[27] => s \in DOMAIN q.rows /\ q.rows[s] = p.rows[s]
    BY <1>7, StagesAre DEF Over, Entry
  <1>11. RowStages \cap Upto(27) = RowStages \cap Upto(26)
    <2>1. Upto(26 + 1) = Upto(26) \cup {Stages[26 + 1]} /\ Stages[26 + 1] \notin RowStages
      BY UptoGrows, StagesAre DEF RowStages
    <2> QED
      BY <2>1
  <1>12. \A s \in RowStages \cap Upto(26) :
            /\ s \in DOMAIN q.rows /\ q.rows[s] = p.rows[s] /\ q.gates[s] = p.gates[s]
    <2>1. "counts" \notin RowStages
      BY DEF RowStages
    <2> QED
      BY <1>1, <1>6, <1>9, <1>10, <2>1 DEF RowsFollow, Keeps
  <1>13. {"rule_rows", "economic_rows"} \subseteq RowStages \cap Upto(26)
    BY StagesAre, StageSets DEF RowStages
  <1>14. RowsFollow(q, 27)
    BY <1>6, <1>7, <1>11, <1>12, <1>13 DEF RowsFollow
  <1>15. EconomicFollows(q)
    <2>1. Older \subseteq DOMAIN p.gates
      BY <1>1
    <2>2. Copied(q.gates, Older) = Copied(p.gates, Older)
      BY <1>9, <2>1, CopiedIsKept
    <2>3. "economic" \in DOMAIN q /\ q.economic = p.economic
      BY <1>6, <1>7 DEF EconomicFollows
    <2> QED
      BY <1>6, <1>12, <1>13, <2>2, <2>3 DEF EconomicFollows
  <1>16. CountsFollow(q)
    <2>1. q.rows["rule_rows"] = p.rows["rule_rows"]
      BY <1>12, <1>13
    <2> QED
      BY <1>4, <1>9, <1>10, <2>1 DEF CountsFollow
  <1>17. Carrier(q, 27)
    BY <1>6, <1>7, <1>8, <1>14, <1>15, <1>16 DEF Carrier
  <1> QED
    BY <1>9, <1>17 DEF q

LEMMA InferenceLockCarries ==
    ASSUME NEW p, Carrier(p, 27)
    PROVE  Carrier(WithInferenceLock(p), 28) /\ Keeps(p.gates, WithInferenceLock(p).gates)
  <1> DEFINE names == {"counts"} \cup Counted \cup Older
             groups == <<{"counts"}, {"count_policy"}, {"descriptive_rows"}, DescriptiveRowed, Older>>
             passed == Carried(p.gates, {"counts"} \cup Counted, p.economic)
             own == TRUE
             gate == Blame(passed, groups, own)
  <1>1. DOMAIN p.gates = Upto(27) /\ names \subseteq Upto(27) /\ passed = Copied(p.gates, names)
    <2>1. DOMAIN p.gates = Upto(27)
      BY DEF Carrier, PrefixTo
    <2>2. names \subseteq Upto(27)
      BY StagesAre, StageSets
    <2>3. passed = Copied(p.gates, names)
      BY CarriedIs DEF Carrier, EconomicFollows
    <2> QED
      BY <2>1, <2>2, <2>3
  <1>2. /\ DOMAIN groups \in SUBSET Nat /\ \A i \in DOMAIN groups : groups[i] \subseteq names
        /\ \E i \in DOMAIN groups : Stages[27] \in groups[i]
    <2>1. DOMAIN groups = 1..5
      OBVIOUS
    <2>2. \A i \in 1..5 : groups[i] \subseteq names
      BY DEF Counted
    <2>3. Stages[27] \in groups[1]
      BY StagesAre
    <2> QED
      BY <2>1, <2>2, <2>3
  <1>3. Follows(gate, p.gates, 27)
    <2> HIDE DEF names, groups, passed, own
    <2> QED
      BY <1>1, <1>2, BlameFollows
  <1>4. WithInferenceLock(p) = Lock(p, Stages[28], gate)
    BY StagesAre DEF WithInferenceLock, InferenceLockGate, InferenceLockDiagnostics
  <1>5. ASSUME p.gates["counts"] = {} PROVE gate = {}
    <2>1. \A i, j \in 1..27 : (p.gates[Stages[j]] = {} /\ i <= j) => p.gates[Stages[i]] = {}
      BY DEF Carrier, PrefixTo
    <2>2. \A s \in Upto(27) : p.gates[s] = {}
      <3>1. p.gates[Stages[27]] = {}
        BY <1>5, StagesAre
      <3>2. ASSUME NEW i \in 1..27 PROVE p.gates[Stages[i]] = {}
        <4>1. 27 \in 1..27 /\ i <= 27
          OBVIOUS
        <4> QED
          BY <2>1, <3>1, <4>1
      <3> QED
        BY <3>2 DEF Upto
    <2>3. names \subseteq passed
      BY <1>1, <2>2 DEF Copied, Passed
    <2>4. \A i \in DOMAIN groups : groups[i] \subseteq passed
      BY <1>2, <2>3
    <2> HIDE DEF groups, passed
    <2> QED
      BY <1>2, <2>4, BlamePasses
  <1> HIDE DEF gate
  <1> QED
    BY <1>3, <1>4, <1>5, LockCarries

LEMMA InferenceRowsCarries ==
    ASSUME NEW p, Carrier(p, 28)
    PROVE  Carrier(WithInferenceRows(p), 29) /\ Keeps(p.gates, WithInferenceRows(p).gates)
  <1> DEFINE names == Inferred \cup Older
             groups == <<{"inference_lock"}, {"counts"}, Counted \cup Older>>
             passed == Carried(p.gates, Inferred, p.economic)
             counts == p.rows["counts"]
             rows == IF Inferred \cup Older \subseteq passed THEN ProjectCounts(counts) ELSE <<>>
             own == Len(rows) = 3 /\ rows = counts
             gate == Blame(passed, groups, own)
             d == [passed |-> passed, counts |-> rows, own |-> own]
             e == Emit(p, Stages[29], gate, rows)
             q == WithInferenceRows(p)
  <1>1. DOMAIN p.gates = Upto(28) /\ names \subseteq Upto(28) /\ passed = Copied(p.gates, names)
    <2>1. DOMAIN p.gates = Upto(28)
      BY DEF Carrier, PrefixTo
    <2>2. names \subseteq Upto(28)
      BY StageSets
    <2>3. passed = Copied(p.gates, names)
      BY CarriedIs DEF Carrier, EconomicFollows
    <2> QED
      BY <2>1, <2>2, <2>3
  <1>2. /\ DOMAIN groups \in SUBSET Nat /\ \A i \in DOMAIN groups : groups[i] \subseteq names
        /\ \E i \in DOMAIN groups : Stages[28] \in groups[i]
    <2>1. DOMAIN groups = 1..3
      OBVIOUS
    <2>2. \A i \in 1..3 : groups[i] \subseteq names
      BY DEF Inferred
    <2>3. Stages[28] \in groups[1]
      BY StagesAre
    <2> QED
      BY <2>1, <2>2, <2>3
  <1>3. Follows(gate, p.gates, 28)
    <2> HIDE DEF names, groups, passed, own
    <2> QED
      BY <1>1, <1>2, BlameFollows
  <1>4. ASSUME counts # <<>> PROVE rows[1] = Cardinality(p.rows["rule_rows"])
    <2>1. p.gates["counts"] = {} /\ counts = CountsOf(p.rows["rule_rows"])
      BY <1>4 DEF Carrier, CountsFollow
    <2>2. p.gates["inference_lock"] = {}
      BY <2>1 DEF Carrier, LockFollows
    <2>3. \A i, j \in 1..28 : (p.gates[Stages[j]] = {} /\ i <= j) => p.gates[Stages[i]] = {}
      BY DEF Carrier, PrefixTo
    <2>4. \A s \in Upto(28) : p.gates[s] = {}
      <3>1. p.gates[Stages[28]] = {}
        BY <2>2, StagesAre
      <3>2. ASSUME NEW i \in 1..28 PROVE p.gates[Stages[i]] = {}
        <4>1. 28 \in 1..28 /\ i <= 28
          OBVIOUS
        <4> QED
          BY <2>3, <3>1, <4>1
      <3> QED
        BY <3>2 DEF Upto
    <2>5. names \subseteq passed
      BY <1>1, <2>4 DEF Copied, Passed
    <2>6. rows = ProjectCounts(counts)
      BY <2>5
    <2>7. 1 \in DOMAIN counts /\ counts[1] = Cardinality(p.rows["rule_rows"])
      BY <2>1 DEF CountsOf
    <2> HIDE DEF rows
    <2> QED
      BY <2>6, <2>7 DEF ProjectCounts
  <1>5. q = Over(Entry("inference", d), e)
    <2>1. InferenceRowsDiagnostics(p.gates, p.economic, counts) = d
      BY DEF InferenceRowsDiagnostics
    <2>2. InferenceRowsGate(d) = gate
      BY DEF InferenceRowsGate
    <2> HIDE DEF d, gate
    <2>3. d.counts = rows
      BY DEF d
    <2> HIDE DEF rows
    <2> QED
      BY <2>1, <2>2, <2>3, StagesAre DEF WithInferenceRows
  <1>6. d.passed = passed
    OBVIOUS
  <1> HIDE DEF gate, rows, d, q, passed
  <1>7. /\ "gates" \in DOMAIN p /\ PrefixTo(p.gates, 28) /\ RowsFollow(p, 28)
        /\ EconomicFollows(p) /\ CountsFollow(p) /\ LockFollows(p)
    BY DEF Carrier
  <1>8. /\ DOMAIN e = DOMAIN p /\ e.gates = Over(Entry(Stages[28 + 1], gate), p.gates)
        /\ e.rows = Over(Entry(Stages[28 + 1], rows), p.rows)
        /\ \A k \in DOMAIN p \ {"gates", "rows"} : e[k] = p[k]
    BY <1>7, EmitIs DEF RowsFollow
  <1> HIDE DEF e
  <1>9. /\ {"gates", "rows", "economic", "inference"} \subseteq DOMAIN q
        /\ q.inference = d /\ q.gates = e.gates /\ q.rows = e.rows /\ q.economic = p.economic
    <2>1. "gates" \in DOMAIN e /\ "rows" \in DOMAIN e /\ "economic" \in DOMAIN e /\ e.economic = p.economic
      BY <1>7, <1>8 DEF RowsFollow, EconomicFollows
    <2> QED
      BY <1>5, <2>1 DEF Over, Entry
  <1>10. PrefixTo(q.gates, 28 + 1) /\ Keeps(p.gates, q.gates)
    <2>1. PrefixTo(q.gates, 28 + 1)
      BY <1>3, <1>7, <1>8, <1>9, GateExtends
    <2>2. Keeps(p.gates, q.gates)
      BY <1>7, <1>8, <1>9, GateIsKept
    <2> QED
      BY <2>1, <2>2
  <1>11. /\ Stages[29] = "inference_rows" /\ Stages[29] \in DOMAIN q.rows /\ q.rows[Stages[29]] = rows
         /\ \A s \in DOMAIN p.rows : s # Stages[29] => s \in DOMAIN q.rows /\ q.rows[s] = p.rows[s]
    BY <1>8, <1>9, StagesAre DEF Over, Entry
  <1>12. RowStages \cap Upto(29) = RowStages \cap Upto(28)
    <2>1. Upto(28 + 1) = Upto(28) \cup {Stages[28 + 1]} /\ Stages[28 + 1] \notin RowStages
      BY UptoGrows, StagesAre DEF RowStages
    <2> QED
      BY <2>1
  <1>13. \A s \in RowStages \cap Upto(28) :
            /\ s \in DOMAIN q.rows /\ q.rows[s] = p.rows[s] /\ q.gates[s] = p.gates[s]
    <2>1. "inference_rows" \notin RowStages
      BY DEF RowStages
    <2> QED
      BY <1>1, <1>7, <1>10, <1>11, <2>1 DEF RowsFollow, Keeps
  <1>14. {"rule_rows", "economic_rows"} \subseteq RowStages \cap Upto(28)
    BY StagesAre, StageSets DEF RowStages
  <1>15. RowsFollow(q, 29)
    BY <1>7, <1>9, <1>12, <1>13, <1>14 DEF RowsFollow
  <1>16. /\ Copied(q.gates, Older) = Copied(p.gates, Older)
         /\ Copied(q.gates, Inferred \cup Older) = Copied(p.gates, Inferred \cup Older)
    <2>1. Older \subseteq DOMAIN p.gates /\ Inferred \cup Older \subseteq DOMAIN p.gates
      BY <1>1
    <2> QED
      BY <1>10, <2>1, CopiedIsKept
  <1>17. EconomicFollows(q)
    BY <1>7, <1>9, <1>13, <1>14, <1>16 DEF EconomicFollows
  <1>18. /\ "counts" \in DOMAIN q.rows /\ q.rows["counts"] = p.rows["counts"]
         /\ q.rows["rule_rows"] = p.rows["rule_rows"]
         /\ q.gates["counts"] = p.gates["counts"]
         /\ q.gates["inference_lock"] = p.gates["inference_lock"]
    <2>1. "counts" \in DOMAIN q.rows /\ q.rows["counts"] = p.rows["counts"]
      BY <1>7, <1>11 DEF CountsFollow
    <2>2. {"counts", "inference_lock"} \subseteq DOMAIN p.gates
      BY <1>1, StagesAre, StageSets
    <2> QED
      BY <1>10, <1>13, <1>14, <2>1, <2>2 DEF Keeps
  <1>19. CountsFollow(q) /\ LockFollows(q)
    BY <1>7, <1>18 DEF CountsFollow, LockFollows
  <1>20. InferenceFollows(q)
    BY <1>1, <1>4, <1>6, <1>9, <1>11, <1>16, <1>18 DEF InferenceFollows
  <1>21. Carrier(q, 29)
    BY <1>9, <1>10, <1>15, <1>17, <1>19, <1>20 DEF Carrier
  <1> QED
    BY <1>10, <1>21 DEF q

LEMMA ComparisonLockCarries ==
    ASSUME NEW p, Carrier(p, 29)
    PROVE  Carrier(WithComparisonLock(p), 30) /\ Keeps(p.gates, WithComparisonLock(p).gates)
  <1> DEFINE names == {"inference_rows"} \cup Inferred \cup Older
             groups == <<{"inference_rows"} \cup Inferred \cup Older>>
             passed == Copied(p.gates, {"inference_rows"}) \cup (p.inference.passed \cap (Inferred \cup Older))
             own == TRUE
             gate == Blame(passed, groups, own)
  <1>1. DOMAIN p.gates = Upto(29) /\ names \subseteq Upto(29) /\ passed = Copied(p.gates, names)
    <2>1. DOMAIN p.gates = Upto(29)
      BY DEF Carrier, PrefixTo
    <2>2. names \subseteq Upto(29)
      BY StagesAre, StageSets
    <2>3. passed = Copied(p.gates, names)
      BY DEF Carrier, InferenceFollows, Copied
    <2> QED
      BY <2>1, <2>2, <2>3
  <1>2. /\ DOMAIN groups \in SUBSET Nat /\ \A i \in DOMAIN groups : groups[i] \subseteq names
        /\ \E i \in DOMAIN groups : Stages[29] \in groups[i]
    <2>1. DOMAIN groups = 1..1 /\ groups[1] = names
      OBVIOUS
    <2>2. Stages[29] \in groups[1]
      BY StagesAre
    <2> QED
      BY <2>1, <2>2
  <1>3. Follows(gate, p.gates, 29)
    <2> HIDE DEF names, groups, passed, own
    <2> QED
      BY <1>1, <1>2, BlameFollows
  <1>4. WithComparisonLock(p) = Lock(p, Stages[30], gate)
    BY StagesAre DEF WithComparisonLock, ComparisonLockGate, ComparisonLockDiagnostics
  <1> HIDE DEF gate
  <1> QED
    BY <1>3, <1>4, LockCarries

-----------------------------------------------------------------------------
(* From the closed chain to the end.                                        *)

LEMMA KeepsOn ==
    ASSUME NEW f, NEW g, NEW h, Keeps(f, g), Keeps(g, h)
    PROVE  Keeps(f, h)
  BY DEF Keeps

\* The chain is closed when all seven have passed.
LEMMA ClosedHasPassed ==
    ASSUME NEW seen
    PROVE  ClosureGate(Closure(seen)) = "passed" <=> \A p \in Packets : seen[p].gate = "passed"
  BY DEF ClosureGate, Closure, MissingGates, FailedGates

LEMMA ChainGatesAre ==
    ASSUME NEW seen, seen["manifest"].gate = "passed" => seen["contract"].gate = "passed"
    PROVE  /\ Carrier(ChainGates(seen), 3)
           /\ ChainGates(seen).gates["closure"] = {} => \A p \in Packets : seen[p].gate = "passed"
  <1> DEFINE g == ChainGates(seen).gates
  <1>1. /\ DOMAIN g = {"contract", "manifest", "closure"}
        /\ g["contract"] = OwnGate(seen["contract"].gate = "passed")
        /\ g["manifest"] = OwnGate(seen["manifest"].gate = "passed")
        /\ g["closure"] = OwnGate(ClosureGate(Closure(seen)) = "passed")
        /\ "gates" \in DOMAIN ChainGates(seen)
    BY DEF ChainGates
  <1>2. /\ g["contract"] \in {{}, {"own"}} /\ g["manifest"] \in {{}, {"own"}}
        /\ g["closure"] \in {{}, {"own"}}
        /\ g["contract"] = {} <=> seen["contract"].gate = "passed"
        /\ g["manifest"] = {} <=> seen["manifest"].gate = "passed"
        /\ g["closure"] = {} <=> ClosureGate(Closure(seen)) = "passed"
    BY <1>1 DEF OwnGate
  <1> HIDE DEF g
  <1>3. DOMAIN g = Upto(3)
    <2>1. 1..3 = {1, 2, 3}
      OBVIOUS
    <2> QED
      BY <1>1, <2>1, StagesAre DEF Upto
  <1>4. /\ g["closure"] = {} => \A p \in Packets : seen[p].gate = "passed"
        /\ g["closure"] = {} => g["manifest"] = {}
        /\ g["manifest"] = {} => g["contract"] = {}
    BY <1>2, ClosedHasPassed, PacketsAre
  <1>5. PrefixTo(g, 3)
    <2>1. \A i \in 1..3 : i = 1 \/ i = 2 \/ i = 3
      OBVIOUS
    <2>2. \A i, j \in 1..3 : (g[Stages[j]] = {} /\ i <= j) => g[Stages[i]] = {}
      BY <1>4, <2>1, StagesAre
    <2>3. \A j \in 1..3 : g[Stages[j]] \ {"own"} = {}
      BY <1>2, <2>1, StagesAre
    <2> QED
      BY <1>3, <2>2, <2>3 DEF PrefixTo
  <1> QED
    BY <1>1, <1>4, <1>5 DEF Carrier, g

LEMMA GatesToRowCountAre ==
    ASSUME NEW seen, seen["manifest"].gate = "passed" => seen["contract"].gate = "passed",
           NEW inventory
    PROVE  /\ PrefixTo(GatesToRowCount(seen, inventory), 8)
           /\ GatesToRowCount(seen, inventory)["closure"] = {} =>
                 \A p \in Packets : seen[p].gate = "passed"
  <1>1. PICK p3 : p3 = ChainGates(seen)
    OBVIOUS
  <1>2. PICK p4 : p4 = WithBoundary(p3)
    OBVIOUS
  <1>3. PICK p5 : p5 = WithInvocation(p4)
    OBVIOUS
  <1>4. PICK p6 : p6 = WithProjection(p5)
    OBVIOUS
  <1>5. PICK p7 : p7 = WithShape(p6)
    OBVIOUS
  <1>6. PICK p8 : p8 = WithRowCount(p7, inventory)
    OBVIOUS
  <1>7. Carrier(p3, 3) /\ Carrier(p4, 4) /\ Keeps(p3.gates, p4.gates)
    BY <1>1, <1>2, ChainGatesAre, BoundaryCarries
  <1>8. Carrier(p5, 5) /\ Keeps(p4.gates, p5.gates)
    BY <1>3, <1>7, InvocationCarries
  <1>9. Carrier(p6, 6) /\ Keeps(p5.gates, p6.gates)
    BY <1>4, <1>8, ProjectionCarries
  <1>10. Carrier(p7, 7) /\ Keeps(p6.gates, p7.gates)
    BY <1>5, <1>9, ShapeCarries
  <1>11. Carrier(p8, 8) /\ Keeps(p7.gates, p8.gates)
    BY <1>6, <1>10, RowCountCarries
  <1>12. Keeps(p3.gates, p8.gates)
    BY <1>7, <1>8, <1>9, <1>10, <1>11, KeepsOn
  <1>13. GatesToRowCount(seen, inventory) = p8.gates
    BY <1>1, <1>2, <1>3, <1>4, <1>5, <1>6 DEF GatesToRowCount
  <1>14. "closure" \in DOMAIN p3.gates
    BY <1>7, StagesAre, StageSets DEF Carrier, PrefixTo
  <1>15. p3.gates["closure"] = {} => \A p \in Packets : seen[p].gate = "passed"
    BY <1>1, ChainGatesAre
  <1> QED
    BY <1>11, <1>12, <1>13, <1>14, <1>15 DEF Carrier, Keeps

LEMMA GatesToRuleLockAre ==
    ASSUME NEW g, PrefixTo(g, 9), NEW inventory, NEW windows, NEW hashed, NEW opened
    PROVE  LET joinability == JoinabilityDiagnostics(g, inventory, windows, hashed, opened)
           IN /\ PrefixTo(GatesToRuleLock(g, joinability), 12)
              /\ Keeps(g, GatesToRuleLock(g, joinability))
  <1>1. PICK j : j = JoinabilityDiagnostics(g, inventory, windows, hashed, opened)
    OBVIOUS
  <1>2. PICK p10 : p10 = WithJoinability(g, j)
    OBVIOUS
  <1>3. PICK p11 : p11 = WithDryHarness(p10, j)
    OBVIOUS
  <1>4. PICK p12 : p12 = WithRuleLock(p11)
    OBVIOUS
  <1>5. Carrier(p10, 10) /\ Keeps(g, p10.gates)
    BY <1>1, <1>2, JoinabilityCarries
  <1>6. Carrier(p11, 11) /\ Keeps(p10.gates, p11.gates)
    BY <1>3, <1>5, DryHarnessCarries
  <1>7. Carrier(p12, 12) /\ Keeps(p11.gates, p12.gates)
    BY <1>4, <1>6, RuleLockCarries
  <1>8. Keeps(g, p12.gates)
    BY <1>5, <1>6, <1>7, KeepsOn
  <1>9. GatesToRuleLock(g, j) = p12.gates
    BY <1>2, <1>3, <1>4 DEF GatesToRuleLock
  <1> QED
    BY <1>1, <1>7, <1>8, <1>9 DEF Carrier

LEMMA GatesToTheEndAre ==
    ASSUME NEW g, PrefixTo(g, 12), NEW extracted
    PROVE  LET last == GatesToTheEnd(GatesToReadiness(GatesToEconomicRows(g, extracted)))
           IN Carrier(last, 30) /\ Keeps(g, last.gates)
  <1>1. PICK p13 : p13 = WithRuleRows(g, extracted)
    OBVIOUS
  <1>2. PICK p14 : p14 = WithEventLock(p13)
    OBVIOUS
  <1>3. PICK p15 : p15 = WithEvents(p14)
    OBVIOUS
  <1>4. PICK p16 : p16 = WithEconomicLock(p15)
    OBVIOUS
  <1>5. PICK p17 : p17 = WithEconomicRows(p16)
    OBVIOUS
  <1>6. PICK p18 : p18 = WithNullLock(p17)
    OBVIOUS
  <1>7. PICK p19 : p19 = WithNullRows(p18)
    OBVIOUS
  <1>8. PICK p20 : p20 = WithStatisticLock(p19)
    OBVIOUS
  <1>9. PICK p21 : p21 = WithStatisticRows(p20)
    OBVIOUS
  <1>10. PICK p22 : p22 = WithContractLock(p21)
    OBVIOUS
  <1>11. PICK p23 : p23 = WithReadinessRows(p22)
    OBVIOUS
  <1>12. PICK p24 : p24 = WithDescriptiveLock(p23)
    OBVIOUS
  <1>13. PICK p25 : p25 = WithDescriptiveRows(p24)
    OBVIOUS
  <1>14. PICK p26 : p26 = WithCountPolicy(p25)
    OBVIOUS
  <1>15. PICK p27 : p27 = WithCounts(p26)
    OBVIOUS
  <1>16. PICK p28 : p28 = WithInferenceLock(p27)
    OBVIOUS
  <1>17. PICK p29 : p29 = WithInferenceRows(p28)
    OBVIOUS
  <1>18. PICK p30 : p30 = WithComparisonLock(p29)
    OBVIOUS
  <1>19. Carrier(p13, 13) /\ Keeps(g, p13.gates)
    BY <1>1, RuleRowsCarries
  <1>20. Carrier(p14, 14) /\ Keeps(g, p14.gates)
    BY <1>2, <1>19, EventLockCarries, KeepsOn
  <1>21. Carrier(p15, 15) /\ Keeps(g, p15.gates)
    BY <1>3, <1>20, EventsCarries, KeepsOn
  <1>22. Carrier(p16, 16) /\ Keeps(g, p16.gates)
    BY <1>4, <1>21, EconomicLockCarries, KeepsOn
  <1>23. Carrier(p17, 17) /\ Keeps(g, p17.gates)
    BY <1>5, <1>22, EconomicRowsCarries, KeepsOn
  <1>24. Carrier(p18, 18) /\ Keeps(g, p18.gates)
    BY <1>6, <1>23, NullLockCarries, KeepsOn
  <1>25. Carrier(p19, 19) /\ Keeps(g, p19.gates)
    BY <1>7, <1>24, NullRowsCarries, KeepsOn
  <1>26. Carrier(p20, 20) /\ Keeps(g, p20.gates)
    BY <1>8, <1>25, StatisticLockCarries, KeepsOn
  <1>27. Carrier(p21, 21) /\ Keeps(g, p21.gates)
    BY <1>9, <1>26, StatisticRowsCarries, KeepsOn
  <1>28. Carrier(p22, 22) /\ Keeps(g, p22.gates)
    BY <1>10, <1>27, ContractLockCarries, KeepsOn
  <1>29. Carrier(p23, 23) /\ Keeps(g, p23.gates)
    BY <1>11, <1>28, ReadinessRowsCarries, KeepsOn
  <1>30. Carrier(p24, 24) /\ Keeps(g, p24.gates)
    BY <1>12, <1>29, DescriptiveLockCarries, KeepsOn
  <1>31. Carrier(p25, 25) /\ Keeps(g, p25.gates)
    BY <1>13, <1>30, DescriptiveRowsCarries, KeepsOn
  <1>32. Carrier(p26, 26) /\ Keeps(g, p26.gates)
    BY <1>14, <1>31, CountPolicyCarries, KeepsOn
  <1>33. Carrier(p27, 27) /\ Keeps(g, p27.gates)
    BY <1>15, <1>32, CountsCarries, KeepsOn
  <1>34. Carrier(p28, 28) /\ Keeps(g, p28.gates)
    BY <1>16, <1>33, InferenceLockCarries, KeepsOn
  <1>35. Carrier(p29, 29) /\ Keeps(g, p29.gates)
    BY <1>17, <1>34, InferenceRowsCarries, KeepsOn
  <1>36. Carrier(p30, 30) /\ Keeps(g, p30.gates)
    BY <1>18, <1>35, ComparisonLockCarries, KeepsOn
  <1>37. GatesToEconomicRows(g, extracted) = p17
    BY <1>1, <1>2, <1>3, <1>4, <1>5 DEF GatesToEconomicRows
  <1>38. GatesToReadiness(p17) = p23
    BY <1>6, <1>7, <1>8, <1>9, <1>10, <1>11 DEF GatesToReadiness
  <1>39. GatesToTheEnd(p23) = p30
    BY <1>12, <1>13, <1>14, <1>15, <1>16, <1>17, <1>18 DEF GatesToTheEnd
  <1> QED
    BY <1>36, <1>37, <1>38, <1>39

-----------------------------------------------------------------------------
(* The invariant: what a run has read of the chain is vouched for, the gates *)
(* it has so far hang together, and both are true of a receipt for good.      *)

Fields == {"pc", "args", "at", "hashed", "inventory", "windows", "seen", "gates", "doc", "torn", "exit"}
Early == {"inventory", "rows", "adjustments", "joinability", "convention", "canonicalization",
          "scaffold", "leakage"}
Late == {"temporal", "joins", "rule_rows", "write", "written"}
IsOpened(opened) == opened = [role \in DataRoles |-> [y \in Symbols |-> opened[role][y]]]
RunOK ==
    /\ DOMAIN run = Fields
    /\ run.pc \in {"idle", "packets"} \cup Early \cup Late
    /\ run.exit \in {0, 3, 4, 5, 9} /\ (run.exit # 0 => run.pc = "idle")
    /\ run.pc \in {"idle"} \cup Early => run.at = 0 /\ DOMAIN run.seen = {}
    /\ run.pc \in Late => run.at = 8 /\ DOMAIN run.seen = Packets
    /\ run.pc \notin Late => DOMAIN run.gates = {}
    /\ run.hashed # {} => run.pc \in Passes /\ \A opened \in run.hashed : IsOpened(opened)
FilesOK ==
    /\ data = [role \in Roles |-> [y \in Symbols |-> data[role][y]]]
    /\ json = [p \in Packets |-> json[p]]
    /\ \A p \in Packets : \A c, other \in json[p] : IsPacket(p, c) /\ c = other
    /\ commits \in Seq(Nat) /\ writes \in Nat
\* Of every packet that was read and passed, the document has what was read.
HasRead(seen, doc, heads) ==
    \A p \in DOMAIN seen : seen[p].gate = "passed" =>
        /\ p \in DOMAIN doc /\ doc[p].digest = seen[p].digest
        /\ IsVouched(p, doc[p], seen, heads)
ReadOK ==
    run.pc = "packets" =>
          /\ run.at \in 1..8 /\ DOMAIN run.seen = {Chain[i] : i \in 1..(run.at - 1)}
          /\ HasRead(run.seen, run.doc, commits)
\* A document of seven packets that are bound to one another and to a commit.
IsBound(doc, heads) ==
    /\ Packets \subseteq DOMAIN doc
    /\ \A p \in Packets : doc[p].loosened = {} /\ ~doc[p].authorizes
    /\ \A p \in Packets : \A q \in Before(p) : doc[p].bound[q] = doc[q].digest
    /\ \E i \in DOMAIN heads : heads[i] = doc["contract"].digest
GatesOK ==
    /\ run.pc = "temporal" => PrefixTo(run.gates, 8)
    /\ run.pc = "joins" => PrefixTo(run.gates, 9)
    /\ run.pc = "rule_rows" => PrefixTo(run.gates, 12)
    /\ run.pc \in {"write", "written"} => PrefixTo(run.gates, 30)
    /\ run.pc \in Late =>
          (run.gates["closure"] = {} => IsBound(run.doc, commits))
ReceiptOK ==
    /\ receipt = {} \/ \E r \in receipt : receipt = {r}
    /\ \A doc \in Docs :
        PrefixTo(doc["gates"], 30) /\ (doc["gates"]["closure"] = {} => IsBound(doc, commits))
ChainInv == RunOK /\ FilesOK /\ ReadOK /\ GatesOK /\ ReceiptOK

LEMMA NoRunIs ==
    /\ DOMAIN NoRun = Fields
    /\ NoRun.pc = "idle" /\ DOMAIN NoRun.seen = {} /\ DOMAIN NoRun.doc = {}
  BY DEF NoRun, Fields, NoSection

LEMMA BeforeArePackets == \A p \in Packets : Before(p) \subseteq Packets \ {p}
  BY PacketsAre, BeforeIs

\* A commit more takes nothing away.
LEMMA CommitsGrow ==
    ASSUME NEW heads \in Seq(Nat), NEW n \in Nat
    PROVE  /\ \A c : (\E i \in DOMAIN heads : heads[i] = c)
                        => \E i \in DOMAIN Append(heads, n) : Append(heads, n)[i] = c
           /\ \A doc : IsBound(doc, heads) => IsBound(doc, Append(heads, n))
           /\ \A seen, doc : HasRead(seen, doc, heads) => HasRead(seen, doc, Append(heads, n))
  <1>1. \A i \in DOMAIN heads : i \in DOMAIN Append(heads, n) /\ Append(heads, n)[i] = heads[i]
    OBVIOUS
  <1>2. \A c : (\E i \in DOMAIN heads : heads[i] = c)
                  => \E i \in DOMAIN Append(heads, n) : Append(heads, n)[i] = c
    BY <1>1
  <1>3. \A doc : IsBound(doc, heads) => IsBound(doc, Append(heads, n))
    BY <1>2 DEF IsBound
  <1>4. \A seen, doc : HasRead(seen, doc, heads) => HasRead(seen, doc, Append(heads, n))
    BY <1>2 DEF HasRead, IsVouched
  <1> QED
    BY <1>2, <1>3, <1>4

\* Sections that are not packets take nothing away either.
LEMMA SectionsKeepBound ==
    ASSUME NEW new, NEW doc, NEW heads, DOMAIN new \cap Packets = {}, IsBound(doc, heads)
    PROVE  IsBound(Over(new, doc), heads)
  <1> DEFINE over == Over(new, doc)
  <1>1. \A p \in Packets : p \in DOMAIN over /\ over[p] = doc[p]
    BY DEF Over, IsBound
  <1>2. "contract" \in Packets
    BY PacketsAre
  <1> HIDE DEF over
  <1>3. IsBound(over, heads)
    BY <1>1, <1>2, BeforeArePackets DEF IsBound
  <1> QED
    BY <1>3 DEF over

\* Seven packets that have been read and have passed are bound.
LEMMA ReadIsBound ==
    ASSUME NEW seen, NEW doc, NEW heads, HasRead(seen, doc, heads),
           Packets \subseteq DOMAIN seen, \A p \in Packets : seen[p].gate = "passed"
    PROVE  IsBound(doc, heads)
  <1>1. \A p \in Packets : /\ p \in DOMAIN doc /\ doc[p].digest = seen[p].digest
                           /\ IsVouched(p, doc[p], seen, heads)
    BY DEF HasRead
  <1>2. "contract" \in Packets
    BY PacketsAre
  <1> QED
    BY <1>1, <1>2, BeforeArePackets DEF IsBound, IsVouched

\* The next packet, read and vouched for or absent, joins those before it.
LEMMA ReadOneMore ==
    ASSUME NEW seen, NEW doc, NEW heads, HasRead(seen, doc, heads),
           NEW p \in Packets, p \notin DOMAIN seen, DOMAIN seen \subseteq Packets,
           Before(p) \subseteq DOMAIN seen, p # "contract" => "contract" \in DOMAIN seen,
           \A q \in DOMAIN seen : Before(q) \subseteq DOMAIN seen
                                  /\ (q # "contract" => "contract" \in DOMAIN seen),
           NEW new, NEW doc2, \A q \in DOMAIN doc : q # p => q \in DOMAIN doc2 /\ doc2[q] = doc[q],
           new.gate = "passed" =>
              /\ p \in DOMAIN doc2 /\ doc2[p].digest = new.digest
              /\ IsVouched(p, doc2[p], seen, heads)
    PROVE  HasRead(Over(Entry(p, new), seen), doc2, heads)
  <1> DEFINE seen2 == Over(Entry(p, new), seen)
  <1>1. DOMAIN seen2 = DOMAIN seen \cup {p} /\ seen2[p] = new /\ \A q \in DOMAIN seen : seen2[q] = seen[q]
    BY DEF Over, Entry
  <1> HIDE DEF seen2
  <1>2. ASSUME NEW q \in DOMAIN seen2, seen2[q].gate = "passed"
        PROVE  /\ q \in DOMAIN doc2 /\ doc2[q].digest = seen2[q].digest
               /\ IsVouched(q, doc2[q], seen, heads)
    <2> CASE q = p
      BY <1>1, <1>2
    <2> CASE q # p
      BY <1>1, <1>2 DEF HasRead
    <2> QED
      OBVIOUS
  <1>3. ASSUME NEW q \in DOMAIN seen2, IsVouched(q, doc2[q], seen, heads)
        PROVE  IsVouched(q, doc2[q], seen2, heads)
    <2>1. Before(q) \subseteq DOMAIN seen /\ (q = "manifest" => "contract" \in DOMAIN seen)
      BY <1>1
    <2> QED
      BY <1>1, <1>3, <2>1 DEF IsVouched
  <1>4. HasRead(seen2, doc2, heads)
    BY <1>2, <1>3 DEF HasRead
  <1> QED
    BY <1>4 DEF seen2

-----------------------------------------------------------------------------
(* Every step keeps the invariant.                                          *)

LEMMA FilesStay ==
    ASSUME FilesOK, ReceiptOK, UNCHANGED <<files, receipt, writes>>
    PROVE  FilesOK' /\ ReceiptOK'
  <1>1. /\ data' = data /\ json' = json /\ commits' = commits /\ receipt' = receipt
        /\ writes' = writes
    BY DEF files
  <1>2. FilesOK'
    BY <1>1 DEF FilesOK
  <1>3. ReceiptOK'
    BY <1>1 DEF ReceiptOK, Docs
  <1> QED
    BY <1>2, <1>3

\* A run that has stopped, and one that has not begun.
LEMMA IdleIsFine ==
    ASSUME NEW code \in {0, 3, 4, 5, 9}, run' = [NoRun EXCEPT !.exit = code]
    PROVE  RunOK' /\ ReadOK' /\ GatesOK'
  <1>1. /\ DOMAIN run' = Fields /\ run'.pc = "idle" /\ run'.exit = code /\ run'.at = 0
        /\ DOMAIN run'.seen = {} /\ DOMAIN run'.gates = {} /\ run'.hashed = {}
    BY DEF NoRun, Fields
  <1> QED
    BY <1>1 DEF RunOK, ReadOK, GatesOK, Early, Late

LEMMA InitIsFine == Init => ChainInv
  <1> SUFFICES ASSUME Init PROVE ChainInv
    OBVIOUS
  <1>1. RunOK /\ ReadOK /\ GatesOK
    <2>1. /\ DOMAIN run = Fields /\ run.pc = "idle" /\ run.exit = 0 /\ run.at = 0
          /\ DOMAIN run.seen = {} /\ DOMAIN run.gates = {} /\ run.hashed = {}
      BY DEF Init, NoRun, Fields
    <2> QED
      BY <2>1 DEF RunOK, ReadOK, GatesOK, Early, Late
  <1>2. FilesOK
    BY StartsAssumption DEF Init, FilesOK
  <1>3. ReceiptOK
    BY DEF Init, ReceiptOK, Docs
  <1> QED
    BY <1>1, <1>2, <1>3 DEF ChainInv

\* Whatever others do to the files, the run has what it has; commits are added.
LEMMA OthersAreFine ==
    ASSUME ChainInv, FilesOK', run' = run, receipt' = receipt,
           commits' = commits \/ \E n \in Nat : commits' = Append(commits, n)
    PROVE  ChainInv'
  <1>1. RunOK'
    BY DEF ChainInv, RunOK, IsOpened, DataRoles, WithFunding, Args
  <1>2. /\ \A doc : IsBound(doc, commits) => IsBound(doc, commits')
        /\ \A seen, doc : HasRead(seen, doc, commits) => HasRead(seen, doc, commits')
    <2> CASE commits' = commits
      OBVIOUS
    <2> CASE \E n \in Nat : commits' = Append(commits, n)
      BY CommitsGrow DEF ChainInv, FilesOK
    <2> QED
      OBVIOUS
  <1>3. ReadOK'
    BY <1>2 DEF ChainInv, ReadOK
  <1>4. GatesOK'
    BY <1>2 DEF ChainInv, GatesOK
  <1>5. ReceiptOK'
    BY <1>2 DEF ChainInv, ReceiptOK, Docs
  <1> QED
    BY <1>1, <1>3, <1>4, <1>5 DEF ChainInv

LEMMA RefreshIsFine == ChainInv /\ Refresh => ChainInv'
  <1> SUFFICES ASSUME ChainInv, Refresh PROVE ChainInv'
    OBVIOUS
  <1>1. PICK role \in Roles, s \in Symbols :
            \E file \in Refreshes(role, s) : data' = [data EXCEPT ![role][s] = file]
    BY DEF Refresh
  <1>2. data' = [r \in Roles |-> [y \in Symbols |-> data'[r][y]]]
    BY <1>1 DEF ChainInv, FilesOK
  <1>3. FilesOK'
    BY <1>2 DEF ChainInv, FilesOK, Refresh
  <1> QED
    BY <1>3, OthersAreFine DEF Refresh

LEMMA AmendIsFine == ChainInv /\ Amend => ChainInv'
  <1> SUFFICES ASSUME ChainInv, Amend PROVE ChainInv'
    OBVIOUS
  <1>1. PICK p \in Packets : \E c : IsPacket(p, c) /\ json' = [json EXCEPT ![p] = {c}]
    BY DEF Amend
  <1>2. PICK c : IsPacket(p, c) /\ json' = [json EXCEPT ![p] = {c}]
    BY <1>1
  <1>3. json' = [q \in Packets |-> json'[q]]
    BY <1>2 DEF ChainInv, FilesOK
  <1>4. DOMAIN json = Packets
        /\ \A q \in Packets : \A d, other \in json[q] : IsPacket(q, d) /\ d = other
    BY DEF ChainInv, FilesOK
  <1>5. ASSUME NEW q \in Packets, NEW d \in json'[q], NEW other \in json'[q]
        PROVE  IsPacket(q, d) /\ d = other
    <2> CASE q = p
      BY <1>2, <1>4, <1>5
    <2> CASE q # p
      BY <1>2, <1>4, <1>5
    <2> QED
      OBVIOUS
  <1>6. FilesOK'
    BY <1>3, <1>5 DEF ChainInv, FilesOK, Amend, Write
  <1> QED
    BY <1>6, OthersAreFine DEF Amend, Write

LEMMA RefreezeIsFine == ChainInv /\ Refreeze => ChainInv'
  <1> SUFFICES ASSUME ChainInv, Refreeze PROVE ChainInv'
    OBVIOUS
  <1>1. FilesOK'
    BY DEF ChainInv, FilesOK, Refreeze, Write
  <1> QED
    BY <1>1, OthersAreFine DEF Refreeze, Write

LEMMA RebindIsFine == ChainInv /\ Rebind => ChainInv'
  <1> SUFFICES ASSUME ChainInv, Rebind PROVE ChainInv'
    OBVIOUS
  <1>1. PICK c \in json["contract"] : commits' = Append(commits, c.digest)
    BY DEF Rebind
  <1>2. c.digest \in Nat
    BY PacketsAre DEF ChainInv, FilesOK, IsPacket
  <1>3. FilesOK'
    BY <1>1, <1>2 DEF ChainInv, FilesOK, Rebind, Write
  <1> QED
    BY <1>1, <1>2, <1>3, OthersAreFine DEF Rebind, Write

-----------------------------------------------------------------------------
(* The passes before the packets.                                           *)

\* A run goes on from one pass to the next and has lost its digests.
LEMMA PassIsFine ==
    ASSUME ChainInv, run.pc \in Early, run'.pc \in Early, DOMAIN run' = Fields, run'.exit = run.exit,
           run'.at = run.at, run'.seen = run.seen, run'.gates = run.gates, run'.hashed = {},
           UNCHANGED <<files, receipt, writes>>
    PROVE  ChainInv'
  <1>1. FilesOK' /\ ReceiptOK'
    BY FilesStay DEF ChainInv
  <1>2. run.at = 0 /\ DOMAIN run.seen = {} /\ DOMAIN run.gates = {} /\ run.exit = 0
    BY DEF ChainInv, RunOK, Early, Late
  <1>3. RunOK' /\ ReadOK' /\ GatesOK'
    BY <1>2 DEF RunOK, ReadOK, GatesOK, Early, Late
  <1> QED
    BY <1>1, <1>3 DEF ChainInv

LEMMA StopIsFine ==
    ASSUME ChainInv, NEW code \in {0, 3, 4, 5, 9}, run' = [NoRun EXCEPT !.exit = code],
           UNCHANGED <<files, receipt, writes>>
    PROVE  ChainInv'
  BY FilesStay, IdleIsFine DEF ChainInv

\* From the packets on a run is given, with nothing read of them.
LEMMA PacketsBegin ==
    ASSUME ChainInv, run'.pc = "packets", DOMAIN run' = Fields, run'.exit = 0, run'.at = 1,
           DOMAIN run'.seen = {}, DOMAIN run'.gates = {}, run'.hashed = {},
           UNCHANGED <<files, receipt, writes>>
    PROVE  ChainInv'
  <1>1. FilesOK' /\ ReceiptOK'
    BY FilesStay DEF ChainInv
  <1>2. RunOK' /\ GatesOK'
    BY DEF RunOK, GatesOK, Early, Late
  <1>3. ReadOK'
    <2>1. 1..(1 - 1) = {} /\ {Chain[i] : i \in {}} = {}
      OBVIOUS
    <2> QED
      BY <2>1 DEF ReadOK, HasRead
  <1> QED
    BY <1>1, <1>2, <1>3 DEF ChainInv

LEMMA StartIsFine == ChainInv /\ Start => ChainInv'
  <1> SUFFICES ASSUME ChainInv, Start PROVE ChainInv'
    OBVIOUS
  <1>1. UNCHANGED <<files, receipt, writes>>
    BY DEF Start
  <1>2. PICK args \in Invocations :
            Refuse(args) \/ Undeclared(args) \/ FromDeclared(args) \/ FromData(args)
    BY DEF Start
  <1>3. CASE Refuse(args)
    BY <1>1, <1>3, StopIsFine DEF Refuse
  <1>4. CASE Undeclared(args)
    BY <1>1, <1>4, StopIsFine DEF Undeclared
  <1>5. CASE FromDeclared(args)
    <2>1. /\ run'.pc = "packets" /\ DOMAIN run' = Fields /\ run'.exit = 0 /\ run'.at = 1
          /\ DOMAIN run'.seen = {} /\ DOMAIN run'.gates = {} /\ run'.hashed = {}
      BY <1>5 DEF FromDeclared, NoRun, Fields
    <2> QED
      BY <1>1, <2>1, PacketsBegin
  <1>6. CASE FromData(args)
    <2>1. /\ run'.pc = "inventory" /\ DOMAIN run' = Fields /\ run'.exit = 0 /\ run'.at = 0
          /\ DOMAIN run'.seen = {} /\ DOMAIN run'.gates = {} /\ run'.hashed = {}
      BY <1>6 DEF FromData, NoRun, Fields
    <2>2. FilesOK' /\ ReceiptOK'
      BY <1>1, FilesStay DEF ChainInv
    <2>3. RunOK' /\ ReadOK' /\ GatesOK'
      BY <2>1 DEF RunOK, ReadOK, GatesOK, Early, Late
    <2> QED
      BY <2>2, <2>3 DEF ChainInv
  <1> QED
    BY <1>2, <1>3, <1>4, <1>5, <1>6

LEMMA CrashIsFine == ChainInv /\ Crash => ChainInv'
  BY StopIsFine DEF Crash

\* Taking the digests changes nothing else.
LEMMA TakeHashesIsFine == ChainInv /\ TakeHashes => ChainInv'
  <1> SUFFICES ASSUME ChainInv, TakeHashes PROVE ChainInv'
    OBVIOUS
  <1>1. UNCHANGED <<files, receipt, writes>>
    BY DEF TakeHashes
  <1>2. CASE Failed
    BY <1>1, <1>2, StopIsFine DEF Failed
  <1>3. CASE run' = [run EXCEPT !.hashed = {Given}]
    <2>1. /\ DOMAIN run' = Fields /\ run'.pc = run.pc /\ run'.exit = run.exit /\ run'.at = run.at
          /\ run'.seen = run.seen /\ run'.gates = run.gates /\ run'.doc = run.doc
          /\ run'.args = run.args /\ run'.hashed = {Given}
      BY <1>3 DEF ChainInv, RunOK, Fields
    <2>2. IsOpened(Given)'
      <3>1. DataRoles' = DataRoles /\ DataRoles \subseteq Roles
        BY <2>1 DEF DataRoles, WithFunding, Args, Roles
      <3>2. \A role \in Roles : data[role] = [y \in Symbols |-> data[role][y]]
        BY DEF ChainInv, FilesOK
      <3>3. Given = [role \in DataRoles |-> [y \in Symbols |-> Given[role][y]]]
        BY <3>1, <3>2 DEF Given
      <3>4. Given' = Given
        BY <1>1, <3>1 DEF Given, files
      <3> QED
        BY <3>1, <3>3, <3>4 DEF IsOpened
    <2>3. IsOpened(Given)' => \A opened \in run'.hashed : IsOpened(opened)'
      <3>1. Given' = Given
        BY <1>1, <2>1 DEF Given, files, DataRoles, WithFunding, Args
      <3> QED
        BY <2>1, <3>1 DEF IsOpened
    <2>4. RunOK'
      BY <2>1, <2>2, <2>3 DEF ChainInv, RunOK, TakeHashes, Passes
    <2>5. ReadOK' /\ GatesOK'
      BY <1>1, <2>1 DEF ChainInv, ReadOK, GatesOK, files
    <2> QED
      BY <1>1, <2>4, <2>5, FilesStay DEF ChainInv
  <1> QED
    BY <1>2, <1>3 DEF TakeHashes

LEMMA OpensIsFine ==
    ASSUME ChainInv, NEW pass \in Early, NEW reads, NEW next \in Early, NEW sections,
           Opens(pass, reads, next, sections)
    PROVE  ChainInv'
  <1>1. UNCHANGED <<files, receipt, writes>>
    BY DEF Opens
  <1>2. CASE Failed
    BY <1>1, <1>2, StopIsFine DEF Failed
  <1>3. CASE run' = [run EXCEPT !.pc = next, !.hashed = {}, !.doc = Over(sections, run.doc),
                       !.torn = run.torn \/ run.hashed # {Given}]
    <2>1. /\ DOMAIN run' = Fields /\ run'.pc = next /\ run'.exit = run.exit /\ run'.at = run.at
          /\ run'.seen = run.seen /\ run'.gates = run.gates /\ run'.hashed = {}
      BY <1>3 DEF ChainInv, RunOK, Fields
    <2> QED
      BY <1>1, <2>1, PassIsFine DEF Opens
  <1> QED
    BY <1>2, <1>3 DEF Opens

LEMMA PassesAreFine ==
    ASSUME ChainInv,
           \/ TakeInventory \/ AssignRows \/ Adjust \/ LeaveFundingOut \/ DiagnoseJoinability
           \/ DiagnoseConvention \/ Canonicalize \/ BuildScaffold \/ AuditSplits
    PROVE  ChainInv'
  <1>1. CASE TakeInventory
    <2>1. UNCHANGED <<files, receipt, writes>>
      BY <1>1 DEF TakeInventory
    <2>2. CASE Failed
      BY <2>1, <2>2, StopIsFine DEF Failed
    <2>3. CASE \E inventory :
                   run' = [run EXCEPT !.pc = "rows", !.hashed = {}, !.inventory = inventory,
                             !.windows = Windows(inventory), !.torn = run.hashed # {Given}]
      <3>1. /\ DOMAIN run' = Fields /\ run'.pc = "rows" /\ run'.exit = run.exit /\ run'.at = run.at
            /\ run'.seen = run.seen /\ run'.gates = run.gates /\ run'.hashed = {}
        BY <2>3 DEF ChainInv, RunOK, Fields
      <3> QED
        BY <1>1, <2>1, <3>1, PassIsFine DEF TakeInventory, Early
    <2> QED
      BY <1>1, <2>2, <2>3 DEF TakeInventory
  <1>2. CASE AssignRows
    BY <1>2, OpensIsFine DEF AssignRows, Early
  <1>3. CASE Adjust
    BY <1>3, OpensIsFine DEF Adjust, Early
  <1>4. CASE LeaveFundingOut
    <2>1. /\ DOMAIN run' = Fields /\ run'.pc = "leakage" /\ run'.exit = run.exit /\ run'.at = run.at
          /\ run'.seen = run.seen /\ run'.gates = run.gates /\ run'.hashed = {}
      BY <1>4 DEF LeaveFundingOut, ChainInv, RunOK, Fields
    <2> QED
      BY <1>4, <2>1, PassIsFine DEF LeaveFundingOut, Early
  <1>5. CASE DiagnoseJoinability
    BY <1>5, OpensIsFine DEF DiagnoseJoinability, JoinsAt, Early
  <1>6. CASE DiagnoseConvention
    BY <1>6, OpensIsFine DEF DiagnoseConvention, JoinsAt, Early
  <1>7. CASE Canonicalize
    BY <1>7, OpensIsFine DEF Canonicalize, JoinsAt, Early
  <1>8. CASE BuildScaffold
    BY <1>8, OpensIsFine DEF BuildScaffold, Early
  <1>9. CASE AuditSplits
    <2>1. run.pc = "leakage" /\ run.hashed = {} /\ run.exit = 0 /\ DOMAIN run.seen = {}
          /\ DOMAIN run.gates = {} /\ DOMAIN run = Fields
      BY <1>9 DEF AuditSplits, ChainInv, RunOK, Early, Late, Passes
    <2>2. /\ run'.pc = "packets" /\ DOMAIN run' = Fields /\ run'.exit = run.exit /\ run'.at = 1
          /\ run'.seen = run.seen /\ run'.gates = run.gates /\ run'.hashed = run.hashed
      BY <1>9, <2>1 DEF AuditSplits, Fields
    <2> QED
      BY <1>9, <2>1, <2>2, PacketsBegin DEF AuditSplits
  <1> QED
    BY <1>1, <1>2, <1>3, <1>4, <1>5, <1>6, <1>7, <1>8, <1>9

-----------------------------------------------------------------------------
(* The packets.                                                             *)

\* What comes before the next packet is what has been read.
LEMMA ReadSoFar ==
    ASSUME NEW at \in 1..7, NEW names, names = {Chain[i] : i \in 1..(at - 1)}
    PROVE  /\ Chain[at] \in Packets /\ Chain[at] \notin names /\ names \subseteq Packets
           /\ Before(Chain[at]) \subseteq names
           /\ Chain[at] # "contract" => "contract" \in names
           /\ \A q \in names : Before(q) \subseteq names /\ (q # "contract" => "contract" \in names)
           /\ names \cup {Chain[at]} = {Chain[i] : i \in 1..at}
  <1>1. \A i \in 1..7 : Before(Chain[i]) = {Chain[j] : j \in 1..(i - 1)}
    BY PlaceIs DEF Before
  <1>2. \A i, j \in 1..7 : Chain[i] = Chain[j] => i = j
    BY PlaceIs
  <1>3. Chain[at] \in Packets /\ names \subseteq Packets
    BY ChainIs DEF Packets
  <1>4. Chain[at] \notin names
    BY <1>2
  <1>5. Before(Chain[at]) \subseteq names
    BY <1>1
  <1>6. at # 1 => "contract" \in names
    BY ChainIs
  <1>7. \A q \in names : \E i \in 1..(at - 1) : q = Chain[i]
    OBVIOUS
  <1>8. ASSUME NEW q \in names PROVE Before(q) \subseteq names
    BY <1>1, <1>7
  <1>9. 1..at = (1..(at - 1)) \cup {at}
    OBVIOUS
  <1>10. names \cup {Chain[at]} = {Chain[i] : i \in 1..at}
    BY <1>9
  <1>11. Chain[at] # "contract" => at # 1
    BY ChainIs
  <1>12. ASSUME NEW q \in names PROVE "contract" \in names
    BY <1>6, <1>7
  <1> QED
    BY <1>3, <1>4, <1>5, <1>6, <1>8, <1>10, <1>11, <1>12

LEMMA ReadPacketIsFine == ChainInv /\ ReadPacket => ChainInv'
  <1> SUFFICES ASSUME ChainInv, ReadPacket PROVE ChainInv'
    OBVIOUS
  <1>1. UNCHANGED <<files, receipt, writes>>
    BY DEF ReadPacket
  <1>2. CASE Failed
    BY <1>1, <1>2, StopIsFine DEF Failed
  <1>3. /\ DOMAIN run = Fields /\ run.pc = "packets" /\ run.at \in 1..7 /\ run.exit = 0
        /\ run.hashed = {} /\ DOMAIN run.gates = {}
        /\ DOMAIN run.seen = {Chain[i] : i \in 1..(run.at - 1)}
        /\ HasRead(run.seen, run.doc, commits)
    BY ChainIs DEF ReadPacket, ChainInv, RunOK, ReadOK, Early, Late, Passes
  <1>4. PICK p : p = Chain[run.at]
    OBVIOUS
  <1> DEFINE names == DOMAIN run.seen
  <1>5. /\ p \in Packets /\ p \notin names /\ names \subseteq Packets
        /\ Before(p) \subseteq names
        /\ p # "contract" => "contract" \in names
        /\ \A q \in names : Before(q) \subseteq names /\ (q # "contract" => "contract" \in names)
        /\ names \cup {p} = {Chain[i] : i \in 1..run.at}
    BY <1>3, <1>4, ReadSoFar
  \* What a step that reads p leaves, whichever way it was read.
  <1>6. ASSUME NEW new, NEW doc, HasRead(Over(Entry(p, new), run.seen), doc, commits),
               DOMAIN run' = Fields, run'.pc = "packets", run'.at = run.at + 1, run'.exit = 0,
               run'.hashed = {}, DOMAIN run'.gates = {},
               run'.seen = Over(Entry(p, new), run.seen), run'.doc = doc
        PROVE  ChainInv'
    <2>1. DOMAIN run'.seen = {Chain[i] : i \in 1..run.at}
      BY <1>5, <1>6 DEF Over, Entry
    <2>2. run'.at - 1 = run.at /\ run'.at \in 1..8
      BY <1>3, <1>6
    <2>3. commits' = commits
      BY <1>1 DEF files
    <2>4. ReadOK'
      BY <1>6, <2>1, <2>2, <2>3 DEF ReadOK
    <2>5. RunOK' /\ GatesOK'
      BY <1>6 DEF RunOK, GatesOK, Early, Late
    <2> QED
      BY <1>1, <2>4, <2>5, FilesStay DEF ChainInv
  <1>7. CASE run' = [run EXCEPT !.at = @ + 1, !.seen = Over(Entry(p, AbsentOf(p)), run.seen)]
    <2>1. PICK new : new = AbsentOf(p)
      OBVIOUS
    <2>2. new.gate # "passed"
      BY <1>5, <2>1, AbsentHasNotPassed
    <2>3. HasRead(Over(Entry(p, new), run.seen), run.doc, commits)
      BY <1>3, <1>5, <2>2, ReadOneMore
    <2>4. /\ DOMAIN run' = Fields /\ run'.pc = "packets" /\ run'.at = run.at + 1 /\ run'.exit = 0
          /\ run'.hashed = {} /\ DOMAIN run'.gates = {}
          /\ run'.seen = Over(Entry(p, new), run.seen) /\ run'.doc = run.doc
      BY <1>3, <1>7, <2>1 DEF Fields
    <2> QED
      BY <1>6, <2>3, <2>4
  <1>8. ASSUME NEW c \in json[p], Accepted(p, c, sidecar[p], run.seen, BindingRead, commits),
               run' = [run EXCEPT !.at = @ + 1,
                         !.seen = Over(Entry(p, SeenOf(p, c, BindingRead)), run.seen),
                         !.doc = Over(Entry(p, c), run.doc)]
        PROVE  ChainInv'
    <2>1. IsPacket(p, c)
      BY <1>5 DEF ChainInv, FilesOK
    <2>2. PICK new : new = SeenOf(p, c, BindingRead)
      OBVIOUS
    <2>3. new.gate = "passed" => new.digest = c.digest /\ IsVouched(p, c, run.seen, commits)
      BY <1>5, <1>8, <2>1, <2>2, AcceptedIsVouched
    <2>4. PICK doc : doc = Over(Entry(p, c), run.doc)
      OBVIOUS
    <2>5. /\ p \in DOMAIN doc /\ doc[p] = c
          /\ \A q \in DOMAIN run.doc : q # p => q \in DOMAIN doc /\ doc[q] = run.doc[q]
      BY <2>4 DEF Over, Entry
    <2>6. HasRead(Over(Entry(p, new), run.seen), doc, commits)
      BY <1>3, <1>5, <2>3, <2>5, ReadOneMore
    <2>7. /\ DOMAIN run' = Fields /\ run'.pc = "packets" /\ run'.at = run.at + 1 /\ run'.exit = 0
          /\ run'.hashed = {} /\ DOMAIN run'.gates = {}
          /\ run'.seen = Over(Entry(p, new), run.seen) /\ run'.doc = doc
      BY <1>3, <1>8, <2>2, <2>4 DEF Fields
    <2> QED
      BY <1>6, <2>6, <2>7
  <1>9. \A c, other \in json[p] : c = other
    BY <1>5 DEF ChainInv, FilesOK
  <1>10. CASE p \notin Args.given
    BY <1>4, <1>7, <1>10 DEF ReadPacket
  <1>11. CASE /\ p \in Args.given
              /\ \E c \in json[p] : Accepted(p, c, sidecar[p], run.seen, BindingRead, commits)
    <2>1. PICK c \in json[p] : Accepted(p, c, sidecar[p], run.seen, BindingRead, commits)
      BY <1>11
    <2>2. PICK other \in json[p] :
              run' = [run EXCEPT !.at = @ + 1,
                        !.seen = Over(Entry(p, SeenOf(p, other, BindingRead)), run.seen),
                        !.doc = Over(Entry(p, other), run.doc)]
      BY <1>4, <1>11 DEF ReadPacket
    <2> QED
      BY <1>8, <1>9, <2>1, <2>2
  <1>12. CASE /\ p \in Args.given
              /\ ~\E c \in json[p] : Accepted(p, c, sidecar[p], run.seen, BindingRead, commits)
    BY <1>2, <1>4, <1>12 DEF ReadPacket
  <1> QED
    BY <1>10, <1>11, <1>12

-----------------------------------------------------------------------------
(* The gates, and the receipt.                                              *)

LEMMA CloseChainIsFine == ChainInv /\ CloseChain => ChainInv'
  <1> SUFFICES ASSUME ChainInv, CloseChain PROVE ChainInv'
    OBVIOUS
  <1>1. UNCHANGED <<files, receipt, writes>>
    BY DEF CloseChain
  <1>2. /\ DOMAIN run = Fields /\ run.pc = "packets" /\ run.at = 8 /\ run.exit = 0
        /\ run.hashed = {} /\ HasRead(run.seen, run.doc, commits)
        /\ DOMAIN run.seen = {Chain[i] : i \in 1..(run.at - 1)}
    BY ChainIs DEF CloseChain, ChainInv, RunOK, ReadOK, Early, Late, Passes
  <1>3. DOMAIN run.seen = Packets
    <2>1. 1..(run.at - 1) = DOMAIN Chain
      BY <1>2, ChainIs
    <2> QED
      BY <1>2, <2>1 DEF Packets
  <1>4. run.seen["manifest"].gate = "passed" => run.seen["contract"].gate = "passed"
    BY <1>2, <1>3, PacketsAre DEF HasRead, IsVouched
  <1>5. PICK g : g = GatesToRowCount(run.seen, run.inventory)
    OBVIOUS
  <1>6. PrefixTo(g, 8) /\ (g["closure"] = {} => \A p \in Packets : run.seen[p].gate = "passed")
    BY <1>4, <1>5, GatesToRowCountAre
  <1>7. g["closure"] = {} => IsBound(run.doc, commits)
    BY <1>2, <1>3, <1>6, ReadIsBound
  <1>8. /\ DOMAIN run' = Fields /\ run'.pc = "temporal" /\ run'.at = run.at /\ run'.exit = 0
        /\ run'.hashed = {} /\ run'.seen = run.seen /\ run'.doc = run.doc /\ run'.gates = g
    BY <1>2, <1>5 DEF CloseChain, Fields
  <1>9. commits' = commits
    BY <1>1 DEF files
  <1>10. RunOK' /\ ReadOK'
    BY <1>2, <1>3, <1>8 DEF RunOK, ReadOK, Early, Late
  <1>11. GatesOK'
    BY <1>6, <1>7, <1>8, <1>9 DEF GatesOK, Late
  <1> QED
    BY <1>1, <1>10, <1>11, FilesStay DEF ChainInv

\* A gate that was locked is what it was, and the sections that are added to the
\* document are not packets.
LEMMA OpensIfAnyIsFine ==
    ASSUME ChainInv, NEW pass \in Late, NEW next \in Late, NEW gates, NEW sections,
           OpensIfAny(pass, next, gates, sections), DOMAIN sections \cap Packets = {},
           "closure" \in DOMAIN run.gates, Keeps(run.gates, Over(gates, run.gates)),
           next = "joins" => PrefixTo(Over(gates, run.gates), 9),
           next = "rule_rows" => PrefixTo(Over(gates, run.gates), 12),
           next = "write" => PrefixTo(Over(gates, run.gates), 30),
           next \in {"joins", "rule_rows", "write"}
    PROVE  ChainInv'
  <1>1. UNCHANGED <<files, receipt, writes>>
    BY DEF OpensIfAny
  <1>2. /\ DOMAIN run = Fields /\ run.pc = pass /\ run.at = 8 /\ DOMAIN run.seen = Packets
        /\ run.exit = 0 /\ (run.gates["closure"] = {} => IsBound(run.doc, commits))
    BY DEF OpensIfAny, ChainInv, RunOK, GatesOK, Early, Late
  <1>3. /\ DOMAIN run' = Fields /\ run'.pc = next /\ run'.at = 8 /\ run'.seen = run.seen
        /\ run'.exit = 0 /\ run'.hashed = {} /\ run'.gates = Over(gates, run.gates)
        /\ run'.doc = Over(sections, run.doc)
    BY <1>2 DEF OpensIfAny, Fields
  <1>4. RunOK' /\ ReadOK'
    BY <1>2, <1>3 DEF RunOK, ReadOK, Early, Late
  <1>5. commits' = commits
    BY <1>1 DEF files
  <1>6. run'.gates["closure"] = {} => IsBound(run'.doc, commits')
    <2>1. run'.gates["closure"] = run.gates["closure"]
      BY <1>3 DEF Keeps
    <2> QED
      BY <1>2, <1>3, <1>5, <2>1, SectionsKeepBound
  <1>7. GatesOK'
    BY <1>3, <1>6 DEF GatesOK, Late
  <1> QED
    BY <1>1, <1>4, <1>7, FilesStay DEF ChainInv

\* New gates that have all of the old ones stand for both.
LEMMA OverAll ==
    ASSUME NEW old, NEW n \in 1..30, PrefixTo(old, n),
           NEW m \in 1..30, NEW new, PrefixTo(new, m), Keeps(old, new)
    PROVE  PrefixTo(Over(new, old), m) /\ Keeps(old, Over(new, old))
  <1> DEFINE over == Over(new, old)
  <1>1. DOMAIN over = DOMAIN new /\ \A s \in DOMAIN new : over[s] = new[s]
    BY DEF Over, Keeps
  <1>2. \A i \in 1..m : Stages[i] \in DOMAIN new
    BY DEF PrefixTo, Upto
  <1> HIDE DEF over
  <1>3. ASSUME NEW j \in 1..m, NEW b \in over[Stages[j]] \ {"own"}
        PROVE  \E i \in 1..(j - 1) : b = Stages[i] /\ over[b] # {}
    <2>1. PICK i \in 1..(j - 1) : b = Stages[i] /\ new[b] # {}
      BY <1>1, <1>2, <1>3 DEF PrefixTo
    <2> QED
      BY <1>1, <1>2, <2>1
  <1>4. \A i, j \in 1..m : (over[Stages[j]] = {} /\ i <= j) => over[Stages[i]] = {}
    BY <1>1, <1>2 DEF PrefixTo
  <1>5. PrefixTo(over, m)
    BY <1>1, <1>3, <1>4 DEF PrefixTo
  <1>6. Keeps(old, over)
    BY <1>1 DEF Keeps
  <1> QED
    BY <1>5, <1>6 DEF over

LEMMA ClosureIsThere ==
    ASSUME NEW g, NEW n \in 3..30, PrefixTo(g, n)
    PROVE  "closure" \in DOMAIN g
  BY StagesAre DEF PrefixTo, Upto

LEMMA CheckTimesIsFine == ChainInv /\ CheckTimes => ChainInv'
  <1> SUFFICES ASSUME ChainInv, CheckTimes PROVE ChainInv'
    OBVIOUS
  <1>1. PICK gates : gates = Entry("temporal",
                                TemporalGate(TemporalDiagnostics(run.gates, run.inventory, Given)))
    OBVIOUS
  <1>2. PrefixTo(run.gates, 8)
    BY DEF CheckTimes, OpensIfAny, ChainInv, GatesOK
  <1>3. PrefixTo(Over(gates, run.gates), 9) /\ Keeps(run.gates, Over(gates, run.gates))
    BY <1>1, <1>2, TemporalExtends
  <1>4. "closure" \in DOMAIN run.gates
    BY <1>2, ClosureIsThere
  <1>5. OpensIfAny("temporal", "joins", gates, NoSection)
    BY <1>1 DEF CheckTimes
  <1>6. DOMAIN NoSection \cap Packets = {}
    BY DEF NoSection
  <1> QED
    BY <1>3, <1>4, <1>5, <1>6, OpensIfAnyIsFine DEF Late

LEMMA CheckJoinsIsFine == ChainInv /\ CheckJoins => ChainInv'
  <1> SUFFICES ASSUME ChainInv, CheckJoins PROVE ChainInv'
    OBVIOUS
  <1>1. PICK hashed : hashed = CHOOSE h \in run.hashed \cup {NoInventory} :
                                   run.hashed # {} => h \in run.hashed
    OBVIOUS
  <1>2. PICK gates : gates = GatesToRuleLock(run.gates,
               JoinabilityDiagnostics(run.gates, run.inventory, run.windows, hashed, Given))
    OBVIOUS
  <1>3. OpensIfAny("joins", "rule_rows", gates, NoSection)
    BY <1>1, <1>2 DEF CheckJoins
  <1>4. PrefixTo(run.gates, 9)
    BY <1>3 DEF OpensIfAny, ChainInv, GatesOK
  <1>5. PrefixTo(gates, 12) /\ Keeps(run.gates, gates)
    BY <1>2, <1>4, GatesToRuleLockAre
  <1>6. PrefixTo(Over(gates, run.gates), 12) /\ Keeps(run.gates, Over(gates, run.gates))
    BY <1>4, <1>5, OverAll
  <1>7. "closure" \in DOMAIN run.gates
    BY <1>4, ClosureIsThere
  <1>8. DOMAIN NoSection \cap Packets = {}
    BY DEF NoSection
  <1> QED
    BY <1>3, <1>6, <1>7, <1>8, OpensIfAnyIsFine DEF Late

LEMMA ExtractIsFine == ChainInv /\ ExtractAndProject => ChainInv'
  <1> SUFFICES ASSUME ChainInv, ExtractAndProject PROVE ChainInv'
    OBVIOUS
  <1>1. PICK hashed : hashed = CHOOSE h \in run.hashed \cup {NoInventory} :
                                   run.hashed # {} => h \in run.hashed
    OBVIOUS
  <1>2. PICK extracted : extracted = ExtractRows(run.inventory, run.windows, hashed, Given)
    OBVIOUS
  <1>3. PICK last : last = GatesToTheEnd(GatesToReadiness(GatesToEconomicRows(run.gates, extracted)))
    OBVIOUS
  <1>4. OpensIfAny("rule_rows", "write", last.gates, Entry("emitted", last.rows))
    BY <1>1, <1>2, <1>3 DEF ExtractAndProject
  <1>5. PrefixTo(run.gates, 12)
    BY <1>4 DEF OpensIfAny, ChainInv, GatesOK
  <1>6. PrefixTo(last.gates, 30) /\ Keeps(run.gates, last.gates)
    BY <1>3, <1>5, GatesToTheEndAre DEF Carrier
  <1>7. PrefixTo(Over(last.gates, run.gates), 30) /\ Keeps(run.gates, Over(last.gates, run.gates))
    BY <1>5, <1>6, OverAll
  <1>8. "closure" \in DOMAIN run.gates
    BY <1>5, ClosureIsThere
  <1>9. DOMAIN Entry("emitted", last.rows) \cap Packets = {}
    BY PacketsAre DEF Entry
  <1> QED
    BY <1>4, <1>7, <1>8, <1>9, OpensIfAnyIsFine DEF Late

LEMMA BeginWriteIsFine == ChainInv /\ BeginWrite => ChainInv'
  <1> SUFFICES ASSUME ChainInv, BeginWrite PROVE ChainInv'
    OBVIOUS
  <1>1. UNCHANGED <<files, writes>>
    BY DEF BeginWrite
  <1>2. /\ DOMAIN run = Fields /\ run.pc = "write" /\ run.at = 8 /\ DOMAIN run.seen = Packets
        /\ run.exit = 0 /\ run.hashed = {}
    BY DEF BeginWrite, ChainInv, RunOK, Early, Late, Passes
  <1>3. /\ DOMAIN run' = Fields /\ run'.pc = "written" /\ run'.at = 8 /\ run'.seen = run.seen
        /\ run'.exit = 0 /\ run'.hashed = {} /\ run'.gates = run.gates /\ run'.doc = run.doc
    BY <1>2 DEF BeginWrite, Fields
  <1>4. RunOK' /\ ReadOK'
    BY <1>2, <1>3 DEF RunOK, ReadOK, Early, Late
  <1>5. GatesOK'
    BY <1>1, <1>2, <1>3 DEF ChainInv, GatesOK, Late, files
  <1>6. ReceiptOK'
    <2>1. receipt' = {[whole |-> FALSE, doc |-> <<>>]}
      BY DEF BeginWrite
    <2>2. Docs' = {}
      BY <2>1 DEF Docs
    <2> QED
      BY <2>1, <2>2 DEF ReceiptOK
  <1>7. FilesOK'
    BY <1>1 DEF ChainInv, FilesOK, files
  <1> QED
    BY <1>4, <1>5, <1>6, <1>7 DEF ChainInv

LEMMA EndWriteIsFine == ChainInv /\ EndWrite => ChainInv'
  <1> SUFFICES ASSUME ChainInv, EndWrite PROVE ChainInv'
    OBVIOUS
  <1>1. UNCHANGED <<files, writes>> /\ run' = NoRun /\ run.pc = "written"
    BY DEF EndWrite
  <1>2. FilesOK'
    BY <1>1 DEF ChainInv, FilesOK, files
  <1>3. RunOK' /\ ReadOK' /\ GatesOK'
    <2>1. /\ DOMAIN run' = Fields /\ run'.pc = "idle" /\ run'.exit = 0 /\ run'.at = 0
          /\ DOMAIN run'.seen = {} /\ DOMAIN run'.gates = {} /\ run'.hashed = {}
      BY <1>1 DEF NoRun, Fields
    <2> QED
      BY <2>1 DEF RunOK, ReadOK, GatesOK, Early, Late
  <1>4. PICK new : new = Receipt
    OBVIOUS
  <1>5. PrefixTo(run.gates, 30) /\ (run.gates["closure"] = {} => IsBound(run.doc, commits))
    BY <1>1 DEF ChainInv, GatesOK, Late
  <1>6. new["gates"] = run.gates
    BY <1>4 DEF Receipt, Over
  <1>7. run.gates["closure"] = {} => IsBound(new, commits)
    <2> DEFINE top == [gates |-> run.gates, torn |-> run.torn, inventory |-> run.inventory,
                       windows |-> run.windows]
    <2>1. DOMAIN top \cap Packets = {}
      BY PacketsAre
    <2>2. new = Over(top, run.doc)
      BY <1>4 DEF Receipt
    <2> HIDE DEF top
    <2> QED
      BY <1>5, <2>1, <2>2, SectionsKeepBound
  <1>8. receipt' = {[whole |-> TRUE, doc |-> new]}
    BY <1>4 DEF EndWrite
  <1>9. Docs' = {new}
    <2>1. PICK r : r = [whole |-> TRUE, doc |-> new]
      OBVIOUS
    <2>2. receipt' = {r} /\ r.whole /\ r.doc = new
      BY <1>8, <2>1
    <2>3. Docs' = {x.doc : x \in {y \in {r} : y.whole}}
      BY <2>2 DEF Docs
    <2> QED
      BY <2>2, <2>3
  <1>10. ReceiptOK'
    <2>1. commits' = commits
      BY <1>1 DEF files
    <2> QED
      BY <1>5, <1>6, <1>7, <1>8, <1>9, <2>1 DEF ReceiptOK
  <1> QED
    BY <1>2, <1>3, <1>10 DEF ChainInv

\* The chain invariant is one: what a run holds of the packets is vouched for by
\* the packets read before them, the gates it has are those of the first stages
\* of the chain, and a receipt keeps both.
\* offline_edge_real_validation.py: main, the loaders and the gates it calls.
THEOREM ChainInvariant == Spec => []ChainInv
  <1>1. ASSUME ChainInv, [Next]_vars PROVE ChainInv'
    <2>1. CASE Refresh
      BY <1>1, <2>1, RefreshIsFine
    <2>2. CASE Amend
      BY <1>1, <2>2, AmendIsFine
    <2>3. CASE Refreeze
      BY <1>1, <2>3, RefreezeIsFine
    <2>4. CASE Rebind
      BY <1>1, <2>4, RebindIsFine
    <2>5. CASE Start
      BY <1>1, <2>5, StartIsFine
    <2>6. CASE TakeHashes
      BY <1>1, <2>6, TakeHashesIsFine
    <2>7. CASE \/ TakeInventory \/ AssignRows \/ Adjust \/ LeaveFundingOut \/ DiagnoseJoinability
               \/ DiagnoseConvention \/ Canonicalize \/ BuildScaffold \/ AuditSplits
      BY <1>1, <2>7, PassesAreFine
    <2>8. CASE ReadPacket
      BY <1>1, <2>8, ReadPacketIsFine
    <2>9. CASE CloseChain
      BY <1>1, <2>9, CloseChainIsFine
    <2>10. CASE CheckTimes
      BY <1>1, <2>10, CheckTimesIsFine
    <2>11. CASE CheckJoins
      BY <1>1, <2>11, CheckJoinsIsFine
    <2>12. CASE ExtractAndProject
      BY <1>1, <2>12, ExtractIsFine
    <2>13. CASE BeginWrite
      BY <1>1, <2>13, BeginWriteIsFine
    <2>14. CASE EndWrite
      BY <1>1, <2>14, EndWriteIsFine
    <2>15. CASE Crash
      BY <1>1, <2>15, CrashIsFine
    <2>16. CASE UNCHANGED vars
      <3>1. FilesOK' /\ run' = run /\ receipt' = receipt /\ commits' = commits
        BY <1>1, <2>16 DEF vars, ChainInv, FilesOK
      <3> QED
        BY <1>1, <3>1, OthersAreFine
    <2> QED
      BY <1>1, <2>1, <2>2, <2>3, <2>4, <2>5, <2>6, <2>7, <2>8, <2>9, <2>10, <2>11, <2>12, <2>13,
         <2>14, <2>15, <2>16 DEF Next, RunStep
  <1> QED
    BY <1>1, InitIsFine, PTL DEF Spec

-----------------------------------------------------------------------------
(* What follows of it.                                                      *)

\* A process between two reads is at a pass, at a packet or at the receipt; it
\* has the digests of the files it will open, whole and for every symbol; the
\* gates are of stages and blame stages.
\* offline_edge_real_validation.py: main.
THEOREM EdgeTypeCorrect == Spec => []TypeOK
  <1>1. ChainInv => TypeOK
    <2> SUFFICES ASSUME ChainInv PROVE TypeOK
      OBVIOUS
    <2>1. run.pc \in {"idle", "packets", "leakage", "write", "written"} \cup Passes
      BY DEF ChainInv, RunOK, Early, Late, Passes
    <2>2. run.exit \in {0, 3, 4, 5, 9} /\ (run.exit # 0 => run.pc = "idle")
      BY DEF ChainInv, RunOK
    <2>3. run.at \in 0..(Len(Chain) + 1) /\ DOMAIN run.seen = {Chain[i] : i \in 1..(run.at - 1)}
      <3>1. CASE run.pc \in {"idle"} \cup Early
        <4>1. run.at = 0 /\ DOMAIN run.seen = {} /\ 1..(run.at - 1) = {}
          BY <3>1 DEF ChainInv, RunOK
        <4> QED
          BY <4>1, ChainIs
      <3>2. CASE run.pc = "packets"
        BY <3>2, ChainIs DEF ChainInv, ReadOK
      <3>3. CASE run.pc \in Late
        <4>1. run.at = 8 /\ DOMAIN run.seen = Packets /\ 1..(run.at - 1) = DOMAIN Chain
          BY <3>3, ChainIs DEF ChainInv, RunOK
        <4> QED
          BY <4>1, ChainIs DEF Packets
      <3> QED
        BY <3>1, <3>2, <3>3 DEF ChainInv, RunOK
    <2>4. run.hashed # {} => run.pc \in Passes
      BY DEF ChainInv, RunOK
    <2>5. ASSUME NEW opened \in run.hashed, NEW others
          PROVE  opened \in [DataRoles -> [Symbols -> others
                     \cup (UNION {UNION {Range(h[role]) : role \in DataRoles} : h \in run.hashed})]]
      <3>1. opened = [role \in DataRoles |-> [y \in Symbols |-> opened[role][y]]]
        BY DEF ChainInv, RunOK, IsOpened
      <3>2. PICK used : used = UNION {UNION {Range(h[role]) : role \in DataRoles} : h \in run.hashed}
        OBVIOUS
      <3>3. ASSUME NEW role \in DataRoles, NEW y \in Symbols
            PROVE  opened[role][y] \in used
        <4>1. opened[role] = [z \in Symbols |-> opened[role][z]]
          BY <3>1
        <4>2. opened[role][y] \in Range(opened[role])
          BY <4>1 DEF Range
        <4> QED
          BY <3>2, <4>2
      <3>4. opened \in [DataRoles -> [Symbols -> others \cup used]]
        BY <3>1, <3>3
      <3> QED
        BY <3>2, <3>4
    <2>6. run.hashed \subseteq [DataRoles -> [Symbols ->
              (UNION {Range(data[role]) : role \in Roles})
              \cup (UNION {UNION {Range(h[role]) : role \in DataRoles} : h \in run.hashed})]]
      <3>1. PICK others : others = UNION {Range(data[role]) : role \in Roles}
        OBVIOUS
      <3>2. PICK passes : passes = [DataRoles -> [Symbols -> others
                \cup (UNION {UNION {Range(h[role]) : role \in DataRoles} : h \in run.hashed})]]
        OBVIOUS
      <3>3. run.hashed \subseteq passes
        BY <2>5, <3>2
      <3> QED
        BY <3>1, <3>2, <3>3
    <2>7. /\ DOMAIN run.gates \subseteq StageNames
          /\ \A s \in DOMAIN run.gates : run.gates[s] \subseteq StageNames \cup {"own"}
      <3>1. ASSUME NEW n \in 1..30, PrefixTo(run.gates, n)
            PROVE  /\ DOMAIN run.gates \subseteq StageNames
                   /\ \A s \in DOMAIN run.gates : run.gates[s] \subseteq StageNames \cup {"own"}
        <4>1. \A i \in 1..n : Stages[i] \in StageNames
          BY StagesAre DEF StageNames
        <4>2. DOMAIN run.gates = {Stages[i] : i \in 1..n}
          BY <3>1 DEF PrefixTo, Upto
        <4>3. ASSUME NEW j \in 1..n PROVE run.gates[Stages[j]] \subseteq StageNames \cup {"own"}
          BY <3>1, <4>1 DEF PrefixTo
        <4> QED
          BY <4>1, <4>2, <4>3
      <3>2. CASE run.pc \in Late
        BY <3>1, <3>2 DEF ChainInv, GatesOK, Late
      <3>3. CASE run.pc \notin Late
        BY <3>3 DEF ChainInv, RunOK
      <3> QED
        BY <3>2, <3>3
    <2>8. Cardinality(receipt) <= 1
      <3>1. CASE receipt = {}
        BY <3>1, FS_EmptySet
      <3>2. CASE \E r \in receipt : receipt = {r}
        <4>1. PICK r : receipt = {r}
          BY <3>2
        <4>2. Cardinality({r}) = 1
          BY FS_Singleton
        <4> QED
          BY <4>1, <4>2
      <3> QED
        BY <3>1, <3>2 DEF ChainInv, ReceiptOK
    <2> QED
      BY <2>1, <2>2, <2>3, <2>4, <2>6, <2>7, <2>8 DEF TypeOK
  <1> QED
    BY <1>1, ChainInvariant, PTL

\* A receipt whose closure gate has passed is of seven packets of which each
\* names the digests of all before it, and of a contract that was committed:
\* amending, re-freezing and re-binding while they are read does not get
\* through.
\* offline_edge_real_validation.py: load_..._packet of the seven packets.
THEOREM ClosureBinds == Spec => []ClosedChainIsBound
  <1>1. ChainInv => ClosedChainIsBound
    BY DEF ChainInv, ReceiptOK, ClosedChainIsBound, Closed, IsBound
  <1> QED
    BY <1>1, ChainInvariant, PTL

\* Of such a receipt all seven packets were given, none of them departs from a
\* frozen declaration and none authorizes anything.
\* offline_edge_real_validation.py: the gates of the seven packets and the closure.
THEOREM ClosureFreezes == Spec => []ClosedChainIsFrozen
  <1>1. ChainInv => ClosedChainIsFrozen
    BY DEF ChainInv, ReceiptOK, ClosedChainIsFrozen, Closed, IsBound
  <1> QED
    BY <1>1, ChainInvariant, PTL

\* All thirty gates are in a receipt, those that pass come before those that do
\* not, and a gate blames itself or stages before it that have not passed.
\* offline_edge_real_validation.py: the thirty *_gate functions, called by main.
THEOREM GatesPassInOrder == Spec => []OnlyAPrefixPasses
  <1>1. ASSUME NEW g, PrefixTo(g, 30)
        PROVE  /\ DOMAIN g = StageNames
               /\ \A s, u \in StageNames :
                     (g[u] = {} /\ StagePlace(s) < StagePlace(u)) => g[s] = {}
               /\ \A s \in StageNames : \A b \in g[s] \ {"own"} :
                     StagePlace(b) < StagePlace(s) /\ g[b] # {}
    <2>1. DOMAIN g = StageNames
      BY <1>1, UptoGrows DEF PrefixTo
    <2>2. \A s \in StageNames : \E i \in 1..30 : s = Stages[i] /\ StagePlace(s) = i
      BY StagesAre, StagePlaceIs DEF StageNames
    <2>3. ASSUME NEW s \in StageNames, NEW u \in StageNames, g[u] = {},
                 StagePlace(s) < StagePlace(u)
          PROVE  g[s] = {}
      <3>1. PICK i \in 1..30 : s = Stages[i] /\ StagePlace(s) = i
        BY <2>2
      <3>2. PICK j \in 1..30 : u = Stages[j] /\ StagePlace(u) = j
        BY <2>2
      <3>3. g[Stages[j]] = {} /\ i <= j
        BY <2>3, <3>1, <3>2
      <3>4. g[Stages[i]] = {}
        BY <1>1, <3>3 DEF PrefixTo
      <3> QED
        BY <3>1, <3>4
    <2>4. ASSUME NEW s \in StageNames, NEW b \in g[s] \ {"own"}
          PROVE  StagePlace(b) < StagePlace(s) /\ g[b] # {}
      <3>1. PICK j \in 1..30 : s = Stages[j] /\ StagePlace(s) = j
        BY <2>2
      <3>2. PICK i \in 1..(j - 1) : b = Stages[i] /\ g[b] # {}
        BY <1>1, <2>4, <3>1 DEF PrefixTo
      <3>3. StagePlace(b) = i
        BY <3>2, StagePlaceIs
      <3> QED
        BY <3>1, <3>2, <3>3
    <2> QED
      BY <2>1, <2>3, <2>4
  <1>2. ChainInv => OnlyAPrefixPasses
    BY <1>1 DEF ChainInv, ReceiptOK, OnlyAPrefixPasses
  <1> QED
    BY <1>2, ChainInvariant, PTL

-----------------------------------------------------------------------------
(* Numbers of ticks.                                                        *)

\* Dividing by a positive number, with a remainder.
LEMMA DivisionIs ==
    ASSUME NEW t \in Int, NEW n \in Int, n > 0
    PROVE  /\ t \div n \in Int /\ t % n \in Int /\ 0 <= t % n /\ t % n < n
           /\ t = n * (t \div n) + (t % n)
  <1>1. t \div n \in Int /\ t % n \in Int /\ 0 <= t % n /\ t % n < n
    OBVIOUS
  <1>2. t = n * (t \div n) + (t % n)
    BY SMTT(30)
  <1> QED
    BY <1>1, <1>2

LEMMA ProductGrows ==
    ASSUME NEW i \in Int, NEW j \in Int, i <= j, NEW n \in Nat
    PROVE  i * n <= j * n /\ n * i <= n * j
  OBVIOUS

LEMMA QuotientIs ==
    ASSUME NEW q \in Int, NEW n \in Nat \ {0}, NEW r \in 0..(n - 1), NEW t \in Int, t = n * q + r
    PROVE  t \div n = q /\ t % n = r
  OBVIOUS

LEMMA QuotientGrows ==
    ASSUME NEW t \in Int, NEW u \in Int, t <= u, NEW n \in Nat \ {0}
    PROVE  t \div n <= u \div n
  OBVIOUS

-----------------------------------------------------------------------------
(* Whole seconds.                                                           *)

LEMMA FloorIs ==
    ASSUME NEW t \in Int
    PROVE  /\ FloorToSecond(t) \in Int /\ FloorToSecond(t) <= t /\ t < FloorToSecond(t) + Second
           /\ FloorToSecond(t) = Second * (t \div Second)
           /\ FloorToSecond(FloorToSecond(t)) = FloorToSecond(t)
           /\ (t % Second = 0 => FloorToSecond(t) = t)
  <1>1. Second \in Nat \ {0}
    BY NumbersAssumption
  <1>2. PICK q \in Int : q = t \div Second /\ t = Second * q + (t % Second)
    BY <1>1, DivisionIs
  <1>3. t % Second \in Int /\ 0 <= t % Second /\ t % Second < Second
    BY <1>1, DivisionIs
  <1>4. FloorToSecond(t) = Second * q /\ Second * q \in Int
    BY <1>1, <1>2, <1>3 DEF FloorToSecond
  <1>5. (Second * q) % Second = 0
    <2>1. PICK u \in Int : u = Second * q
      BY <1>4
    <2>2. u = Second * q + 0 /\ 0 \in 0..(Second - 1)
      BY <1>1, <2>1
    <2> QED
      BY <1>1, <2>1, <2>2, QuotientIs
  <1>6. FloorToSecond(Second * q) = Second * q
    BY <1>4, <1>5 DEF FloorToSecond
  <1> QED
    BY <1>1, <1>2, <1>3, <1>4, <1>6

LEMMA FloorGrows ==
    ASSUME NEW t \in Int, NEW u \in Int, t <= u
    PROVE  FloorToSecond(t) <= FloorToSecond(u)
  <1>1. Second \in Nat \ {0}
    BY NumbersAssumption
  <1>2. PICK a \in Int, b \in Int : a = t \div Second /\ b = u \div Second
    BY <1>1, DivisionIs
  <1>3. a <= b
    BY <1>1, <1>2, QuotientGrows
  <1>4. Second * a <= Second * b
    BY <1>1, <1>3, ProductGrows
  <1>5. FloorToSecond(t) = Second * a /\ FloorToSecond(u) = Second * b
    BY <1>2, FloorIs
  <1> QED
    BY <1>4, <1>5

-----------------------------------------------------------------------------
(* The boundaries of the windows.                                           *)

LEMMA BoundaryIsAnInteger ==
    ASSUME NEW low \in Int, NEW high \in Int, NEW i \in Int
    PROVE  Boundary(low, high, i) \in Int
  <1>1. SplitCount \in Nat \ {0} /\ SplitCount \in Int /\ SplitCount > 0
    BY NumbersAssumption
  <1>2. PICK a \in Int : a = i * (high - low)
    OBVIOUS
  <1>3. PICK c \in Int : c = a \div SplitCount
    BY <1>1, DivisionIs
  <1>4. low + c \in Int
    OBVIOUS
  <1>5. Boundary(low, high, i) = FloorToSecond(low + c)
    BY <1>2, <1>3 DEF Boundary
  <1> QED
    BY <1>4, <1>5, FloorIs

LEMMA BoundariesGrow ==
    ASSUME NEW low \in Int, NEW high \in Int, low <= high, NEW i \in Int, NEW j \in Int, i <= j
    PROVE  Boundary(low, high, i) <= Boundary(low, high, j)
  <1>1. SplitCount \in Nat \ {0} /\ SplitCount \in Int /\ SplitCount > 0 /\ high - low \in Nat
    BY NumbersAssumption
  <1>2. PICK a \in Int, b \in Int : a = i * (high - low) /\ b = j * (high - low)
    OBVIOUS
  <1>3. a <= b
    BY <1>1, <1>2, ProductGrows
  <1>4. PICK c \in Int, d \in Int : c = a \div SplitCount /\ d = b \div SplitCount
    BY <1>1, DivisionIs
  <1>5. c <= d
    BY <1>1, <1>3, <1>4, QuotientGrows
  <1>6. low + c \in Int /\ low + d \in Int /\ low + c <= low + d
    BY <1>5
  <1>7. /\ Boundary(low, high, i) = FloorToSecond(low + c)
        /\ Boundary(low, high, j) = FloorToSecond(low + d)
    BY <1>2, <1>4 DEF Boundary
  <1> QED
    BY <1>6, <1>7, FloorGrows

LEMMA FirstAndLastBoundary ==
    ASSUME NEW low \in Int, NEW high \in Int, low <= high
    PROVE  /\ Boundary(low, high, 0) = FloorToSecond(low)
           /\ Boundary(low, high, SplitCount) = FloorToSecond(high)
  <1>1. SplitCount \in Nat \ {0}
    BY NumbersAssumption
  <1>2. PICK d \in Int : d = high - low
    OBVIOUS
  <1>3. (0 * d) \div SplitCount = 0
    <2>1. 0 * d = SplitCount * 0 + 0 /\ 0 \in 0..(SplitCount - 1) /\ 0 * d \in Int
      BY <1>1
    <2> QED
      BY <1>1, <2>1, QuotientIs
  <1>4. (SplitCount * d) \div SplitCount = d
    <2>1. PICK t \in Int : t = SplitCount * d
      BY <1>1
    <2>2. t = SplitCount * d + 0 /\ 0 \in 0..(SplitCount - 1)
      BY <1>1, <2>1
    <2> QED
      BY <1>1, <2>1, <2>2, QuotientIs
  <1>5. low + 0 = low /\ low + d = high
    BY <1>2
  <1> QED
    BY <1>2, <1>3, <1>4, <1>5 DEF Boundary

-----------------------------------------------------------------------------
(* The windows between two bounds tile what is between them.                *)

LEMMA WindowsAre ==
    ASSUME NEW low, NEW high, NEW k \in 1..SplitCount
    PROVE  /\ WindowsBetween(low, high)[k].train.from = Boundary(low, high, 0)
           /\ WindowsBetween(low, high)[k].train.to = Boundary(low, high, k - 1)
           /\ WindowsBetween(low, high)[k].validation.from = Boundary(low, high, k - 1)
           /\ WindowsBetween(low, high)[k].validation.to = Boundary(low, high, k)
           /\ WindowsBetween(low, high)[k].last = (k = SplitCount)
  BY DEF WindowsBetween

LEMMA WindowsTile ==
    ASSUME NEW low \in Int, NEW high \in Int, low <= high,
           NEW windows, windows = WindowsBetween(low, high),
           NEW t \in Int, FloorToSecond(low) <= t, t <= FloorToSecond(high)
    PROVE  Cardinality({k \in DOMAIN windows : InWindow(t, windows[k], "validation")}) = 1
  <1>1. SplitCount \in Nat \ {0} /\ DOMAIN windows = 1..SplitCount
    BY NumbersAssumption DEF WindowsBetween
  <1>2. PICK b : b = [i \in 0..SplitCount |-> Boundary(low, high, i)]
    OBVIOUS
  <1>3. ASSUME NEW i \in 0..SplitCount, NEW j \in 0..SplitCount
        PROVE  b[i] \in Int /\ (i <= j => b[i] <= b[j])
    <2>1. i \in Int /\ j \in Int /\ b[i] = Boundary(low, high, i) /\ b[j] = Boundary(low, high, j)
      BY <1>1, <1>2
    <2>2. Boundary(low, high, i) \in Int
      BY <2>1, BoundaryIsAnInteger
    <2> QED
      BY <2>1, <2>2, BoundariesGrow
  <1>4. b[0] <= t /\ t <= b[SplitCount]
    BY <1>1, <1>2, FirstAndLastBoundary
  <1>5. ASSUME NEW k \in 1..SplitCount
        PROVE  InWindow(t, windows[k], "validation")
                   <=> b[k - 1] <= t /\ (t < b[k] \/ (t = b[k] /\ k = SplitCount))
    <2>1. k - 1 \in 0..SplitCount /\ k \in 0..SplitCount
      BY <1>1
    <2>2. b[k - 1] = Boundary(low, high, k - 1) /\ b[k] = Boundary(low, high, k)
      BY <1>2, <2>1
    <2>3. /\ windows[k].validation.from = b[k - 1] /\ windows[k].validation.to = b[k]
          /\ windows[k].last = (k = SplitCount)
      BY <2>2, WindowsAre
    <2> QED
      BY <2>3 DEF InWindow
  <1>6. \E k \in 1..SplitCount : InWindow(t, windows[k], "validation")
    <2>1. CASE t = b[SplitCount]
      <3>1. SplitCount \in 1..SplitCount /\ SplitCount - 1 \in 0..SplitCount /\ SplitCount \in 0..SplitCount
        BY <1>1
      <3>2. b[SplitCount - 1] <= t
        BY <1>3, <2>1, <3>1
      <3> QED
        BY <1>5, <2>1, <3>1, <3>2
    <2>2. CASE t # b[SplitCount]
      <3>1. SplitCount \in {k \in 1..SplitCount : t < b[k]}
        BY <1>1, <1>3, <1>4, <2>2
      <3>2. PICK k \in 1..SplitCount : t < b[k] /\ \A j \in 1..SplitCount : t < b[j] => k <= j
        <4>1. PICK S : S = {k \in 1..SplitCount : t < b[k]}
          OBVIOUS
        <4>2. S \in SUBSET Nat /\ S # {}
          BY <3>1, <4>1
        <4>3. PICK k \in S : \A j \in S : k <= j
          BY <4>2, LeastNatural
        <4> QED
          BY <4>1, <4>3
      <3>3. b[k - 1] <= t
        <4>1. CASE k = 1
          BY <1>4, <4>1
        <4>2. CASE k # 1
          <5>1. k - 1 \in 1..SplitCount /\ k - 1 \in 0..SplitCount
            BY <1>1, <4>2
          <5> QED
            BY <1>3, <3>2, <5>1
        <4> QED
          BY <4>1, <4>2
      <3> QED
        BY <1>5, <3>2, <3>3
    <2> QED
      BY <2>1, <2>2
  <1>7. ASSUME NEW k \in 1..SplitCount, NEW j \in 1..SplitCount, k < j,
               InWindow(t, windows[k], "validation"), InWindow(t, windows[j], "validation")
        PROVE  FALSE
    <2>1. k \in 0..SplitCount /\ j - 1 \in 0..SplitCount /\ k <= j - 1 /\ k # SplitCount
      BY <1>1, <1>7
    <2>2. t < b[k] /\ b[j - 1] <= t
      BY <1>5, <1>7, <2>1
    <2> QED
      BY <1>3, <2>1, <2>2
  <1>8. PICK k \in 1..SplitCount : InWindow(t, windows[k], "validation")
    BY <1>6
  <1>9. {j \in 1..SplitCount : InWindow(t, windows[j], "validation")} = {k}
    <2>1. ASSUME NEW j \in 1..SplitCount, InWindow(t, windows[j], "validation") PROVE j = k
      BY <1>1, <1>7, <1>8, <2>1
    <2> QED
      BY <1>8, <2>1
  <1> QED
    BY <1>1, <1>9, FS_Singleton

\* Training ends where validation begins: the two touch and never overlap.
LEMMA WindowsDoNotLeak ==
    ASSUME NEW low \in Int, NEW high \in Int, low <= high,
           NEW windows, windows = WindowsBetween(low, high)
    PROVE  SplitLeakage(windows).status = "insufficient" /\ SplitLeakage(windows).adjacent
  <1>1. SplitCount \in Nat \ {0} /\ DOMAIN windows = 1..SplitCount
    BY NumbersAssumption DEF WindowsBetween
  <1>2. ASSUME NEW k \in 1..SplitCount PROVE ~Overlapping(windows[k]) /\ Gap(windows[k]) <= 0
    <2>1. PICK m \in Int, n \in Int : m = k - 1 /\ n = 0 /\ n <= m /\ m <= k
      BY <1>1
    <2>2. PICK x \in Int, y \in Int, z \in Int :
              x = Boundary(low, high, n) /\ y = Boundary(low, high, m) /\ z = Boundary(low, high, k)
      <3>1. k \in Int
        OBVIOUS
      <3>2. /\ Boundary(low, high, n) \in Int /\ Boundary(low, high, m) \in Int
            /\ Boundary(low, high, k) \in Int
        BY <3>1, BoundaryIsAnInteger
      <3> QED
        BY <3>2
    <2>3. x <= y /\ y <= z
      <3>1. k \in Int
        OBVIOUS
      <3> QED
        BY <2>1, <2>2, <3>1, BoundariesGrow
    <2>4. /\ windows[k].train.from = x /\ windows[k].train.to = y
          /\ windows[k].validation.from = y /\ windows[k].validation.to = z
      <3>1. /\ WindowsBetween(low, high)[k].train.from = x
            /\ WindowsBetween(low, high)[k].train.to = y
            /\ WindowsBetween(low, high)[k].validation.from = y
            /\ WindowsBetween(low, high)[k].validation.to = z
        BY <2>1, <2>2, <2>3, WindowsAre
      <3> QED
        BY <3>1
    <2>5. Max({x, y}) = y
      BY <2>3 DEF Max
    <2>6. Min({y, z}) = y
      BY <2>3 DEF Min
    <2>7. Gap(windows[k]) = 0
      <3>1. 0 = Second * 0 + 0 /\ 0 \in 0..(Second - 1) /\ Second \in Nat \ {0}
        BY NumbersAssumption
      <3>2. 0 \div Second = 0
        BY <3>1, QuotientIs
      <3> QED
        BY <2>4, <3>2 DEF Gap
    <2> QED
      BY <2>4, <2>5, <2>6, <2>7 DEF Overlapping
  <1> QED
    BY <1>1, <1>2 DEF SplitLeakage

-----------------------------------------------------------------------------
(* Finite sets of times.                                                    *)

LEMMA MinAndMaxAre ==
    ASSUME NEW S \in SUBSET Int, IsFiniteSet(S), S # {}
    PROVE  /\ Min(S) \in S /\ \A x \in S : Min(S) <= x
           /\ Max(S) \in S /\ \A x \in S : x <= Max(S)
  <1>1. PICK m \in S : \A x \in S : m <= x
    BY FiniteHasBounds
  <1>2. PICK n \in S : \A x \in S : n >= x
    BY FiniteHasBounds
  <1>3. Min(S) \in S /\ \A x \in S : Min(S) <= x
    BY <1>1 DEF Min
  <1>4. Max(S) \in S /\ \A x \in S : Max(S) >= x
    BY <1>2 DEF Max
  <1> QED
    BY <1>3, <1>4

LEMMA TimesAre ==
    ASSUME NEW file, IsFile(file)
    PROVE  TimesOf(file) \in SUBSET Int /\ IsFiniteSet(TimesOf(file))
  <1>1. PICK n \in Nat : Timed(file) \subseteq 1..n /\ DOMAIN file.rows = 1..n
    BY DEF IsFile, Timed
  <1>2. ASSUME NEW i \in Timed(file) PROVE file.rows[i].t \in Int
    <2>1. i \in DOMAIN file.rows /\ file.rows \in Seq([t : Int, v : Int])
      BY DEF IsFile, Timed
    <2>2. PICK rows, R : rows = file.rows /\ R = [t : Int, v : Int]
      OBVIOUS
    <2>3. rows \in Seq(R) /\ i \in DOMAIN rows
      BY <2>1, <2>2
    <2>4. rows[i] \in R
      BY <2>3
    <2> QED
      BY <2>2, <2>4
  <1>3. IsFiniteSet(Timed(file))
    <2>1. 1 \in Int /\ n \in Int /\ Timed(file) \in SUBSET (1..n)
      BY <1>1
    <2>2. IsFiniteSet(1..n)
      BY <2>1, FS_Interval
    <2> QED
      BY <2>1, <2>2, FS_Subset
  <1>4. PICK f : f = [i \in Timed(file) |-> file.rows[i].t]
    OBVIOUS
  <1>5. IsFiniteSet({f[i] : i \in Timed(file)})
    BY <1>3, FiniteImage
  <1>6. TimesOf(file) = {f[i] : i \in Timed(file)}
    BY <1>4 DEF TimesOf
  <1> QED
    BY <1>2, <1>5, <1>6 DEF TimesOf

-----------------------------------------------------------------------------
(* The inventory of files that were not replaced between their digests and     *)
(* their reading.                                                           *)

AreFiles(opened) ==
    /\ DOMAIN opened \subseteq Roles
    /\ \A role \in DOMAIN opened :
          DOMAIN opened[role] = Symbols /\ \A s \in Symbols : IsFile(opened[role][s])
IsSurvey(opened, inventory, windows) ==
    /\ AreFiles(opened) /\ inventory = Inventory(opened, opened)
    /\ HasBounds(inventory) /\ windows = Windows(inventory)

\* The bounds of the metadata of a file, if it has times at all.
LEMMA MetadataIs ==
    ASSUME NEW file, IsFile(file), NEW entry, entry = FileMetadata(file, file)
    PROVE  /\ TimesOf(file) = {} => entry.min = {} /\ entry.max = {}
           /\ TimesOf(file) # {} =>
                 /\ entry.min = {FloorToSecond(Min(TimesOf(file)))}
                 /\ entry.max = {FloorToSecond(Max(TimesOf(file)))}
           /\ entry.sha = file /\ entry.count = Len(file.rows)
  <1>1. CASE TimesOf(file) = {}
    BY <1>1 DEF FileMetadata
  <1>2. CASE TimesOf(file) # {}
    <2>1. {TimesOf(file)} \ {{}} = {TimesOf(file)}
      BY <1>2
    <2> QED
      BY <1>2, <2>1 DEF FileMetadata
  <1> QED
    BY <1>1, <1>2

LEMMA MetadataBounds ==
    ASSUME NEW file, IsFile(file), NEW entry, entry = FileMetadata(file, file)
    PROVE  /\ entry.min \in SUBSET Int /\ IsFiniteSet(entry.min)
           /\ entry.max \in SUBSET Int /\ IsFiniteSet(entry.max)
           /\ \A x \in entry.min, y \in entry.max : x <= y
           /\ entry.min = {} <=> entry.max = {}
           /\ \A t \in TimesOf(file) :
                 \E x \in entry.min, y \in entry.max :
                    x <= FloorToSecond(t) /\ FloorToSecond(t) <= y
  <1>1. CASE TimesOf(file) = {}
    <2>1. entry.min = {} /\ entry.max = {}
      BY <1>1, MetadataIs
    <2> QED
      BY <1>1, <2>1, FS_EmptySet
  <1>2. CASE TimesOf(file) # {}
    <2>1. PICK S : S = TimesOf(file) /\ S \in SUBSET Int /\ IsFiniteSet(S) /\ S # {}
      BY <1>2, TimesAre
    <2>2. PICK m \in S, n \in S : m = Min(S) /\ n = Max(S) /\ \A t \in S : m <= t /\ t <= n
      BY <2>1, MinAndMaxAre
    <2>3. entry.min = {FloorToSecond(m)} /\ entry.max = {FloorToSecond(n)}
      BY <1>2, <2>1, <2>2, MetadataIs
    <2>4. m \in Int /\ n \in Int /\ \A t \in S : t \in Int
      BY <2>1
    <2>5. FloorToSecond(m) \in Int /\ FloorToSecond(n) \in Int
      BY <2>4, FloorIs
    <2>6. ASSUME NEW t \in S
          PROVE  FloorToSecond(m) <= FloorToSecond(t) /\ FloorToSecond(t) <= FloorToSecond(n)
      BY <2>2, <2>4, FloorGrows
    <2>7. IsFiniteSet(entry.min) /\ IsFiniteSet(entry.max)
      BY <2>3, FS_Singleton
    <2> QED
      BY <2>1, <2>3, <2>5, <2>6, <2>7
  <1> QED
    BY <1>1, <1>2

\* The union over roles and symbols of finite sets is finite.
AllOf(bounds, roles) == UNION {UNION {bounds[role][s] : s \in Symbols} : role \in roles}
LEMMA AllOfIsFinite ==
    ASSUME NEW roles \in SUBSET Roles, NEW bounds,
           \A role \in roles : \A s \in Symbols : IsFiniteSet(bounds[role][s])
    PROVE  IsFiniteSet(AllOf(bounds, roles))
  <1>1. ASSUME NEW role \in roles PROVE IsFiniteSet(UNION {bounds[role][s] : s \in Symbols})
    <2>1. PICK S : S = {bounds[role][s] : s \in Symbols}
      OBVIOUS
    <2>2. IsFiniteSet(S)
      BY <2>1, FiniteImage, SymbolsAssumption
    <2>3. \A T \in S : IsFiniteSet(T)
      BY <2>1
    <2> QED
      BY <2>1, <2>2, <2>3, FS_UNION
  <1>2. PICK f : f = [role \in roles |-> UNION {bounds[role][s] : s \in Symbols}]
    OBVIOUS
  <1>3. PICK S : S = {f[role] : role \in roles}
    OBVIOUS
  <1>4. IsFiniteSet(roles)
    <2>1. IsFiniteSet(Roles)
      <3>1. IsFiniteSet({"bars"})
        BY FS_Singleton
      <3>2. IsFiniteSet({"bars"} \cup {"funding"})
        BY <3>1, FS_AddElement
      <3>3. Roles = {"bars"} \cup {"funding"}
        BY DEF Roles
      <3> QED
        BY <3>2, <3>3
    <2> QED
      BY <2>1, FS_Subset
  <1>5. IsFiniteSet(S)
    BY <1>3, <1>4, FiniteImage
  <1>6. \A T \in S : IsFiniteSet(T)
    BY <1>1, <1>2, <1>3
  <1>7. IsFiniteSet(UNION S)
    BY <1>5, <1>6, FS_UNION
  <1>8. UNION S = AllOf(bounds, roles)
    BY <1>2, <1>3 DEF AllOf
  <1> QED
    BY <1>7, <1>8

LEMMA SurveyIs ==
    ASSUME NEW opened, NEW inventory, NEW windows, IsSurvey(opened, inventory, windows)
    PROVE  /\ DOMAIN inventory = DOMAIN opened /\ DOMAIN opened \in SUBSET Roles
           /\ \A role \in DOMAIN opened :
                 /\ DOMAIN inventory[role] = Symbols
                 /\ \A s \in Symbols :
                       /\ IsFile(opened[role][s])
                       /\ inventory[role][s] = FileMetadata(opened[role][s], opened[role][s])
  BY DEF IsSurvey, AreFiles, Inventory

\* All that was inventoried is between two whole seconds, the windows between
\* which are those of the inventory.
LEMMA SurveyHasBounds ==
    ASSUME NEW opened, NEW inventory, NEW windows, IsSurvey(opened, inventory, windows)
    PROVE  \E low, high \in Int :
              /\ low <= high /\ windows = WindowsBetween(low, high)
              /\ FloorToSecond(low) = low /\ FloorToSecond(high) = high
              /\ \A role \in DOMAIN opened : \A s \in Symbols : \A t \in TimesOf(opened[role][s]) :
                    low <= FloorToSecond(t) /\ FloorToSecond(t) <= high
  <1>1. /\ DOMAIN inventory = DOMAIN opened /\ DOMAIN opened \in SUBSET Roles
        /\ \A role \in DOMAIN opened :
              /\ DOMAIN inventory[role] = Symbols
              /\ \A s \in Symbols :
                    /\ IsFile(opened[role][s])
                    /\ inventory[role][s] = FileMetadata(opened[role][s], opened[role][s])
    BY SurveyIs
  <1>2. PICK roles : roles = DOMAIN opened
    OBVIOUS
  <1>3. ASSUME NEW role \in roles, NEW s \in Symbols, NEW entry, entry = inventory[role][s]
        PROVE  /\ entry.min \in SUBSET Int /\ IsFiniteSet(entry.min)
               /\ entry.max \in SUBSET Int /\ IsFiniteSet(entry.max)
               /\ \A x \in entry.min, y \in entry.max : x <= y
               /\ entry.min = {} <=> entry.max = {}
               /\ \A t \in TimesOf(opened[role][s]) :
                     \E x \in entry.min, y \in entry.max :
                        x <= FloorToSecond(t) /\ FloorToSecond(t) <= y
    <2>1. PICK file : /\ file = opened[role][s] /\ IsFile(file)
                      /\ inventory[role][s] = FileMetadata(file, file)
      BY <1>1, <1>2
    <2>2. entry = FileMetadata(file, file)
      BY <1>3, <2>1
    <2>3. TimesOf(opened[role][s]) = TimesOf(file)
      BY <2>1
    <2>4. /\ FileMetadata(file, file).min \in SUBSET Int /\ IsFiniteSet(FileMetadata(file, file).min)
          /\ FileMetadata(file, file).max \in SUBSET Int /\ IsFiniteSet(FileMetadata(file, file).max)
          /\ \A x \in FileMetadata(file, file).min, y \in FileMetadata(file, file).max : x <= y
          /\ FileMetadata(file, file).min = {} <=> FileMetadata(file, file).max = {}
          /\ \A t \in TimesOf(file) :
                \E x \in FileMetadata(file, file).min, y \in FileMetadata(file, file).max :
                   x <= FloorToSecond(t) /\ FloorToSecond(t) <= y
      BY <2>1, MetadataBounds
    <2> QED
      BY <2>2, <2>3, <2>4
  <1>4. PICK S, T :
            /\ S = UNION {UNION {inventory[role][s].min : s \in Symbols} : role \in roles}
            /\ T = UNION {UNION {inventory[role][s].max : s \in Symbols} : role \in roles}
    OBVIOUS
  <1>5. Mins(inventory) = S /\ Maxes(inventory) = T
    <2>1. \A role \in roles : DOMAIN inventory[role] = Symbols
      BY <1>1, <1>2
    <2>2. DOMAIN inventory = roles
      BY <1>1, <1>2
    <2>3. Mins(inventory) = S
      BY <1>4, <2>1, <2>2 DEF Mins
    <2>4. Maxes(inventory) = T
      BY <1>4, <2>1, <2>2 DEF Maxes
    <2> QED
      BY <2>3, <2>4
  <1>6. IsFiniteSet(S) /\ IsFiniteSet(T)
    <2>1. PICK mins : mins = [role \in roles |-> [s \in Symbols |-> inventory[role][s].min]]
      OBVIOUS
    <2>2. PICK maxes : maxes = [role \in roles |-> [s \in Symbols |-> inventory[role][s].max]]
      OBVIOUS
    <2>3. S = AllOf(mins, roles) /\ T = AllOf(maxes, roles)
      BY <1>4, <2>1, <2>2 DEF AllOf
    <2>4. \A role \in roles : \A s \in Symbols : IsFiniteSet(mins[role][s]) /\ IsFiniteSet(maxes[role][s])
      BY <1>3, <2>1, <2>2
    <2>5. roles \in SUBSET Roles
      BY <1>1, <1>2
    <2>6. IsFiniteSet(AllOf(mins, roles)) /\ IsFiniteSet(AllOf(maxes, roles))
      BY <2>4, <2>5, AllOfIsFinite
    <2> QED
      BY <2>3, <2>6
  <1>7. S \in SUBSET Int /\ T \in SUBSET Int /\ S # {} /\ T # {}
    BY <1>3, <1>4, <1>5 DEF IsSurvey, HasBounds
  <1>8. PICK low \in S, high \in T :
            /\ low = Min(S) /\ \A x \in S : low <= x
            /\ high = Max(T) /\ \A y \in T : y <= high
    BY <1>6, <1>7, MinAndMaxAre
  <1>9. low \in Int /\ high \in Int
    BY <1>7
  <1>10. windows = WindowsBetween(low, high)
    BY <1>5, <1>8 DEF IsSurvey, Windows
  <1>11. \A x \in S \cup T : FloorToSecond(x) = x
    <2>1. ASSUME NEW role \in roles, NEW s \in Symbols, NEW x \in inventory[role][s].min \cup inventory[role][s].max
          PROVE  FloorToSecond(x) = x
      <3>1. PICK file : file = opened[role][s] /\ IsFile(file) /\ inventory[role][s] = FileMetadata(file, file)
        BY <1>1, <1>2
      <3>2. PICK entry : entry = FileMetadata(file, file) /\ x \in entry.min \cup entry.max
        BY <2>1, <3>1
      <3>3. TimesOf(file) # {}
        BY <3>1, <3>2, MetadataIs
      <3>4. PICK times : times = TimesOf(file) /\ times \in SUBSET Int /\ IsFiniteSet(times) /\ times # {}
        BY <3>1, <3>3, TimesAre
      <3>5. Min(times) \in Int /\ Max(times) \in Int
        BY <3>4, MinAndMaxAre
      <3>6. x = FloorToSecond(Min(times)) \/ x = FloorToSecond(Max(times))
        BY <3>1, <3>2, <3>3, <3>4, MetadataIs
      <3> QED
        BY <3>5, <3>6, FloorIs
    <2> QED
      BY <1>4, <2>1
  <1>12. ASSUME NEW role \in roles, NEW s \in Symbols, NEW t \in TimesOf(opened[role][s])
         PROVE  low <= FloorToSecond(t) /\ FloorToSecond(t) <= high
    <2>1. PICK entry : entry = inventory[role][s]
      OBVIOUS
    <2>2. PICK x \in entry.min, y \in entry.max : x <= FloorToSecond(t) /\ FloorToSecond(t) <= y
      BY <1>3, <2>1
    <2>3. x \in S /\ y \in T
      BY <1>4, <2>1
    <2>4. t \in Int
      BY <1>1, <1>2, TimesAre
    <2>5. FloorToSecond(t) \in Int /\ x \in Int /\ y \in Int
      BY <1>7, <2>3, <2>4, FloorIs
    <2> QED
      BY <1>8, <1>9, <2>2, <2>3, <2>5
  <1>13. low <= high
    <2>1. PICK role \in roles, s \in Symbols : low \in inventory[role][s].min
      BY <1>4
    <2>2. PICK entry : entry = inventory[role][s] /\ low \in entry.min
      BY <2>1
    <2>3. PICK y \in entry.max : low <= y
      BY <1>3, <2>2
    <2>4. y \in T
      BY <1>4, <2>2
    <2> QED
      BY <1>7, <1>8, <1>9, <2>3, <2>4
  <1> QED
    BY <1>2, <1>8, <1>9, <1>10, <1>11, <1>12, <1>13

LEMMA SurveyIsValidatedOnce ==
    ASSUME NEW opened, NEW inventory, NEW windows, IsSurvey(opened, inventory, windows)
    PROVE  /\ SplitLeakage(windows).status = "insufficient" /\ SplitLeakage(windows).adjacent
           /\ \A role \in DOMAIN inventory, s \in Symbols : \A t \in TimesOf(inventory[role][s].sha) :
                 t % Second = 0 =>
                    Cardinality({k \in DOMAIN windows : InWindow(t, windows[k], "validation")}) = 1
  <1>1. PICK low \in Int, high \in Int :
            /\ low <= high /\ windows = WindowsBetween(low, high)
            /\ FloorToSecond(low) = low /\ FloorToSecond(high) = high
            /\ \A role \in DOMAIN opened : \A s \in Symbols : \A t \in TimesOf(opened[role][s]) :
                  low <= FloorToSecond(t) /\ FloorToSecond(t) <= high
    BY SurveyHasBounds
  <1>2. SplitLeakage(windows).status = "insufficient" /\ SplitLeakage(windows).adjacent
    BY <1>1, WindowsDoNotLeak
  <1>3. ASSUME NEW role \in DOMAIN inventory, NEW s \in Symbols,
               NEW t \in TimesOf(inventory[role][s].sha), t % Second = 0
        PROVE  Cardinality({k \in DOMAIN windows : InWindow(t, windows[k], "validation")}) = 1
    <2>1. /\ role \in DOMAIN opened /\ IsFile(opened[role][s])
          /\ inventory[role][s] = FileMetadata(opened[role][s], opened[role][s])
      BY SurveyIs
    <2>2. inventory[role][s].sha = opened[role][s]
      BY <2>1 DEF FileMetadata
    <2>3. t \in TimesOf(opened[role][s])
      BY <2>2
    <2>4. t \in Int
      BY <2>1, <2>3, TimesAre
    <2>5. FloorToSecond(t) = t
      BY <1>3, <2>4, FloorIs
    <2>6. low <= t /\ t <= high
      BY <1>1, <2>1, <2>3, <2>5
    <2> QED
      BY <1>1, <2>4, <2>6, WindowsTile
  <1> QED
    BY <1>2, <1>3

-----------------------------------------------------------------------------
(* What a run that was not torn has of the data.                            *)

\* The files an inventory has the digests of.
Surveyed(inventory) == [role \in DOMAIN inventory |-> [s \in Symbols |-> inventory[role][s].sha]]
Leaked == {"packets"} \cup Late
\* Of files none of which was replaced between its digest and its reading.
IsSurveyed(inventory, windows) ==
    DOMAIN inventory # {} => IsSurvey(Surveyed(inventory), inventory, windows)
DataOK == \A role \in Roles, s \in Symbols : IsFile(data[role][s])
SurveyOK ==
    /\ ~run.torn => IsSurveyed(run.inventory, run.windows)
    /\ DOMAIN run.inventory # {} => DOMAIN run.inventory = DataRoles
LeakageOK ==
    run.pc \in Leaked =>
        "leakage" \in DOMAIN run.doc /\ run.doc["leakage"] = SplitLeakage(run.windows)
SurveyedDoc(doc) ==
    /\ ~doc["torn"] => IsSurveyed(doc["inventory"], doc["windows"])
    /\ doc["leakage"] = SplitLeakage(doc["windows"])
SurveyInv == DataOK /\ SurveyOK /\ LeakageOK /\ \A doc \in Docs : SurveyedDoc(doc)

LEMMA SurveyStays ==
    ASSUME SurveyInv, DataOK', receipt' = receipt,
           run'.inventory = run.inventory, run'.windows = run.windows, run'.args = run.args,
           run.torn => run'.torn, LeakageOK'
    PROVE  SurveyInv'
  <1>1. Docs' = Docs
    BY DEF Docs
  <1>2. DataRoles' = DataRoles
    BY DEF DataRoles, WithFunding, Args
  <1>3. SurveyOK'
    BY <1>2 DEF SurveyInv, SurveyOK
  <1> QED
    BY <1>1, <1>3 DEF SurveyInv

\* Nothing is surveyed by a run that has stopped.
LEMMA SurveyStops ==
    ASSUME SurveyInv, NEW code, run' = [NoRun EXCEPT !.exit = code], data' = data, receipt' = receipt
    PROVE  SurveyInv'
  <1>1. DOMAIN run'.inventory = {} /\ run'.pc = "idle"
    BY DEF NoRun, NoInventory
  <1>2. Docs' = Docs
    BY DEF Docs
  <1>3. DataOK'
    BY DEF SurveyInv, DataOK
  <1>4. SurveyOK'
    BY <1>1 DEF SurveyOK, IsSurveyed
  <1>5. LeakageOK'
    BY <1>1 DEF LeakageOK, Leaked, Late
  <1> QED
    BY <1>2, <1>3, <1>4, <1>5 DEF SurveyInv

LEMMA SurveyBegins == Init => SurveyInv
  <1> SUFFICES ASSUME Init PROVE SurveyInv
    OBVIOUS
  <1>1. DataOK
    BY StartsAssumption DEF Init, DataOK
  <1>2. DOMAIN run.inventory = {} /\ run.pc = "idle"
    BY DEF Init, NoRun, NoInventory
  <1>3. SurveyOK
    BY <1>2 DEF SurveyOK, IsSurveyed
  <1>4. LeakageOK
    BY <1>2 DEF LeakageOK, Leaked, Late
  <1>5. Docs = {}
    BY DEF Docs, Init
  <1> QED
    BY <1>1, <1>3, <1>4, <1>5 DEF SurveyInv

LEMMA OthersKeepTheSurvey ==
    ASSUME ChainInv, SurveyInv, Refresh \/ Amend \/ Refreeze \/ Rebind \/ UNCHANGED vars
    PROVE  SurveyInv'
  <1>1. run' = run /\ receipt' = receipt
    BY DEF Refresh, Amend, Refreeze, Rebind, Write, vars
  <1>2. DataOK'
    <2>1. CASE Refresh
      <3>1. PICK role \in Roles, s \in Symbols :
                \E file \in Refreshes(role, s) : data' = [data EXCEPT ![role][s] = file]
        BY <2>1 DEF Refresh
      <3>2. PICK file \in Refreshes(role, s) : data' = [data EXCEPT ![role][s] = file]
        BY <3>1
      <3>3. IsFile(file)
        BY RefreshesAssumption
      <3>4. data = [r \in Roles |-> [y \in Symbols |-> data[r][y]]]
        BY DEF ChainInv, FilesOK
      <3>5. ASSUME NEW r \in Roles, NEW y \in Symbols PROVE IsFile(data'[r][y])
        <4>1. data'[r][y] = file \/ data'[r][y] = data[r][y]
          BY <3>2, <3>4
        <4>2. IsFile(data[r][y])
          BY DEF SurveyInv, DataOK
        <4> QED
          BY <3>3, <4>1, <4>2
      <3> QED
        BY <3>5 DEF DataOK
    <2>2. CASE data' = data
      BY <2>2 DEF SurveyInv, DataOK
    <2> QED
      BY <2>1, <2>2 DEF Amend, Refreeze, Rebind, vars, files
  <1>3. LeakageOK'
    BY <1>1 DEF SurveyInv, LeakageOK
  <1> QED
    BY <1>1, <1>2, <1>3, SurveyStays

LEMMA StartSurveys == SurveyInv /\ Start => SurveyInv'
  <1> SUFFICES ASSUME SurveyInv, Start PROVE SurveyInv'
    OBVIOUS
  <1>1. data' = data /\ receipt' = receipt
    BY DEF Start, files
  <1>2. PICK args \in Invocations :
            Refuse(args) \/ Undeclared(args) \/ FromDeclared(args) \/ FromData(args)
    BY DEF Start
  <1>3. CASE Refuse(args)
    BY <1>1, <1>3, SurveyStops DEF Refuse
  <1>4. CASE Undeclared(args)
    BY <1>1, <1>4, SurveyStops DEF Undeclared
  <1>5. ASSUME DOMAIN run'.inventory = {}, LeakageOK' PROVE SurveyInv'
    <2>1. Docs' = Docs
      BY <1>1 DEF Docs
    <2>2. DataOK'
      BY <1>1 DEF SurveyInv, DataOK
    <2>3. SurveyOK'
      BY <1>5 DEF SurveyOK, IsSurveyed
    <2> QED
      BY <1>5, <2>1, <2>2, <2>3 DEF SurveyInv
  <1>6. CASE FromDeclared(args)
    <2>1. PICK windows : /\ run'.pc = "packets" /\ run'.windows = windows /\ DOMAIN run'.inventory = {}
                         /\ run'.doc = Entry("leakage", SplitLeakage(windows))
      BY <1>6 DEF FromDeclared, NoRun, NoInventory
    <2>2. LeakageOK'
      BY <2>1 DEF LeakageOK, Entry
    <2> QED
      BY <1>5, <2>1, <2>2
  <1>7. CASE FromData(args)
    <2>1. run'.pc = "inventory" /\ DOMAIN run'.inventory = {}
      BY <1>7 DEF FromData, NoRun, NoInventory
    <2>2. LeakageOK'
      BY <2>1 DEF LeakageOK, Leaked, Late
    <2> QED
      BY <1>5, <2>1, <2>2
  <1> QED
    BY <1>2, <1>3, <1>4, <1>6, <1>7

LEMMA GivenAreFiles ==
    ASSUME ChainInv, DataOK
    PROVE  /\ DOMAIN Given = DataRoles /\ AreFiles(Given)
           /\ \A role \in DataRoles : Given[role] = [s \in Symbols |-> data[role][s]]
           /\ Surveyed(Inventory(Given, Given)) = Given
  <1>1. DataRoles \subseteq Roles
    BY DEF DataRoles, Roles
  <1>2. \A role \in DataRoles : Given[role] = [s \in Symbols |-> data[role][s]]
    BY <1>1 DEF Given, ChainInv, FilesOK
  <1>3. DOMAIN Given = DataRoles
    BY DEF Given
  <1>4. AreFiles(Given)
    BY <1>1, <1>2, <1>3 DEF AreFiles, DataOK
  <1>5. PICK inventory : inventory = Inventory(Given, Given)
    OBVIOUS
  <1>6. /\ DOMAIN inventory = DataRoles
        /\ \A role \in DataRoles : \A s \in Symbols : inventory[role][s].sha = Given[role][s]
    BY <1>2, <1>3, <1>5 DEF Inventory, FileMetadata
  <1>7. Surveyed(inventory) = [role \in DataRoles |-> [s \in Symbols |-> Given[role][s]]]
    BY <1>6 DEF Surveyed
  <1>8. Given = [role \in DataRoles |-> [s \in Symbols |-> Given[role][s]]]
    BY <1>2 DEF Given
  <1> QED
    BY <1>2, <1>3, <1>4, <1>5, <1>7, <1>8

LEMMA TakeInventorySurveys == ChainInv /\ SurveyInv /\ TakeInventory => SurveyInv'
  <1> SUFFICES ASSUME ChainInv, SurveyInv, TakeInventory PROVE SurveyInv'
    OBVIOUS
  <1>1. data' = data /\ receipt' = receipt
    BY DEF TakeInventory, files
  <1>2. PICK hashed : hashed = CHOOSE h \in run.hashed : TRUE
    OBVIOUS
  <1>3. PICK inventory : inventory = Inventory(hashed, Given)
    OBVIOUS
  <1>4. CASE Failed
    BY <1>1, <1>4, SurveyStops DEF Failed
  <1>5. CASE /\ HasBounds(inventory)
             /\ run' = [run EXCEPT !.pc = "rows", !.hashed = {}, !.inventory = inventory,
                          !.windows = Windows(inventory), !.torn = run.hashed # {Given}]
    <2>1. /\ run'.pc = "rows" /\ run'.inventory = inventory /\ run'.windows = Windows(inventory)
          /\ run'.torn = (run.hashed # {Given}) /\ run'.args = run.args
      BY <1>5 DEF ChainInv, RunOK, Fields
    <2>2. DataRoles' = DataRoles
      BY <2>1 DEF DataRoles, WithFunding, Args
    <2>3. DOMAIN inventory = DataRoles
      BY <1>3 DEF Inventory, Given
    <2>4. ASSUME ~run'.torn PROVE IsSurvey(Surveyed(inventory), inventory, Windows(inventory))
      <3>1. run.hashed = {Given}
        BY <2>1, <2>4
      <3>2. hashed = Given
        BY <1>2, <3>1
      <3>3. Surveyed(inventory) = Given /\ AreFiles(Given) /\ inventory = Inventory(Given, Given)
        BY <1>3, <3>2, GivenAreFiles DEF SurveyInv
      <3> QED
        BY <1>5, <3>3 DEF IsSurvey
    <2>5. SurveyOK'
      BY <2>1, <2>2, <2>3, <2>4 DEF SurveyOK, IsSurveyed
    <2>6. LeakageOK'
      BY <2>1 DEF LeakageOK, Leaked, Late
    <2>7. DataOK' /\ Docs' = Docs
      BY <1>1 DEF SurveyInv, DataOK, Docs
    <2> QED
      BY <2>5, <2>6, <2>7 DEF SurveyInv
  <1> QED
    BY <1>2, <1>3, <1>4, <1>5 DEF TakeInventory

LEMMA CrashSurveys == SurveyInv /\ Crash => SurveyInv'
  BY SurveyStops DEF Crash, files

LEMMA TakeHashesSurveys == ChainInv /\ SurveyInv /\ TakeHashes => SurveyInv'
  <1> SUFFICES ASSUME ChainInv, SurveyInv, TakeHashes PROVE SurveyInv'
    OBVIOUS
  <1>1. data' = data /\ receipt' = receipt
    BY DEF TakeHashes, files
  <1>2. CASE Failed
    BY <1>1, <1>2, SurveyStops DEF Failed
  <1>3. CASE run' = [run EXCEPT !.hashed = {Given}]
    <2>1. /\ run'.inventory = run.inventory /\ run'.windows = run.windows /\ run'.args = run.args
          /\ run'.torn = run.torn /\ run'.pc = run.pc /\ run'.doc = run.doc
      BY <1>3 DEF ChainInv, RunOK, Fields
    <2>2. DataOK' /\ LeakageOK'
      BY <1>1, <2>1 DEF SurveyInv, DataOK, LeakageOK
    <2> QED
      BY <1>1, <2>1, <2>2, SurveyStays
  <1> QED
    BY <1>2, <1>3 DEF TakeHashes

LEMMA OpensSurveys ==
    ASSUME ChainInv, SurveyInv, NEW pass, NEW reads, NEW next \in Early, NEW sections,
           Opens(pass, reads, next, sections)
    PROVE  SurveyInv'
  <1>1. data' = data /\ receipt' = receipt
    BY DEF Opens, files
  <1>2. CASE Failed
    BY <1>1, <1>2, SurveyStops DEF Failed
  <1>3. CASE run' = [run EXCEPT !.pc = next, !.hashed = {}, !.doc = Over(sections, run.doc),
                       !.torn = run.torn \/ run.hashed # {Given}]
    <2>1. /\ run'.inventory = run.inventory /\ run'.windows = run.windows /\ run'.args = run.args
          /\ run'.torn = (run.torn \/ run.hashed # {Given}) /\ run'.pc = next
      BY <1>3 DEF ChainInv, RunOK, Fields
    <2>2. DataOK' /\ LeakageOK'
      BY <1>1, <2>1 DEF SurveyInv, DataOK, LeakageOK, Leaked, Late, Early
    <2> QED
      BY <1>1, <2>1, <2>2, SurveyStays
  <1> QED
    BY <1>2, <1>3 DEF Opens

LEMMA PassesSurvey ==
    ASSUME ChainInv, SurveyInv,
           \/ AssignRows \/ Adjust \/ LeaveFundingOut \/ DiagnoseJoinability
           \/ DiagnoseConvention \/ Canonicalize \/ BuildScaffold \/ AuditSplits
    PROVE  SurveyInv'
  <1>1. CASE AssignRows
    BY <1>1, OpensSurveys DEF AssignRows, Early
  <1>2. CASE Adjust
    BY <1>2, OpensSurveys DEF Adjust, Early
  <1>3. CASE LeaveFundingOut
    <2>1. /\ run'.inventory = run.inventory /\ run'.windows = run.windows /\ run'.args = run.args
          /\ run'.torn = run.torn /\ run'.pc = "leakage"
      BY <1>3 DEF LeaveFundingOut, ChainInv, RunOK, Fields
    <2>2. data' = data /\ receipt' = receipt
      BY <1>3 DEF LeaveFundingOut, files
    <2>3. DataOK' /\ LeakageOK'
      BY <2>1, <2>2 DEF SurveyInv, DataOK, LeakageOK, Leaked, Late
    <2> QED
      BY <2>1, <2>2, <2>3, SurveyStays
  <1>4. CASE DiagnoseJoinability
    BY <1>4, OpensSurveys DEF DiagnoseJoinability, JoinsAt, Early
  <1>5. CASE DiagnoseConvention
    BY <1>5, OpensSurveys DEF DiagnoseConvention, JoinsAt, Early
  <1>6. CASE Canonicalize
    BY <1>6, OpensSurveys DEF Canonicalize, JoinsAt, Early
  <1>7. CASE BuildScaffold
    BY <1>7, OpensSurveys DEF BuildScaffold, Early
  <1>8. CASE AuditSplits
    <2>1. /\ run'.inventory = run.inventory /\ run'.windows = run.windows /\ run'.args = run.args
          /\ run'.torn = run.torn /\ run'.doc = Over(Entry("leakage", SplitLeakage(run.windows)), run.doc)
      BY <1>8 DEF AuditSplits, ChainInv, RunOK, Fields
    <2>2. data' = data /\ receipt' = receipt
      BY <1>8 DEF AuditSplits, files
    <2>3. "leakage" \in DOMAIN run'.doc /\ run'.doc["leakage"] = SplitLeakage(run.windows)
      BY <2>1 DEF Over, Entry
    <2>4. DataOK' /\ LeakageOK'
      BY <2>1, <2>2, <2>3 DEF SurveyInv, DataOK, LeakageOK
    <2> QED
      BY <2>1, <2>2, <2>4, SurveyStays
  <1> QED
    BY <1>1, <1>2, <1>3, <1>4, <1>5, <1>6, <1>7, <1>8

LEMMA ReadPacketSurveys == ChainInv /\ SurveyInv /\ ReadPacket => SurveyInv'
  <1> SUFFICES ASSUME ChainInv, SurveyInv, ReadPacket PROVE SurveyInv'
    OBVIOUS
  <1>1. data' = data /\ receipt' = receipt
    BY DEF ReadPacket, files
  <1>2. CASE Failed
    BY <1>1, <1>2, SurveyStops DEF Failed
  <1>3. CASE \E p \in Packets : \E c, seen :
                 run' = [run EXCEPT !.at = @ + 1, !.seen = seen, !.doc = Over(Entry(p, c), run.doc)]
    <2>1. PICK p \in Packets :
              \E c, seen : run' = [run EXCEPT !.at = @ + 1, !.seen = seen, !.doc = Over(Entry(p, c), run.doc)]
      BY <1>3
    <2>2. PICK c, seen : run' = [run EXCEPT !.at = @ + 1, !.seen = seen, !.doc = Over(Entry(p, c), run.doc)]
      BY <2>1
    <2>3. /\ run'.inventory = run.inventory /\ run'.windows = run.windows /\ run'.args = run.args
          /\ run'.torn = run.torn /\ run'.pc = run.pc /\ run'.doc = Over(Entry(p, c), run.doc)
      BY <2>2 DEF ChainInv, RunOK, Fields
    <2>4. p # "leakage"
      BY PacketsAre
    <2>5. "leakage" \in DOMAIN run.doc =>
              "leakage" \in DOMAIN run'.doc /\ run'.doc["leakage"] = run.doc["leakage"]
      BY <2>3, <2>4 DEF Over, Entry
    <2>6. DataOK' /\ LeakageOK'
      BY <1>1, <2>3, <2>5 DEF SurveyInv, DataOK, LeakageOK
    <2> QED
      BY <1>1, <2>3, <2>6, SurveyStays
  <1>4. CASE \E seen : run' = [run EXCEPT !.at = @ + 1, !.seen = seen]
    <2>1. PICK seen : run' = [run EXCEPT !.at = @ + 1, !.seen = seen]
      BY <1>4
    <2>2. /\ run'.inventory = run.inventory /\ run'.windows = run.windows /\ run'.args = run.args
          /\ run'.torn = run.torn /\ run'.pc = run.pc /\ run'.doc = run.doc
      BY <2>1 DEF ChainInv, RunOK, Fields
    <2>3. DataOK' /\ LeakageOK'
      BY <1>1, <2>2 DEF SurveyInv, DataOK, LeakageOK
    <2> QED
      BY <1>1, <2>2, <2>3, SurveyStays
  <1>5. Chain[run.at] \in Packets
    BY DEF ReadPacket, Packets
  <1> QED
    BY <1>2, <1>3, <1>4, <1>5 DEF ReadPacket

LEMMA CloseChainSurveys == ChainInv /\ SurveyInv /\ CloseChain => SurveyInv'
  <1> SUFFICES ASSUME ChainInv, SurveyInv, CloseChain PROVE SurveyInv'
    OBVIOUS
  <1>1. data' = data /\ receipt' = receipt /\ run.pc = "packets"
    BY DEF CloseChain, files
  <1>2. /\ run'.inventory = run.inventory /\ run'.windows = run.windows /\ run'.args = run.args
        /\ run'.torn = run.torn /\ run'.doc = run.doc
    BY DEF CloseChain, ChainInv, RunOK, Fields
  <1>3. DataOK' /\ LeakageOK'
    BY <1>1, <1>2 DEF SurveyInv, DataOK, LeakageOK, Leaked
  <1> QED
    BY <1>1, <1>2, <1>3, SurveyStays

LEMMA OpensIfAnySurveys ==
    ASSUME ChainInv, SurveyInv, NEW pass \in Late, NEW next, NEW gates, NEW sections,
           OpensIfAny(pass, next, gates, sections), "leakage" \notin DOMAIN sections
    PROVE  SurveyInv'
  <1>1. data' = data /\ receipt' = receipt /\ run.pc \in Late
    BY DEF OpensIfAny, files
  <1>2. /\ run'.inventory = run.inventory /\ run'.windows = run.windows /\ run'.args = run.args
        /\ run'.torn = (run.torn \/ (HasData /\ run.hashed # {Given}))
        /\ run'.doc = Over(sections, run.doc)
    BY DEF OpensIfAny, ChainInv, RunOK, Fields
  <1>3. "leakage" \in DOMAIN run.doc =>
            "leakage" \in DOMAIN run'.doc /\ run'.doc["leakage"] = run.doc["leakage"]
    BY <1>2 DEF Over
  <1>4. DataOK' /\ LeakageOK'
    BY <1>1, <1>2, <1>3 DEF SurveyInv, DataOK, LeakageOK, Leaked
  <1> QED
    BY <1>1, <1>2, <1>4, SurveyStays

LEMMA GatesSurvey ==
    ASSUME ChainInv, SurveyInv, CheckTimes \/ CheckJoins \/ ExtractAndProject
    PROVE  SurveyInv'
  <1>1. "leakage" \notin DOMAIN NoSection /\ \A rows : "leakage" \notin DOMAIN Entry("emitted", rows)
    BY DEF NoSection, Entry
  <1>2. CASE CheckTimes
    BY <1>1, <1>2, OpensIfAnySurveys DEF CheckTimes, Late
  <1>3. CASE CheckJoins
    BY <1>1, <1>3, OpensIfAnySurveys DEF CheckJoins, Late
  <1>4. CASE ExtractAndProject
    BY <1>1, <1>4, OpensIfAnySurveys DEF ExtractAndProject, Late
  <1> QED
    BY <1>2, <1>3, <1>4

LEMMA BeginWriteSurveys == ChainInv /\ SurveyInv /\ BeginWrite => SurveyInv'
  <1> SUFFICES ASSUME ChainInv, SurveyInv, BeginWrite PROVE SurveyInv'
    OBVIOUS
  <1>1. data' = data /\ run.pc = "write"
    BY DEF BeginWrite, files
  <1>2. /\ run'.inventory = run.inventory /\ run'.windows = run.windows /\ run'.args = run.args
        /\ run'.torn = run.torn /\ run'.doc = run.doc
    BY DEF BeginWrite, ChainInv, RunOK, Fields
  <1>3. DataOK' /\ LeakageOK'
    BY <1>1, <1>2 DEF SurveyInv, DataOK, LeakageOK, Leaked, Late
  <1>4. SurveyOK'
    <2>1. DataRoles' = DataRoles
      BY <1>2 DEF DataRoles, WithFunding, Args
    <2> QED
      BY <1>2, <2>1 DEF SurveyInv, SurveyOK
  <1>5. Docs' = {}
    BY DEF BeginWrite, Docs
  <1> QED
    BY <1>3, <1>4, <1>5 DEF SurveyInv

\* What a receipt says, next to what the run has.
LEMMA ReceiptIs ==
    /\ Receipt["gates"] = run.gates /\ Receipt["torn"] = run.torn
    /\ Receipt["inventory"] = run.inventory /\ Receipt["windows"] = run.windows
    /\ \A k \in DOMAIN run.doc \ {"gates", "torn", "inventory", "windows"} :
          k \in DOMAIN Receipt /\ Receipt[k] = run.doc[k]
    /\ \A k \in DOMAIN Receipt \ {"gates", "torn", "inventory", "windows"} : k \in DOMAIN run.doc
  BY DEF Receipt, Over

LEMMA WrittenDoc == EndWrite => Docs' = {Receipt}
  <1> SUFFICES ASSUME EndWrite PROVE Docs' = {Receipt}
    OBVIOUS
  <1>1. PICK new : new = Receipt
    OBVIOUS
  <1>2. PICK r : r = [whole |-> TRUE, doc |-> new]
    OBVIOUS
  <1>3. receipt' = {r} /\ r.whole /\ r.doc = new
    BY <1>1, <1>2 DEF EndWrite
  <1>4. Docs' = {x.doc : x \in {y \in {r} : y.whole}}
    BY <1>3 DEF Docs
  <1> QED
    BY <1>1, <1>3, <1>4

LEMMA EndWriteSurveys == ChainInv /\ SurveyInv /\ EndWrite => SurveyInv'
  <1> SUFFICES ASSUME ChainInv, SurveyInv, EndWrite PROVE SurveyInv'
    OBVIOUS
  <1>1. data' = data /\ run.pc = "written" /\ run' = NoRun
    BY DEF EndWrite, files
  <1>2. DOMAIN run'.inventory = {} /\ run'.pc = "idle"
    BY <1>1 DEF NoRun, NoInventory
  <1>3. DataOK' /\ SurveyOK' /\ LeakageOK'
    BY <1>1, <1>2 DEF SurveyInv, DataOK, SurveyOK, IsSurveyed, LeakageOK, Leaked, Late
  <1>4. "leakage" \in DOMAIN run.doc /\ run.doc["leakage"] = SplitLeakage(run.windows)
    BY <1>1 DEF SurveyInv, LeakageOK, Leaked, Late
  <1>5. SurveyedDoc(Receipt)
    BY <1>4, ReceiptIs DEF SurveyedDoc, SurveyInv, SurveyOK
  <1>6. \A doc \in Docs' : SurveyedDoc(doc)
    BY <1>5, WrittenDoc
  <1> QED
    BY <1>3, <1>6 DEF SurveyInv

\* The survey invariant is one: what a run that was not torn has in memory is
\* the inventory of files each of which it has the digest of, the windows are
\* those between the bounds of that inventory, and its split audit is of them;
\* a receipt keeps all three.
\* offline_edge_real_validation.py: main, with the inventory and the splits.
THEOREM SurveyInvariant == Spec => [](ChainInv /\ SurveyInv)
  <1>1. ASSUME ChainInv, SurveyInv, [Next]_vars PROVE SurveyInv'
    <2>1. CASE Refresh \/ Amend \/ Refreeze \/ Rebind \/ UNCHANGED vars
      BY <1>1, <2>1, OthersKeepTheSurvey
    <2>2. CASE Start
      BY <1>1, <2>2, StartSurveys
    <2>3. CASE TakeHashes
      BY <1>1, <2>3, TakeHashesSurveys
    <2>4. CASE TakeInventory
      BY <1>1, <2>4, TakeInventorySurveys
    <2>5. CASE \/ AssignRows \/ Adjust \/ LeaveFundingOut \/ DiagnoseJoinability
               \/ DiagnoseConvention \/ Canonicalize \/ BuildScaffold \/ AuditSplits
      BY <1>1, <2>5, PassesSurvey
    <2>6. CASE ReadPacket
      BY <1>1, <2>6, ReadPacketSurveys
    <2>7. CASE CloseChain
      BY <1>1, <2>7, CloseChainSurveys
    <2>8. CASE CheckTimes \/ CheckJoins \/ ExtractAndProject
      BY <1>1, <2>8, GatesSurvey
    <2>9. CASE BeginWrite
      BY <1>1, <2>9, BeginWriteSurveys
    <2>10. CASE EndWrite
      BY <1>1, <2>10, EndWriteSurveys
    <2>11. CASE Crash
      BY <1>1, <2>11, CrashSurveys
    <2> QED
      BY <1>1, <2>1, <2>2, <2>3, <2>4, <2>5, <2>6, <2>7, <2>8, <2>9, <2>10, <2>11 DEF Next, RunStep
  <1> QED
    BY <1>1, SurveyBegins, ChainInvariant, PTL DEF Spec

\* In a receipt of a run over data no file of which was replaced while it was
\* read, training and validation do not overlap, and a bar or a funding at a
\* whole second is validated by one window and no other.
\* offline_edge_real_validation.py: build_walk_forward_splits, the row
\* assignment and the split audit.
THEOREM RowsAreValidatedOnce == Spec => []EveryRowIsValidatedOnce
  <1>1. SurveyInv => EveryRowIsValidatedOnce
    <2> SUFFICES ASSUME SurveyInv, NEW doc \in Docs, ~doc["torn"], DOMAIN doc["inventory"] # {}
                 PROVE  /\ doc["leakage"].status = "insufficient" /\ doc["leakage"].adjacent
                        /\ \A role \in DOMAIN doc["inventory"], s \in Symbols :
                              \A t \in TimesOf(InventoriedRows(doc, role, s)) : t % Second = 0 =>
                                  Cardinality({k \in DOMAIN doc["windows"] :
                                                  InWindow(t, doc["windows"][k], "validation")}) = 1
      BY DEF EveryRowIsValidatedOnce
    <2>1. PICK inventory, windows : inventory = doc["inventory"] /\ windows = doc["windows"]
      OBVIOUS
    <2>2. /\ IsSurvey(Surveyed(inventory), inventory, windows)
          /\ doc["leakage"] = SplitLeakage(windows)
      BY <2>1 DEF SurveyInv, SurveyedDoc, IsSurveyed
    <2>3. /\ SplitLeakage(windows).status = "insufficient" /\ SplitLeakage(windows).adjacent
          /\ \A role \in DOMAIN inventory, s \in Symbols : \A t \in TimesOf(inventory[role][s].sha) :
                t % Second = 0 =>
                   Cardinality({k \in DOMAIN windows : InWindow(t, windows[k], "validation")}) = 1
      BY <2>2, SurveyIsValidatedOnce
    <2> QED
      BY <2>1, <2>2, <2>3 DEF InventoriedRows
  <1> QED
    BY <1>1, SurveyInvariant, PTL

-----------------------------------------------------------------------------
(* Bars and funding in order, the rows made of them, and the seconds their      *)
(* times are floored to.                                                    *)

IsOrdered(file) == IsFile(file) /\ "time" \in file.columns /\ StrictlyIncreasing(file)

LEMMA TimesGrow ==
    ASSUME NEW file, IsOrdered(file), NEW i \in DOMAIN file.rows, NEW j \in DOMAIN file.rows, i < j
    PROVE  file.rows[i].t < file.rows[j].t
  <1>1. PICK n \in Nat : n = Len(file.rows) /\ DOMAIN file.rows = 1..n
    BY DEF IsOrdered, IsFile
  <1>2. PICK t : t = [k \in 1..n |-> file.rows[k].t]
    OBVIOUS
  <1>3. ASSUME NEW k \in 1..n PROVE t[k] \in Int
    <2>1. PICK rows, R : rows = file.rows /\ R = [t : Int, v : Int]
      OBVIOUS
    <2>2. rows \in Seq(R) /\ k \in DOMAIN rows
      BY <1>1, <2>1 DEF IsOrdered, IsFile
    <2>3. rows[k] \in R
      BY <2>2
    <2> QED
      BY <1>2, <2>1, <2>3
  <1>4. \A k \in 2..n : t[k - 1] < t[k]
    BY <1>1, <1>2 DEF IsOrdered, StrictlyIncreasing
  <1>5. i \in 1..n /\ j \in 1..n
    BY <1>1
  <1>6. t[i] < t[j]
    <2> SUFFICES ASSUME ~(t[i] < t[j]) PROVE FALSE
      OBVIOUS
    <2>1. PICK S : S = {k \in (i + 1)..n : ~(t[i] < t[k])}
      OBVIOUS
    <2>2. S \in SUBSET Nat /\ j \in S
      BY <1>5, <2>1
    <2>3. PICK k \in S : \A m \in S : k <= m
      BY <2>2, LeastNatural
    <2>4. k \in 2..n /\ k - 1 \in 1..n /\ t[k - 1] < t[k] /\ ~(t[i] < t[k])
      BY <1>4, <1>5, <2>1, <2>3
    <2>5. CASE k = i + 1
      BY <2>4, <2>5, <1>5
    <2>6. CASE k # i + 1
      <3>1. k - 1 \in (i + 1)..n /\ k - 1 \notin S
        BY <1>5, <2>1, <2>2, <2>3, <2>6
      <3>2. t[i] < t[k - 1]
        BY <2>1, <3>1
      <3> QED
        BY <1>3, <1>5, <2>4, <3>2
    <2> QED
      BY <2>5, <2>6
  <1> QED
    BY <1>2, <1>5, <1>6

\* Of times in order no two are equal.
TimesAt(file, S) == {file.rows[i].t : i \in S}
LEMMA OrderedTimesAre ==
    ASSUME NEW file, IsOrdered(file), NEW S \in SUBSET Timed(file)
    PROVE  IsFiniteSet(S) /\ Cardinality(TimesAt(file, S)) = Cardinality(S)
  <1>1. PICK n \in Nat : DOMAIN file.rows = 1..n
    BY DEF IsOrdered, IsFile
  <1>2. PICK T : T = TimesAt(file, S)
    OBVIOUS
  <1>3. IsFiniteSet(S)
    <2>1. 1 \in Int /\ n \in Int /\ S \in SUBSET (1..n)
      BY <1>1 DEF Timed
    <2>2. IsFiniteSet(1..n)
      BY <2>1, FS_Interval
    <2> QED
      BY <2>1, <2>2, FS_Subset
  <1>4. PICK g : g = [i \in S |-> file.rows[i].t]
    OBVIOUS
  <1>5. g \in Surjection(S, T)
    BY <1>2, <1>4 DEF Surjection, TimesAt
  <1>6. \A i \in S : i \in DOMAIN file.rows /\ i \in Int
    BY <1>1 DEF Timed
  <1>7. \A i \in S : g[i] \in Int
    <2>1. TimesOf(file) \in SUBSET Int
      BY TimesAre DEF IsOrdered
    <2>2. \A i \in S : file.rows[i].t \in TimesOf(file)
      BY DEF TimesOf
    <2> QED
      BY <1>4, <2>1, <2>2
  <1>8. ASSUME NEW i \in S, NEW j \in S, g[i] = g[j] PROVE i = j
    <2>1. CASE i < j
      BY <1>4, <1>6, <1>7, <1>8, <2>1, TimesGrow
    <2>2. CASE j < i
      BY <1>4, <1>6, <1>7, <1>8, <2>2, TimesGrow
    <2> QED
      BY <1>6, <2>1, <2>2
  <1>9. g \in Injection(S, T)
    BY <1>5, <1>8 DEF Surjection, Injection, IsInjective
  <1> QED
    BY <1>2, <1>3, <1>5, <1>9, FS_Surjection

LEMMA TotalIs ==
    ASSUME NEW bars, IsOrdered(bars), NEW funding
    PROVE  ScaffoldOf(bars, funding).total = Cardinality(TimesOf(bars))
  <1>1. PICK S : S = Timed(bars)
    OBVIOUS
  <1>2. Cardinality(S) = Cardinality(TimesOf(bars))
    <2>1. TimesAt(bars, S) = TimesOf(bars)
      BY <1>1 DEF TimesAt, TimesOf
    <2> QED
      BY <1>1, <2>1, OrderedTimesAre
  <1>3. S = {i \in DOMAIN bars.rows : bars.rows[i].t # Blank}
    BY <1>1 DEF IsOrdered, Timed
  <1>4. Cardinality(S) \in Nat
    <2>1. PICK n \in Nat : DOMAIN bars.rows = 1..n
      BY DEF IsOrdered, IsFile
    <2>2. 1 \in Int /\ n \in Int /\ S \in SUBSET (1..n)
      BY <1>3, <2>1
    <2>3. IsFiniteSet(1..n)
      BY <2>2, FS_Interval
    <2>4. IsFiniteSet(S)
      BY <2>2, <2>3, FS_Subset
    <2> QED
      BY <2>4, FS_CardinalityType
  <1>5. DOMAIN TimedRows(bars) = 1..Cardinality(S)
    BY <1>3 DEF TimedRows
  <1>6. DOMAIN JoinedRows(bars, funding) = 1..Cardinality(S)
    BY <1>5 DEF JoinedRows
  <1>7. Len(JoinedRows(bars, funding)) = Cardinality(S)
    BY <1>4, <1>6
  <1>8. ScaffoldOf(bars, funding).total = Len(JoinedRows(bars, funding))
    BY DEF ScaffoldOf
  <1> QED
    BY <1>2, <1>7, <1>8

FloorsOf(times) == {FloorToSecond(t) : t \in times}

LEMMA CanonicalFloors == \A times : CanonicalTimes("floor", times) = FloorsOf(times)
  <1>1. \A t : Canonical("floor", t) = FloorToSecond(t)
    BY DEF Canonical, FloorToSecond
  <1> QED
    BY <1>1 DEF CanonicalTimes, FloorsOf

LEMMA FloorsAreFinite ==
    ASSUME NEW times \in SUBSET Int, IsFiniteSet(times)
    PROVE  FloorsOf(times) \in SUBSET Int /\ IsFiniteSet(FloorsOf(times))
  <1>1. PICK f : f = [t \in times |-> FloorToSecond(t)]
    OBVIOUS
  <1>2. IsFiniteSet({f[t] : t \in times})
    BY FiniteImage
  <1>3. FloorsOf(times) = {f[t] : t \in times}
    BY <1>1 DEF FloorsOf
  <1>4. \A t \in times : FloorToSecond(t) \in Int
    BY FloorIs
  <1> QED
    BY <1>2, <1>3, <1>4 DEF FloorsOf

\* Two times are not floored to the same second if no collision is counted.
LEMMA NoCollisions ==
    ASSUME NEW times \in SUBSET Int, IsFiniteSet(times), Cardinality(Collisions("floor", times)) = 0,
           NEW t \in times, NEW u \in times, FloorToSecond(t) = FloorToSecond(u)
    PROVE  t = u
  <1> SUFFICES ASSUME t # u PROVE FALSE
    OBVIOUS
  <1>1. \A x : Canonical("floor", x) = FloorToSecond(x)
    BY DEF Canonical, FloorToSecond
  <1>2. PICK c : c = FloorToSecond(t)
    OBVIOUS
  <1>3. PICK same : same = {x \in times : Canonical("floor", x) = c}
    OBVIOUS
  <1>4. IsFiniteSet(same) /\ t \in same /\ u \in same
    BY <1>1, <1>2, <1>3, FS_Subset
  <1>5. Cardinality(same) > 1
    <2>1. IsFiniteSet({t}) /\ Cardinality({t}) = 1
      BY FS_Singleton
    <2>2. PICK two : two = {t} \cup {u}
      OBVIOUS
    <2>3. IsFiniteSet(two) /\ Cardinality(two) = 2
      <3>1. PICK one : one = {t}
        OBVIOUS
      <3>2. IsFiniteSet(one) /\ Cardinality(one) = 1 /\ u \notin one /\ two = one \cup {u}
        BY <2>1, <2>2, <3>1
      <3> QED
        BY <3>2, FS_AddElement
    <2>4. two \in SUBSET same
      BY <1>4, <2>2
    <2>5. Cardinality(two) <= Cardinality(same)
      BY <1>4, <2>4, FS_Subset
    <2>6. Cardinality(same) \in Nat
      BY <1>4, FS_CardinalityType
    <2> QED
      BY <2>3, <2>5, <2>6
  <1>6. c \in CanonicalTimes("floor", times)
    BY <1>1, <1>2 DEF CanonicalTimes
  <1>7. c \in Collisions("floor", times)
    BY <1>3, <1>5, <1>6 DEF Collisions
  <1>8. IsFiniteSet(Collisions("floor", times))
    <2>1. IsFiniteSet(CanonicalTimes("floor", times))
      BY CanonicalFloors, FloorsAreFinite
    <2>2. Collisions("floor", times) \in SUBSET CanonicalTimes("floor", times)
      BY DEF Collisions
    <2> QED
      BY <2>1, <2>2, FS_Subset
  <1> QED
    BY <1>7, <1>8, FS_EmptySet

\* A window about which the gate has nothing to say has the same seconds on both
\* sides.
LEMMA SplitAgrees ==
    ASSUME NEW bars \in SUBSET Int, IsFiniteSet(bars), NEW funding \in SUBSET Int, IsFiniteSet(funding),
           SplitReadiness(PolicyEvidence("floor", bars, funding)) = {}
    PROVE  FloorsOf(bars) = FloorsOf(funding)
  <1>1. PICK left, right : left = FloorsOf(bars) /\ right = FloorsOf(funding)
    OBVIOUS
  <1>2. IsFiniteSet(left) /\ IsFiniteSet(right)
    BY <1>1, FloorsAreFinite
  <1>3. PICK e : e = PolicyEvidence("floor", bars, funding)
    OBVIOUS
  <1>4. /\ e.bars = Cardinality(left) /\ e.funding = Cardinality(right)
        /\ e.status = MatchStatus(left, right)
    BY <1>1, <1>3, CanonicalFloors DEF PolicyEvidence
  <1>5. CASE e.bars = 0 /\ e.funding = 0
    <2>1. left = {} /\ right = {}
      BY <1>2, <1>4, <1>5, FS_EmptySet
    <2> QED
      BY <1>1, <2>1
  <1>6. CASE ~(e.bars = 0 /\ e.funding = 0)
    <2>1. ReadinessReasons(e) = {}
      BY <1>3, <1>6 DEF SplitReadiness
    <2>2. e.status \notin {"partial", "none", "empty"}
      BY <2>1 DEF ReadinessReasons
    <2> QED
      BY <1>1, <1>4, <2>2 DEF MatchStatus
  <1> QED
    BY <1>5, <1>6

-----------------------------------------------------------------------------
(* Bars and funding that the readiness gate found clean are joined.           *)

Pairs(bars, funding) ==
    {pair \in bars \X funding : FloorToSecond(pair[1]) = FloorToSecond(pair[2])}
\* Every bar has one funding in its second and every funding a bar, the two are in
\* the same windows, and as many rows were made of them as there are bars.
AreJoined(bars, funding, windows, total) ==
    /\ \A b \in bars : Cardinality({pair \in Pairs(bars, funding) : pair[1] = b}) = 1
    /\ \A f \in funding : \E pair \in Pairs(bars, funding) : pair[2] = f
    /\ \A pair \in Pairs(bars, funding), k \in DOMAIN windows, part \in Parts :
          InWindow(pair[1], windows[k], part) <=> InWindow(pair[2], windows[k], part)
    /\ total = Cardinality(bars)

LEMMA PairIs ==
    ASSUME NEW A, NEW B, NEW pair \in A \X B
    PROVE  pair[1] \in A /\ pair[2] \in B /\ pair = <<pair[1], pair[2]>>
  OBVIOUS

\* What the gate says of a symbol it found clean.
LEMMA CleanIs ==
    ASSUME NEW bars \in SUBSET Int, IsFiniteSet(bars), NEW funding \in SUBSET Int, IsFiniteSet(funding),
           NEW windows, EligibleIsClean(CanonicalizationOf(bars, funding, windows))
    PROVE  /\ FloorsOf(bars) = FloorsOf(funding)
           /\ Cardinality(Collisions("floor", funding)) = 0
           /\ bars # {} /\ FloorsOf(funding) # {} /\ ~(Max(FloorsOf(funding)) < Max(bars))
           /\ \A k \in DOMAIN windows, part \in Parts :
                 FloorsOf(Within(bars, windows[k], part)) = FloorsOf(Within(funding, windows[k], part))
  <1>1. PICK canon : canon = CanonicalizationOf(bars, funding, windows)
    OBVIOUS
  <1>2. Policies[1] = "floor" /\ DOMAIN Policies = 1..3
    BY DEF Policies
  <1>3. Floor(canon.policies) = PolicyEvidence("floor", bars, funding)
    BY <1>1, <1>2 DEF CanonicalizationOf, EvidenceByPolicy, Floor
  <1>4. Floor(canon.flags.ranges) = RangeStatus(bars, CanonicalTimes("floor", funding))
    BY <1>1, <1>2 DEF CanonicalizationOf, StructuralFlags, Floor
  <1>5. PICK e : e = PolicyEvidence("floor", bars, funding)
    OBVIOUS
  <1>6. e.status = "exact" /\ e.collisions = 0
    BY <1>1, <1>3, <1>5 DEF EligibleIsClean, EvidenceIsClean
  <1>7. FloorsOf(bars) = FloorsOf(funding)
    <2>1. e.status = MatchStatus(FloorsOf(bars), FloorsOf(funding))
      BY <1>5, CanonicalFloors DEF PolicyEvidence
    <2> QED
      BY <1>6, <2>1 DEF MatchStatus
  <1>8. Cardinality(Collisions("floor", funding)) = 0
    BY <1>5, <1>6 DEF PolicyEvidence
  <1>9. bars # {} /\ FloorsOf(funding) # {} /\ ~(Max(FloorsOf(funding)) < Max(bars))
    <2>1. RangeStatus(bars, FloorsOf(funding)) = "matching"
      BY <1>1, <1>4, CanonicalFloors DEF EligibleIsClean
    <2> QED
      BY <2>1 DEF RangeStatus
  <1>10. ASSUME NEW k \in DOMAIN windows, NEW part \in Parts
         PROVE  FloorsOf(Within(bars, windows[k], part)) = FloorsOf(Within(funding, windows[k], part))
    <2>1. PICK b, f : b = Within(bars, windows[k], part) /\ f = Within(funding, windows[k], part)
      OBVIOUS
    <2>2. /\ b \in SUBSET Int /\ IsFiniteSet(b) /\ b \in SUBSET bars
          /\ f \in SUBSET Int /\ IsFiniteSet(f) /\ f \in SUBSET funding
      <3>1. b \in SUBSET bars /\ f \in SUBSET funding
        BY <2>1 DEF Within
      <3> QED
        BY <3>1, FS_Subset
    <2>3. DOMAIN canon.windows = DOMAIN windows
      BY <1>1 DEF CanonicalizationOf
    <2>4. canon.windows[k][part] = EvidenceByPolicy(b, f)
      BY <1>1, <2>1 DEF CanonicalizationOf
    <2>5. Floor(canon.windows[k][part]) = PolicyEvidence("floor", b, f)
      BY <1>2, <2>4 DEF EvidenceByPolicy, Floor
    <2>6. SplitReasons(canon) = {}
      BY <1>1 DEF EligibleIsClean
    <2>7. SplitReadiness(Floor(canon.windows[k][part])) \subseteq SplitReasons(canon)
      BY <2>3 DEF SplitReasons
    <2>8. SplitReadiness(PolicyEvidence("floor", b, f)) = {}
      BY <2>5, <2>6, <2>7
    <2> QED
      BY <2>1, <2>2, <2>8, SplitAgrees
  <1> QED
    BY <1>7, <1>8, <1>9, <1>10

\* A whole second is not before a time if it is not before the second of it.
LEMMA BeforeASecond ==
    ASSUME NEW t \in Int, NEW s \in Int, FloorToSecond(s) = s
    PROVE  /\ s <= t <=> s <= FloorToSecond(t)
           /\ t < s <=> FloorToSecond(t) < s
  <1>1. FloorToSecond(t) \in Int /\ FloorToSecond(t) <= t
    BY FloorIs
  <1>2. s <= t => s <= FloorToSecond(t)
    BY FloorGrows
  <1> QED
    BY <1>1, <1>2

LEMMA BoundariesAreWhole ==
    ASSUME NEW low \in Int, NEW high \in Int, NEW i \in Int
    PROVE  FloorToSecond(Boundary(low, high, i)) = Boundary(low, high, i)
  <1>1. SplitCount \in Int /\ SplitCount > 0
    BY NumbersAssumption
  <1>2. PICK a \in Int : a = i * (high - low)
    OBVIOUS
  <1>3. PICK c \in Int : c = a \div SplitCount
    BY <1>1, DivisionIs
  <1>4. low + c \in Int
    OBVIOUS
  <1>5. Boundary(low, high, i) = FloorToSecond(low + c)
    BY <1>2, <1>3 DEF Boundary
  <1> QED
    BY <1>4, <1>5, FloorIs

LEMMA CleanIsJoined ==
    ASSUME NEW low \in Int, NEW high \in Int, low <= high, FloorToSecond(high) = high,
           NEW windows, windows = WindowsBetween(low, high),
           NEW bars \in SUBSET Int, IsFiniteSet(bars), NEW funding \in SUBSET Int, IsFiniteSet(funding),
           \A t \in bars \cup funding : FloorToSecond(t) <= high,
           EligibleIsClean(CanonicalizationOf(bars, funding, windows))
    PROVE  AreJoined(bars, funding, windows, Cardinality(bars))
  <1>1. /\ FloorsOf(bars) = FloorsOf(funding)
        /\ Cardinality(Collisions("floor", funding)) = 0
        /\ bars # {} /\ FloorsOf(funding) # {} /\ ~(Max(FloorsOf(funding)) < Max(bars))
        /\ \A k \in DOMAIN windows, part \in Parts :
              FloorsOf(Within(bars, windows[k], part)) = FloorsOf(Within(funding, windows[k], part))
    BY CleanIs
  <1>2. \A f, g \in funding : FloorToSecond(f) = FloorToSecond(g) => f = g
    BY <1>1, NoCollisions
  <1>3. \A b \in bars : \E f \in funding : FloorToSecond(b) = FloorToSecond(f)
    BY <1>1 DEF FloorsOf
  <1>4. \A f \in funding : \E b \in bars : FloorToSecond(b) = FloorToSecond(f)
    BY <1>1 DEF FloorsOf
  <1>5. ASSUME NEW b \in bars
        PROVE  Cardinality({pair \in Pairs(bars, funding) : pair[1] = b}) = 1
    <2>1. PICK f \in funding : FloorToSecond(b) = FloorToSecond(f)
      BY <1>3
    <2>2. <<b, f>> \in Pairs(bars, funding)
      BY <2>1 DEF Pairs
    <2>3. ASSUME NEW pair \in Pairs(bars, funding), pair[1] = b PROVE pair = <<b, f>>
      <3>0. pair \in bars \X funding /\ FloorToSecond(pair[1]) = FloorToSecond(pair[2])
        BY DEF Pairs
      <3>1. pair[1] \in bars /\ pair[2] \in funding /\ pair = <<pair[1], pair[2]>>
        BY <3>0, PairIs, Zenon
      <3>2. PICK g \in funding : g = pair[2] /\ FloorToSecond(g) = FloorToSecond(b)
        BY <2>3, <3>0, <3>1
      <3>3. g = f
        BY <1>2, <2>1, <3>2
      <3> QED
        BY <2>3, <3>1, <3>2, <3>3
    <2>4. {pair \in Pairs(bars, funding) : pair[1] = b} = {<<b, f>>}
      BY <2>2, <2>3
    <2> QED
      BY <2>4, FS_Singleton
  <1>6. ASSUME NEW f \in funding PROVE \E pair \in Pairs(bars, funding) : pair[2] = f
    <2>1. PICK b \in bars : FloorToSecond(b) = FloorToSecond(f)
      BY <1>4
    <2>2. <<b, f>> \in Pairs(bars, funding)
      BY <2>1 DEF Pairs
    <2> QED
      BY <2>2
  <1>7. \A b \in bars : b <= high
    <2>1. PICK right : right = FloorsOf(funding) /\ right \in SUBSET Int /\ IsFiniteSet(right) /\ right # {}
      BY <1>1, FloorsAreFinite
    <2>2. Max(right) \in right /\ Max(right) <= high
      <3>1. Max(right) \in right
        BY <2>1, MinAndMaxAre
      <3> QED
        BY <2>1, <3>1 DEF FloorsOf
    <2>3. Max(bars) \in bars /\ \A b \in bars : b <= Max(bars)
      BY <1>1, MinAndMaxAre
    <2>4. PICK m \in Int, n \in Int : m = Max(right) /\ n = Max(bars)
      BY <2>1, <2>2, <2>3
    <2>5. ~(m < n) /\ m <= high
      BY <1>1, <2>1, <2>2, <2>4
    <2>6. \A b \in bars : b <= n
      BY <2>3, <2>4
    <2>7. \A b \in bars : b \in Int
      OBVIOUS
    <2> QED
      BY <2>5, <2>6, <2>7
  <1>8. ASSUME NEW b \in bars, NEW f \in funding, FloorToSecond(b) = FloorToSecond(f),
               NEW k \in DOMAIN windows, NEW part \in Parts
        PROVE  InWindow(b, windows[k], part) <=> InWindow(f, windows[k], part)
    <2>1. SplitCount \in Nat \ {0} /\ k \in 1..SplitCount
      BY NumbersAssumption DEF WindowsBetween
    <2>2. PICK w : w = windows[k]
      OBVIOUS
    <2>3. PICK from \in Int, to \in Int :
              /\ w[part].from = from /\ w[part].to = to
              /\ FloorToSecond(from) = from /\ FloorToSecond(to) = to
      <3>1. 0 \in Int /\ k - 1 \in Int /\ k \in Int
        BY <2>1
      <3>2. \A i \in {0, k - 1, k} : /\ Boundary(low, high, i) \in Int
                                    /\ FloorToSecond(Boundary(low, high, i)) = Boundary(low, high, i)
        BY <3>1, BoundaryIsAnInteger, BoundariesAreWhole, ZenonT(30)
      <3>3. /\ w.train.from = Boundary(low, high, 0) /\ w.train.to = Boundary(low, high, k - 1)
            /\ w.validation.from = Boundary(low, high, k - 1) /\ w.validation.to = Boundary(low, high, k)
        BY <2>1, <2>2, WindowsAre
      <3>4. part = "train" \/ part = "validation"
        BY DEF Parts
      <3> QED
        BY <3>2, <3>3, <3>4
    <2>4. PICK s \in Int : s = FloorToSecond(b) /\ s = FloorToSecond(f)
      BY <1>8, FloorIs
    <2>5. /\ (from <= b <=> from <= s) /\ (b < to <=> s < to)
          /\ (from <= f <=> from <= s) /\ (f < to <=> s < to)
      <3>1. b \in Int /\ f \in Int /\ FloorToSecond(from) = from /\ FloorToSecond(to) = to
        BY <2>3
      <3>2. (from <= b <=> from <= FloorToSecond(b)) /\ (b < to <=> FloorToSecond(b) < to)
        BY <3>1, BeforeASecond
      <3>3. (from <= f <=> from <= FloorToSecond(f)) /\ (f < to <=> FloorToSecond(f) < to)
        BY <3>1, BeforeASecond
      <3> QED
        BY <2>4, <3>2, <3>3
    <2>6. CASE s < to
      BY <2>2, <2>3, <2>5, <2>6 DEF InWindow
    <2>7. CASE ~(s < to) /\ ~(part = "validation" /\ w.last)
      BY <2>2, <2>3, <2>5, <2>7 DEF InWindow
    <2>8. CASE ~(s < to) /\ part = "validation" /\ w.last
      <3>1. k = SplitCount
        BY <2>1, <2>2, <2>8, WindowsAre
      <3>2. to = high
        <4>1. w.validation.to = Boundary(low, high, SplitCount)
          BY <2>1, <2>2, <3>1, WindowsAre
        <4> QED
          BY <2>3, <2>8, <4>1, FirstAndLastBoundary
      <3>3. s <= high /\ b \in Int /\ f \in Int
        BY <2>4
      <3>4. s = to /\ b = to
        <4>1. s <= b
          BY <2>4, <3>3, FloorIs
        <4> QED
          BY <1>7, <2>8, <3>2, <3>3, <4>1
      <3>5. from <= to
        <4>1. w.validation.from = Boundary(low, high, k - 1) /\ w.validation.to = Boundary(low, high, k)
          BY <2>1, <2>2, WindowsAre
        <4>2. k - 1 \in Int /\ k \in Int /\ k - 1 <= k
          BY <2>1
        <4>3. Boundary(low, high, k - 1) <= Boundary(low, high, k)
          BY <4>2, BoundariesGrow
        <4> QED
          BY <2>3, <2>8, <4>1, <4>3
      <3>6. InWindow(b, w, part)
        BY <2>3, <2>8, <3>4, <3>5 DEF InWindow
      <3>7. FloorsOf(Within(bars, w, part)) = FloorsOf(Within(funding, w, part))
        BY <1>1, <2>2
      <3>8. s \in FloorsOf(Within(bars, w, part))
        BY <2>4, <3>6 DEF FloorsOf, Within
      <3>9. PICK g \in Within(funding, w, part) : FloorToSecond(g) = s
        BY <3>7, <3>8 DEF FloorsOf
      <3>10. g \in funding /\ InWindow(g, w, part)
        BY DEF Within
      <3>11. g = f
        BY <1>2, <2>4, <3>9, <3>10
      <3> QED
        BY <2>2, <3>6, <3>10, <3>11
    <2> QED
      BY <2>6, <2>7, <2>8
  <1>9. \A pair \in Pairs(bars, funding) :
            pair[1] \in bars /\ pair[2] \in funding /\ FloorToSecond(pair[1]) = FloorToSecond(pair[2])
    BY DEF Pairs
  <1>10. ASSUME NEW pair \in Pairs(bars, funding), NEW k \in DOMAIN windows, NEW part \in Parts
         PROVE  InWindow(pair[1], windows[k], part) <=> InWindow(pair[2], windows[k], part)
    BY <1>8, <1>9, ZenonT(30)
  <1> QED
    BY <1>5, <1>6, <1>10 DEF AreJoined

-----------------------------------------------------------------------------
(* What a run that was not torn knows of the symbols it found eligible.       *)

\* The files of the inventory were found in order, and the verdict is of them.
IsReady(inventory, windows, readiness, canon) ==
    /\ DOMAIN inventory = Roles /\ Eligible(readiness) \subseteq Symbols
    /\ canon = Canonicalization(windows, Surveyed(inventory))
    /\ \A role \in Roles, s \in Symbols : IsOrdered(Surveyed(inventory)[role][s])
AreAllJoined(inventory, windows, readiness, scaffold) ==
    \A s \in Eligible(readiness) :
        AreJoined(TimesOf(inventory["bars"][s].sha), TimesOf(inventory["funding"][s].sha),
                  windows, scaffold.eligible[s].total)
Joining == {"joinability", "convention", "canonicalization", "scaffold"}
Scaffolded == {"leakage"} \cup Leaked
ReachedOK ==
    /\ run.pc \in {"inventory", "rows", "adjustments"} => "alignment" \notin DOMAIN run.doc
    /\ run.pc \in {"rows", "adjustments"} \cup Joining => DOMAIN run.inventory # {}
    /\ run.pc \in Joining => WithFunding
VerdictOK ==
    run.pc = "scaffold" =>
        /\ "readiness" \in DOMAIN run.doc /\ "canonicalization" \in DOMAIN run.doc
        /\ ~run.torn =>
              IsReady(run.inventory, run.windows, run.doc["readiness"], run.doc["canonicalization"])
        /\ \A h \in run.hashed : HashesOfEligible(run.doc["readiness"], run.inventory, h)
JoinedDoc(doc) ==
    "alignment" \in DOMAIN doc =>
        /\ "readiness" \in DOMAIN doc /\ "scaffold" \in DOMAIN doc
        /\ ~doc["torn"] =>
              AreAllJoined(doc["inventory"], doc["windows"], doc["readiness"], doc["scaffold"])
JoinedOK ==
    run.pc \in Scaffolded /\ "alignment" \in DOMAIN run.doc =>
        /\ "readiness" \in DOMAIN run.doc /\ "scaffold" \in DOMAIN run.doc
        /\ ~run.torn =>
              AreAllJoined(run.inventory, run.windows, run.doc["readiness"], run.doc["scaffold"])
JoinInv == ReachedOK /\ VerdictOK /\ JoinedOK /\ \A doc \in Docs : JoinedDoc(doc)

\* A scaffold of the files of the inventory, for symbols the gate found clean.
LEMMA ReadyIsJoined ==
    ASSUME NEW inventory, NEW windows, NEW readiness, NEW canon, NEW opened,
           IsSurvey(Surveyed(inventory), inventory, windows),
           IsReady(inventory, windows, readiness, canon), ScaffoldTakes(readiness, canon),
           HashesOfEligible(readiness, inventory, opened)
    PROVE  AreAllJoined(inventory, windows, readiness, Scaffold(readiness, opened))
  <1> SUFFICES ASSUME NEW s \in Eligible(readiness)
               PROVE  AreJoined(TimesOf(inventory["bars"][s].sha), TimesOf(inventory["funding"][s].sha),
                                windows, Scaffold(readiness, opened).eligible[s].total)
    BY DEF AreAllJoined
  <1>1. s \in Symbols /\ DOMAIN inventory = Roles
    BY DEF IsReady
  <1>2. "bars" \in Roles /\ "funding" \in Roles
    BY DEF Roles
  <1>3. PICK left, right : left = inventory["bars"][s].sha /\ right = inventory["funding"][s].sha
    OBVIOUS
  <1>4. Surveyed(inventory)["bars"][s] = left /\ Surveyed(inventory)["funding"][s] = right
    BY <1>1, <1>2, <1>3 DEF Surveyed
  <1>5. DOMAIN Surveyed(inventory) = Roles /\ DOMAIN Surveyed(inventory)["bars"] = Symbols
    BY <1>1, <1>2 DEF Surveyed
  <1>6. IsOrdered(left) /\ IsOrdered(right)
    BY <1>1, <1>2, <1>4 DEF IsReady
  <1>7. PICK bars, funding : bars = TimesOf(left) /\ funding = TimesOf(right)
    OBVIOUS
  <1>8. /\ bars \in SUBSET Int /\ IsFiniteSet(bars)
        /\ funding \in SUBSET Int /\ IsFiniteSet(funding)
    BY <1>6, <1>7, TimesAre DEF IsOrdered
  <1>9. canon[s] = CanonicalizationOf(bars, funding, windows)
    BY <1>1, <1>4, <1>5, <1>7 DEF IsReady, Canonicalization
  <1>10. EligibleIsClean(CanonicalizationOf(bars, funding, windows))
    BY <1>9 DEF ScaffoldTakes
  <1>11. PICK low \in Int, high \in Int :
             /\ low <= high /\ windows = WindowsBetween(low, high) /\ FloorToSecond(high) = high
             /\ \A role \in Roles : \A y \in Symbols : \A t \in TimesOf(Surveyed(inventory)[role][y]) :
                   FloorToSecond(t) <= high
    BY <1>5, SurveyHasBounds
  <1>12. \A t \in bars \cup funding : FloorToSecond(t) <= high
    BY <1>1, <1>2, <1>4, <1>7, <1>11
  <1>13. AreJoined(bars, funding, windows, Cardinality(bars))
    BY <1>8, <1>10, <1>11, <1>12, CleanIsJoined
  <1>14. opened["bars"][s] = left /\ opened["funding"][s] = right
    BY <1>2, <1>3 DEF HashesOfEligible
  <1>15. Scaffold(readiness, opened).eligible[s] = ScaffoldOf(left, right)
    BY <1>14 DEF Scaffold
  <1>16. ScaffoldOf(left, right).total = Cardinality(bars)
    BY <1>6, <1>7, TotalIs
  <1> QED
    BY <1>3, <1>7, <1>13, <1>15, <1>16

\* Files that load as the inventory has them are the files of the inventory, and
\* in order.
LEMMA LoadedIsReady ==
    ASSUME NEW inventory, DOMAIN inventory = Roles, NEW windows, NEW opened,
           opened = [role \in Roles |-> [y \in Symbols |-> opened[role][y]]],
           AreFiles(opened), \A role \in Roles : DOMAIN inventory[role] = Symbols,
           Loads(inventory, opened, opened),
           NEW aligned, NEW joinability, NEW convention
    PROVE  IsReady(inventory, windows,
                   Readiness(aligned, joinability, convention, Canonicalization(windows, opened)),
                   Canonicalization(windows, opened))
  <1>1. \A role \in Roles : \A s \in Symbols : inventory[role][s].sha = opened[role][s]
    BY DEF Loads, Unchanged
  <1>2. Surveyed(inventory) = [role \in Roles |-> [y \in Symbols |-> inventory[role][y].sha]]
    BY DEF Surveyed
  <1>3. [role \in Roles |-> [y \in Symbols |-> inventory[role][y].sha]]
            = [role \in Roles |-> [y \in Symbols |-> opened[role][y]]]
    BY <1>1
  <1>4. Surveyed(inventory) = opened
    BY <1>2, <1>3
  <1>5. \A role \in Roles, s \in Symbols : IsOrdered(opened[role][s])
    <2> SUFFICES ASSUME NEW role \in Roles, NEW s \in Symbols PROVE IsOrdered(opened[role][s])
      OBVIOUS
    <2>1. IsFile(opened[role][s])
      BY DEF AreFiles
    <2>2. LoadsFile(inventory[role][s], opened[role][s])
      BY DEF Loads
    <2> QED
      BY <2>1, <2>2 DEF LoadsFile, IsOrdered
  <1>6. PICK canon : canon = Canonicalization(windows, opened)
    OBVIOUS
  <1>7. DOMAIN canon = Symbols
    <2>1. "bars" \in Roles
      BY DEF Roles
    <2>2. DOMAIN opened["bars"] = Symbols
      BY <2>1
    <2> QED
      BY <1>6, <2>2 DEF Canonicalization
  <1>8. Eligible(Readiness(aligned, joinability, convention, canon)) \subseteq DOMAIN canon
    BY DEF Eligible, Readiness
  <1> QED
    BY <1>4, <1>5, <1>6, <1>7, <1>8 DEF IsReady

LEMMA JoinStops ==
    ASSUME JoinInv, NEW code, run' = [NoRun EXCEPT !.exit = code], receipt' = receipt
    PROVE  JoinInv'
  <1>1. run'.pc = "idle"
    BY DEF NoRun
  <1>2. Docs' = Docs
    BY DEF Docs
  <1>3. ReachedOK' /\ VerdictOK' /\ JoinedOK'
    BY <1>1 DEF ReachedOK, VerdictOK, JoinedOK, Joining, Scaffolded, Leaked, Late
  <1> QED
    BY <1>2, <1>3 DEF JoinInv

LEMMA JoinBegins == Init => JoinInv
  <1> SUFFICES ASSUME Init PROVE JoinInv
    OBVIOUS
  <1>1. run.pc = "idle"
    BY DEF Init, NoRun
  <1>2. ReachedOK /\ VerdictOK /\ JoinedOK
    BY <1>1 DEF ReachedOK, VerdictOK, JoinedOK, Joining, Scaffolded, Leaked, Late
  <1>3. Docs = {}
    BY DEF Docs, Init
  <1> QED
    BY <1>2, <1>3 DEF JoinInv

LEMMA OthersKeepTheJoins ==
    ASSUME JoinInv, Refresh \/ Amend \/ Refreeze \/ Rebind \/ UNCHANGED vars
    PROVE  JoinInv'
  <1>1. run' = run /\ receipt' = receipt
    BY DEF Refresh, Amend, Refreeze, Rebind, Write, vars
  <1>2. Docs' = Docs /\ WithFunding' = WithFunding
    BY <1>1 DEF Docs, WithFunding, Args
  <1>3. ReachedOK' /\ VerdictOK' /\ JoinedOK'
    BY <1>1, <1>2 DEF JoinInv, ReachedOK, VerdictOK, JoinedOK
  <1> QED
    BY <1>2, <1>3 DEF JoinInv

LEMMA StartJoins == JoinInv /\ Start => JoinInv'
  <1> SUFFICES ASSUME JoinInv, Start PROVE JoinInv'
    OBVIOUS
  <1>1. receipt' = receipt
    BY DEF Start, files
  <1>2. PICK args \in Invocations :
            Refuse(args) \/ Undeclared(args) \/ FromDeclared(args) \/ FromData(args)
    BY DEF Start
  <1>3. CASE Refuse(args)
    BY <1>1, <1>3, JoinStops DEF Refuse
  <1>4. CASE Undeclared(args)
    BY <1>1, <1>4, JoinStops DEF Undeclared
  <1>5. ASSUME run'.pc \in {"packets", "inventory"}, "alignment" \notin DOMAIN run'.doc PROVE JoinInv'
    <2>1. ReachedOK' /\ VerdictOK' /\ JoinedOK'
      BY <1>5 DEF ReachedOK, VerdictOK, JoinedOK, Joining
    <2>2. Docs' = Docs
      BY <1>1 DEF Docs
    <2> QED
      BY <2>1, <2>2 DEF JoinInv
  <1>6. CASE FromDeclared(args)
    <2>1. PICK windows : run'.pc = "packets" /\ run'.doc = Entry("leakage", SplitLeakage(windows))
      BY <1>6 DEF FromDeclared, NoRun
    <2>2. "alignment" \notin DOMAIN run'.doc
      BY <2>1 DEF Entry
    <2> QED
      BY <1>5, <2>1, <2>2
  <1>7. CASE FromData(args)
    <2>1. run'.pc = "inventory" /\ "alignment" \notin DOMAIN run'.doc
      BY <1>7 DEF FromData, NoRun, NoSection
    <2> QED
      BY <1>5, <2>1
  <1> QED
    BY <1>2, <1>3, <1>4, <1>6, <1>7

LEMMA TakeHashesJoins == ChainInv /\ JoinInv /\ TakeHashes => JoinInv'
  <1> SUFFICES ASSUME ChainInv, JoinInv, TakeHashes PROVE JoinInv'
    OBVIOUS
  <1>1. receipt' = receipt
    BY DEF TakeHashes, files
  <1>2. CASE Failed
    BY <1>1, <1>2, JoinStops DEF Failed
  <1>3. CASE HashesHold(run.pc, Given) /\ run' = [run EXCEPT !.hashed = {Given}]
    <2>1. /\ run'.inventory = run.inventory /\ run'.windows = run.windows /\ run'.args = run.args
          /\ run'.torn = run.torn /\ run'.pc = run.pc /\ run'.doc = run.doc /\ run'.hashed = {Given}
      BY <1>3 DEF ChainInv, RunOK, Fields
    <2>2. Docs' = Docs /\ WithFunding' = WithFunding
      BY <1>1, <2>1 DEF Docs, WithFunding, Args
    <2>3. ReachedOK' /\ JoinedOK'
      BY <2>1, <2>2 DEF JoinInv, ReachedOK, JoinedOK
    <2>4. run.pc = "scaffold" => HashesOfEligible(run.doc["readiness"], run.inventory, Given)
      BY <1>3 DEF HashesHold
    <2>5. VerdictOK'
      BY <2>1, <2>4 DEF JoinInv, VerdictOK
    <2> QED
      BY <2>2, <2>3, <2>5 DEF JoinInv
  <1> QED
    BY <1>2, <1>3 DEF TakeHashes

LEMMA TakeInventoryJoins == ChainInv /\ JoinInv /\ TakeInventory => JoinInv'
  <1> SUFFICES ASSUME ChainInv, JoinInv, TakeInventory PROVE JoinInv'
    OBVIOUS
  <1>1. receipt' = receipt
    BY DEF TakeInventory, files
  <1>2. PICK hashed : hashed = CHOOSE h \in run.hashed : TRUE
    OBVIOUS
  <1>3. PICK inventory : inventory = Inventory(hashed, Given)
    OBVIOUS
  <1>4. CASE Failed
    BY <1>1, <1>4, JoinStops DEF Failed
  <1>5. CASE run' = [run EXCEPT !.pc = "rows", !.hashed = {}, !.inventory = inventory,
                       !.windows = Windows(inventory), !.torn = run.hashed # {Given}]
    <2>1. run'.pc = "rows" /\ run'.inventory = inventory /\ run'.doc = run.doc /\ run.pc = "inventory"
      BY <1>5 DEF TakeInventory, ChainInv, RunOK, Fields
    <2>2. DOMAIN inventory # {}
      BY <1>3 DEF Inventory, Given, DataRoles, Roles
    <2>3. ReachedOK' /\ VerdictOK' /\ JoinedOK'
      BY <2>1, <2>2 DEF JoinInv, ReachedOK, VerdictOK, JoinedOK, Joining, Scaffolded, Leaked, Late
    <2>4. Docs' = Docs
      BY <1>1 DEF Docs
    <2> QED
      BY <2>3, <2>4 DEF JoinInv
  <1> QED
    BY <1>2, <1>3, <1>4, <1>5 DEF TakeInventory

\* A pass that goes on to another before the verdict is in.
LEMMA OpensJoins ==
    ASSUME ChainInv, JoinInv, NEW pass \in {"rows", "adjustments"} \cup Joining, NEW reads,
           NEW next \in {"adjustments", "joinability", "convention", "canonicalization"},
           NEW sections, Opens(pass, reads, next, sections),
           next = "adjustments" => pass = "rows" /\ "alignment" \notin DOMAIN sections,
           next # "adjustments" => WithFunding
    PROVE  JoinInv'
  <1>1. receipt' = receipt /\ run.pc = pass
    BY DEF Opens, files
  <1>2. CASE Failed
    BY <1>1, <1>2, JoinStops DEF Failed
  <1>3. CASE run' = [run EXCEPT !.pc = next, !.hashed = {}, !.doc = Over(sections, run.doc),
                       !.torn = run.torn \/ run.hashed # {Given}]
    <2>1. /\ run'.inventory = run.inventory /\ run'.args = run.args /\ run'.pc = next
          /\ run'.doc = Over(sections, run.doc)
      BY <1>3 DEF ChainInv, RunOK, Fields
    <2>2. Docs' = Docs /\ WithFunding' = WithFunding
      BY <1>1, <2>1 DEF Docs, WithFunding, Args
    <2>3. next = "adjustments" => "alignment" \notin DOMAIN run'.doc
      BY <1>1, <2>1 DEF JoinInv, ReachedOK, Over
    <2>4. ReachedOK'
      BY <1>1, <2>1, <2>2, <2>3 DEF JoinInv, ReachedOK, Joining
    <2>5. VerdictOK' /\ JoinedOK'
      BY <2>1 DEF VerdictOK, JoinedOK, Scaffolded, Leaked, Late
    <2> QED
      BY <2>2, <2>4, <2>5 DEF JoinInv
  <1> QED
    BY <1>2, <1>3 DEF Opens

LEMMA PassesJoin ==
    ASSUME ChainInv, JoinInv, AssignRows \/ Adjust \/ DiagnoseJoinability \/ DiagnoseConvention
    PROVE  JoinInv'
  <1>1. CASE AssignRows
    <2>1. \A rows : "alignment" \notin DOMAIN Entry("rows", rows)
      BY DEF Entry
    <2> QED
      BY <1>1, <2>1, OpensJoins DEF AssignRows
  <1>2. CASE Adjust
    BY <1>2, OpensJoins DEF Adjust
  <1>3. CASE DiagnoseJoinability
    <2>1. WithFunding
      BY <1>3 DEF DiagnoseJoinability, JoinsAt, Opens, JoinInv, ReachedOK, Joining
    <2> QED
      BY <1>3, <2>1, OpensJoins DEF DiagnoseJoinability, JoinsAt, Joining
  <1>4. CASE DiagnoseConvention
    <2>1. WithFunding
      BY <1>4 DEF DiagnoseConvention, JoinsAt, Opens, JoinInv, ReachedOK, Joining
    <2> QED
      BY <1>4, <2>1, OpensJoins DEF DiagnoseConvention, JoinsAt, Joining
  <1> QED
    BY <1>1, <1>2, <1>3, <1>4

\* The verdict of an untorn pass is of the files of the inventory.
LEMMA CanonicalizeJoins == ChainInv /\ SurveyInv /\ JoinInv /\ Canonicalize => JoinInv'
  <1> SUFFICES ASSUME ChainInv, SurveyInv, JoinInv, Canonicalize PROVE JoinInv'
    OBVIOUS
  <1>1. PICK hashed, canon, readiness :
            /\ hashed = CHOOSE h \in run.hashed : TRUE
            /\ canon = Canonicalization(run.windows, Given)
            /\ readiness = Readiness(run.doc["alignment"], run.doc["joinability"],
                                     run.doc["convention"], canon)
    OBVIOUS
  <1>2. PICK sections : sections = [canonicalization |-> canon, readiness |-> readiness]
    OBVIOUS
  <1>3. Opens("canonicalization", Loads(run.inventory, hashed, Given), "scaffold", sections)
    BY <1>1, <1>2 DEF Canonicalize, JoinsAt
  <1>4. receipt' = receipt /\ run.pc = "canonicalization"
    BY <1>3 DEF Opens, files
  <1>5. WithFunding /\ DOMAIN run.inventory # {}
    BY <1>4 DEF JoinInv, ReachedOK, Joining
  <1>6. CASE Failed
    BY <1>4, <1>6, JoinStops DEF Failed
  <1>7. CASE /\ Loads(run.inventory, hashed, Given)
             /\ run' = [run EXCEPT !.pc = "scaffold", !.hashed = {}, !.doc = Over(sections, run.doc),
                          !.torn = run.torn \/ run.hashed # {Given}]
    <2>1. /\ run'.inventory = run.inventory /\ run'.windows = run.windows /\ run'.args = run.args
          /\ run'.pc = "scaffold" /\ run'.hashed = {}
          /\ run'.doc = Over(sections, run.doc) /\ run'.torn = (run.torn \/ run.hashed # {Given})
      BY <1>7 DEF ChainInv, RunOK, Fields
    <2>2. Docs' = Docs /\ WithFunding' = WithFunding
      BY <1>4, <2>1 DEF Docs, WithFunding, Args
    <2>3. /\ "readiness" \in DOMAIN run'.doc /\ run'.doc["readiness"] = readiness
          /\ "canonicalization" \in DOMAIN run'.doc /\ run'.doc["canonicalization"] = canon
      BY <1>2, <2>1 DEF Over
    <2>4. ASSUME ~run'.torn PROVE IsReady(run.inventory, run.windows, readiness, canon)
      <3>1. ~run.torn /\ hashed = Given
        <4>1. ~run.torn /\ run.hashed = {Given}
          BY <2>1, <2>4
        <4>2. (CHOOSE h \in run.hashed : TRUE) = Given
          BY <4>1
        <4> QED
          BY <1>1, <4>1, <4>2
      <3>2. DOMAIN run.inventory = Roles /\ DataRoles = Roles
        <4>1. DataRoles = Roles
          BY <1>5 DEF DataRoles
        <4> QED
          BY <1>5, <4>1 DEF SurveyInv, SurveyOK
      <3>3. IsSurvey(Surveyed(run.inventory), run.inventory, run.windows)
        BY <1>5, <3>1 DEF SurveyInv, SurveyOK, IsSurveyed
      <3>4. DOMAIN Surveyed(run.inventory) = Roles
        BY <3>2 DEF Surveyed
      <3>5. \A role \in Roles : DOMAIN run.inventory[role] = Symbols
        BY <3>3, <3>4, SurveyIs
      <3>6. PICK opened : opened = Given
        OBVIOUS
      <3>7. AreFiles(opened) /\ opened = [role \in Roles |-> [y \in Symbols |-> opened[role][y]]]
        <4>1. AreFiles(opened) /\ DOMAIN opened = Roles
          BY <3>2, <3>6, GivenAreFiles DEF SurveyInv
        <4>2. \A role \in Roles : opened[role] = [y \in Symbols |-> data[role][y]]
          BY <3>2, <3>6, GivenAreFiles DEF SurveyInv
        <4>3. opened = [role \in Roles |-> opened[role]]
          BY <3>2, <3>6 DEF Given
        <4> QED
          BY <4>1, <4>2, <4>3
      <3>8. Loads(run.inventory, opened, opened) /\ canon = Canonicalization(run.windows, opened)
        BY <1>1, <1>7, <3>1, <3>6
      <3> QED
        BY <1>1, <3>2, <3>5, <3>7, <3>8, LoadedIsReady
    <2>5. ReachedOK'
      BY <1>5, <2>1, <2>2 DEF ReachedOK
    <2>6. VerdictOK'
      BY <2>1, <2>3, <2>4 DEF VerdictOK
    <2>7. JoinedOK'
      BY <2>1 DEF JoinedOK, Scaffolded, Leaked, Late
    <2> QED
      BY <2>2, <2>5, <2>6, <2>7 DEF JoinInv
  <1> QED
    BY <1>3, <1>6, <1>7 DEF Opens

LEMMA BuildScaffoldJoins == ChainInv /\ SurveyInv /\ JoinInv /\ BuildScaffold => JoinInv'
  <1> SUFFICES ASSUME ChainInv, SurveyInv, JoinInv, BuildScaffold PROVE JoinInv'
    OBVIOUS
  <1>1. PICK readiness, canon : readiness = run.doc["readiness"] /\ canon = run.doc["canonicalization"]
    OBVIOUS
  <1>2. PICK scaffold : scaffold = Scaffold(readiness, Given)
    OBVIOUS
  <1>3. PICK sections : sections = [scaffold |-> scaffold, policy |-> PolicyContract(scaffold),
                                    aggregate |-> SampleAggregate(RowScaffold(scaffold))]
    OBVIOUS
  <1>4. receipt' = receipt /\ run.pc = "scaffold"
    BY DEF BuildScaffold, Opens, files
  <1>5. CASE Failed
    BY <1>4, <1>5, JoinStops DEF Failed
  <1>6. CASE /\ ScaffoldTakes(readiness, canon)
             /\ run.hashed # {}
             /\ run' = [run EXCEPT !.pc = "leakage", !.hashed = {}, !.doc = Over(sections, run.doc),
                          !.torn = run.torn \/ run.hashed # {Given}]
    <2>1. /\ run'.inventory = run.inventory /\ run'.windows = run.windows /\ run'.pc = "leakage"
          /\ run'.doc = Over(sections, run.doc) /\ run'.torn = (run.torn \/ run.hashed # {Given})
      BY <1>6 DEF ChainInv, RunOK, Fields
    <2>2. Docs' = Docs
      BY <1>4 DEF Docs
    <2>3. "readiness" \in DOMAIN run.doc
      BY <1>4 DEF JoinInv, VerdictOK
    <2>4. /\ "scaffold" \in DOMAIN run'.doc /\ run'.doc["scaffold"] = scaffold
          /\ "readiness" \in DOMAIN run'.doc /\ run'.doc["readiness"] = readiness
      BY <1>1, <1>3, <2>1, <2>3 DEF Over
    <2>5. ASSUME ~run'.torn PROVE AreAllJoined(run.inventory, run.windows, readiness, scaffold)
      <3>1. ~run.torn /\ Given \in run.hashed
        BY <1>6, <2>1, <2>5
      <3>2. /\ IsReady(run.inventory, run.windows, readiness, canon)
            /\ HashesOfEligible(readiness, run.inventory, Given)
        BY <1>1, <1>4, <3>1 DEF JoinInv, VerdictOK
      <3>3. DOMAIN run.inventory # {}
        BY <1>4 DEF JoinInv, ReachedOK, Joining
      <3>4. IsSurvey(Surveyed(run.inventory), run.inventory, run.windows)
        BY <3>1, <3>3 DEF SurveyInv, SurveyOK, IsSurveyed
      <3> QED
        BY <1>2, <1>6, <3>2, <3>4, ReadyIsJoined
    <2>6. ReachedOK' /\ VerdictOK'
      BY <2>1 DEF ReachedOK, VerdictOK, Joining
    <2>7. JoinedOK'
      BY <2>1, <2>4, <2>5 DEF JoinedOK
    <2> QED
      BY <2>2, <2>6, <2>7 DEF JoinInv
  <1> QED
    BY <1>1, <1>2, <1>3, <1>5, <1>6 DEF BuildScaffold, Opens

Kept == {"alignment", "readiness", "scaffold"}
\* After the scaffold nothing is said of these sections again.
LEMMA JoinsGoOn ==
    ASSUME JoinInv, receipt' = receipt, run.pc \in Scaffolded, run'.pc \in Scaffolded,
           run'.inventory = run.inventory, run'.windows = run.windows, run.torn => run'.torn,
           \A k \in Kept : (k \in DOMAIN run'.doc <=> k \in DOMAIN run.doc)
                            /\ (k \in DOMAIN run.doc => run'.doc[k] = run.doc[k])
    PROVE  JoinInv'
  <1>1. Docs' = Docs
    BY DEF Docs
  <1>2. ReachedOK' /\ VerdictOK'
    BY DEF ReachedOK, VerdictOK, Joining, Scaffolded, Leaked, Late
  <1>3. JoinedOK'
    BY DEF JoinInv, JoinedOK, Kept
  <1> QED
    BY <1>1, <1>2, <1>3 DEF JoinInv

LEMMA OverKeeps ==
    ASSUME NEW sections, NEW doc, DOMAIN sections \cap Kept = {}
    PROVE  \A k \in Kept : (k \in DOMAIN Over(sections, doc) <=> k \in DOMAIN doc)
                            /\ (k \in DOMAIN doc => Over(sections, doc)[k] = doc[k])
  BY DEF Over

LEMMA LeaveFundingOutJoins == ChainInv /\ JoinInv /\ LeaveFundingOut => JoinInv'
  <1> SUFFICES ASSUME ChainInv, JoinInv, LeaveFundingOut PROVE JoinInv'
    OBVIOUS
  <1>1. /\ receipt' = receipt /\ run.pc = "adjustments" /\ run'.pc = "leakage"
        /\ run'.doc = run.doc
    BY DEF LeaveFundingOut, files, ChainInv, RunOK, Fields
  <1>2. ReachedOK' /\ VerdictOK' /\ JoinedOK'
    BY <1>1 DEF JoinInv, ReachedOK, VerdictOK, JoinedOK, Joining
  <1>3. Docs' = Docs
    BY <1>1 DEF Docs
  <1> QED
    BY <1>2, <1>3 DEF JoinInv

LEMMA AuditSplitsJoins == ChainInv /\ JoinInv /\ AuditSplits => JoinInv'
  <1> SUFFICES ASSUME ChainInv, JoinInv, AuditSplits PROVE JoinInv'
    OBVIOUS
  <1>1. PICK sections : sections = Entry("leakage", SplitLeakage(run.windows))
    OBVIOUS
  <1>2. /\ receipt' = receipt /\ run.pc \in Scaffolded /\ run'.pc \in Scaffolded
        /\ run'.inventory = run.inventory /\ run'.windows = run.windows /\ run'.torn = run.torn
        /\ run'.doc = Over(sections, run.doc)
    BY <1>1 DEF AuditSplits, files, ChainInv, RunOK, Fields, Scaffolded, Leaked
  <1>3. DOMAIN sections \cap Kept = {}
    BY <1>1 DEF Entry, Kept
  <1> QED
    BY <1>2, <1>3, OverKeeps, JoinsGoOn

LEMMA ReadPacketJoins == ChainInv /\ JoinInv /\ ReadPacket => JoinInv'
  <1> SUFFICES ASSUME ChainInv, JoinInv, ReadPacket PROVE JoinInv'
    OBVIOUS
  <1>1. receipt' = receipt /\ run.pc = "packets"
    BY DEF ReadPacket, files
  <1>2. CASE Failed
    BY <1>1, <1>2, JoinStops DEF Failed
  <1>3. CASE \E p \in Packets : \E c, seen :
                 run' = [run EXCEPT !.at = @ + 1, !.seen = seen, !.doc = Over(Entry(p, c), run.doc)]
    <2>1. PICK p \in Packets :
              \E c, seen : run' = [run EXCEPT !.at = @ + 1, !.seen = seen, !.doc = Over(Entry(p, c), run.doc)]
      BY <1>3
    <2>2. PICK c, seen : run' = [run EXCEPT !.at = @ + 1, !.seen = seen, !.doc = Over(Entry(p, c), run.doc)]
      BY <2>1
    <2>3. PICK sections : sections = Entry(p, c)
      OBVIOUS
    <2>4. /\ run'.inventory = run.inventory /\ run'.windows = run.windows /\ run'.torn = run.torn
          /\ run'.pc = run.pc /\ run'.doc = Over(sections, run.doc)
      BY <2>2, <2>3 DEF ChainInv, RunOK, Fields
    <2>5. DOMAIN sections \cap Kept = {}
      BY <2>3, PacketsAre DEF Entry, Kept
    <2>6. run.pc \in Scaffolded
      BY <1>1 DEF Scaffolded, Leaked
    <2> QED
      BY <1>1, <2>4, <2>5, <2>6, OverKeeps, JoinsGoOn
  <1>4. CASE \E seen : run' = [run EXCEPT !.at = @ + 1, !.seen = seen]
    <2>1. PICK seen : run' = [run EXCEPT !.at = @ + 1, !.seen = seen]
      BY <1>4
    <2>2. /\ run'.inventory = run.inventory /\ run'.windows = run.windows /\ run'.torn = run.torn
          /\ run'.pc = run.pc /\ run'.doc = run.doc
      BY <2>1 DEF ChainInv, RunOK, Fields
    <2>3. run.pc \in Scaffolded
      BY <1>1 DEF Scaffolded, Leaked
    <2> QED
      BY <1>1, <2>2, <2>3, JoinsGoOn
  <1>5. Chain[run.at] \in Packets
    BY DEF ReadPacket, Packets
  <1> QED
    BY <1>2, <1>3, <1>4, <1>5 DEF ReadPacket

LEMMA CloseChainJoins == ChainInv /\ JoinInv /\ CloseChain => JoinInv'
  <1> SUFFICES ASSUME ChainInv, JoinInv, CloseChain PROVE JoinInv'
    OBVIOUS
  <1>1. /\ receipt' = receipt /\ run.pc = "packets" /\ run'.pc = "temporal"
        /\ run'.inventory = run.inventory /\ run'.windows = run.windows /\ run'.torn = run.torn
        /\ run'.doc = run.doc
    BY DEF CloseChain, files, ChainInv, RunOK, Fields
  <1>2. run.pc \in Scaffolded /\ run'.pc \in Scaffolded
    BY <1>1 DEF Scaffolded, Leaked, Late
  <1> QED
    BY <1>1, <1>2, JoinsGoOn

LEMMA OpensIfAnyJoins ==
    ASSUME ChainInv, JoinInv, NEW pass \in Late, NEW next \in Late, NEW gates, NEW sections,
           OpensIfAny(pass, next, gates, sections), DOMAIN sections \cap Kept = {}
    PROVE  JoinInv'
  <1>1. receipt' = receipt /\ run.pc = pass
    BY DEF OpensIfAny, files
  <1>2. /\ run'.inventory = run.inventory /\ run'.windows = run.windows /\ run'.pc = next
        /\ run'.torn = (run.torn \/ (HasData /\ run.hashed # {Given}))
        /\ run'.doc = Over(sections, run.doc)
    BY DEF OpensIfAny, ChainInv, RunOK, Fields
  <1>3. run.pc \in Scaffolded /\ run'.pc \in Scaffolded /\ (run.torn => run'.torn)
    BY <1>1, <1>2 DEF Scaffolded, Leaked
  <1> QED
    BY <1>1, <1>2, <1>3, OverKeeps, JoinsGoOn

LEMMA GatesJoin ==
    ASSUME ChainInv, JoinInv, CheckTimes \/ CheckJoins \/ ExtractAndProject
    PROVE  JoinInv'
  <1>1. /\ DOMAIN NoSection \cap Kept = {}
        /\ \A rows : DOMAIN Entry("emitted", rows) \cap Kept = {}
    BY DEF NoSection, Entry, Kept
  <1>2. CASE CheckTimes
    BY <1>1, <1>2, OpensIfAnyJoins DEF CheckTimes, Late
  <1>3. CASE CheckJoins
    BY <1>1, <1>3, OpensIfAnyJoins DEF CheckJoins, Late
  <1>4. CASE ExtractAndProject
    BY <1>1, <1>4, OpensIfAnyJoins DEF ExtractAndProject, Late
  <1> QED
    BY <1>2, <1>3, <1>4

LEMMA BeginWriteJoins == ChainInv /\ JoinInv /\ BeginWrite => JoinInv'
  <1> SUFFICES ASSUME ChainInv, JoinInv, BeginWrite PROVE JoinInv'
    OBVIOUS
  <1>1. /\ run.pc = "write" /\ run'.pc = "written"
        /\ run'.inventory = run.inventory /\ run'.windows = run.windows
        /\ run'.torn = run.torn /\ run'.doc = run.doc
    BY DEF BeginWrite, ChainInv, RunOK, Fields
  <1>2. ReachedOK' /\ VerdictOK' /\ JoinedOK'
    BY <1>1 DEF JoinInv, ReachedOK, VerdictOK, JoinedOK, Joining, Scaffolded, Leaked, Late
  <1>3. Docs' = {}
    BY DEF BeginWrite, Docs
  <1> QED
    BY <1>2, <1>3 DEF JoinInv

LEMMA EndWriteJoins == ChainInv /\ JoinInv /\ EndWrite => JoinInv'
  <1> SUFFICES ASSUME ChainInv, JoinInv, EndWrite PROVE JoinInv'
    OBVIOUS
  <1>1. run.pc = "written" /\ run'.pc = "idle"
    BY DEF EndWrite, NoRun
  <1>2. ReachedOK' /\ VerdictOK' /\ JoinedOK'
    BY <1>1 DEF ReachedOK, VerdictOK, JoinedOK, Joining, Scaffolded, Leaked, Late
  <1>3. run.pc \in Scaffolded
    BY <1>1 DEF Scaffolded, Leaked, Late
  <1>4. JoinedDoc(Receipt)
    <2> SUFFICES ASSUME "alignment" \in DOMAIN Receipt
                 PROVE  /\ "readiness" \in DOMAIN Receipt /\ "scaffold" \in DOMAIN Receipt
                        /\ ~Receipt["torn"] =>
                              AreAllJoined(Receipt["inventory"], Receipt["windows"],
                                           Receipt["readiness"], Receipt["scaffold"])
      BY DEF JoinedDoc
    <2>1. "alignment" \in DOMAIN run.doc
      BY ReceiptIs
    <2>2. /\ "readiness" \in DOMAIN run.doc /\ "scaffold" \in DOMAIN run.doc
          /\ ~run.torn =>
                AreAllJoined(run.inventory, run.windows, run.doc["readiness"], run.doc["scaffold"])
      BY <1>3, <2>1 DEF JoinInv, JoinedOK
    <2>3. /\ "readiness" \in DOMAIN Receipt /\ Receipt["readiness"] = run.doc["readiness"]
          /\ "scaffold" \in DOMAIN Receipt /\ Receipt["scaffold"] = run.doc["scaffold"]
          /\ Receipt["torn"] = run.torn /\ Receipt["inventory"] = run.inventory
          /\ Receipt["windows"] = run.windows
      BY <2>2, ReceiptIs
    <2> QED
      BY <2>2, <2>3
  <1>5. \A doc \in Docs' : JoinedDoc(doc)
    BY <1>4, WrittenDoc
  <1> QED
    BY <1>2, <1>5 DEF JoinInv

\* The join invariant is one: what an untorn run found when it built the scaffold
\* is of the files of its inventory, each of which has its times in order, and
\* the scaffold it built joins every bar of an eligible symbol to one funding.
\* offline_edge_real_validation.py: main, from the canonicalization to the
\* receipt.
THEOREM JoinInvariant == Spec => [](ChainInv /\ SurveyInv /\ JoinInv)
  <1>1. ASSUME ChainInv, SurveyInv, JoinInv, [Next]_vars PROVE JoinInv'
    <2>1. CASE Refresh \/ Amend \/ Refreeze \/ Rebind \/ UNCHANGED vars
      BY <1>1, <2>1, OthersKeepTheJoins
    <2>2. CASE Start
      BY <1>1, <2>2, StartJoins
    <2>3. CASE TakeHashes
      BY <1>1, <2>3, TakeHashesJoins
    <2>4. CASE TakeInventory
      BY <1>1, <2>4, TakeInventoryJoins
    <2>5. CASE AssignRows \/ Adjust \/ DiagnoseJoinability \/ DiagnoseConvention
      BY <1>1, <2>5, PassesJoin
    <2>6. CASE LeaveFundingOut
      BY <1>1, <2>6, LeaveFundingOutJoins
    <2>7. CASE Canonicalize
      BY <1>1, <2>7, CanonicalizeJoins
    <2>8. CASE BuildScaffold
      BY <1>1, <2>8, BuildScaffoldJoins
    <2>9. CASE AuditSplits
      BY <1>1, <2>9, AuditSplitsJoins
    <2>10. CASE ReadPacket
      BY <1>1, <2>10, ReadPacketJoins
    <2>11. CASE CloseChain
      BY <1>1, <2>11, CloseChainJoins
    <2>12. CASE CheckTimes \/ CheckJoins \/ ExtractAndProject
      BY <1>1, <2>12, GatesJoin
    <2>13. CASE BeginWrite
      BY <1>1, <2>13, BeginWriteJoins
    <2>14. CASE EndWrite
      BY <1>1, <2>14, EndWriteJoins
    <2>15. CASE Crash
      BY <1>1, <2>15, JoinStops DEF Crash, files
    <2> QED
      BY <1>1, <2>1, <2>2, <2>3, <2>4, <2>5, <2>6, <2>7, <2>8, <2>9, <2>10, <2>11, <2>12, <2>13,
         <2>14, <2>15 DEF Next, RunStep
  <1> QED
    BY <1>1, JoinBegins, SurveyInvariant, PTL DEF Spec

\* In a receipt of a run over data no file of which was replaced while it was
\* read, a symbol found eligible has one funding in the second of every bar and a
\* bar in that of every funding, both in the same windows, and the scaffold is of
\* as many rows as there are bars.
\* offline_edge_real_validation.py: the canonicalization, the readiness gate and
\* the scaffold.
THEOREM EligibleAreJoined == Spec => []EligibleIsJoined
  <1>1. JoinInv => EligibleIsJoined
    <2> SUFFICES ASSUME JoinInv, NEW doc \in Docs, Sound(doc), NEW s \in Eligible(doc["readiness"])
                 PROVE  LET bars == TimesOf(InventoriedRows(doc, "bars", s))
                            funding == TimesOf(InventoriedRows(doc, "funding", s))
                            pairs == {pair \in bars \X funding :
                                          FloorToSecond(pair[1]) = FloorToSecond(pair[2])}
                        IN /\ \A b \in bars : Cardinality({pair \in pairs : pair[1] = b}) = 1
                           /\ \A f \in funding : \E pair \in pairs : pair[2] = f
                           /\ \A pair \in pairs, k \in DOMAIN doc["windows"], part \in Parts :
                                 InWindow(pair[1], doc["windows"][k], part)
                                     <=> InWindow(pair[2], doc["windows"][k], part)
                           /\ doc["scaffold"].eligible[s].total = Cardinality(bars)
      BY DEF EligibleIsJoined
    <2>1. PICK bars, funding : /\ bars = TimesOf(InventoriedRows(doc, "bars", s))
                               /\ funding = TimesOf(InventoriedRows(doc, "funding", s))
      OBVIOUS
    <2>2. AreJoined(bars, funding, doc["windows"], doc["scaffold"].eligible[s].total)
      BY <2>1 DEF JoinInv, JoinedDoc, Sound, AreAllJoined, InventoriedRows
    <2> QED
      BY <2>1, <2>2 DEF AreJoined, Pairs
  <1> QED
    BY <1>1, JoinInvariant, PTL

-----------------------------------------------------------------------------
(* What the sections of an untorn run say of the files of its inventory.      *)

EmittedAgree(emitted, inventory, windows) ==
    /\ emitted["rule_rows"] # {} =>
          /\ DOMAIN inventory = Roles
          /\ emitted["rule_rows"] = RowsOf(inventory, windows, Surveyed(inventory))
    /\ emitted["counts"] # <<>> => emitted["inference_rows"][1] = Cardinality(emitted["rule_rows"])
SectionsAgree(doc, inventory, windows) ==
    /\ "rows" \in DOMAIN doc => doc["rows"] = RowMaterialization(windows, Surveyed(inventory))
    /\ "alignment" \in DOMAIN doc =>
          /\ DOMAIN inventory = Roles
          /\ doc["alignment"] = Alignment(RowMaterialization(windows, Surveyed(inventory)),
                                          FundingAdjustments(windows, Surveyed(inventory)))
    /\ "joinability" \in DOMAIN doc =>
          /\ doc["joinability"] = Joinability(windows, Surveyed(inventory))
          /\ \A role \in Roles, s \in Symbols : IsOrdered(Surveyed(inventory)[role][s])
    /\ "convention" \in DOMAIN doc => doc["convention"] = Convention(windows, Surveyed(inventory))
    /\ "emitted" \in DOMAIN doc => EmittedAgree(doc["emitted"], inventory, windows)

\* The sections there are when a pass begins.
SectionsBefore ==
    [adjustments |-> {"rows"}, joinability |-> {"rows", "alignment"},
     convention |-> {"rows", "alignment", "joinability"},
     canonicalization |-> {"rows", "alignment", "joinability", "convention"},
     scaffold |-> {"rows", "alignment", "joinability", "convention"}]
Diagnosed == {"rows", "joinability", "convention"}
PresentOK ==
    /\ run.pc = "inventory" => DOMAIN run.doc = {}
    /\ run.pc \in DOMAIN SectionsBefore => SectionsBefore[run.pc] \subseteq DOMAIN run.doc
    /\ run.pc \in Scaffolded /\ "alignment" \in DOMAIN run.doc => Diagnosed \subseteq DOMAIN run.doc
    /\ run.pc \in {"write", "written"} => "emitted" \in DOMAIN run.doc
\* These two passes do not ask again when they open a file.
HashedOK ==
    /\ run.pc = "rows" =>
          \A h \in run.hashed : Unchanged(run.inventory, h, DOMAIN run.inventory)
    /\ run.pc = "adjustments" =>
          \A h \in run.hashed : Unchanged(run.inventory, h, DOMAIN run.inventory \cap {"funding"})
AgreeingDoc(doc) ==
    /\ ~doc["torn"] => SectionsAgree(doc, doc["inventory"], doc["windows"])
    /\ "alignment" \in DOMAIN doc => Diagnosed \cup {"emitted"} \subseteq DOMAIN doc
AgreeInv ==
    /\ PresentOK /\ HashedOK
    /\ ~run.torn => SectionsAgree(run.doc, run.inventory, run.windows)
    /\ \A doc \in Docs : AgreeingDoc(doc)

LEMMA SectionsExtend ==
    ASSUME NEW doc, NEW sections, NEW inventory, NEW windows,
           SectionsAgree(doc, inventory, windows), SectionsAgree(sections, inventory, windows)
    PROVE  SectionsAgree(Over(sections, doc), inventory, windows)
  <1>1. PICK new : new = Over(sections, doc)
    OBVIOUS
  <1>2. \A k \in DOMAIN new : \/ k \in DOMAIN sections /\ new[k] = sections[k]
                              \/ k \in DOMAIN doc /\ new[k] = doc[k]
    BY <1>1 DEF Over
  <1>3. "rows" \in DOMAIN new => new["rows"] = RowMaterialization(windows, Surveyed(inventory))
    BY <1>2 DEF SectionsAgree
  <1>4. "alignment" \in DOMAIN new =>
          /\ DOMAIN inventory = Roles
          /\ new["alignment"] = Alignment(RowMaterialization(windows, Surveyed(inventory)),
                                          FundingAdjustments(windows, Surveyed(inventory)))
    BY <1>2 DEF SectionsAgree
  <1>5. "joinability" \in DOMAIN new =>
          /\ new["joinability"] = Joinability(windows, Surveyed(inventory))
          /\ \A role \in Roles, s \in Symbols : IsOrdered(Surveyed(inventory)[role][s])
    BY <1>2 DEF SectionsAgree
  <1>6. "convention" \in DOMAIN new => new["convention"] = Convention(windows, Surveyed(inventory))
    BY <1>2 DEF SectionsAgree
  <1>7. "emitted" \in DOMAIN new => EmittedAgree(new["emitted"], inventory, windows)
    BY <1>2 DEF SectionsAgree
  <1>8. SectionsAgree(new, inventory, windows)
    BY <1>3, <1>4, <1>5, <1>6, <1>7 DEF SectionsAgree
  <1> QED
    BY <1>1, <1>8

\* A section that is of no data agrees with them all.
Told == {"rows", "alignment", "joinability", "convention", "emitted"}
LEMMA OthersAgree ==
    ASSUME NEW sections, DOMAIN sections \cap Told = {}, NEW inventory, NEW windows
    PROVE  SectionsAgree(sections, inventory, windows)
  BY DEF SectionsAgree, Told

\* The same sections under the same names.
LEMMA ToldAgree ==
    ASSUME NEW doc, NEW new, NEW inventory, NEW windows, SectionsAgree(doc, inventory, windows),
           \A k \in Told : k \in DOMAIN new => k \in DOMAIN doc,
           \A k \in Told : k \in DOMAIN doc => new[k] = doc[k]
    PROVE  SectionsAgree(new, inventory, windows)
  BY DEF SectionsAgree, Told

\* In a file in order a window has as many rows as times.
LEMMA RowsAreTimes ==
    ASSUME NEW file, IsOrdered(file), NEW w, NEW part
    PROVE  Cardinality(RowsIn(file, w, part)) = Cardinality(Within(TimesOf(file), w, part))
  <1>1. PICK S : S = RowsIn(file, w, part)
    OBVIOUS
  <1>2. S \in SUBSET Timed(file)
    BY <1>1 DEF RowsIn
  <1>3. Cardinality(TimesAt(file, S)) = Cardinality(S)
    BY <1>2, OrderedTimesAre
  <1>4. TimesAt(file, S) = Within(TimesOf(file), w, part)
    BY <1>1 DEF RowsIn, TimesAt, TimesOf, Within
  <1> QED
    BY <1>1, <1>3, <1>4

LEMMA UnshiftedIs == \A bars \in SUBSET Int : Shifted(bars, NoShift) = bars
  <1>1. Hour \in Int
    BY NumbersAssumption
  <1>2. NoShift \in DOMAIN Offsets /\ Offsets[NoShift] = 0
    <2>1. 7 \in DOMAIN Offsets /\ Offsets[7] = 0
      BY DEF Offsets
    <2> HIDE DEF Offsets
    <2> QED
      BY <2>1 DEF NoShift
  <1>3. \A t \in Int : t + 0 * Hour = t
    BY <1>1
  <1>4. ASSUME NEW bars \in SUBSET Int PROVE Shifted(bars, NoShift) = bars
    <2>1. Shifted(bars, NoShift) = {t + 0 * Hour : t \in bars}
      BY <1>2 DEF Shifted
    <2> QED
      BY <1>3, <2>1
  <1> QED
    BY <1>4

RuleRow(s, i, part, t) == [symbol |-> s, split |-> i, part |-> part, t |-> t]
RuleRowsIn(opened, y, i, p, w) ==
    {RuleRow(y, i, p, t) : t \in Within(TimesOf(opened["bars"][y]) \cap TimesOf(opened["funding"][y]), w, p)}
LEMMA RowsOfAre ==
    ASSUME NEW inventory, NEW windows, NEW opened, NEW r
    PROVE  r \in RowsOf(inventory, windows, opened) <=>
              \E y \in DOMAIN inventory["bars"] \cap DOMAIN inventory["funding"] :
                 \E i \in DOMAIN windows : \E p \in Parts : r \in RuleRowsIn(opened, y, i, p, windows[i])
  <1>1. RowsOf(inventory, windows, opened) =
            UNION {RuleRowsIn(opened, y, i, p, windows[i]) :
                      y \in DOMAIN inventory["bars"] \cap DOMAIN inventory["funding"],
                      i \in DOMAIN windows, p \in Parts}
    BY DEF RowsOf, RuleRowsIn, RuleRow
  <1> QED
    BY <1>1

RuleRowsOf(rows, s, k, part) == {r \in rows : r.symbol = s /\ r.split = k /\ r.part = part}
\* The rows of the rule of a window are its matches.
LEMMA RuleRowsOfAWindow ==
    ASSUME NEW inventory, NEW windows, NEW opened, NEW k \in DOMAIN windows, NEW part \in Parts,
           NEW s \in DOMAIN inventory["bars"] \cap DOMAIN inventory["funding"],
           NEW bars \in SUBSET Int, IsFiniteSet(bars), bars = TimesOf(opened["bars"][s]),
           NEW funding, funding = TimesOf(opened["funding"][s])
    PROVE  Cardinality(RuleRowsOf(RowsOf(inventory, windows, opened), s, k, part))
               = Cardinality(Within(bars, windows[k], part) \cap Within(funding, windows[k], part))
  <1>1. PICK T : T = Within(bars, windows[k], part) \cap Within(funding, windows[k], part)
    OBVIOUS
  <1>2. T = Within(bars \cap funding, windows[k], part) /\ T \in SUBSET bars
    BY <1>1 DEF Within
  <1>3. IsFiniteSet(T)
    BY <1>2, FS_Subset
  <1>4. PICK R : /\ R = RuleRowsOf(RowsOf(inventory, windows, opened), s, k, part)
                 /\ R = {r \in RowsOf(inventory, windows, opened) :
                            r.symbol = s /\ r.split = k /\ r.part = part}
    BY DEF RuleRowsOf
  <1>5. ASSUME NEW t \in T PROVE RuleRow(s, k, part, t) \in R
    <2>1. PICK r : r = RuleRow(s, k, part, t)
      OBVIOUS
    <2>2. r \in RuleRowsIn(opened, s, k, part, windows[k])
      BY <1>2, <2>1 DEF RuleRowsIn
    <2>3. r \in RowsOf(inventory, windows, opened)
      BY <2>2, RowsOfAre
    <2>4. r.symbol = s /\ r.split = k /\ r.part = part
      BY <2>1 DEF RuleRow
    <2> QED
      BY <1>4, <2>1, <2>3, <2>4
  <1>6. ASSUME NEW r \in R PROVE \E t \in T : r = RuleRow(s, k, part, t)
    <2>1. r \in RowsOf(inventory, windows, opened) /\ r.symbol = s /\ r.split = k /\ r.part = part
      BY <1>4
    <2>2. PICK y \in DOMAIN inventory["bars"] \cap DOMAIN inventory["funding"] :
              \E i \in DOMAIN windows : \E p \in Parts : r \in RuleRowsIn(opened, y, i, p, windows[i])
      BY <2>1, RowsOfAre
    <2>3. PICK i \in DOMAIN windows : \E p \in Parts : r \in RuleRowsIn(opened, y, i, p, windows[i])
      BY <2>2
    <2>4. PICK p \in Parts : r \in RuleRowsIn(opened, y, i, p, windows[i])
      BY <2>3
    <2>5. PICK t \in Within(TimesOf(opened["bars"][y]) \cap TimesOf(opened["funding"][y]), windows[i], p) :
              r = RuleRow(y, i, p, t)
      BY <2>4 DEF RuleRowsIn
    <2>6. y = s /\ i = k /\ p = part
      BY <2>1, <2>5 DEF RuleRow
    <2> QED
      BY <1>2, <2>5, <2>6
  <1>7. PICK g : g = [t \in T |-> RuleRow(s, k, part, t)]
    OBVIOUS
  <1>8. g \in Surjection(T, R)
    BY <1>5, <1>6, <1>7 DEF Surjection
  <1>9. \A t \in T, u \in T : g[t] = g[u] => t = u
    BY <1>7 DEF RuleRow
  <1>10. g \in Injection(T, R)
    BY <1>8, <1>9 DEF Surjection, Injection, IsInjective
  <1>11. Cardinality(T) = Cardinality(R)
    BY <1>3, <1>8, <1>10, FS_Surjection
  <1> QED
    BY <1>1, <1>4, <1>11

\* What all sections say of one window of one symbol.
LEMMA SectionsAgreeOnAWindow ==
    ASSUME NEW doc, NEW inventory, NEW windows,
           IsSurvey(Surveyed(inventory), inventory, windows), SectionsAgree(doc, inventory, windows),
           "alignment" \in DOMAIN doc, Diagnosed \cup {"emitted"} \subseteq DOMAIN doc,
           NEW s \in Symbols, NEW k \in DOMAIN windows, NEW part \in Parts
    PROVE  LET join == doc["joinability"][s].windows[k][part]
               rows == doc["emitted"]["rule_rows"]
           IN /\ doc["rows"]["bars"][s].counts[k][part] = join.bars
              /\ doc["rows"]["funding"][s].counts[k][part] = join.funding
              /\ doc["alignment"][s].observed[k][part] = join.funding
              /\ doc["convention"][s].windows[k][part].unshifted = join
              /\ rows # {} => join.matched =
                    Cardinality({r \in rows : r.symbol = s /\ r.split = k /\ r.part = part})
              /\ rows # {} /\ doc["emitted"]["counts"] # <<>> =>
                    doc["emitted"]["inference_rows"][1] = Cardinality(rows)
  <1>1. PICK opened : opened = Surveyed(inventory)
    OBVIOUS
  <1>2. /\ DOMAIN inventory = Roles /\ DOMAIN opened = Roles /\ "bars" \in Roles /\ "funding" \in Roles
        /\ \A role \in Roles : DOMAIN opened[role] = Symbols /\ DOMAIN inventory[role] = Symbols
    <2>1. DOMAIN inventory = Roles /\ "bars" \in Roles /\ "funding" \in Roles
      BY DEF SectionsAgree, Roles
    <2>2. DOMAIN opened = Roles /\ \A role \in Roles : DOMAIN opened[role] = Symbols
      BY <1>1, <2>1 DEF Surveyed
    <2>3. \A role \in Roles : DOMAIN inventory[role] = Symbols
      BY <1>1, <2>2, SurveyIs
    <2> QED
      BY <2>1, <2>2, <2>3
  <1>3. PICK rows : rows = RowMaterialization(windows, opened)
    OBVIOUS
  <1>4. /\ doc["rows"] = rows
        /\ doc["alignment"] = Alignment(rows, FundingAdjustments(windows, opened))
        /\ doc["joinability"] = Joinability(windows, opened)
        /\ doc["convention"] = Convention(windows, opened)
        /\ EmittedAgree(doc["emitted"], inventory, windows)
    BY <1>1, <1>3 DEF SectionsAgree, Diagnosed
  <1>5. PICK left, right : left = opened["bars"][s] /\ right = opened["funding"][s]
    OBVIOUS
  <1>6. IsOrdered(left) /\ IsOrdered(right)
    BY <1>1, <1>2, <1>5 DEF SectionsAgree, Diagnosed
  <1>7. PICK bars, funding : bars = TimesOf(left) /\ funding = TimesOf(right)
    OBVIOUS
  <1>8. bars \in SUBSET Int /\ IsFiniteSet(bars) /\ funding \in SUBSET Int /\ IsFiniteSet(funding)
    BY <1>6, <1>7, TimesAre DEF IsOrdered
  <1>9. PICK b, f : b = Within(bars, windows[k], part) /\ f = Within(funding, windows[k], part)
    OBVIOUS
  <1>10. PICK join : join = MatchSummary(b, f)
    OBVIOUS
  <1>11. doc["joinability"][s].windows[k][part] = join
    <2>1. doc["joinability"][s] = JoinabilityOf(bars, funding, windows)
      BY <1>2, <1>4, <1>5, <1>7 DEF Joinability
    <2> QED
      BY <1>9, <1>10, <2>1 DEF JoinabilityOf
  <1>12. join.bars = Cardinality(b) /\ join.funding = Cardinality(f) /\ join.matched = Cardinality(b \cap f)
    BY <1>10 DEF MatchSummary
  <1>13. /\ rows["bars"][s].counts[k][part] = Cardinality(b)
         /\ rows["funding"][s].counts[k][part] = Cardinality(f)
    <2>1. rows["bars"][s] = FileRows(left, windows) /\ rows["funding"][s] = FileRows(right, windows)
      BY <1>2, <1>3, <1>5 DEF RowMaterialization
    <2>2. /\ FileRows(left, windows).counts[k][part] = Cardinality(RowsIn(left, windows[k], part))
          /\ FileRows(right, windows).counts[k][part] = Cardinality(RowsIn(right, windows[k], part))
      BY DEF FileRows
    <2> QED
      BY <1>6, <1>7, <1>9, <2>1, <2>2, RowsAreTimes
  <1>14. doc["alignment"][s].observed[k][part] = Cardinality(f)
    <2>1. PICK adjusted : adjusted = FundingAdjustments(windows, opened)
      OBVIOUS
    <2>2. s \in DOMAIN rows["bars"]
      BY <1>2, <1>3 DEF RowMaterialization
    <2>3. /\ DOMAIN adjusted[s].windows = DOMAIN windows
          /\ adjusted[s].windows[k][part] = RateSummary(right, RowsIn(right, windows[k], part))
      BY <1>2, <1>5, <2>1 DEF FundingAdjustments
    <2>4. doc["alignment"][s].observed[k][part] = adjusted[s].windows[k][part].count
      <3>1. doc["alignment"] = Alignment(rows, adjusted)
        BY <1>4, <2>1
      <3>2. doc["alignment"][s].observed
                = [j \in DOMAIN adjusted[s].windows |->
                      [piece \in Parts |-> adjusted[s].windows[j][piece].count]]
        BY <2>2, <3>1 DEF Alignment
      <3> QED
        BY <2>3, <3>2
    <2>5. RateSummary(right, RowsIn(right, windows[k], part)).count
              = Cardinality(RowsIn(right, windows[k], part))
      BY DEF RateSummary
    <2> QED
      BY <1>6, <1>7, <1>9, <2>3, <2>4, <2>5, RowsAreTimes
  <1>15. doc["convention"][s].windows[k][part].unshifted = join
    <2>1. doc["convention"][s] = ConventionOf(bars, funding, windows)
      BY <1>2, <1>4, <1>5, <1>7 DEF Convention
    <2>2. doc["convention"][s].windows[k][part] = OffsetSummary(b, f)
      BY <1>9, <2>1 DEF ConventionOf
    <2>3. OffsetSummary(b, f).unshifted = MatchSummary(Shifted(b, NoShift), f)
      BY DEF OffsetSummary, OffsetMatch
    <2>4. b \in SUBSET Int
      BY <1>8, <1>9 DEF Within
    <2> QED
      BY <1>10, <2>2, <2>3, <2>4, UnshiftedIs
  <1>16. PICK found : found = doc["emitted"]["rule_rows"]
    OBVIOUS
  <1>17. found # {} =>
            Cardinality(b \cap f) = Cardinality({r \in found : r.symbol = s /\ r.split = k /\ r.part = part})
    <2> SUFFICES ASSUME found # {} PROVE Cardinality(b \cap f) = Cardinality(RuleRowsOf(found, s, k, part))
      BY DEF RuleRowsOf
    <2>1. found = RowsOf(inventory, windows, opened)
      BY <1>1, <1>4, <1>16 DEF EmittedAgree
    <2>2. s \in DOMAIN inventory["bars"] \cap DOMAIN inventory["funding"]
      BY <1>2
    <2>3. bars = TimesOf(opened["bars"][s]) /\ funding = TimesOf(opened["funding"][s])
      BY <1>5, <1>7
    <2>4. Cardinality(RuleRowsOf(RowsOf(inventory, windows, opened), s, k, part))
              = Cardinality(Within(bars, windows[k], part) \cap Within(funding, windows[k], part))
      BY <1>8, <2>2, <2>3, RuleRowsOfAWindow
    <2> QED
      BY <1>9, <2>1, <2>4
  <1>18. doc["emitted"]["counts"] # <<>> => doc["emitted"]["inference_rows"][1] = Cardinality(found)
    BY <1>4, <1>16 DEF EmittedAgree
  <1> QED
    BY <1>4, <1>11, <1>12, <1>13, <1>14, <1>15, <1>16, <1>17, <1>18

\* The rows of the rule stay what they are through the stages after it.
HasRule(p, rows) ==
    /\ "gates" \in DOMAIN p /\ "rows" \in DOMAIN p
    /\ "rule_rows" \in DOMAIN p.rows /\ p.rows["rule_rows"] = rows

LEMMA LockHasRule ==
    ASSUME NEW p, NEW rows, HasRule(p, rows), NEW stage, NEW gate
    PROVE  HasRule(Lock(p, stage, gate), rows)
  BY LockIs DEF HasRule

LEMMA EmitHasRule ==
    ASSUME NEW p, NEW rows, HasRule(p, rows), NEW stage, stage # "rule_rows", NEW gate, NEW new
    PROVE  HasRule(Emit(p, stage, gate, new), rows)
  <1>1. PICK q : q = Emit(p, stage, gate, new)
    OBVIOUS
  <1>2. DOMAIN q = DOMAIN p /\ q.rows = Over(Entry(stage, new), p.rows)
    BY <1>1, EmitIs DEF HasRule
  <1>3. "rule_rows" \in DOMAIN q.rows /\ q.rows["rule_rows"] = rows
    BY <1>2 DEF HasRule, Over, Entry
  <1> QED
    BY <1>1, <1>2, <1>3 DEF HasRule

LEMMA NotedHasRule ==
    ASSUME NEW p, NEW rows, HasRule(p, rows), NEW k, k \notin {"gates", "rows"}, NEW noted
    PROVE  HasRule(Over(Entry(k, noted), p), rows)
  <1>1. PICK q : q = Over(Entry(k, noted), p)
    OBVIOUS
  <1>2. /\ "gates" \in DOMAIN q /\ "rows" \in DOMAIN q /\ q["rows"] = p["rows"]
    BY <1>1 DEF HasRule, Over, Entry
  <1> QED
    BY <1>1, <1>2 DEF HasRule

LEMMA RuleRowsStay ==
    ASSUME NEW g, NEW extracted, NEW rows, rows = RuleRowsDiagnostics(g, extracted).rows
    PROVE  LET last == GatesToTheEnd(GatesToReadiness(GatesToEconomicRows(g, extracted)))
           IN last.rows["rule_rows"] = rows
  <1>1. PICK p13 : p13 = WithRuleRows(g, extracted)
    OBVIOUS
  <1>2. HasRule(p13, rows)
    BY <1>1 DEF WithRuleRows, HasRule, Entry
  <1>3. PICK p15 : p15 = WithEvents(WithEventLock(p13))
    OBVIOUS
  <1>4. HasRule(p15, rows)
    BY <1>2, <1>3, LockHasRule, EmitHasRule DEF WithEventLock, WithEvents
  <1>5. PICK p16 : p16 = WithEconomicLock(p15)
    OBVIOUS
  <1>6. HasRule(p16, rows)
    BY <1>4, <1>5, LockHasRule DEF WithEconomicLock
  <1>7. PICK p17 : p17 = WithEconomicRows(p16)
    OBVIOUS
  <1>8. HasRule(p17, rows)
    <2>1. PICK d, q : d = EconomicRowsDiagnostics(p16.gates, p16.rows["events"])
                      /\ q = Emit(p16, "economic_rows", EconomicRowsGate(d), d.rows)
      OBVIOUS
    <2>2. HasRule(q, rows)
      BY <1>6, <2>1, EmitHasRule
    <2>3. p17 = Over(Entry("economic", d), q)
      BY <1>7, <2>1 DEF WithEconomicRows
    <2> QED
      BY <2>2, <2>3, NotedHasRule
  <1>9. GatesToEconomicRows(g, extracted) = p17
    BY <1>1, <1>3, <1>5, <1>7 DEF GatesToEconomicRows
  <1>10. PICK p19 : p19 = WithNullRows(WithNullLock(p17))
    OBVIOUS
  <1>11. HasRule(p19, rows)
    BY <1>8, <1>10, LockHasRule, EmitHasRule DEF WithNullLock, WithNullRows
  <1>12. PICK p21 : p21 = WithStatisticRows(WithStatisticLock(p19))
    OBVIOUS
  <1>13. HasRule(p21, rows)
    BY <1>11, <1>12, LockHasRule, EmitHasRule DEF WithStatisticLock, WithStatisticRows
  <1>14. PICK p23 : p23 = WithReadinessRows(WithContractLock(p21))
    OBVIOUS
  <1>15. HasRule(p23, rows)
    BY <1>13, <1>14, LockHasRule, EmitHasRule DEF WithContractLock, WithReadinessRows
  <1>16. GatesToReadiness(p17) = p23
    BY <1>10, <1>12, <1>14 DEF GatesToReadiness
  <1>17. PICK p25 : p25 = WithDescriptiveRows(WithDescriptiveLock(p23))
    OBVIOUS
  <1>18. HasRule(p25, rows)
    BY <1>15, <1>17, LockHasRule, EmitHasRule DEF WithDescriptiveLock, WithDescriptiveRows
  <1>19. PICK p27 : p27 = WithCounts(WithCountPolicy(p25))
    OBVIOUS
  <1>20. HasRule(p27, rows)
    BY <1>18, <1>19, LockHasRule, EmitHasRule DEF WithCountPolicy, WithCounts
  <1>21. PICK p28 : p28 = WithInferenceLock(p27)
    OBVIOUS
  <1>22. HasRule(p28, rows)
    BY <1>20, <1>21, LockHasRule DEF WithInferenceLock
  <1>23. PICK p29 : p29 = WithInferenceRows(p28)
    OBVIOUS
  <1>24. HasRule(p29, rows)
    <2>1. PICK d, q : d = InferenceRowsDiagnostics(p28.gates, p28.economic, p28.rows["counts"])
                      /\ q = Emit(p28, "inference_rows", InferenceRowsGate(d), d.counts)
      OBVIOUS
    <2>2. HasRule(q, rows)
      BY <1>22, <2>1, EmitHasRule
    <2>3. p29 = Over(Entry("inference", d), q)
      BY <1>23, <2>1 DEF WithInferenceRows
    <2> QED
      BY <2>2, <2>3, NotedHasRule
  <1>25. PICK p30 : p30 = WithComparisonLock(p29)
    OBVIOUS
  <1>26. HasRule(p30, rows)
    BY <1>24, <1>25, LockHasRule DEF WithComparisonLock
  <1>27. GatesToTheEnd(p23) = p30
    BY <1>17, <1>19, <1>21, <1>23, <1>25 DEF GatesToTheEnd
  <1> QED
    BY <1>9, <1>16, <1>26, <1>27 DEF HasRule

\* Files whose digests are those of the inventory are those of the inventory.
LEMMA UnchangedIsSurveyed ==
    ASSUME ChainInv, SurveyInv, ~run.torn, DOMAIN run.inventory # {},
           Unchanged(run.inventory, Given, DOMAIN run.inventory)
    PROVE  Surveyed(run.inventory) = Given
  <1>1. PICK inventory : inventory = run.inventory /\ DOMAIN inventory = DataRoles
    BY DEF SurveyInv, SurveyOK
  <1>2. IsSurvey(Surveyed(inventory), inventory, run.windows)
    BY <1>1 DEF SurveyInv, SurveyOK, IsSurveyed
  <1>3. DOMAIN Surveyed(inventory) = DataRoles
    BY <1>1 DEF Surveyed
  <1>4. \A role \in DataRoles : DOMAIN inventory[role] = Symbols
    BY <1>2, <1>3, SurveyIs
  <1>5. \A role \in DataRoles : \A s \in Symbols : inventory[role][s].sha = Given[role][s]
    BY <1>1, <1>4 DEF Unchanged
  <1>6. Surveyed(inventory) = [role \in DataRoles |-> [s \in Symbols |-> inventory[role][s].sha]]
    BY <1>1 DEF Surveyed
  <1>7. \A role \in DataRoles : Given[role] = [s \in Symbols |-> Given[role][s]]
    <2>1. \A role \in DataRoles : Given[role] = [s \in Symbols |-> data[role][s]]
      BY GivenAreFiles DEF SurveyInv
    <2> QED
      BY <2>1
  <1>8. Given = [role \in DataRoles |-> Given[role]]
    BY DEF Given
  <1>9. \A role \in DataRoles : [s \in Symbols |-> inventory[role][s].sha] = Given[role]
    BY <1>5, <1>7
  <1>10. Surveyed(inventory) = [role \in DataRoles |-> Given[role]]
    BY <1>6, <1>9
  <1> QED
    BY <1>1, <1>8, <1>10

LEMMA AgreementStops ==
    ASSUME AgreeInv, NEW code, run' = [NoRun EXCEPT !.exit = code], receipt' = receipt
    PROVE  AgreeInv'
  <1>1. run'.pc = "idle" /\ DOMAIN run'.doc = {} /\ run'.hashed = {}
    BY DEF NoRun, NoSection
  <1>2. Docs' = Docs
    BY DEF Docs
  <1>3. PresentOK' /\ HashedOK'
    BY <1>1 DEF PresentOK, HashedOK, SectionsBefore, Scaffolded, Leaked, Late
  <1>4. SectionsAgree(run'.doc, run'.inventory, run'.windows)
    BY <1>1, OthersAgree
  <1> QED
    BY <1>2, <1>3, <1>4 DEF AgreeInv

LEMMA AgreementBegins == Init => AgreeInv
  <1> SUFFICES ASSUME Init PROVE AgreeInv
    OBVIOUS
  <1>1. run.pc = "idle" /\ DOMAIN run.doc = {} /\ run.hashed = {}
    BY DEF Init, NoRun, NoSection
  <1>2. PresentOK /\ HashedOK
    BY <1>1 DEF PresentOK, HashedOK, SectionsBefore, Scaffolded, Leaked, Late
  <1>3. SectionsAgree(run.doc, run.inventory, run.windows)
    BY <1>1, OthersAgree
  <1>4. Docs = {}
    BY DEF Docs, Init
  <1> QED
    BY <1>2, <1>3, <1>4 DEF AgreeInv

LEMMA OthersKeepTheAgreement ==
    ASSUME AgreeInv, Refresh \/ Amend \/ Refreeze \/ Rebind \/ UNCHANGED vars
    PROVE  AgreeInv'
  <1>1. run' = run /\ receipt' = receipt
    BY DEF Refresh, Amend, Refreeze, Rebind, Write, vars
  <1>2. Docs' = Docs
    BY <1>1 DEF Docs
  <1>3. PresentOK' /\ HashedOK'
    BY <1>1 DEF AgreeInv, PresentOK, HashedOK
  <1> QED
    BY <1>1, <1>2, <1>3 DEF AgreeInv

LEMMA StartAgrees == AgreeInv /\ Start => AgreeInv'
  <1> SUFFICES ASSUME AgreeInv, Start PROVE AgreeInv'
    OBVIOUS
  <1>1. receipt' = receipt
    BY DEF Start, files
  <1>2. PICK args \in Invocations :
            Refuse(args) \/ Undeclared(args) \/ FromDeclared(args) \/ FromData(args)
    BY DEF Start
  <1>3. CASE Refuse(args)
    BY <1>1, <1>3, AgreementStops DEF Refuse
  <1>4. CASE Undeclared(args)
    BY <1>1, <1>4, AgreementStops DEF Undeclared
  <1>5. ASSUME run'.pc \in {"packets", "inventory"}, DOMAIN run'.doc \subseteq {"leakage"},
               run'.pc = "inventory" => DOMAIN run'.doc = {}
        PROVE  AgreeInv'
    <2>1. PresentOK' /\ HashedOK'
      BY <1>5 DEF PresentOK, HashedOK, SectionsBefore
    <2>2. DOMAIN run'.doc \cap Told = {}
      BY <1>5 DEF Told
    <2>3. SectionsAgree(run'.doc, run'.inventory, run'.windows)
      BY <2>2, OthersAgree
    <2>4. Docs' = Docs
      BY <1>1 DEF Docs
    <2> QED
      BY <2>1, <2>3, <2>4 DEF AgreeInv
  <1>6. CASE FromDeclared(args)
    <2>1. PICK windows : run'.pc = "packets" /\ run'.doc = Entry("leakage", SplitLeakage(windows))
      BY <1>6 DEF FromDeclared, NoRun
    <2>2. DOMAIN run'.doc \subseteq {"leakage"}
      BY <2>1 DEF Entry
    <2> QED
      BY <1>5, <2>1, <2>2
  <1>7. CASE FromData(args)
    <2>1. run'.pc = "inventory" /\ DOMAIN run'.doc = {}
      BY <1>7 DEF FromData, NoRun, NoSection
    <2> QED
      BY <1>5, <2>1
  <1> QED
    BY <1>2, <1>3, <1>4, <1>6, <1>7

LEMMA TakeHashesAgrees == ChainInv /\ AgreeInv /\ TakeHashes => AgreeInv'
  <1> SUFFICES ASSUME ChainInv, AgreeInv, TakeHashes PROVE AgreeInv'
    OBVIOUS
  <1>1. receipt' = receipt
    BY DEF TakeHashes, files
  <1>2. CASE Failed
    BY <1>1, <1>2, AgreementStops DEF Failed
  <1>3. CASE HashesHold(run.pc, Given) /\ run' = [run EXCEPT !.hashed = {Given}]
    <2>1. /\ run'.inventory = run.inventory /\ run'.windows = run.windows
          /\ run'.torn = run.torn /\ run'.pc = run.pc /\ run'.doc = run.doc /\ run'.hashed = {Given}
      BY <1>3 DEF ChainInv, RunOK, Fields
    <2>2. Docs' = Docs
      BY <1>1 DEF Docs
    <2>3. PresentOK'
      BY <2>1 DEF AgreeInv, PresentOK
    <2>4. run.pc = "rows" => Unchanged(run.inventory, Given, DOMAIN run.inventory)
      BY <1>3 DEF HashesHold
    <2>5. run.pc = "adjustments" => Unchanged(run.inventory, Given, DOMAIN run.inventory \cap {"funding"})
      BY <1>3 DEF HashesHold
    <2>6. HashedOK'
      BY <2>1, <2>4, <2>5 DEF HashedOK
    <2> QED
      BY <2>1, <2>2, <2>3, <2>6 DEF AgreeInv
  <1> QED
    BY <1>2, <1>3 DEF TakeHashes

LEMMA TakeInventoryAgrees == ChainInv /\ AgreeInv /\ TakeInventory => AgreeInv'
  <1> SUFFICES ASSUME ChainInv, AgreeInv, TakeInventory PROVE AgreeInv'
    OBVIOUS
  <1>1. receipt' = receipt /\ run.pc = "inventory"
    BY DEF TakeInventory, files
  <1>2. PICK hashed : hashed = CHOOSE h \in run.hashed : TRUE
    OBVIOUS
  <1>3. PICK inventory : inventory = Inventory(hashed, Given)
    OBVIOUS
  <1>4. CASE Failed
    BY <1>1, <1>4, AgreementStops DEF Failed
  <1>5. CASE run' = [run EXCEPT !.pc = "rows", !.hashed = {}, !.inventory = inventory,
                       !.windows = Windows(inventory), !.torn = run.hashed # {Given}]
    <2>1. run'.pc = "rows" /\ run'.doc = run.doc /\ run'.hashed = {}
      BY <1>5 DEF ChainInv, RunOK, Fields
    <2>2. DOMAIN run'.doc = {}
      BY <1>1, <2>1 DEF AgreeInv, PresentOK
    <2>3. PresentOK' /\ HashedOK'
      BY <2>1, <2>2 DEF PresentOK, HashedOK, SectionsBefore
    <2>4. SectionsAgree(run'.doc, run'.inventory, run'.windows)
      BY <2>2, OthersAgree
    <2>5. Docs' = Docs
      BY <1>1 DEF Docs
    <2> QED
      BY <2>3, <2>4, <2>5 DEF AgreeInv
  <1> QED
    BY <1>2, <1>3, <1>4, <1>5 DEF TakeInventory

\* A pass goes on, with sections that agree if the files were those it digested.
LEMMA OpensAgrees ==
    ASSUME ChainInv, AgreeInv, NEW pass, NEW reads,
           NEW next \in DOMAIN SectionsBefore \cup {"leakage"}, NEW sections,
           Opens(pass, reads, next, sections),
           next \in DOMAIN SectionsBefore =>
               SectionsBefore[next] \subseteq DOMAIN sections \cup DOMAIN run.doc,
           next = "leakage" => Diagnosed \subseteq DOMAIN run.doc,
           (reads /\ ~run.torn /\ run.hashed = {Given}) =>
               SectionsAgree(sections, run.inventory, run.windows)
    PROVE  AgreeInv'
  <1>1. receipt' = receipt
    BY DEF Opens, files
  <1>2. CASE Failed
    BY <1>1, <1>2, AgreementStops DEF Failed
  <1>3. CASE reads /\ run' = [run EXCEPT !.pc = next, !.hashed = {}, !.doc = Over(sections, run.doc),
                                !.torn = run.torn \/ run.hashed # {Given}]
    <2>1. /\ run'.inventory = run.inventory /\ run'.windows = run.windows /\ run'.pc = next
          /\ run'.hashed = {} /\ run'.doc = Over(sections, run.doc)
          /\ run'.torn = (run.torn \/ run.hashed # {Given})
      BY <1>3 DEF ChainInv, RunOK, Fields
    <2>2. DOMAIN run'.doc = DOMAIN sections \cup DOMAIN run.doc
      BY <2>1 DEF Over
    <2>3. next \notin {"inventory", "write", "written"}
          /\ (next \in Scaffolded => next = "leakage")
      BY DEF SectionsBefore, Scaffolded, Leaked, Late
    <2>4. PresentOK'
      BY <2>1, <2>2, <2>3 DEF PresentOK
    <2>5. HashedOK'
      BY <2>1 DEF HashedOK
    <2>6. ASSUME ~run'.torn PROVE SectionsAgree(run'.doc, run'.inventory, run'.windows)
      <3>1. reads /\ ~run.torn /\ run.hashed = {Given}
        BY <1>3, <2>1, <2>6
      <3>2. SectionsAgree(run.doc, run.inventory, run.windows)
        BY <3>1 DEF AgreeInv
      <3>3. SectionsAgree(sections, run.inventory, run.windows)
        BY <3>1
      <3>4. SectionsAgree(Over(sections, run.doc), run.inventory, run.windows)
        BY <3>2, <3>3, SectionsExtend
      <3> QED
        BY <2>1, <3>4
    <2>7. Docs' = Docs
      BY <1>1 DEF Docs
    <2> QED
      BY <2>4, <2>5, <2>6, <2>7 DEF AgreeInv
  <1> QED
    BY <1>2, <1>3 DEF Opens

LEMMA AssignRowsAgrees == ChainInv /\ SurveyInv /\ JoinInv /\ AgreeInv /\ AssignRows => AgreeInv'
  <1> SUFFICES ASSUME ChainInv, SurveyInv, JoinInv, AgreeInv, AssignRows PROVE AgreeInv'
    OBVIOUS
  <1>1. PICK reads, sections :
            /\ sections = Entry("rows", RowMaterialization(run.windows, Given))
            /\ Opens("rows", reads, "adjustments", sections)
    BY DEF AssignRows
  <1>2. run.pc = "rows"
    BY <1>1 DEF Opens
  <1>3. DOMAIN sections = {"rows"} /\ sections["rows"] = RowMaterialization(run.windows, Given)
    BY <1>1 DEF Entry
  <1>4. ASSUME ~run.torn, run.hashed = {Given} PROVE SectionsAgree(sections, run.inventory, run.windows)
    <2>1. DOMAIN run.inventory # {}
      BY <1>2 DEF JoinInv, ReachedOK
    <2>2. Surveyed(run.inventory) = Given
      BY <1>2, <1>4, <2>1, UnchangedIsSurveyed DEF AgreeInv, HashedOK
    <2> QED
      BY <1>3, <2>2 DEF SectionsAgree
  <1>5. PICK next : next = "adjustments"
    OBVIOUS
  <1>6. /\ next \in DOMAIN SectionsBefore /\ next # "leakage"
        /\ SectionsBefore[next] \subseteq DOMAIN sections
    BY <1>3, <1>5 DEF SectionsBefore
  <1>7. Opens("rows", reads, next, sections)
    BY <1>1, <1>5
  <1> QED
    BY <1>4, <1>6, <1>7, OpensAgrees

LEMMA JoinsAtAgrees ==
    ASSUME ChainInv, SurveyInv, JoinInv, AgreeInv,
           NEW pass \in {"joinability", "convention", "canonicalization"}, NEW next \in DOMAIN SectionsBefore,
           NEW sections, JoinsAt(pass, next, sections),
           SectionsBefore[next] \subseteq DOMAIN sections \cup SectionsBefore[pass],
           (/\ DOMAIN run.inventory = Roles /\ Surveyed(run.inventory) = Given
            /\ \A role \in Roles, s \in Symbols : IsOrdered(Surveyed(run.inventory)[role][s])) =>
               SectionsAgree(sections, run.inventory, run.windows)
    PROVE  AgreeInv'
  <1>1. PICK hashed : hashed = CHOOSE h \in run.hashed : TRUE
    OBVIOUS
  <1>2. Opens(pass, Loads(run.inventory, hashed, Given), next, sections)
    BY <1>1 DEF JoinsAt
  <1>3. run.pc = pass
    BY <1>2 DEF Opens
  <1>4. WithFunding /\ DOMAIN run.inventory # {}
    BY <1>3 DEF JoinInv, ReachedOK, Joining
  <1>5. pass \in DOMAIN SectionsBefore /\ next # "leakage"
    BY DEF SectionsBefore
  <1>6. SectionsBefore[next] \subseteq DOMAIN sections \cup DOMAIN run.doc
    BY <1>3, <1>5 DEF AgreeInv, PresentOK
  <1>7. ASSUME Loads(run.inventory, hashed, Given), ~run.torn, run.hashed = {Given}
        PROVE  SectionsAgree(sections, run.inventory, run.windows)
    <2>1. hashed = Given
      <3>1. (CHOOSE h \in run.hashed : TRUE) = Given
        BY <1>7
      <3> QED
        BY <1>1, <3>1
    <2>2. DOMAIN run.inventory = Roles
      <3>1. DataRoles = Roles
        BY <1>4 DEF DataRoles
      <3> QED
        BY <1>4, <3>1 DEF SurveyInv, SurveyOK
    <2>3. Surveyed(run.inventory) = Given
      BY <1>4, <1>7, <2>1, UnchangedIsSurveyed DEF Loads
    <2>4. \A role \in Roles, s \in Symbols : IsOrdered(Surveyed(run.inventory)[role][s])
      <3> SUFFICES ASSUME NEW role \in Roles, NEW s \in Symbols PROVE IsOrdered(Given[role][s])
        BY <2>3
      <3>1. IsSurvey(Given, run.inventory, run.windows)
        BY <1>4, <1>7, <2>3 DEF SurveyInv, SurveyOK, IsSurveyed
      <3>2. DOMAIN Given = Roles
        BY <2>2, <2>3 DEF Surveyed
      <3>3. DOMAIN run.inventory[role] = Symbols /\ IsFile(Given[role][s])
        BY <3>1, <3>2, SurveyIs
      <3>4. LoadsFile(run.inventory[role][s], Given[role][s])
        BY <1>7, <2>2, <3>3 DEF Loads
      <3> QED
        BY <3>3, <3>4 DEF LoadsFile, IsOrdered
    <2> QED
      BY <2>2, <2>3, <2>4
  <1> QED
    BY <1>2, <1>5, <1>6, <1>7, OpensAgrees

LEMMA DiagnosesAgree ==
    ASSUME ChainInv, SurveyInv, JoinInv, AgreeInv,
           DiagnoseJoinability \/ DiagnoseConvention \/ Canonicalize
    PROVE  AgreeInv'
  <1>1. CASE DiagnoseJoinability
    <2>1. PICK sections : sections = Entry("joinability", Joinability(run.windows, Given))
      OBVIOUS
    <2>2. DOMAIN sections = {"joinability"} /\ sections["joinability"] = Joinability(run.windows, Given)
      BY <2>1 DEF Entry
    <2>3. (/\ DOMAIN run.inventory = Roles /\ Surveyed(run.inventory) = Given
           /\ \A role \in Roles, s \in Symbols : IsOrdered(Surveyed(run.inventory)[role][s])) =>
              SectionsAgree(sections, run.inventory, run.windows)
      BY <2>2 DEF SectionsAgree
    <2>4. /\ "convention" \in DOMAIN SectionsBefore
          /\ SectionsBefore["convention"] \subseteq DOMAIN sections \cup SectionsBefore["joinability"]
      BY <2>2 DEF SectionsBefore
    <2>5. JoinsAt("joinability", "convention", sections)
      BY <1>1, <2>1 DEF DiagnoseJoinability
    <2> QED
      BY <2>3, <2>4, <2>5, JoinsAtAgrees
  <1>2. CASE DiagnoseConvention
    <2>1. PICK sections : sections = Entry("convention", Convention(run.windows, Given))
      OBVIOUS
    <2>2. DOMAIN sections = {"convention"} /\ sections["convention"] = Convention(run.windows, Given)
      BY <2>1 DEF Entry
    <2>3. (/\ DOMAIN run.inventory = Roles /\ Surveyed(run.inventory) = Given
           /\ \A role \in Roles, s \in Symbols : IsOrdered(Surveyed(run.inventory)[role][s])) =>
              SectionsAgree(sections, run.inventory, run.windows)
      BY <2>2 DEF SectionsAgree
    <2>4. /\ "canonicalization" \in DOMAIN SectionsBefore
          /\ SectionsBefore["canonicalization"] \subseteq DOMAIN sections \cup SectionsBefore["convention"]
      BY <2>2 DEF SectionsBefore
    <2>5. JoinsAt("convention", "canonicalization", sections)
      BY <1>2, <2>1 DEF DiagnoseConvention
    <2> QED
      BY <2>3, <2>4, <2>5, JoinsAtAgrees
  <1>3. CASE Canonicalize
    <2>1. PICK canon : canon = Canonicalization(run.windows, Given)
      OBVIOUS
    <2>2. PICK sections : sections = [canonicalization |-> canon,
                readiness |-> Readiness(run.doc["alignment"], run.doc["joinability"],
                                        run.doc["convention"], canon)]
      OBVIOUS
    <2>3. DOMAIN sections \cap Told = {}
      BY <2>2 DEF Told
    <2>4. SectionsAgree(sections, run.inventory, run.windows)
      BY <2>3, OthersAgree
    <2>5. /\ "scaffold" \in DOMAIN SectionsBefore
          /\ SectionsBefore["scaffold"] \subseteq DOMAIN sections \cup SectionsBefore["canonicalization"]
      BY DEF SectionsBefore
    <2>6. JoinsAt("canonicalization", "scaffold", sections)
      BY <1>3, <2>1, <2>2 DEF Canonicalize
    <2> QED
      BY <2>4, <2>5, <2>6, JoinsAtAgrees
  <1> QED
    BY <1>1, <1>2, <1>3

\* The fundings opened are those of the inventory, and of the rows counted there.
LEMMA AdjustAgrees == ChainInv /\ SurveyInv /\ JoinInv /\ AgreeInv /\ Adjust => AgreeInv'
  <1> SUFFICES ASSUME ChainInv, SurveyInv, JoinInv, AgreeInv, Adjust PROVE AgreeInv'
    OBVIOUS
  <1>1. PICK reads, sections :
            /\ sections = Entry("alignment", Alignment(run.doc["rows"], FundingAdjustments(run.windows, Given)))
            /\ Opens("adjustments", reads, "joinability", sections)
    BY DEF Adjust
  <1>2. run.pc = "adjustments" /\ WithFunding
    BY DEF Adjust
  <1>3. /\ DOMAIN sections = {"alignment"}
        /\ sections["alignment"] = Alignment(run.doc["rows"], FundingAdjustments(run.windows, Given))
    BY <1>1 DEF Entry
  <1>4. ASSUME ~run.torn, run.hashed = {Given} PROVE SectionsAgree(sections, run.inventory, run.windows)
    <2>1. DataRoles = Roles /\ DOMAIN run.inventory = Roles /\ "funding" \in Roles
      <3>1. DataRoles = Roles
        BY <1>2 DEF DataRoles
      <3>2. DOMAIN run.inventory # {}
        BY <1>2 DEF JoinInv, ReachedOK
      <3> QED
        BY <3>1, <3>2 DEF SurveyInv, SurveyOK, Roles
    <2>2. IsSurvey(Surveyed(run.inventory), run.inventory, run.windows)
      BY <1>4, <2>1 DEF SurveyInv, SurveyOK, IsSurveyed
    <2>3. DOMAIN Surveyed(run.inventory) = Roles
      BY <2>1 DEF Surveyed
    <2>4. DOMAIN run.inventory["funding"] = Symbols
      BY <2>1, <2>2, <2>3, SurveyIs
    <2>5. Unchanged(run.inventory, Given, DOMAIN run.inventory \cap {"funding"})
      BY <1>2, <1>4 DEF AgreeInv, HashedOK
    <2>6. \A s \in Symbols : run.inventory["funding"][s].sha = Given["funding"][s]
      BY <2>1, <2>4, <2>5 DEF Unchanged
    <2>7. Surveyed(run.inventory)["funding"] = [s \in Symbols |-> Given["funding"][s]]
      BY <2>1, <2>6 DEF Surveyed
    <2>8. Given["funding"] = [s \in Symbols |-> Given["funding"][s]]
      <3>1. Given["funding"] = [s \in Symbols |-> data["funding"][s]]
        BY <2>1, GivenAreFiles DEF SurveyInv
      <3> QED
        BY <3>1
    <2>9. FundingAdjustments(run.windows, Given)
              = FundingAdjustments(run.windows, Surveyed(run.inventory))
      BY <2>7, <2>8 DEF FundingAdjustments
    <2>10. "rows" \in DOMAIN run.doc
      BY <1>2 DEF AgreeInv, PresentOK, SectionsBefore
    <2>11. run.doc["rows"] = RowMaterialization(run.windows, Surveyed(run.inventory))
      BY <1>4, <2>10 DEF AgreeInv, SectionsAgree
    <2> QED
      BY <1>3, <2>1, <2>9, <2>11 DEF SectionsAgree
  <1>5. PICK next : next = "joinability"
    OBVIOUS
  <1>6. /\ next \in DOMAIN SectionsBefore /\ next # "leakage"
        /\ SectionsBefore[next] \subseteq DOMAIN sections \cup SectionsBefore["adjustments"]
        /\ "adjustments" \in DOMAIN SectionsBefore
    BY <1>3, <1>5 DEF SectionsBefore
  <1>7. SectionsBefore[next] \subseteq DOMAIN sections \cup DOMAIN run.doc
    BY <1>2, <1>6 DEF AgreeInv, PresentOK
  <1>8. Opens("adjustments", reads, next, sections)
    BY <1>1, <1>5
  <1> QED
    BY <1>4, <1>6, <1>7, <1>8, OpensAgrees

LEMMA LeaveFundingOutAgrees == ChainInv /\ JoinInv /\ AgreeInv /\ LeaveFundingOut => AgreeInv'
  <1> SUFFICES ASSUME ChainInv, JoinInv, AgreeInv, LeaveFundingOut PROVE AgreeInv'
    OBVIOUS
  <1>1. /\ receipt' = receipt /\ run.pc = "adjustments" /\ run'.pc = "leakage"
        /\ run'.doc = run.doc /\ run'.inventory = run.inventory /\ run'.windows = run.windows
        /\ run'.torn = run.torn /\ run'.hashed = {}
    BY DEF LeaveFundingOut, files, ChainInv, RunOK, Fields
  <1>2. "alignment" \notin DOMAIN run'.doc
    BY <1>1 DEF JoinInv, ReachedOK
  <1>3. PresentOK' /\ HashedOK'
    BY <1>1, <1>2 DEF PresentOK, HashedOK, SectionsBefore
  <1>4. Docs' = Docs
    BY <1>1 DEF Docs
  <1> QED
    BY <1>1, <1>3, <1>4 DEF AgreeInv

LEMMA BuildScaffoldAgrees == ChainInv /\ AgreeInv /\ BuildScaffold => AgreeInv'
  <1> SUFFICES ASSUME ChainInv, AgreeInv, BuildScaffold PROVE AgreeInv'
    OBVIOUS
  <1>1. PICK reads, sections :
            /\ DOMAIN sections = {"scaffold", "policy", "aggregate"}
            /\ Opens("scaffold", reads, "leakage", sections)
    <2>1. PICK scaffold : scaffold = Scaffold(run.doc["readiness"], Given)
      OBVIOUS
    <2>2. PICK sections : sections = [scaffold |-> scaffold, policy |-> PolicyContract(scaffold),
                                      aggregate |-> SampleAggregate(RowScaffold(scaffold))]
      OBVIOUS
    <2>3. DOMAIN sections = {"scaffold", "policy", "aggregate"}
      BY <2>2
    <2> QED
      BY <2>1, <2>2, <2>3 DEF BuildScaffold
  <1>2. DOMAIN sections \cap Told = {}
    BY <1>1 DEF Told
  <1>3. SectionsAgree(sections, run.inventory, run.windows)
    BY <1>2, OthersAgree
  <1>4. run.pc = "scaffold"
    BY <1>1 DEF Opens
  <1>5. "scaffold" \in DOMAIN SectionsBefore /\ Diagnosed \subseteq SectionsBefore["scaffold"]
    BY DEF SectionsBefore, Diagnosed
  <1>6. Diagnosed \subseteq DOMAIN run.doc
    BY <1>4, <1>5 DEF AgreeInv, PresentOK
  <1>7. PICK next : next = "leakage"
    OBVIOUS
  <1>8. next \notin DOMAIN SectionsBefore /\ next \in DOMAIN SectionsBefore \cup {"leakage"}
    BY <1>7 DEF SectionsBefore
  <1>9. Opens("scaffold", reads, next, sections)
    BY <1>1, <1>7
  <1> QED
    BY <1>3, <1>6, <1>8, <1>9, OpensAgrees

-----------------------------------------------------------------------------
\* After the scaffold a run adds sections and takes none away.
LEMMA AgreementGoesOn ==
    ASSUME AgreeInv, receipt' = receipt, run.pc \in Scaffolded, run'.pc \in Scaffolded,
           run'.inventory = run.inventory, run'.windows = run.windows, run.torn => run'.torn,
           NEW sections, run'.doc = Over(sections, run.doc), "alignment" \notin DOMAIN sections,
           ~run'.torn => SectionsAgree(sections, run.inventory, run.windows),
           run'.pc \in {"write", "written"} => "emitted" \in DOMAIN sections
    PROVE  AgreeInv'
  <1>1. DOMAIN run'.doc = DOMAIN sections \cup DOMAIN run.doc
    BY DEF Over
  <1>2. run'.pc # "inventory" /\ run'.pc \notin DOMAIN SectionsBefore
        /\ run'.pc \notin {"rows", "adjustments"}
    BY DEF Scaffolded, Leaked, Late, SectionsBefore
  <1>3. "alignment" \in DOMAIN run'.doc => Diagnosed \subseteq DOMAIN run'.doc
    BY <1>1 DEF AgreeInv, PresentOK
  <1>4. PresentOK' /\ HashedOK'
    BY <1>1, <1>2, <1>3 DEF PresentOK, HashedOK
  <1>5. ASSUME ~run'.torn PROVE SectionsAgree(run'.doc, run'.inventory, run'.windows)
    <2>1. SectionsAgree(run.doc, run.inventory, run.windows)
      BY <1>5 DEF AgreeInv
    <2>2. SectionsAgree(sections, run.inventory, run.windows)
      BY <1>5
    <2>3. SectionsAgree(Over(sections, run.doc), run.inventory, run.windows)
      BY <2>1, <2>2, SectionsExtend
    <2> QED
      BY <2>3
  <1>6. Docs' = Docs
    BY DEF Docs
  <1> QED
    BY <1>4, <1>5, <1>6 DEF AgreeInv

LEMMA AuditSplitsAgrees == ChainInv /\ AgreeInv /\ AuditSplits => AgreeInv'
  <1> SUFFICES ASSUME ChainInv, AgreeInv, AuditSplits PROVE AgreeInv'
    OBVIOUS
  <1>1. PICK sections : sections = Entry("leakage", SplitLeakage(run.windows))
    OBVIOUS
  <1>2. /\ receipt' = receipt /\ run.pc \in Scaffolded /\ run'.pc \in Scaffolded
        /\ run'.inventory = run.inventory /\ run'.windows = run.windows /\ run'.torn = run.torn
        /\ run'.doc = Over(sections, run.doc) /\ run'.pc = "packets"
    BY <1>1 DEF AuditSplits, files, ChainInv, RunOK, Fields, Scaffolded, Leaked
  <1>3. DOMAIN sections \cap Told = {} /\ "alignment" \notin DOMAIN sections
    BY <1>1 DEF Entry, Told
  <1>4. SectionsAgree(sections, run.inventory, run.windows)
    BY <1>3, OthersAgree
  <1> QED
    BY <1>2, <1>3, <1>4, AgreementGoesOn

\* As AgreementGoesOn, of a step that says nothing.
LEMMA AgreementStays ==
    ASSUME AgreeInv, receipt' = receipt, run.pc \in Scaffolded,
           run'.pc \in Scaffolded \ {"write", "written"},
           run'.inventory = run.inventory, run'.windows = run.windows, run'.torn = run.torn,
           run'.doc = run.doc
    PROVE  AgreeInv'
  <1>1. run'.pc # "inventory" /\ run'.pc \notin DOMAIN SectionsBefore
        /\ run'.pc \notin {"rows", "adjustments"}
    BY DEF Scaffolded, Leaked, Late, SectionsBefore
  <1>2. "alignment" \in DOMAIN run'.doc => Diagnosed \subseteq DOMAIN run'.doc
    BY DEF AgreeInv, PresentOK
  <1>3. PresentOK' /\ HashedOK'
    BY <1>1, <1>2 DEF PresentOK, HashedOK
  <1>4. Docs' = Docs
    BY DEF Docs
  <1> QED
    BY <1>3, <1>4 DEF AgreeInv

LEMMA ReadPacketAgrees == ChainInv /\ AgreeInv /\ ReadPacket => AgreeInv'
  <1> SUFFICES ASSUME ChainInv, AgreeInv, ReadPacket PROVE AgreeInv'
    OBVIOUS
  <1>1. receipt' = receipt /\ run.pc = "packets"
    BY DEF ReadPacket, files
  <1>2. CASE Failed
    BY <1>1, <1>2, AgreementStops DEF Failed
  <1>3. CASE \E p \in Packets : \E c, seen :
                 run' = [run EXCEPT !.at = @ + 1, !.seen = seen, !.doc = Over(Entry(p, c), run.doc)]
    <2>1. PICK p \in Packets :
              \E c, seen : run' = [run EXCEPT !.at = @ + 1, !.seen = seen, !.doc = Over(Entry(p, c), run.doc)]
      BY <1>3
    <2>2. PICK c, seen : run' = [run EXCEPT !.at = @ + 1, !.seen = seen, !.doc = Over(Entry(p, c), run.doc)]
      BY <2>1
    <2>3. PICK sections : sections = Entry(p, c)
      OBVIOUS
    <2>4. /\ run'.inventory = run.inventory /\ run'.windows = run.windows /\ run'.torn = run.torn
          /\ run'.pc = "packets" /\ run'.doc = Over(sections, run.doc)
      BY <1>1, <2>2, <2>3 DEF ChainInv, RunOK, Fields
    <2>5. DOMAIN sections \cap Told = {} /\ "alignment" \notin DOMAIN sections
      BY <2>3, PacketsAre DEF Entry, Told
    <2>6. SectionsAgree(sections, run.inventory, run.windows)
      BY <2>5, OthersAgree
    <2>7. run.pc \in Scaffolded /\ run'.pc \in Scaffolded
      BY <1>1, <2>4 DEF Scaffolded, Leaked
    <2> QED
      BY <1>1, <2>4, <2>5, <2>6, <2>7, AgreementGoesOn
  <1>4. CASE \E seen : run' = [run EXCEPT !.at = @ + 1, !.seen = seen]
    <2>1. PICK seen : run' = [run EXCEPT !.at = @ + 1, !.seen = seen]
      BY <1>4
    <2>2. /\ run'.inventory = run.inventory /\ run'.windows = run.windows /\ run'.torn = run.torn
          /\ run'.pc = "packets" /\ run'.doc = run.doc
      BY <1>1, <2>1 DEF ChainInv, RunOK, Fields
    <2>3. run.pc \in Scaffolded /\ run'.pc \in Scaffolded \ {"write", "written"}
      BY <1>1, <2>2 DEF Scaffolded, Leaked
    <2> QED
      BY <1>1, <2>2, <2>3, AgreementStays
  <1>5. Chain[run.at] \in Packets
    BY DEF ReadPacket, Packets
  <1> QED
    BY <1>2, <1>3, <1>4, <1>5 DEF ReadPacket

LEMMA CloseChainAgrees == ChainInv /\ AgreeInv /\ CloseChain => AgreeInv'
  <1> SUFFICES ASSUME ChainInv, AgreeInv, CloseChain PROVE AgreeInv'
    OBVIOUS
  <1>1. /\ receipt' = receipt /\ run.pc = "packets" /\ run'.pc = "temporal"
        /\ run'.inventory = run.inventory /\ run'.windows = run.windows /\ run'.torn = run.torn
        /\ run'.doc = run.doc
    BY DEF CloseChain, files, ChainInv, RunOK, Fields
  <1>2. run.pc \in Scaffolded /\ run'.pc \in Scaffolded \ {"write", "written"}
    BY <1>1 DEF Scaffolded, Leaked, Late
  <1> QED
    BY <1>1, <1>2, AgreementStays

LEMMA OpensIfAnyAgrees ==
    ASSUME ChainInv, AgreeInv, NEW pass \in Late, NEW next \in Late \ {"written"}, NEW gates, NEW sections,
           OpensIfAny(pass, next, gates, sections), "alignment" \notin DOMAIN sections,
           (~run.torn /\ (HasData => run.hashed = {Given})) =>
               SectionsAgree(sections, run.inventory, run.windows),
           next = "write" => "emitted" \in DOMAIN sections
    PROVE  AgreeInv'
  <1>1. receipt' = receipt /\ run.pc = pass
    BY DEF OpensIfAny, files
  <1>2. /\ run'.inventory = run.inventory /\ run'.windows = run.windows /\ run'.pc = next
        /\ run'.torn = (run.torn \/ (HasData /\ run.hashed # {Given}))
        /\ run'.doc = Over(sections, run.doc)
    BY DEF OpensIfAny, ChainInv, RunOK, Fields
  <1>3. run.pc \in Scaffolded /\ run'.pc \in Scaffolded /\ (run.torn => run'.torn)
    BY <1>1, <1>2 DEF Scaffolded, Leaked
  <1>4. ~run'.torn => SectionsAgree(sections, run.inventory, run.windows)
    BY <1>2
  <1>5. run'.pc \in {"write", "written"} => "emitted" \in DOMAIN sections
    BY <1>2
  <1> QED
    BY <1>1, <1>2, <1>3, <1>4, <1>5, AgreementGoesOn

LEMMA ChecksAgree ==
    ASSUME ChainInv, AgreeInv, CheckTimes \/ CheckJoins
    PROVE  AgreeInv'
  <1>1. DOMAIN NoSection \cap Told = {} /\ "alignment" \notin DOMAIN NoSection
    BY DEF NoSection
  <1>2. SectionsAgree(NoSection, run.inventory, run.windows)
    BY <1>1, OthersAgree
  <1>3. CASE CheckTimes
    <2>1. PICK gates : OpensIfAny("temporal", "joins", gates, NoSection)
      BY <1>3 DEF CheckTimes
    <2>2. "temporal" \in Late /\ "joins" \in Late \ {"written"} /\ "joins" # "write"
      BY DEF Late
    <2> QED
      BY <1>1, <1>2, <2>1, <2>2, OpensIfAnyAgrees
  <1>4. CASE CheckJoins
    <2>1. PICK gates : OpensIfAny("joins", "rule_rows", gates, NoSection)
      BY <1>4 DEF CheckJoins
    <2>2. "joins" \in Late /\ "rule_rows" \in Late \ {"written"} /\ "rule_rows" # "write"
      BY DEF Late
    <2> QED
      BY <1>1, <1>2, <2>1, <2>2, OpensIfAnyAgrees
  <1> QED
    BY <1>3, <1>4

\* The rows extracted of files that are those of the inventory are of them.
LEMMA ExtractedAre ==
    ASSUME ChainInv, SurveyInv, ~run.torn, HasData => run.hashed = {Given}, NEW hashed,
           hashed = CHOOSE h \in run.hashed \cup {NoInventory} : run.hashed # {} => h \in run.hashed,
           NEW found, found = ExtractRows(run.inventory, run.windows, hashed, Given).rows, found # {}
    PROVE  /\ DOMAIN run.inventory = Roles
           /\ found = RowsOf(run.inventory, run.windows, Surveyed(run.inventory))
  <1>1. PICK all : all = RowsOf(run.inventory, run.windows, Given)
    OBVIOUS
  <1>2. DOMAIN run.inventory = Roles /\ Loads(run.inventory, hashed, Given) /\ found = all
    BY <1>1 DEF ExtractRows
  <1>3. HasData /\ DOMAIN run.inventory # {}
    BY <1>2 DEF HasData, NoInventory, Roles
  <1>4. hashed = Given
    <2>1. run.hashed # {} /\ \E h \in run.hashed \cup {NoInventory} : run.hashed # {} => h \in run.hashed
      BY <1>3
    <2>2. hashed \in run.hashed
      BY <2>1
    <2> QED
      BY <1>3, <2>2
  <1>5. Surveyed(run.inventory) = Given
    BY <1>2, <1>3, <1>4, UnchangedIsSurveyed DEF Loads
  <1> QED
    BY <1>1, <1>2, <1>5

LEMMA ExtractAgrees == ChainInv /\ SurveyInv /\ AgreeInv /\ ExtractAndProject => AgreeInv'
  <1> SUFFICES ASSUME ChainInv, SurveyInv, AgreeInv, ExtractAndProject PROVE AgreeInv'
    OBVIOUS
  <1>1. PICK hashed : hashed = CHOOSE h \in run.hashed \cup {NoInventory} :
                                   run.hashed # {} => h \in run.hashed
    OBVIOUS
  <1>2. PICK extracted : extracted = ExtractRows(run.inventory, run.windows, hashed, Given)
    OBVIOUS
  <1>3. PICK last : last = GatesToTheEnd(GatesToReadiness(GatesToEconomicRows(run.gates, extracted)))
    OBVIOUS
  <1>4. PICK sections : sections = Entry("emitted", last.rows)
    OBVIOUS
  <1>5. OpensIfAny("rule_rows", "write", last.gates, sections)
    BY <1>1, <1>2, <1>3, <1>4 DEF ExtractAndProject
  <1>6. PrefixTo(run.gates, 12)
    BY <1>5 DEF OpensIfAny, ChainInv, GatesOK
  <1>7. Carrier(last, 30)
    BY <1>3, <1>6, GatesToTheEndAre
  <1>8. PICK rows : rows = RuleRowsDiagnostics(run.gates, extracted).rows
    OBVIOUS
  <1>9. last.rows["rule_rows"] = rows
    BY <1>3, <1>8, RuleRowsStay
  <1>10. DOMAIN sections = {"emitted"} /\ sections["emitted"] = last.rows
    BY <1>4 DEF Entry
  <1>11. ASSUME ~run.torn, HasData => run.hashed = {Given}
         PROVE  SectionsAgree(sections, run.inventory, run.windows)
    <2>1. rows # {} => rows = extracted.rows
      BY <1>8 DEF RuleRowsDiagnostics
    <2>2. rows # {} => /\ DOMAIN run.inventory = Roles
                       /\ rows = RowsOf(run.inventory, run.windows, Surveyed(run.inventory))
      BY <1>1, <1>2, <1>11, <2>1, ExtractedAre
    <2>3. last.rows["counts"] # <<>> =>
              last.rows["inference_rows"][1] = Cardinality(last.rows["rule_rows"])
      BY <1>7 DEF Carrier, InferenceFollows
    <2>4. EmittedAgree(last.rows, run.inventory, run.windows)
      BY <1>9, <2>2, <2>3 DEF EmittedAgree
    <2> QED
      BY <1>10, <2>4 DEF SectionsAgree
  <1>12. "rule_rows" \in Late /\ "write" \in Late \ {"written"}
    BY DEF Late
  <1>13. "alignment" \notin DOMAIN sections /\ "emitted" \in DOMAIN sections
    BY <1>10
  <1> QED
    BY <1>5, <1>11, <1>12, <1>13, OpensIfAnyAgrees

LEMMA BeginWriteAgrees == ChainInv /\ AgreeInv /\ BeginWrite => AgreeInv'
  <1> SUFFICES ASSUME ChainInv, AgreeInv, BeginWrite PROVE AgreeInv'
    OBVIOUS
  <1>1. /\ run.pc = "write" /\ run'.pc = "written"
        /\ run'.inventory = run.inventory /\ run'.windows = run.windows
        /\ run'.torn = run.torn /\ run'.doc = run.doc
    BY DEF BeginWrite, ChainInv, RunOK, Fields
  <1>2. run.pc \in Scaffolded /\ run'.pc \in Scaffolded /\ run'.pc \notin DOMAIN SectionsBefore
    BY <1>1 DEF Scaffolded, Leaked, Late, SectionsBefore
  <1>3. PresentOK' /\ HashedOK'
    BY <1>1, <1>2 DEF AgreeInv, PresentOK, HashedOK
  <1>4. Docs' = {}
    BY DEF BeginWrite, Docs
  <1> QED
    BY <1>1, <1>3, <1>4 DEF AgreeInv

LEMMA EndWriteAgrees == ChainInv /\ AgreeInv /\ EndWrite => AgreeInv'
  <1> SUFFICES ASSUME ChainInv, AgreeInv, EndWrite PROVE AgreeInv'
    OBVIOUS
  <1>1. run.pc = "written" /\ run'.pc = "idle" /\ DOMAIN run'.doc = {} /\ run'.hashed = {}
    BY DEF EndWrite, NoRun, NoSection
  <1>2. PresentOK' /\ HashedOK'
    BY <1>1 DEF PresentOK, HashedOK, SectionsBefore, Scaffolded, Leaked, Late
  <1>3. SectionsAgree(run'.doc, run'.inventory, run'.windows)
    BY <1>1, OthersAgree
  <1>4. run.pc \in Scaffolded
    BY <1>1 DEF Scaffolded, Leaked, Late
  <1>5. PICK new : new = Receipt
    OBVIOUS
  <1>6. /\ \A k \in Told : k \in DOMAIN new <=> k \in DOMAIN run.doc
        /\ \A k \in Told : k \in DOMAIN run.doc => new[k] = run.doc[k]
    BY <1>5, ReceiptIs DEF Told
  <1>7. new["torn"] = run.torn /\ new["inventory"] = run.inventory /\ new["windows"] = run.windows
    BY <1>5, ReceiptIs
  <1>8. ASSUME ~run.torn PROVE SectionsAgree(new, run.inventory, run.windows)
    <2>1. SectionsAgree(run.doc, run.inventory, run.windows)
      BY <1>8 DEF AgreeInv
    <2> QED
      BY <1>6, <2>1, ToldAgree
  <1>9. "alignment" \in DOMAIN new => Diagnosed \cup {"emitted"} \subseteq DOMAIN new
    <2>1. "alignment" \in DOMAIN run.doc => Diagnosed \cup {"emitted"} \subseteq DOMAIN run.doc
      BY <1>1, <1>4 DEF AgreeInv, PresentOK
    <2> QED
      BY <1>6, <2>1 DEF Told, Diagnosed
  <1>10. AgreeingDoc(new)
    BY <1>7, <1>8, <1>9 DEF AgreeingDoc
  <1>11. \A doc \in Docs' : AgreeingDoc(doc)
    BY <1>5, <1>10, WrittenDoc
  <1> QED
    BY <1>2, <1>3, <1>11 DEF AgreeInv

\* The agreement invariant is one: what an untorn run has written down of its
\* data is of the files its inventory has the digests of, whichever pass read
\* them, and the rows of the rule with their counts are those of these files.
\* offline_edge_real_validation.py: main, every pass over the data up to the
\* receipt.
THEOREM AgreementInvariant == Spec => [](ChainInv /\ SurveyInv /\ JoinInv /\ AgreeInv)
  <1>1. ASSUME ChainInv, SurveyInv, JoinInv, AgreeInv, [Next]_vars PROVE AgreeInv'
    <2>1. CASE Refresh \/ Amend \/ Refreeze \/ Rebind \/ UNCHANGED vars
      BY <1>1, <2>1, OthersKeepTheAgreement
    <2>2. CASE Start
      BY <1>1, <2>2, StartAgrees
    <2>3. CASE TakeHashes
      BY <1>1, <2>3, TakeHashesAgrees
    <2>4. CASE TakeInventory
      BY <1>1, <2>4, TakeInventoryAgrees
    <2>5. CASE AssignRows
      BY <1>1, <2>5, AssignRowsAgrees
    <2>6. CASE Adjust
      BY <1>1, <2>6, AdjustAgrees
    <2>7. CASE LeaveFundingOut
      BY <1>1, <2>7, LeaveFundingOutAgrees
    <2>8. CASE DiagnoseJoinability \/ DiagnoseConvention \/ Canonicalize
      BY <1>1, <2>8, DiagnosesAgree
    <2>9. CASE BuildScaffold
      BY <1>1, <2>9, BuildScaffoldAgrees
    <2>10. CASE AuditSplits
      BY <1>1, <2>10, AuditSplitsAgrees
    <2>11. CASE ReadPacket
      BY <1>1, <2>11, ReadPacketAgrees
    <2>12. CASE CloseChain
      BY <1>1, <2>12, CloseChainAgrees
    <2>13. CASE CheckTimes \/ CheckJoins
      BY <1>1, <2>13, ChecksAgree
    <2>14. CASE ExtractAndProject
      BY <1>1, <2>14, ExtractAgrees
    <2>15. CASE BeginWrite
      BY <1>1, <2>15, BeginWriteAgrees
    <2>16. CASE EndWrite
      BY <1>1, <2>16, EndWriteAgrees
    <2>17. CASE Crash
      BY <1>1, <2>17, AgreementStops DEF Crash, files
    <2> QED
      BY <1>1, <2>1, <2>2, <2>3, <2>4, <2>5, <2>6, <2>7, <2>8, <2>9, <2>10, <2>11, <2>12, <2>13,
         <2>14, <2>15, <2>16, <2>17 DEF Next, RunStep
  <1> QED
    BY <1>1, AgreementBegins, JoinInvariant, PTL DEF Spec

\* In a receipt of a run over data no file of which was replaced while it was
\* read, all passes count the same bars and fundings in every window, the join
\* at no shift is the join itself, and when the rule has rows they are the
\* matches that were counted, and as many as the inference counts.
\* offline_edge_real_validation.py: the rows of each file, the funding
\* adjustments, the alignment, the joinability, the convention, the rows of the
\* rule and the inference input rows, each of which reads its files anew.
THEOREM DiagnosticsAreOne == Spec => []DiagnosticsAgree
  <1>1. SurveyInv /\ AgreeInv => DiagnosticsAgree
    <2> SUFFICES ASSUME SurveyInv, AgreeInv, NEW doc \in Docs, Sound(doc),
                        NEW s \in Symbols, NEW k \in DOMAIN doc["windows"], NEW part \in Parts
                 PROVE  LET join == doc["joinability"][s].windows[k][part]
                            rows == doc["emitted"]["rule_rows"]
                        IN /\ doc["rows"]["bars"][s].counts[k][part] = join.bars
                           /\ doc["rows"]["funding"][s].counts[k][part] = join.funding
                           /\ doc["alignment"][s].observed[k][part] = join.funding
                           /\ doc["convention"][s].windows[k][part].unshifted = join
                           /\ rows # {} => join.matched =
                                 Cardinality({r \in rows : r.symbol = s /\ r.split = k /\ r.part = part})
                           /\ rows # {} /\ doc["emitted"]["counts"] # <<>> =>
                                 doc["emitted"]["inference_rows"][1] = Cardinality(rows)
      BY DEF DiagnosticsAgree
    <2>1. PICK inventory, windows : inventory = doc["inventory"] /\ windows = doc["windows"]
      OBVIOUS
    <2>2. /\ ~doc["torn"] /\ "alignment" \in DOMAIN doc
          /\ SectionsAgree(doc, inventory, windows)
          /\ Diagnosed \cup {"emitted"} \subseteq DOMAIN doc
      BY <2>1 DEF Sound, AgreeInv, AgreeingDoc
    <2>3. DOMAIN inventory # {}
      BY <2>2 DEF SectionsAgree, Roles
    <2>4. IsSurvey(Surveyed(inventory), inventory, windows)
      BY <2>1, <2>2, <2>3 DEF SurveyInv, SurveyedDoc, IsSurveyed
    <2>5. k \in DOMAIN windows
      BY <2>1
    <2> QED
      BY <2>2, <2>4, <2>5, SectionsAgreeOnAWindow
  <1> QED
    BY <1>1, AgreementInvariant, PTL
=============================================================================
