---------------------------- MODULE HoldoutProofs ----------------------------
(***************************************************************************)
(* Proofs about the protocol slice of the offline-edge validation: what the   *)
(* seal of a receipt is over, what a gate that passes says of the packet that  *)
(* was registered, which rows the train score depends on, and what its        *)
(* decomposition adds up to.                                                *)
(***************************************************************************)
EXTENDS HoldoutProtocol, InductionFacts, TLAPS

-----------------------------------------------------------------------------
(* The invariant.                                                           *)

Single(s) == \A x, y \in s : x = y
Splits == [boundary : Int, purge : Int, embargo : Int]
EntryFields == {"cut", "split", "policy", "statistic", "seal", "packet", "gate"}
EntryOK(e) == DOMAIN e = EntryFields /\ \A f \in EntryFields : Single(e[f])

\* A run of the slice, and how far it is; a decomposition.
Sliced == {"audit", "lines", "projection", "seal", "compare", "lock", "gate", "bind", "train",
           "rates", "report"}
Audited == Sliced \ {"audit"}
Lined == Audited \ {"lines"}
Projected == Lined \ {"projection"}
Sealed == Projected \ {"seal"}
Compared == Sealed \ {"compare"}
Locked == Compared \ {"lock"}
Gated == Locked \ {"gate"}
Decomposing == {"contract", "slots", "components", "slotted", "decompose"}

RowsOver(values) == [t : Nat, v : values]
DataOK ==
    /\ edits \in 0..MaxEdits
    /\ bars \in Seq(RowsOver(Closes)) /\ bars # <<>>
    /\ funding \in Seq(RowsOver(Rates))
PacketOK(packet, seal, cut, split, commit) ==
    Single(packet) /\ \A p \in packet : \E rows \in seal : p = PacketOf(cut, split, rows, commit)
RunOK ==
    /\ run.pc \in {"idle"} \cup Sliced \cup Decomposing /\ "pc" \in DOMAIN run
    /\ run.pc # "idle" => {"split", "touched"} \subseteq DOMAIN run /\ run.split \in Splits
    /\ run.pc \in Sliced =>
          /\ {"commit", "roles", "cut", "entry"} \subseteq DOMAIN run
          /\ run.roles \in {{"bars"}, BothRoles} /\ EntryOK(run.entry)
    /\ run.pc \in Audited =>
          "audit" \in DOMAIN run /\ (run.audit.passed => run.entry.split = {run.split})
    /\ run.pc \in Lined => "lines" \in DOMAIN run
    /\ run.pc \in Projected => "rows" \in DOMAIN run
    /\ run.pc \in Sealed => "seal" \in DOMAIN run /\ Single(run.seal)
    /\ run.pc \in Compared =>
          "sealState" \in DOMAIN run /\ run.sealState = SealState(run.seal, run.entry.seal)
    /\ run.pc \in Locked =>
          /\ "packet" \in DOMAIN run
          /\ PacketOK(run.packet, run.seal, run.cut, run.entry.split, run.commit)
    /\ run.pc \in Gated =>
          /\ "gate" \in DOMAIN run /\ run.gate.state \in {"blocked", "gate_passed", "mismatch"}
          /\ run.gate.state = "gate_passed" => run.audit.passed /\ PacketLock = "locked"

\* What a read finds of the cut, while nothing of the quarantine was replaced.
Sound(rows, split) == Increasing(rows) /\ PartitionOK(Len(rows), split)
SameBars(b, c, split) ==
    /\ Len(b) = Len(c)
    /\ \A i \in 1..Len(c) : b[i].t = c[i].t /\ (i > QuarantineStart(split) => b[i] = c[i])
SameFunding(f, c, opening) ==
    /\ Len(f) = Len(c)
    /\ \A i \in 1..Len(c) : f[i].t = c[i].t /\ (c[i].t >= opening => f[i] = c[i])
Opening(cut, split) == At(cut.bars, QuarantineStart(split)).t
Clean ==
    /\ "quarantine" \notin run.touched
    /\ IF run.pc = "audit" THEN Sound(bars, run.split) ELSE run.audit.passed
SeenOK ==
    run.pc \in Sliced /\ Clean =>
        /\ run.cut.bars \in Seq(RowsOver(Closes)) /\ run.cut.funding \in Seq(RowsOver(Rates))
        /\ Sound(run.cut.bars, run.split) /\ SameBars(bars, run.cut.bars, run.split)
        /\ "funding" \in run.roles =>
              SameFunding(funding, run.cut.funding, Opening(run.cut, run.split))
        /\ "funding" \notin run.roles => run.cut.funding = <<>>
        /\ run.pc \in Audited =>
              /\ run.audit.rows = Len(run.cut.bars)
              /\ run.audit.holdout = HoldoutCount(Len(run.cut.bars), run.split)
        /\ run.pc \in Lined => SameBars(run.lines, run.cut.bars, run.split)
                               /\ run.lines \in Seq(RowsOver(Closes))
        /\ run.pc \in Projected => SameBars(run.rows, run.cut.bars, run.split)
                                   /\ run.rows \in Seq(RowsOver(Closes))
        /\ run.pc \in Sealed => run.seal \subseteq {QuarantineOf(run.cut, run.split, run.roles)}

ReceiptOK(r) ==
    /\ r.split \in Splits /\ EntryOK(r.entry) /\ Single(r.seal)
    /\ r.gate.state \in {"blocked", "gate_passed", "mismatch"}
    /\ r.sealState = SealState(r.seal, r.entry.seal)
    /\ r.packetState = PacketState(r.packet, r.entry.packet)
    /\ PacketOK(r.packet, r.seal, r.cut, r.entry.split, r.commit)
    /\ r.audited => r.entry.split = {r.split}
    /\ r.gate.state = "gate_passed" => r.audited /\ r.packetState = "locked"
    /\ r.audited /\ "quarantine" \notin r.touched =>
          r.seal \subseteq {QuarantineOf(r.cut, r.split, r.roles)}
HoldoutInv ==
    /\ DataOK /\ RunOK /\ SeenOK /\ EntryOK(entry)
    /\ \A r \in receipt : ReceiptOK(r)
    /\ \A a \in archive : a.source.split \in Splits

-----------------------------------------------------------------------------
(* Rows that are selected.                                                  *)

UptoIn(indices, m) == {j \in indices : j <= m}
RanksTaken(indices, m) ==
    \A k \in 1..RankIn(indices, m) : \E i \in indices : i <= m /\ RankIn(indices, i) = k

\* Each rank up to the number of the indices is that of one of them.
LEMMA RanksAreTaken ==
    ASSUME NEW n \in Nat, NEW indices, \A j \in indices : j \in 1..n
    PROVE  /\ Cardinality(indices) \in Nat
           /\ \A k \in 1..Cardinality(indices) : \E i \in indices : RankIn(indices, i) = k
  <1> DEFINE fine == {m \in Nat : /\ IsFiniteSet(UptoIn(indices, m))
                                 /\ RankIn(indices, m) \in Nat /\ RanksTaken(indices, m)}
  <1>0. \A j \in indices : j \in Int /\ 1 <= j /\ j <= n
    OBVIOUS
  <1>1. \A m : RankIn(indices, m) = Cardinality(UptoIn(indices, m))
    BY DEF RankIn, UptoIn
  <1>2. 0 \in fine
    <2>1. UptoIn(indices, 0) = {}
      BY <1>0 DEF UptoIn
    <2>2. IsFiniteSet(UptoIn(indices, 0)) /\ RankIn(indices, 0) = 0
      BY <1>1, <2>1, FS_EmptySet
    <2> QED
      BY <2>2 DEF RanksTaken
  <1>3. ASSUME NEW m \in Nat, m \in fine PROVE m + 1 \in fine
    <2>1. /\ IsFiniteSet(UptoIn(indices, m)) /\ RankIn(indices, m) \in Nat
          /\ RanksTaken(indices, m)
      BY <1>3
    <2>2. CASE m + 1 \notin indices
      <3>1. UptoIn(indices, m + 1) = UptoIn(indices, m)
        BY <1>0, <2>2 DEF UptoIn
      <3>2. RankIn(indices, m + 1) = RankIn(indices, m)
        BY <1>1, <3>1
      <3>3. ASSUME NEW i \in indices, i <= m PROVE i <= m + 1
        BY <3>3
      <3>4. RanksTaken(indices, m + 1)
        BY <2>1, <3>2, <3>3 DEF RanksTaken
      <3> QED
        BY <2>1, <3>1, <3>2, <3>4
    <2>3. CASE m + 1 \in indices
      <3>1. UptoIn(indices, m + 1) = UptoIn(indices, m) \cup {m + 1} /\ m + 1 \notin UptoIn(indices, m)
        BY <1>0, <2>3 DEF UptoIn
      <3>2. PICK old : old = UptoIn(indices, m)
        OBVIOUS
      <3>3. IsFiniteSet(old \cup {m + 1}) /\ Cardinality(old \cup {m + 1}) = Cardinality(old) + 1
        BY <2>1, <3>1, <3>2, FS_AddElement
      <3>4. /\ IsFiniteSet(UptoIn(indices, m + 1))
            /\ RankIn(indices, m + 1) = RankIn(indices, m) + 1
        BY <1>1, <3>1, <3>2, <3>3
      <3>5. ASSUME NEW k \in 1..RankIn(indices, m + 1)
            PROVE  \E i \in indices : i <= m + 1 /\ RankIn(indices, i) = k
        <4>1. CASE k = RankIn(indices, m + 1)
          BY <2>3, <4>1
        <4>2. CASE k # RankIn(indices, m + 1)
          <5>1. k \in 1..RankIn(indices, m)
            BY <2>1, <3>4, <4>2
          <5>2. PICK i \in indices : i <= m /\ RankIn(indices, i) = k
            BY <2>1, <5>1 DEF RanksTaken
          <5>3. i <= m + 1
            BY <5>2
          <5> QED
            BY <5>2, <5>3
        <4> QED
          BY <4>1, <4>2
      <3>6. RanksTaken(indices, m + 1)
        BY <3>5 DEF RanksTaken
      <3> QED
        BY <2>1, <3>4, <3>6
    <2> QED
      BY <2>2, <2>3
  <1>4. n \in fine
    <2> HIDE DEF fine
    <2> QED
      BY <1>2, <1>3, NumberInduction
  <1>5. UptoIn(indices, n) = indices
    BY <1>0 DEF UptoIn
  <1>6. RankIn(indices, n) = Cardinality(indices)
    BY <1>1, <1>5
  <1>7. RankIn(indices, n) \in Nat /\ RanksTaken(indices, n)
    BY <1>4
  <1> QED
    BY <1>6, <1>7 DEF RanksTaken

\* Two files that agree in the selected rows give the same rows.
LEMMA SelectedAreSame ==
    ASSUME NEW n \in Nat, NEW indices, \A j \in indices : j \in 1..n, NEW f, NEW c,
           \A i \in indices : f[i] = c[i]
    PROVE  RowsOf(f, indices) = RowsOf(c, indices)
  <1> DEFINE ranked(k) == CHOOSE i \in indices : RankIn(indices, i) = k
  <1>1. \A k \in 1..Cardinality(indices) : ranked(k) \in indices
    BY RanksAreTaken
  <1> HIDE DEF ranked
  <1>2. \A k \in 1..Cardinality(indices) : f[ranked(k)] = c[ranked(k)]
    BY <1>1
  <1>3. [k \in 1..Cardinality(indices) |-> f[ranked(k)]]
            = [k \in 1..Cardinality(indices) |-> c[ranked(k)]]
    BY <1>2
  <1> QED
    BY <1>3 DEF RowsOf, ranked

\* The rows of an interval of indices are the subsequence.
LEMMA RowsOfAnInterval ==
    ASSUME NEW R, NEW rows \in Seq(R), NEW k \in 1..(Len(rows) + 1)
    PROVE  RowsOf(rows, k..Len(rows)) = SubSeq(rows, k, Len(rows))
  <1>1. PICK n \in Nat : n = Len(rows)
    OBVIOUS
  <1>2. PICK indices \in SUBSET Int : indices = k..n
    OBVIOUS
  <1> DEFINE ranked(r) == CHOOSE i \in indices : RankIn(indices, i) = r
  <1>3. Cardinality(indices) = n - k + 1
    <2>1. Cardinality(k..n) = IF k > n THEN 0 ELSE n - k + 1
      BY FS_Interval
    <2> QED
      BY <1>1, <1>2, <2>1
  <1>4. ASSUME NEW i \in indices PROVE RankIn(indices, i) = i - k + 1
    <2>1. {j \in indices : j <= i} = k..i
      BY <1>2
    <2>2. Cardinality(k..i) = i - k + 1
      <3>1. Cardinality(k..i) = IF k > i THEN 0 ELSE i - k + 1
        BY FS_Interval
      <3> QED
        BY <1>2, <3>1
    <2> QED
      BY <2>1, <2>2 DEF RankIn
  <1>5. ASSUME NEW r \in 1..(n - k + 1) PROVE ranked(r) = k + r - 1
    <2>1. k + r - 1 \in indices
      BY <1>2
    <2>2. \A i \in indices : RankIn(indices, i) = r <=> i = k + r - 1
      BY <1>2, <1>4
    <2> QED
      BY <2>1, <2>2
  <1> HIDE DEF ranked
  <1>6. [r \in 1..(n - k + 1) |-> rows[ranked(r)]] = [r \in 1..(n - k + 1) |-> rows[k + r - 1]]
    BY <1>5
  <1>7. RowsOf(rows, indices) = [r \in 1..(n - k + 1) |-> rows[ranked(r)]]
    BY <1>3 DEF RowsOf, ranked
  <1>8. SubSeq(rows, k, n) = [r \in 1..(n - k + 1) |-> rows[k + r - 1]]
    BY <1>1
  <1> QED
    BY <1>1, <1>2, <1>6, <1>7, <1>8

LEMMA TimesGrow ==
    ASSUME NEW R, NEW rows \in Seq(RowsOver(R)), Increasing(rows)
    PROVE  \A i, j \in 1..Len(rows) : i < j => rows[i].t < rows[j].t
  <1> DEFINE fine == {d \in Nat : \A i \in 1..Len(rows) :
                         i + d + 1 <= Len(rows) => rows[i].t < rows[i + d + 1].t}
  <1>1. \A i \in 1..Len(rows) : rows[i].t \in Nat
    <2>1. \A i \in 1..Len(rows) : rows[i] \in RowsOver(R)
      OBVIOUS
    <2> QED
      BY <2>1 DEF RowsOver
  <1>2. 0 \in fine
    BY DEF Increasing
  <1>3. ASSUME NEW d \in Nat, d \in fine PROVE d + 1 \in fine
    <2>1. ASSUME NEW i \in 1..Len(rows), i + (d + 1) + 1 <= Len(rows)
          PROVE  rows[i].t < rows[i + (d + 1) + 1].t
      <3>1. rows[i].t < rows[i + d + 1].t
        BY <1>3, <2>1
      <3>2. i + d + 2 \in 2..Len(rows) /\ (i + d + 2) - 1 = i + d + 1
        BY <2>1
      <3>3. rows[i + d + 1].t < rows[i + d + 2].t
        BY <3>2 DEF Increasing
      <3>4. i + d + 1 \in 1..Len(rows) /\ i + d + 2 \in 1..Len(rows) /\ i + (d + 1) + 1 = i + d + 2
        BY <2>1
      <3> QED
        BY <1>1, <3>1, <3>3, <3>4
    <2> QED
      BY <2>1
  <1>4. Nat \subseteq fine
    <2> HIDE DEF fine
    <2> QED
      BY <1>2, <1>3, NumberInduction
  <1>5. ASSUME NEW i \in 1..Len(rows), NEW j \in 1..Len(rows), i < j
        PROVE  rows[i].t < rows[j].t
    <2>1. j - i - 1 \in Nat /\ i + (j - i - 1) + 1 = j
      BY <1>5
    <2>2. j - i - 1 \in fine
      BY <1>4, <2>1
    <2> QED
      BY <2>1, <2>2
  <1> QED
    BY <1>5

\* Of growing times, the rows from one on to the last are those behind it.
LEMMA RowsToTheEnd ==
    ASSUME NEW R, NEW rows \in Seq(RowsOver(R)), Increasing(rows), NEW k \in 1..Len(rows)
    PROVE  RowsWithin(rows, rows[k].t, rows[Len(rows)].t) = SubSeq(rows, k, Len(rows))
  <1>1. \A i \in 1..Len(rows) : rows[i].t \in Nat
    <2>1. \A i \in 1..Len(rows) : rows[i] \in RowsOver(R)
      OBVIOUS
    <2> QED
      BY <2>1 DEF RowsOver
  <1>2. ASSUME NEW i \in 1..Len(rows)
        PROVE  rows[k].t <= rows[i].t /\ rows[i].t <= rows[Len(rows)].t <=> i \in k..Len(rows)
    <2>1. i < k => rows[i].t < rows[k].t
      BY TimesGrow
    <2>2. k < i => rows[k].t < rows[i].t
      BY TimesGrow
    <2>3. i < Len(rows) => rows[i].t < rows[Len(rows)].t
      BY TimesGrow
    <2> QED
      BY <1>1, <2>1, <2>2, <2>3
  <1>3. {i \in DOMAIN rows : rows[k].t <= rows[i].t /\ rows[i].t <= rows[Len(rows)].t} = k..Len(rows)
    BY <1>2
  <1>4. RowsOf(rows, k..Len(rows)) = SubSeq(rows, k, Len(rows))
    BY RowsOfAnInterval
  <1>5. PICK last : last = Len(rows)
    OBVIOUS
  <1>6. RowsWithin(rows, rows[k].t, rows[last].t) = RowsOf(rows, k..last)
    BY <1>3, <1>5 DEF RowsWithin
  <1> QED
    BY <1>4, <1>5, <1>6

-----------------------------------------------------------------------------
(* What the seal is over.                                                   *)

\* What is not replaced behind the opening is the same in between.
LEMMA FundingWithin ==
    ASSUME NEW f \in Seq(RowsOver(Rates)), NEW c \in Seq(RowsOver(Rates)),
           NEW opening, NEW closing, SameFunding(f, c, opening)
    PROVE  RowsWithin(f, opening, closing) = RowsWithin(c, opening, closing)
  <1>1. PICK n \in Nat : n = Len(c)
    OBVIOUS
  <1>2. DOMAIN f = 1..n /\ DOMAIN c = 1..n
    BY <1>1 DEF SameFunding
  <1>3. \A i \in 1..n : f[i].t = c[i].t /\ (opening <= c[i].t => f[i] = c[i])
    <2>1. \A i \in 1..n : f[i].t = c[i].t /\ (c[i].t >= opening => f[i] = c[i])
      BY <1>1 DEF SameFunding
    <2> QED
      BY <2>1
  <1>4. PICK indices : indices = {i \in 1..n : opening <= c[i].t /\ c[i].t <= closing}
    OBVIOUS
  <1>5. \A i \in indices : i \in 1..n /\ f[i] = c[i]
    BY <1>3, <1>4
  <1>6. {i \in 1..n : opening <= f[i].t /\ f[i].t <= closing} = indices
    BY <1>3, <1>4
  <1>7. RowsOf(f, indices) = RowsOf(c, indices)
    BY <1>5, SelectedAreSame
  <1>8. RowsWithin(f, opening, closing) = RowsOf(f, indices)
    BY <1>2, <1>6 DEF RowsWithin
  <1>9. RowsWithin(c, opening, closing) = RowsOf(c, indices)
    BY <1>2, <1>4 DEF RowsWithin
  <1> QED
    BY <1>7, <1>8, <1>9

LEMMA NothingWithin == \A from, to : RowsWithin(<<>>, from, to) = <<>>
  <1>1. \A from, to : {i \in DOMAIN <<>> : from <= <<>>[i].t /\ <<>>[i].t <= to} = {}
    OBVIOUS
  <1>2. Cardinality({}) = 0
    BY FS_EmptySet
  <1>3. RowsOf(<<>>, {}) = <<>>
    BY <1>2 DEF RowsOf
  <1> QED
    BY <1>1, <1>3 DEF RowsWithin

LEMMA PartitionIs ==
    ASSUME NEW n \in Nat, NEW split \in Splits, PartitionOK(n, split)
    PROVE  /\ split.boundary \in Int /\ split.purge \in Int /\ split.embargo \in Int
           /\ split.purge >= 1 /\ split.embargo >= 1 /\ split.boundary - split.purge >= 1
           /\ QuarantineStart(split) \in Nat /\ QuarantineStart(split) >= 1
           /\ QuarantineStart(split) + 1 \in 1..n
           /\ QuarantineStart(split) = split.boundary + split.embargo
           /\ TrainCount(split) = split.boundary - split.purge
  <1>1. split.boundary \in Int /\ split.purge \in Int /\ split.embargo \in Int
    BY DEF Splits
  <1> QED
    BY <1>1 DEF PartitionOK, TrainCount, HoldoutCount, QuarantineStart

\* The bars behind the embargo, said by indices and by times.
LEMMA BarsWithin ==
    ASSUME NEW c \in Seq(RowsOver(Closes)), NEW split \in Splits, Sound(c, split),
           NEW b \in Seq(RowsOver(Closes)), SameBars(b, c, split)
    PROVE  /\ BarsFrom(b, split) = RowsWithin(c, At(c, QuarantineStart(split)).t, c[Len(c)].t)
           /\ At(b, QuarantineStart(split)).t = At(c, QuarantineStart(split)).t
           /\ b[Len(b)].t = c[Len(c)].t
  <1>1. PICK n \in Nat : n = Len(c)
    OBVIOUS
  <1>2. PICK k \in Int : k = QuarantineStart(split) + 1
    BY <1>1, PartitionIs DEF Sound
  <1>3. k \in 1..n /\ Len(b) = n
    BY <1>1, <1>2, PartitionIs DEF Sound, SameBars
  <1>4. \A i \in k..n : b[i] = c[i]
    <2>1. \A i \in k..n : i \in 1..n /\ i > QuarantineStart(split)
      BY <1>1, <1>2, <1>3, PartitionIs DEF Sound
    <2> QED
      BY <1>1, <2>1 DEF SameBars
  <1>5. SubSeq(b, k, n) = SubSeq(c, k, n)
    <2>1. SubSeq(b, k, n) = [i \in 1..(n - k + 1) |-> b[k + i - 1]]
      BY <1>1, <1>3
    <2>2. SubSeq(c, k, n) = [i \in 1..(n - k + 1) |-> c[k + i - 1]]
      BY <1>1, <1>3
    <2>3. \A i \in 1..(n - k + 1) : k + i - 1 \in k..n
      BY <1>3
    <2> QED
      BY <1>4, <2>1, <2>2, <2>3
  <1>6. RowsWithin(c, c[k].t, c[n].t) = SubSeq(c, k, n)
    BY <1>1, <1>3, RowsToTheEnd DEF Sound
  <1>7. BarsFrom(b, split) = SubSeq(b, k, n)
    BY <1>2, <1>3 DEF BarsFrom
  <1>8. At(c, QuarantineStart(split)) = c[k] /\ At(b, QuarantineStart(split)) = b[k]
    BY <1>2 DEF At
  <1>9. b[k].t = c[k].t /\ b[n].t = c[n].t
    BY <1>3, <1>4
  <1> QED
    BY <1>1, <1>3, <1>5, <1>6, <1>7, <1>8, <1>9

\* The seal of reads that agree behind the embargo with the cut is over the
\* quarantined rows of the cut, or over nothing.
LEMMA SealIsOfTheCut ==
    ASSUME NEW cut, cut.bars \in Seq(RowsOver(Closes)), cut.funding \in Seq(RowsOver(Rates)),
           NEW split \in Splits, Sound(cut.bars, split), NEW roles,
           NEW lines \in Seq(RowsOver(Closes)), SameBars(lines, cut.bars, split),
           NEW rows \in Seq(RowsOver(Closes)), SameBars(rows, cut.bars, split),
           NEW f \in Seq(RowsOver(Rates)), NEW audit,
           "funding" \in roles => SameFunding(f, cut.funding, Opening(cut, split)),
           "funding" \notin roles => cut.funding = <<>>
    PROVE  Sealable(split, audit, lines, rows, f, roles) \subseteq {QuarantineOf(cut, split, roles)}
  <1>1. PICK opening : opening = At(cut.bars, QuarantineStart(split)).t
    OBVIOUS
  <1>2. PICK closing : closing = cut.bars[Len(cut.bars)].t
    OBVIOUS
  <1>3. PICK quarantined : quarantined = RowsWithin(cut.bars, opening, closing)
    OBVIOUS
  <1>4. QuarantineOf(cut, split, roles)
          = [roles |-> roles, split |-> split, bars |-> quarantined,
             funding |-> RowsWithin(cut.funding, opening, closing)]
    <2>1. cut.bars[split.boundary + split.embargo + 1].t = opening
      BY <1>1 DEF At, QuarantineStart
    <2> QED
      BY <1>2, <1>3, <2>1 DEF QuarantineOf
  <1>5. BarsFrom(lines, split) = quarantined /\ BarsFrom(rows, split) = quarantined
    BY <1>1, <1>2, <1>3, BarsWithin
  <1>6. CASE "funding" \notin roles
    <2>1. RowsWithin(cut.funding, opening, closing) = <<>>
      BY <1>6, NothingWithin
    <2>2. Sealable(split, audit, lines, rows, f, roles) \subseteq
              {[roles |-> roles, split |-> split, bars |-> quarantined, funding |-> <<>>]}
      BY <1>5, <1>6 DEF Sealable
    <2> QED
      BY <1>4, <2>1, <2>2
  <1>7. CASE "funding" \in roles
    <2>1. ProjectedWindow(rows, f, split) = RowsWithin(f, opening, closing)
      BY <1>1, <1>2, BarsWithin DEF ProjectedWindow
    <2>2. RowsWithin(f, opening, closing) = RowsWithin(cut.funding, opening, closing)
      BY <1>1, <1>7, FundingWithin DEF Opening
    <2>3. Sealable(split, audit, lines, rows, f, roles) \subseteq
              {[roles |-> roles, split |-> split, bars |-> quarantined,
                funding |-> RowsWithin(cut.funding, opening, closing)]}
      BY <1>5, <1>7, <2>1, <2>2 DEF Sealable
    <2> QED
      BY <1>4, <2>3
  <1> QED
    BY <1>6, <1>7

LEMMA SealableIsSingle ==
    ASSUME NEW split, NEW audit, NEW lines, NEW rows, NEW f, NEW roles
    PROVE  Single(Sealable(split, audit, lines, rows, f, roles))
  BY DEF Single, Sealable

-----------------------------------------------------------------------------
(* What seal, packet and gate say of their declarations.                    *)

LEMMA PacketIs ==
    ASSUME NEW audit, NEW sealState, NEW seal, Single(seal), NEW cut, NEW split, NEW commit
    PROVE  PacketOK(PacketCandidate(audit, sealState, seal, cut, split, commit),
                    seal, cut, split, commit)
  BY DEF PacketOK, PacketCandidate, Single

LEMMA SealStateIs ==
    ASSUME NEW declared, Single(declared)
    PROVE  /\ \A rows : SealState(rows, declared) \in {"not_sealed", "sealed", "mismatch"}
           /\ \A q : SealState({q}, declared) = "sealed" <=> declared = {q}
  <1>1. \A rows : SealState(rows, declared) \in {"not_sealed", "sealed", "mismatch"}
    BY DEF SealState
  <1>2. ASSUME NEW q PROVE SealState({q}, declared) = "sealed" <=> declared = {q}
    <2>1. CASE declared = {}
      BY <2>1 DEF SealState
    <2>2. CASE declared # {}
      <3>1. PICK d : declared = {d}
        BY <2>2 DEF Single
      <3>2. (CHOOSE x \in {q} : TRUE) = q /\ (CHOOSE x \in {d} : TRUE) = d
        OBVIOUS
      <3>3. SealState({q}, {d}) = IF d.roles # q.roles \/ d.split # q.split THEN "not_sealed"
                                  ELSE IF d = q THEN "sealed" ELSE "mismatch"
        BY <3>2 DEF SealState
      <3> QED
        BY <3>1, <3>3
    <2> QED
      BY <2>1, <2>2
  <1> QED
    BY <1>1, <1>2

LEMMA PacketStateIs ==
    ASSUME NEW packet, NEW declared
    PROVE  /\ PacketState(packet, declared) \in {"not_locked", "locked", "mismatch"}
           /\ PacketState(packet, declared) = "locked" => packet # {} /\ declared = packet
  BY DEF PacketState

\* A gate passes on a clean audit, a seal that holds and a packet that is locked.
LEMMA GateIs ==
    ASSUME NEW audit, NEW sealState, NEW packetState, NEW candidate, NEW declared, NEW gate,
           gate = Gate(audit, sealState, packetState, candidate, declared)
    PROVE  /\ gate.state \in {"blocked", "gate_passed", "mismatch"}
           /\ gate.state = "gate_passed" => audit.passed /\ sealState = "sealed" /\ packetState = "locked"
  <1>1. PICK prerequisites : prerequisites = PrerequisiteReasons(audit, sealState, packetState)
    OBVIOUS
  <1>2. prerequisites = {} => audit.passed /\ sealState = "sealed" /\ packetState = "locked"
    BY <1>1 DEF PrerequisiteReasons
  <1>3. \E state \in {"blocked", "gate_passed", "mismatch"}, stale \in BOOLEAN :
            /\ gate.state = IF stale THEN "mismatch" ELSE state
            /\ state = "gate_passed" => prerequisites = {}
    BY <1>1 DEF Gate
  <1> QED
    BY <1>2, <1>3

-----------------------------------------------------------------------------
(* Refreshes of the data.                                                   *)

LEMMA BarsAre ==
    ASSUME DataOK
    PROVE  /\ Len(bars) \in Nat /\ Len(bars) >= 1 /\ DOMAIN bars = 1..Len(bars)
           /\ \A i \in 1..Len(bars) : bars[i] \in RowsOver(Closes) /\ bars[i].t \in Nat
           /\ Len(funding) \in Nat /\ DOMAIN funding = 1..Len(funding)
           /\ \A i \in 1..Len(funding) : funding[i] \in RowsOver(Rates) /\ funding[i].t \in Nat
  <1>1. \A i \in 1..Len(bars) : bars[i] \in RowsOver(Closes)
    BY DEF DataOK
  <1>2. \A i \in 1..Len(funding) : funding[i] \in RowsOver(Rates)
    BY DEF DataOK
  <1>3. Len(bars) \in Nat /\ Len(bars) >= 1 /\ DOMAIN bars = 1..Len(bars)
    BY DEF DataOK
  <1>4. Len(funding) \in Nat /\ DOMAIN funding = 1..Len(funding)
    BY DEF DataOK
  <1> QED
    BY <1>1, <1>2, <1>3, <1>4 DEF RowsOver

\* The train part ends before the quarantine begins, and a bar that is appended
\* is of the quarantine.
LEMMA AppendedIsQuarantined ==
    ASSUME DataOK, run.pc # "idle", Increasing(bars), NEW t \in Nat, bars[Len(bars)].t <= t,
           TrainCount(run.split) \in 1..(Len(bars) - 1), QuarantineStart(run.split) \in Nat
    PROVE  PartOf(t) = {"quarantine"}
  <1>1. PICK last \in Nat : last = TrainCount(run.split)
    BY BarsAre
  <1>2. PICK open \in Nat : open = QuarantineStart(run.split)
    OBVIOUS
  <1>3. PICK n \in Nat : n = Len(bars)
    BY BarsAre
  <1>4. \A i \in 1..n : bars[i].t \in Nat /\ bars[i].t <= t
    <2>1. ASSUME NEW i \in 1..n PROVE bars[i].t <= bars[n].t
      <3>1. i < n => bars[i].t < bars[n].t
        BY <1>3, <2>1, BarsAre, TimesGrow DEF DataOK
      <3>2. bars[i].t \in Nat /\ bars[n].t \in Nat
        BY <1>3, BarsAre
      <3> QED
        BY <1>3, <3>1, <3>2, BarsAre
    <2>2. \A i \in 1..n : bars[i].t \in Nat
      BY <1>3, BarsAre
    <2>3. bars[n].t <= t
      BY <1>3
    <2>4. n \in 1..n
      BY <1>3, BarsAre
    <2> QED
      BY <2>1, <2>2, <2>3, <2>4
  <1>5. bars[last].t < bars[n].t
    BY <1>1, <1>3, BarsAre, TimesGrow DEF DataOK
  <1>6. bars[last].t < t
    <2>1. last \in 1..n /\ n \in 1..n
      BY <1>1, <1>3
    <2>2. bars[last].t \in Nat /\ bars[n].t \in Nat /\ bars[n].t <= t
      BY <1>4, <2>1
    <2> QED
      BY <1>5, <2>2
  <1>7. ~(t <= bars[last].t)
    <2>1. last \in 1..n
      BY <1>1, <1>3
    <2> QED
      BY <1>4, <1>6, <2>1
  <1>8. open < n => ~(t < At(bars, open).t)
    <2>1. open < n => open + 1 \in 1..n
      OBVIOUS
    <2>2. open < n => bars[open + 1].t \in Nat /\ bars[open + 1].t <= t
      BY <1>4, <2>1
    <2> QED
      BY <2>2 DEF At
  <1> QED
    BY <1>1, <1>2, <1>3, <1>7, <1>8 DEF PartOf

\* What is replaced outside the quarantine is before its first bar.
LEMMA ReplacedIsBefore ==
    ASSUME DataOK, run.pc # "idle", run.split \in Splits, Sound(bars, run.split),
           NEW t \in Nat, "quarantine" \notin PartOf(t)
    PROVE  t < bars[QuarantineStart(run.split) + 1].t
  <1>1. PICK n \in Nat : n = Len(bars)
    BY BarsAre
  <1>2. PICK split : split = run.split
    OBVIOUS
  <1>3. /\ split.boundary \in Int /\ split.purge \in Int /\ split.embargo \in Int
        /\ split.purge >= 1 /\ split.embargo >= 1 /\ split.boundary - split.purge >= 1
        /\ QuarantineStart(split) \in Nat /\ QuarantineStart(split) + 1 \in 1..n
        /\ QuarantineStart(split) = split.boundary + split.embargo
        /\ TrainCount(split) = split.boundary - split.purge
    BY <1>1, <1>2, PartitionIs DEF Sound
  <1>4. PICK last \in Int : last = TrainCount(run.split)
    BY <1>2, <1>3
  <1>5. PICK open \in Nat : open = QuarantineStart(run.split)
    BY <1>2, <1>3
  <1>6. last \in 1..n /\ open + 1 \in 1..n /\ last < open + 1
    BY <1>2, <1>3, <1>4, <1>5
  <1>7. bars[last].t < bars[open + 1].t /\ bars[last].t \in Nat /\ bars[open + 1].t \in Nat
    <2>1. bars \in Seq(RowsOver(Closes)) /\ Increasing(bars)
      BY DEF DataOK, Sound
    <2>2. bars[last].t < bars[open + 1].t
      BY <1>1, <1>6, <2>1, TimesGrow
    <2> QED
      BY <1>1, <1>6, <2>2, BarsAre
  <1>8. t <= bars[last].t \/ t < bars[open + 1].t
    <2>1. last \in DOMAIN bars /\ open < Len(bars)
      BY <1>1, <1>6, BarsAre
    <2>2. PartOf(t) = IF t <= bars[last].t THEN {"train"}
                      ELSE IF t < bars[open + 1].t THEN {"gap"} ELSE {"quarantine"}
      BY <1>4, <1>5, <2>1 DEF PartOf, At
    <2> QED
      BY <2>2
  <1> QED
    BY <1>5, <1>7, <1>8

LEMMA SameTimesAreSound ==
    ASSUME NEW b, NEW c, NEW split, Len(b) = Len(c), Len(c) \in Nat,
           \A i \in 1..Len(c) : b[i].t = c[i].t, Sound(c, split)
    PROVE  Sound(b, split)
  <1>1. \A i \in 2..Len(c) : i \in 1..Len(c) /\ i - 1 \in 1..Len(c)
    OBVIOUS
  <1>2. Increasing(b)
    BY <1>1 DEF Sound, Increasing
  <1> QED
    BY <1>2 DEF Sound

LEMMA CleanIsSound ==
    ASSUME HoldoutInv, run.pc \in Sliced, Clean
    PROVE  Sound(bars, run.split) /\ run.split \in Splits
  <1>1. run.split \in Splits
    BY DEF HoldoutInv, RunOK, Sliced
  <1>2. SameBars(bars, run.cut.bars, run.split) /\ Sound(run.cut.bars, run.split)
        /\ run.cut.bars \in Seq(RowsOver(Closes))
    BY DEF HoldoutInv, SeenOK
  <1>3. Sound(bars, run.split)
    BY <1>2, SameTimesAreSound DEF SameBars
  <1> QED
    BY <1>1, <1>3

\* A refresh leaves the run as it is but for what it notes of it.
Touch(t) ==
    run' = IF run.pc = "idle" THEN run ELSE [run EXCEPT !.touched = @ \cup PartOf(t)]

LEMMA TouchedRun ==
    ASSUME RunOK, NEW t, Touch(t)
    PROVE  /\ RunOK' /\ run'.pc = run.pc /\ DOMAIN run' = DOMAIN run
           /\ \A f \in DOMAIN run \ {"touched"} : run'[f] = run[f]
           /\ run.pc # "idle" => run'.touched = run.touched \cup PartOf(t)
  <1>1. /\ run'.pc = run.pc /\ DOMAIN run' = DOMAIN run
        /\ \A f \in DOMAIN run \ {"touched"} : run'[f] = run[f]
        /\ run.pc # "idle" => run'.touched = run.touched \cup PartOf(t)
    BY DEF RunOK, Touch
  <1>2. /\ run'.pc # "idle" => {"split", "touched"} \subseteq DOMAIN run' /\ run'.split \in Splits
        /\ run'.pc \in Sliced =>
              /\ {"commit", "roles", "cut", "entry"} \subseteq DOMAIN run'
              /\ run'.roles \in {{"bars"}, BothRoles} /\ EntryOK(run'.entry)
        /\ run'.pc \in Audited =>
              "audit" \in DOMAIN run' /\ (run'.audit.passed => run'.entry.split = {run'.split})
    BY <1>1 DEF RunOK, Audited, Sliced
  <1>3. /\ run'.pc \in Lined => "lines" \in DOMAIN run'
        /\ run'.pc \in Projected => "rows" \in DOMAIN run'
        /\ run'.pc \in Sealed => "seal" \in DOMAIN run' /\ Single(run'.seal)
    BY <1>1 DEF RunOK
  <1>4. run'.pc \in Compared =>
            "sealState" \in DOMAIN run' /\ run'.sealState = SealState(run'.seal, run'.entry.seal)
    BY <1>1 DEF RunOK, Compared, Sealed, Projected, Lined, Audited, Sliced
  <1>5. run'.pc \in Locked =>
          /\ "packet" \in DOMAIN run'
          /\ PacketOK(run'.packet, run'.seal, run'.cut, run'.entry.split, run'.commit)
    BY <1>1 DEF RunOK, Locked, Compared, Sealed, Projected, Lined, Audited, Sliced
  <1>6. run'.pc \in Gated =>
          /\ "gate" \in DOMAIN run' /\ run'.gate.state \in {"blocked", "gate_passed", "mismatch"}
          /\ run'.gate.state = "gate_passed" => run'.audit.passed /\ PacketLock' = "locked"
    BY <1>1 DEF RunOK, Gated, Locked, Compared, Sealed, Projected, Lined, Audited, Sliced, PacketLock
  <1>7. RunOK'
    BY <1>1, <1>2, <1>3, <1>4, <1>5, <1>6 DEF RunOK
  <1> QED
    BY <1>1, <1>7

\* What was seen stays seen, as long as the quarantine of the data is that of the cut.
LEMMA TouchedSeen ==
    ASSUME HoldoutInv, NEW t, Touch(t),
           run.pc \in Sliced /\ Clean' => Clean,
           run.pc \in Sliced /\ Clean /\ Clean' =>
              /\ SameBars(bars', run.cut.bars, run.split)
              /\ "funding" \in run.roles =>
                    SameFunding(funding', run.cut.funding, Opening(run.cut, run.split))
    PROVE  SeenOK'
  <1> SUFFICES ASSUME run'.pc \in Sliced, Clean' PROVE SeenOK'
    BY DEF SeenOK
  <1>1. /\ run'.pc = run.pc /\ DOMAIN run' = DOMAIN run
        /\ \A f \in DOMAIN run \ {"touched"} : run'[f] = run[f]
    BY TouchedRun DEF HoldoutInv
  <1>2. /\ run'.split = run.split /\ run'.cut = run.cut /\ run'.roles = run.roles
    BY <1>1 DEF HoldoutInv, RunOK, Sliced
  <1>3. /\ run.pc \in Audited => run'.audit = run.audit
        /\ run.pc \in Lined => run'.lines = run.lines
        /\ run.pc \in Projected => run'.rows = run.rows
        /\ run.pc \in Sealed => run'.seal = run.seal
    BY <1>1 DEF HoldoutInv, RunOK
  <1>4. Clean
    BY <1>1
  <1> QED
    BY <1>1, <1>2, <1>3, <1>4 DEF HoldoutInv, SeenOK

LEMMA RefreshesAreCounted ==
    ASSUME DataOK, NEW t, Refresh(t)
    PROVE  edits' \in 0..MaxEdits
  BY DataAssumption DEF DataOK, Refresh

LEMMA ReviseBarIsFine ==
    ASSUME HoldoutInv, ReviseBar
    PROVE  DataOK' /\ RunOK' /\ SeenOK'
  <1>1. PICK i \in DOMAIN bars, v \in Closes : /\ bars' = [bars EXCEPT ![i].v = v]
                                               /\ Refresh(bars[i].t) /\ funding' = funding
    BY DEF ReviseBar
  <1>2. DataOK /\ RunOK
    BY DEF HoldoutInv
  <1>3. PICK n \in Nat : n = Len(bars) /\ DOMAIN bars = 1..n
    BY <1>2, BarsAre
  <1>4. /\ Len(bars') = n /\ bars' \in Seq(RowsOver(Closes)) /\ bars' # <<>>
        /\ \A j \in 1..n : bars'[j].t = bars[j].t /\ (j # i => bars'[j] = bars[j])
    <2>1. bars[i] \in RowsOver(Closes) /\ bars \in Seq(RowsOver(Closes))
      BY <1>1, <1>2, <1>3, BarsAre DEF DataOK
    <2>2. PICK row : row = [bars[i] EXCEPT !.v = v]
      OBVIOUS
    <2>3. row \in RowsOver(Closes) /\ row.t = bars[i].t
      BY <1>1, <2>1, <2>2 DEF RowsOver
    <2>4. bars' = [bars EXCEPT ![i] = row]
      BY <1>1, <2>2
    <2> QED
      BY <1>1, <1>3, <2>1, <2>3, <2>4, <1>2, BarsAre
  <1>5. DataOK'
    <2>1. edits' \in 0..MaxEdits
      BY <1>1, <1>2, RefreshesAreCounted
    <2> QED
      BY <1>1, <1>2, <1>4, <2>1 DEF DataOK
  <1>6. Touch(bars[i].t)
    BY <1>1 DEF Refresh, Touch
  <1>7. RunOK'
    BY <1>2, <1>6, TouchedRun
  <1>8. ASSUME run.pc \in Sliced, Clean' PROVE Clean
    <2>1. /\ run'.pc = run.pc /\ run'.touched = run.touched \cup PartOf(bars[i].t)
          /\ run'.split = run.split /\ (run.pc \in Audited => run'.audit = run.audit)
      BY <1>2, <1>6, <1>8, TouchedRun DEF RunOK, Sliced
    <2>2. CASE run.pc = "audit"
      <3>1. Sound(bars', run.split)
        BY <1>8, <2>1, <2>2 DEF Clean
      <3>2. Sound(bars, run.split)
        BY <1>3, <1>4, <3>1, SameTimesAreSound
      <3> QED
        BY <1>8, <2>1, <2>2, <3>2 DEF Clean
    <2>3. CASE run.pc # "audit"
      BY <1>8, <2>1, <2>3 DEF Clean, Audited
    <2> QED
      BY <2>2, <2>3
  <1>9. ASSUME run.pc \in Sliced, Clean, Clean'
        PROVE  /\ SameBars(bars', run.cut.bars, run.split)
               /\ "funding" \in run.roles =>
                     SameFunding(funding', run.cut.funding, Opening(run.cut, run.split))
    <2>1. Sound(bars, run.split) /\ run.split \in Splits /\ run.pc # "idle"
      BY <1>9, CleanIsSound DEF Sliced
    <2>2. "quarantine" \notin PartOf(bars[i].t)
      BY <1>2, <1>6, <1>9, <2>1, TouchedRun DEF Clean
    <2>3. bars[i].t \in Nat
      BY <1>1, <1>2, BarsAre
    <2>4. bars[i].t < bars[QuarantineStart(run.split) + 1].t
      BY <1>2, <2>1, <2>2, <2>3, ReplacedIsBefore
    <2>5. PICK open \in Nat : open = QuarantineStart(run.split) /\ open + 1 \in 1..n
      BY <1>2, <1>3, <2>1, BarsAre, PartitionIs DEF Sound
    <2>6. i <= open
      <3>1. open + 1 < i => bars[open + 1].t < bars[i].t
        BY <1>1, <1>2, <1>3, <2>1, <2>5, TimesGrow DEF DataOK, Sound
      <3>2. bars[open + 1].t \in Nat
        BY <1>2, <1>3, <2>5, BarsAre
      <3>3. i \in 1..n
        BY <1>1, <1>3
      <3> QED
        BY <2>3, <2>4, <2>5, <3>1, <3>2, <3>3
    <2>7. SameBars(bars, run.cut.bars, run.split)
      BY <1>9 DEF HoldoutInv, SeenOK
    <2>8. SameBars(bars', run.cut.bars, run.split)
      BY <1>3, <1>4, <2>5, <2>6, <2>7, SMTT(30) DEF SameBars
    <2> QED
      BY <1>1, <1>9, <2>8 DEF HoldoutInv, SeenOK
  <1>10. SeenOK'
    BY <1>6, <1>8, <1>9, TouchedSeen
  <1> QED
    BY <1>5, <1>7, <1>10

LEMMA ReviseFundingIsFine ==
    ASSUME HoldoutInv, ReviseFunding
    PROVE  DataOK' /\ RunOK' /\ SeenOK'
  <1>1. PICK i \in DOMAIN funding, v \in Rates : /\ funding' = [funding EXCEPT ![i].v = v]
                                                 /\ Refresh(funding[i].t) /\ bars' = bars
    BY DEF ReviseFunding
  <1>2. DataOK /\ RunOK
    BY DEF HoldoutInv
  <1>3. PICK n \in Nat : n = Len(funding) /\ DOMAIN funding = 1..n
    BY <1>2, BarsAre
  <1>4. /\ Len(funding') = n /\ funding' \in Seq(RowsOver(Rates))
        /\ \A j \in 1..n : funding'[j].t = funding[j].t /\ (j # i => funding'[j] = funding[j])
    <2>1. funding[i] \in RowsOver(Rates) /\ funding \in Seq(RowsOver(Rates))
      BY <1>1, <1>2, <1>3, BarsAre DEF DataOK
    <2>2. PICK row : row = [funding[i] EXCEPT !.v = v]
      OBVIOUS
    <2>3. row \in RowsOver(Rates) /\ row.t = funding[i].t
      BY <1>1, <2>1, <2>2 DEF RowsOver
    <2>4. funding' = [funding EXCEPT ![i] = row]
      BY <1>1, <2>2
    <2>5. i \in 1..n
      BY <1>3
    <2>6. /\ Len(funding') = n /\ funding' \in Seq(RowsOver(Rates))
          /\ \A j \in 1..n : funding'[j] = IF j = i THEN row ELSE funding[j]
      BY <1>3, <2>1, <2>3, <2>4, <2>5
    <2> QED
      BY <2>3, <2>6
  <1>5. DataOK'
    <2>1. edits' \in 0..MaxEdits
      BY <1>1, <1>2, RefreshesAreCounted
    <2> QED
      BY <1>1, <1>2, <1>4, <2>1 DEF DataOK
  <1>6. Touch(funding[i].t)
    BY <1>1 DEF Refresh, Touch
  <1>7. RunOK'
    BY <1>2, <1>6, TouchedRun
  <1>8. ASSUME run.pc \in Sliced, Clean' PROVE Clean
    <2>1. /\ run'.pc = run.pc /\ run'.touched = run.touched \cup PartOf(funding[i].t)
          /\ run'.split = run.split /\ (run.pc \in Audited => run'.audit = run.audit)
      BY <1>2, <1>6, <1>8, TouchedRun DEF RunOK, Sliced
    <2> QED
      BY <1>1, <1>8, <2>1 DEF Clean, Audited
  <1>9. ASSUME run.pc \in Sliced, Clean, Clean'
        PROVE  /\ SameBars(bars', run.cut.bars, run.split)
               /\ "funding" \in run.roles =>
                     SameFunding(funding', run.cut.funding, Opening(run.cut, run.split))
    <2>1. Sound(bars, run.split) /\ run.split \in Splits /\ run.pc # "idle"
      BY <1>9, CleanIsSound DEF Sliced
    <2>2. "quarantine" \notin PartOf(funding[i].t)
      BY <1>2, <1>6, <1>9, <2>1, TouchedRun DEF Clean
    <2>3. funding[i].t \in Nat
      BY <1>1, <1>2, BarsAre
    <2>4. funding[i].t < bars[QuarantineStart(run.split) + 1].t
      BY <1>2, <2>1, <2>2, <2>3, ReplacedIsBefore
    <2>5. /\ SameBars(bars, run.cut.bars, run.split)
          /\ "funding" \in run.roles =>
                SameFunding(funding, run.cut.funding, Opening(run.cut, run.split))
      BY <1>9 DEF HoldoutInv, SeenOK
    <2>6. QuarantineStart(run.split) + 1 \in 1..Len(bars)
      BY <1>2, <2>1, BarsAre, PartitionIs DEF Sound
    <2>7. PICK opening : opening = Opening(run.cut, run.split)
      OBVIOUS
    <2>8. bars[QuarantineStart(run.split) + 1].t = opening /\ opening \in Nat
      BY <1>2, <2>5, <2>6, <2>7, BarsAre DEF SameBars, Opening, At
    <2>9. ASSUME SameFunding(funding, run.cut.funding, opening)
          PROVE  SameFunding(funding', run.cut.funding, opening)
      BY <1>1, <1>3, <1>4, <2>3, <2>4, <2>8, <2>9 DEF SameFunding
    <2> QED
      BY <1>1, <2>5, <2>7, <2>9
  <1>10. SeenOK'
    BY <1>6, <1>8, <1>9, TouchedSeen
  <1> QED
    BY <1>5, <1>7, <1>10

\* An appended bar is behind the embargo, or the times do not grow.
LEMMA AppendBarIsFine ==
    ASSUME HoldoutInv, AppendBar
    PROVE  DataOK' /\ RunOK' /\ SeenOK'
  <1>1. DataOK /\ RunOK
    BY DEF HoldoutInv
  <1>2. PICK n \in Nat : n = Len(bars) /\ n >= 1 /\ DOMAIN bars = 1..n /\ bars[n] \in RowsOver(Closes)
    <2>1. Len(bars) \in 1..Len(bars)
      BY <1>1, BarsAre
    <2>2. bars[Len(bars)] \in RowsOver(Closes)
      BY <1>1, <2>1, BarsAre
    <2> QED
      BY <1>1, <2>2, BarsAre
  <1>3. PICK t \in Nat : /\ bars[n].t <= t
                         /\ bars' = Append(bars, [t |-> t, v |-> bars[n].v])
                         /\ Refresh(t) /\ funding' = funding
    <2>1. Hour \in Nat
      BY WindowAssumption
    <2>2. bars[n].t \in Nat
      BY <1>2 DEF RowsOver
    <2> QED
      BY <1>2, <2>1, <2>2 DEF AppendBar
  <1>4. /\ Len(bars') = n + 1 /\ bars' \in Seq(RowsOver(Closes)) /\ bars' # <<>>
        /\ \A j \in 1..n : bars'[j] = bars[j]
    <2>1. PICK row : row = [t |-> t, v |-> bars[n].v]
      OBVIOUS
    <2>2. row \in RowsOver(Closes)
      BY <1>2, <2>1 DEF RowsOver
    <2>3. bars \in Seq(RowsOver(Closes))
      BY <1>1 DEF DataOK
    <2> QED
      BY <1>2, <1>3, <2>1, <2>2, <2>3
  <1>5. DataOK'
    <2>1. edits' \in 0..MaxEdits
      BY <1>1, <1>3, RefreshesAreCounted
    <2> QED
      BY <1>1, <1>3, <1>4, <2>1 DEF DataOK
  <1>6. Touch(t)
    BY <1>3 DEF Refresh, Touch
  <1>7. RunOK'
    BY <1>1, <1>6, TouchedRun
  <1>8. ASSUME run.pc \in Sliced, Clean' PROVE FALSE
    <2>1. /\ run'.pc = run.pc /\ run'.touched = run.touched \cup PartOf(t) /\ run.pc # "idle"
          /\ run'.split = run.split /\ (run.pc \in Audited => run'.audit = run.audit)
      BY <1>1, <1>6, <1>8, TouchedRun DEF RunOK, Sliced
    <2>2. run.split \in Splits
      BY <1>1, <2>1 DEF RunOK
    <2>3. "quarantine" \notin PartOf(t)
      BY <1>8, <2>1 DEF Clean
    <2>4. /\ Increasing(bars) /\ TrainCount(run.split) \in 1..(n - 1)
          /\ QuarantineStart(run.split) \in Nat
      <3>1. CASE run.pc = "audit"
        <4>1. Sound(bars', run.split)
          BY <1>8, <2>1, <3>1 DEF Clean
        <4>2. Increasing(bars)
          BY <1>2, <1>4, <4>1 DEF Sound, Increasing
        <4>3. PartitionOK(n + 1, run.split)
          BY <1>4, <4>1 DEF Sound
        <4> QED
          BY <2>2, <4>2, <4>3 DEF PartitionOK, Splits, TrainCount, HoldoutCount, QuarantineStart
      <3>2. CASE run.pc # "audit"
        <4>1. Clean
          BY <1>8, <2>1, <3>2 DEF Clean, Audited
        <4>2. Sound(bars, run.split)
          BY <1>8, <4>1, CleanIsSound
        <4>3. PartitionOK(n, run.split)
          BY <1>2, <4>2 DEF Sound
        <4>4. TrainCount(run.split) \in 1..(n - 1) /\ QuarantineStart(run.split) \in Nat
          BY <2>2, <4>3 DEF PartitionOK, Splits, TrainCount, HoldoutCount, QuarantineStart
        <4> QED
          BY <4>2, <4>4 DEF Sound
      <3> QED
        BY <3>1, <3>2
    <2>5. PartOf(t) = {"quarantine"}
      BY <1>1, <1>2, <1>3, <2>1, <2>4, AppendedIsQuarantined
    <2> QED
      BY <2>3, <2>5
  <1>9. SeenOK'
    <2>1. run'.pc = run.pc
      BY <1>1, <1>6, TouchedRun
    <2> QED
      BY <1>8, <2>1 DEF SeenOK
  <1> QED
    BY <1>5, <1>7, <1>9

-----------------------------------------------------------------------------
(* The steps of a run.                                                      *)

LEMMA StepIs ==
    ASSUME NEW label, NEW read, Step(label, read), "pc" \in DOMAIN run
    PROVE  /\ run'.pc = label /\ DOMAIN run' = DOMAIN run \cup DOMAIN read
           /\ \A f \in DOMAIN read \ {"pc"} : run'[f] = read[f]
           /\ \A f \in DOMAIN run \ ({"pc"} \cup DOMAIN read) : run'[f] = run[f]
  BY DEF Step

RestOK == /\ DataOK /\ EntryOK(entry)
          /\ \A r \in receipt : ReceiptOK(r)
          /\ \A a \in archive : a.source.split \in Splits
Given == {"split", "touched", "commit", "roles", "cut", "entry"}

LEMMA OnlyTheRun ==
    ASSUME HoldoutInv, RunUnchanged
    PROVE  /\ RestOK' /\ bars' = bars /\ funding' = funding
           /\ RunOK' /\ SeenOK' => HoldoutInv'
  <1>1. /\ bars' = bars /\ funding' = funding /\ edits' = edits /\ entry' = entry
        /\ archive' = archive /\ receipt' = receipt
    BY DEF RunUnchanged, dataVars
  <1>2. DataOK'
    BY <1>1 DEF HoldoutInv, DataOK
  <1> QED
    BY <1>1, <1>2 DEF HoldoutInv, RestOK

\* What a run was given, and the rest of what it knows, is the same after a step.
LEMMA SliceStep ==
    ASSUME HoldoutInv, run.pc \in Sliced, NEW label, NEW read, Step(label, read),
           DOMAIN read \cap (Given \cup {"pc"}) = {}
    PROVE  /\ run'.pc = label
           /\ Given \subseteq DOMAIN run /\ Given \subseteq DOMAIN run'
           /\ run'.split = run.split /\ run'.touched = run.touched /\ run'.commit = run.commit
           /\ run'.roles = run.roles /\ run'.cut = run.cut /\ run'.entry = run.entry
           /\ run.split \in Splits /\ EntryOK(run.entry) /\ run.roles \in {{"bars"}, BothRoles}
           /\ "pc" \in DOMAIN run'
  <1>1. /\ "pc" \in DOMAIN run /\ Given \subseteq DOMAIN run
        /\ run.split \in Splits /\ EntryOK(run.entry) /\ run.roles \in {{"bars"}, BothRoles}
    BY DEF HoldoutInv, RunOK, Sliced, Given
  <1>2. \A f \in Given : f \in DOMAIN run \ ({"pc"} \cup DOMAIN read) /\ f # "pc"
    BY <1>1 DEF Given
  <1>3. \A f \in Given : run'[f] = run[f] /\ f \in DOMAIN run'
    BY <1>1, <1>2, StepIs
  <1>4. run'.pc = label /\ "pc" \in DOMAIN run'
    BY <1>1, StepIs
  <1> QED
    BY <1>1, <1>3, <1>4 DEF Given

LEMMA ReadTimestampsIsFine ==
    ASSUME HoldoutInv, ReadTimestamps
    PROVE  HoldoutInv'
  <1>1. PICK audit : audit = Audit(bars, run.split, run.entry.split)
    OBVIOUS
  <1>2. PICK read : read = [audit |-> audit]
    OBVIOUS
  <1>3. DOMAIN read = {"audit"} /\ read.audit = audit /\ Step("lines", read) /\ run.pc = "audit"
        /\ RunUnchanged
    BY <1>1, <1>2 DEF ReadTimestamps
  <1>4. /\ run'.pc = "lines"
        /\ Given \subseteq DOMAIN run /\ Given \subseteq DOMAIN run'
        /\ run'.split = run.split /\ run'.touched = run.touched /\ run'.commit = run.commit
        /\ run'.roles = run.roles /\ run'.cut = run.cut /\ run'.entry = run.entry
        /\ run.split \in Splits /\ EntryOK(run.entry) /\ run.roles \in {{"bars"}, BothRoles}
        /\ "pc" \in DOMAIN run'
    BY <1>3, SliceStep DEF Sliced, Given
  <1>5. run'.audit = audit /\ "audit" \in DOMAIN run'
    BY <1>3, StepIs, ZenonT(30) DEF HoldoutInv, RunOK
  <1>6. RestOK' /\ bars' = bars /\ funding' = funding /\ (RunOK' /\ SeenOK' => HoldoutInv')
    BY <1>3, OnlyTheRun
  <1>7. /\ audit.passed => run.entry.split = {run.split} /\ Sound(bars, run.split)
        /\ audit.rows = Len(bars) /\ audit.holdout = HoldoutCount(Len(bars), run.split)
    BY <1>1 DEF Audit, Sound
  <1>8. RunOK'
    BY <1>4, <1>5, <1>7 DEF RunOK, Given, Sliced, Audited, Lined, Projected, Sealed, Compared,
                            Locked, Gated
  <1>9. ASSUME Clean' PROVE Clean
    BY <1>3, <1>4, <1>5, <1>7, <1>9 DEF Clean
  <1>10. SeenOK'
    <2> SUFFICES ASSUME Clean' PROVE SeenOK'
      BY DEF SeenOK
    <2>1. /\ run.cut.bars \in Seq(RowsOver(Closes)) /\ run.cut.funding \in Seq(RowsOver(Rates))
          /\ Sound(run.cut.bars, run.split) /\ SameBars(bars, run.cut.bars, run.split)
          /\ "funding" \in run.roles =>
                SameFunding(funding, run.cut.funding, Opening(run.cut, run.split))
          /\ "funding" \notin run.roles => run.cut.funding = <<>>
      BY <1>3, <1>9 DEF HoldoutInv, SeenOK, Sliced
    <2>2. /\ run'.audit.rows = Len(run.cut.bars)
          /\ run'.audit.holdout = HoldoutCount(Len(run.cut.bars), run.split)
      BY <1>5, <1>7, <2>1 DEF SameBars
    <2> QED
      BY <1>4, <1>6, <2>1, <2>2 DEF SeenOK, Lined, Projected, Sealed, Audited, Sliced
  <1> QED
    BY <1>6, <1>8, <1>10

\* What holds of every run that is behind the audit, and what Clean then says.
AuditedOK ==
    /\ run.pc \in Sliced /\ "pc" \in DOMAIN run /\ Given \subseteq DOMAIN run
    /\ run.split \in Splits /\ EntryOK(run.entry) /\ run.roles \in {{"bars"}, BothRoles}
    /\ "audit" \in DOMAIN run /\ (run.audit.passed => run.entry.split = {run.split})
AuditedSeen ==
    /\ run.cut.bars \in Seq(RowsOver(Closes)) /\ run.cut.funding \in Seq(RowsOver(Rates))
    /\ Sound(run.cut.bars, run.split) /\ SameBars(bars, run.cut.bars, run.split)
    /\ "funding" \in run.roles =>
          SameFunding(funding, run.cut.funding, Opening(run.cut, run.split))
    /\ "funding" \notin run.roles => run.cut.funding = <<>>
    /\ run.audit.rows = Len(run.cut.bars)
    /\ run.audit.holdout = HoldoutCount(Len(run.cut.bars), run.split)

LEMMA AuditedStep ==
    ASSUME HoldoutInv, run.pc \in Audited, NEW label, NEW read, Step(label, read), RunUnchanged,
           label \in Audited, DOMAIN read \cap (Given \cup {"pc", "audit"}) = {}
    PROVE  /\ run'.pc = label /\ AuditedOK' /\ run'.audit = run.audit
           /\ run'.split = run.split /\ run'.commit = run.commit
           /\ run'.roles = run.roles /\ run'.cut = run.cut /\ run'.entry = run.entry
           /\ Clean' => Clean /\ AuditedSeen /\ AuditedSeen'
           /\ \A f \in DOMAIN read : f \in DOMAIN run' /\ run'[f] = read[f]
           /\ \A f \in DOMAIN run \ ({"pc"} \cup DOMAIN read) : f \in DOMAIN run' /\ run'[f] = run[f]
           /\ bars' = bars /\ funding' = funding /\ (RunOK' /\ SeenOK' => HoldoutInv')
  <1>1. run.pc \in Sliced /\ label \in Sliced /\ run.pc # "audit" /\ label # "audit"
    BY DEF Audited
  <1>2. DOMAIN read \cap (Given \cup {"pc"}) = {} /\ "audit" \notin DOMAIN read /\ "pc" \notin DOMAIN read
    OBVIOUS
  <1>3. /\ run'.pc = label
        /\ Given \subseteq DOMAIN run /\ Given \subseteq DOMAIN run'
        /\ run'.split = run.split /\ run'.touched = run.touched /\ run'.commit = run.commit
        /\ run'.roles = run.roles /\ run'.cut = run.cut /\ run'.entry = run.entry
        /\ run.split \in Splits /\ EntryOK(run.entry) /\ run.roles \in {{"bars"}, BothRoles}
        /\ "pc" \in DOMAIN run'
    BY <1>1, <1>2, SliceStep
  <1>4. /\ "pc" \in DOMAIN run
        /\ "audit" \in DOMAIN run /\ (run.audit.passed => run.entry.split = {run.split})
    BY DEF HoldoutInv, RunOK
  <1>5. /\ \A f \in DOMAIN read : f \in DOMAIN run' /\ run'[f] = read[f]
        /\ \A f \in DOMAIN run \ ({"pc"} \cup DOMAIN read) : f \in DOMAIN run' /\ run'[f] = run[f]
    <2>1. /\ DOMAIN run' = DOMAIN run \cup DOMAIN read
          /\ \A f \in DOMAIN read \ {"pc"} : run'[f] = read[f]
          /\ \A f \in DOMAIN run \ ({"pc"} \cup DOMAIN read) : run'[f] = run[f]
      BY <1>4, StepIs
    <2>2. \A f \in DOMAIN read : f \in DOMAIN read \ {"pc"} /\ f \in DOMAIN run'
      BY <1>2, <2>1
    <2>3. \A f \in DOMAIN run \ ({"pc"} \cup DOMAIN read) : f \in DOMAIN run'
      BY <2>1
    <2> QED
      BY <2>1, <2>2, <2>3
  <1>6. run'.audit = run.audit /\ "audit" \in DOMAIN run'
    BY <1>2, <1>4, <1>5
  <1>7. bars' = bars /\ funding' = funding /\ (RunOK' /\ SeenOK' => HoldoutInv')
    BY OnlyTheRun
  <1>8. AuditedOK'
    BY <1>1, <1>3, <1>4, <1>6 DEF AuditedOK
  <1>9. ASSUME Clean' PROVE Clean /\ AuditedSeen /\ AuditedSeen'
    <2>1. Clean
      BY <1>1, <1>3, <1>6, <1>9 DEF Clean
    <2>2. AuditedSeen
      BY <1>1, <2>1 DEF HoldoutInv, SeenOK, AuditedSeen
    <2> QED
      BY <1>3, <1>6, <1>7, <2>1, <2>2 DEF AuditedSeen
  <1> QED
    BY <1>3, <1>5, <1>6, <1>7, <1>8, <1>9

LEMMA ReadLinesIsFine ==
    ASSUME HoldoutInv, ReadLines
    PROVE  HoldoutInv'
  <1>1. PICK read : read = [lines |-> bars]
    OBVIOUS
  <1>2. /\ DOMAIN read = {"lines"} /\ read.lines = bars /\ Step("projection", read)
        /\ run.pc = "lines" /\ RunUnchanged
    BY <1>1 DEF ReadLines
  <1>3. run.pc \in Audited /\ "projection" \in Audited
    BY <1>2 DEF Audited, Sliced
  <1>4. DOMAIN read \cap (Given \cup {"pc", "audit"}) = {}
    BY <1>2 DEF Given
  <1>5. /\ run'.pc = "projection" /\ AuditedOK' /\ (Clean' => AuditedSeen')
        /\ "lines" \in DOMAIN run' /\ run'.lines = bars
        /\ bars' = bars /\ (RunOK' /\ SeenOK' => HoldoutInv')
    BY <1>2, <1>3, <1>4, AuditedStep
  <1>6. RunOK'
    BY <1>5 DEF RunOK, AuditedOK, Given, Sliced, Audited, Lined, Projected, Sealed, Compared,
                Locked, Gated
  <1>7. SeenOK'
    <2>1. Clean' => SameBars(run'.lines, run'.cut.bars, run'.split) /\ run'.lines \in Seq(RowsOver(Closes))
      BY <1>5 DEF AuditedSeen, HoldoutInv, DataOK
    <2> QED
      BY <1>5, <2>1 DEF SeenOK, AuditedSeen, Projected, Sealed, Lined, Audited, Sliced
  <1> QED
    BY <1>5, <1>6, <1>7

LEMMA ReadProjectedBarsIsFine ==
    ASSUME HoldoutInv, ReadProjectedBars
    PROVE  HoldoutInv'
  <1>1. PICK read : read = [rows |-> bars]
    OBVIOUS
  <1>2. /\ DOMAIN read = {"rows"} /\ read.rows = bars /\ Step("seal", read)
        /\ run.pc = "projection" /\ RunUnchanged
    BY <1>1 DEF ReadProjectedBars
  <1>3. run.pc \in Audited /\ "seal" \in Audited /\ run.pc \in Lined
    BY <1>2 DEF Lined, Audited, Sliced
  <1>4. DOMAIN read \cap (Given \cup {"pc", "audit"}) = {}
    BY <1>2 DEF Given
  <1>5. "lines" \in DOMAIN run
    BY <1>3 DEF HoldoutInv, RunOK
  <1>6. /\ run'.pc = "seal" /\ AuditedOK' /\ (Clean' => Clean /\ AuditedSeen')
        /\ "rows" \in DOMAIN run' /\ run'.rows = bars
        /\ "lines" \in DOMAIN run' /\ run'.lines = run.lines
        /\ bars' = bars /\ (RunOK' /\ SeenOK' => HoldoutInv')
        /\ run'.cut = run.cut /\ run'.split = run.split
    BY <1>2, <1>3, <1>4, <1>5, AuditedStep
  <1>7. RunOK'
    BY <1>6 DEF RunOK, AuditedOK, Given, Sliced, Audited, Lined, Projected, Sealed, Compared,
                Locked, Gated
  <1>8. SeenOK'
    <2>1. Clean' => SameBars(run'.rows, run'.cut.bars, run'.split) /\ run'.rows \in Seq(RowsOver(Closes))
      BY <1>6 DEF AuditedSeen, HoldoutInv, DataOK
    <2>2. Clean' => SameBars(run'.lines, run'.cut.bars, run'.split) /\ run'.lines \in Seq(RowsOver(Closes))
      BY <1>3, <1>6 DEF HoldoutInv, SeenOK, Lined, Audited
    <2> QED
      BY <1>6, <2>1, <2>2 DEF SeenOK, AuditedSeen, Projected, Sealed, Lined, Audited, Sliced
  <1> QED
    BY <1>6, <1>7, <1>8

LEMMA ReadProjectedFundingIsFine ==
    ASSUME HoldoutInv, ReadProjectedFunding
    PROVE  HoldoutInv'
  <1>1. PICK seal : seal = Sealable(run.split, run.audit, run.lines, run.rows, funding, run.roles)
    OBVIOUS
  <1>2. PICK read : read = [seal |-> seal]
    OBVIOUS
  <1>3. /\ DOMAIN read = {"seal"} /\ read.seal = seal /\ Step("compare", read)
        /\ run.pc = "seal" /\ RunUnchanged
    BY <1>1, <1>2 DEF ReadProjectedFunding
  <1>4. run.pc \in Audited /\ "compare" \in Audited /\ run.pc \in Lined /\ run.pc \in Projected
    BY <1>3 DEF Projected, Lined, Audited, Sliced
  <1>5. DOMAIN read \cap (Given \cup {"pc", "audit"}) = {}
    BY <1>3 DEF Given
  <1>6. "lines" \in DOMAIN run /\ "rows" \in DOMAIN run
    BY <1>4 DEF HoldoutInv, RunOK
  <1>7. /\ run'.pc = "compare" /\ AuditedOK' /\ (Clean' => Clean /\ AuditedSeen /\ AuditedSeen')
        /\ "seal" \in DOMAIN run' /\ run'.seal = seal
        /\ "rows" \in DOMAIN run' /\ run'.rows = run.rows
        /\ "lines" \in DOMAIN run' /\ run'.lines = run.lines
        /\ (RunOK' /\ SeenOK' => HoldoutInv')
        /\ run'.cut = run.cut /\ run'.split = run.split /\ run'.roles = run.roles
    BY <1>3, <1>4, <1>5, <1>6, AuditedStep
  <1>8. Single(seal)
    BY <1>1, SealableIsSingle
  <1>9. RunOK'
    BY <1>7, <1>8 DEF RunOK, AuditedOK, Given, Sliced, Audited, Lined, Projected, Sealed, Compared,
                      Locked, Gated
  <1>10. SeenOK'
    <2> SUFFICES ASSUME Clean' PROVE SeenOK'
      BY DEF SeenOK
    <2>1. /\ SameBars(run.lines, run.cut.bars, run.split) /\ run.lines \in Seq(RowsOver(Closes))
          /\ SameBars(run.rows, run.cut.bars, run.split) /\ run.rows \in Seq(RowsOver(Closes))
      BY <1>4, <1>7 DEF HoldoutInv, SeenOK, Lined, Audited
    <2>2. /\ run.cut.bars \in Seq(RowsOver(Closes)) /\ run.cut.funding \in Seq(RowsOver(Rates))
          /\ Sound(run.cut.bars, run.split)
          /\ "funding" \in run.roles =>
                SameFunding(funding, run.cut.funding, Opening(run.cut, run.split))
          /\ "funding" \notin run.roles => run.cut.funding = <<>>
      BY <1>7 DEF AuditedSeen
    <2>3. run.split \in Splits /\ funding \in Seq(RowsOver(Rates))
      BY <1>4 DEF HoldoutInv, RunOK, DataOK, Audited, Sliced
    <2>4. seal \subseteq {QuarantineOf(run.cut, run.split, run.roles)}
      BY <1>1, <2>1, <2>2, <2>3, SealIsOfTheCut
    <2> QED
      BY <1>7, <2>1, <2>4 DEF SeenOK, AuditedSeen
  <1> QED
    BY <1>7, <1>9, <1>10

\* From the seal on nothing is read that it depends on.
SealedOK ==
    /\ AuditedOK
    /\ {"lines", "rows", "seal"} \subseteq DOMAIN run /\ Single(run.seal)

LEMMA SealedStep ==
    ASSUME HoldoutInv, run.pc \in Sealed, NEW label, NEW read, Step(label, read), RunUnchanged,
           label \in Compared, DOMAIN read \cap (Given \cup {"pc", "audit", "lines", "rows", "seal"}) = {}
    PROVE  /\ run'.pc = label /\ SealedOK' /\ run'.audit = run.audit /\ run'.seal = run.seal
           /\ run'.commit = run.commit /\ run'.cut = run.cut /\ run'.entry = run.entry
           /\ \A f \in DOMAIN read : f \in DOMAIN run' /\ run'[f] = read[f]
           /\ \A f \in DOMAIN run \ ({"pc"} \cup DOMAIN read) : f \in DOMAIN run' /\ run'[f] = run[f]
           /\ RunOK' => HoldoutInv'
  <1>1. /\ run.pc \in Audited /\ run.pc \in Lined /\ run.pc \in Projected
        /\ label \in Audited /\ label \in Lined /\ label \in Projected /\ label \in Sealed
        /\ DOMAIN read \cap (Given \cup {"pc", "audit"}) = {}
        /\ {"lines", "rows", "seal"} \cap ({"pc"} \cup DOMAIN read) = {}
    BY DEF Compared, Sealed, Projected, Lined, Audited
  <1>2. {"lines", "rows", "seal"} \subseteq DOMAIN run /\ Single(run.seal)
    BY <1>1 DEF HoldoutInv, RunOK
  <1>3. /\ run'.pc = label /\ AuditedOK' /\ run'.audit = run.audit
        /\ run'.split = run.split /\ run'.commit = run.commit
        /\ run'.roles = run.roles /\ run'.cut = run.cut /\ run'.entry = run.entry
        /\ Clean' => Clean /\ AuditedSeen /\ AuditedSeen'
        /\ \A f \in DOMAIN read : f \in DOMAIN run' /\ run'[f] = read[f]
        /\ \A f \in DOMAIN run \ ({"pc"} \cup DOMAIN read) : f \in DOMAIN run' /\ run'[f] = run[f]
        /\ (RunOK' /\ SeenOK' => HoldoutInv')
    BY <1>1, AuditedStep
  <1>4. \A f \in {"lines", "rows", "seal"} : f \in DOMAIN run' /\ run'[f] = run[f]
    BY <1>1, <1>2, <1>3
  <1>5. /\ {"lines", "rows", "seal"} \subseteq DOMAIN run'
        /\ run'.lines = run.lines /\ run'.rows = run.rows /\ run'.seal = run.seal
    BY <1>4
  <1>6. SealedOK'
    BY <1>2, <1>3, <1>5 DEF SealedOK
  <1>7. SeenOK'
    <2> SUFFICES ASSUME Clean' PROVE SeenOK'
      BY DEF SeenOK
    <2>1. /\ SameBars(run.lines, run.cut.bars, run.split) /\ run.lines \in Seq(RowsOver(Closes))
          /\ SameBars(run.rows, run.cut.bars, run.split) /\ run.rows \in Seq(RowsOver(Closes))
          /\ run.seal \subseteq {QuarantineOf(run.cut, run.split, run.roles)}
      BY <1>1, <1>3 DEF HoldoutInv, SeenOK, Audited
    <2> QED
      BY <1>3, <1>5, <2>1 DEF SeenOK, AuditedSeen
  <1> QED
    BY <1>3, <1>5, <1>6, <1>7

LEMMA CompareSealIsFine ==
    ASSUME HoldoutInv, CompareSeal
    PROVE  HoldoutInv'
  <1>1. PICK read : read = [sealState |-> SealState(run.seal, run.entry.seal)]
    OBVIOUS
  <1>2. /\ DOMAIN read = {"sealState"} /\ read.sealState = SealState(run.seal, run.entry.seal)
        /\ Step("lock", read) /\ run.pc = "compare" /\ RunUnchanged
    BY <1>1 DEF CompareSeal
  <1>3. run.pc \in Sealed /\ "lock" \in Compared
    BY <1>2 DEF Compared, Sealed, Projected, Lined, Audited, Sliced
  <1>4. DOMAIN read \cap (Given \cup {"pc", "audit", "lines", "rows", "seal"}) = {}
    BY <1>2 DEF Given
  <1>5. /\ run'.pc = "lock" /\ SealedOK' /\ run'.seal = run.seal /\ run'.entry = run.entry
        /\ "sealState" \in DOMAIN run' /\ run'.sealState = SealState(run.seal, run.entry.seal)
        /\ RunOK' => HoldoutInv'
    BY <1>2, <1>3, <1>4, SealedStep
  <1>6. RunOK'
    BY <1>5 DEF RunOK, SealedOK, AuditedOK, Given, Sliced, Audited, Lined, Projected, Sealed,
                Compared, Locked, Gated
  <1> QED
    BY <1>5, <1>6

LEMMA LockPacketIsFine ==
    ASSUME HoldoutInv, LockPacket
    PROVE  HoldoutInv'
  <1>1. PICK packet : packet = PacketCandidate(run.audit, run.sealState, run.seal, run.cut,
                                               run.entry.split, run.commit)
    OBVIOUS
  <1>2. PICK read : read = [packet |-> packet]
    OBVIOUS
  <1>3. /\ DOMAIN read = {"packet"} /\ read.packet = packet
        /\ Step("gate", read) /\ run.pc = "lock" /\ RunUnchanged
    BY <1>1, <1>2 DEF LockPacket
  <1>4. run.pc \in Sealed /\ run.pc \in Compared /\ "gate" \in Compared
    BY <1>3 DEF Compared, Sealed, Projected, Lined, Audited, Sliced
  <1>5. DOMAIN read \cap (Given \cup {"pc", "audit", "lines", "rows", "seal"}) = {}
    BY <1>3 DEF Given
  <1>6. /\ "sealState" \in DOMAIN run /\ run.sealState = SealState(run.seal, run.entry.seal)
        /\ Single(run.seal)
    BY <1>4 DEF HoldoutInv, RunOK
  <1>7. PacketOK(packet, run.seal, run.cut, run.entry.split, run.commit)
    BY <1>1, <1>6, PacketIs
  <1>8. /\ run'.pc = "gate" /\ SealedOK' /\ run'.seal = run.seal /\ run'.entry = run.entry
        /\ run'.cut = run.cut /\ run'.commit = run.commit
        /\ "packet" \in DOMAIN run' /\ run'.packet = packet
        /\ "sealState" \in DOMAIN run' /\ run'.sealState = run.sealState
        /\ RunOK' => HoldoutInv'
    BY <1>3, <1>4, <1>5, <1>6, SealedStep
  <1>9. RunOK'
    BY <1>6, <1>7, <1>8 DEF RunOK, SealedOK, AuditedOK, Given, Sliced, Audited, Lined, Projected,
                Sealed, Compared, Locked, Gated
  <1> QED
    BY <1>8, <1>9

\* A run whose packet is built, and what its later steps leave of it.
LockedOK ==
    /\ SealedOK /\ {"sealState", "packet"} \subseteq DOMAIN run
    /\ run.sealState = SealState(run.seal, run.entry.seal)
    /\ PacketOK(run.packet, run.seal, run.cut, run.entry.split, run.commit)

LEMMA LockedStep ==
    ASSUME HoldoutInv, run.pc \in Locked, NEW label, NEW read, Step(label, read), RunUnchanged,
           label \in Gated,
           DOMAIN read \cap (Given \cup {"pc", "audit", "lines", "rows", "seal"}
                                   \cup {"sealState", "packet"}) = {}
    PROVE  /\ run'.pc = label /\ LockedOK' /\ run'.audit = run.audit
           /\ PacketLock' = PacketLock
           /\ \A f \in DOMAIN read : f \in DOMAIN run' /\ run'[f] = read[f]
           /\ \A f \in DOMAIN run \ ({"pc"} \cup DOMAIN read) : f \in DOMAIN run' /\ run'[f] = run[f]
           /\ RunOK' => HoldoutInv'
  <1>1. /\ run.pc \in Sealed /\ run.pc \in Compared /\ label \in Compared
        /\ DOMAIN read \cap (Given \cup {"pc", "audit", "lines", "rows", "seal"}) = {}
        /\ {"sealState", "packet"} \cap ({"pc"} \cup DOMAIN read) = {}
    BY DEF Gated, Locked, Compared
  <1>2. /\ {"sealState", "packet"} \subseteq DOMAIN run
        /\ run.sealState = SealState(run.seal, run.entry.seal)
        /\ PacketOK(run.packet, run.seal, run.cut, run.entry.split, run.commit)
    BY <1>1 DEF HoldoutInv, RunOK
  <1>3. /\ run'.pc = label /\ SealedOK' /\ run'.audit = run.audit /\ run'.seal = run.seal
        /\ run'.commit = run.commit /\ run'.cut = run.cut /\ run'.entry = run.entry
        /\ \A f \in DOMAIN read : f \in DOMAIN run' /\ run'[f] = read[f]
        /\ \A f \in DOMAIN run \ ({"pc"} \cup DOMAIN read) : f \in DOMAIN run' /\ run'[f] = run[f]
        /\ RunOK' => HoldoutInv'
    BY <1>1, SealedStep
  <1>4. \A f \in {"sealState", "packet"} : f \in DOMAIN run' /\ run'[f] = run[f]
    BY <1>1, <1>2, <1>3
  <1>5. /\ {"sealState", "packet"} \subseteq DOMAIN run'
        /\ run'.sealState = run.sealState /\ run'.packet = run.packet
    BY <1>4
  <1>6. LockedOK'
    BY <1>2, <1>3, <1>5 DEF LockedOK
  <1>7. PacketLock' = PacketLock
    BY <1>3, <1>5 DEF PacketLock
  <1> QED
    BY <1>3, <1>6, <1>7

LEMMA EvaluateGateIsFine ==
    ASSUME HoldoutInv, EvaluateGate
    PROVE  HoldoutInv'
  <1>1. PICK gate : gate = Gate(run.audit, run.sealState, PacketLock, run.packet, run.entry.gate)
    OBVIOUS
  <1>2. PICK read : read = [gate |-> gate]
    OBVIOUS
  <1>3. /\ DOMAIN read = {"gate"} /\ read.gate = gate
        /\ Step("bind", read) /\ run.pc = "gate" /\ RunUnchanged
    BY <1>1, <1>2 DEF EvaluateGate
  <1>4. run.pc \in Locked /\ "bind" \in Gated
    BY <1>3 DEF Gated, Locked, Compared, Sealed, Projected, Lined, Audited, Sliced
  <1>5. DOMAIN read \cap (Given \cup {"pc", "audit", "lines", "rows", "seal"}
                                \cup {"sealState", "packet"}) = {}
    BY <1>3 DEF Given
  <1>6. /\ gate.state \in {"blocked", "gate_passed", "mismatch"}
        /\ gate.state = "gate_passed" => run.audit.passed /\ PacketLock = "locked"
    BY <1>1, GateIs
  <1>7. /\ run'.pc = "bind" /\ LockedOK' /\ run'.audit = run.audit /\ PacketLock' = PacketLock
        /\ "gate" \in DOMAIN run' /\ run'.gate = gate
        /\ RunOK' => HoldoutInv'
    BY <1>3, <1>4, <1>5, LockedStep
  <1>8. RunOK'
    BY <1>6, <1>7 DEF RunOK, LockedOK, SealedOK, AuditedOK, Given, Sliced, Audited, Lined, Projected,
                Sealed, Compared, Locked, Gated
  <1> QED
    BY <1>7, <1>8

\* Scoring reads what no later comparison uses.
LEMMA ScoringStep ==
    ASSUME HoldoutInv, run.pc \in Gated, NEW label, NEW field \in {"error", "train", "rates"},
           NEW read, DOMAIN read = {field}, Step(label, read), RunUnchanged, label \in Gated
    PROVE  HoldoutInv'
  <1>1. run.pc \in Locked
    BY DEF Gated
  <1>2. DOMAIN read \cap (Given \cup {"pc", "audit", "lines", "rows", "seal"}
                                \cup {"sealState", "packet"}) = {}
    BY DEF Given
  <1>3. /\ "gate" \in DOMAIN run /\ run.gate.state \in {"blocked", "gate_passed", "mismatch"}
        /\ run.gate.state = "gate_passed" => run.audit.passed /\ PacketLock = "locked"
    BY DEF HoldoutInv, RunOK
  <1>4. /\ run'.pc = label /\ LockedOK' /\ run'.audit = run.audit /\ PacketLock' = PacketLock
        /\ \A f \in DOMAIN run \ ({"pc"} \cup DOMAIN read) : f \in DOMAIN run' /\ run'[f] = run[f]
        /\ RunOK' => HoldoutInv'
    BY <1>1, <1>2, LockedStep
  <1>5. "gate" \in DOMAIN run' /\ run'.gate = run.gate
    BY <1>3, <1>4
  <1>6. RunOK'
    BY <1>3, <1>4, <1>5 DEF RunOK, LockedOK, SealedOK, AuditedOK, Given, Sliced, Audited, Lined,
                Projected, Sealed, Compared, Locked, Gated, Decomposing
  <1> QED
    BY <1>4, <1>6

LEMMA ScoringIsFine ==
    ASSUME HoldoutInv, Bind \/ ReadTrain \/ ReadRates
    PROVE  HoldoutInv'
  <1>1. {"bind", "train", "rates", "report"} \subseteq Gated
    BY DEF Gated, Locked, Compared, Sealed, Projected, Lined, Audited, Sliced
  <1>2. CASE Bind
    <2>1. PICK label : label = IF ScoringError = "none" THEN "train" ELSE "report"
      OBVIOUS
    <2>2. PICK read : read = [error |-> ScoringError]
      OBVIOUS
    <2>3. DOMAIN read = {"error"} /\ Step(label, read) /\ RunUnchanged /\ run.pc = "bind"
      BY <1>2, <2>1, <2>2 DEF Bind
    <2> QED
      BY <1>1, <2>1, <2>3, ScoringStep
  <1>3. CASE ReadTrain
    <2>1. PICK read : read = [train |-> TrainBars(bars, run.split.boundary)]
      OBVIOUS
    <2>2. DOMAIN read = {"train"} /\ Step("rates", read) /\ RunUnchanged /\ run.pc = "train"
      BY <1>3, <2>1 DEF ReadTrain
    <2> QED
      BY <1>1, <2>2, ScoringStep
  <1>4. CASE ReadRates
    <2>1. PICK read : read = [rates |-> IF run.train = <<>> THEN <<>> ELSE TrainFunding(funding, run.train)]
      OBVIOUS
    <2>2. DOMAIN read = {"rates"} /\ Step("report", read) /\ RunUnchanged /\ run.pc = "rates"
      BY <1>4, <2>1 DEF ReadRates
    <2> QED
      BY <1>1, <2>2, ScoringStep
  <1> QED
    BY <1>2, <1>3, <1>4

\* A run that starts has seen the cut, which is the data itself.
LEMMA StartIsFine ==
    ASSUME HoldoutInv, NEW args \in Invocations, Start(args)
    PROVE  HoldoutInv'
  <1>1. args.split \in Splits /\ args.roles \in {{"bars"}, BothRoles}
    BY InvocationsAssumption DEF Splits
  <1>2. PICK cut : cut = CutOf(bars, funding, args.roles)
    OBVIOUS
  <1>3. run' = [pc |-> "audit", split |-> args.split, commit |-> args.commit, roles |-> args.roles,
                cut |-> cut, entry |-> entry, touched |-> {}]
    BY <1>2 DEF Start
  <1>4. bars' = bars /\ funding' = funding /\ (RunOK' /\ SeenOK' => HoldoutInv')
    BY OnlyTheRun DEF Start, RunUnchanged
  <1>5. /\ run'.pc = "audit" /\ run'.split = args.split /\ run'.roles = args.roles
        /\ run'.cut = cut /\ run'.entry = entry /\ run'.touched = {}
        /\ DOMAIN run' = {"pc", "split", "commit", "roles", "cut", "entry", "touched"}
    BY <1>3
  <1>6. RunOK'
    BY <1>1, <1>5 DEF HoldoutInv, RunOK, Sliced, Audited, Lined, Projected, Sealed, Compared,
                      Locked, Gated
  <1>7. SeenOK'
    <2> SUFFICES ASSUME Clean' PROVE SeenOK'
      BY DEF SeenOK
    <2>1. Sound(bars, args.split)
      BY <1>4, <1>5 DEF Clean
    <2>2. cut.bars = bars /\ cut.funding = IF "funding" \in args.roles THEN funding ELSE <<>>
      BY <1>2 DEF CutOf
    <2>3. bars \in Seq(RowsOver(Closes)) /\ funding \in Seq(RowsOver(Rates))
      BY DEF HoldoutInv, DataOK
    <2>4. SameBars(bars, cut.bars, args.split)
      BY <2>2 DEF SameBars
    <2>5. "funding" \in args.roles => SameFunding(funding, cut.funding, Opening(cut, args.split))
      BY <2>2 DEF SameFunding
    <2>6. cut.funding \in Seq(RowsOver(Rates))
      BY <2>2, <2>3
    <2> QED
      BY <1>4, <1>5, <2>1, <2>2, <2>3, <2>4, <2>5, <2>6
         DEF SeenOK, Audited, Lined, Projected, Sealed
  <1> QED
    BY <1>4, <1>6, <1>7

\* The invariant but for the run.
LEMMA IdleIsFine ==
    ASSUME RestOK', run'.pc \notin Sliced, RunOK'
    PROVE  HoldoutInv'
  BY DEF RestOK, HoldoutInv, SeenOK

LEMMA IdleRun ==
    ASSUME run' = Idle
    PROVE  RunOK' /\ run'.pc \notin Sliced
  BY DEF Idle, RunOK, Sliced, Audited, Lined, Projected, Sealed, Compared, Locked, Gated, Decomposing

LEMMA ReportIsFine ==
    ASSUME HoldoutInv, Report
    PROVE  HoldoutInv'
  <1>1. run.pc = "report"
    BY DEF Report
  <1>2. /\ run.pc \in Sliced /\ run.pc \in Audited /\ run.pc \in Sealed /\ run.pc \in Compared
        /\ run.pc \in Locked /\ run.pc \in Gated
    BY <1>1 DEF Gated, Locked, Compared, Sealed, Projected, Lined, Audited, Sliced
  <1>3. PICK r : /\ receipt' = {r}
                 /\ r.split = run.split /\ r.commit = run.commit /\ r.roles = run.roles
                 /\ r.cut = run.cut /\ r.audited = run.audit.passed
                 /\ r.seal = run.seal /\ r.sealState = run.sealState
                 /\ r.packet = run.packet /\ r.packetState = PacketLock /\ r.gate = run.gate
                 /\ r.entry = run.entry /\ r.touched = run.touched
    <2>1. PICK policy : policy = PolicyState(run.entry)
      OBVIOUS
    <2>2. PICK killed : killed = Killed
      OBVIOUS
    <2>3. PICK statistic : statistic = IF run.error # "none" THEN Unscored("blocked", run.error)
                                       ELSE Score(run.train, run.rates, run.split.boundary)
      OBVIOUS
    <2>4. PICK lock : lock = PacketLock
      OBVIOUS
    <2>5. PICK r : r = [split |-> run.split, commit |-> run.commit, roles |-> run.roles, cut |-> run.cut,
                        audited |-> run.audit.passed,
                        seal |-> run.seal, sealState |-> run.sealState,
                        packet |-> run.packet, packetState |-> lock,
                        gate |-> run.gate, policy |-> policy, killed |-> killed,
                        statistic |-> statistic, entry |-> run.entry, touched |-> run.touched]
      OBVIOUS
    <2>6. receipt' = {r}
      BY <2>1, <2>2, <2>3, <2>4, <2>5 DEF Report
    <2> QED
      BY <2>4, <2>5, <2>6
  <1>4. run.split \in Splits /\ EntryOK(run.entry) /\ Single(run.seal)
    BY <1>2 DEF HoldoutInv, RunOK, Sliced
  <1>5. /\ run.sealState = SealState(run.seal, run.entry.seal)
        /\ PacketOK(run.packet, run.seal, run.cut, run.entry.split, run.commit)
        /\ run.gate.state \in {"blocked", "gate_passed", "mismatch"}
        /\ run.gate.state = "gate_passed" => run.audit.passed /\ PacketLock = "locked"
        /\ run.audit.passed => run.entry.split = {run.split}
    BY <1>2 DEF HoldoutInv, RunOK
  <1>6. run.audit.passed /\ "quarantine" \notin run.touched =>
            run.seal \subseteq {QuarantineOf(run.cut, run.split, run.roles)}
    BY <1>1, <1>2 DEF HoldoutInv, SeenOK, Clean
  <1>7. PacketLock = PacketState(run.packet, run.entry.packet)
    BY DEF PacketLock
  <1>8. ReceiptOK(r)
    BY <1>3, <1>4, <1>5, <1>6, <1>7 DEF ReceiptOK
  <1>9. RestOK'
    <2>1. /\ bars' = bars /\ funding' = funding /\ edits' = edits /\ entry' = entry
          /\ archive' = archive
      BY DEF Report, dataVars
    <2>2. DataOK'
      BY <2>1 DEF HoldoutInv, DataOK
    <2> QED
      BY <1>3, <1>8, <2>1, <2>2 DEF HoldoutInv, RestOK
  <1>10. RunOK' /\ run'.pc \notin Sliced
    BY IdleRun DEF Report
  <1> QED
    BY <1>9, <1>10, IdleIsFine

LEMMA DecompositionIsFine ==
    ASSUME HoldoutInv,
           \/ StartDecomposition \/ CheckContract \/ ReadSlotBars \/ ReadSlotRates
           \/ MaterializeSlots \/ PublishDecomposition
    PROVE  HoldoutInv'
  <1>1. RestOK'
    <2>1. /\ bars' = bars /\ funding' = funding /\ edits' = edits /\ entry' = entry
          /\ archive' = archive /\ receipt' = receipt
      BY DEF StartDecomposition, CheckContract, ReadSlotBars, ReadSlotRates, MaterializeSlots,
             PublishDecomposition, RunUnchanged, dataVars
    <2>2. DataOK'
      BY <2>1 DEF HoldoutInv, DataOK
    <2> QED
      BY <2>1, <2>2 DEF HoldoutInv, RestOK
  <1>2. ASSUME NEW label \in Decomposing, NEW field \in {"touched", "train", "rates", "slots"}, NEW read,
               run.pc \in Decomposing, DOMAIN read = {field}, Step(label, read)
        PROVE  HoldoutInv'
    <2>3. "pc" \in DOMAIN run /\ {"split", "touched"} \subseteq DOMAIN run /\ run.split \in Splits
      BY <1>2 DEF HoldoutInv, RunOK, Decomposing
    <2>4. /\ run'.pc = label /\ DOMAIN run' = DOMAIN run \cup {field}
          /\ \A f \in DOMAIN run \ ({"pc"} \cup {field}) : run'[f] = run[f]
      BY <1>2, <2>3, StepIs
    <2>5. run'.split = run.split
      BY <2>3, <2>4
    <2>6. RunOK' /\ run'.pc \notin Sliced
      BY <2>3, <2>4, <2>5 DEF RunOK, Sliced, Audited, Lined, Projected, Sealed, Compared, Locked,
                              Gated, Decomposing
    <2> QED
      BY <1>1, <2>6, IdleIsFine
  <1>3. ASSUME run' = Idle PROVE HoldoutInv'
    BY <1>1, <1>3, IdleRun, IdleIsFine
  <1>4. CASE StartDecomposition
    <2>1. PICK a \in archive : \E audit :
              run' = [pc |-> "contract", touched |-> {}, split |-> a.source.split,
                      archived |-> a, audit |-> audit]
      BY <1>4 DEF StartDecomposition
    <2>2. a.source.split \in Splits
      BY DEF HoldoutInv
    <2>3. PICK audit :
              run' = [pc |-> "contract", touched |-> {}, split |-> a.source.split,
                      archived |-> a, audit |-> audit]
      BY <2>1
    <2>4. /\ run'.pc = "contract" /\ run'.split \in Splits
          /\ DOMAIN run' = {"pc", "touched", "split", "archived", "audit"}
      BY <2>2, <2>3
    <2>5. RunOK' /\ run'.pc \notin Sliced
      BY <2>4 DEF RunOK, Sliced, Audited, Lined, Projected, Sealed, Compared, Locked, Gated,
                  Decomposing
    <2> QED
      BY <1>1, <2>5, IdleIsFine
  <1>5. CASE CheckContract
    <2>1. CASE ContractHolds(run.archived, run.audit)
      <3>1. Step("slots", [touched |-> run.touched]) /\ run.pc = "contract"
        BY <1>5, <2>1 DEF CheckContract
      <3>2. PICK read : read = [touched |-> run.touched]
        OBVIOUS
      <3>3. Step("slots", read) /\ DOMAIN read = {"touched"}
        BY <3>1, <3>2
      <3> QED
        BY <1>2, <3>1, <3>3 DEF Decomposing
    <2>2. CASE ~ContractHolds(run.archived, run.audit)
      BY <1>3, <1>5, <2>2 DEF CheckContract
    <2> QED
      BY <2>1, <2>2
  <1>6. CASE ReadSlotBars
    <2>1. PICK read : read = [train |-> TrainBars(bars, run.split.boundary)]
      OBVIOUS
    <2>2. Step("components", read) /\ DOMAIN read = {"train"} /\ run.pc = "slots"
      BY <1>6, <2>1 DEF ReadSlotBars
    <2> QED
      BY <1>2, <2>2 DEF Decomposing
  <1>7. CASE ReadSlotRates
    <2>1. PICK read : read = [rates |-> TrainFunding(funding, run.train)]
      OBVIOUS
    <2>2. Step("slotted", read) /\ DOMAIN read = {"rates"} /\ run.pc = "components"
      BY <1>7, <2>1 DEF ReadSlotRates
    <2> QED
      BY <1>2, <2>2 DEF Decomposing
  <1>8. CASE MaterializeSlots
    <2>1. PICK read : read = [slots |-> Materialized(run.train, run.rates, run.split.boundary)]
      OBVIOUS
    <2>2. Step("decompose", read) /\ DOMAIN read = {"slots"} /\ run.pc = "slotted"
      BY <1>8, <2>1 DEF MaterializeSlots
    <2> QED
      BY <1>2, <2>2 DEF Decomposing
  <1>9. CASE PublishDecomposition
    BY <1>3, <1>9 DEF PublishDecomposition
  <1> QED
    BY <1>4, <1>5, <1>6, <1>7, <1>8, <1>9

\* The operator acts on the registry and on the archive.
LEMMA RegistryIsFine ==
    ASSUME HoldoutInv, run' = run, bars' = bars, funding' = funding, edits' = edits,
           receipt' = receipt, EntryOK(entry'), \A a \in archive' : a.source.split \in Splits
    PROVE  HoldoutInv'
  <1>1. DataOK'
    BY DEF HoldoutInv, DataOK
  <1>2. RunOK'
    BY DEF HoldoutInv, RunOK, PacketLock
  <1>3. SeenOK'
    BY DEF HoldoutInv, SeenOK, Clean
  <1> QED
    BY <1>1, <1>2, <1>3 DEF HoldoutInv

LEMMA CopyIsFine ==
    ASSUME EntryOK(entry), NEW field \in EntryFields, NEW value, Single(value),
           entry' = [entry EXCEPT ![field] = value]
    PROVE  EntryOK(entry')
  BY DEF EntryOK

LEMMA RegisterIsFine ==
    ASSUME HoldoutInv, Register
    PROVE  HoldoutInv'
  <1>1. /\ run' = run /\ bars' = bars /\ funding' = funding /\ edits' = edits
        /\ receipt' = receipt /\ archive' = archive
    BY DEF Register, RegisterTrial, RegisterSeal, RegisterPacket, RegisterGate, Copy, dataVars
  <1>2. EntryOK(entry) /\ \A r \in receipt : ReceiptOK(r)
    BY DEF HoldoutInv
  <1>3. EntryOK(entry')
    <2>1. CASE RegisterTrial
      <3>1. PICK r : entry' = [entry EXCEPT !.cut = {r.cut}, !.split = {r.split},
                                            !.policy = {r.cut}, !.statistic = {r.cut}]
        BY <2>1 DEF RegisterTrial
      <3>2. Single({r.cut}) /\ Single({r.split})
        BY DEF Single
      <3> QED
        <4>1. DOMAIN entry' = EntryFields
          BY <1>2, <3>1 DEF EntryOK
        <4>2. /\ entry'["cut"] = {r.cut} /\ entry'["split"] = {r.split}
              /\ entry'["policy"] = {r.cut} /\ entry'["statistic"] = {r.cut}
              /\ entry'["seal"] = entry["seal"] /\ entry'["packet"] = entry["packet"]
              /\ entry'["gate"] = entry["gate"]
          BY <1>2, <3>1 DEF EntryOK, EntryFields
        <4>3. \A f \in EntryFields : Single(entry'[f])
          BY <1>2, <3>2, <4>2 DEF EntryOK, EntryFields
        <4> QED
          BY <4>1, <4>3 DEF EntryOK
    <2>2. CASE RegisterSeal
      <3>1. PICK r \in receipt : entry' = [entry EXCEPT !["seal"] = r.seal]
        BY <2>2 DEF RegisterSeal, Copy
      <3>2. Single(r.seal)
        BY <1>2 DEF ReceiptOK
      <3> QED
        BY <1>2, <3>1, <3>2, CopyIsFine DEF EntryFields
    <2>3. CASE RegisterPacket
      <3>1. PICK r \in receipt : entry' = [entry EXCEPT !["packet"] = r.packet]
        BY <2>3 DEF RegisterPacket, Copy
      <3>2. Single(r.packet)
        BY <1>2 DEF ReceiptOK, PacketOK
      <3> QED
        BY <1>2, <3>1, <3>2, CopyIsFine DEF EntryFields
    <2>4. CASE RegisterGate
      <3>1. PICK r \in receipt : entry' = [entry EXCEPT !["gate"] = {GateDeclaration(r.gate)}]
        BY <2>4 DEF RegisterGate, Copy
      <3>2. Single({GateDeclaration(r.gate)})
        BY DEF Single
      <3> QED
        BY <1>2, <3>1, <3>2, CopyIsFine DEF EntryFields
    <2> QED
      BY <2>1, <2>2, <2>3, <2>4 DEF Register
  <1> QED
    BY <1>1, <1>3, RegistryIsFine DEF HoldoutInv

LEMMA ArchiveIsFine ==
    ASSUME HoldoutInv, Archive \/ RecordExecution
    PROVE  HoldoutInv'
  <1>1. /\ run' = run /\ bars' = bars /\ funding' = funding /\ edits' = edits
        /\ receipt' = receipt /\ entry' = entry
    BY DEF Archive, RecordExecution, dataVars
  <1>2. CASE Archive
    <2>1. PICK r \in receipt : archive' = {[source |-> r, spent |-> FALSE]}
      BY <1>2 DEF Archive
    <2>2. r.split \in Splits
      BY DEF HoldoutInv, ReceiptOK
    <2>3. \A a \in archive' : a.source.split \in Splits
      BY <2>1, <2>2
    <2> QED
      BY <1>1, <2>3, RegistryIsFine DEF HoldoutInv
  <1>3. CASE RecordExecution
    <2>1. PICK a \in archive : archive' = {[a EXCEPT !.spent = TRUE]}
      BY <1>3 DEF RecordExecution
    <2>2. a.source.split \in Splits
      BY DEF HoldoutInv
    <2>3. PICK spent : spent = [a EXCEPT !.spent = TRUE]
      OBVIOUS
    <2>4. spent.source = a.source /\ archive' = {spent}
      BY <2>1, <2>3
    <2>5. \A b \in archive' : b.source.split \in Splits
      BY <2>2, <2>4
    <2> QED
      BY <1>1, <2>5, RegistryIsFine DEF HoldoutInv
  <1> QED
    BY <1>2, <1>3

-----------------------------------------------------------------------------
(* Theorems.                                                                *)

LEMMA HoldoutStarts == ASSUME Init PROVE HoldoutInv
  <1>1. DataOK
    BY DataAssumption DEF Init, DataOK, RowsOver
  <1>2. RunOK /\ SeenOK
    BY DEF Init, Idle, RunOK, SeenOK, Sliced, Audited, Lined, Projected, Sealed, Compared, Locked,
           Gated, Decomposing
  <1>3. EntryOK(entry)
    BY DEF Init, Unregistered, EntryOK, EntryFields, Single
  <1> QED
    BY <1>1, <1>2, <1>3 DEF Init, HoldoutInv

LEMMA HoldoutSteps == ASSUME HoldoutInv, [Next]_vars PROVE HoldoutInv'
  <1>1. CASE Command
    BY <1>1, StartIsFine DEF Command
  <1>2. CASE RunStep
    BY <1>2, ReadTimestampsIsFine, ReadLinesIsFine, ReadProjectedBarsIsFine,
       ReadProjectedFundingIsFine, CompareSealIsFine, LockPacketIsFine, EvaluateGateIsFine,
       ScoringIsFine, ReportIsFine, DecompositionIsFine DEF RunStep
  <1>3. CASE StartDecomposition
    BY <1>3, DecompositionIsFine
  <1>4. CASE Archive \/ RecordExecution
    BY <1>4, ArchiveIsFine
  <1>5. CASE Register
    BY <1>5, RegisterIsFine
  <1>6. CASE ReviseBar \/ ReviseFunding \/ AppendBar
    <2>1. entry' = entry /\ archive' = archive /\ receipt' = receipt
      BY <1>6 DEF ReviseBar, ReviseFunding, AppendBar, Refresh
    <2>2. DataOK' /\ RunOK' /\ SeenOK'
      BY <1>6, ReviseBarIsFine, ReviseFundingIsFine, AppendBarIsFine
    <2> QED
      BY <2>1, <2>2 DEF HoldoutInv
  <1>7. CASE UNCHANGED vars
    <2>1. /\ run' = run /\ bars' = bars /\ funding' = funding /\ edits' = edits
          /\ receipt' = receipt /\ entry' = entry /\ archive' = archive
      BY <1>7 DEF vars, dataVars
    <2> QED
      BY <2>1, RegistryIsFine DEF HoldoutInv
  <1> QED
    BY <1>1, <1>2, <1>3, <1>4, <1>5, <1>6, <1>7 DEF Next

\* While nothing of the quarantine is replaced under it, a run of
\* build_protocol_computed_validation_slice that passed the audit keeps to the
\* cut it began with: the times never change, and the rows behind the embargo,
\* which it reads four times, are each time those of the cut.
THEOREM HoldoutInvariant == Spec => []HoldoutInv
  <1>1. Init => HoldoutInv
    BY HoldoutStarts
  <1>2. HoldoutInv /\ [Next]_vars => HoldoutInv'
    BY HoldoutSteps
  <1> QED
    BY <1>1, <1>2, PTL DEF Spec

\* Every variable keeps its type: the slice reports only the states its
\* comparisons name, and the registry entry has at most one value of a field.
THEOREM HoldoutTypeCorrect == Spec => []TypeOK
  <1>1. HoldoutInv => TypeOK
    <2> SUFFICES ASSUME HoldoutInv PROVE TypeOK
      OBVIOUS
    <2>1. /\ edits \in 0..MaxEdits
          /\ \A row \in {bars[i] : i \in DOMAIN bars} : row.v \in Closes /\ row.t \in Nat
          /\ \A row \in {funding[i] : i \in DOMAIN funding} : row.v \in Rates /\ row.t \in Nat
      <3>1. DataOK
        BY DEF HoldoutInv
      <3>2. \A i \in DOMAIN bars : bars[i] \in RowsOver(Closes)
        BY <3>1, BarsAre
      <3>3. \A i \in DOMAIN funding : funding[i] \in RowsOver(Rates)
        BY <3>1, BarsAre
      <3>4. edits \in 0..MaxEdits
        BY <3>1 DEF DataOK
      <3> QED
        BY <3>2, <3>3, <3>4 DEF RowsOver
    <2>2. run.pc \in {"idle", "audit", "lines", "projection", "seal", "compare", "lock", "gate", "bind",
                      "train", "rates", "report",
                      "contract", "slots", "components", "slotted", "decompose"}
      BY DEF HoldoutInv, RunOK, Sliced, Decomposing
    <2>3. ASSUME NEW s, Single(s) PROVE Cardinality(s) <= 1
      <3>1. CASE s = {}
        BY <3>1, FS_EmptySet
      <3>2. CASE s # {}
        <4>1. PICK x : s = {x}
          BY <2>3, <3>2 DEF Single
        <4>2. Cardinality({x}) = 1
          BY FS_Singleton
        <4> QED
          BY <4>1, <4>2
      <3> QED
        BY <3>1, <3>2
    <2>4. \A f \in DOMAIN entry : Cardinality(entry[f]) <= 1
      BY <2>3 DEF HoldoutInv, EntryOK
    <2>5. ASSUME NEW r \in receipt
          PROVE  /\ r.sealState \in {"not_sealed", "sealed", "mismatch"}
                 /\ r.packetState \in {"not_locked", "locked", "mismatch"}
                 /\ r.gate.state \in {"blocked", "gate_passed", "mismatch"}
      <3>1. ReceiptOK(r)
        BY DEF HoldoutInv
      <3>2. Single(r.entry.seal)
        BY <3>1 DEF ReceiptOK, EntryOK, EntryFields
      <3> QED
        BY <3>1, <3>2, SealStateIs, PacketStateIs DEF ReceiptOK
    <2> QED
      BY <2>1, <2>2, <2>4, <2>5 DEF TypeOK
  <1> QED
    BY <1>1, HoldoutInvariant, PTL

\* A receipt whose gate passed says the truth of the packet the registry held
\* when the run began: it is of the receipt's cut, its split, its commit and the
\* quarantined rows, unless a row of the quarantine was replaced meanwhile.  The
\* gate compares only fingerprints; that they are of one reading of the data is
\* what has to be shown.
THEOREM PassedGateIsTrue == Spec => []PassIsTrue
  <1>1. HoldoutInv => PassIsTrue
    <2> SUFFICES ASSUME HoldoutInv, NEW r \in receipt,
                        r.gate.state = "gate_passed", "quarantine" \notin r.touched
                 PROVE  r.entry.packet
                           = {PacketOf(r.cut, {r.split}, QuarantineOf(r.cut, r.split, r.roles), r.commit)}
      BY DEF PassIsTrue
    <2>1. ReceiptOK(r)
      BY DEF HoldoutInv
    <2>2. r.audited /\ r.packetState = "locked" /\ r.entry.split = {r.split}
      BY <2>1 DEF ReceiptOK
    <2>3. r.packet # {} /\ r.entry.packet = r.packet
      <3>1. PacketState(r.packet, r.entry.packet) = "locked"
        BY <2>1, <2>2 DEF ReceiptOK
      <3> QED
        BY <3>1, PacketStateIs
    <2>4. r.seal \subseteq {QuarantineOf(r.cut, r.split, r.roles)}
      BY <2>1, <2>2 DEF ReceiptOK
    <2>5. \A p \in r.packet : p = PacketOf(r.cut, {r.split}, QuarantineOf(r.cut, r.split, r.roles), r.commit)
      <3> SUFFICES ASSUME NEW p \in r.packet
                   PROVE  p = PacketOf(r.cut, {r.split}, QuarantineOf(r.cut, r.split, r.roles), r.commit)
        OBVIOUS
      <3>1. PICK rows \in r.seal : p = PacketOf(r.cut, r.entry.split, rows, r.commit)
        BY <2>1 DEF ReceiptOK, PacketOK
      <3>2. rows = QuarantineOf(r.cut, r.split, r.roles)
        BY <2>4
      <3> QED
        BY <2>2, <3>1, <3>2
    <2> QED
      BY <2>3, <2>5
  <1> QED
    BY <1>1, HoldoutInvariant, PTL

\* The seal of a receipt of a clean audit holds exactly when the registered rows
\* are the quarantined ones of the cut: a change among them breaks it, and a
\* change elsewhere during the run does not.
THEOREM SealTells == Spec => []SealTellsTheQuarantine
  <1>1. HoldoutInv => SealTellsTheQuarantine
    <2> SUFFICES ASSUME HoldoutInv, NEW r \in receipt,
                        r.audited, r.touched \cap {"quarantine"} = {}, r.seal # {}
                 PROVE  r.sealState = "sealed"
                           <=> r.entry.seal = {QuarantineOf(r.cut, r.split, r.roles)}
      BY DEF SealTellsTheQuarantine
    <2>1. ReceiptOK(r)
      BY DEF HoldoutInv
    <2>2. PICK q : q = QuarantineOf(r.cut, r.split, r.roles)
      OBVIOUS
    <2>3. r.seal = {q}
      BY <2>1, <2>2 DEF ReceiptOK
    <2>4. Single(r.entry.seal)
      BY <2>1 DEF ReceiptOK, EntryOK, EntryFields
    <2>5. SealState({q}, r.entry.seal) = "sealed" <=> r.entry.seal = {q}
      BY <2>4, SealStateIs
    <2> QED
      BY <2>1, <2>2, <2>3, <2>5 DEF ReceiptOK
  <1> QED
    BY <1>1, HoldoutInvariant, PTL

-----------------------------------------------------------------------------
(* The score looks at nothing behind the last bar before the purge.         *)

\* The bars that a score reads twice, but for the closes behind the last one;
\* the funding up to a time, and what may follow it.
SameTrain(train, c, n, last) ==
    /\ Len(train) = n /\ Len(c) = n
    /\ \A i \in 1..n : train[i].t = c[i].t /\ (i <= last => train[i] = c[i])
SameRates(a, b, upto) ==
    /\ Len(b) <= Len(a)
    /\ \A i \in 1..Len(a) : IF i <= Len(b) THEN a[i] = b[i] /\ a[i].t <= upto ELSE upto < a[i].t

\* The rows that are read end before the first late one.
LEMMA FundingBeforeIs ==
    ASSUME NEW R, NEW rows \in Seq(RowsOver(R)), NEW t \in Int, NEW before,
           before = FundingBefore(rows, t)
    PROVE  /\ before \in Seq(RowsOver(R)) /\ Len(before) <= Len(rows)
           /\ \A i \in 1..Len(before) : before[i] = rows[i] /\ rows[i].t < t
           /\ Len(before) < Len(rows) => rows[Len(before) + 1].t >= t
  <1>1. PICK n \in Nat : n = Len(rows) /\ DOMAIN rows = 1..n
    OBVIOUS
  <1>2. PICK late : late = {i \in 1..n : rows[i].t >= t}
    OBVIOUS
  <1> DEFINE end == IF late = {} THEN n ELSE Min(late) - 1
  <1>3. /\ end \in Int /\ 0 <= end /\ end <= n
        /\ \A i \in 1..end : i \notin late
        /\ end < n => end + 1 \in late
    <2>1. CASE late = {}
      BY <2>1
    <2>2. CASE late # {}
      <3>1. late \in SUBSET Nat
        BY <1>2
      <3>2. PICK m \in late : \A y \in late : m <= y
        BY <2>2, <3>1, LeastNatural
      <3>3. Min(late) \in late /\ \A y \in late : Min(late) <= y
        <4>1. \E x \in late : \A y \in late : x <= y
          BY <3>2
        <4> QED
          BY <4>1, Zenon DEF Min
      <3>4. PICK least : least = Min(late)
        OBVIOUS
      <3>5. least \in 1..n /\ \A i \in 1..(least - 1) : i \notin late
        <4>1. least \in 1..n /\ \A y \in late : least <= y
          BY <1>2, <3>3, <3>4
        <4> QED
          BY <4>1
      <3>6. end = least - 1
        BY <2>2, <3>4
      <3> QED
        BY <3>3, <3>4, <3>5, <3>6
    <2> QED
      BY <2>1, <2>2
  <1> PICK p : p = end
    OBVIOUS
  <1>4. before = SubSeq(rows, 1, p)
    BY <1>1, <1>2 DEF FundingBefore
  <1> HIDE DEF end
  <1>5. /\ Len(before) = p /\ before \in Seq(RowsOver(R))
        /\ \A i \in 1..p : before[i] = rows[i]
    BY <1>1, <1>3, <1>4
  <1>6. \A i \in 1..n : rows[i].t \in Nat
    <2>1. \A i \in 1..n : rows[i] \in RowsOver(R)
      BY <1>1
    <2> QED
      BY <2>1 DEF RowsOver
  <1>7. \A i \in 1..p : i \in 1..n /\ rows[i].t < t
    BY <1>2, <1>3, <1>6
  <1>8. p < n => rows[p + 1].t >= t
    BY <1>2, <1>3
  <1> QED
    BY <1>1, <1>3, <1>5, <1>7, <1>8

\* What was not replaced up to a time is the same in the rows that are read.
SameEarly(f, c, upto) ==
    /\ Len(f) = Len(c)
    /\ \A i \in 1..Len(c) : f[i].t = c[i].t /\ (c[i].t <= upto => f[i] = c[i])
LEMMA EarlyIsRead ==
    ASSUME NEW f \in Seq(RowsOver(Rates)), NEW c \in Seq(RowsOver(Rates)), NEW upto,
           SameEarly(f, c, upto), NEW t \in Int
    PROVE  SameEarly(FundingBefore(f, t), FundingBefore(c, t), upto)
  <1>1. PICK a : a = FundingBefore(f, t)
    OBVIOUS
  <1>2. PICK b : b = FundingBefore(c, t)
    OBVIOUS
  <1>3. /\ a \in Seq(RowsOver(Rates)) /\ Len(a) <= Len(f)
        /\ \A i \in 1..Len(a) : a[i] = f[i] /\ f[i].t < t
        /\ Len(a) < Len(f) => f[Len(a) + 1].t >= t
    BY <1>1, FundingBeforeIs
  <1>4. /\ b \in Seq(RowsOver(Rates)) /\ Len(b) <= Len(c)
        /\ \A i \in 1..Len(b) : b[i] = c[i] /\ c[i].t < t
        /\ Len(b) < Len(c) => c[Len(b) + 1].t >= t
    BY <1>2, FundingBeforeIs
  <1>5. PICK n \in Nat : n = Len(c) /\ n = Len(f)
    BY DEF SameEarly
  <1>6. PICK p \in Nat : p = Len(a)
    BY <1>3
  <1>7. PICK q \in Nat : q = Len(b)
    BY <1>4
  <1>8. \A i \in 1..n : f[i].t = c[i].t /\ f[i].t \in Nat
    <2>1. \A i \in 1..n : f[i] \in RowsOver(Rates)
      BY <1>5
    <2> QED
      BY <1>5, <2>1 DEF RowsOver, SameEarly
  <1>9. ~(p < q)
    <2> SUFFICES ASSUME p < q PROVE FALSE
      OBVIOUS
    <2>1. p + 1 \in 1..q /\ p + 1 \in 1..n /\ p < n
      BY <1>4, <1>5, <1>7
    <2>2. f[p + 1].t >= t /\ c[p + 1].t < t
      BY <1>3, <1>4, <1>5, <1>6, <1>7, <2>1
    <2> QED
      BY <1>8, <2>1, <2>2
  <1>10. ~(q < p)
    <2> SUFFICES ASSUME q < p PROVE FALSE
      OBVIOUS
    <2>1. q + 1 \in 1..p /\ q + 1 \in 1..n /\ q < n
      BY <1>3, <1>5, <1>6
    <2>2. c[q + 1].t >= t /\ f[q + 1].t < t
      BY <1>3, <1>4, <1>5, <1>6, <1>7, <2>1
    <2> QED
      BY <1>8, <2>1, <2>2
  <1>11. p = q
    BY <1>9, <1>10
  <1>12. ASSUME NEW i \in 1..q
         PROVE  a[i].t = b[i].t /\ (b[i].t <= upto => a[i] = b[i])
    <2>1. a[i] = f[i] /\ b[i] = c[i] /\ i \in 1..n
      BY <1>3, <1>4, <1>5, <1>6, <1>7, <1>11
    <2> QED
      BY <1>5, <2>1 DEF SameEarly
  <1> QED
    BY <1>1, <1>2, <1>6, <1>7, <1>11, <1>12 DEF SameEarly

\* Of the rows that a run reads, the early ones are those of the cut.
LEMMA ReadRatesAre ==
    ASSUME NEW c \in Seq(RowsOver(Rates)), NEW upto \in Nat, NEW t \in Int, upto + 1 <= t,
           NEW a \in Seq(RowsOver(Rates)), SameEarly(a, FundingBefore(c, t), upto), Increasing(a),
           NEW b, b = FundingBefore(c, upto + 1)
    PROVE  SameRates(a, b, upto) /\ b \in Seq(RowsOver(Rates)) /\ Increasing(b)
  <1>1. PICK all : all = FundingBefore(c, t)
    OBVIOUS
  <1>2. /\ all \in Seq(RowsOver(Rates)) /\ Len(all) <= Len(c)
        /\ \A i \in 1..Len(all) : all[i] = c[i] /\ c[i].t < t
        /\ Len(all) < Len(c) => c[Len(all) + 1].t >= t
    BY <1>1, FundingBeforeIs
  <1>3. /\ b \in Seq(RowsOver(Rates)) /\ Len(b) <= Len(c)
        /\ \A i \in 1..Len(b) : b[i] = c[i] /\ c[i].t < upto + 1
        /\ Len(b) < Len(c) => c[Len(b) + 1].t >= upto + 1
    BY FundingBeforeIs
  <1>4. PICK n \in Nat : n = Len(c)
    OBVIOUS
  <1>5. PICK q \in Nat : q = Len(all) /\ q = Len(a)
    BY <1>1, <1>2 DEF SameEarly
  <1>6. PICK p \in Nat : p = Len(b)
    BY <1>3
  <1>7. \A i \in 1..n : c[i].t \in Nat
    <2>1. \A i \in 1..n : c[i] \in RowsOver(Rates)
      BY <1>4
    <2> QED
      BY <2>1 DEF RowsOver
  <1>8. p <= q
    <2> SUFFICES ASSUME q < p PROVE FALSE
      OBVIOUS
    <2>1. q + 1 \in 1..p /\ q + 1 \in 1..n /\ q < n
      BY <1>3, <1>4, <1>6
    <2>2. c[q + 1].t >= t /\ c[q + 1].t < upto + 1
      BY <1>2, <1>3, <1>4, <1>5, <1>6, <2>1
    <2> QED
      BY <1>7, <2>1, <2>2
  <1>9. \A i \in 1..q : /\ a[i].t = c[i].t /\ (c[i].t <= upto => a[i] = c[i])
                        /\ i \in 1..n
    BY <1>1, <1>2, <1>4, <1>5 DEF SameEarly
  <1>10. ASSUME NEW i \in 1..p PROVE a[i] = b[i] /\ a[i].t <= upto
    <2>1. i \in 1..q /\ i \in 1..n /\ b[i] = c[i] /\ c[i].t < upto + 1
      BY <1>3, <1>4, <1>6, <1>8
    <2>2. c[i].t <= upto
      BY <1>7, <2>1
    <2> QED
      BY <1>9, <2>1, <2>2
  <1>11. ASSUME NEW i \in 1..q, p < i PROVE upto < a[i].t
    <2>1. p + 1 \in 1..q /\ p + 1 \in 1..n /\ p < n
      BY <1>9, <1>11
    <2>2. c[p + 1].t >= upto + 1
      BY <1>3, <1>4, <1>6, <2>1
    <2>3. a[p + 1].t > upto /\ a[p + 1].t \in Nat /\ a[i].t \in Nat
      <3>1. a[p + 1].t = c[p + 1].t /\ c[p + 1].t \in Nat
        BY <1>7, <1>9, <2>1
      <3>2. a[i].t = c[i].t /\ c[i].t \in Nat
        BY <1>7, <1>9, <1>11
      <3> QED
        BY <2>2, <3>1, <3>2
    <2>4. p + 1 < i => a[p + 1].t < a[i].t
      BY <1>5, <2>1, TimesGrow
    <2>5. p + 1 < i \/ p + 1 = i
      BY <1>11
    <2> QED
      BY <2>3, <2>4, <2>5
  <1>12. SameRates(a, b, upto)
    BY <1>5, <1>6, <1>8, <1>10, <1>11 DEF SameRates
  <1>13. Increasing(b)
    <2>1. ASSUME NEW i \in 2..p PROVE b[i - 1].t < b[i].t
      <3>1. i \in 1..p /\ i - 1 \in 1..p /\ i \in 2..q
        BY <1>8
      <3>2. b[i] = a[i] /\ b[i - 1] = a[i - 1]
        BY <1>10, <3>1
      <3> QED
        BY <1>5, <3>1, <3>2 DEF Increasing
    <2> QED
      BY <1>6, <2>1 DEF Increasing
  <1> QED
    BY <1>3, <1>12, <1>13

LEMMA TrainTimes ==
    ASSUME NEW n \in Nat, NEW last \in 1..n, NEW train \in Seq(RowsOver(Closes)), NEW c,
           SameTrain(train, c, n, last), Increasing(train)
    PROVE  /\ \A i \in 1..n : train[i].t \in Nat /\ c[i].t = train[i].t
           /\ \A i \in 1..last : train[i].t <= c[last].t
  <1>1. \A i \in 1..n : train[i].t \in Nat /\ c[i].t = train[i].t
    <2>1. \A i \in 1..n : train[i] \in RowsOver(Closes)
      BY DEF SameTrain
    <2> QED
      BY <2>1 DEF RowsOver, SameTrain
  <1>2. ASSUME NEW i \in 1..last PROVE train[i].t <= c[last].t
    <2>1. i < last => train[i].t < train[last].t
      BY TimesGrow DEF SameTrain
    <2>2. train[i].t \in Nat /\ train[last].t \in Nat /\ c[last].t = train[last].t
      BY <1>1
    <2> QED
      BY <2>1, <2>2
  <1> QED
    BY <1>1, <1>2

\* A slot opens at the same bar, and behind the last bar for a late row.
LEMMA EntriesAre ==
    ASSUME NEW n \in Nat, NEW last \in 1..n, NEW train \in Seq(RowsOver(Closes)), NEW c,
           SameTrain(train, c, n, last), Increasing(train), DOMAIN c = 1..n,
           NEW a \in Seq(RowsOver(Rates)), NEW b \in Seq(RowsOver(Rates)),
           SameRates(a, b, c[last].t)
    PROVE  \A i \in 1..Len(a) : /\ EntryOf(train, a, i) \in Nat
                                /\ i <= Len(b) => EntryOf(c, b, i) = EntryOf(train, a, i)
                                /\ Len(b) < i => EntryOf(train, a, i) >= last
  <1> SUFFICES ASSUME NEW i \in 1..Len(a)
               PROVE  /\ EntryOf(train, a, i) \in Nat
                      /\ i <= Len(b) => EntryOf(c, b, i) = EntryOf(train, a, i)
                      /\ Len(b) < i => EntryOf(train, a, i) >= last
    OBVIOUS
  <1>1. DOMAIN train = 1..n
    BY DEF SameTrain
  <1>2. PICK t \in Nat : t = a[i].t
    <2>1. a[i] \in RowsOver(Rates)
      OBVIOUS
    <2> QED
      BY <2>1 DEF RowsOver
  <1>3. PICK before : before = {j \in 1..n : train[j].t <= t}
    OBVIOUS
  <1>4. EntryOf(train, a, i) = Cardinality(before)
    BY <1>1, <1>2, <1>3 DEF EntryOf, FirstAfter
  <1>5. IsFiniteSet(1..n) /\ IsFiniteSet(before) /\ Cardinality(before) \in Nat
    <2>1. IsFiniteSet(1..n)
      BY FS_Interval
    <2>2. before \subseteq 1..n
      BY <1>3
    <2>3. IsFiniteSet(before)
      BY <2>1, <2>2, FS_Subset
    <2> QED
      BY <2>1, <2>3, FS_CardinalityType
  <1>6. ASSUME i <= Len(b) PROVE EntryOf(c, b, i) = EntryOf(train, a, i)
    <2>1. b[i].t = t
      BY <1>2, <1>6 DEF SameRates
    <2>2. {j \in DOMAIN c : c[j].t <= t} = before
      BY <1>3, TrainTimes, SMTT(30)
    <2> QED
      BY <1>4, <2>1, <2>2 DEF EntryOf, FirstAfter
  <1>7. ASSUME Len(b) < i PROVE EntryOf(train, a, i) >= last
    <2>1. c[last].t < t
      BY <1>2, <1>7 DEF SameRates
    <2>2. \A j \in 1..last : train[j].t \in Nat /\ train[j].t <= c[last].t /\ c[last].t \in Nat
      BY TrainTimes, SMTT(30)
    <2>3. 1..last \subseteq before
      <3>1. \A j \in 1..last : j \in 1..n /\ train[j].t <= t
        BY <2>1, <2>2
      <3> QED
        BY <1>3, <3>1
    <2>4. Cardinality(1..last) = last
      <3>1. Cardinality(1..last) = IF 1 > last THEN 0 ELSE last - 1 + 1
        BY FS_Interval
      <3> QED
        BY <3>1
    <2>5. Cardinality(1..last) <= Cardinality(before)
      BY <1>5, <2>3, FS_Subset
    <2> QED
      BY <1>4, <2>4, <2>5
  <1> QED
    BY <1>4, <1>5, <1>6, <1>7

\* The same funding rows are scored.
LEMMA ScoredIsSame ==
    ASSUME NEW n \in Nat, NEW last \in 1..n, last = n - Purge,
           NEW train \in Seq(RowsOver(Closes)), NEW c,
           SameTrain(train, c, n, last), Increasing(train), DOMAIN c = 1..n,
           NEW a \in Seq(RowsOver(Rates)), NEW b \in Seq(RowsOver(Rates)),
           SameRates(a, b, c[last].t)
    PROVE  /\ Scored(train, a) = Scored(c, b)
           /\ \A i \in Scored(train, a) :
                 /\ i \in 1..Len(b) /\ a[i] = b[i] /\ EntryOf(c, b, i) = EntryOf(train, a, i)
                 /\ EntryOf(c, b, i) \in Nat /\ EntryOf(c, b, i) >= Warmup
                 /\ EntryOf(c, b, i) + Hold + 1 <= last
  <1>1. PICK m \in Nat : m = Len(b)
    OBVIOUS
  <1>2. Hold \in Nat \ {0} /\ Purge \in Nat \ {0} /\ Warmup \in Nat
    BY WindowAssumption
  <1>3. AllowedEnd(Len(train)) = last - 1 /\ AllowedEnd(Len(c)) = last - 1
    BY <1>2 DEF AllowedEnd, SameTrain
  <1>4. \A i \in 1..Len(a) : /\ EntryOf(train, a, i) \in Nat
                             /\ i <= m => EntryOf(c, b, i) = EntryOf(train, a, i)
                             /\ m < i => EntryOf(train, a, i) >= last
    BY <1>1, EntriesAre
  <1>5. Scored(train, a) = {i \in 1..Len(a) : /\ EntryOf(train, a, i) >= Warmup
                                              /\ EntryOf(train, a, i) + Hold <= last - 1}
    BY <1>3 DEF Scored
  <1>6. Scored(c, b) = {i \in 1..m : /\ EntryOf(c, b, i) >= Warmup
                                     /\ EntryOf(c, b, i) + Hold <= last - 1}
    BY <1>1, <1>3 DEF Scored
  <1>7. ASSUME NEW i \in Scored(train, a) PROVE i <= m
    <2>1. i \in 1..Len(a) /\ EntryOf(train, a, i) + Hold <= last - 1
      BY <1>5
    <2>2. EntryOf(train, a, i) \in Nat /\ (m < i => EntryOf(train, a, i) >= last)
      BY <1>4, <2>1
    <2>3. EntryOf(train, a, i) < last
      BY <1>2, <2>1, <2>2
    <2> QED
      BY <2>1, <2>2, <2>3
  <1>8. m <= Len(a) /\ \A i \in 1..m : i \in 1..Len(a) /\ a[i] = b[i]
    BY <1>1 DEF SameRates
  <1>9. Scored(train, a) = Scored(c, b)
    BY <1>4, <1>5, <1>6, <1>7, <1>8
  <1>10. ASSUME NEW i \in Scored(train, a)
         PROVE  /\ i \in 1..Len(b) /\ a[i] = b[i] /\ EntryOf(c, b, i) = EntryOf(train, a, i)
                /\ EntryOf(c, b, i) \in Nat /\ EntryOf(c, b, i) >= Warmup
                /\ EntryOf(c, b, i) + Hold + 1 <= last
    <2>1. /\ i \in 1..Len(a) /\ i <= m
          /\ EntryOf(train, a, i) >= Warmup /\ EntryOf(train, a, i) + Hold <= last - 1
      BY <1>5, <1>7
    <2>2. i \in 1..m /\ a[i] = b[i]
      BY <1>8, <2>1
    <2>3. EntryOf(train, a, i) \in Nat /\ EntryOf(c, b, i) = EntryOf(train, a, i)
      BY <1>4, <2>1
    <2>4. EntryOf(train, a, i) + Hold + 1 <= last
      BY <1>2, <2>1, <2>3
    <2> QED
      BY <1>1, <2>1, <2>2, <2>3, <2>4
  <1> QED
    BY <1>9, <1>10

\* A scored slot earns the same.
LEMMA SlotIsSame ==
    ASSUME NEW n \in Nat, NEW last \in 1..n, NEW train \in Seq(RowsOver(Closes)), NEW c,
           SameTrain(train, c, n, last), Increasing(train),
           NEW a \in Seq(RowsOver(Rates)), NEW b \in Seq(RowsOver(Rates)),
           SameRates(a, b, c[last].t),
           NEW i \in 1..Len(b), EntryOf(c, b, i) = EntryOf(train, a, i),
           EntryOf(c, b, i) \in Nat, EntryOf(c, b, i) + Hold + 1 <= last
    PROVE  /\ PriceDelta(train, a, i) = PriceDelta(c, b, i)
           /\ IntervalFunding(train, a, i) = IntervalFunding(c, b, i)
  <1>1. PICK e \in Nat : e = EntryOf(c, b, i)
    OBVIOUS
  <1>2. PICK m \in Nat : m = Len(b)
    OBVIOUS
  <1>3. Hold \in Nat /\ e + 1 \in 1..last /\ e + Hold + 1 \in 1..last
    <2>1. Hold \in Nat \ {0}
      BY WindowAssumption
    <2>2. e + Hold + 1 <= last
      BY <1>1
    <2> QED
      BY <2>1, <2>2
  <1>4. \A j \in 1..last : train[j] = c[j] /\ j \in 1..n
    <2>1. \A j \in 1..last : j \in 1..n /\ j <= last
      OBVIOUS
    <2> QED
      BY <2>1 DEF SameTrain
  <1>5. At(train, e) = At(c, e) /\ At(train, e + Hold) = At(c, e + Hold)
    BY <1>3, <1>4 DEF At
  <1>6. PriceDelta(train, a, i) = PriceDelta(c, b, i)
    BY <1>1, <1>5 DEF PriceDelta
  <1>7. PICK from : from = At(c, e).t
    OBVIOUS
  <1>8. PICK upto : upto = At(c, e + Hold).t
    OBVIOUS
  <1>9. PICK end : end = c[last].t
    OBVIOUS
  <1>10. upto \in Nat /\ end \in Nat /\ upto <= end
    <2>1. upto = c[e + Hold + 1].t
      BY <1>3, <1>8 DEF At
    <2>2. /\ \A j \in 1..n : train[j].t \in Nat /\ c[j].t = train[j].t
          /\ \A j \in 1..last : train[j].t <= c[last].t
      BY TrainTimes
    <2>3. e + Hold + 1 \in 1..n /\ last \in 1..n
      BY <1>3, <1>4
    <2> QED
      BY <1>3, <1>9, <2>1, <2>2, <2>3
  <1>11. m <= Len(a) /\ \A j \in 1..Len(a) : IF j <= m THEN a[j] = b[j] ELSE end < a[j].t
    BY <1>2, <1>9 DEF SameRates
  <1>12. \A j \in 1..Len(a) : a[j].t \in Nat
    <2>1. \A j \in 1..Len(a) : a[j] \in RowsOver(Rates)
      OBVIOUS
    <2> QED
      BY <2>1 DEF RowsOver
  <1> DEFINE within(rows) == {j \in DOMAIN rows : from < rows[j].t /\ rows[j].t <= upto}
  <1>13. within(a) = within(b) /\ \A j \in within(a) : a[j].v = b[j].v
    <2>1. \A j \in within(a) : j <= m
      BY <1>10, <1>11, <1>12
    <2>2. \A j \in 1..m : j \in 1..Len(a) /\ a[j] = b[j]
      BY <1>11
    <2> QED
      BY <1>2, <2>1, <2>2
  <1>14. [j \in within(a) |-> a[j].v] = [j \in within(b) |-> b[j].v]
    BY <1>13
  <1>15. IntervalFunding(train, a, i) = SumFunction([j \in within(a) |-> a[j].v])
    BY <1>1, <1>5, <1>7, <1>8 DEF IntervalFunding
  <1>16. IntervalFunding(c, b, i) = SumFunction([j \in within(b) |-> b[j].v])
    BY <1>1, <1>7, <1>8 DEF IntervalFunding
  <1> QED
    BY <1>6, <1>14, <1>15, <1>16

\* The score is the same.
LEMMA ScoreIsSame ==
    ASSUME NEW n \in Nat, NEW last \in 1..n, last = n - Purge,
           NEW train \in Seq(RowsOver(Closes)), NEW c,
           SameTrain(train, c, n, last), Increasing(train), DOMAIN c = 1..n,
           NEW a \in Seq(RowsOver(Rates)), NEW b \in Seq(RowsOver(Rates)),
           SameRates(a, b, c[last].t),
           Scored(train, a) # {}
    PROVE  /\ ScoreOf(train, a, Scored(train, a)).total = ScoreOf(c, b, Scored(c, b)).total
           /\ ScoreOf(train, a, Scored(train, a)).scored = ScoreOf(c, b, Scored(c, b)).scored
  <1>1. PICK scored : scored = Scored(train, a)
    OBVIOUS
  <1>2. /\ scored = Scored(c, b)
        /\ \A i \in scored :
              /\ i \in 1..Len(b) /\ a[i] = b[i] /\ EntryOf(c, b, i) = EntryOf(train, a, i)
              /\ EntryOf(c, b, i) \in Nat /\ EntryOf(c, b, i) + Hold + 1 <= last
    BY <1>1, ScoredIsSame
  <1>3. \A i \in scored : /\ PriceDelta(train, a, i) = PriceDelta(c, b, i)
                          /\ IntervalFunding(train, a, i) = IntervalFunding(c, b, i)
    BY <1>2, SlotIsSame
  <1>4. \A i \in scored : Active(a, i) = Active(b, i) /\ CandidateSide(a, i) = CandidateSide(b, i)
    BY <1>2 DEF Active, CandidateSide
  <1>5. \A i \in scored : NullSide(a, scored, i) = NullSide(b, scored, i)
    <2>1. \A i \in scored : {j \in scored : j < i /\ Active(a, j)} = {j \in scored : j < i /\ Active(b, j)}
      BY <1>4
    <2> QED
      BY <1>4, <2>1 DEF NullSide
  <1>6. \A i \in scored : \A side : Net(side, train, a, i) = Net(side, c, b, i)
    BY <1>3, <1>4 DEF Net
  <1>7. \A i \in scored : Difference(train, a, scored, i) = Difference(c, b, scored, i)
    BY <1>4, <1>5, <1>6 DEF Difference
  <1>8. [i \in scored |-> Difference(train, a, scored, i)] = [i \in scored |-> Difference(c, b, scored, i)]
    BY <1>7
  <1>9. scored # {}
    BY <1>1
  <1>10. /\ ScoreOf(train, a, scored).total = SumFunction([i \in scored |-> Difference(train, a, scored, i)])
         /\ ScoreOf(train, a, scored).scored = Cardinality(scored)
    BY <1>9 DEF ScoreOf
  <1>11. /\ ScoreOf(c, b, scored).total = SumFunction([i \in scored |-> Difference(c, b, scored, i)])
         /\ ScoreOf(c, b, scored).scored = Cardinality(scored)
    BY <1>9 DEF ScoreOf
  <1> QED
    BY <1>1, <1>2, <1>8, <1>10, <1>11

-----------------------------------------------------------------------------
(* A run that scores.                                                       *)

\* The part of the bars before the purge, and how long it is.
Surveyed(b, split) ==
    /\ split.boundary \in 1..(Len(b) - 1) /\ TrainCount(split) \in 1..(split.boundary - 1)
    /\ \A i \in 1..TrainCount(split) : b[i].t <= b[TrainCount(split)].t
SurveyedOK == run.pc \in Audited /\ run.audit.passed => Surveyed(bars, run.split)

\* What a read finds of the declared cut, while nothing before the purge was replaced.
Scoring == {"train", "rates", "report"}
SameStart(b, c, split) ==
    /\ split.boundary <= Len(b)
    /\ \A i \in 1..split.boundary : b[i].t = c[i].t /\ (i <= TrainCount(split) => b[i] = c[i])
Until(cut, split) == cut.bars[TrainCount(split)].t
Closing(cut, split) == cut.bars[split.boundary].t + Hour
CutOK(cut, split) ==
    /\ cut.bars \in Seq(RowsOver(Closes)) /\ cut.funding \in Seq(RowsOver(Rates))
    /\ split.boundary <= Len(cut.bars)
ReadOK(cut) ==
    /\ SameStart(bars, cut.bars, run.split)
    /\ SameEarly(funding, cut.funding, Until(cut, run.split))
    /\ run.pc \in {"rates", "report"} =>
          /\ run.train \in Seq(RowsOver(Closes)) /\ Len(run.train) = run.split.boundary
          /\ SameStart(run.train, cut.bars, run.split)
    /\ run.pc = "report" =>
          /\ run.rates \in Seq(RowsOver(Rates))
          /\ SameEarly(run.rates, FundingBefore(cut.funding, Closing(cut, run.split)),
                       Until(cut, run.split))
ScoringOK ==
    /\ run.pc \in Scoring => "error" \in DOMAIN run /\ (run.pc # "report" => run.error = "none")
    /\ run.pc \in Scoring /\ run.error = "none" =>
          /\ run.pc \in {"rates", "report"} => "train" \in DOMAIN run
          /\ run.pc = "report" => "rates" \in DOMAIN run
          /\ run.audit.passed /\ run.split.purge = Purge
          /\ \A cut \in run.entry.statistic :
                CutOK(cut, run.split) /\ ("train" \notin run.touched => ReadOK(cut))
ScoreInv == SurveyedOK /\ ScoringOK /\ ScoreIsOfTheTrainRows

\* The bars with the closes behind the last one taken out.
Closed(taken, last) ==
    [i \in DOMAIN taken |-> IF i <= last THEN taken[i] ELSE [taken[i] EXCEPT !.v = 0]]

\* The score of a run that found the declared cut is that of its train rows.
LEMMA ScoreIsOfTheCut ==
    ASSUME NEW split \in Splits, split.boundary \in Nat, TrainCount(split) \in 1..(split.boundary - 1),
           split.purge = Purge, NEW cut, CutOK(cut, split),
           NEW train \in Seq(RowsOver(Closes)), Len(train) = split.boundary,
           SameStart(train, cut.bars, split),
           NEW rates \in Seq(RowsOver(Rates)),
           SameEarly(rates, FundingBefore(cut.funding, Closing(cut, split)), Until(cut, split)),
           NEW score, score = Score(train, rates, split.boundary), score.state = "computed",
           NEW taken, taken = TrainBars(cut.bars, split.boundary),
           NEW closes, closes = Closed(taken, TrainCount(split)),
           NEW s, s = Score(closes, FundingBefore(cut.funding, Until(cut, split) + 1), split.boundary)
    PROVE  score.total = s.total /\ score.scored = s.scored
  <1>1. PICK n \in Nat : n = split.boundary
    OBVIOUS
  <1>2. PICK last \in Nat : last = TrainCount(split) /\ last \in 1..n /\ last < n
    BY <1>1
  <1>3. last = n - Purge /\ Purge \in Nat /\ Hour \in Nat \ {0}
    <2>1. Purge \in Nat \ {0} /\ Hour \in Nat \ {0}
      BY WindowAssumption
    <2> QED
      BY <1>1, <1>2, <2>1 DEF TrainCount
  <1>4. PICK c \in Seq(RowsOver(Closes)) : c = cut.bars
    BY DEF CutOK
  <1>5. n <= Len(c)
    BY <1>1, <1>4 DEF CutOK
  <1>6. DOMAIN taken = 1..n /\ \A i \in 1..n : taken[i] = c[i] /\ c[i] \in RowsOver(Closes)
    <2>1. Len(c) \in Nat
      BY <1>4
    <2>2. PICK low : low = Min({n, Len(c)})
      OBVIOUS
    <2>3. low = n
      <3>1. n \in {n, Len(c)} /\ \A y \in {n, Len(c)} : n <= y
        BY <1>5, <2>1
      <3>2. \A x \in {n, Len(c)} : (\A y \in {n, Len(c)} : x <= y) => x = n
        BY <1>5, <2>1
      <3>3. \E x \in {n, Len(c)} : \A y \in {n, Len(c)} : x <= y
        BY <3>1
      <3> QED
        BY <2>2, <3>2, <3>3 DEF Min
    <2>4. taken = SubSeq(c, 1, n)
      BY <1>1, <1>4, <2>2, <2>3 DEF TrainBars
    <2> QED
      BY <1>5, <2>1, <2>4
  <1>7. /\ DOMAIN closes = 1..n /\ Len(closes) = n
        /\ \A i \in 1..n : closes[i].t = c[i].t /\ (i <= last => closes[i] = c[i])
    <2>1. DOMAIN closes = 1..n
      BY <1>6 DEF Closed
    <2>2. ASSUME NEW i \in 1..n PROVE closes[i].t = c[i].t /\ (i <= last => closes[i] = c[i])
      <3>1. closes[i] = IF i <= last THEN c[i] ELSE [c[i] EXCEPT !.v = 0]
        BY <1>2, <1>6 DEF Closed
      <3>2. [c[i] EXCEPT !.v = 0].t = c[i].t
        BY <1>6 DEF RowsOver
      <3> QED
        BY <3>1, <3>2
    <2>3. closes = [i \in 1..n |-> closes[i]]
      BY <1>6 DEF Closed
    <2>4. Len(closes) = n
      BY <2>3
    <2> QED
      BY <2>1, <2>2, <2>4
  <1>8. SameTrain(train, closes, n, last)
    <2>1. \A i \in 1..n : train[i].t = c[i].t /\ (i <= last => train[i] = c[i])
      BY <1>1, <1>2, <1>4 DEF SameStart
    <2> QED
      BY <1>1, <1>7, <2>1 DEF SameTrain
  <1>9. /\ BarsError(train, n) = "none" /\ FundingError(rates) = "none"
        /\ Scored(train, rates) # {} /\ score = ScoreOf(train, rates, Scored(train, rates))
    BY <1>1 DEF Score, ScoreOf, Unscored
  <1>10. Hourly(train) /\ n >= 2
    BY <1>1, <1>9 DEF BarsError
  <1>11. Increasing(train)
    <2>1. \A i \in 1..n : train[i].t \in Nat
      <3>1. \A i \in 1..n : train[i] \in RowsOver(Closes)
        BY <1>1
      <3> QED
        BY <3>1 DEF RowsOver
    <2>2. ASSUME NEW i \in 2..n PROVE train[i - 1].t < train[i].t
      <3>1. train[i].t = train[i - 1].t + Hour
        BY <1>1, <1>10 DEF Hourly
      <3>2. train[i - 1].t \in Nat /\ train[i].t \in Nat
        <4>1. i \in 1..n /\ i - 1 \in 1..n
          OBVIOUS
        <4> QED
          BY <2>1, <4>1
      <3> QED
        BY <1>3, <3>1, <3>2
    <2> QED
      BY <1>1, <2>2 DEF Increasing
  <1>12. /\ \A i \in 1..n : train[i].t \in Nat /\ closes[i].t = train[i].t
         /\ \A i \in 1..last : train[i].t <= closes[last].t
    <2>1. last \in 1..n
      BY <1>2
    <2> QED
      BY <1>8, <1>11, <2>1, TrainTimes
  <1>13. PICK upto \in Nat : upto = Until(cut, split) /\ upto = closes[last].t
    <2>1. Until(cut, split) = c[last].t /\ c[last].t = closes[last].t
      BY <1>2, <1>4, <1>7 DEF Until
    <2> QED
      BY <1>2, <1>12, <2>1
  <1>14. PICK t \in Int : t = Closing(cut, split) /\ upto + 1 <= t
    <2>1. n \in 1..n /\ last \in 1..n /\ last \in 1..last
      BY <1>2
    <2>2. Closing(cut, split) = train[n].t + Hour
      <3>1. c[n].t = train[n].t
        BY <1>7, <1>12, <2>1
      <3> QED
        BY <1>1, <1>4, <3>1 DEF Closing
    <2>3. train[last].t < train[n].t
      BY <1>1, <1>2, <1>11, <2>1, TimesGrow
    <2>4. train[last].t = upto /\ train[n].t \in Nat
      BY <1>12, <1>13, <2>1
    <2>5. PICK h \in Nat : h = Hour /\ h >= 1
      BY <1>3
    <2>6. PICK x \in Nat : x = train[n].t
      BY <2>4
    <2>7. Closing(cut, split) = x + h /\ upto < x
      BY <2>2, <2>3, <2>4, <2>5, <2>6
    <2> QED
      BY <2>7
  <1>15. Increasing(rates)
    BY <1>9 DEF FundingError
  <1>16. PICK b : b = FundingBefore(cut.funding, upto + 1)
    OBVIOUS
  <1>17. SameRates(rates, b, upto) /\ b \in Seq(RowsOver(Rates)) /\ Increasing(b)
    <2>1. cut.funding \in Seq(RowsOver(Rates))
      BY DEF CutOK
    <2>2. SameEarly(rates, FundingBefore(cut.funding, t), upto)
      BY <1>13, <1>14
    <2> QED
      BY <1>14, <1>15, <1>16, <2>1, <2>2, ReadRatesAre
  <1>18. BarsError(closes, n) = "none"
    <2>1. Hourly(closes)
      <3>1. \A i \in 2..n : i \in 1..n /\ i - 1 \in 1..n
        OBVIOUS
      <3>2. \A i \in 2..n : train[i].t = train[i - 1].t + Hour
        BY <1>1, <1>10 DEF Hourly
      <3> QED
        <4>1. \A i \in 2..n : closes[i].t = train[i].t /\ closes[i - 1].t = train[i - 1].t
          BY <1>12, <3>1
        <4> QED
          BY <1>7, <3>2, <4>1, ZenonT(30) DEF Hourly
    <2>2. Warmup \in Nat /\ AllowedEnd(n) = last - 1
      <3>1. Warmup \in Nat
        BY WindowAssumption
      <3> QED
        BY <1>3, <3>1 DEF AllowedEnd
    <2>3. \A i \in Warmup..AllowedEnd(n) : At(closes, i) = At(train, i)
      <3>1. \A i \in Warmup..AllowedEnd(n) : i + 1 \in 1..n /\ i + 1 <= last
        BY <1>2, <2>2
      <3> QED
        BY <1>8, <3>1 DEF At, SameTrain
    <2>4. /\ ~(Warmup > AllowedEnd(n))
          /\ \A i \in Warmup..AllowedEnd(n) : ~(At(train, i).v <= 0)
      BY <1>9 DEF BarsError
    <2>5. ~\E i \in Warmup..AllowedEnd(n) : At(closes, i).v <= 0
      BY <2>3, <2>4
    <2>6. ~(Len(closes) < n) /\ ~(n < 2)
      BY <1>7, <1>10
    <2> QED
      BY <2>1, <2>4, <2>5, <2>6 DEF BarsError
  <1>19. s = ScoreOf(closes, b, Scored(closes, b))
    <2>1. FundingError(b) = "none"
      BY <1>17 DEF FundingError
    <2>2. s = Score(closes, b, n)
      BY <1>1, <1>13, <1>16
    <2> QED
      BY <1>18, <2>1, <2>2 DEF Score
  <1>20. /\ ScoreOf(train, rates, Scored(train, rates)).total = ScoreOf(closes, b, Scored(closes, b)).total
         /\ ScoreOf(train, rates, Scored(train, rates)).scored = ScoreOf(closes, b, Scored(closes, b)).scored
    <2>1. SameRates(rates, b, closes[last].t)
      BY <1>13, <1>17
    <2>2. last \in 1..n /\ last = n - Purge /\ DOMAIN closes = 1..n
      BY <1>2, <1>3, <1>7
    <2>3. Scored(train, rates) # {}
      BY <1>9
    <2>4. train \in Seq(RowsOver(Closes)) /\ Increasing(train) /\ SameTrain(train, closes, n, last)
      BY <1>8, <1>11
    <2>5. rates \in Seq(RowsOver(Rates)) /\ b \in Seq(RowsOver(Rates))
      BY <1>17
    <2> QED
      BY <2>1, <2>2, <2>3, <2>4, <2>5, ScoreIsSame, SMTT(30)
  <1> QED
    BY <1>9, <1>19, <1>20

-----------------------------------------------------------------------------
(* Refreshes under a run that scores.                                       *)

LEMMA ScoringIsAudited ==
    /\ Scoring \subseteq Audited /\ Scoring \subseteq Gated /\ Audited \subseteq Sliced
    /\ "idle" \notin Sliced
  BY DEF Scoring, Gated, Locked, Compared, Sealed, Projected, Lined, Audited, Sliced

LEMMA UntouchedIsLater ==
    ASSUME run.pc # "idle", Surveyed(bars, run.split), NEW n \in Nat, n = Len(bars), DOMAIN bars = 1..n,
           run.split.boundary \in Int, NEW t, "train" \notin PartOf(t)
    PROVE  ~(t <= bars[TrainCount(run.split)].t)
  <1>1. TrainCount(run.split) \in 1..n
    BY DEF Surveyed
  <1> QED
    BY <1>1 DEF PartOf

\* What is found of the cut stays so unless a row before the purge is replaced.
LEMMA RefreshIsScored ==
    ASSUME HoldoutInv, ScoreInv, DataOK', NEW t, Touch(t), receipt' = receipt,
           Len(bars) <= Len(bars'), \A j \in 1..Len(bars) : bars'[j].t = bars[j].t,
           run.pc # "idle" /\ Surveyed(bars, run.split) /\ "train" \notin PartOf(t) =>
              /\ \A j \in 1..TrainCount(run.split) : bars'[j] = bars[j]
              /\ SameEarly(funding', funding, bars[TrainCount(run.split)].t)
    PROVE  ScoreInv'
  <1>1. /\ run'.pc = run.pc /\ DOMAIN run' = DOMAIN run
        /\ \A f \in DOMAIN run \ {"touched"} : run'[f] = run[f]
        /\ run.pc # "idle" => run'.touched = run.touched \cup PartOf(t)
    BY TouchedRun DEF HoldoutInv
  <1>2. run.pc \in Audited => /\ run'.split = run.split /\ run'.audit = run.audit
                              /\ run'.entry = run.entry /\ run.split \in Splits
    BY <1>1, ScoringIsAudited DEF HoldoutInv, RunOK
  <1>3. PICK n \in Nat : n = Len(bars) /\ DOMAIN bars = 1..n
    BY BarsAre DEF HoldoutInv
  <1>4. PICK m \in Nat : m = Len(bars') /\ n <= m
    BY <1>3 DEF DataOK
  <1>5. SurveyedOK'
    <2> SUFFICES ASSUME run.pc \in Audited, run.audit.passed PROVE Surveyed(bars', run.split)
      BY <1>1, <1>2 DEF SurveyedOK
    <2>1. PICK split : split = run.split
      OBVIOUS
    <2>2. PICK k \in Int : k = split.boundary /\ k \in 1..(n - 1)
      BY <1>3, <2>1 DEF ScoreInv, SurveyedOK, Surveyed
    <2>3. PICK last \in Int : last = TrainCount(split) /\ last \in 1..(k - 1)
      BY <2>1, <2>2 DEF ScoreInv, SurveyedOK, Surveyed
    <2>4. \A i \in 1..last : bars[i].t <= bars[last].t
      BY <2>1, <2>3 DEF ScoreInv, SurveyedOK, Surveyed
    <2>5. \A i \in 1..last : i \in 1..n /\ last \in 1..n
      BY <2>2, <2>3
    <2>6. \A i \in 1..last : bars'[i].t <= bars'[last].t
      BY <1>3, <2>4, <2>5
    <2> QED
      BY <1>4, <2>1, <2>2, <2>3, <2>6 DEF Surveyed
  <1>6. ScoringOK'
    <2> SUFFICES ASSUME run.pc \in Scoring PROVE ScoringOK'
      BY <1>1 DEF ScoringOK
    <2>1. "error" \in DOMAIN run /\ (run.pc # "report" => run.error = "none") /\ run'.error = run.error
      BY <1>1 DEF ScoreInv, ScoringOK
    <2> SUFFICES ASSUME run.error = "none" PROVE ScoringOK'
      BY <1>1, <2>1 DEF ScoringOK
    <2>2. /\ run.pc \in {"rates", "report"} => "train" \in DOMAIN run /\ run'.train = run.train
          /\ run.pc = "report" => "rates" \in DOMAIN run /\ run'.rates = run.rates
          /\ run.audit.passed /\ run.split.purge = Purge
      BY <1>1 DEF ScoreInv, ScoringOK
    <2>3. run.pc \in Audited /\ run.pc # "idle"
      BY ScoringIsAudited
    <2>4. PICK split \in Splits : split = run.split /\ run'.split = split
      BY <1>2, <2>3
    <2>5. Surveyed(bars, split)
      BY <2>2, <2>3, <2>4 DEF ScoreInv, SurveyedOK
    <2>6. PICK k \in Int : k = split.boundary /\ k \in 1..(n - 1)
      BY <1>3, <2>5 DEF Surveyed
    <2>7. PICK last \in Int : last = TrainCount(split) /\ last \in 1..(k - 1)
      BY <2>5, <2>6 DEF Surveyed
    <2>8. ASSUME NEW cut \in run.entry.statistic
          PROVE  CutOK(cut, split) /\ ("train" \notin run'.touched => ReadOK(cut)')
      <3>1. CutOK(cut, split) /\ ("train" \notin run.touched => ReadOK(cut))
        BY <2>4 DEF ScoreInv, ScoringOK
      <3> SUFFICES ASSUME "train" \notin run'.touched PROVE ReadOK(cut)'
        BY <3>1
      <3>2. "train" \notin run.touched /\ "train" \notin PartOf(t)
        BY <1>1, <2>3
      <3>3. ReadOK(cut)
        BY <3>1, <3>2
      <3>4. /\ \A j \in 1..last : bars'[j] = bars[j]
            /\ SameEarly(funding', funding, bars[last].t)
        BY <2>3, <2>4, <2>5, <2>7, <3>2
      <3>5. /\ k <= Len(bars)
            /\ \A i \in 1..k : bars[i].t = cut.bars[i].t /\ (i <= last => bars[i] = cut.bars[i])
        BY <2>4, <2>6, <2>7, <3>3 DEF ReadOK, SameStart
      <3>6. \A i \in 1..k : bars'[i].t = cut.bars[i].t /\ (i <= last => bars'[i] = cut.bars[i])
        <4>1. \A i \in 1..k : i \in 1..n /\ (i <= last => i \in 1..last)
          BY <2>6, <2>7
        <4> QED
          BY <1>3, <3>4, <3>5, <4>1
      <3>7. SameStart(bars', cut.bars, split)
        BY <1>4, <2>6, <2>7, <3>6 DEF SameStart
      <3>8. bars[last].t = Until(cut, split)
        <4>1. last \in 1..k
          BY <2>7
        <4> QED
          BY <2>7, <3>5, <4>1 DEF Until
      <3>9. SameEarly(funding', cut.funding, Until(cut, split))
        <4>1. SameEarly(funding, cut.funding, Until(cut, split))
          BY <2>4, <3>3 DEF ReadOK
        <4>2. PICK u : u = Until(cut, split)
          OBVIOUS
        <4>3. /\ Len(funding') = Len(cut.funding)
              /\ \A i \in 1..Len(cut.funding) :
                    /\ funding'[i].t = funding[i].t /\ (funding[i].t <= u => funding'[i] = funding[i])
                    /\ funding[i].t = cut.funding[i].t /\ (cut.funding[i].t <= u => funding[i] = cut.funding[i])
          BY <3>4, <3>8, <4>1, <4>2 DEF SameEarly
        <4> QED
          BY <4>2, <4>3 DEF SameEarly
      <3> QED
        BY <1>1, <2>2, <2>4, <3>3, <3>7, <3>9 DEF ReadOK
    <2>9. run'.entry = run.entry /\ run'.audit = run.audit
      BY <1>2, <2>3
    <2>10. \A cut \in run'.entry.statistic :
              CutOK(cut, run'.split) /\ ("train" \notin run'.touched => ReadOK(cut)')
      BY <2>4, <2>8, <2>9
    <2> QED
      BY <1>1, <2>1, <2>2, <2>4, <2>9, <2>10 DEF ScoringOK
  <1>7. ScoreIsOfTheTrainRows'
    BY DEF ScoreInv, ScoreIsOfTheTrainRows
  <1> QED
    BY <1>5, <1>6, <1>7 DEF ScoreInv

LEMMA ReviseBarIsScored ==
    ASSUME HoldoutInv, ScoreInv, ReviseBar
    PROVE  ScoreInv'
  <1>1. PICK i \in DOMAIN bars, v \in Closes : /\ bars' = [bars EXCEPT ![i].v = v]
                                               /\ Refresh(bars[i].t) /\ funding' = funding
    BY DEF ReviseBar
  <1>2. PICK n \in Nat : n = Len(bars) /\ DOMAIN bars = 1..n
    BY BarsAre DEF HoldoutInv
  <1>3. \A j \in 1..n : bars[j] \in RowsOver(Closes)
    BY <1>2, BarsAre DEF HoldoutInv
  <1>4. /\ Len(bars') = n
        /\ \A j \in 1..n : bars'[j].t = bars[j].t /\ (j # i => bars'[j] = bars[j])
    <2>1. PICK row : row = [bars[i] EXCEPT !.v = v]
      OBVIOUS
    <2>2. row.t = bars[i].t
      BY <1>1, <1>2, <1>3, <2>1 DEF RowsOver
    <2>3. bars' = [bars EXCEPT ![i] = row]
      BY <1>1, <2>1
    <2>4. bars \in Seq(RowsOver(Closes))
      BY DEF HoldoutInv, DataOK
    <2> QED
      BY <1>2, <2>2, <2>3, <2>4
  <1>5. Touch(bars[i].t) /\ receipt' = receipt
    BY <1>1 DEF Refresh, Touch
  <1>6. ASSUME run.pc # "idle", Surveyed(bars, run.split), "train" \notin PartOf(bars[i].t)
        PROVE  /\ \A j \in 1..TrainCount(run.split) : bars'[j] = bars[j]
               /\ SameEarly(funding', funding, bars[TrainCount(run.split)].t)
    <2>1. run.split.boundary \in Int
      BY <1>6 DEF HoldoutInv, RunOK, Splits
    <2>2. PICK last \in Int : last = TrainCount(run.split) /\ last \in 1..n
      BY <1>2, <1>6, <2>1 DEF Surveyed
    <2>3. \A j \in 1..last : bars[j].t <= bars[last].t
      BY <1>6, <2>2 DEF Surveyed
    <2>4. ~(bars[i].t <= bars[last].t)
      BY <1>2, <1>6, <2>1, <2>2, UntouchedIsLater
    <2>5. \A j \in 1..last : j \in 1..n /\ j # i
      BY <2>2, <2>3, <2>4
    <2>6. \A j \in 1..last : bars'[j] = bars[j]
      BY <1>4, <2>5
    <2> QED
      BY <1>1, <2>2, <2>6 DEF SameEarly
  <1>7. DataOK'
    BY ReviseBarIsFine
  <1> QED
    BY <1>2, <1>4, <1>5, <1>6, <1>7, RefreshIsScored

LEMMA ReviseFundingIsScored ==
    ASSUME HoldoutInv, ScoreInv, ReviseFunding
    PROVE  ScoreInv'
  <1>1. PICK i \in DOMAIN funding, v \in Rates : /\ funding' = [funding EXCEPT ![i].v = v]
                                                 /\ Refresh(funding[i].t) /\ bars' = bars
    BY DEF ReviseFunding
  <1>2. PICK n \in Nat : n = Len(funding) /\ DOMAIN funding = 1..n
    BY BarsAre DEF HoldoutInv
  <1>3. \A j \in 1..n : funding[j] \in RowsOver(Rates)
    BY <1>2, BarsAre DEF HoldoutInv
  <1>4. /\ Len(funding') = n
        /\ \A j \in 1..n : funding'[j].t = funding[j].t /\ (j # i => funding'[j] = funding[j])
    <2>1. PICK row : row = [funding[i] EXCEPT !.v = v]
      OBVIOUS
    <2>2. row.t = funding[i].t
      BY <1>1, <1>2, <1>3, <2>1 DEF RowsOver
    <2>3. funding' = [funding EXCEPT ![i] = row]
      BY <1>1, <2>1
    <2>4. funding \in Seq(RowsOver(Rates))
      BY DEF HoldoutInv, DataOK
    <2> QED
      BY <1>2, <2>2, <2>3, <2>4
  <1>5. Touch(funding[i].t) /\ receipt' = receipt
    BY <1>1 DEF Refresh, Touch
  <1>6. ASSUME run.pc # "idle", Surveyed(bars, run.split), "train" \notin PartOf(funding[i].t)
        PROVE  SameEarly(funding', funding, bars[TrainCount(run.split)].t)
    <2>1. run.split.boundary \in Int
      BY <1>6 DEF HoldoutInv, RunOK, Splits
    <2>2. PICK m \in Nat : m = Len(bars) /\ DOMAIN bars = 1..m
      BY BarsAre DEF HoldoutInv
    <2>3. ~(funding[i].t <= bars[TrainCount(run.split)].t)
      BY <1>6, <2>1, <2>2, UntouchedIsLater
    <2> QED
      BY <1>2, <1>4, <2>3 DEF SameEarly
  <1>7. DataOK'
    BY ReviseFundingIsFine
  <1>8. Len(bars) <= Len(bars')
    BY <1>1, BarsAre DEF HoldoutInv
  <1> QED
    BY <1>1, <1>5, <1>6, <1>7, <1>8, RefreshIsScored

LEMMA AppendBarIsScored ==
    ASSUME HoldoutInv, ScoreInv, AppendBar
    PROVE  ScoreInv'
  <1>1. PICK t : /\ bars' = Append(bars, [t |-> t, v |-> bars[Len(bars)].v])
                 /\ Refresh(t) /\ funding' = funding
    BY DEF AppendBar
  <1>2. PICK n \in Nat : n = Len(bars) /\ DOMAIN bars = 1..n
    BY BarsAre DEF HoldoutInv
  <1>3. Len(bars') = n + 1 /\ \A j \in 1..n : bars'[j] = bars[j]
    <2>1. bars \in Seq(RowsOver(Closes))
      BY DEF HoldoutInv, DataOK
    <2> QED
      BY <1>1, <1>2, <2>1
  <1>4. Touch(t) /\ receipt' = receipt
    BY <1>1 DEF Refresh, Touch
  <1>5. ASSUME run.pc # "idle", Surveyed(bars, run.split)
        PROVE  /\ \A j \in 1..TrainCount(run.split) : bars'[j] = bars[j]
               /\ SameEarly(funding', funding, bars[TrainCount(run.split)].t)
    <2>1. run.split.boundary \in Int
      BY <1>5 DEF HoldoutInv, RunOK, Splits
    <2>2. PICK last \in Int : last = TrainCount(run.split) /\ last \in 1..n
      BY <1>2, <1>5, <2>1 DEF Surveyed
    <2>3. \A j \in 1..last : j \in 1..n
      BY <2>2
    <2> QED
      BY <1>1, <1>3, <2>2, <2>3 DEF SameEarly
  <1>6. DataOK'
    BY AppendBarIsFine
  <1> QED
    BY <1>2, <1>3, <1>4, <1>5, <1>6, RefreshIsScored

-----------------------------------------------------------------------------
(* The steps of a run that scores.                                          *)

\* A step neither of a run that scores nor of the data.
LEMMA QuietIsScored ==
    ASSUME ScoreInv, bars' = bars, receipt' = receipt, run'.pc \notin Scoring,
           run'.pc \in Audited =>
              run.pc \in Audited /\ run'.audit = run.audit /\ run'.split = run.split
    PROVE  ScoreInv'
  <1>1. SurveyedOK'
    BY DEF ScoreInv, SurveyedOK
  <1>2. ScoringOK'
    BY DEF ScoringOK
  <1>3. ScoreIsOfTheTrainRows'
    BY DEF ScoreInv, ScoreIsOfTheTrainRows
  <1> QED
    BY <1>1, <1>2, <1>3 DEF ScoreInv

LEMMA ReadTimestampsIsScored ==
    ASSUME HoldoutInv, ScoreInv, ReadTimestamps
    PROVE  ScoreInv'
  <1>1. PICK audit : audit = Audit(bars, run.split, run.entry.split)
    OBVIOUS
  <1>2. PICK read : read = [audit |-> audit]
    OBVIOUS
  <1>3. DOMAIN read = {"audit"} /\ read.audit = audit /\ Step("lines", read) /\ run.pc = "audit"
        /\ RunUnchanged
    BY <1>1, <1>2 DEF ReadTimestamps
  <1>4. run'.pc = "lines" /\ run'.split = run.split /\ run.split \in Splits
    BY <1>3, SliceStep DEF Sliced, Given
  <1>5. run'.audit = audit
    BY <1>3, StepIs, ZenonT(30) DEF HoldoutInv, RunOK
  <1>6. bars' = bars /\ receipt' = receipt
    BY <1>3 DEF RunUnchanged, dataVars
  <1>7. ASSUME audit.passed PROVE Surveyed(bars, run.split)
    <2>1. Increasing(bars) /\ PartitionOK(Len(bars), run.split)
      BY <1>1, <1>7 DEF Audit
    <2>2. PICK n \in Nat : n = Len(bars) /\ DOMAIN bars = 1..n /\ \A i \in 1..n : bars[i].t \in Nat
      BY BarsAre DEF HoldoutInv
    <2>3. run.split.boundary \in Int /\ run.split.purge \in Int
      BY <1>4 DEF Splits
    <2>4. /\ run.split.boundary \in 1..(n - 1)
          /\ TrainCount(run.split) \in 1..(run.split.boundary - 1)
      BY <2>1, <2>2, <2>3 DEF PartitionOK, TrainCount
    <2>5. PICK last \in Int : last = TrainCount(run.split) /\ last \in 1..n
      BY <2>3, <2>4
    <2>6. ASSUME NEW i \in 1..last PROVE bars[i].t <= bars[last].t
      <3>1. i \in 1..n
        BY <2>5
      <3>2. i < last => bars[i].t < bars[last].t
        BY <2>1, <2>2, <2>5, <3>1, TimesGrow DEF HoldoutInv, DataOK
      <3>3. bars[i].t \in Nat /\ bars[last].t \in Nat
        BY <2>2, <2>5, <3>1
      <3> QED
        BY <3>2, <3>3
    <2> QED
      BY <2>2, <2>4, <2>5, <2>6 DEF Surveyed
  <1>8. SurveyedOK'
    BY <1>4, <1>5, <1>6, <1>7 DEF SurveyedOK
  <1>9. ScoringOK'
    BY <1>4 DEF ScoringOK, Scoring
  <1>10. ScoreIsOfTheTrainRows'
    BY <1>6 DEF ScoreInv, ScoreIsOfTheTrainRows
  <1> QED
    BY <1>8, <1>9, <1>10 DEF ScoreInv

\* Before the statistic is bound, a run only adds to what it has read.
LEMMA UnboundIsScored ==
    ASSUME HoldoutInv, ScoreInv,
           \/ ReadLines \/ ReadProjectedBars \/ ReadProjectedFunding
           \/ CompareSeal \/ LockPacket \/ EvaluateGate
    PROVE  ScoreInv'
  <1>1. ASSUME NEW label \in Audited \ Scoring, NEW field, NEW read, DOMAIN read = {field},
               field \in {"lines", "rows", "seal", "sealState", "packet", "gate"},
               Step(label, read), RunUnchanged, run.pc \in Audited
        PROVE  ScoreInv'
    <2>1. DOMAIN read \cap (Given \cup {"pc", "audit"}) = {}
      BY <1>1 DEF Given
    <2>2. run'.pc = label /\ run'.audit = run.audit /\ run'.split = run.split
      BY <1>1, <2>1, AuditedStep
    <2>3. bars' = bars /\ receipt' = receipt
      BY <1>1 DEF RunUnchanged, dataVars
    <2> QED
      BY <1>1, <2>2, <2>3, QuietIsScored
  <1>2. {"lines", "projection", "seal", "compare", "lock", "gate", "bind"} \subseteq Audited \ Scoring
    BY DEF Audited, Sliced, Scoring
  <1>3. CASE ReadLines
    <2>1. PICK read : read = [lines |-> bars]
      OBVIOUS
    <2>2. DOMAIN read = {"lines"} /\ Step("projection", read) /\ RunUnchanged /\ run.pc = "lines"
      BY <1>3, <2>1 DEF ReadLines
    <2> QED
      BY <1>1, <1>2, <2>2
  <1>4. CASE ReadProjectedBars
    <2>1. PICK read : read = [rows |-> bars]
      OBVIOUS
    <2>2. DOMAIN read = {"rows"} /\ Step("seal", read) /\ RunUnchanged /\ run.pc = "projection"
      BY <1>4, <2>1 DEF ReadProjectedBars
    <2> QED
      BY <1>1, <1>2, <2>2
  <1>5. CASE ReadProjectedFunding
    <2>1. PICK seal : seal = Sealable(run.split, run.audit, run.lines, run.rows, funding, run.roles)
      OBVIOUS
    <2>2. PICK read : read = [seal |-> seal]
      OBVIOUS
    <2>3. DOMAIN read = {"seal"} /\ Step("compare", read) /\ RunUnchanged /\ run.pc = "seal"
      BY <1>5, <2>1, <2>2 DEF ReadProjectedFunding
    <2> QED
      BY <1>1, <1>2, <2>3
  <1>6. CASE CompareSeal
    <2>1. PICK state : state = SealState(run.seal, run.entry.seal)
      OBVIOUS
    <2>2. PICK read : read = [sealState |-> state]
      OBVIOUS
    <2>3. DOMAIN read = {"sealState"} /\ Step("lock", read) /\ RunUnchanged /\ run.pc = "compare"
      BY <1>6, <2>1, <2>2 DEF CompareSeal
    <2> QED
      BY <1>1, <1>2, <2>3
  <1>7. CASE LockPacket
    <2>1. PICK packet : packet = PacketCandidate(run.audit, run.sealState, run.seal, run.cut,
                                                 run.entry.split, run.commit)
      OBVIOUS
    <2>2. PICK read : read = [packet |-> packet]
      OBVIOUS
    <2>3. DOMAIN read = {"packet"} /\ Step("gate", read) /\ RunUnchanged /\ run.pc = "lock"
      BY <1>7, <2>1, <2>2 DEF LockPacket
    <2> QED
      BY <1>1, <1>2, <2>3
  <1>8. CASE EvaluateGate
    <2>1. PICK gate : gate = Gate(run.audit, run.sealState, PacketLock, run.packet, run.entry.gate)
      OBVIOUS
    <2>2. PICK read : read = [gate |-> gate]
      OBVIOUS
    <2>3. DOMAIN read = {"gate"} /\ Step("bind", read) /\ RunUnchanged /\ run.pc = "gate"
      BY <1>8, <2>1, <2>2 DEF EvaluateGate
    <2> QED
      BY <1>1, <1>2, <2>3
  <1> QED
    BY <1>3, <1>4, <1>5, <1>6, <1>7, <1>8

\* A step of the scorer reads one more thing.
LEMMA ScoringStepIs ==
    ASSUME HoldoutInv, ScoreInv, run.pc \in Gated, NEW label \in Gated,
           NEW field \in {"error", "train", "rates"},
           NEW read, DOMAIN read = {field}, Step(label, read), RunUnchanged
    PROVE  /\ run'.pc = label /\ field \in DOMAIN run' /\ run'[field] = read[field]
           /\ run'.split = run.split /\ run'.touched = run.touched /\ run'.entry = run.entry
           /\ run'.audit = run.audit /\ run.split \in Splits
           /\ \A f \in {"error", "train", "rates"} \ {field} :
                 f \in DOMAIN run => f \in DOMAIN run' /\ run'[f] = run[f]
           /\ bars' = bars /\ funding' = funding /\ receipt' = receipt
           /\ SurveyedOK' /\ ScoreIsOfTheTrainRows' /\ run.pc \in Audited
  <1>1. Gated \subseteq Audited /\ Audited \subseteq Sliced
    BY DEF Gated, Locked, Compared, Sealed, Projected, Lined, Audited
  <1>2. run.pc \in Audited /\ label \in Audited /\ run.pc \in Sliced
    BY <1>1
  <1>3. DOMAIN read \cap (Given \cup {"pc", "audit"}) = {} /\ DOMAIN read \cap (Given \cup {"pc"}) = {}
    BY DEF Given
  <1>4. /\ run'.pc = label /\ run'.audit = run.audit
        /\ run'.split = run.split /\ run'.entry = run.entry
        /\ \A f \in DOMAIN read : f \in DOMAIN run' /\ run'[f] = read[f]
        /\ \A f \in DOMAIN run \ ({"pc"} \cup DOMAIN read) : f \in DOMAIN run' /\ run'[f] = run[f]
        /\ bars' = bars /\ funding' = funding
    BY <1>2, <1>3, AuditedStep
  <1>5. run'.touched = run.touched /\ run.split \in Splits
    BY <1>2, <1>3, SliceStep
  <1>6. receipt' = receipt
    BY DEF RunUnchanged
  <1>7. SurveyedOK'
    BY <1>2, <1>4 DEF ScoreInv, SurveyedOK
  <1>8. ScoreIsOfTheTrainRows'
    BY <1>6 DEF ScoreInv, ScoreIsOfTheTrainRows
  <1> QED
    BY <1>2, <1>4, <1>5, <1>6, <1>7, <1>8

LEMMA StatesAreGated == {"bind", "train", "rates", "report"} \subseteq Gated
  BY DEF Gated, Locked, Compared, Sealed, Projected, Lined, Audited, Sliced

\* The declared cut is the data when the statistic is bound.
LEMMA BindIsScored ==
    ASSUME HoldoutInv, ScoreInv, Bind
    PROVE  ScoreInv'
  <1>1. PICK error : error = ScoringError
    OBVIOUS
  <1>2. PICK label : label = IF error = "none" THEN "train" ELSE "report"
    OBVIOUS
  <1>3. PICK read : read = [error |-> error]
    OBVIOUS
  <1>4. DOMAIN read = {"error"} /\ read["error"] = error /\ Step(label, read) /\ RunUnchanged
        /\ run.pc = "bind"
    BY <1>1, <1>2, <1>3 DEF Bind
  <1>5. run.pc \in Gated /\ label \in Gated
    BY <1>2, <1>4, StatesAreGated
  <1>6. /\ run'.pc = label /\ "error" \in DOMAIN run' /\ run'["error"] = error
        /\ run'.split = run.split /\ run'.touched = run.touched /\ run'.entry = run.entry
        /\ run'.audit = run.audit /\ run.split \in Splits
        /\ bars' = bars /\ funding' = funding
        /\ SurveyedOK' /\ ScoreIsOfTheTrainRows' /\ run.pc \in Audited
    BY <1>4, <1>5, ScoringStepIs
  <1>7. ScoringOK'
    <2>1. CASE error # "none"
      BY <1>2, <1>6, <2>1 DEF ScoringOK, Scoring
    <2>2. CASE error = "none"
      <3>1. /\ run.entry.statistic = {CutOf(bars, funding, BothRoles)}
            /\ run.audit.passed /\ run.split.purge = Purge
        BY <1>1, <2>2 DEF ScoringError
      <3>2. PICK cut : cut = CutOf(bars, funding, BothRoles)
        OBVIOUS
      <3>3. cut.bars = bars /\ cut.funding = funding
        BY <3>2 DEF CutOf, BothRoles
      <3>4. bars \in Seq(RowsOver(Closes)) /\ funding \in Seq(RowsOver(Rates))
        BY DEF HoldoutInv, DataOK
      <3>5. run.split.boundary <= Len(bars)
        <4>1. run.split.boundary \in 1..(Len(bars) - 1) /\ Len(bars) \in Nat
          BY <1>6, <3>1, <3>4 DEF ScoreInv, SurveyedOK, Surveyed
        <4> QED
          BY <4>1
      <3>6. CutOK(cut, run'.split)
        BY <1>6, <3>3, <3>4, <3>5 DEF CutOK
      <3>7. SameStart(bars, cut.bars, run.split)
        BY <3>3, <3>5 DEF SameStart
      <3>8. SameEarly(funding, cut.funding, Until(cut, run.split))
        BY <3>3 DEF SameEarly
      <3>9. ReadOK(cut)'
        BY <1>2, <1>6, <2>2, <3>7, <3>8 DEF ReadOK
      <3>10. \A c \in run'.entry.statistic : c = cut
        BY <1>6, <3>1, <3>2
      <3>11. \A c \in run'.entry.statistic :
                CutOK(c, run'.split) /\ ("train" \notin run'.touched => ReadOK(c)')
        BY <3>6, <3>9, <3>10
      <3> QED
        BY <1>2, <1>6, <2>2, <3>1, <3>11 DEF ScoringOK
    <2> QED
      BY <2>1, <2>2
  <1> QED
    BY <1>6, <1>7 DEF ScoreInv

LEMMA ReadTrainIsScored ==
    ASSUME HoldoutInv, ScoreInv, ReadTrain
    PROVE  ScoreInv'
  <1>1. PICK train : train = TrainBars(bars, run.split.boundary)
    OBVIOUS
  <1>2. PICK read : read = [train |-> train]
    OBVIOUS
  <1>3. DOMAIN read = {"train"} /\ read["train"] = train /\ Step("rates", read) /\ RunUnchanged
        /\ run.pc = "train"
    BY <1>1, <1>2 DEF ReadTrain
  <1>4. run.pc \in Gated /\ "rates" \in Gated /\ "error" \in {"error", "train", "rates"} \ {"train"}
    BY <1>3, StatesAreGated
  <1>5. "error" \in DOMAIN run /\ run.error = "none" /\ run.audit.passed /\ run.split.purge = Purge
    BY <1>3 DEF ScoreInv, ScoringOK, Scoring
  <1>6. /\ run'.pc = "rates" /\ "train" \in DOMAIN run' /\ run'["train"] = train
        /\ run'.split = run.split /\ run'.touched = run.touched /\ run'.entry = run.entry
        /\ run'.audit = run.audit /\ run.split \in Splits
        /\ "error" \in DOMAIN run' /\ run'["error"] = run["error"]
        /\ bars' = bars /\ funding' = funding
        /\ SurveyedOK' /\ ScoreIsOfTheTrainRows' /\ run.pc \in Audited
    BY <1>3, <1>4, <1>5, ScoringStepIs
  <1>7. PICK n \in Nat : n = Len(bars)
    BY BarsAre DEF HoldoutInv
  <1>8. PICK k \in Int : k = run.split.boundary /\ k \in 1..(n - 1)
    BY <1>5, <1>6, <1>7 DEF ScoreInv, SurveyedOK, Surveyed, Splits
  <1>9. train \in Seq(RowsOver(Closes)) /\ Len(train) = k /\ \A i \in 1..k : train[i] = bars[i]
    <2>1. bars \in Seq(RowsOver(Closes))
      BY DEF HoldoutInv, DataOK
    <2>2. \A x \in {k, n} : (\A y \in {k, n} : x <= y) => x = k
      BY <1>8
    <2>3. \E x \in {k, n} : \A y \in {k, n} : x <= y
      BY <1>8
    <2>4. Min({k, n}) = k
      BY <2>2, <2>3 DEF Min
    <2>5. train = SubSeq(bars, 1, k)
      BY <1>1, <1>7, <1>8, <2>4 DEF TrainBars
    <2> QED
      BY <1>7, <1>8, <2>1, <2>5
  <1>10. ScoringOK'
    <2>1. ASSUME NEW cut \in run.entry.statistic
          PROVE  CutOK(cut, run.split) /\ ("train" \notin run.touched => ReadOK(cut)')
      <3>1. CutOK(cut, run.split) /\ ("train" \notin run.touched => ReadOK(cut))
        BY <1>3, <1>5 DEF ScoreInv, ScoringOK, Scoring
      <3>2. ASSUME "train" \notin run.touched PROVE ReadOK(cut)'
        <4>1. /\ SameStart(bars, cut.bars, run.split)
              /\ SameEarly(funding, cut.funding, Until(cut, run.split))
          BY <3>1, <3>2 DEF ReadOK
        <4>2. SameStart(train, cut.bars, run.split)
          BY <1>8, <1>9, <4>1 DEF SameStart
        <4> QED
          BY <1>6, <1>8, <1>9, <4>1, <4>2 DEF ReadOK
      <3> QED
        BY <3>1, <3>2
    <2> QED
      BY <1>5, <1>6, <2>1 DEF ScoringOK
  <1> QED
    BY <1>6, <1>10 DEF ScoreInv

LEMMA ReadRatesIsScored ==
    ASSUME HoldoutInv, ScoreInv, ReadRates
    PROVE  ScoreInv'
  <1>1. PICK rates : rates = IF run.train = <<>> THEN <<>> ELSE TrainFunding(funding, run.train)
    OBVIOUS
  <1>2. PICK read : read = [rates |-> rates]
    OBVIOUS
  <1>3. DOMAIN read = {"rates"} /\ read["rates"] = rates /\ Step("report", read) /\ RunUnchanged
        /\ run.pc = "rates"
    BY <1>1, <1>2 DEF ReadRates
  <1>4. run.pc \in Gated /\ "report" \in Gated
    BY <1>3, StatesAreGated
  <1>5. /\ "error" \in DOMAIN run /\ run.error = "none" /\ "train" \in DOMAIN run
        /\ run.audit.passed /\ run.split.purge = Purge
    BY <1>3 DEF ScoreInv, ScoringOK, Scoring
  <1>6. /\ run'.pc = "report" /\ "rates" \in DOMAIN run' /\ run'["rates"] = rates
        /\ run'.split = run.split /\ run'.touched = run.touched /\ run'.entry = run.entry
        /\ run'.audit = run.audit /\ run.split \in Splits
        /\ "error" \in DOMAIN run' /\ run'["error"] = run["error"]
        /\ "train" \in DOMAIN run' /\ run'["train"] = run["train"]
        /\ bars' = bars /\ funding' = funding
        /\ SurveyedOK' /\ ScoreIsOfTheTrainRows' /\ run.pc \in Audited
    BY <1>3, <1>4, <1>5, ScoringStepIs
  <1>7. PICK k \in Int : k = run.split.boundary /\ k >= 1
    BY <1>5, <1>6 DEF ScoreInv, SurveyedOK, Surveyed, Splits
  <1>8. funding \in Seq(RowsOver(Rates))
    BY DEF HoldoutInv, DataOK
  <1>9. ScoringOK'
    <2>1. ASSUME NEW cut \in run.entry.statistic
          PROVE  CutOK(cut, run.split) /\ ("train" \notin run.touched => ReadOK(cut)')
      <3>1. CutOK(cut, run.split) /\ ("train" \notin run.touched => ReadOK(cut))
        BY <1>3, <1>5 DEF ScoreInv, ScoringOK, Scoring
      <3>2. ASSUME "train" \notin run.touched PROVE ReadOK(cut)'
        <4>1. /\ SameStart(bars, cut.bars, run.split)
              /\ SameEarly(funding, cut.funding, Until(cut, run.split))
              /\ run.train \in Seq(RowsOver(Closes)) /\ Len(run.train) = k
              /\ SameStart(run.train, cut.bars, run.split)
          BY <1>3, <1>7, <3>1, <3>2 DEF ReadOK
        <4>2. PICK t \in Int : t = Closing(cut, run.split) /\ t = run.train[k].t + Hour
          <5>1. k \in 1..k /\ run.train[k] \in RowsOver(Closes)
            BY <1>7, <4>1
          <5>2. run.train[k].t = cut.bars[k].t /\ run.train[k].t \in Nat
            BY <1>7, <4>1, <5>1 DEF SameStart, RowsOver
          <5>3. Hour \in Nat \ {0}
            BY WindowAssumption
          <5> QED
            BY <1>7, <5>2, <5>3 DEF Closing
        <4>3. rates = FundingBefore(funding, t)
          <5>1. run.train # <<>>
            BY <1>7, <4>1
          <5> QED
            BY <1>1, <4>1, <4>2, <5>1 DEF TrainFunding
        <4>4. rates \in Seq(RowsOver(Rates))
          BY <1>8, <4>3, FundingBeforeIs
        <4>5. cut.funding \in Seq(RowsOver(Rates))
          BY <3>1 DEF CutOK
        <4>6. SameEarly(rates, FundingBefore(cut.funding, t), Until(cut, run.split))
          BY <1>8, <4>1, <4>3, <4>5, EarlyIsRead
        <4> QED
          BY <1>6, <1>7, <4>1, <4>2, <4>4, <4>6 DEF ReadOK
      <3> QED
        BY <3>1, <3>2
    <2> QED
      BY <1>5, <1>6, <2>1 DEF ScoringOK
  <1> QED
    BY <1>6, <1>9 DEF ScoreInv

LEMMA ReportIsScored ==
    ASSUME HoldoutInv, ScoreInv, Report
    PROVE  ScoreInv'
  <1>1. run.pc = "report" /\ run'.pc = "idle" /\ bars' = bars
    BY DEF Report, Idle, dataVars
  <1>2. "idle" \notin Audited /\ "idle" \notin Scoring /\ run.pc \in Audited /\ run.pc \in Scoring
    BY <1>1, ScoringIsAudited DEF Scoring
  <1>3. PICK statistic : statistic = IF run.error # "none" THEN Unscored("blocked", run.error)
                                     ELSE Score(run.train, run.rates, run.split.boundary)
    OBVIOUS
  <1>4. PICK r : /\ receipt' = {r} /\ r.split = run.split /\ r.entry = run.entry
                 /\ r.touched = run.touched /\ r.statistic = statistic
    <2>1. PICK policy : policy = PolicyState(run.entry)
      OBVIOUS
    <2>2. PICK killed : killed = Killed
      OBVIOUS
    <2>3. PICK lock : lock = PacketLock
      OBVIOUS
    <2>4. PICK r : r = [split |-> run.split, commit |-> run.commit, roles |-> run.roles, cut |-> run.cut,
                        audited |-> run.audit.passed,
                        seal |-> run.seal, sealState |-> run.sealState,
                        packet |-> run.packet, packetState |-> lock,
                        gate |-> run.gate, policy |-> policy, killed |-> killed,
                        statistic |-> statistic, entry |-> run.entry, touched |-> run.touched]
      OBVIOUS
    <2>5. receipt' = {r}
      BY <1>3, <2>1, <2>2, <2>3, <2>4 DEF Report
    <2> QED
      BY <2>4, <2>5
  <1>5. ASSUME statistic.state = "computed", "train" \notin run.touched,
               NEW cut \in run.entry.statistic,
               NEW taken, taken = TrainBars(cut.bars, run.split.boundary),
               NEW s, s = Score(Closed(taken, TrainCount(run.split)),
                                FundingBefore(cut.funding, Until(cut, run.split) + 1),
                                run.split.boundary)
        PROVE  statistic.total = s.total /\ statistic.scored = s.scored
    <2>1. run.error = "none"
      BY <1>3, <1>5 DEF Unscored
    <2>2. /\ run.audit.passed /\ run.split.purge = Purge
          /\ CutOK(cut, run.split) /\ ReadOK(cut)
      BY <1>2, <1>5, <2>1 DEF ScoreInv, ScoringOK
    <2>3. run.split \in Splits
      BY <1>1 DEF HoldoutInv, RunOK
    <2>4. Surveyed(bars, run.split)
      BY <1>2, <2>2 DEF ScoreInv, SurveyedOK
    <2>5. run.split.boundary \in Nat /\ TrainCount(run.split) \in 1..(run.split.boundary - 1)
      BY <2>3, <2>4 DEF Surveyed, Splits
    <2>6. /\ run.train \in Seq(RowsOver(Closes)) /\ Len(run.train) = run.split.boundary
          /\ SameStart(run.train, cut.bars, run.split)
          /\ run.rates \in Seq(RowsOver(Rates))
          /\ SameEarly(run.rates, FundingBefore(cut.funding, Closing(cut, run.split)),
                       Until(cut, run.split))
      BY <1>1, <2>2 DEF ReadOK
    <2>7. statistic = Score(run.train, run.rates, run.split.boundary)
      BY <1>3, <2>1
    <2> QED
      BY <1>5, <2>2, <2>3, <2>5, <2>6, <2>7, ScoreIsOfTheCut, SMTT(40)
  <1>6. ScoreIsOfTheTrainRows'
    <2> SUFFICES ASSUME statistic.state = "computed", "train" \notin run.touched,
                        NEW cut \in run.entry.statistic
                 PROVE  LET last == TrainCount(run.split)
                            train == TrainBars(cut.bars, run.split.boundary)
                            closes == [i \in DOMAIN train |-> IF i <= last THEN train[i]
                                                             ELSE [train[i] EXCEPT !.v = 0]]
                            s == Score(closes, FundingBefore(cut.funding, cut.bars[last].t + 1),
                                       run.split.boundary)
                        IN statistic.total = s.total /\ statistic.scored = s.scored
      BY <1>4 DEF ScoreIsOfTheTrainRows
    <2>1. PICK taken : taken = TrainBars(cut.bars, run.split.boundary)
      OBVIOUS
    <2>2. PICK s : s = Score(Closed(taken, TrainCount(run.split)),
                             FundingBefore(cut.funding, Until(cut, run.split) + 1),
                             run.split.boundary)
      OBVIOUS
    <2>3. statistic.total = s.total /\ statistic.scored = s.scored
      BY <1>5, <2>1, <2>2
    <2> QED
      BY <2>1, <2>2, <2>3 DEF Closed, Until
  <1>7. SurveyedOK' /\ ScoringOK'
    BY <1>1, <1>2 DEF SurveyedOK, ScoringOK
  <1> QED
    BY <1>6, <1>7 DEF ScoreInv

\* The runs that score nothing, and what is done between them.
LEMMA ElsewhereIsScored ==
    ASSUME HoldoutInv, ScoreInv,
           \/ Command \/ StartDecomposition \/ CheckContract \/ ReadSlotBars \/ ReadSlotRates
           \/ MaterializeSlots \/ PublishDecomposition
    PROVE  ScoreInv'
  <1>1. bars' = bars /\ receipt' = receipt
    BY DEF Command, Start, StartDecomposition, CheckContract, ReadSlotBars, ReadSlotRates,
           MaterializeSlots, PublishDecomposition, RunUnchanged, dataVars
  <1>2. run'.pc \in {"audit", "idle"} \cup Decomposing
    <2>1. "pc" \in DOMAIN run
      BY DEF HoldoutInv, RunOK
    <2>2. \A label, read : Step(label, read) => run'.pc = label
      BY <2>1, StepIs
    <2>3. CASE Command
      <3>1. PICK args \in Invocations : Start(args)
        BY <2>3 DEF Command
      <3>2. PICK cut : cut = CutOf(bars, funding, args.roles)
        OBVIOUS
      <3>3. run' = [pc |-> "audit", split |-> args.split, commit |-> args.commit,
                    roles |-> args.roles, cut |-> cut, entry |-> entry, touched |-> {}]
        BY <3>1, <3>2 DEF Start
      <3> QED
        BY <3>3
    <2>4. CASE StartDecomposition
      <3>1. \E a, audit : run' = [pc |-> "contract", touched |-> {}, split |-> a.source.split,
                                  archived |-> a, audit |-> audit]
        BY <2>4 DEF StartDecomposition
      <3> QED
        BY <3>1 DEF Decomposing
    <2>5. CASE CheckContract
      BY <2>2, <2>5 DEF CheckContract, Idle, Decomposing
    <2>6. CASE ReadSlotBars \/ ReadSlotRates \/ MaterializeSlots \/ PublishDecomposition
      BY <2>2, <2>6 DEF ReadSlotBars, ReadSlotRates, MaterializeSlots, PublishDecomposition, Idle,
                        Decomposing
    <2> QED
      BY <2>3, <2>4, <2>5, <2>6
  <1>3. run'.pc \notin Audited /\ run'.pc \notin Scoring
    BY <1>2 DEF Decomposing, Audited, Sliced, Scoring
  <1> QED
    BY <1>1, <1>3, QuietIsScored

LEMMA ScoreStarts == ASSUME Init PROVE ScoreInv
  BY DEF Init, Idle, ScoreInv, SurveyedOK, ScoringOK, ScoreIsOfTheTrainRows, Audited, Sliced, Scoring

LEMMA ScoreSteps == ASSUME HoldoutInv, ScoreInv, [Next]_vars PROVE ScoreInv'
  <1>1. CASE Command \/ StartDecomposition
    BY <1>1, ElsewhereIsScored
  <1>2. CASE RunStep
    BY <1>2, ReadTimestampsIsScored, UnboundIsScored, BindIsScored, ReadTrainIsScored,
       ReadRatesIsScored, ReportIsScored, ElsewhereIsScored DEF RunStep
  <1>3. CASE ReviseBar \/ ReviseFunding \/ AppendBar
    BY <1>3, ReviseBarIsScored, ReviseFundingIsScored, AppendBarIsScored
  <1>4. CASE Archive \/ RecordExecution \/ Register \/ UNCHANGED vars
    <2>1. run' = run /\ bars' = bars /\ funding' = funding /\ receipt' = receipt
      BY <1>4 DEF Archive, RecordExecution, Register, RegisterTrial, RegisterSeal, RegisterPacket,
                  RegisterGate, Copy, vars, dataVars
    <2>2. SurveyedOK' /\ ScoringOK'
      BY <2>1 DEF ScoreInv, SurveyedOK, ScoringOK, ReadOK
    <2>3. ScoreIsOfTheTrainRows'
      BY <2>1 DEF ScoreInv, ScoreIsOfTheTrainRows
    <2> QED
      BY <2>2, <2>3 DEF ScoreInv
  <1> QED
    BY <1>1, <1>2, <1>3, <1>4 DEF Next

\* A run that scores goes on with the declared cut as it was when the statistic
\* was bound: of the bars, which it reads after that, and of the funding, which
\* it reads later still, the rows up to the last bar before the purge are those of
\* the cut unless one of them was replaced under the run.
THEOREM ScoreInvariant == Spec => []ScoreInv
  <1>1. Init => ScoreInv
    BY ScoreStarts
  <1>2. HoldoutInv /\ ScoreInv /\ [Next]_vars => ScoreInv'
    BY ScoreSteps
  <1> QED
    BY <1>1, <1>2, HoldoutInvariant, PTL DEF Spec

\* The statistic of build_first_computed_statistic_v0 depends on no close of a
\* purged bar and on no funding behind the last bar before the purge: it is the
\* one of the declared cut with those taken out, for every cut, every split and
\* every refresh behind that bar.
THEOREM ScoreIsOfTheTrain == Spec => []ScoreIsOfTheTrainRows
  <1>1. ScoreInv => ScoreIsOfTheTrainRows
    BY DEF ScoreInv
  <1> QED
    BY <1>1, ScoreInvariant, PTL

-----------------------------------------------------------------------------
(* Sums.                                                                    *)

\* The order in which SumFunction takes the indices, and the sums of their subsets.
Chosen(s) == CHOOSE x \in s : TRUE
Sums(f, g) ==
    g = [s \in SUBSET (DOMAIN f) |-> IF s = {} THEN 0 ELSE f[Chosen(s)] + g[s \ {Chosen(s)}]]

LEMMA SumsAre ==
    ASSUME NEW f, NEW g, Sums(f, g)
    PROVE  \E h : Sums(f, h) /\ SumFunction(f) = h[DOMAIN f]
  BY DEF SumFunction, SumFunctionOnSet, FoldFunctionOnSet, MapThenFoldSet, Sums, Chosen

\* The sums of the subsets up to a size can be taken.
LEMMA SumsExist ==
    ASSUME NEW f, IsFiniteSet(DOMAIN f)
    PROVE  \E g : Sums(f, g)
  <1> DEFINE S == DOMAIN f
             rest(s) == s \ {Chosen(s)}
             taken(g, n) == \A s \in SUBSET S : Cardinality(s) <= n =>
                               g[s] = IF s = {} THEN 0 ELSE f[Chosen(s)] + g[rest(s)]
             fine == {n \in Nat : \E g : DOMAIN g = SUBSET S /\ taken(g, n)}
  <1>1. ASSUME NEW s \in SUBSET S
        PROVE  /\ IsFiniteSet(s) /\ Cardinality(s) \in Nat
               /\ rest(s) \in SUBSET S
               /\ s # {} => Cardinality(rest(s)) = Cardinality(s) - 1
    <2>1. IsFiniteSet(s) /\ Cardinality(s) \in Nat
      BY FS_Subset, FS_CardinalityType
    <2>2. ASSUME s # {} PROVE Cardinality(rest(s)) = Cardinality(s) - 1
      <3>1. Chosen(s) \in s
        BY <2>2 DEF Chosen
      <3> QED
        BY <2>1, <3>1, FS_RemoveElement
    <2> QED
      BY <2>1, <2>2
  <1>2. 0 \in fine
    <2>1. PICK g : g = [s \in SUBSET S |-> 0]
      OBVIOUS
    <2>2. \A s \in SUBSET S : Cardinality(s) <= 0 => s = {}
      <3>1. ASSUME NEW s \in SUBSET S, Cardinality(s) <= 0 PROVE Cardinality(s) = 0
        <4>1. Cardinality(s) \in Nat
          BY <1>1
        <4> QED
          BY <3>1, <4>1
      <3> QED
        BY <1>1, <3>1, FS_EmptySet
    <2>3. DOMAIN g = SUBSET S /\ taken(g, 0)
      BY <2>1, <2>2
    <2> QED
      BY <2>3
  <1>3. ASSUME NEW n \in Nat, n \in fine PROVE n + 1 \in fine
    <2>1. PICK g : DOMAIN g = SUBSET S /\ taken(g, n)
      BY <1>3
    <2>2. PICK h : h = [s \in SUBSET S |-> IF s = {} THEN 0 ELSE f[Chosen(s)] + g[rest(s)]]
      OBVIOUS
    <2>3. \A s \in SUBSET S : Cardinality(s) <= n => h[s] = g[s]
      BY <2>1, <2>2
    <2>4. ASSUME NEW s \in SUBSET S, Cardinality(s) <= n + 1
          PROVE  h[s] = IF s = {} THEN 0 ELSE f[Chosen(s)] + h[rest(s)]
      <3>1. CASE s = {}
        BY <2>2, <3>1
      <3>2. CASE s # {}
        <4>1. rest(s) \in SUBSET S /\ Cardinality(rest(s)) <= n
          BY <1>1, <2>4, <3>2
        <4>2. h[rest(s)] = g[rest(s)]
          BY <2>3, <4>1
        <4> QED
          BY <2>2, <3>2, <4>2
      <3> QED
        BY <3>1, <3>2
    <2>5. DOMAIN h = SUBSET S /\ taken(h, n + 1)
      BY <2>2, <2>4
    <2> QED
      BY <2>5
  <1>4. Cardinality(S) \in fine
    <2>1. Cardinality(S) \in Nat
      BY FS_CardinalityType
    <2> HIDE DEF fine
    <2> QED
      BY <1>2, <1>3, <2>1, NumberInduction
  <1>5. PICK g : DOMAIN g = SUBSET S /\ taken(g, Cardinality(S))
    BY <1>4
  <1>6. PICK h : h = [s \in SUBSET S |-> IF s = {} THEN 0 ELSE f[Chosen(s)] + g[rest(s)]]
    OBVIOUS
  <1>7. \A s \in SUBSET S : Cardinality(s) <= Cardinality(S)
    BY FS_Subset
  <1>8. \A s \in SUBSET S : h[s] = g[s]
    BY <1>5, <1>6, <1>7
  <1>9. h = [s \in SUBSET S |-> IF s = {} THEN 0 ELSE f[Chosen(s)] + h[rest(s)]]
    BY <1>1, <1>6, <1>8
  <1> QED
    BY <1>9 DEF Sums

\* What a sum is taken from: one index after the other.
Summed(S, f, g) ==
    /\ g[{}] = 0
    /\ \A s \in SUBSET S : s # {} =>
          /\ Chosen(s) \in s /\ s \ {Chosen(s)} \in SUBSET S
          /\ g[s] = f[Chosen(s)] + g[s \ {Chosen(s)}]
LEMMA SumIs ==
    ASSUME NEW S, IsFiniteSet(S), NEW f, DOMAIN f = S
    PROVE  \E g : SumFunction(f) = g[S] /\ Summed(S, f, g)
  <1>1. PICK g : Sums(f, g) /\ SumFunction(f) = g[DOMAIN f]
    BY SumsExist, SumsAre
  <1>2. {} \in SUBSET (DOMAIN f)
    OBVIOUS
  <1>3. ASSUME NEW s \in SUBSET (DOMAIN f)
        PROVE  g[s] = IF s = {} THEN 0 ELSE f[Chosen(s)] + g[s \ {Chosen(s)}]
    <2>1. g = [u \in SUBSET (DOMAIN f) |-> IF u = {} THEN 0 ELSE f[Chosen(u)] + g[u \ {Chosen(u)}]]
      BY <1>1 DEF Sums
    <2> QED
      BY <2>1
  <1>4. \A s \in SUBSET (DOMAIN f) : s # {} => Chosen(s) \in s
    BY DEF Chosen
  <1> QED
    BY <1>1, <1>2, <1>3, <1>4 DEF Summed

LEMMA SumIsInt ==
    ASSUME NEW S, IsFiniteSet(S), NEW f, DOMAIN f = S, \A i \in S : f[i] \in Int
    PROVE  SumFunction(f) \in Int
  <1>1. PICK g : SumFunction(f) = g[S] /\ Summed(S, f, g)
    BY SumIs
  <1> DEFINE fine == {s \in SUBSET S : g[s] \in Int}
  <1>3. {} \in fine
    BY <1>1 DEF Summed
  <1>4. ASSUME NEW s \in SUBSET S, s # {}, \A x \in s : s \ {x} \in fine PROVE s \in fine
    <2>1. g[s] = f[Chosen(s)] + g[s \ {Chosen(s)}] /\ Chosen(s) \in s
      BY <1>1, <1>4 DEF Summed
    <2>2. g[s \ {Chosen(s)}] \in Int /\ f[Chosen(s)] \in Int
      BY <1>4, <2>1
    <2> QED
      BY <2>1, <2>2
  <1> HIDE DEF fine
  <1>5. \A s \in SUBSET S : s # {} /\ (\A x \in s : s \ {x} \in fine) => s \in fine
    BY <1>4
  <1>6. \A s \in SUBSET S : s \in fine
    BY <1>3, <1>5, FiniteSetDescent
  <1>7. S \in fine
    BY <1>6
  <1> QED
    BY <1>1, <1>7 DEF fine

\* A sum of differences is the difference of the sums.
LEMMA SumOfDifferences ==
    ASSUME NEW S, IsFiniteSet(S), NEW f, NEW g, NEW h, DOMAIN f = S, DOMAIN g = S, DOMAIN h = S,
           \A i \in S : f[i] \in Int /\ g[i] \in Int /\ h[i] = f[i] - g[i]
    PROVE  SumFunction(h) = SumFunction(f) - SumFunction(g)
  <1>1. PICK sf : SumFunction(f) = sf[S] /\ Summed(S, f, sf)
    BY SumIs
  <1>2. PICK sg : SumFunction(g) = sg[S] /\ Summed(S, g, sg)
    BY SumIs
  <1>3. PICK sh : SumFunction(h) = sh[S] /\ Summed(S, h, sh)
    BY SumIs
  <1> DEFINE fine == {s \in SUBSET S : sf[s] \in Int /\ sg[s] \in Int /\ sh[s] = sf[s] - sg[s]}
  <1>4. {} \in fine
    BY <1>1, <1>2, <1>3 DEF Summed
  <1>5. ASSUME NEW s \in SUBSET S, s # {}, \A x \in s : s \ {x} \in fine PROVE s \in fine
    <2>1. PICK x \in s : x = Chosen(s)
      BY <1>1, <1>5 DEF Summed
    <2>2. PICK u \in fine : u = s \ {x}
      BY <1>5
    <2>3. sf[s] = f[x] + sf[u] /\ sg[s] = g[x] + sg[u] /\ sh[s] = h[x] + sh[u]
      BY <1>1, <1>2, <1>3, <1>5, <2>1, <2>2 DEF Summed
    <2>4. /\ f[x] \in Int /\ g[x] \in Int /\ h[x] = f[x] - g[x]
          /\ sf[u] \in Int /\ sg[u] \in Int /\ sh[u] = sf[u] - sg[u]
      OBVIOUS
    <2> QED
      BY <2>3, <2>4
  <1> HIDE DEF fine
  <1>6. S \in fine
    BY <1>4, <1>5, FiniteSetDescent
  <1> QED
    BY <1>1, <1>2, <1>3, <1>6 DEF fine

\* Two sums whose terms add up to the same at some indices and to nothing at others.
LEMMA SumOfCounted ==
    ASSUME NEW S, IsFiniteSet(S), NEW A \in SUBSET S, NEW c \in Int,
           NEW f, NEW g, DOMAIN f = S, DOMAIN g = S,
           \A i \in S : f[i] \in Int /\ g[i] \in Int /\ f[i] + g[i] = IF i \in A THEN c ELSE 0
    PROVE  Cardinality(A) \in Nat /\ SumFunction(f) + SumFunction(g) = c * Cardinality(A)
  <1>1. PICK sf : SumFunction(f) = sf[S] /\ Summed(S, f, sf)
    BY SumIs
  <1>2. PICK sg : SumFunction(g) = sg[S] /\ Summed(S, g, sg)
    BY SumIs
  <1> DEFINE count(s) == Cardinality(s \cap A)
             fine == {s \in SUBSET S : sf[s] \in Int /\ sg[s] \in Int /\ sf[s] + sg[s] = c * count(s)}
  <1>3. \A s \in SUBSET S : IsFiniteSet(s \cap A) /\ count(s) \in Nat
    <2>1. \A s \in SUBSET S : s \cap A \subseteq S
      OBVIOUS
    <2> QED
      BY <2>1, FS_Subset, FS_CardinalityType
  <1>4. {} \in fine
    <2>1. {} \cap A = {} /\ Cardinality({}) = 0
      BY FS_EmptySet
    <2> QED
      BY <1>1, <1>2, <2>1 DEF Summed
  <1>5. ASSUME NEW s \in SUBSET S, s # {}, \A x \in s : s \ {x} \in fine PROVE s \in fine
    <2>1. PICK x \in s : x = Chosen(s)
      BY <1>1, <1>5 DEF Summed
    <2>2. PICK u \in fine : u = s \ {x}
      BY <1>5
    <2>3. sf[s] = f[x] + sf[u] /\ sg[s] = g[x] + sg[u]
      BY <1>1, <1>2, <1>5, <2>1, <2>2 DEF Summed
    <2>4. /\ f[x] \in Int /\ g[x] \in Int /\ f[x] + g[x] = IF x \in A THEN c ELSE 0
          /\ sf[u] \in Int /\ sg[u] \in Int /\ sf[u] + sg[u] = c * count(u)
      OBVIOUS
    <2>5. PICK k \in Nat : k = count(u)
      BY <1>3
    <2>6. count(s) = IF x \in A THEN k + 1 ELSE k
      <3>1. CASE x \in A
        <4>1. s \cap A = (u \cap A) \cup {x} /\ x \notin u \cap A
          BY <2>2, <3>1
        <4>2. IsFiniteSet(u \cap A)
          BY <1>3
        <4>3. Cardinality((u \cap A) \cup {x}) = Cardinality(u \cap A) + 1
          BY <4>1, <4>2, FS_AddElement
        <4> QED
          BY <2>5, <3>1, <4>1, <4>3
      <3>2. CASE x \notin A
        <4>1. s \cap A = u \cap A
          BY <2>2, <3>2
        <4> QED
          BY <2>5, <3>2, <4>1
      <3> QED
        BY <3>1, <3>2
    <2>7. c * (k + 1) = c * k + c
      OBVIOUS
    <2>8. sf[s] + sg[s] = c * count(s)
      <3>1. PICK ck \in Int : ck = c * k
        OBVIOUS
      <3>2. sf[u] + sg[u] = ck /\ c * count(s) = IF x \in A THEN ck + c ELSE ck
        BY <2>4, <2>5, <2>6, <2>7, <3>1
      <3>3. CASE x \in A
        BY <2>3, <2>4, <3>2, <3>3
      <3>4. CASE x \notin A
        BY <2>3, <2>4, <3>2, <3>4
      <3> QED
        BY <3>3, <3>4
    <2> QED
      BY <2>3, <2>4, <2>8
  <1> HIDE DEF fine
  <1>6. S \in fine
    BY <1>4, <1>5, FiniteSetDescent
  <1>7. S \cap A = A
    OBVIOUS
  <1> QED
    BY <1>1, <1>2, <1>3, <1>6, <1>7 DEF fine

-----------------------------------------------------------------------------
(* The slots of a decomposition.                                            *)

LEMMA QuotientIsInt ==
    ASSUME NEW a \in Int, NEW b \in Int, b > 0
    PROVE  a \div b \in Int
  BY SMTT(30)

\* What a price moved by and the funding of a slot are numbers.
LEMMA SlotIsNumbers ==
    ASSUME NEW train \in Seq(RowsOver(Closes)), NEW rates \in Seq(RowsOver(Rates)),
           NEW boundary \in Int, Len(train) <= boundary, BarsError(train, boundary) = "none",
           NEW i \in Scored(train, rates)
    PROVE  /\ i \in 1..Len(rates) /\ rates[i].v \in Int
           /\ PriceDelta(train, rates, i) \in Int /\ IntervalFunding(train, rates, i) \in Int
  <1>1. PICK n \in Nat : n = Len(train) /\ DOMAIN train = 1..n
    OBVIOUS
  <1>2. PICK m \in Nat : m = Len(rates) /\ DOMAIN rates = 1..m
    OBVIOUS
  <1>3. /\ \A k \in 1..n : train[k].v \in Int
        /\ \A k \in 1..m : rates[k].v \in Int
    <2>1. (\A k \in 1..n : train[k] \in RowsOver(Closes)) /\ \A k \in 1..m : rates[k] \in RowsOver(Rates)
      BY <1>1, <1>2
    <2> QED
      BY <2>1, DataAssumption DEF RowsOver
  <1>4. n = boundary
    BY <1>1 DEF BarsError
  <1>5. PICK p \in Nat : p = Purge
    BY WindowAssumption
  <1>6. PICK h \in Nat : h = Hold
    BY WindowAssumption
  <1>7. PICK w \in Nat : w = Warmup
    BY WindowAssumption
  <1>8. PICK e \in Nat : e = EntryOf(train, rates, i)
    <2>1. {k \in DOMAIN train : train[k].t <= rates[i].t} \subseteq 1..n
      BY <1>1
    <2>2. IsFiniteSet(1..n)
      BY FS_Interval
    <2>3. Cardinality({k \in DOMAIN train : train[k].t <= rates[i].t}) \in Nat
      BY <2>1, <2>2, FS_Subset, FS_CardinalityType
    <2> QED
      BY <2>3 DEF EntryOf, FirstAfter
  <1>9. i \in 1..m /\ w <= e /\ e + h <= n - p - 1
    BY <1>1, <1>2, <1>5, <1>6, <1>7, <1>8 DEF Scored, AllowedEnd
  <1>10. e + 1 \in 1..n /\ e + h + 1 \in 1..n
    BY <1>9
  <1>11. train[e + 1].v > 0
    <2>1. ~\E k \in Warmup..AllowedEnd(boundary) : At(train, k).v <= 0
      BY DEF BarsError
    <2>2. e \in Warmup..AllowedEnd(boundary)
      BY <1>4, <1>5, <1>7, <1>9 DEF AllowedEnd
    <2>3. ~(train[e + 1].v <= 0)
      BY <2>1, <2>2 DEF At
    <2> QED
      BY <1>3, <1>10, <2>3
  <1>12. PriceDelta(train, rates, i) \in Int
    <2>1. PICK s \in Int : s = Scale
      BY WindowAssumption
    <2>2. PICK x \in Int : x = train[e + h + 1].v
      BY <1>3, <1>10
    <2>3. PICK y \in Int : y = train[e + 1].v
      BY <1>3, <1>10
    <2>4. PICK sx \in Int : sx = s * x
      OBVIOUS
    <2>5. PriceDelta(train, rates, i) = (sx \div y) - s
      BY <1>6, <1>8, <2>1, <2>2, <2>3, <2>4 DEF PriceDelta, At
    <2>6. sx \div y \in Int
      BY <1>11, <2>3, QuotientIsInt
    <2> QED
      BY <2>5, <2>6
  <1>13. IntervalFunding(train, rates, i) \in Int
    <2>1. PICK within : within = {j \in DOMAIN rates : /\ At(train, EntryOf(train, rates, i)).t < rates[j].t
                                                      /\ rates[j].t <= At(train, EntryOf(train, rates, i) + Hold).t}
      OBVIOUS
    <2>2. within \subseteq 1..m
      BY <1>2, <2>1
    <2>3. IsFiniteSet(within)
      <3>1. IsFiniteSet(1..m)
        BY FS_Interval
      <3> QED
        BY <2>2, <3>1, FS_Subset
    <2>4. PICK f : f = [j \in within |-> rates[j].v]
      OBVIOUS
    <2>5. DOMAIN f = within /\ \A j \in within : f[j] \in Int
      BY <1>3, <2>2, <2>4
    <2>6. SumFunction(f) \in Int
      BY <2>3, <2>5, SumIsInt
    <2>7. IntervalFunding(train, rates, i) = SumFunction(f)
      BY <2>1, <2>4 DEF IntervalFunding
    <2> QED
      BY <2>6, <2>7
  <1> QED
    BY <1>2, <1>3, <1>9, <1>12, <1>13

\* The slots, taken apart.
SlotOK(slot) ==
    /\ \A part \in {"price", "funding", "cost"} :
          /\ slot.candidate[part] \in Int /\ slot.null[part] \in Int
          /\ slot.relative[part] = slot.candidate[part] - slot.null[part]
    /\ slot.long \in Int /\ slot.short \in Int
    /\ slot.long + slot.short = IF slot.active THEN - 2 * Cost ELSE 0

LEMMA SlotsAreOK ==
    ASSUME NEW train \in Seq(RowsOver(Closes)), NEW rates \in Seq(RowsOver(Rates)),
           NEW boundary \in Int, Len(train) <= boundary, BarsError(train, boundary) = "none",
           NEW slots, slots = DecompositionSlots(train, rates)
    PROVE  /\ DOMAIN slots = Scored(train, rates) /\ IsFiniteSet(DOMAIN slots)
           /\ \A i \in DOMAIN slots : SlotOK(slots[i])
  <1>1. DOMAIN slots = Scored(train, rates)
    BY DEF DecompositionSlots
  <1>2. IsFiniteSet(DOMAIN slots)
    <2>1. PICK m \in Nat : m = Len(rates) /\ DOMAIN rates = 1..m
      OBVIOUS
    <2>2. DOMAIN slots \subseteq 1..m
      BY <1>1, <2>1 DEF Scored
    <2>3. IsFiniteSet(1..m)
      BY FS_Interval
    <2> QED
      BY <2>2, <2>3, FS_Subset
  <1>3. ASSUME NEW i \in Scored(train, rates) PROVE SlotOK(slots[i])
    <2>1. PICK p \in Int : p = PriceDelta(train, rates, i)
      BY SlotIsNumbers
    <2>2. PICK f \in Int : f = IntervalFunding(train, rates, i)
      BY SlotIsNumbers
    <2>3. PICK cost \in Int : cost = IF Active(rates, i) THEN Cost ELSE 0
      BY WindowAssumption
    <2>4. PICK a \in Int : a = CandidateSide(rates, i)
      BY DEF CandidateSide
    <2>5. PICK b \in Int : b = NullSide(rates, Scored(train, rates), i)
      <3>1. NullSide(rates, Scored(train, rates), i) \in {-1, 0, 1}
        BY DEF NullSide
      <3> QED
        BY <3>1
    <2>6. PICK slot : slot = slots[i]
      OBVIOUS
    <2>7. /\ slot.candidate = [price |-> a * p, funding |-> - a * f, cost |-> cost]
          /\ slot.null = [price |-> b * p, funding |-> - b * f, cost |-> cost]
          /\ slot.relative = Relative(slot.candidate, slot.null)
          /\ slot.active = Active(rates, i)
          /\ slot.long = IF Active(rates, i) THEN Net(1, train, rates, i) ELSE 0
          /\ slot.short = IF Active(rates, i) THEN Net(-1, train, rates, i) ELSE 0
      BY <2>1, <2>2, <2>3, <2>4, <2>5, <2>6 DEF DecompositionSlots, SideParts
    <2>8. PICK ap \in Int : ap = a * p
      OBVIOUS
    <2>9. PICK af \in Int : af = - a * f
      OBVIOUS
    <2>10. PICK bp \in Int : bp = b * p
      OBVIOUS
    <2>11. PICK bf \in Int : bf = - b * f
      OBVIOUS
    <2>12. ASSUME NEW part \in {"price", "funding", "cost"}
           PROVE  /\ slot.candidate[part] \in Int /\ slot.null[part] \in Int
                  /\ slot.relative[part] = slot.candidate[part] - slot.null[part]
      <3>1. /\ slot.candidate = [price |-> ap, funding |-> af, cost |-> cost]
            /\ slot.null = [price |-> bp, funding |-> bf, cost |-> cost]
        BY <2>7, <2>8, <2>9, <2>10, <2>11
      <3>2. slot.relative = [price |-> ap - bp, funding |-> af - bf, cost |-> cost - cost]
        <4>1. /\ slot.candidate.price = ap /\ slot.candidate.funding = af /\ slot.candidate.cost = cost
              /\ slot.null.price = bp /\ slot.null.funding = bf /\ slot.null.cost = cost
          BY <3>1
        <4>2. slot.relative = [price   |-> slot.candidate.price - slot.null.price,
                               funding |-> slot.candidate.funding - slot.null.funding,
                               cost    |-> slot.candidate.cost - slot.null.cost]
          BY <2>7 DEF Relative
        <4> QED
          BY <4>1, <4>2
      <3> QED
        BY <3>1, <3>2
    <2>13. /\ slot.long \in Int /\ slot.short \in Int
           /\ slot.long + slot.short = IF slot.active THEN - 2 * Cost ELSE 0
      <3>1. CASE Active(rates, i)
        <4>1. PICK c \in Int : c = Cost
          BY WindowAssumption
        <4>2. slot.long = 1 * p - 1 * f - c
          BY <2>1, <2>2, <2>7, <3>1, <4>1 DEF Net
        <4>3. slot.short = (-1) * p - (-1) * f - c
          BY <2>1, <2>2, <2>7, <3>1, <4>1 DEF Net
        <4>4. slot.active
          BY <2>7, <3>1
        <4>5. slot.long + slot.short = - 2 * c
          BY <4>2, <4>3
        <4> QED
          BY <4>1, <4>2, <4>3, <4>4, <4>5
      <3>2. CASE ~Active(rates, i)
        BY <2>7, <3>2
      <3> QED
        BY <3>1, <3>2
    <2> QED
      BY <2>6, <2>12, <2>13 DEF SlotOK
  <1> QED
    BY <1>1, <1>2, <1>3

\* Over all slots, the differences are those of the totals, and the two sides leave
\* the cost of the active slots twice.
LEMMA TotalsAre ==
    ASSUME NEW slots, IsFiniteSet(DOMAIN slots), \A i \in DOMAIN slots : SlotOK(slots[i])
    PROVE  /\ \A part \in {"price", "funding", "cost"} :
                 /\ PartTotals(slots, "candidate")[part] \in Int
                 /\ PartTotals(slots, "null")[part] \in Int
                 /\ PartTotals(slots, "relative")[part] =
                       PartTotals(slots, "candidate")[part] - PartTotals(slots, "null")[part]
           /\ SumFunction([i \in DOMAIN slots |-> slots[i].long])
                 + SumFunction([i \in DOMAIN slots |-> slots[i].short])
                 = - 2 * Cost * Cardinality({i \in DOMAIN slots : slots[i].active})
  <1>1. ASSUME NEW part \in {"price", "funding", "cost"}
        PROVE  /\ PartTotals(slots, "candidate")[part] \in Int
               /\ PartTotals(slots, "null")[part] \in Int
               /\ PartTotals(slots, "relative")[part] =
                     PartTotals(slots, "candidate")[part] - PartTotals(slots, "null")[part]
    <2>1. PICK f : f = [i \in DOMAIN slots |-> slots[i]["candidate"][part]]
      OBVIOUS
    <2>2. PICK g : g = [i \in DOMAIN slots |-> slots[i]["null"][part]]
      OBVIOUS
    <2>3. PICK h : h = [i \in DOMAIN slots |-> slots[i]["relative"][part]]
      OBVIOUS
    <2>4. DOMAIN f = DOMAIN slots /\ DOMAIN g = DOMAIN slots /\ DOMAIN h = DOMAIN slots
      BY <2>1, <2>2, <2>3
    <2>5. ASSUME NEW i \in DOMAIN slots PROVE f[i] \in Int /\ g[i] \in Int /\ h[i] = f[i] - g[i]
      <3>1. SlotOK(slots[i])
        OBVIOUS
      <3> QED
        BY <2>1, <2>2, <2>3, <3>1 DEF SlotOK
    <2>6. SumFunction(f) \in Int /\ SumFunction(g) \in Int
      BY <2>4, <2>5, SumIsInt
    <2>7. SumFunction(h) = SumFunction(f) - SumFunction(g)
      BY <2>4, <2>5, SumOfDifferences
    <2>8. /\ PartTotals(slots, "candidate")[part] = SumFunction(f)
          /\ PartTotals(slots, "null")[part] = SumFunction(g)
          /\ PartTotals(slots, "relative")[part] = SumFunction(h)
      BY <2>1, <2>2, <2>3 DEF PartTotals
    <2> QED
      BY <2>6, <2>7, <2>8
  <1>2. PICK c \in Int : c = Cost
    BY WindowAssumption
  <1>3. PICK f : f = [i \in DOMAIN slots |-> slots[i].long]
    OBVIOUS
  <1>4. PICK g : g = [i \in DOMAIN slots |-> slots[i].short]
    OBVIOUS
  <1>5. PICK A : A = {i \in DOMAIN slots : slots[i].active}
    OBVIOUS
  <1>6. PICK twice \in Int : twice = - 2 * c
    OBVIOUS
  <1>7. DOMAIN f = DOMAIN slots /\ DOMAIN g = DOMAIN slots /\ A \in SUBSET DOMAIN slots
    BY <1>3, <1>4, <1>5
  <1>8. ASSUME NEW i \in DOMAIN slots
        PROVE  f[i] \in Int /\ g[i] \in Int /\ f[i] + g[i] = IF i \in A THEN twice ELSE 0
    <2>1. SlotOK(slots[i])
      OBVIOUS
    <2>2. f[i] = slots[i].long /\ g[i] = slots[i].short /\ (i \in A <=> slots[i].active)
      BY <1>3, <1>4, <1>5
    <2> QED
      BY <1>2, <1>6, <2>1, <2>2 DEF SlotOK
  <1>9. Cardinality(A) \in Nat /\ SumFunction(f) + SumFunction(g) = twice * Cardinality(A)
    BY <1>7, <1>8, SumOfCounted
  <1>10. SumFunction([i \in DOMAIN slots |-> slots[i].long])
           + SumFunction([i \in DOMAIN slots |-> slots[i].short])
           = - 2 * Cost * Cardinality({i \in DOMAIN slots : slots[i].active})
    BY <1>2, <1>3, <1>4, <1>5, <1>6, <1>9
  <1> QED
    BY <1>1, <1>10

\* A decomposition that is computed adds up to its source.
AddsUpTo(d, source) ==
    /\ NetOf(d.relative) = source.total
    /\ NetOf(d.candidate) - NetOf(d.null) = source.total
    /\ d.scored = source.scored
    /\ d.long + d.short = - 2 * Cost * d.active

LEMMA ComputedAddsUp ==
    ASSUME NEW train \in Seq(RowsOver(Closes)), NEW rates \in Seq(RowsOver(Rates)),
           NEW boundary \in Int, boundary >= 0 => Len(train) <= boundary, NEW source,
           NEW d, d = Decompose(rates, Materialized(train, rates, boundary), source),
           d.state = "computed"
    PROVE  AddsUpTo(d, source)
  <1>1. PICK m : m = Materialized(train, rates, boundary)
    OBVIOUS
  <1>2. m.error = "none" /\ d = DecompositionOf(rates, m.slots, source)
    BY <1>1 DEF Decompose, Blocked
  <1>3. BarsError(train, boundary) = "none" /\ m.slots = DecompositionSlots(train, rates)
    BY <1>1, <1>2 DEF Materialized
  <1>4. Len(train) <= boundary
    BY <1>3 DEF BarsError
  <1>5. PICK slots : slots = m.slots
    OBVIOUS
  <1>6. IsFiniteSet(DOMAIN slots) /\ \A i \in DOMAIN slots : SlotOK(slots[i])
    BY <1>3, <1>4, <1>5, SlotsAreOK
  <1>7. PICK relative : relative = PartTotals(slots, "relative")
    OBVIOUS
  <1>8. /\ DecompositionReasons(rates, slots, relative, source) = {}
        /\ d.candidate = PartTotals(slots, "candidate") /\ d.null = PartTotals(slots, "null")
        /\ d.relative = relative
        /\ d.long = SumFunction([i \in DOMAIN slots |-> slots[i].long])
        /\ d.short = SumFunction([i \in DOMAIN slots |-> slots[i].short])
        /\ d.active = Cardinality({i \in DOMAIN slots : slots[i].active})
        /\ d.scored = Cardinality(DOMAIN slots)
    <2> DEFINE
         computed == [state     |-> "computed",
                      class     |-> Classification(PartTotals(slots, "candidate"), relative),
                      candidate |-> PartTotals(slots, "candidate"),
                      relative  |-> relative,
                      null      |-> PartTotals(slots, "null"),
                      long      |-> SumFunction([i \in DOMAIN slots |-> slots[i].long]),
                      short     |-> SumFunction([i \in DOMAIN slots |-> slots[i].short]),
                      active    |-> Cardinality({i \in DOMAIN slots : slots[i].active}),
                      scored    |-> Cardinality(DOMAIN slots)]
    <2>1. \A r : Blocked(r).state # "computed"
      BY DEF Blocked
    <2>2. DecompositionReasons(rates, slots, relative, source) = {} /\ d = computed
      BY <1>2, <1>5, <1>7, <2>1 DEF DecompositionOf
    <2> QED
      BY <2>2
  <1>9. NetOf(relative) = source.total /\ Cardinality(DOMAIN slots) = source.scored
    <2>1. ~(NetOf(relative) # source.total)
      BY <1>8 DEF DecompositionReasons
    <2>2. ~(Cardinality(DOMAIN slots) # source.scored)
      BY <1>8 DEF DecompositionReasons
    <2> QED
      BY <2>1, <2>2
  <1>10. /\ \A part \in {"price", "funding", "cost"} :
               /\ d.candidate[part] \in Int /\ d.null[part] \in Int
               /\ relative[part] = d.candidate[part] - d.null[part]
         /\ d.long + d.short = - 2 * Cost * d.active
    BY <1>6, <1>7, <1>8, TotalsAre
  <1>11. NetOf(d.candidate) - NetOf(d.null) = NetOf(relative)
    <2>1. PICK cp \in Int, cf \in Int, cc \in Int :
             cp = d.candidate["price"] /\ cf = d.candidate["funding"] /\ cc = d.candidate["cost"]
      BY <1>10
    <2>2. PICK np \in Int, nf \in Int, nc \in Int :
             np = d.null["price"] /\ nf = d.null["funding"] /\ nc = d.null["cost"]
      BY <1>10
    <2>3. /\ relative["price"] = cp - np /\ relative["funding"] = cf - nf
          /\ relative["cost"] = cc - nc
      BY <1>10, <2>1, <2>2
    <2>4. /\ NetOf(d.candidate) = cp + cf - cc /\ NetOf(d.null) = np + nf - nc
          /\ NetOf(relative) = (cp - np) + (cf - nf) - (cc - nc)
      BY <2>1, <2>2, <2>3 DEF NetOf
    <2> QED
      BY <2>4
  <1> QED
    BY <1>8, <1>9, <1>10, <1>11 DEF AddsUpTo

-----------------------------------------------------------------------------
(* The decomposition works on the receipt that is archived.                 *)

Trained == {"components", "slotted", "decompose"}
Rated == {"slotted", "decompose"}
ArchiveOK ==
    /\ Single(archive)
    /\ archive = {} => decomposition = {}
    /\ run.pc \in Decomposing =>
          /\ {"archived", "audit"} \subseteq DOMAIN run
          /\ archive # {} /\ \A a \in archive : a.source = run.archived.source
          /\ run.pc = "contract" => (run.audit.passed => run.split.boundary >= 1)
          /\ run.pc # "contract" => run.split.boundary >= 1
SlotsOK ==
    /\ run.pc \in Trained =>
          /\ "train" \in DOMAIN run /\ run.train \in Seq(RowsOver(Closes))
          /\ Len(run.train) \in 1..run.split.boundary
    /\ run.pc \in Rated =>
          "rates" \in DOMAIN run /\ run.rates \in Seq(RowsOver(Rates))
    /\ run.pc = "decompose" =>
          /\ "slots" \in DOMAIN run
          /\ run.slots = Materialized(run.train, run.rates, run.split.boundary)
DecompositionInv == ArchiveOK /\ SlotsOK /\ DecompositionIsOfTheArchive

\* A step of a decomposition that reads one thing more.
LEMMA DecomposingStep ==
    ASSUME HoldoutInv, DecompositionInv, run.pc \in Decomposing, NEW label \in Decomposing,
           NEW field \in {"touched", "train", "rates", "slots"}, NEW read, DOMAIN read = {field},
           Step(label, read), RunUnchanged,
           run.pc = "contract" => run.audit.passed
    PROVE  /\ run'.pc = label /\ run'.split = run.split /\ run.split \in Splits
           /\ run.split.boundary >= 1
           /\ field \in DOMAIN run' /\ run'[field] = read[field]
           /\ \A f \in DOMAIN run \ {"pc", field} : f \in DOMAIN run' /\ run'[f] = run[f]
           /\ label # "contract" => ArchiveOK'
           /\ DecompositionIsOfTheArchive'
           /\ bars' = bars /\ funding' = funding
  <1>1. /\ "pc" \in DOMAIN run /\ {"split", "archived", "audit"} \subseteq DOMAIN run
        /\ run.split \in Splits
    <2>1. {"archived", "audit"} \subseteq DOMAIN run
      BY DEF DecompositionInv, ArchiveOK
    <2>2. "pc" \in DOMAIN run /\ "split" \in DOMAIN run /\ run.split \in Splits
      BY DEF HoldoutInv, RunOK, Decomposing
    <2> QED
      BY <2>1, <2>2
  <1>2. /\ run'.pc = label /\ DOMAIN run' = DOMAIN run \cup {field}
        /\ \A f \in DOMAIN run \ ({"pc"} \cup {field}) : run'[f] = run[f]
        /\ \A f \in {field} \ {"pc"} : run'[f] = read[f]
    BY <1>1, StepIs
  <1>3. /\ run'.split = run.split /\ run'.archived = run.archived /\ run'.audit = run.audit
        /\ {"archived", "audit"} \subseteq DOMAIN run'
    BY <1>1, <1>2
  <1>4. run.split.boundary >= 1
    BY DEF DecompositionInv, ArchiveOK
  <1>5. /\ archive' = archive /\ decomposition' = decomposition
        /\ bars' = bars /\ funding' = funding
    BY DEF RunUnchanged, dataVars
  <1>6. label # "contract" => ArchiveOK'
    BY <1>2, <1>3, <1>4, <1>5 DEF DecompositionInv, ArchiveOK
  <1>7. DecompositionIsOfTheArchive'
    BY <1>5 DEF DecompositionInv, DecompositionIsOfTheArchive
  <1> QED
    BY <1>1, <1>2, <1>3, <1>4, <1>5, <1>6, <1>7

LEMMA StartDecompositionIsOne ==
    ASSUME HoldoutInv, DecompositionInv, StartDecomposition
    PROVE  DecompositionInv'
  <1>1. PICK a \in archive :
            run' = [pc |-> "contract", touched |-> {}, split |-> a.source.split,
                    archived |-> a, audit |-> Audit(bars, a.source.split, {a.source.split})]
    BY DEF StartDecomposition
  <1>2. PICK audit : audit = Audit(bars, a.source.split, {a.source.split})
    OBVIOUS
  <1>3. /\ run'.pc = "contract" /\ run'.split = a.source.split /\ run'.archived = a
        /\ run'.audit = audit /\ {"archived", "audit"} \subseteq DOMAIN run'
    BY <1>1, <1>2
  <1>4. archive' = archive /\ decomposition' = decomposition
    BY DEF StartDecomposition
  <1>5. audit.passed => a.source.split.boundary >= 1
    <2>1. audit.passed => a.source.split.boundary \in 1..(Len(bars) - 1)
      BY <1>2 DEF Audit, PartitionOK
    <2>2. Len(bars) \in Nat
      BY BarsAre DEF HoldoutInv
    <2> QED
      BY <2>1, <2>2
  <1>6. ArchiveOK'
    BY <1>3, <1>4, <1>5 DEF DecompositionInv, ArchiveOK, Single
  <1>7. SlotsOK'
    BY <1>3 DEF SlotsOK, Trained, Rated
  <1>8. DecompositionIsOfTheArchive'
    BY <1>4 DEF DecompositionInv, DecompositionIsOfTheArchive
  <1> QED
    BY <1>6, <1>7, <1>8 DEF DecompositionInv

LEMMA CheckContractIsOne ==
    ASSUME HoldoutInv, DecompositionInv, CheckContract
    PROVE  DecompositionInv'
  <1>1. run.pc = "contract" /\ run.pc \in Decomposing
    BY DEF CheckContract, Decomposing
  <1>2. archive' = archive
    BY DEF CheckContract
  <1>3. CASE ContractHolds(run.archived, run.audit)
    <2>1. PICK read : read = [touched |-> run.touched]
      OBVIOUS
    <2>2. Step("slots", read) /\ DOMAIN read = {"touched"} /\ RunUnchanged
      BY <1>3, <2>1 DEF CheckContract, RunUnchanged
    <2>3. run.audit.passed
      BY <1>3 DEF ContractHolds
    <2>4. "slots" \in Decomposing
      BY DEF Decomposing
    <2>5. run'.pc = "slots" /\ ArchiveOK' /\ DecompositionIsOfTheArchive'
      BY <1>1, <2>2, <2>3, <2>4, DecomposingStep
    <2>6. SlotsOK'
      BY <2>5 DEF SlotsOK, Trained, Rated
    <2> QED
      BY <2>5, <2>6 DEF DecompositionInv
  <1>4. CASE ~ContractHolds(run.archived, run.audit)
    <2>1. run'.pc = "idle" /\ decomposition' = {Blocked({"contract"})}
      BY <1>4 DEF CheckContract, Idle
    <2>2. archive # {} /\ Single(archive)
      BY <1>1 DEF DecompositionInv, ArchiveOK
    <2>3. ArchiveOK'
      BY <1>2, <2>1, <2>2 DEF ArchiveOK, Decomposing
    <2>4. SlotsOK'
      BY <2>1 DEF SlotsOK, Trained, Rated
    <2>5. Blocked({"contract"}).state # "computed"
      BY DEF Blocked
    <2>6. DecompositionIsOfTheArchive'
      BY <2>1, <2>5 DEF DecompositionIsOfTheArchive
    <2> QED
      BY <2>3, <2>4, <2>6 DEF DecompositionInv
  <1> QED
    BY <1>3, <1>4

\* The bars of the train part: there is one, and none behind the boundary.
LEMMA TrainIs ==
    ASSUME DataOK, NEW boundary \in Int, boundary >= 1, NEW train, train = TrainBars(bars, boundary)
    PROVE  train \in Seq(RowsOver(Closes)) /\ Len(train) \in 1..boundary
  <1>1. PICK n \in Nat : n = Len(bars) /\ n >= 1
    BY BarsAre
  <1>2. PICK low : low = Min({boundary, n})
    OBVIOUS
  <1>3. low \in {boundary, n} /\ low <= boundary /\ low <= n
    <2>1. \E x \in {boundary, n} : \A y \in {boundary, n} : x <= y
      <3>1. boundary <= n \/ n <= boundary
        BY <1>1
      <3> QED
        BY <1>1, <3>1
    <2>2. low \in {boundary, n} /\ \A y \in {boundary, n} : low <= y
      BY <1>2, <2>1 DEF Min
    <2> QED
      BY <2>2
  <1>4. train = SubSeq(bars, 1, low)
    BY <1>1, <1>2 DEF TrainBars
  <1>5. low \in Nat /\ low >= 1
    BY <1>1, <1>3
  <1>6. bars \in Seq(RowsOver(Closes))
    BY DEF DataOK
  <1>7. Len(train) = low /\ train \in Seq(RowsOver(Closes))
    BY <1>1, <1>3, <1>4, <1>5, <1>6
  <1> QED
    BY <1>3, <1>5, <1>7

LEMMA ReadSlotBarsIsOne ==
    ASSUME HoldoutInv, DecompositionInv, ReadSlotBars
    PROVE  DecompositionInv'
  <1>1. PICK train : train = TrainBars(bars, run.split.boundary)
    OBVIOUS
  <1>2. PICK read : read = [train |-> train]
    OBVIOUS
  <1>3. /\ Step("components", read) /\ DOMAIN read = {"train"} /\ read["train"] = train
        /\ run.pc = "slots" /\ RunUnchanged
    BY <1>1, <1>2 DEF ReadSlotBars
  <1>4. run.pc \in Decomposing /\ "components" \in Decomposing
    BY <1>3 DEF Decomposing
  <1>5. /\ run'.pc = "components" /\ run'.split = run.split /\ run.split \in Splits
        /\ run.split.boundary >= 1 /\ "train" \in DOMAIN run' /\ run'["train"] = train
        /\ ArchiveOK' /\ DecompositionIsOfTheArchive'
    BY <1>3, <1>4, DecomposingStep
  <1>6. PICK k \in Int : k = run.split.boundary
    BY <1>5 DEF Splits
  <1>7. train \in Seq(RowsOver(Closes)) /\ Len(train) \in 1..k
    BY <1>1, <1>5, <1>6, TrainIs DEF HoldoutInv
  <1>8. SlotsOK'
    BY <1>5, <1>6, <1>7 DEF SlotsOK, Rated
  <1> QED
    BY <1>5, <1>8 DEF DecompositionInv

LEMMA ReadSlotRatesIsOne ==
    ASSUME HoldoutInv, DecompositionInv, ReadSlotRates
    PROVE  DecompositionInv'
  <1>1. PICK rates : rates = TrainFunding(funding, run.train)
    OBVIOUS
  <1>2. PICK read : read = [rates |-> rates]
    OBVIOUS
  <1>3. /\ Step("slotted", read) /\ DOMAIN read = {"rates"} /\ read["rates"] = rates
        /\ run.pc = "components" /\ RunUnchanged
    BY <1>1, <1>2 DEF ReadSlotRates
  <1>4. run.pc \in Decomposing /\ "slotted" \in Decomposing
    BY <1>3 DEF Decomposing
  <1>5. /\ "train" \in DOMAIN run /\ run.train \in Seq(RowsOver(Closes))
        /\ Len(run.train) \in 1..run.split.boundary
    BY <1>3 DEF DecompositionInv, SlotsOK, Trained
  <1>6. /\ run'.pc = "slotted" /\ run'.split = run.split /\ run.split \in Splits
        /\ "rates" \in DOMAIN run' /\ run'["rates"] = rates
        /\ "train" \in DOMAIN run' /\ run'["train"] = run["train"]
        /\ ArchiveOK' /\ DecompositionIsOfTheArchive'
    BY <1>3, <1>4, <1>5, DecomposingStep
  <1>7. rates \in Seq(RowsOver(Rates))
    <2>1. PICK n \in Nat : n = Len(run.train) /\ n >= 1
      BY <1>5
    <2>2. run.train[n] \in RowsOver(Closes)
      BY <1>5, <2>1
    <2>3. PICK t \in Int : t = run.train[n].t + Hour
      <3>1. run.train[n].t \in Nat /\ Hour \in Nat
        BY <2>2, WindowAssumption DEF RowsOver
      <3> QED
        BY <3>1
    <2>4. rates = FundingBefore(funding, t)
      BY <1>1, <2>1, <2>3 DEF TrainFunding
    <2>5. funding \in Seq(RowsOver(Rates))
      BY DEF HoldoutInv, DataOK
    <2> QED
      BY <2>4, <2>5, FundingBeforeIs
  <1>8. SlotsOK'
    BY <1>5, <1>6, <1>7 DEF SlotsOK
  <1> QED
    BY <1>6, <1>8 DEF DecompositionInv

LEMMA MaterializeSlotsIsOne ==
    ASSUME HoldoutInv, DecompositionInv, MaterializeSlots
    PROVE  DecompositionInv'
  <1>1. PICK slots : slots = Materialized(run.train, run.rates, run.split.boundary)
    OBVIOUS
  <1>2. PICK read : read = [slots |-> slots]
    OBVIOUS
  <1>3. /\ Step("decompose", read) /\ DOMAIN read = {"slots"} /\ read["slots"] = slots
        /\ run.pc = "slotted" /\ RunUnchanged
    BY <1>1, <1>2 DEF MaterializeSlots
  <1>4. run.pc \in Decomposing /\ "decompose" \in Decomposing
    BY <1>3 DEF Decomposing
  <1>5. /\ "train" \in DOMAIN run /\ run.train \in Seq(RowsOver(Closes))
        /\ Len(run.train) \in 1..run.split.boundary
        /\ "rates" \in DOMAIN run /\ run.rates \in Seq(RowsOver(Rates))
    BY <1>3 DEF DecompositionInv, SlotsOK, Trained, Rated
  <1>6. /\ run'.pc = "decompose" /\ run'.split = run.split
        /\ "slots" \in DOMAIN run' /\ run'["slots"] = slots
        /\ "train" \in DOMAIN run' /\ run'["train"] = run["train"]
        /\ "rates" \in DOMAIN run' /\ run'["rates"] = run["rates"]
        /\ ArchiveOK' /\ DecompositionIsOfTheArchive'
    BY <1>3, <1>4, <1>5, DecomposingStep
  <1>7. SlotsOK'
    BY <1>1, <1>5, <1>6 DEF SlotsOK
  <1> QED
    BY <1>6, <1>7 DEF DecompositionInv

LEMMA PublishDecompositionIsOne ==
    ASSUME HoldoutInv, DecompositionInv, PublishDecomposition
    PROVE  DecompositionInv'
  <1>1. PICK source : source = run.archived.source.statistic
    OBVIOUS
  <1>2. PICK d : d = Decompose(run.rates, run.slots, source)
    OBVIOUS
  <1>3. run.pc = "decompose" /\ run'.pc = "idle" /\ decomposition' = {d} /\ archive' = archive
    BY <1>1, <1>2 DEF PublishDecomposition, Idle
  <1>4. /\ archive # {} /\ Single(archive)
        /\ \A a \in archive : a.source.statistic = source
    BY <1>1, <1>3 DEF DecompositionInv, ArchiveOK, Decomposing
  <1>5. d.state = "computed" => AddsUpTo(d, source)
    <2>1. PICK k \in Int : k = run.split.boundary
      BY <1>3 DEF HoldoutInv, RunOK, Decomposing, Splits
    <2>2. PICK train \in Seq(RowsOver(Closes)) : train = run.train /\ Len(train) \in 1..k
      BY <1>3, <2>1 DEF DecompositionInv, SlotsOK, Trained
    <2>3. PICK rates \in Seq(RowsOver(Rates)) : rates = run.rates
      BY <1>3 DEF DecompositionInv, SlotsOK, Rated
    <2>4. run.slots = Materialized(train, rates, k)
      BY <1>3, <2>1, <2>2, <2>3 DEF DecompositionInv, SlotsOK
    <2>5. d = Decompose(rates, Materialized(train, rates, k), source)
      BY <1>2, <2>3, <2>4
    <2>6. Len(train) <= k
      BY <2>2
    <2> QED
      BY <2>5, <2>6, ComputedAddsUp
  <1>6. ArchiveOK'
    BY <1>3, <1>4 DEF ArchiveOK, Decomposing
  <1>7. SlotsOK'
    BY <1>3 DEF SlotsOK, Trained, Rated
  <1>8. DecompositionIsOfTheArchive'
    BY <1>3, <1>4, <1>5 DEF DecompositionIsOfTheArchive, AddsUpTo
  <1> QED
    BY <1>6, <1>7, <1>8 DEF DecompositionInv

\* What leaves the decomposition and the archive alone, in a run or between runs.
LEMMA ApartIsOne ==
    ASSUME HoldoutInv, DecompositionInv, archive' = archive, decomposition' = decomposition,
           \/ run'.pc \notin Decomposing
           \/ /\ run'.pc = run.pc /\ DOMAIN run' = DOMAIN run
              /\ \A f \in DOMAIN run \ {"touched"} : run'[f] = run[f]
    PROVE  DecompositionInv'
  <1>1. DecompositionIsOfTheArchive'
    BY DEF DecompositionInv, DecompositionIsOfTheArchive
  <1>2. CASE run'.pc \notin Decomposing
    <2>1. ArchiveOK'
      BY <1>2 DEF DecompositionInv, ArchiveOK
    <2>2. SlotsOK'
      BY <1>2 DEF SlotsOK, Trained, Rated, Decomposing
    <2> QED
      BY <1>1, <2>1, <2>2 DEF DecompositionInv
  <1>3. CASE /\ run'.pc = run.pc /\ DOMAIN run' = DOMAIN run
             /\ \A f \in DOMAIN run \ {"touched"} : run'[f] = run[f]
    <2> SUFFICES ASSUME run.pc \in Decomposing PROVE DecompositionInv'
      BY <1>2, <1>3
    <2>1. {"split", "archived", "audit"} \subseteq DOMAIN run
      BY DEF HoldoutInv, RunOK, DecompositionInv, ArchiveOK, Decomposing
    <2>2. run'.split = run.split /\ run'.archived = run.archived /\ run'.audit = run.audit
      BY <1>3, <2>1
    <2>3. ArchiveOK'
      BY <1>3, <2>1, <2>2 DEF DecompositionInv, ArchiveOK
    <2>4. SlotsOK'
      <3>1. run.pc \in Trained => "train" \in DOMAIN run' /\ run'.train = run.train
        BY <1>3 DEF DecompositionInv, SlotsOK
      <3>2. run.pc \in Rated => "rates" \in DOMAIN run' /\ run'.rates = run.rates
        BY <1>3 DEF DecompositionInv, SlotsOK
      <3>3. run.pc = "decompose" => "slots" \in DOMAIN run' /\ run'.slots = run.slots
        BY <1>3 DEF DecompositionInv, SlotsOK
      <3> QED
        BY <1>3, <2>2, <3>1, <3>2, <3>3 DEF DecompositionInv, SlotsOK, Trained, Rated
    <2> QED
      BY <1>1, <2>3, <2>4 DEF DecompositionInv
  <1> QED
    BY <1>2, <1>3

LEMMA ArchiveIsOne ==
    ASSUME HoldoutInv, DecompositionInv, Archive \/ RecordExecution
    PROVE  DecompositionInv'
  <1>1. run' = run /\ decomposition' = decomposition
    BY DEF Archive, RecordExecution
  <1>2. SlotsOK'
    BY <1>1 DEF DecompositionInv, SlotsOK
  <1>3. CASE Archive
    <2>1. archive = {} /\ decomposition = {} /\ run.pc \notin Decomposing
      BY <1>3 DEF Archive, DecompositionInv, ArchiveOK
    <2>2. PICK a : archive' = {a}
      BY <1>3 DEF Archive
    <2>3. ArchiveOK'
      BY <1>1, <2>1, <2>2 DEF ArchiveOK, Single
    <2>4. DecompositionIsOfTheArchive'
      BY <1>1, <2>1 DEF DecompositionIsOfTheArchive
    <2> QED
      BY <1>2, <2>3, <2>4 DEF DecompositionInv
  <1>4. CASE RecordExecution
    <2>1. PICK a \in archive : archive' = {[a EXCEPT !.spent = TRUE]}
      BY <1>4 DEF RecordExecution
    <2>2. PICK b : b = [a EXCEPT !.spent = TRUE]
      OBVIOUS
    <2>3. archive' = {b} /\ b.source = a.source
      BY <2>1, <2>2
    <2>4. ArchiveOK'
      BY <1>1, <2>3 DEF DecompositionInv, ArchiveOK, Single
    <2>5. DecompositionIsOfTheArchive'
      BY <1>1, <2>3 DEF DecompositionInv, DecompositionIsOfTheArchive
    <2> QED
      BY <1>2, <2>4, <2>5 DEF DecompositionInv
  <1> QED
    BY <1>3, <1>4

LEMMA DecompositionStarts == ASSUME Init PROVE DecompositionInv
  BY DEF Init, Idle, DecompositionInv, ArchiveOK, SlotsOK, DecompositionIsOfTheArchive, Single,
         Decomposing, Trained, Rated

LEMMA DecompositionSteps == ASSUME HoldoutInv, DecompositionInv, [Next]_vars PROVE DecompositionInv'
  <1>1. CASE Command
    <2>1. PICK args \in Invocations : Start(args)
      BY <1>1 DEF Command
    <2>2. PICK cut : cut = CutOf(bars, funding, args.roles)
      OBVIOUS
    <2>3. run' = [pc |-> "audit", split |-> args.split, commit |-> args.commit,
                  roles |-> args.roles, cut |-> cut, entry |-> entry, touched |-> {}]
      BY <2>1, <2>2 DEF Start
    <2>4. run'.pc \notin Decomposing
      BY <2>3 DEF Decomposing
    <2> QED
      BY <2>1, <2>4, ApartIsOne DEF Start
  <1>2. CASE \/ ReadTimestamps \/ ReadLines \/ ReadProjectedBars \/ ReadProjectedFunding
             \/ CompareSeal \/ LockPacket \/ EvaluateGate \/ Bind \/ ReadTrain \/ ReadRates
    <2>1. archive' = archive /\ decomposition' = decomposition
      BY <1>2 DEF ReadTimestamps, ReadLines, ReadProjectedBars, ReadProjectedFunding, CompareSeal,
                  LockPacket, EvaluateGate, Bind, ReadTrain, ReadRates, RunUnchanged
    <2>2. "pc" \in DOMAIN run
      BY DEF HoldoutInv, RunOK
    <2>3. \E label \in Sliced : \E read : Step(label, read)
      BY <1>2 DEF ReadTimestamps, ReadLines, ReadProjectedBars, ReadProjectedFunding, CompareSeal,
                  LockPacket, EvaluateGate, Bind, ReadTrain, ReadRates, Sliced
    <2>4. run'.pc \in Sliced
      BY <2>2, <2>3, StepIs
    <2>5. run'.pc \notin Decomposing
      BY <2>4 DEF Sliced, Decomposing
    <2> QED
      BY <2>1, <2>5, ApartIsOne
  <1>3. CASE Report
    <2>1. run'.pc \notin Decomposing /\ archive' = archive /\ decomposition' = decomposition
      BY <1>3 DEF Report, Idle, Decomposing
    <2> QED
      BY <2>1, ApartIsOne
  <1>4. CASE RunStep
    BY <1>2, <1>3, <1>4, CheckContractIsOne, ReadSlotBarsIsOne, ReadSlotRatesIsOne,
       MaterializeSlotsIsOne, PublishDecompositionIsOne DEF RunStep
  <1>5. CASE StartDecomposition
    BY <1>5, StartDecompositionIsOne
  <1>6. CASE Archive \/ RecordExecution
    BY <1>6, ArchiveIsOne
  <1>7. CASE ReviseBar \/ ReviseFunding \/ AppendBar
    <2>1. PICK t : Refresh(t)
      BY <1>7 DEF ReviseBar, ReviseFunding, AppendBar
    <2>2. Touch(t) /\ archive' = archive /\ decomposition' = decomposition
      BY <2>1 DEF Refresh, Touch
    <2>3. /\ run'.pc = run.pc /\ DOMAIN run' = DOMAIN run
          /\ \A f \in DOMAIN run \ {"touched"} : run'[f] = run[f]
      BY <2>2, TouchedRun DEF HoldoutInv
    <2> QED
      BY <2>2, <2>3, ApartIsOne
  <1>8. CASE Register \/ UNCHANGED vars
    <2>1. run' = run /\ archive' = archive /\ decomposition' = decomposition
      BY <1>8 DEF Register, RegisterTrial, RegisterSeal, RegisterPacket, RegisterGate, Copy, vars
    <2> QED
      BY <2>1, ApartIsOne
  <1> QED
    BY <1>1, <1>4, <1>5, <1>6, <1>7, <1>8 DEF Next

\* A decomposition works throughout on the receipt that is archived, with at
\* least one bar of its train part and none behind its boundary, and its slots
\* are those of the bars and the funding it read.
THEOREM DecompositionInvariant == Spec => []DecompositionInv
  <1>1. Init => DecompositionInv
    BY DecompositionStarts
  <1>2. HoldoutInv /\ DecompositionInv /\ [Next]_vars => DecompositionInv'
    BY DecompositionSteps
  <1> QED
    BY <1>1, <1>2, HoldoutInvariant, PTL DEF Spec

\* What build_candidate1_train_mechanism_decomposition_v0 publishes as computed
\* adds up to the archived total, part by part and over every slot, and its two
\* sides leave the round trips' cost: for every file of bars and of funding.
THEOREM DecompositionAddsUp == Spec => []DecompositionIsOfTheArchive
  <1>1. DecompositionInv => DecompositionIsOfTheArchive
    BY DEF DecompositionInv
  <1> QED
    BY <1>1, DecompositionInvariant, PTL
=============================================================================
