------------------------- MODULE PaperEngineProofs -------------------------
(***************************************************************************)
(* Theorems about PaperEngine, for any symbols, bars, sources and commands.  *)
(***************************************************************************)
EXTENDS PaperEngine, InductionFacts

-----------------------------------------------------------------------------
(* What the engine charges and what the coverage gate accepts.               *)

IsRows(rows) == \A r \in rows : r.at \in Int /\ r.late \in BOOLEAN

\* The gate keeps the fraction of a row's time and canonicalizes
\* (funding_time.py:50), the engine cuts it off (engine.py:93): they find the
\* same rows in every window.
THEOREM GateAcceptsWhatIsCharged ==
    ASSUME NEW rows, IsRows(rows), NEW from \in Int, NEW to \in Int, from < to
    PROVE  Accepted(rows, from, to) = Charged(rows, from, to)
<1>1. ASSUME NEW r \in rows
      PROVE  (/\ ~SameSecond(r, from)
              /\ SameSecond(r, to) \/ (2 * from < Instant(r) /\ Instant(r) <= 2 * to))
             <=> (from < r.at /\ r.at <= to)
  <2>1. r.at \in Int /\ r.late \in BOOLEAN
    BY DEF IsRows
  <2>2. CASE r.late
    <3>1. Instant(r) = 2 * r.at + 1
      BY <2>2 DEF Instant
    <3>2. QED
      BY <2>1, <3>1 DEF SameSecond
  <2>3. CASE ~r.late
    <3>1. Instant(r) = 2 * r.at
      BY <2>1, <2>3 DEF Instant
    <3>2. QED
      BY <2>1, <3>1 DEF SameSecond
  <2>4. QED
    BY <2>2, <2>3
<1>2. QED
  BY <1>1 DEF Accepted, Charged

-----------------------------------------------------------------------------
(* Bars, symbols and finite sets.                                           *)

\* Two bars are at least an interval apart.
LEMMA BarsApart ==
    /\ Bars \subseteq Nat /\ NoBar \in Int
    /\ \A t \in Bars : t \in Nat /\ t \in Int /\ NoBar < t
    /\ \A t, u \in Bars : u < t => u <= t - Interval
  <1>1. Interval \in Nat \ {0} /\ Horizon \in Nat
    BY EngineAssumption
  <1>3. ASSUME NEW t \in Bars PROVE \E k \in Nat : t = Interval * k
    <2>1. t \in Nat /\ t % Interval = 0
      BY <1>1 DEF Bars
    <2>2. PICK k : k = t \div Interval
      OBVIOUS
    <2>3. k \in Nat /\ t = Interval * k + (t % Interval)
      BY <1>1, <2>1, <2>2
    <2>4. Interval * k \in Int
      BY <1>1, <2>3
    <2>5. t = Interval * k
      BY <2>1, <2>3, <2>4
    <2> QED
      BY <2>3, <2>5
  <1>2. ASSUME NEW t \in Bars, NEW u \in Bars, u < t PROVE u <= t - Interval
    <2>1. PICK k \in Nat : t = Interval * k
      BY <1>3
    <2>2. PICK l \in Nat : u = Interval * l
      BY <1>3
    <2>3. l < k
      <3> SUFFICES ASSUME k <= l PROVE FALSE
        OBVIOUS
      <3>1. Interval * k <= Interval * l
        BY <1>1
      <3> QED
        BY <1>1, <1>2, <2>1, <2>2, <3>1
    <2>4. Interval * (l + 1) <= Interval * k
      <3>1. l + 1 <= k
        BY <2>3
      <3> QED
        BY <1>1, <3>1
    <2>5. Interval * (l + 1) = Interval * l + Interval
      BY <1>1
    <2> QED
      BY <1>1, <2>1, <2>2, <2>4, <2>5
  <1> QED
    BY <1>1, <1>2 DEF Bars, NoBar

LEMMA SymbolsFinite == IsFiniteSet(Symbols)
  <1>1. Order \in Seq(Symbols) /\ {Order[i] : i \in DOMAIN Order} = Symbols
    BY EngineAssumption
  <1>2. DOMAIN Order = 1..Len(Order) /\ Len(Order) \in Nat
    BY <1>1
  <1>3. IsFiniteSet(DOMAIN Order)
    BY <1>2, FS_Interval
  <1> QED
    BY <1>1, <1>3, FiniteImage

\* The least and the greatest of a set of bars, and of two numbers.
LEMMA LeastBar ==
    ASSUME NEW S \in SUBSET Bars, S # {}
    PROVE  Min(S) \in S /\ \A y \in S : Min(S) <= y
  <1>1. \E m \in S : \A y \in S : m <= y
    BY LeastNatural, BarsApart
  <1> QED
    BY <1>1 DEF Min

LEMMA GreaterOfTwo ==
    ASSUME NEW a \in Int, NEW b \in Int
    PROVE  Max({a, b}) = IF a >= b THEN a ELSE b
  <1>1. \E m \in {a, b} : \A y \in {a, b} : m >= y
    OBVIOUS
  <1>2. Max({a, b}) \in {a, b} /\ \A y \in {a, b} : Max({a, b}) >= y
    BY <1>1 DEF Max
  <1> QED
    BY <1>2

-----------------------------------------------------------------------------
(* The shape of the books and of the tables.                                *)

Position   == [entered : Bars, filled : Bars, charged : Nat]
Books      == [watermark : Bars \cup {NoBar}, funding : Nat,
               open : UNION {[D -> Position] : D \in SUBSET Symbols}]
FillTable  == [symbol : Symbols, bar : Bars, kind : {"entry", "exit"}, at : Bars]
FundingTable ==
    [symbol : Symbols, bar : Bars, stub : BOOLEAN, from : Int, to : Bars,
     events : SUBSET Settlements]
TradeTable  == [symbol : Symbols, entry : Bars, exit : Bars, charged : Nat]
EquityTable == [bar : Bars, open : SUBSET Symbols, funding : Nat]
Tables   == [fills : SUBSET FillTable, funding : SUBSET FundingTable,
             trades : SUBSET TradeTable, equity : SUBSET EquityTable]
Accounts == [book : Books, rows : Tables]

\* What bar t adds to the funding rows, and to the funding of symbol s.
NewFunding(open, t) == BarRows(open, t) \cup StubRows(Exits(open, t), t)
Accrued(open, s, t) == open[s].charged + Amount(Of(s, NewFunding(open, t)))

\* Bar t, booked: what the engine leaves, part by part.
IsBooked(new, at, open, t) ==
    /\ new = [book |-> new.book, rows |-> new.rows]
    /\ new.book = [watermark |-> t,
                   funding |-> at.book.funding + Amount(NewFunding(open, t)),
                   open |-> new.book.open]
    /\ new.book.open = [s \in log[t] |-> new.book.open[s]]
    /\ \A s \in log[t] \ DOMAIN open :
          new.book.open[s] = [entered |-> t, filled |-> FillAt(s, t), charged |-> 0]
    /\ \A s \in log[t] \cap DOMAIN open :
          new.book.open[s] = [open[s] EXCEPT !.charged = Accrued(open, s, t)]
    /\ new.rows =
         [fills |-> at.rows.fills \cup (Fills(Exits(open, t), t, "exit")
                                        \cup Fills(Entries(open, t), t, "entry")),
          funding |-> at.rows.funding \cup NewFunding(open, t),
          trades |-> at.rows.trades \cup
             {[symbol |-> s, entry |-> open[s].entered, exit |-> t,
               charged |-> Accrued(open, s, t)] : s \in Exits(open, t)},
          equity |-> at.rows.equity \cup
             {[bar |-> t, open |-> DOMAIN open,
               funding |-> EquityFunding(at.book.funding, BarRows(open, t),
                                         StubRows(Exits(open, t), t))]}]

LEMMA BookBarFacts ==
    ASSUME NEW at \in Accounts, NEW t \in Bars, log[t] \in SUBSET Symbols
    PROVE  IsBooked(BookBar(at, t), at, at.book.open, t)
  <1>o. PICK open : open = at.book.open
    OBVIOUS
  <1>n. PICK new : new = BookBar(at, t)
    OBVIOUS
  <1> DEFINE added ==
        [fills |-> Fills(Exits(open, t), t, "exit") \cup Fills(Entries(open, t), t, "entry"),
         funding |-> NewFunding(open, t),
         trades |-> {[symbol |-> s, entry |-> open[s].entered, exit |-> t,
                      charged |-> Accrued(open, s, t)] : s \in Exits(open, t)},
         equity |-> {[bar |-> t, open |-> DOMAIN open,
                      funding |-> EquityFunding(at.book.funding, BarRows(open, t),
                                                StubRows(Exits(open, t), t))]}]
        left == [s \in (DOMAIN open \ Exits(open, t)) \cup Entries(open, t) |->
                   IF s \in Entries(open, t)
                   THEN [entered |-> t, filled |-> FillAt(s, t), charged |-> 0]
                   ELSE [open[s] EXCEPT !.charged = Accrued(open, s, t)]]
  <1>1. new = [book |-> [watermark |-> t,
                         funding |-> at.book.funding + Amount(NewFunding(open, t)),
                         open |-> left],
               rows |-> AddRows(at.rows, added)]
    BY <1>o, <1>n DEF BookBar, Booked, Acted, NewFunding, Accrued
  <1> HIDE DEF added, left
  <1>4. new.rows = [fills |-> at.rows.fills \cup added.fills,
                    funding |-> at.rows.funding \cup added.funding,
                    trades |-> at.rows.trades \cup added.trades,
                    equity |-> at.rows.equity \cup added.equity]
    BY <1>1 DEF AddRows
  <1>5. DOMAIN left = log[t]
    BY DEF left, Exits, Entries
  <1>6. /\ \A s \in log[t] \ DOMAIN open :
              left[s] = [entered |-> t, filled |-> FillAt(s, t), charged |-> 0]
        /\ \A s \in log[t] \cap DOMAIN open :
              left[s] = [open[s] EXCEPT !.charged = Accrued(open, s, t)]
        /\ left = [s \in log[t] |-> left[s]]
    BY DEF left, Exits, Entries
  <1>7. new = [book |-> new.book, rows |-> new.rows]
        /\ new.book.open = left
        /\ new.book = [watermark |-> t,
                       funding |-> at.book.funding + Amount(NewFunding(open, t)),
                       open |-> new.book.open]
    BY <1>1
  <1>8. /\ added.fills = Fills(Exits(open, t), t, "exit") \cup Fills(Entries(open, t), t, "entry")
        /\ added.funding = NewFunding(open, t)
        /\ added.trades = {[symbol |-> s, entry |-> open[s].entered, exit |-> t,
                            charged |-> Accrued(open, s, t)] : s \in Exits(open, t)}
        /\ added.equity = {[bar |-> t, open |-> DOMAIN open,
                            funding |-> EquityFunding(at.book.funding, BarRows(open, t),
                                                      StubRows(Exits(open, t), t))]}
    BY DEF added
  <1>9. IsBooked(new, at, open, t)
    BY <1>4, <1>6, <1>7, <1>8 DEF IsBooked
  <1> QED
    BY <1>o, <1>n, <1>9

-----------------------------------------------------------------------------
(* Amounts.                                                                 *)

FiniteRows(rows) == IsFiniteSet(rows) /\ \A r \in rows : IsFiniteSet(r.events)

LEMMA AmountIsNumber ==
    ASSUME NEW rows, FiniteRows(rows)
    PROVE  /\ IsFiniteSet(UNION {{r} \X r.events : r \in rows})
           /\ Amount(rows) \in Nat
  <1>f. PICK f : f = [r \in rows |-> {r} \X r.events]
    OBVIOUS
  <1> DEFINE T == {f[r] : r \in rows}
  <1>1. IsFiniteSet(T)
    BY FiniteImage DEF FiniteRows
  <1>2. \A U \in T : IsFiniteSet(U)
    <2> SUFFICES ASSUME NEW r \in rows PROVE IsFiniteSet({r} \X r.events)
      BY <1>f
    <2> QED
      BY FS_Singleton, FS_Product DEF FiniteRows
  <1>3. T = {{r} \X r.events : r \in rows}
    BY <1>f
  <1> HIDE DEF T
  <1>4. IsFiniteSet(UNION T)
    BY <1>1, <1>2, FS_UNION
  <1> QED
    BY <1>3, <1>4, FS_CardinalityType DEF Amount

\* What is charged in rows that differ adds up.
LEMMA AmountsAddUp ==
    ASSUME NEW A, NEW B, FiniteRows(A), FiniteRows(B), A \cap B = {}
    PROVE  /\ FiniteRows(A \cup B)
           /\ Amount(A \cup B) = Amount(A) + Amount(B)
  <1> DEFINE Pairs(rows) == UNION {{r} \X r.events : r \in rows}
  <1>1. Pairs(A \cup B) = Pairs(A) \cup Pairs(B)
    OBVIOUS
  <1>2. Pairs(A) \cap Pairs(B) = {}
    OBVIOUS
  <1>3. IsFiniteSet(Pairs(A)) /\ IsFiniteSet(Pairs(B))
    BY AmountIsNumber
  <1>4. Amount(A) = Cardinality(Pairs(A)) /\ Amount(B) = Cardinality(Pairs(B))
        /\ Amount(A \cup B) = Cardinality(Pairs(A \cup B))
        /\ Amount(A) \in Nat /\ Amount(B) \in Nat
    BY AmountIsNumber DEF Amount
  <1> HIDE DEF Pairs
  <1>5. Cardinality(Pairs(A) \cup Pairs(B))
           = Cardinality(Pairs(A)) + Cardinality(Pairs(B))
    <2>1. Cardinality(Pairs(A)) \in Nat /\ Cardinality(Pairs(B)) \in Nat
      BY <1>4
    <2>2. Cardinality({}) = 0
      BY FS_EmptySet
    <2>3. Cardinality(Pairs(A) \cup Pairs(B))
             = Cardinality(Pairs(A)) + Cardinality(Pairs(B)) - Cardinality({})
      BY <1>2, <1>3, FS_Union
    <2> QED
      BY <2>1, <2>2, <2>3
  <1>6. FiniteRows(A \cup B)
    BY FS_Union DEF FiniteRows
  <1> QED
    BY <1>1, <1>4, <1>5, <1>6

LEMMA FewerRows ==
    ASSUME NEW A, FiniteRows(A), NEW B \in SUBSET A
    PROVE  FiniteRows(B)
  BY FS_Subset DEF FiniteRows

-----------------------------------------------------------------------------
(* The files.                                                               *)

\* The files are what the exchange had at some time, as far as they go.
FilesOK ==
    /\ now \in Nat
    /\ source \in [holes : [Symbols -> SUBSET Nat],
                   settled : [Symbols -> SUBSET Settlements],
                   signals : SUBSET SUBSET Symbols]
    /\ \A s \in Symbols : IsFiniteSet(source.settled[s])
    /\ prices \in [Symbols -> SUBSET Bars]
    /\ \A s \in Symbols : prices[s] \subseteq Served(s, now)
    /\ \A s \in Symbols \ refilled : \A v \in prices[s], u \in Bars \ source.holes[s] :
          u <= v => u \in prices[s]
    /\ rates \in [Symbols -> SUBSET Settlements]
    /\ \A s \in Symbols : rates[s] \subseteq source.settled[s]
    /\ log \in UNION {[D -> SUBSET Symbols] : D \in SUBSET Bars}
    /\ refilled \in SUBSET Symbols
    /\ lane \in Lanes

fileVars == <<now, source, prices, rates, log, lane, refilled>>

\* Files and the log only grow, the symbols aside that had a hole filled; and
\* that is all that other commands than the engine do.
FilesGrow ==
    /\ lane' = lane
    /\ source'.settled = source.settled
    /\ refilled \subseteq refilled'
    /\ \A s \in Symbols \ refilled' : source'.holes[s] = source.holes[s]
    /\ \A s \in Symbols : prices[s] \subseteq prices'[s]
    /\ DOMAIN log \subseteq DOMAIN log' /\ \A t \in DOMAIN log : log'[t] = log[t]

Environment == run = Idle /\ UNCHANGED <<run, book, ledger>> /\ FilesGrow

LEMMA LogType ==
    ASSUME FilesOK
    PROVE  DOMAIN log \subseteq Bars /\ \A t \in DOMAIN log : log[t] \in SUBSET Symbols
  BY DEF FilesOK

LEMMA RefreshFacts ==
    ASSUME FilesOK, NEW priced \in SUBSET Symbols, NEW funded \in SUBSET Symbols,
           Refresh(priced, funded)
    PROVE  FilesOK' /\ Environment
  <1>1. \A s \in Symbols : prices'[s] = Served(s, now) \/ prices'[s] = prices[s]
    BY DEF Refresh
  <1>2. \A s \in Symbols : rates'[s] = Settled(s, now) \/ rates'[s] = rates[s]
    BY DEF Refresh
  <1>3. \A s \in Symbols : Served(s, now) \in SUBSET Bars /\ Settled(s, now) \in SUBSET Settlements
                           /\ Settled(s, now) \subseteq source.settled[s]
    BY DEF FilesOK, Served, Settled
  <1>4. prices' \in [Symbols -> SUBSET Bars] /\ rates' \in [Symbols -> SUBSET Settlements]
    BY <1>1, <1>2, <1>3 DEF Refresh, FilesOK
  <1>5. UNCHANGED <<now, source, log, lane, book, ledger, run, refilled>> /\ run = Idle
    BY DEF Refresh
  <1>6. \A s \in Symbols : Served(s, now)' = Served(s, now)
    BY <1>5 DEF Served
  <1>7. \A s \in Symbols : \A v \in Served(s, now), u \in Bars \ source.holes[s] :
            u <= v => u \in Served(s, now)
    BY BarsApart DEF Served, FilesOK
  <1>8. FilesOK'
    BY <1>1, <1>2, <1>3, <1>4, <1>5, <1>6, <1>7 DEF FilesOK
  <1>9. Environment
    BY <1>1, <1>5 DEF Environment, FilesGrow, FilesOK
  <1> QED
    BY <1>8, <1>9

LEMMA ObserveFacts ==
    ASSUME FilesOK, Observe
    PROVE  FilesOK' /\ Environment
  <1>1. PICK active \in [Closed \ DOMAIN log -> source.signals \cup {{}}] :
            log' = [t \in DOMAIN active \cup DOMAIN log |->
                      IF t \in DOMAIN log THEN log[t] ELSE active[t]]
    BY DEF Observe
  <1>2. Closed \subseteq Bars
    BY EngineAssumption DEF Closed, FilesOK
  <1>3. DOMAIN active \subseteq Bars /\ \A t \in DOMAIN active : active[t] \in SUBSET Symbols
    BY <1>1, <1>2 DEF FilesOK
  <1>4. log' \in [DOMAIN active \cup DOMAIN log -> SUBSET Symbols]
    BY <1>1, <1>3, LogType
  <1>5. log' \in UNION {[D -> SUBSET Symbols] : D \in SUBSET Bars}
    BY <1>3, <1>4, LogType
  <1>6. UNCHANGED <<now, source, prices, rates, lane, book, ledger, run, refilled>> /\ run = Idle
    BY DEF Observe
  <1>7. \A s \in Symbols : Served(s, now)' = Served(s, now)
    BY <1>6 DEF Served
  <1>8. FilesOK'
    BY <1>5, <1>6, <1>7 DEF FilesOK
  <1>9. Environment
    BY <1>1, <1>6 DEF Environment, FilesGrow
  <1> QED
    BY <1>8, <1>9

LEMMA RefillFacts ==
    ASSUME FilesOK, NEW s \in Symbols, Refill(s)
    PROVE  FilesOK' /\ Environment
  <1>1. PICK t \in source.holes[s] : source' = [source EXCEPT !.holes[s] = @ \ {t}]
    BY DEF Refill
  <1>2. /\ source'.settled = source.settled /\ source'.signals = source.signals
        /\ source'.holes = [source.holes EXCEPT ![s] = @ \ {t}]
        /\ source' = [holes |-> source'.holes, settled |-> source.settled,
                      signals |-> source.signals]
    BY <1>1 DEF FilesOK
  <1>3. /\ source'.holes \in [Symbols -> SUBSET Nat]
        /\ \A x \in Symbols : source'.holes[x] \subseteq source.holes[x]
        /\ \A x \in Symbols \ {s} : source'.holes[x] = source.holes[x]
    BY <1>2 DEF FilesOK
  <1>4. UNCHANGED <<now, prices, rates, log, lane, book, ledger, run>> /\ run = Idle
        /\ refilled' = refilled \cup {s}
    BY DEF Refill
  <1>5. \A x \in Symbols : Served(x, now) \subseteq Served(x, now)'
    BY <1>3, <1>4 DEF Served
  <1>6. FilesOK'
    BY <1>2, <1>3, <1>4, <1>5 DEF FilesOK
  <1>7. Environment
    BY <1>2, <1>3, <1>4 DEF Environment, FilesGrow
  <1> QED
    BY <1>6, <1>7

LEMMA TickFacts ==
    ASSUME FilesOK, Tick
    PROVE  FilesOK' /\ Environment
  <1>1. UNCHANGED <<source, prices, rates, log, lane, book, ledger, run, refilled>> /\ run = Idle
        /\ now' \in Nat /\ now <= now'
    BY EngineAssumption DEF Tick, FilesOK
  <1>2. \A s \in Symbols : Served(s, now) \subseteq Served(s, now)'
    <2>1. now \in Nat /\ Bars \subseteq Nat
      BY BarsApart DEF FilesOK
    <2>2. \A u \in Bars : u <= now => u <= now'
      BY <1>1, <2>1
    <2> QED
      BY <1>1, <2>2 DEF Served
  <1>3. FilesOK'
    BY <1>1, <1>2 DEF FilesOK
  <1> QED
    BY <1>1, <1>3 DEF Environment, FilesGrow

\* A step is the environment's, or it leaves the files alone.
LEMMA FilesStep ==
    ASSUME FilesOK, [Next]_vars
    PROVE  /\ FilesOK'
           /\ \/ Environment
              \/ (Start \/ Step \/ Commit \/ Abort \/ UNCHANGED vars) /\ UNCHANGED fileVars
  <1>1. CASE Tick
    BY <1>1, TickFacts
  <1>2. CASE FullRefresh
    BY <1>2, RefreshFacts DEF FullRefresh
  <1>3. CASE CutRefresh
    <2>1. ASSUME NEW n \in 1..(Len(Order) - 1)
          PROVE  {Order[i] : i \in 1..n} \in SUBSET Symbols
      <3>1. Order \in Seq(Symbols)
        BY EngineAssumption
      <3> QED
        BY <3>1
    <2>2. {} \in SUBSET Symbols /\ Symbols \in SUBSET Symbols
      OBVIOUS
    <2>3. \E priced, funded \in SUBSET Symbols : Refresh(priced, funded)
      <3>1. ASSUME NEW n \in 1..(Len(Order) - 1), Refresh({Order[i] : i \in 1..n}, {})
            PROVE  \E priced, funded \in SUBSET Symbols : Refresh(priced, funded)
        BY <2>1, <2>2, <3>1
      <3>2. ASSUME NEW funded \in SUBSET Symbols, Refresh(Symbols, funded)
            PROVE  \E priced, f \in SUBSET Symbols : Refresh(priced, f)
        BY <2>2, <3>2
      <3> QED
        BY <1>3, <3>1, <3>2 DEF CutRefresh
    <2> QED
      BY <2>3, RefreshFacts
  <1>4. CASE \E s \in Symbols : Refill(s)
    BY <1>4, RefillFacts
  <1>5. CASE Observe
    BY <1>5, ObserveFacts
  <1>6. CASE Start \/ Step \/ Commit \/ Abort \/ UNCHANGED vars
    <2>1. UNCHANGED fileVars
      BY <1>6 DEF Start, Step, Commit, Abort, vars, fileVars
    <2>2. FilesOK'
      BY <2>1 DEF FilesOK, fileVars, Served
    <2> QED
      BY <1>6, <2>1, <2>2
  <1> QED
    BY <1>1, <1>2, <1>3, <1>4, <1>5, <1>6 DEF Next

-----------------------------------------------------------------------------
(* One bar.                                                                 *)

\* A fill is at the first bar of the exchange behind the bar that decided it,
\* if no hole was filled there.
FirstBehind(s, t, u) ==
    /\ t < u
    /\ s \notin refilled =>
          \A v \in Bars \ source.holes[s] : t < v => u <= v

LEMMA FillAtFacts ==
    ASSUME FilesOK, NEW s \in Symbols, NEW t \in Bars, NextBars(s, t) # {}
    PROVE  /\ t \in prices[s] /\ FillAt(s, t) \in prices[s] /\ FillAt(s, t) \in Bars
           /\ FirstBehind(s, t, FillAt(s, t))
  <1>1. t \in prices[s] /\ NextBars(s, t) = {u \in prices[s] : u > t} /\ prices[s] \subseteq Bars
    BY DEF NextBars, FilesOK
  <1>2. /\ FillAt(s, t) \in {u \in prices[s] : u > t}
        /\ \A u \in prices[s] : u > t => FillAt(s, t) <= u
    BY <1>1, LeastBar DEF FillAt
  <1>3. ASSUME s \notin refilled, NEW v \in Bars \ source.holes[s], t < v
        PROVE  FillAt(s, t) <= v
    <2>1. v \in Nat /\ FillAt(s, t) \in Nat
      BY <1>1, <1>2, BarsApart
    <2>2. v <= FillAt(s, t) => v \in prices[s]
      BY <1>2, <1>3 DEF FilesOK
    <2> QED
      BY <1>2, <1>3, <2>1, <2>2
  <1> QED
    BY <1>1, <1>2, <1>3, BarsApart DEF FirstBehind

\* What the engine acts on has a next bar.
LEMMA ActedOnHasNext ==
    ASSUME FilesOK, NEW open, DOMAIN open \subseteq Symbols,
           NEW t \in Eligible, Resolved(open, t)
    PROVE  /\ t \in Bars /\ log[t] \in SUBSET Symbols
           /\ \A s \in Entries(open, t) \cup Exits(open, t) : s \in Symbols /\ NextBars(s, t) # {}
           /\ Exits(open, t) \subseteq DOMAIN open /\ Entries(open, t) \cap DOMAIN open = {}
           /\ log[t] = (DOMAIN open \ Exits(open, t)) \cup Entries(open, t)
  <1>1. t \in Bars /\ log[t] \in SUBSET Symbols
    BY LogType DEF Eligible
  <1> QED
    BY <1>1 DEF Resolved, Acted, Entries, Exits

\* The positions of a book.
ArePositions(open) ==
    DOMAIN open \in SUBSET Symbols /\ \A s \in DOMAIN open : open[s] \in Position

\* The times a window is made of.
LEMMA WindowTimes ==
    ASSUME NEW open, ArePositions(open), NEW t \in Bars
    PROVE  \A s \in DOMAIN open :
              /\ t - Interval \in Int /\ open[s].filled \in Int
              /\ WindowStart(open[s], t) =
                   IF t - Interval >= open[s].filled THEN t - Interval ELSE open[s].filled
              /\ WindowStart(open[s], t) \in Int
  <1>1. Interval \in Nat /\ t \in Nat
    BY EngineAssumption, BarsApart
  <1>2. t - Interval \in Int
    BY <1>1
  <1>3. ASSUME NEW s \in DOMAIN open PROVE open[s].filled \in Int
    <2>1. open[s].filled \in Bars
      BY DEF ArePositions, Position
    <2> QED
      BY <2>1, BarsApart
  <1>4. ASSUME NEW s \in DOMAIN open
        PROVE  WindowStart(open[s], t) =
                   IF t - Interval >= open[s].filled THEN t - Interval ELSE open[s].filled
    BY <1>2, <1>3, GreaterOfTwo DEF WindowStart
  <1> QED
    BY <1>2, <1>3, <1>4

\* The funding rows of a bar, by kind.
LEMMA BarRowFacts ==
    ASSUME FilesOK, NEW open, ArePositions(open), NEW t \in Bars
    PROVE  \A r \in BarRows(open, t) :
              /\ r \in FundingTable /\ r.symbol \in DOMAIN open /\ r.bar = t /\ ~r.stub
              /\ r.to = t
              /\ r.events = Charged(rates[r.symbol], r.from, r.to)
  <1> SUFFICES ASSUME NEW r \in BarRows(open, t)
               PROVE  /\ r \in FundingTable /\ r.symbol \in DOMAIN open /\ r.bar = t /\ ~r.stub
                      /\ r.to = t
                      /\ r.events = Charged(rates[r.symbol], r.from, r.to)
    OBVIOUS
  <1>1. PICK s \in DOMAIN open : r = FundingRow(s, t, FALSE, WindowStart(open[s], t), t)
    BY DEF BarRows
  <1>2. s \in Symbols /\ open[s] \in Position /\ t \in Nat
    BY BarsApart DEF ArePositions
  <1>3. WindowStart(open[s], t) \in Int
    BY WindowTimes
  <1>4. Charged(rates[s], WindowStart(open[s], t), t) \in SUBSET Settlements
    BY <1>2 DEF Charged, FilesOK
  <1> HIDE DEF WindowStart
  <1> QED
    BY <1>1, <1>2, <1>3, <1>4 DEF FundingRow, FundingTable

\* The window of a bar's row goes back to the bar before, or to the fill.
LEMMA BarWindows ==
    ASSUME NEW open, NEW t
    PROVE  \A r \in BarRows(open, t) :
              /\ r.symbol \in DOMAIN open /\ r.from = WindowStart(open[r.symbol], t)
              /\ r.from < t /\ r.to = t
  BY DEF BarRows, FundingRow

LEMMA StubRowFacts ==
    ASSUME FilesOK, NEW open, ArePositions(open), NEW t \in Eligible, Resolved(open, t)
    PROVE  \A r \in StubRows(Exits(open, t), t) :
              /\ r \in FundingTable /\ r.symbol \in Exits(open, t) /\ r.bar = t /\ r.stub
              /\ r.from = t /\ r.to = FillAt(r.symbol, t) /\ r.from < r.to
              /\ r.events = Charged(rates[r.symbol], r.from, r.to)
  <1> SUFFICES ASSUME NEW r \in StubRows(Exits(open, t), t)
               PROVE  /\ r \in FundingTable /\ r.symbol \in Exits(open, t) /\ r.bar = t /\ r.stub
                      /\ r.from = t /\ r.to = FillAt(r.symbol, t) /\ r.from < r.to
                      /\ r.events = Charged(rates[r.symbol], r.from, r.to)
    OBVIOUS
  <1>1. PICK s \in Exits(open, t) : r = FundingRow(s, t, TRUE, t, FillAt(s, t))
    BY DEF StubRows
  <1>2. DOMAIN open \subseteq Symbols
    BY DEF ArePositions
  <1>3. s \in Symbols /\ t \in Bars /\ NextBars(s, t) # {} /\ t \in Int
    <2>1. s \in Symbols /\ t \in Bars /\ NextBars(s, t) # {}
      BY <1>2, ActedOnHasNext
    <2> QED
      BY <2>1, BarsApart
  <1>4. FillAt(s, t) \in Bars /\ t < FillAt(s, t)
    BY <1>3, FillAtFacts DEF FirstBehind
  <1>5. Charged(rates[s], t, FillAt(s, t)) \in SUBSET Settlements
    BY <1>3 DEF Charged, FilesOK
  <1> QED
    BY <1>1, <1>3, <1>4, <1>5 DEF FundingRow, FundingTable

\* There are finitely many, of finitely many settlements each.
LEMMA NewFundingFinite ==
    ASSUME FilesOK, NEW open, ArePositions(open),
           NEW t \in Eligible, Resolved(open, t)
    PROVE  /\ FiniteRows(BarRows(open, t)) /\ FiniteRows(StubRows(Exits(open, t), t))
           /\ BarRows(open, t) \cap StubRows(Exits(open, t), t) = {}
           /\ NewFunding(open, t) \subseteq FundingTable
           /\ FiniteRows(NewFunding(open, t))
           /\ \A r \in NewFunding(open, t) :
                 /\ r.bar = t /\ r.symbol \in DOMAIN open
                 /\ r.events = Charged(rates[r.symbol], r.from, r.to)
  <1>t. t \in Bars
    BY LogType DEF Eligible
  <1>d. DOMAIN open \subseteq Symbols /\ Exits(open, t) \subseteq DOMAIN open
    BY DEF Exits, ArePositions
  <1>f. IsFiniteSet(DOMAIN open) /\ IsFiniteSet(Exits(open, t))
    BY <1>d, SymbolsFinite, FS_Subset
  <1>1. \A r \in BarRows(open, t) :
           /\ r \in FundingTable /\ r.symbol \in DOMAIN open /\ r.bar = t /\ ~r.stub
           /\ r.events = Charged(rates[r.symbol], r.from, r.to)
    BY <1>t, BarRowFacts
  <1>2. \A r \in StubRows(Exits(open, t), t) :
           /\ r \in FundingTable /\ r.symbol \in Exits(open, t) /\ r.bar = t /\ r.stub
           /\ r.events = Charged(rates[r.symbol], r.from, r.to)
    BY StubRowFacts
  <1>3. ASSUME NEW s \in Symbols, NEW from, NEW to
        PROVE  IsFiniteSet(Charged(rates[s], from, to))
    <2>1. Charged(rates[s], from, to) \in SUBSET source.settled[s] /\ IsFiniteSet(source.settled[s])
      BY DEF Charged, FilesOK
    <2> QED
      BY <2>1, FS_Subset
  <1>4. IsFiniteSet(BarRows(open, t))
    <2>1. PICK f : f = [s \in DOMAIN open |-> FundingRow(s, t, FALSE, WindowStart(open[s], t), t)]
      OBVIOUS
    <2>2. IsFiniteSet({f[s] : s \in DOMAIN open})
      BY <1>f, FiniteImage
    <2>3. BarRows(open, t) \in SUBSET {f[s] : s \in DOMAIN open}
      BY <2>1 DEF BarRows
    <2> QED
      BY <2>2, <2>3, FS_Subset
  <1>5. IsFiniteSet(StubRows(Exits(open, t), t))
    <2>1. PICK f : f = [s \in Exits(open, t) |-> FundingRow(s, t, TRUE, t, FillAt(s, t))]
      OBVIOUS
    <2>2. IsFiniteSet({f[s] : s \in Exits(open, t)})
      BY <1>f, FiniteImage
    <2>3. StubRows(Exits(open, t), t) = {f[s] : s \in Exits(open, t)}
      BY <2>1 DEF StubRows
    <2> QED
      BY <2>2, <2>3
  <1>6. FiniteRows(BarRows(open, t)) /\ FiniteRows(StubRows(Exits(open, t), t))
    <2>1. \A r \in BarRows(open, t) : IsFiniteSet(r.events)
      BY <1>1, <1>3, <1>d
    <2>2. \A r \in StubRows(Exits(open, t), t) : IsFiniteSet(r.events)
      BY <1>2, <1>3, <1>d
    <2> QED
      BY <1>4, <1>5, <2>1, <2>2 DEF FiniteRows
  <1>7. BarRows(open, t) \cap StubRows(Exits(open, t), t) = {}
    BY <1>1, <1>2
  <1>8. FiniteRows(NewFunding(open, t))
    BY <1>6, <1>7, AmountsAddUp DEF NewFunding
  <1> QED
    BY <1>1, <1>2, <1>6, <1>7, <1>8, <1>d DEF NewFunding

-----------------------------------------------------------------------------
(* The accounts stay what they are.                                         *)

LEMMA AccountsParts ==
    ASSUME NEW at \in Accounts
    PROVE  /\ at = [book |-> at.book, rows |-> at.rows]
           /\ at.book \in Books /\ at.rows \in Tables
           /\ at.book.watermark \in Bars \cup {NoBar} /\ at.book.funding \in Nat
           /\ at.book.watermark \in Int
           /\ DOMAIN at.book.open \in SUBSET Symbols
           /\ at.book.open \in [DOMAIN at.book.open -> Position]
           /\ at.rows = [fills |-> at.rows.fills, funding |-> at.rows.funding,
                         trades |-> at.rows.trades, equity |-> at.rows.equity]
           /\ at.rows.fills \subseteq FillTable /\ at.rows.funding \subseteq FundingTable
           /\ at.rows.trades \subseteq TradeTable /\ at.rows.equity \subseteq EquityTable
  <1>1. at.book \in Books /\ at.rows \in Tables /\ at = [book |-> at.book, rows |-> at.rows]
    BY DEF Accounts
  <1>2. at.book.watermark \in Int
    BY <1>1, BarsApart DEF Books
  <1> QED
    BY <1>1, <1>2 DEF Books, Tables

LEMMA BookedTables ==
    ASSUME FilesOK, NEW at \in Accounts, NEW t \in Eligible, Resolved(at.book.open, t),
           NEW open, open = at.book.open
    PROVE  /\ ArePositions(open)
           /\ Fills(Exits(open, t), t, "exit") \cup Fills(Entries(open, t), t, "entry")
                \subseteq FillTable
           /\ \A s \in DOMAIN open : Accrued(open, s, t) \in Nat
           /\ {[symbol |-> s, entry |-> open[s].entered, exit |-> t,
                charged |-> Accrued(open, s, t)] : s \in Exits(open, t)} \subseteq TradeTable
           /\ {[bar |-> t, open |-> DOMAIN open,
                funding |-> EquityFunding(at.book.funding, BarRows(open, t),
                                          StubRows(Exits(open, t), t))]} \subseteq EquityTable
           /\ at.book.funding + Amount(NewFunding(open, t)) \in Nat
  <1>1. ArePositions(open)
    BY AccountsParts DEF ArePositions
  <1>d. DOMAIN open \subseteq Symbols
    BY <1>1 DEF ArePositions
  <1>2. /\ t \in Bars
        /\ \A s \in Entries(open, t) \cup Exits(open, t) : s \in Symbols /\ NextBars(s, t) # {}
        /\ Exits(open, t) \subseteq DOMAIN open
    BY <1>d, ActedOnHasNext
  <1>3. \A s \in Entries(open, t) \cup Exits(open, t) : FillAt(s, t) \in Bars
    BY <1>2, FillAtFacts
  <1>4. /\ FiniteRows(NewFunding(open, t))
        /\ FiniteRows(BarRows(open, t)) /\ FiniteRows(StubRows(Exits(open, t), t))
    BY <1>1, NewFundingFinite
  <1>5. ASSUME NEW s \in DOMAIN open PROVE Accrued(open, s, t) \in Nat
    <2>1. FiniteRows(Of(s, NewFunding(open, t)))
      BY <1>4, FewerRows DEF Of
    <2>2. Amount(Of(s, NewFunding(open, t))) \in Nat
      BY <2>1, AmountIsNumber
    <2>3. open[s].charged \in Nat
      BY <1>1 DEF ArePositions, Position
    <2> QED
      BY <2>2, <2>3 DEF Accrued
  <1>6. /\ Amount(NewFunding(open, t)) \in Nat /\ Amount(BarRows(open, t)) \in Nat
        /\ Amount(StubRows(Exits(open, t), t)) \in Nat
    BY <1>4, AmountIsNumber
  <1>7. at.book.funding \in Nat
    BY AccountsParts
  <1>8. /\ at.book.funding + Amount(NewFunding(open, t)) \in Nat
        /\ EquityFunding(at.book.funding, BarRows(open, t), StubRows(Exits(open, t), t)) \in Nat
    BY <1>6, <1>7 DEF EquityFunding
  <1>9. Fills(Exits(open, t), t, "exit") \cup Fills(Entries(open, t), t, "entry")
          \subseteq FillTable
    BY <1>2, <1>3 DEF Fills, FillTable
  <1>10. {[symbol |-> s, entry |-> open[s].entered, exit |-> t,
           charged |-> Accrued(open, s, t)] : s \in Exits(open, t)} \subseteq TradeTable
    <2>1. \A s \in Exits(open, t) : s \in Symbols /\ open[s].entered \in Bars
      BY <1>1, <1>2 DEF ArePositions, Position
    <2> QED
      BY <1>2, <1>5, <2>1 DEF TradeTable
  <1>11. {[bar |-> t, open |-> DOMAIN open,
           funding |-> EquityFunding(at.book.funding, BarRows(open, t),
                                     StubRows(Exits(open, t), t))]} \subseteq EquityTable
    BY <1>2, <1>8, <1>d DEF EquityTable
  <1> QED
    BY <1>1, <1>5, <1>8, <1>9, <1>10, <1>11

LEMMA BookingKeepsAccounts ==
    ASSUME FilesOK, NEW at \in Accounts, NEW t \in Eligible, Resolved(at.book.open, t)
    PROVE  BookBar(at, t) \in Accounts
  <1>o. PICK open : open = at.book.open
    OBVIOUS
  <1>n. PICK new : new = BookBar(at, t)
    OBVIOUS
  <1>1. t \in Bars /\ log[t] \in SUBSET Symbols
    BY LogType DEF Eligible
  <1>i. IsBooked(new, at, open, t)
    BY <1>o, <1>n, <1>1, BookBarFacts
  <1>a. /\ new = [book |-> new.book, rows |-> new.rows]
        /\ new.book = [watermark |-> t,
                       funding |-> at.book.funding + Amount(NewFunding(open, t)),
                       open |-> new.book.open]
        /\ new.book.open = [s \in log[t] |-> new.book.open[s]]
    BY <1>i DEF IsBooked
  <1>b. /\ \A s \in log[t] \ DOMAIN open :
              new.book.open[s] = [entered |-> t, filled |-> FillAt(s, t), charged |-> 0]
        /\ \A s \in log[t] \cap DOMAIN open :
              new.book.open[s] = [open[s] EXCEPT !.charged = Accrued(open, s, t)]
    BY <1>i DEF IsBooked
  <1>c. new.rows =
          [fills |-> at.rows.fills \cup (Fills(Exits(open, t), t, "exit")
                                         \cup Fills(Entries(open, t), t, "entry")),
           funding |-> at.rows.funding \cup NewFunding(open, t),
           trades |-> at.rows.trades \cup
              {[symbol |-> s, entry |-> open[s].entered, exit |-> t,
                charged |-> Accrued(open, s, t)] : s \in Exits(open, t)},
           equity |-> at.rows.equity \cup
              {[bar |-> t, open |-> DOMAIN open,
                funding |-> EquityFunding(at.book.funding, BarRows(open, t),
                                          StubRows(Exits(open, t), t))]}]
    BY <1>i DEF IsBooked
  <1>2. /\ ArePositions(open)
        /\ Fills(Exits(open, t), t, "exit") \cup Fills(Entries(open, t), t, "entry")
             \subseteq FillTable
        /\ \A s \in DOMAIN open : Accrued(open, s, t) \in Nat
        /\ {[symbol |-> s, entry |-> open[s].entered, exit |-> t,
             charged |-> Accrued(open, s, t)] : s \in Exits(open, t)} \subseteq TradeTable
        /\ {[bar |-> t, open |-> DOMAIN open,
             funding |-> EquityFunding(at.book.funding, BarRows(open, t),
                                       StubRows(Exits(open, t), t))]} \subseteq EquityTable
        /\ at.book.funding + Amount(NewFunding(open, t)) \in Nat
    BY <1>o, BookedTables
  <1>3. NewFunding(open, t) \subseteq FundingTable
    BY <1>2, <1>o, NewFundingFinite
  <1>4. /\ at.rows.fills \subseteq FillTable /\ at.rows.funding \subseteq FundingTable
        /\ at.rows.trades \subseteq TradeTable /\ at.rows.equity \subseteq EquityTable
    BY AccountsParts
  <1>5. new.rows \in Tables
    BY <1>c, <1>2, <1>3, <1>4 DEF Tables
  <1>6. ASSUME NEW s \in log[t] PROVE new.book.open[s] \in Position
    <2>1. CASE s \in DOMAIN open
      BY <1>b, <1>2, <2>1 DEF ArePositions, Position
    <2>2. CASE s \notin DOMAIN open
      <3>1. DOMAIN open \subseteq Symbols
        BY <1>2 DEF ArePositions
      <3>2. s \in Entries(open, t)
        BY <2>2 DEF Entries
      <3>3. s \in Symbols /\ NextBars(s, t) # {}
        BY <1>o, <3>1, <3>2, ActedOnHasNext
      <3>4. FillAt(s, t) \in Bars
        BY <1>1, <3>3, FillAtFacts
      <3> QED
        <4>1. new.book.open[s] = [entered |-> t, filled |-> FillAt(s, t), charged |-> 0]
          BY <1>b, <2>2
        <4>2. t \in Bars /\ 0 \in Nat
          BY <1>1
        <4> QED
          BY <3>4, <4>1, <4>2 DEF Position
    <2> QED
      BY <2>1, <2>2
  <1>7. new.book.open \in [log[t] -> Position]
    BY <1>a, <1>6
  <1>8. new.book \in Books
    BY <1>a, <1>1, <1>2, <1>7 DEF Books
  <1> QED
    BY <1>n, <1>a, <1>5, <1>8 DEF Accounts

\* An open position was filled at a bar of the symbol's file, behind the bar of
\* its entry, which is not behind the watermark; and so was every other fill.
PositionsOK(at) ==
    /\ at.book.watermark \in DOMAIN log \cup {NoBar}
    /\ \A s \in DOMAIN at.book.open :
          /\ at.book.open[s].entered < at.book.open[s].filled
          /\ at.book.open[s].entered <= at.book.watermark
          /\ at.book.open[s].filled \in prices[s]
    /\ \A f \in at.rows.fills : f.bar < f.at /\ f.bar <= at.book.watermark

LEMMA BookingKeepsPositions ==
    ASSUME FilesOK, NEW at \in Accounts, PositionsOK(at),
           NEW t \in Eligible, t > at.book.watermark, Resolved(at.book.open, t)
    PROVE  PositionsOK(BookBar(at, t))
  <1>o. PICK open : open = at.book.open
    OBVIOUS
  <1>n. PICK new : new = BookBar(at, t)
    OBVIOUS
  <1>1. t \in Bars /\ log[t] \in SUBSET Symbols /\ t \in DOMAIN log /\ t \in Int
    BY LogType, BarsApart DEF Eligible
  <1>i. IsBooked(new, at, open, t)
    BY <1>o, <1>n, <1>1, BookBarFacts
  <1>a. new.book.watermark = t /\ DOMAIN new.book.open = log[t]
    BY <1>i DEF IsBooked
  <1>b. /\ \A s \in log[t] \ DOMAIN open :
              new.book.open[s] = [entered |-> t, filled |-> FillAt(s, t), charged |-> 0]
        /\ \A s \in log[t] \cap DOMAIN open :
              new.book.open[s] = [open[s] EXCEPT !.charged = Accrued(open, s, t)]
    BY <1>i DEF IsBooked
  <1>c. new.rows.fills = at.rows.fills \cup (Fills(Exits(open, t), t, "exit")
                                         \cup Fills(Entries(open, t), t, "entry"))
    BY <1>i DEF IsBooked
  <1>2. ArePositions(open)
    BY <1>o, BookedTables
  <1>d. DOMAIN open \subseteq Symbols
    BY <1>2 DEF ArePositions
  <1>3. \A s \in Entries(open, t) \cup Exits(open, t) : s \in Symbols /\ NextBars(s, t) # {}
    BY <1>o, <1>d, ActedOnHasNext
  <1>4. \A s \in Entries(open, t) \cup Exits(open, t) :
           FillAt(s, t) \in prices[s] /\ t < FillAt(s, t)
    BY <1>1, <1>3, FillAtFacts DEF FirstBehind
  <1>5. at.book.watermark \in Int
    BY AccountsParts
  <1>6. ASSUME NEW s \in log[t]
        PROVE  /\ new.book.open[s].entered < new.book.open[s].filled
               /\ new.book.open[s].entered <= t
               /\ new.book.open[s].filled \in prices[s]
    <2>1. CASE s \in DOMAIN open
      <3>1. new.book.open[s].entered = open[s].entered /\ new.book.open[s].filled = open[s].filled
        BY <1>b, <1>2, <2>1 DEF ArePositions, Position
      <3>2. /\ open[s].entered < open[s].filled /\ open[s].entered <= at.book.watermark
            /\ open[s].filled \in prices[s]
        BY <1>o, <2>1 DEF PositionsOK
      <3>3. open[s].entered \in Bars
        BY <1>2, <2>1 DEF ArePositions, Position
      <3>4. open[s].entered \in Int
        BY <3>3, BarsApart
      <3> QED
        BY <1>1, <1>5, <3>1, <3>2, <3>4
    <2>2. CASE s \notin DOMAIN open
      <3>1. new.book.open[s] = [entered |-> t, filled |-> FillAt(s, t), charged |-> 0]
        BY <1>b, <2>2
      <3>2. s \in Entries(open, t)
        BY <2>2 DEF Entries
      <3> QED
        BY <1>1, <1>4, <3>1, <3>2
    <2> QED
      BY <2>1, <2>2
  <1>7. ASSUME NEW f \in new.rows.fills PROVE f.bar < f.at /\ f.bar <= t
    <2>1. CASE f \in at.rows.fills
      <3>1. f.bar < f.at /\ f.bar <= at.book.watermark
        BY <2>1 DEF PositionsOK
      <3>2. f.bar \in Bars
        BY <2>1, AccountsParts DEF FillTable
      <3>3. f.bar \in Int
        BY <3>2, BarsApart
      <3> QED
        BY <1>1, <1>5, <3>1, <3>3
    <2>2. CASE f \notin at.rows.fills
      <3>1. PICK s \in Entries(open, t) \cup Exits(open, t) : f.bar = t /\ f.at = FillAt(s, t)
        BY <1>c, <2>2 DEF Fills
      <3> QED
        BY <1>1, <1>4, <3>1
    <2> QED
      BY <2>1, <2>2
  <1> QED
    BY <1>n, <1>a, <1>1, <1>6, <1>7 DEF PositionsOK

LEMMA PositionsStay ==
    ASSUME FilesOK, NEW at \in Accounts, PositionsOK(at), FilesGrow
    PROVE  PositionsOK(at)'
  <1>1. DOMAIN at.book.open \in SUBSET Symbols
    BY AccountsParts
  <1> QED
    BY <1>1 DEF PositionsOK, FilesGrow

-----------------------------------------------------------------------------
(* What is charged.                                                         *)

\* A row charges what is due in its window and nothing else; in the JSONL lane,
\* where it is no stub, not nothing.
ChargedOK(at) ==
    \A r \in at.rows.funding :
        /\ r.from < r.to
        /\ r.events \subseteq Charged(source.settled[r.symbol], r.from, r.to)
        /\ (lane = "jsonl" /\ ~r.stub) => r.events # {}

LEMMA ChargesStay ==
    ASSUME FilesOK, NEW at \in Accounts, ChargedOK(at), FilesGrow
    PROVE  ChargedOK(at)'
  BY DEF ChargedOK, FilesGrow

\* A position's window reaches back a whole interval: its fill is a bar, so it
\* is not inside it.
LEMMA WindowIsAnInterval ==
    ASSUME FilesOK, NEW open, ArePositions(open), NEW t \in Bars
    PROVE  \A r \in BarRows(open, t) :
              /\ r.from = t - Interval /\ open[r.symbol].filled <= t - Interval
              /\ r.from \in Int /\ t \in Int
  <1> SUFFICES ASSUME NEW r \in BarRows(open, t)
               PROVE  /\ r.from = t - Interval /\ open[r.symbol].filled <= t - Interval
                      /\ r.from \in Int /\ t \in Int
    OBVIOUS
  <1>1. /\ r.symbol \in DOMAIN open /\ r.from = WindowStart(open[r.symbol], t)
        /\ r.from < t
    BY BarWindows
  <1>2. /\ t - Interval \in Int /\ open[r.symbol].filled \in Int
        /\ WindowStart(open[r.symbol], t) =
             IF t - Interval >= open[r.symbol].filled THEN t - Interval
             ELSE open[r.symbol].filled
    BY <1>1, WindowTimes
  <1>3. open[r.symbol].filled \in Bars
    BY <1>1 DEF ArePositions, Position
  <1>4. open[r.symbol].filled < t => open[r.symbol].filled <= t - Interval
    BY <1>3, BarsApart
  <1>5. t \in Int
    BY BarsApart
  <1> QED
    BY <1>1, <1>2, <1>4, <1>5

LEMMA BookingChargesInFull ==
    ASSUME FilesOK, NEW at \in Accounts, PositionsOK(at), ChargedOK(at),
           NEW t \in Eligible, Resolved(at.book.open, t),
           lane = "jsonl" => BatchCovered
    PROVE  ChargedOK(BookBar(at, t))
  <1>o. PICK open : open = at.book.open
    OBVIOUS
  <1>n. PICK new : new = BookBar(at, t)
    OBVIOUS
  <1>1. t \in Bars /\ log[t] \in SUBSET Symbols
    BY LogType DEF Eligible
  <1>2. IsBooked(new, at, open, t)
    BY <1>o, <1>n, <1>1, BookBarFacts
  <1>3. new.rows.funding = at.rows.funding \cup NewFunding(open, t)
    BY <1>2 DEF IsBooked
  <1>4. ArePositions(open)
    BY <1>o, BookedTables
  <1>5. ASSUME NEW r \in BarRows(open, t)
        PROVE  /\ r.from < r.to
               /\ r.events \subseteq Charged(source.settled[r.symbol], r.from, r.to)
               /\ (lane = "jsonl" /\ ~r.stub) => r.events # {}
    <2>1. /\ r.symbol \in DOMAIN open /\ r.to = t /\ r.from = t - Interval /\ r.from < t
          /\ r.events = Charged(rates[r.symbol], r.from, r.to)
      <3>1. /\ r.symbol \in DOMAIN open /\ r.to = t
            /\ r.events = Charged(rates[r.symbol], r.from, r.to)
        BY <1>1, <1>4, BarRowFacts
      <3>2. r.from < t
        BY BarWindows
      <3>3. r.from = t - Interval
        BY <1>1, <1>4, WindowIsAnInterval
      <3> QED
        BY <3>1, <3>2, <3>3
    <2>2. r.symbol \in Symbols
      BY <1>4, <2>1 DEF ArePositions
    <2>3. rates[r.symbol] \subseteq source.settled[r.symbol]
          /\ rates[r.symbol] \subseteq Settlements
      BY <2>2 DEF FilesOK
    <2>4. ASSUME lane = "jsonl" PROVE r.events # {}
      <3>1. open[r.symbol].filled \in prices[r.symbol]
        BY <1>o, <2>1 DEF PositionsOK
      <3>2. r.symbol \in Listed
        BY <2>2, <3>1 DEF Listed
      <3>3. CleanWindow(rates[r.symbol], t - Interval, t)
        BY <2>4, <3>2 DEF BatchCovered
      <3>4. Accepted(rates[r.symbol], t - Interval, t) # {}
        BY <3>3 DEF CleanWindow
      <3>5. IsRows(rates[r.symbol])
        BY <2>3 DEF IsRows, Settlements
      <3>6. r.from \in Int /\ t \in Int
        BY <1>1, <1>4, WindowIsAnInterval
      <3>7. Accepted(rates[r.symbol], t - Interval, t) = Charged(rates[r.symbol], t - Interval, t)
        BY <2>1, <3>5, <3>6, GateAcceptsWhatIsCharged
      <3> QED
        BY <2>1, <3>4, <3>7
    <2> QED
      BY <2>1, <2>3, <2>4 DEF Charged
  <1>6. ASSUME NEW r \in StubRows(Exits(open, t), t)
        PROVE  /\ r.from < r.to
               /\ r.events \subseteq Charged(source.settled[r.symbol], r.from, r.to)
               /\ (lane = "jsonl" /\ ~r.stub) => r.events # {}
    <2>1. /\ r.symbol \in Exits(open, t) /\ r.stub /\ r.from < r.to
          /\ r.events = Charged(rates[r.symbol], r.from, r.to)
      BY <1>o, <1>4, StubRowFacts
    <2>2. r.symbol \in Symbols
      BY <1>4, <2>1 DEF ArePositions, Exits
    <2>3. rates[r.symbol] \subseteq source.settled[r.symbol]
      BY <2>2 DEF FilesOK
    <2> QED
      BY <2>1, <2>3 DEF Charged
  <1>7. ASSUME NEW r \in at.rows.funding
        PROVE  /\ r.from < r.to
               /\ r.events \subseteq Charged(source.settled[r.symbol], r.from, r.to)
               /\ (lane = "jsonl" /\ ~r.stub) => r.events # {}
    BY DEF ChargedOK
  <1> QED
    BY <1>n, <1>3, <1>5, <1>6, <1>7 DEF ChargedOK, NewFunding

\* Where one settlement is due, a row that charges some of it charges it all.
LEMMA OneIsAll ==
    ASSUME NEW due, NEW events, events \subseteq due, IsFiniteSet(due),
           Cardinality(due) = 1, events # {}
    PROVE  events = due
  <1>1. \E x : due = {x}
    BY FS_Singleton
  <1> QED
    BY <1>1

-----------------------------------------------------------------------------
(* What the engine carries and what it leaves behind.                       *)

UpTo(rows, bar) == {r \in rows : r.bar <= bar}
Since(rows, s, entry) == {r \in Of(s, rows) : entry < r.bar}
Between(rows, s, entry, exit) == {r \in Of(s, rows) : entry < r.bar /\ r.bar <= exit}

NothingAhead(at) ==
    /\ \A r \in at.rows.funding : r.bar <= at.book.watermark
    /\ \A e \in at.rows.equity : e.bar <= at.book.watermark
    /\ \A trade \in at.rows.trades : trade.exit <= at.book.watermark

BooksOK(at) ==
    /\ FiniteRows(at.rows.funding)
    /\ NothingAhead(at)
    /\ at.book.funding = Amount(at.rows.funding)
    /\ \A e \in at.rows.equity : e.funding = Amount(UpTo(at.rows.funding, e.bar))
    /\ \A trade \in at.rows.trades :
          trade.charged = Amount(Between(at.rows.funding, trade.symbol, trade.entry, trade.exit))
    /\ \A s \in DOMAIN at.book.open :
          at.book.open[s].charged = Amount(Since(at.rows.funding, s, at.book.open[s].entered))

\* What bar t adds to rows of bars before it.
LEMMA RowsOfOneBar ==
    ASSUME NEW old, NEW add, NEW w \in Int, NEW t \in Int, w < t,
           \A r \in old : r.bar \in Int /\ r.bar <= w,
           \A r \in add : r.bar = t
    PROVE  /\ old \cap add = {}
           /\ UpTo(old \cup add, t) = old \cup add
           /\ \A b \in Int : b <= w => UpTo(old \cup add, b) = UpTo(old, b)
           /\ \A s : \A a, b \in Int : b <= w => Between(old \cup add, s, a, b) = Between(old, s, a, b)
           /\ \A s : \A a \in Int : a <= w =>
                 /\ Since(old \cup add, s, a) = Since(old, s, a) \cup Of(s, add)
                 /\ Between(old \cup add, s, a, t) = Since(old, s, a) \cup Of(s, add)
           /\ \A s : Since(old \cup add, s, t) = {}
  <1>1. \A r \in old : r.bar \in Int /\ r.bar <= w /\ r.bar < t /\ r.bar <= t
    OBVIOUS
  <1>2. old \cap add = {}
    BY <1>1
  <1>3. UpTo(old \cup add, t) = old \cup add
    BY <1>1 DEF UpTo
  <1>4. ASSUME NEW b \in Int, b <= w PROVE UpTo(old \cup add, b) = UpTo(old, b)
    BY <1>1, <1>4 DEF UpTo
  <1>5. ASSUME NEW s, NEW a \in Int, NEW b \in Int, b <= w
        PROVE  Between(old \cup add, s, a, b) = Between(old, s, a, b)
    BY <1>1, <1>5 DEF Between, Of
  <1>6. ASSUME NEW s, NEW a \in Int, a <= w
        PROVE  /\ Since(old \cup add, s, a) = Since(old, s, a) \cup Of(s, add)
               /\ Between(old \cup add, s, a, t) = Since(old, s, a) \cup Of(s, add)
    <2>1. \A r \in add : a < r.bar /\ r.bar <= t
      BY <1>6
    <2> QED
      BY <1>1, <2>1 DEF Since, Between, Of
  <1>7. ASSUME NEW s PROVE Since(old \cup add, s, t) = {}
    <2>1. \A r \in old \cup add : ~(t < r.bar)
      BY <1>1
    <2>2. Of(s, old \cup add) \subseteq old \cup add
      BY DEF Of
    <2> QED
      BY <2>1, <2>2 DEF Since
  <1> QED
    BY <1>2, <1>3, <1>4, <1>5, <1>6, <1>7

\* The charge of a position in a bar is added to what it was charged before.
LEMMA ChargeAddsUp ==
    ASSUME NEW old, NEW add, FiniteRows(old), FiniteRows(add), old \cap add = {}, NEW s, NEW a
    PROVE  Amount(Since(old, s, a) \cup Of(s, add)) = Amount(Since(old, s, a)) + Amount(Of(s, add))
  <1>1. Since(old, s, a) \in SUBSET old /\ Of(s, add) \in SUBSET add
    BY DEF Since, Of
  <1>2. FiniteRows(Since(old, s, a)) /\ FiniteRows(Of(s, add))
    BY <1>1, FewerRows
  <1>3. Since(old, s, a) \cap Of(s, add) = {}
    BY <1>1
  <1> QED
    BY <1>2, <1>3, AmountsAddUp

LEMMA NoRowsNoAmount == Amount({}) = 0
  <1>1. UNION {{r} \X r.events : r \in {}} = {}
    OBVIOUS
  <1> QED
    BY <1>1, FS_EmptySet DEF Amount

LEMMA BookingKeepsBooks ==
    ASSUME FilesOK, NEW at \in Accounts, PositionsOK(at), BooksOK(at),
           NEW t \in Eligible, t > at.book.watermark, Resolved(at.book.open, t)
    PROVE  BooksOK(BookBar(at, t))
  <1>o. PICK open : open = at.book.open
    OBVIOUS
  <1>n. PICK new : new = BookBar(at, t)
    OBVIOUS
  <1>p. PICK old : old = at.rows.funding
    OBVIOUS
  <1>q. PICK add : add = NewFunding(open, t)
    OBVIOUS
  <1>w. PICK w : w = at.book.watermark
    OBVIOUS
  <1>1. t \in Bars /\ log[t] \in SUBSET Symbols /\ t \in Int
    BY LogType, BarsApart DEF Eligible
  <1>2. IsBooked(new, at, open, t)
    BY <1>o, <1>n, <1>1, BookBarFacts
  <1>3. /\ new.book.watermark = t
        /\ new.book.funding = at.book.funding + Amount(add)
        /\ DOMAIN new.book.open = log[t]
        /\ new.rows.funding = old \cup add
    BY <1>2, <1>p, <1>q DEF IsBooked
  <1>4. /\ new.rows.trades = at.rows.trades \cup
              {[symbol |-> s, entry |-> open[s].entered, exit |-> t,
                charged |-> Accrued(open, s, t)] : s \in Exits(open, t)}
        /\ new.rows.equity = at.rows.equity \cup
              {[bar |-> t, open |-> DOMAIN open,
                funding |-> EquityFunding(at.book.funding, BarRows(open, t),
                                          StubRows(Exits(open, t), t))]}
    BY <1>2 DEF IsBooked
  <1>5. ArePositions(open)
    BY <1>o, BookedTables
  <1>6. /\ w \in Int /\ w < t /\ at.book.funding \in Nat
        /\ old \subseteq FundingTable /\ at.rows.trades \subseteq TradeTable
        /\ at.rows.equity \subseteq EquityTable
    BY <1>p, <1>w, <1>1, AccountsParts
  <1>7. /\ \A r \in add : r.bar = t
        /\ FiniteRows(add) /\ FiniteRows(old)
        /\ FiniteRows(BarRows(open, t)) /\ FiniteRows(StubRows(Exits(open, t), t))
        /\ BarRows(open, t) \cap StubRows(Exits(open, t), t) = {}
    BY <1>o, <1>p, <1>q, <1>5, NewFundingFinite DEF BooksOK
  <1>8. \A r \in old : r.bar \in Int /\ r.bar <= w
    <2>1. \A r \in old : r.bar <= w
      BY <1>p, <1>w DEF BooksOK, NothingAhead
    <2>2. \A r \in old : r.bar \in Bars
      BY <1>6 DEF FundingTable
    <2> QED
      BY <2>1, <2>2, BarsApart
  <1>9. /\ old \cap add = {}
        /\ UpTo(old \cup add, t) = old \cup add
        /\ \A b \in Int : b <= w => UpTo(old \cup add, b) = UpTo(old, b)
        /\ \A s : \A a, b \in Int : b <= w => Between(old \cup add, s, a, b) = Between(old, s, a, b)
        /\ \A s : \A a \in Int : a <= w =>
              /\ Since(old \cup add, s, a) = Since(old, s, a) \cup Of(s, add)
              /\ Between(old \cup add, s, a, t) = Since(old, s, a) \cup Of(s, add)
        /\ \A s : Since(old \cup add, s, t) = {}
    BY <1>1, <1>6, <1>7, <1>8, RowsOfOneBar
  <1>10. FiniteRows(old \cup add) /\ Amount(old \cup add) = Amount(old) + Amount(add)
    BY <1>7, <1>9, AmountsAddUp
  <1>11. at.book.funding = Amount(old)
    BY <1>p DEF BooksOK
  <1>12. new.book.funding = Amount(new.rows.funding)
    BY <1>3, <1>10, <1>11
  <1>13. NothingAhead(new)
    <2>1. \A r \in new.rows.funding : r.bar <= t
      BY <1>1, <1>3, <1>6, <1>7, <1>8
    <2>2. \A e \in at.rows.equity : e.bar <= t
      <3>1. \A e \in at.rows.equity : e.bar <= w /\ e.bar \in Bars
        BY <1>6, <1>w DEF BooksOK, NothingAhead, EquityTable
      <3>2. \A e \in at.rows.equity : e.bar \in Int
        BY <3>1, BarsApart
      <3> QED
        BY <1>1, <1>6, <3>1, <3>2
    <2>3. \A trade \in at.rows.trades : trade.exit <= t
      <3>1. \A trade \in at.rows.trades : trade.exit <= w /\ trade.exit \in Bars
        BY <1>6, <1>w DEF BooksOK, NothingAhead, TradeTable
      <3>2. \A trade \in at.rows.trades : trade.exit \in Int
        BY <3>1, BarsApart
      <3> QED
        BY <1>1, <1>6, <3>1, <3>2
    <2>4. \A e \in new.rows.equity : e.bar <= t
      BY <1>1, <1>4, <2>2
    <2>5. \A trade \in new.rows.trades : trade.exit <= t
      BY <1>1, <1>4, <2>3
    <2> QED
      BY <1>3, <2>1, <2>4, <2>5 DEF NothingAhead
  <1>14. \A s \in DOMAIN open :
            /\ open[s].charged = Amount(Since(old, s, open[s].entered))
            /\ open[s].entered \in Int /\ open[s].entered <= w
    <2> SUFFICES ASSUME NEW s \in DOMAIN open
                 PROVE  /\ open[s].charged = Amount(Since(old, s, open[s].entered))
                        /\ open[s].entered \in Int /\ open[s].entered <= w
      OBVIOUS
    <2>1. open[s].entered \in Bars
      BY <1>5 DEF ArePositions, Position
    <2>2. open[s].entered <= w
      BY <1>o, <1>w DEF PositionsOK
    <2>3. open[s].charged = Amount(Since(old, s, open[s].entered))
      BY <1>o, <1>p DEF BooksOK
    <2> QED
      BY <2>1, <2>2, <2>3, BarsApart
  <1>15. \A s \in DOMAIN open :
            Accrued(open, s, t) = Amount(Since(old, s, open[s].entered) \cup Of(s, add))
    BY <1>7, <1>9, <1>14, <1>q, ChargeAddsUp DEF Accrued
  <1>16. ASSUME NEW e \in new.rows.equity
         PROVE  e.funding = Amount(UpTo(new.rows.funding, e.bar))
    <2>1. CASE e \in at.rows.equity
      <3>1. e.bar <= w /\ e.bar \in Bars
        BY <2>1, <1>6, <1>w DEF BooksOK, NothingAhead, EquityTable
      <3>2. e.funding = Amount(UpTo(old, e.bar))
        BY <2>1, <1>p DEF BooksOK
      <3>3. e.bar \in Int
        BY <3>1, BarsApart
      <3> QED
        BY <1>3, <1>9, <3>1, <3>2, <3>3
    <2>2. CASE e \notin at.rows.equity
      <3>1. /\ e.bar = t
            /\ e.funding = EquityFunding(at.book.funding, BarRows(open, t),
                                         StubRows(Exits(open, t), t))
        BY <1>4, <2>2
      <3>2. Amount(add) = Amount(BarRows(open, t)) + Amount(StubRows(Exits(open, t), t))
        BY <1>7, <1>q, AmountsAddUp DEF NewFunding
      <3>3. /\ Amount(BarRows(open, t)) \in Nat /\ Amount(StubRows(Exits(open, t), t)) \in Nat
            /\ Amount(old) \in Nat
        BY <1>7, AmountIsNumber
      <3>4. e.funding = Amount(old) + Amount(add)
        BY <1>11, <3>1, <3>2, <3>3 DEF EquityFunding
      <3> QED
        BY <1>3, <1>9, <1>10, <3>1, <3>4
    <2> QED
      BY <2>1, <2>2
  <1>17. ASSUME NEW trade \in new.rows.trades
         PROVE  trade.charged =
                  Amount(Between(new.rows.funding, trade.symbol, trade.entry, trade.exit))
    <2>1. CASE trade \in at.rows.trades
      <3>1. trade.exit <= w /\ trade.exit \in Bars /\ trade.entry \in Bars
        BY <2>1, <1>6, <1>w DEF BooksOK, NothingAhead, TradeTable
      <3>2. trade.charged = Amount(Between(old, trade.symbol, trade.entry, trade.exit))
        BY <2>1, <1>p DEF BooksOK
      <3>3. trade.exit \in Int /\ trade.entry \in Int
        BY <3>1, BarsApart
      <3>4. Between(old \cup add, trade.symbol, trade.entry, trade.exit)
              = Between(old, trade.symbol, trade.entry, trade.exit)
        BY <1>9, <3>1, <3>3
      <3> QED
        BY <1>3, <3>2, <3>4
    <2>2. CASE trade \notin at.rows.trades
      <3>1. PICK s \in Exits(open, t) :
               trade = [symbol |-> s, entry |-> open[s].entered, exit |-> t,
                        charged |-> Accrued(open, s, t)]
        BY <1>4, <2>2
      <3>2. s \in DOMAIN open
        BY DEF Exits
      <3>3. Between(old \cup add, s, open[s].entered, t)
              = Since(old, s, open[s].entered) \cup Of(s, add)
        BY <1>9, <1>14, <3>2
      <3> QED
        BY <1>3, <1>15, <3>1, <3>2, <3>3
    <2> QED
      BY <2>1, <2>2
  <1>18. ASSUME NEW s \in DOMAIN new.book.open
         PROVE  new.book.open[s].charged =
                  Amount(Since(new.rows.funding, s, new.book.open[s].entered))
    <2>1. CASE s \in DOMAIN open
      <3>1. new.book.open[s] = [open[s] EXCEPT !.charged = Accrued(open, s, t)]
        BY <1>2, <1>3, <2>1 DEF IsBooked
      <3>2. /\ new.book.open[s].charged = Accrued(open, s, t)
            /\ new.book.open[s].entered = open[s].entered
        BY <1>5, <2>1, <3>1 DEF ArePositions, Position
      <3>3. Since(old \cup add, s, open[s].entered)
              = Since(old, s, open[s].entered) \cup Of(s, add)
        BY <1>9, <1>14, <2>1
      <3> QED
        BY <1>3, <1>15, <2>1, <3>2, <3>3
    <2>2. CASE s \notin DOMAIN open
      <3>1. new.book.open[s] = [entered |-> t, filled |-> FillAt(s, t), charged |-> 0]
        BY <1>2, <1>3, <2>2 DEF IsBooked
      <3> QED
        BY <1>3, <1>9, <3>1, NoRowsNoAmount
    <2> QED
      BY <2>1, <2>2
  <1>19. FiniteRows(new.rows.funding)
    BY <1>3, <1>10
  <1> QED
    BY <1>n, <1>12, <1>13, <1>16, <1>17, <1>18, <1>19 DEF BooksOK

LEMMA BooksStay ==
    ASSUME FilesOK, NEW at \in Accounts, BooksOK(at), FilesGrow
    PROVE  BooksOK(at)'
  BY DEF BooksOK

-----------------------------------------------------------------------------
(* What is held and what is charged for.                                    *)

\* The bar of the exchange behind bar t.
IsNext(s, t, u) ==
    /\ u \in Bars \ source.holes[s] /\ t < u
    /\ \A v \in Bars \ source.holes[s] : t < v => u <= v

FillIn(at, s, t, kind) ==
    (CHOOSE f \in at.rows.fills : f.symbol = s /\ f.bar = t /\ f.kind = kind).at
TicksOf(at, s, trades) ==
    UNION {Ticks(FillIn(at, s, trade.entry, "entry"), FillIn(at, s, trade.exit, "exit")) :
              trade \in trades}
TradesHeld(at, s) == TicksOf(at, s, Of(s, at.rows.trades))
HeldIn(at, s) ==
    TradesHeld(at, s)
    \cup (IF s \in DOMAIN at.book.open
          THEN Ticks(at.book.open[s].filled, at.book.watermark) ELSE {})
BookedIn(at) == {e.bar : e \in at.rows.equity}
SkippedIn(at) ==
    {x \in 1..Horizon : \E t \in BookedIn(at) :
        /\ \E u \in BookedIn(at) : u < x
        /\ x <= t - Interval
        /\ ~\E u \in BookedIn(at) : x <= u /\ u < t}
Covered(rows) == UNION {Ticks(r.from, r.to) : r \in rows}
Apart(rows) == \A r, q \in rows : r # q => Ticks(r.from, r.to) \cap Ticks(q.from, q.to) = {}
TiledIn(at, s) ==
    /\ Apart(Of(s, at.rows.funding))
    /\ Covered(Of(s, at.rows.funding)) \subseteq HeldIn(at, s)
    /\ HeldIn(at, s) \subseteq Covered(Of(s, at.rows.funding)) \cup SkippedIn(at)

\* No window ends behind what comes next: the watermark or the fill of an open
\* position, or any bar at which a symbol that is not held could be bought.
EndsOK(at, s) ==
    \A r \in Of(s, at.rows.funding) :
        IF s \in DOMAIN at.book.open
        THEN r.to <= at.book.watermark \/ r.to <= at.book.open[s].filled
        ELSE \A v \in Bars \ source.holes[s] : at.book.watermark < v => r.to <= v

\* Every entry and every exit has its fill.
FillsThere(at) ==
    /\ \A s \in DOMAIN at.book.open :
          \E f \in at.rows.fills : /\ f.symbol = s /\ f.bar = at.book.open[s].entered
                                   /\ f.kind = "entry" /\ f.at = at.book.open[s].filled
    /\ \A trade \in at.rows.trades :
          /\ \E f \in at.rows.fills : f.symbol = trade.symbol /\ f.bar = trade.entry /\ f.kind = "entry"
          /\ \E f \in at.rows.fills : f.symbol = trade.symbol /\ f.bar = trade.exit /\ f.kind = "exit"

HeldOK(at) ==
    /\ at.book.watermark # NoBar => at.book.watermark \in BookedIn(at)
    /\ FillsThere(at)
    /\ \A f \in at.rows.fills : f.symbol \notin refilled => IsNext(f.symbol, f.bar, f.at)
    /\ \A s \in Symbols \ refilled : EndsOK(at, s) /\ TiledIn(at, s)

LEMMA HeldStays ==
    ASSUME FilesOK, NEW at \in Accounts, HeldOK(at), FilesGrow
    PROVE  HeldOK(at)'
  <1>1. \A s \in Symbols \ refilled' : s \in Symbols \ refilled /\ source'.holes[s] = source.holes[s]
    BY DEF FilesGrow
  <1>2. \A f \in at.rows.fills : f.symbol \in Symbols
    BY AccountsParts DEF FillTable
  <1>3. \A f \in at.rows.fills : f.symbol \notin refilled' => IsNext(f.symbol, f.bar, f.at)'
    BY <1>1, <1>2 DEF IsNext, HeldOK
  <1>4. \A s \in Symbols \ refilled' : EndsOK(at, s)' /\ TiledIn(at, s)
    BY <1>1 DEF HeldOK, EndsOK
  <1> QED
    BY <1>3, <1>4 DEF HeldOK, FillsThere, TiledIn, BookedIn

\* A step of a tiling: old windows and what they cover, and windows that come
\* behind them.
LEMMA TilingGrows ==
    ASSUME NEW old, NEW add, NEW held, NEW heldNow, NEW skipped, NEW skippedNow,
           \A r \in old \cup add : r.from \in Int /\ r.to \in Int,
           Apart(old), Covered(old) \subseteq held, held \subseteq Covered(old) \cup skipped,
           skipped \subseteq skippedNow, held \subseteq heldNow,
           Apart(add), \A r \in old, q \in add : r.to <= q.from,
           Covered(add) \subseteq heldNow, heldNow \ held \subseteq Covered(add) \cup skippedNow
    PROVE  /\ Apart(old \cup add)
           /\ Covered(old \cup add) \subseteq heldNow
           /\ heldNow \subseteq Covered(old \cup add) \cup skippedNow
  <1>1. Covered(old \cup add) = Covered(old) \cup Covered(add)
    BY DEF Covered
  <1>2. ASSUME NEW r \in old, NEW q \in add PROVE Ticks(r.from, r.to) \cap Ticks(q.from, q.to) = {}
    <2>1. r.to \in Int /\ q.from \in Int /\ r.to <= q.from /\ r.from \in Int /\ q.to \in Int
      OBVIOUS
    <2>2. \A x \in Ticks(r.from, r.to) : x \in Int /\ x <= r.to
      BY <2>1 DEF Ticks
    <2>3. \A x \in Ticks(q.from, q.to) : x \in Int /\ q.from < x
      BY <2>1 DEF Ticks
    <2>4. \A x \in Ticks(r.from, r.to) : x \notin Ticks(q.from, q.to)
      BY <2>1, <2>2, <2>3
    <2> QED
      BY <2>4
  <1>3. Apart(old \cup add)
    <2> SUFFICES ASSUME NEW r \in old \cup add, NEW q \in old \cup add, r # q
                 PROVE  Ticks(r.from, r.to) \cap Ticks(q.from, q.to) = {}
      BY DEF Apart
    <2>1. CASE r \in old /\ q \in old
      BY <2>1 DEF Apart
    <2>2. CASE r \in add /\ q \in add
      BY <2>2 DEF Apart
    <2>3. CASE r \in old /\ q \in add
      BY <2>3, <1>2
    <2>4. CASE r \in add /\ q \in old
      BY <2>4, <1>2
    <2> QED
      BY <2>1, <2>2, <2>3, <2>4
  <1> QED
    BY <1>1, <1>3

\* A fill is at the bar of the exchange behind the bar that decided it.
LEMMA FillIsNext ==
    ASSUME FilesOK, NEW s \in Symbols \ refilled, NEW t \in Bars, NextBars(s, t) # {}
    PROVE  IsNext(s, t, FillAt(s, t)) /\ t \in Bars \ source.holes[s]
  <1>1. /\ t \in prices[s] /\ FillAt(s, t) \in prices[s]
        /\ FirstBehind(s, t, FillAt(s, t))
    BY FillAtFacts
  <1>2. prices[s] \subseteq Bars \ source.holes[s]
    BY DEF FilesOK, Served
  <1> QED
    BY <1>1, <1>2 DEF IsNext, FirstBehind

LEMMA OneNext ==
    ASSUME NEW s, NEW t, NEW u, NEW v, IsNext(s, t, u), IsNext(s, t, v)
    PROVE  u = v
  <1>1. u \in Bars /\ v \in Bars /\ u <= v /\ v <= u
    BY DEF IsNext
  <1>2. u \in Int /\ v \in Int
    BY <1>1, BarsApart
  <1> QED
    BY <1>1, <1>2

\* Hence any fill there is of an entry or an exit says when it was.
LEMMA FillInIs ==
    ASSUME NEW at, NEW s, s \notin refilled,
           \A f \in at.rows.fills : f.symbol \notin refilled => IsNext(f.symbol, f.bar, f.at),
           NEW f \in at.rows.fills, f.symbol = s
    PROVE  FillIn(at, s, f.bar, f.kind) = f.at
  <1> DEFINE g == CHOOSE x \in at.rows.fills : x.symbol = s /\ x.bar = f.bar /\ x.kind = f.kind
  <1>1. g \in at.rows.fills /\ g.symbol = s /\ g.bar = f.bar /\ g.kind = f.kind
    OBVIOUS
  <1>2. FillIn(at, s, f.bar, f.kind) = g.at
    BY DEF FillIn
  <1> HIDE DEF g
  <1>3. IsNext(s, f.bar, g.at) /\ IsNext(s, f.bar, f.at)
    BY <1>1
  <1> QED
    BY <1>2, <1>3, OneNext

\* The trades that were there are held as they were; the one an exit adds is
\* held from the fill of the position to the fill of the exit.
LEMMA TradesHeldGrow ==
    ASSUME NEW at, NEW new, NEW s, s \notin refilled,
           \A f \in new.rows.fills : f.symbol \notin refilled => IsNext(f.symbol, f.bar, f.at),
           at.rows.fills \subseteq new.rows.fills, FillsThere(at),
           NEW added, Of(s, new.rows.trades) = Of(s, at.rows.trades) \cup added
    PROVE  TradesHeld(new, s) = TradesHeld(at, s) \cup TicksOf(new, s, added)
  <1>1. ASSUME NEW trade \in Of(s, at.rows.trades)
        PROVE  /\ FillIn(new, s, trade.entry, "entry") = FillIn(at, s, trade.entry, "entry")
               /\ FillIn(new, s, trade.exit, "exit") = FillIn(at, s, trade.exit, "exit")
    <2>1. trade \in at.rows.trades /\ trade.symbol = s
      BY DEF Of
    <2>2. PICK f \in at.rows.fills : f.symbol = s /\ f.bar = trade.entry /\ f.kind = "entry"
      BY <2>1 DEF FillsThere
    <2>3. PICK g \in at.rows.fills : g.symbol = s /\ g.bar = trade.exit /\ g.kind = "exit"
      BY <2>1 DEF FillsThere
    <2>4. \A x \in at.rows.fills : x.symbol \notin refilled => IsNext(x.symbol, x.bar, x.at)
      OBVIOUS
    <2>5. f \in new.rows.fills /\ g \in new.rows.fills
      OBVIOUS
    <2>6. FillIn(at, s, f.bar, f.kind) = f.at /\ FillIn(at, s, g.bar, g.kind) = g.at
      BY <2>2, <2>3, <2>4, FillInIs
    <2>7. FillIn(new, s, f.bar, f.kind) = f.at /\ FillIn(new, s, g.bar, g.kind) = g.at
      BY <2>2, <2>3, <2>5, FillInIs
    <2> QED
      BY <2>2, <2>3, <2>6, <2>7
  <1> QED
    BY <1>1 DEF TradesHeld, TicksOf

\* What was skipped stays so; and so is now what lies between the watermark and
\* the interval of the bar.
LEMMA SkippedGrow ==
    ASSUME NEW at, NEW new, NEW w \in Int, NEW t \in Bars, w < t,
           \A u \in BookedIn(at) : u \in Int /\ u <= w,
           BookedIn(new) = BookedIn(at) \cup {t}
    PROVE  /\ SkippedIn(at) \subseteq SkippedIn(new)
           /\ (w \in BookedIn(at) /\ w \in Nat) =>
                 \A x \in Int : w < x /\ x <= t - Interval => x \in SkippedIn(new)
  <1>1. t \in Int /\ t \in Nat /\ Horizon \in Nat /\ Interval \in Nat /\ t <= Horizon
    BY EngineAssumption, BarsApart DEF Bars
  <1>2. ASSUME NEW x \in SkippedIn(at) PROVE x \in SkippedIn(new)
    <2>1. x \in 1..Horizon /\ x \in Int
      BY <1>1 DEF SkippedIn
    <2>2. PICK v \in BookedIn(at) :
             /\ \E u \in BookedIn(at) : u < x
             /\ x <= v - Interval
             /\ ~\E u \in BookedIn(at) : x <= u /\ u < v
      BY DEF SkippedIn
    <2>3. v \in Int /\ v < t
      BY <1>1
    <2>4. ~\E u \in BookedIn(at) \cup {t} : x <= u /\ u < v
      BY <1>1, <2>2, <2>3
    <2> QED
      BY <2>1, <2>2, <2>4 DEF SkippedIn
  <1>3. ASSUME w \in BookedIn(at), w \in Nat, NEW x \in Int, w < x, x <= t - Interval
        PROVE  x \in SkippedIn(new)
    <2>1. x \in 1..Horizon
      BY <1>1, <1>3
    <2>2. ~\E u \in BookedIn(at) \cup {t} : x <= u /\ u < t
      <3> SUFFICES ASSUME NEW u \in BookedIn(at) \cup {t}, x <= u, u < t PROVE FALSE
        OBVIOUS
      <3>1. u \in BookedIn(at)
        BY <1>1
      <3>2. u \in Int /\ u <= w
        BY <3>1
      <3> QED
        BY <1>3, <3>2
    <2>3. w \in BookedIn(new) /\ t \in BookedIn(new)
      BY <1>3
    <2> QED
      BY <1>3, <2>1, <2>2, <2>3 DEF SkippedIn
  <1> QED
    BY <1>2, <1>3

\* The windows bar t adds for a symbol: the interval before it, where the
\* position was filled by then, and the stub of an exit.
LEMMA WindowsOfABar ==
    ASSUME FilesOK, NEW open, ArePositions(open),
           NEW t \in Eligible, Resolved(open, t), NEW s
    PROVE  /\ \A r \in Of(s, NewFunding(open, t)) :
                 /\ s \in DOMAIN open /\ r.from \in Int /\ r.to \in Int
                 /\ \/ r.from = t - Interval /\ r.to = t /\ open[s].filled <= t - Interval
                    \/ s \in Exits(open, t) /\ r.from = t /\ r.to = FillAt(s, t)
           /\ \A r, q \in Of(s, NewFunding(open, t)) : r.from = q.from => r = q
           /\ (s \in DOMAIN open /\ open[s].filled < t) =>
                 \E r \in Of(s, NewFunding(open, t)) : r.from = t - Interval /\ r.to = t
           /\ s \in Exits(open, t) =>
                 \E r \in Of(s, NewFunding(open, t)) : r.from = t /\ r.to = FillAt(s, t)
  <1>1. t \in Bars /\ t \in Int /\ Interval \in Nat \ {0} /\ t - Interval \in Int /\ t - Interval < t
    <2>1. t \in Bars
      BY LogType DEF Eligible
    <2>2. t \in Int /\ Interval \in Nat \ {0}
      BY <2>1, BarsApart, EngineAssumption
    <2> QED
      BY <2>1, <2>2
  <1>2. Exits(open, t) \subseteq DOMAIN open
    BY DEF Exits
  <1>3. \A r \in BarRows(open, t) :
           /\ r.symbol \in DOMAIN open /\ r.from = t - Interval /\ r.to = t
           /\ open[r.symbol].filled <= t - Interval
    BY <1>1, WindowIsAnInterval, BarWindows
  <1>4. \A r \in StubRows(Exits(open, t), t) :
           /\ r \in FundingTable /\ r.symbol \in Exits(open, t)
           /\ r.from = t /\ r.to = FillAt(r.symbol, t)
    BY StubRowFacts
  <1>5. \A r \in StubRows(Exits(open, t), t) : r.to \in Int
    <2>1. \A r \in StubRows(Exits(open, t), t) : r.to \in Bars
      BY <1>4 DEF FundingTable
    <2> QED
      BY <2>1, BarsApart
  <1>6. \A r \in Of(s, NewFunding(open, t)) :
           r.symbol = s /\ (r \in BarRows(open, t) \/ r \in StubRows(Exits(open, t), t))
    BY DEF Of, NewFunding
  <1>7. \A r, q \in BarRows(open, t) : r.symbol = q.symbol => r = q
    <2>1. \A r \in BarRows(open, t) :
             r = FundingRow(r.symbol, t, FALSE, WindowStart(open[r.symbol], t), t)
      <3> SUFFICES ASSUME NEW r \in BarRows(open, t)
                   PROVE  r = FundingRow(r.symbol, t, FALSE, WindowStart(open[r.symbol], t), t)
        OBVIOUS
      <3>1. PICK x \in DOMAIN open : r = FundingRow(x, t, FALSE, WindowStart(open[x], t), t)
        BY DEF BarRows
      <3>2. r.symbol = x
        BY <3>1 DEF FundingRow
      <3> QED
        BY <3>1, <3>2
    <2> QED
      BY <2>1
  <1>8. \A r, q \in StubRows(Exits(open, t), t) : r.symbol = q.symbol => r = q
    <2>1. \A r \in StubRows(Exits(open, t), t) :
             r = FundingRow(r.symbol, t, TRUE, t, FillAt(r.symbol, t))
      <3> SUFFICES ASSUME NEW r \in StubRows(Exits(open, t), t)
                   PROVE  r = FundingRow(r.symbol, t, TRUE, t, FillAt(r.symbol, t))
        OBVIOUS
      <3>1. PICK x \in Exits(open, t) : r = FundingRow(x, t, TRUE, t, FillAt(x, t))
        BY DEF StubRows
      <3>2. r.symbol = x
        BY <3>1 DEF FundingRow
      <3> QED
        BY <3>1, <3>2
    <2> QED
      BY <2>1
  <1>9. \A r, q \in Of(s, NewFunding(open, t)) : r.from = q.from => r = q
    BY <1>1, <1>3, <1>4, <1>6, <1>7, <1>8
  <1>10. ASSUME s \in DOMAIN open, open[s].filled < t
         PROVE  \E r \in Of(s, NewFunding(open, t)) : r.from = t - Interval /\ r.to = t
    <2>1. WindowStart(open[s], t) < t
      BY <1>1, <1>10, WindowTimes
    <2>2. PICK r : r = FundingRow(s, t, FALSE, WindowStart(open[s], t), t)
      OBVIOUS
    <2>3. r \in BarRows(open, t)
      BY <1>10, <2>1, <2>2 DEF BarRows
    <2>4. r.symbol = s
      BY <2>2 DEF FundingRow
    <2>5. r \in Of(s, NewFunding(open, t))
      BY <2>3, <2>4 DEF Of, NewFunding
    <2> QED
      BY <1>3, <2>3, <2>5
  <1>11. ASSUME s \in Exits(open, t)
         PROVE  \E r \in Of(s, NewFunding(open, t)) : r.from = t /\ r.to = FillAt(s, t)
    <2>1. PICK r : r = FundingRow(s, t, TRUE, t, FillAt(s, t))
      OBVIOUS
    <2>2. r \in StubRows(Exits(open, t), t)
      BY <1>11, <2>1 DEF StubRows
    <2>3. r.symbol = s
      BY <2>1 DEF FundingRow
    <2>4. r \in Of(s, NewFunding(open, t))
      BY <2>2, <2>3 DEF Of, NewFunding
    <2> QED
      BY <1>4, <2>2, <2>3, <2>4
  <1>12. \A r \in Of(s, NewFunding(open, t)) :
            /\ s \in DOMAIN open /\ r.from \in Int /\ r.to \in Int
            /\ \/ r.from = t - Interval /\ r.to = t /\ open[s].filled <= t - Interval
               \/ s \in Exits(open, t) /\ r.from = t /\ r.to = FillAt(s, t)
    BY <1>1, <1>2, <1>3, <1>4, <1>5, <1>6
  <1> QED
    BY <1>9, <1>10, <1>11, <1>12

\* A position filled at filled is held up to w and then up to end: the windows
\* old are there, add are those of bar t, whose interval begins at start.
HeldOn(old, add, H, skipped, skippedNow, w, t, filled, end, start) ==
    /\ w \in Int /\ t \in Int /\ filled \in Int /\ end \in Int /\ start \in Int
    /\ start < t /\ w <= start
    /\ end = t \/ (filled <= t /\ t < end)
    /\ \A r \in old : r.from \in Int /\ r.to \in Int /\ (r.to <= w \/ r.to <= filled)
    /\ \A r \in add : \/ r.from = start /\ r.to = t /\ filled <= start
                      \/ r.from = t /\ r.to = end /\ t < end
    /\ \A r, q \in add : r.from = q.from => r = q
    /\ filled < t => \E r \in add : r.from = start /\ r.to = t
    /\ t < end => \E r \in add : r.from = t /\ r.to = end
    /\ Apart(old) /\ Covered(old) \subseteq H \cup Ticks(filled, w)
    /\ H \cup Ticks(filled, w) \subseteq Covered(old) \cup skipped
    /\ skipped \subseteq skippedNow
    /\ \A x \in Int : w < x /\ x <= start => x \in skippedNow

\* What a position was charged for grows with the time it is held: by the
\* interval of the bar and, where it ends, by its stub.
LEMMA PositionTiles ==
    ASSUME NEW old, NEW add, NEW H, NEW skipped, NEW skippedNow, NEW w, NEW t, NEW filled,
           NEW end, NEW start,
           HeldOn(old, add, H, skipped, skippedNow, w, t, filled, end, start)
    PROVE  /\ Apart(old \cup add)
           /\ Covered(old \cup add) \subseteq H \cup Ticks(filled, end)
           /\ H \cup Ticks(filled, end) \subseteq Covered(old \cup add) \cup skippedNow
  <1> USE DEF HeldOn
  <1>1. t <= end
    OBVIOUS
  <1>2. \A r \in add : r.from \in Int /\ r.to \in Int /\ r.from < r.to /\ filled <= r.from
                       /\ w <= r.from /\ r.to <= end
    BY <1>1
  <1>3. \A r \in old, q \in add : r.to <= q.from
    BY <1>2
  <1>4. Apart(add)
    <2> SUFFICES ASSUME NEW r \in add, NEW q \in add, r # q
                 PROVE  Ticks(r.from, r.to) \cap Ticks(q.from, q.to) = {}
      BY DEF Apart
    <2>1. r.from # q.from
      OBVIOUS
    <2>2. \/ r.to <= q.from
          \/ q.to <= r.from
      BY <1>2, <2>1
    <2>3. \A x \in Ticks(r.from, r.to) : x \in Int /\ r.from < x /\ x <= r.to
      BY <1>2 DEF Ticks
    <2>4. \A x \in Ticks(q.from, q.to) : x \in Int /\ q.from < x /\ x <= q.to
      BY <1>2 DEF Ticks
    <2>5. \A x \in Ticks(r.from, r.to) : x \notin Ticks(q.from, q.to)
      BY <1>2, <2>2, <2>3, <2>4
    <2> QED
      BY <2>5
  <1>5. Ticks(filled, w) \subseteq Ticks(filled, end)
    BY <1>1 DEF Ticks
  <1>6. Covered(add) \subseteq H \cup Ticks(filled, end)
    <2>1. ASSUME NEW r \in add PROVE Ticks(r.from, r.to) \subseteq Ticks(filled, end)
      BY <1>2 DEF Ticks
    <2> QED
      BY <2>1 DEF Covered
  <1>7. ASSUME NEW x \in Ticks(filled, end), x \notin Ticks(filled, w)
        PROVE  x \in Covered(add) \cup skippedNow
    <2>1. x \in Int /\ filled < x /\ x <= end
      BY DEF Ticks
    <2>2. w < x
      BY <1>7, <2>1 DEF Ticks
    <2>3. CASE x <= start
      BY <2>1, <2>2, <2>3
    <2>4. CASE start < x /\ x <= t
      <3>1. filled < t
        BY <2>1, <2>4
      <3>2. PICK r \in add : r.from = start /\ r.to = t
        BY <3>1
      <3>3. x \in Ticks(r.from, r.to)
        BY <2>1, <2>4, <3>2 DEF Ticks
      <3> QED
        BY <3>3 DEF Covered
    <2>5. CASE t < x
      <3>1. t < end
        BY <2>1, <2>5
      <3>2. PICK r \in add : r.from = t /\ r.to = end
        BY <3>1
      <3>3. x \in Ticks(r.from, r.to)
        BY <2>1, <2>5, <3>2 DEF Ticks
      <3> QED
        BY <3>3 DEF Covered
    <2> QED
      BY <2>1, <2>3, <2>4, <2>5
  <1> DEFINE held == H \cup Ticks(filled, w)
             heldNow == H \cup Ticks(filled, end)
  <1>8. held \subseteq heldNow /\ heldNow \ held \subseteq Covered(add) \cup skippedNow
    BY <1>5, <1>7
  <1>9. Covered(old) \subseteq held /\ held \subseteq Covered(old) \cup skipped
        /\ Covered(add) \subseteq heldNow
    BY <1>6
  <1>10. \A r \in old \cup add : r.from \in Int /\ r.to \in Int
    BY <1>2
  <1>12. Apart(old) /\ skipped \subseteq skippedNow
    OBVIOUS
  <1> HIDE DEF held, heldNow, HeldOn
  <1>11. /\ Apart(old \cup add) /\ Covered(old \cup add) \subseteq heldNow
         /\ heldNow \subseteq Covered(old \cup add) \cup skippedNow
    BY <1>3, <1>4, <1>8, <1>9, <1>10, <1>12, TilingGrows
  <1> QED
    BY <1>11 DEF heldNow

LEMMA BookingKeepsHeld ==
    ASSUME FilesOK, NEW at \in Accounts, PositionsOK(at), BooksOK(at), HeldOK(at),
           NEW t \in Eligible, t > at.book.watermark, Resolved(at.book.open, t)
    PROVE  HeldOK(BookBar(at, t))
  <1>o. PICK open : open = at.book.open
    OBVIOUS
  <1>n. PICK new : new = BookBar(at, t)
    OBVIOUS
  <1>w. PICK w : w = at.book.watermark
    OBVIOUS
  <1>1. /\ t \in Bars /\ log[t] \in SUBSET Symbols /\ t \in Int
        /\ Interval \in Nat \ {0} /\ t - Interval \in Int /\ t - Interval < t
    <2>1. t \in Bars /\ log[t] \in SUBSET Symbols
      BY LogType DEF Eligible
    <2>2. t \in Int /\ Interval \in Nat \ {0}
      BY <2>1, BarsApart, EngineAssumption
    <2> QED
      BY <2>1, <2>2
  <1>2. IsBooked(new, at, open, t)
    BY <1>o, <1>n, <1>1, BookBarFacts
  <1>3. /\ new.book.watermark = t /\ DOMAIN new.book.open = log[t]
        /\ new.rows.funding = at.rows.funding \cup NewFunding(open, t)
        /\ new.rows.fills = at.rows.fills \cup (Fills(Exits(open, t), t, "exit")
                                                \cup Fills(Entries(open, t), t, "entry"))
    BY <1>2 DEF IsBooked
  <1>4. /\ new.rows.trades = at.rows.trades \cup
              {[symbol |-> s, entry |-> open[s].entered, exit |-> t,
                charged |-> Accrued(open, s, t)] : s \in Exits(open, t)}
        /\ new.rows.equity = at.rows.equity \cup
              {[bar |-> t, open |-> DOMAIN open,
                funding |-> EquityFunding(at.book.funding, BarRows(open, t),
                                          StubRows(Exits(open, t), t))]}
    BY <1>2 DEF IsBooked
  <1>5. /\ \A s \in log[t] \ DOMAIN open :
              new.book.open[s] = [entered |-> t, filled |-> FillAt(s, t), charged |-> 0]
        /\ \A s \in log[t] \cap DOMAIN open :
              new.book.open[s] = [open[s] EXCEPT !.charged = Accrued(open, s, t)]
    BY <1>2 DEF IsBooked
  <1>6. ArePositions(open)
    BY <1>o, BookedTables
  <1>d. DOMAIN open \subseteq Symbols
    BY <1>6 DEF ArePositions
  <1>7. /\ \A s \in Entries(open, t) \cup Exits(open, t) : s \in Symbols /\ NextBars(s, t) # {}
        /\ Exits(open, t) \subseteq DOMAIN open
    BY <1>o, <1>d, ActedOnHasNext
  <1>8. w \in Int /\ w < t /\ w \in Bars \cup {NoBar}
    BY <1>w, <1>1, AccountsParts
  <1>9. \A s \in log[t] \cap DOMAIN open :
           /\ new.book.open[s].entered = open[s].entered
           /\ new.book.open[s].filled = open[s].filled
    BY <1>5, <1>6 DEF ArePositions, Position
  <1>10. \A s \in Entries(open, t) : s \in log[t] /\ s \notin DOMAIN open
    BY DEF Entries
  <1>e. \A s \in Entries(open, t) :
           new.book.open[s].entered = t /\ new.book.open[s].filled = FillAt(s, t)
    <2> SUFFICES ASSUME NEW s \in Entries(open, t)
                 PROVE  new.book.open[s].entered = t /\ new.book.open[s].filled = FillAt(s, t)
      OBVIOUS
    <2>1. new.book.open[s] = [entered |-> t, filled |-> FillAt(s, t), charged |-> 0]
      BY <1>5, <1>10
    <2> QED
      BY <2>1
  \* The watermark is booked.
  <1>11. BookedIn(new) = BookedIn(at) \cup {t}
    <2>1. PICK e : e = [bar |-> t, open |-> DOMAIN open,
                        funding |-> EquityFunding(at.book.funding, BarRows(open, t),
                                                  StubRows(Exits(open, t), t))]
      OBVIOUS
    <2>2. new.rows.equity = at.rows.equity \cup {e}
      BY <1>4, <2>1
    <2>3. e.bar = t
      BY <2>1
    <2> QED
      BY <2>2, <2>3 DEF BookedIn
  <1>12. \A u \in BookedIn(at) : u \in Int /\ u <= w
    <2>1. \A e \in at.rows.equity : e.bar \in Bars /\ e.bar <= w
      BY <1>w, AccountsParts DEF BooksOK, NothingAhead, EquityTable
    <2>2. \A e \in at.rows.equity : e.bar \in Int
      BY <2>1, BarsApart
    <2> QED
      BY <2>1, <2>2 DEF BookedIn
  <1>13. /\ SkippedIn(at) \subseteq SkippedIn(new)
         /\ (w \in BookedIn(at) /\ w \in Nat) =>
               \A x \in Int : w < x /\ x <= t - Interval => x \in SkippedIn(new)
    BY <1>1, <1>8, <1>11, <1>12, SkippedGrow
  \* Every fill is at the next bar, and every entry and exit has its fill.
  <1>14. ASSUME NEW f \in new.rows.fills, f.symbol \notin refilled
         PROVE  IsNext(f.symbol, f.bar, f.at)
    <2>1. CASE f \in at.rows.fills
      BY <1>14, <2>1 DEF HeldOK
    <2>2. CASE f \notin at.rows.fills
      <3>1. PICK s \in Entries(open, t) \cup Exits(open, t) :
               f.symbol = s /\ f.bar = t /\ f.at = FillAt(s, t)
        BY <1>3, <2>2 DEF Fills
      <3>2. s \in Symbols \ refilled /\ NextBars(s, t) # {}
        BY <1>7, <1>14, <3>1
      <3> QED
        BY <1>1, <3>1, <3>2, FillIsNext
    <2> QED
      BY <2>1, <2>2
  <1>15. /\ \A s \in Exits(open, t) :
               \E f \in new.rows.fills :
                  f.symbol = s /\ f.bar = t /\ f.kind = "exit" /\ f.at = FillAt(s, t)
         /\ \A s \in Entries(open, t) :
               \E f \in new.rows.fills :
                  f.symbol = s /\ f.bar = t /\ f.kind = "entry" /\ f.at = FillAt(s, t)
    <2>1. ASSUME NEW s \in Exits(open, t)
          PROVE  \E f \in new.rows.fills :
                    f.symbol = s /\ f.bar = t /\ f.kind = "exit" /\ f.at = FillAt(s, t)
      <3>1. [symbol |-> s, bar |-> t, kind |-> "exit", at |-> FillAt(s, t)] \in new.rows.fills
        BY <1>3 DEF Fills
      <3> QED
        BY <3>1
    <2>2. ASSUME NEW s \in Entries(open, t)
          PROVE  \E f \in new.rows.fills :
                    f.symbol = s /\ f.bar = t /\ f.kind = "entry" /\ f.at = FillAt(s, t)
      <3>1. [symbol |-> s, bar |-> t, kind |-> "entry", at |-> FillAt(s, t)] \in new.rows.fills
        BY <1>3 DEF Fills
      <3> QED
        BY <3>1
    <2> QED
      BY <2>1, <2>2
  <1>16. \A s \in DOMAIN open :
            \E f \in at.rows.fills :
               f.symbol = s /\ f.bar = open[s].entered /\ f.kind = "entry" /\ f.at = open[s].filled
    BY <1>o DEF HeldOK, FillsThere
  <1>17. at.rows.fills \subseteq new.rows.fills
    BY <1>3
  <1>18. FillsThere(new)
    <2>1. ASSUME NEW s \in DOMAIN new.book.open
          PROVE  \E f \in new.rows.fills :
                    /\ f.symbol = s /\ f.bar = new.book.open[s].entered
                    /\ f.kind = "entry" /\ f.at = new.book.open[s].filled
      <3>1. CASE s \in DOMAIN open
        BY <1>3, <1>9, <1>16, <1>17, <3>1
      <3>2. CASE s \notin DOMAIN open
        <4>1. s \in Entries(open, t)
          BY <1>3, <3>2 DEF Entries
        <4> QED
          BY <1>e, <1>15, <4>1
      <3> QED
        BY <3>1, <3>2
    <2>2. ASSUME NEW trade \in new.rows.trades
          PROVE  /\ \E f \in new.rows.fills :
                       f.symbol = trade.symbol /\ f.bar = trade.entry /\ f.kind = "entry"
                 /\ \E f \in new.rows.fills :
                       f.symbol = trade.symbol /\ f.bar = trade.exit /\ f.kind = "exit"
      <3>1. CASE trade \in at.rows.trades
        BY <1>17, <3>1 DEF HeldOK, FillsThere
      <3>2. CASE trade \notin at.rows.trades
        <4>1. PICK s \in Exits(open, t) :
                 trade.symbol = s /\ trade.entry = open[s].entered /\ trade.exit = t
          BY <1>4, <3>2
        <4> QED
          BY <1>7, <1>15, <1>16, <1>17, <4>1
      <3> QED
        BY <3>1, <3>2
    <2> QED
      BY <2>1, <2>2 DEF FillsThere
  \* One symbol.
  <1>19. ASSUME NEW s \in Symbols \ refilled PROVE EndsOK(new, s) /\ TiledIn(new, s)
    <2>1. PICK old : old = Of(s, at.rows.funding)
      OBVIOUS
    <2>2. PICK add : add = Of(s, NewFunding(open, t))
      OBVIOUS
    <2>3. Of(s, new.rows.funding) = old \cup add
      BY <1>3, <2>1, <2>2 DEF Of
    <2>4. \A r \in old : r.from \in Int /\ r.to \in Int
      <3>1. \A r \in at.rows.funding : r.from \in Int /\ r.to \in Bars
        BY AccountsParts DEF FundingTable
      <3>2. \A r \in at.rows.funding : r.from \in Int /\ r.to \in Int
        BY <3>1, BarsApart
      <3> QED
        BY <2>1, <3>2 DEF Of
    <2>5. EndsOK(at, s) /\ TiledIn(at, s)
      BY DEF HeldOK
    <2>6. /\ Apart(old) /\ Covered(old) \subseteq HeldIn(at, s)
          /\ HeldIn(at, s) \subseteq Covered(old) \cup SkippedIn(at)
      BY <2>1, <2>5 DEF TiledIn
    <2>7. /\ \A r \in add :
                /\ s \in DOMAIN open /\ r.from \in Int /\ r.to \in Int
                /\ \/ r.from = t - Interval /\ r.to = t /\ open[s].filled <= t - Interval
                   \/ s \in Exits(open, t) /\ r.from = t /\ r.to = FillAt(s, t)
          /\ \A r, q \in add : r.from = q.from => r = q
          /\ (s \in DOMAIN open /\ open[s].filled < t) =>
                \E r \in add : r.from = t - Interval /\ r.to = t
          /\ s \in Exits(open, t) =>
                \E r \in add : r.from = t /\ r.to = FillAt(s, t)
      BY <1>o, <1>6, <2>2, WindowsOfABar
    <2>8. PICK tr : tr = {[symbol |-> x, entry |-> open[x].entered, exit |-> t,
                           charged |-> Accrued(open, x, t)] : x \in Exits(open, t) \cap {s}}
      OBVIOUS
    <2>9. Of(s, new.rows.trades) = Of(s, at.rows.trades) \cup tr
      BY <1>4, <2>8 DEF Of
    <2>10. TradesHeld(new, s) = TradesHeld(at, s) \cup TicksOf(new, s, tr)
      <3>1. FillsThere(at) /\ s \notin refilled
        BY DEF HeldOK
      <3>2. \A f \in new.rows.fills : f.symbol \notin refilled => IsNext(f.symbol, f.bar, f.at)
        BY <1>14
      <3> QED
        BY <1>17, <2>9, <3>1, <3>2, TradesHeldGrow
    <2>11. CASE s \notin DOMAIN open
      <3>1. add = {} /\ tr = {}
        BY <1>7, <2>7, <2>8, <2>11
      <3>2. TradesHeld(new, s) = TradesHeld(at, s)
        BY <2>10, <3>1 DEF TicksOf
      <3>3. HeldIn(at, s) = TradesHeld(at, s)
        BY <1>o, <2>11 DEF HeldIn
      <3>4. s \in log[t] => /\ FillAt(s, t) \in Bars /\ t < FillAt(s, t)
                            /\ IsNext(s, t, FillAt(s, t)) /\ s \in Entries(open, t)
        <4> SUFFICES ASSUME s \in log[t]
                     PROVE  /\ FillAt(s, t) \in Bars /\ t < FillAt(s, t)
                            /\ IsNext(s, t, FillAt(s, t)) /\ s \in Entries(open, t)
          OBVIOUS
        <4>1. s \in Entries(open, t)
          BY <2>11 DEF Entries
        <4>2. IsNext(s, t, FillAt(s, t))
          BY <1>1, <1>7, <4>1, FillIsNext
        <4> QED
          BY <4>1, <4>2 DEF IsNext
      <3>5. s \in log[t] => Ticks(new.book.open[s].filled, t) = {}
        <4> SUFFICES ASSUME s \in log[t] PROVE Ticks(FillAt(s, t), t) = {}
          BY <1>e, <3>4
        <4>1. FillAt(s, t) \in Int /\ t < FillAt(s, t)
          BY <3>4, BarsApart
        <4> QED
          BY <1>1, <4>1 DEF Ticks
      <3>6. HeldIn(new, s) = HeldIn(at, s)
        BY <1>3, <3>2, <3>3, <3>5 DEF HeldIn
      <3>7. TiledIn(new, s)
        BY <1>13, <2>3, <2>6, <3>1, <3>6 DEF TiledIn
      <3>8. \A r \in old : \A v \in Bars \ source.holes[s] : w < v => r.to <= v
        BY <1>o, <1>w, <2>1, <2>5, <2>11 DEF EndsOK
      <3>9. \A v \in Bars \ source.holes[s] : t < v => w < v
        BY <1>1, <1>8, BarsApart
      <3>10. CASE s \in log[t]
        <4>1. FillAt(s, t) \in Bars \ source.holes[s] /\ w < FillAt(s, t)
          BY <3>4, <3>9, <3>10 DEF IsNext
        <4>2. \A r \in old : r.to <= FillAt(s, t)
          BY <3>8, <4>1
        <4> QED
          BY <1>3, <1>e, <2>3, <3>1, <3>4, <3>7, <3>10, <4>2 DEF EndsOK
      <3>11. CASE s \notin log[t]
        <4>1. \A r \in old : \A v \in Bars \ source.holes[s] : t < v => r.to <= v
          BY <3>8, <3>9
        <4> QED
          BY <1>3, <2>3, <3>1, <3>7, <3>11, <4>1 DEF EndsOK
      <3> QED
        BY <3>10, <3>11
    <2>12. CASE s \in DOMAIN open
      <3>f. PICK filled : filled = open[s].filled
        OBVIOUS
      <3>1. /\ open[s].entered \in Bars /\ filled \in Bars
            /\ filled \in Int /\ open[s].entered \in Int /\ open[s].entered \in Nat
        <4>1. open[s].entered \in Bars /\ filled \in Bars
          BY <1>6, <2>12, <3>f DEF ArePositions, Position
        <4> QED
          BY <4>1, BarsApart
      <3>2. open[s].entered < filled /\ open[s].entered <= w
        BY <1>o, <1>w, <2>12, <3>f DEF PositionsOK
      <3>3. w \in Bars /\ w \in Nat /\ w # NoBar
        <4>1. NoBar < open[s].entered /\ NoBar \in Int
          BY <3>1, BarsApart
        <4>2. w # NoBar
          BY <1>8, <3>1, <3>2, <4>1
        <4> QED
          BY <1>8, <4>2, BarsApart
      <3>4. w \in BookedIn(at) /\ w <= t - Interval
        BY <1>1, <1>8, <1>w, <3>3, BarsApart DEF HeldOK
      <3>5. \A x \in Int : w < x /\ x <= t - Interval => x \in SkippedIn(new)
        BY <1>13, <3>3, <3>4
      <3>6. IsNext(s, open[s].entered, filled)
        BY <1>16, <2>12, <3>f DEF HeldOK
      <3>7. HeldIn(at, s) = TradesHeld(at, s) \cup Ticks(filled, w)
        BY <1>o, <1>w, <2>12, <3>f DEF HeldIn
      <3>8. \A r \in old : r.to <= w \/ r.to <= filled
        BY <1>o, <1>w, <2>1, <2>5, <2>12, <3>f DEF EndsOK
      <3>9. ASSUME s \in Exits(open, t)
            PROVE  /\ IsNext(s, t, FillAt(s, t)) /\ filled <= t
                   /\ FillAt(s, t) \in Int /\ t < FillAt(s, t)
        <4>1. IsNext(s, t, FillAt(s, t)) /\ t \in Bars \ source.holes[s]
          BY <1>1, <1>7, <3>9, FillIsNext
        <4>2. open[s].entered < t
          BY <1>1, <1>8, <3>1, <3>2
        <4>3. filled <= t
          BY <3>6, <4>1, <4>2 DEF IsNext
        <4>4. FillAt(s, t) \in Bars /\ t < FillAt(s, t)
          BY <4>1 DEF IsNext
        <4> QED
          BY <4>1, <4>3, <4>4, BarsApart
      <3>e. PICK end : end = IF s \in Exits(open, t) THEN FillAt(s, t) ELSE t
        OBVIOUS
      <3>10. /\ end \in Int /\ (end = t \/ (filled <= t /\ t < end))
             /\ t < end <=> s \in Exits(open, t)
        BY <1>1, <3>9, <3>e
      <3>11. HeldIn(new, s) = TradesHeld(at, s) \cup Ticks(filled, end)
        <4>1. CASE s \in Exits(open, t)
          <5>1. s \notin log[t]
            BY <4>1 DEF Exits
          <5>2. tr = {[symbol |-> s, entry |-> open[s].entered, exit |-> t,
                       charged |-> Accrued(open, s, t)]}
            BY <2>8, <4>1
          <5>3. FillIn(new, s, open[s].entered, "entry") = filled
            <6>1. PICK f \in at.rows.fills : /\ f.symbol = s /\ f.bar = open[s].entered
                                             /\ f.kind = "entry" /\ f.at = filled
              BY <1>16, <2>12, <3>f
            <6>2. f \in new.rows.fills
              BY <1>17
            <6> QED
              BY <1>14, <6>1, <6>2, FillInIs
          <5>4. FillIn(new, s, t, "exit") = FillAt(s, t)
            <6>1. PICK f \in new.rows.fills : /\ f.symbol = s /\ f.bar = t
                                              /\ f.kind = "exit" /\ f.at = FillAt(s, t)
              BY <1>15, <4>1
            <6> QED
              BY <1>14, <6>1, FillInIs
          <5>5. TradesHeld(new, s) = TradesHeld(at, s) \cup Ticks(filled, FillAt(s, t))
            BY <2>10, <5>2, <5>3, <5>4 DEF TicksOf
          <5> QED
            BY <1>3, <3>e, <4>1, <5>1, <5>5 DEF HeldIn
        <4>2. CASE s \notin Exits(open, t)
          <5>1. s \in log[t]
            BY <2>12, <4>2 DEF Exits
          <5>2. tr = {}
            BY <2>8, <4>2
          <5>3. TradesHeld(new, s) = TradesHeld(at, s)
            BY <2>10, <5>2 DEF TicksOf
          <5>4. new.book.open[s].filled = filled
            BY <1>9, <2>12, <3>f, <5>1
          <5> QED
            BY <1>3, <3>e, <4>2, <5>1, <5>3, <5>4 DEF HeldIn
        <4> QED
          BY <4>1, <4>2
      <3>12. PICK start : start = t - Interval
        OBVIOUS
      <3>13. start \in Int /\ start < t /\ w <= start
        BY <1>1, <3>4, <3>12
      <3>14. \A r \in add : \/ r.from = start /\ r.to = t /\ filled <= start
                            \/ r.from = t /\ r.to = end /\ t < end
        BY <2>7, <3>10, <3>12, <3>e, <3>f
      <3>15. /\ filled < t => \E r \in add : r.from = start /\ r.to = t
             /\ t < end => \E r \in add : r.from = t /\ r.to = end
        BY <2>7, <2>12, <3>10, <3>12, <3>e, <3>f
      <3>16. \A x \in Int : w < x /\ x <= start => x \in SkippedIn(new)
        BY <3>5, <3>12
      <3>17. /\ Covered(old) \subseteq TradesHeld(at, s) \cup Ticks(filled, w)
             /\ TradesHeld(at, s) \cup Ticks(filled, w) \subseteq Covered(old) \cup SkippedIn(at)
        BY <2>6, <3>7
      <3>18. \A r \in old : r.from \in Int /\ r.to \in Int /\ (r.to <= w \/ r.to <= filled)
        BY <2>4, <3>8
      <3>19. \A r, q \in add : r.from = q.from => r = q
        BY <2>7
      <3>20. /\ Apart(old \cup add)
             /\ Covered(old \cup add) \subseteq TradesHeld(at, s) \cup Ticks(filled, end)
             /\ TradesHeld(at, s) \cup Ticks(filled, end)
                  \subseteq Covered(old \cup add) \cup SkippedIn(new)
        <4>1. HeldOn(old, add, TradesHeld(at, s), SkippedIn(at), SkippedIn(new),
                     w, t, filled, end, start)
          BY <1>1, <1>8, <1>13, <2>6, <3>1, <3>10, <3>13, <3>14, <3>15, <3>16, <3>17, <3>18,
             <3>19 DEF HeldOn
        <4> QED
          BY <4>1, PositionTiles
      <3>21. TiledIn(new, s)
        BY <2>3, <3>11, <3>20 DEF TiledIn
      <3>22. CASE s \in log[t]
        <4>1. new.book.open[s].filled = filled /\ s \notin Exits(open, t)
          BY <1>9, <2>12, <3>f, <3>22 DEF Exits
        <4>2. \A r \in old \cup add : r.to <= t \/ r.to <= filled
          BY <1>1, <1>8, <2>4, <2>7, <3>1, <3>8, <4>1
        <4> QED
          BY <1>3, <2>3, <3>21, <3>22, <4>1, <4>2 DEF EndsOK
      <3>23. CASE s \notin log[t]
        <4>1. s \in Exits(open, t)
          BY <2>12, <3>23 DEF Exits
        <4>2. \A r \in old \cup add : r.to \in Int /\ (r.to <= t \/ r.to = FillAt(s, t))
          BY <1>1, <1>8, <2>4, <2>7, <3>1, <3>8, <3>9, <4>1
        <4>3. \A v \in Bars \ source.holes[s] : t < v => FillAt(s, t) <= v /\ v \in Int
          BY <3>9, <4>1, BarsApart DEF IsNext
        <4>4. \A r \in old \cup add : \A v \in Bars \ source.holes[s] : t < v => r.to <= v
          BY <1>1, <4>2, <4>3
        <4> QED
          BY <1>3, <2>3, <3>21, <3>23, <4>4 DEF EndsOK
      <3> QED
        BY <3>22, <3>23
    <2> QED
      BY <2>11, <2>12
  <1> QED
    BY <1>n, <1>3, <1>11, <1>14, <1>18, <1>19 DEF HeldOK


-----------------------------------------------------------------------------
(* The invariant of the engine.                                             *)

\* The accounts that are saved, and those a run that is at work has reached.
Saved == [book |-> book, rows |-> ledger]
Reached ==
    IF run = Idle THEN Saved
    ELSE [book |-> run.book, rows |-> AddRows(ledger, run.rows)]

\* A run at work took what is saved for its beginning; the JSONL lane has had
\* the files checked, which are those it still has.
RunOK ==
    run # Idle =>
        /\ run \in Accounts
        /\ lane = "jsonl" => BatchCovered

\* The SQLite gate has seen every window that is saved.
GatedOK == lane = "sqlite" => \A r \in ledger.funding : r.events # {}

AccountsOK(at) == PositionsOK(at) /\ ChargedOK(at) /\ BooksOK(at) /\ HeldOK(at)

EngineInv ==
    /\ FilesOK
    /\ RunOK
    /\ GatedOK
    /\ \E at \in Accounts : at = Saved /\ AccountsOK(at)
    /\ \E at \in Accounts : at = Reached /\ AccountsOK(at)

\* The engine books bar t, the next of those before it.
BooksBar(t) ==
    /\ run # Idle
    /\ t \in Eligible /\ t > Reached.book.watermark
    /\ \A u \in Pending(Reached.book) : t <= u
    /\ Resolved(Reached.book.open, t)
    /\ Reached' = BookBar(Reached, t)

LEMMA PendingFacts ==
    ASSUME FilesOK, NEW b, Pending(b) # {}
    PROVE  /\ Min(Pending(b)) \in Eligible /\ Min(Pending(b)) > b.watermark
           /\ \A u \in Pending(b) : Min(Pending(b)) <= u
           /\ Eligible \subseteq Bars
  <1>1. Eligible \subseteq Bars
    BY LogType DEF Eligible
  <1>2. Pending(b) \in SUBSET Bars
    BY <1>1 DEF Pending
  <1> QED
    BY <1>1, <1>2, LeastBar DEF Pending

\* A step is another command's, or begins or gives up a run, or books a bar, or
\* saves the accounts the run has reached.
LEMMA EngineKinds ==
    ASSUME EngineInv, [Next]_vars
    PROVE  \/ Environment /\ UNCHANGED <<Saved, Reached>> /\ Reached = Saved
           \/ UNCHANGED <<fileVars, Saved>> /\ (Reached' = Saved \/ UNCHANGED Reached)
           \/ UNCHANGED <<fileVars, Saved>> /\ \E t \in Bars : BooksBar(t)
           \/ /\ UNCHANGED <<fileVars, Reached>> /\ Saved' = Reached
              /\ Commit /\ ledger' = AddRows(ledger, run.rows)
  <1>0. FilesOK
    BY DEF EngineInv
  <1>1. CASE Environment
    BY <1>1 DEF Environment, Saved, Reached
  <1>2. CASE Start
    <2>1. UNCHANGED fileVars /\ Saved' = Saved
      BY <1>2 DEF Start, fileVars, Saved
    <2>2. run' = [book |-> book, rows |-> NoRows] /\ run = Idle /\ UNCHANGED <<book, ledger>>
      BY <1>2 DEF Start
    <2>3. run' # Idle
      <3>1. DOMAIN run' = {"book", "rows"} /\ DOMAIN Idle = {"rows"}
        BY <2>2 DEF Idle
      <3> QED
        BY <3>1
    <2>4. AddRows(ledger, NoRows) = ledger
      <3>1. Saved \in Accounts
        BY DEF EngineInv
      <3>2. ledger \in Tables
        BY <3>1, AccountsParts DEF Saved
      <3> QED
        BY <3>2 DEF AddRows, NoRows, Tables
    <2>5. Reached' = Saved
      BY <2>2, <2>3, <2>4 DEF Reached, Saved
    <2> QED
      BY <2>1, <2>5
  <1>3. CASE Step
    <2>1. UNCHANGED <<fileVars, Saved, ledger>> /\ run # Idle
      BY <1>3 DEF Step, fileVars, Saved
    <2>2. PICK t : t = Min(Pending(run.book))
      OBVIOUS
    <2>3. /\ Pending(run.book) # {} /\ Resolved(run.book.open, t) /\ run' = BookBar(run, t)
      BY <1>3, <2>2 DEF Step
    <2>4. Reached = [book |-> run.book, rows |-> AddRows(ledger, run.rows)]
      BY <2>1 DEF Reached
    <2>5. Reached.book = run.book /\ Reached.rows = AddRows(ledger, run.rows)
      BY <2>4
    <2>6. /\ t \in Eligible /\ t > Reached.book.watermark /\ t \in Bars
          /\ \A u \in Pending(Reached.book) : t <= u
      BY <1>0, <2>2, <2>3, <2>5, PendingFacts
    <2>7. run' # Idle
      <3>1. DOMAIN run' = {"book", "rows"} /\ DOMAIN Idle = {"rows"}
        BY <2>3 DEF Idle, BookBar, Booked
      <3> QED
        BY <3>1
    <2>8. Reached' = BookBar(Reached, t)
      <3>1. PICK new : new = BookBar(run, t)
        OBVIOUS
      <3>2. PICK all : all = BookBar(Reached, t)
        OBVIOUS
      <3>3. all.book = new.book
        BY <2>5, <3>1, <3>2 DEF BookBar, Booked
      <3>4. all.rows = AddRows(ledger, new.rows)
        <4>1. PICK added : /\ new.rows = AddRows(run.rows, added)
                           /\ all.rows = AddRows(Reached.rows, added)
          BY <2>5, <3>1, <3>2 DEF BookBar, Booked
        <4>2. \A A, B, C : A \cup (B \cup C) = (A \cup B) \cup C
          OBVIOUS
        <4>3. /\ Reached.rows.fills = ledger.fills \cup run.rows.fills
              /\ Reached.rows.funding = ledger.funding \cup run.rows.funding
              /\ Reached.rows.trades = ledger.trades \cup run.rows.trades
              /\ Reached.rows.equity = ledger.equity \cup run.rows.equity
          BY <2>5 DEF AddRows
        <4>4. /\ new.rows.fills = run.rows.fills \cup added.fills
              /\ new.rows.funding = run.rows.funding \cup added.funding
              /\ new.rows.trades = run.rows.trades \cup added.trades
              /\ new.rows.equity = run.rows.equity \cup added.equity
          BY <4>1 DEF AddRows
        <4>5. all.rows = [fills |-> (ledger.fills \cup run.rows.fills) \cup added.fills,
                          funding |-> (ledger.funding \cup run.rows.funding) \cup added.funding,
                          trades |-> (ledger.trades \cup run.rows.trades) \cup added.trades,
                          equity |-> (ledger.equity \cup run.rows.equity) \cup added.equity]
          BY <4>1, <4>3 DEF AddRows
        <4> QED
          BY <4>2, <4>4, <4>5 DEF AddRows
      <3>5. all = [book |-> all.book, rows |-> all.rows]
        BY <3>2 DEF BookBar, Booked
      <3>6. Reached' = [book |-> new.book, rows |-> AddRows(ledger, new.rows)]
        BY <2>1, <2>3, <2>7, <3>1 DEF Reached
      <3> QED
        BY <3>2, <3>3, <3>4, <3>5, <3>6
    <2> QED
      BY <2>1, <2>3, <2>5, <2>6, <2>8 DEF BooksBar
  <1>4. CASE Commit
    <2>1. /\ UNCHANGED fileVars /\ run # Idle /\ run' = Idle /\ book' = run.book
          /\ ledger' = AddRows(ledger, run.rows)
      BY <1>4 DEF Commit, Finished, fileVars
    <2> QED
      BY <1>4, <2>1 DEF Saved, Reached
  <1>5. CASE Abort
    <2>1. UNCHANGED <<fileVars, Saved>> /\ run' = Idle /\ UNCHANGED <<book, ledger>>
      BY <1>5 DEF Abort, fileVars, Saved
    <2> QED
      BY <2>1 DEF Reached, Saved
  <1>6. CASE UNCHANGED vars
    BY <1>6 DEF vars, fileVars, Saved, Reached
  <1>7. Environment \/ Start \/ Step \/ Commit \/ Abort \/ UNCHANGED vars
    BY <1>0, FilesStep
  <1> QED
    BY <1>1, <1>2, <1>3, <1>4, <1>5, <1>6, <1>7

LEMMA AccountsStay ==
    ASSUME FilesOK, NEW at \in Accounts, AccountsOK(at), FilesGrow
    PROVE  AccountsOK(at)'
  <1>1. PositionsOK(at)' /\ ChargedOK(at)' /\ BooksOK(at)' /\ HeldOK(at)'
    BY PositionsStay, ChargesStay, BooksStay, HeldStays DEF AccountsOK
  <1> QED
    BY <1>1 DEF AccountsOK

LEMMA BookingKeepsOK ==
    ASSUME FilesOK, NEW at \in Accounts, AccountsOK(at),
           NEW t \in Eligible, t > at.book.watermark, Resolved(at.book.open, t),
           lane = "jsonl" => BatchCovered
    PROVE  BookBar(at, t) \in Accounts /\ AccountsOK(BookBar(at, t))
  <1>1. PositionsOK(at) /\ ChargedOK(at) /\ BooksOK(at) /\ HeldOK(at)
    BY DEF AccountsOK
  <1>2. BookBar(at, t) \in Accounts
    BY BookingKeepsAccounts
  <1>3. PositionsOK(BookBar(at, t))
    BY <1>1, BookingKeepsPositions
  <1>4. ChargedOK(BookBar(at, t))
    BY <1>1, BookingChargesInFull
  <1>5. BooksOK(BookBar(at, t))
    BY <1>1, BookingKeepsBooks
  <1>6. HeldOK(BookBar(at, t))
    BY <1>1, BookingKeepsHeld
  <1> QED
    BY <1>2, <1>3, <1>4, <1>5, <1>6 DEF AccountsOK

LEMMA RunStaysOK ==
    ASSUME EngineInv, [Next]_vars
    PROVE  RunOK'
  <1>0. FilesOK /\ RunOK
    BY DEF EngineInv
  <1>1. CASE Environment
    BY <1>1 DEF Environment, RunOK
  <1>2. CASE Start
    <2>1. UNCHANGED fileVars /\ run' = [book |-> book, rows |-> NoRows]
          /\ (lane = "jsonl" => BatchCovered)
      BY <1>2 DEF Start, fileVars
    <2>2. Saved \in Accounts
      BY DEF EngineInv
    <2>3. book \in Books
      BY <2>2, AccountsParts DEF Saved
    <2>4. NoRows \in Tables
      BY DEF NoRows, Tables
    <2>5. run' \in Accounts
      BY <2>1, <2>3, <2>4 DEF Accounts
    <2>6. (lane = "jsonl" => BatchCovered)'
      BY <2>1 DEF fileVars, BatchCovered, Listed, Eligible
    <2> QED
      BY <2>5, <2>6 DEF RunOK
  <1>3. CASE Step
    <2>1. UNCHANGED fileVars /\ run # Idle
      BY <1>3 DEF Step, fileVars
    <2>2. PICK t : t = Min(Pending(run.book))
      OBVIOUS
    <2>3. /\ Pending(run.book) # {} /\ Resolved(run.book.open, t) /\ run' = BookBar(run, t)
      BY <1>3, <2>2 DEF Step
    <2>4. t \in Eligible
      BY <1>0, <2>2, <2>3, PendingFacts
    <2>5. run \in Accounts /\ (lane = "jsonl" => BatchCovered)
      BY <1>0, <2>1 DEF RunOK
    <2>6. run' \in Accounts
      BY <1>0, <2>3, <2>4, <2>5, BookingKeepsAccounts
    <2>7. (lane = "jsonl" => BatchCovered)'
      BY <2>1, <2>5 DEF fileVars, BatchCovered, Listed, Eligible
    <2> QED
      BY <2>6, <2>7 DEF RunOK
  <1>4. CASE Commit \/ Abort
    BY <1>4 DEF Commit, Abort, RunOK
  <1>5. CASE UNCHANGED vars
    BY <1>0, <1>5 DEF vars, RunOK, BatchCovered, Listed, Eligible
  <1> QED
    BY <1>0, <1>1, <1>2, <1>3, <1>4, <1>5, FilesStep

\* What a run saves in the SQLite lane, the gate has let pass.
LEMMA SavedIsGated ==
    ASSUME EngineInv, Commit, ledger' = AddRows(ledger, run.rows), lane' = lane
    PROVE  GatedOK'
  <1>1. run # Idle /\ Accepts
    BY DEF Commit, Finished
  <1>2. Reached = [book |-> run.book, rows |-> AddRows(ledger, run.rows)]
    BY <1>1 DEF Reached
  <1>3. run.rows.funding \subseteq Reached.rows.funding
    BY <1>2 DEF AddRows
  <1>4. PICK at \in Accounts : at = Reached /\ AccountsOK(at)
    BY DEF EngineInv
  <1>5. \A r \in run.rows.funding : r.from < r.to
    BY <1>3, <1>4 DEF AccountsOK, ChargedOK
  <1>6. ASSUME lane = "sqlite", NEW r \in run.rows.funding PROVE r.events # {}
    BY <1>1, <1>5, <1>6 DEF Accepts, WindowsCovered
  <1>7. ledger'.funding = ledger.funding \cup run.rows.funding
    BY DEF AddRows
  <1>8. GatedOK
    BY DEF EngineInv
  <1> QED
    BY <1>6, <1>7, <1>8 DEF GatedOK

LEMMA EngineInit ==
    Init => EngineInv
  <1> SUFFICES ASSUME Init PROVE EngineInv
    OBVIOUS
  <1>1. /\ now = 0 /\ source \in Sources /\ prices = [s \in Symbols |-> Served(s, 0)]
        /\ rates = [s \in Symbols |-> Settled(s, 0)]
        /\ log = [t \in {} |-> {}] /\ lane \in Lanes
        /\ book = NewBook /\ ledger = NoRows /\ run = Idle /\ refilled = {}
    BY DEF Init
  <1>2. /\ source \in [holes : [Symbols -> SUBSET Nat],
                       settled : [Symbols -> SUBSET Settlements],
                       signals : SUBSET SUBSET Symbols]
        /\ \A s \in Symbols : IsFiniteSet(source.settled[s])
    BY <1>1, SourcesAssumption
  <1>3. \A s \in Symbols : \A v \in Served(s, 0), u \in Bars \ source.holes[s] :
            u <= v => u \in Served(s, 0)
    BY BarsApart DEF Served
  <1>4. FilesOK
    <2>1. \A s \in Symbols : Served(s, 0) \in SUBSET Bars
      BY DEF Served
    <2>2. \A s \in Symbols : /\ Settled(s, 0) \in SUBSET Settlements
                             /\ Settled(s, 0) \subseteq source.settled[s]
      BY <1>2 DEF Settled
    <2>3. log \in UNION {[D -> SUBSET Symbols] : D \in SUBSET Bars}
      <3>1. log \in [{} -> SUBSET Symbols] /\ {} \in SUBSET Bars
        BY <1>1
      <3> QED
        BY <3>1
    <2> QED
      BY <1>1, <1>2, <1>3, <2>1, <2>2, <2>3 DEF FilesOK
  <1>5. RunOK /\ GatedOK /\ Reached = Saved
    BY <1>1 DEF RunOK, GatedOK, NoRows, Reached
  <1>6. PICK at : at = [book |-> NewBook, rows |-> NoRows]
    OBVIOUS
  <1>7. /\ at.book.watermark = NoBar /\ at.book.funding = 0 /\ DOMAIN at.book.open = {}
        /\ at.rows.fills = {} /\ at.rows.funding = {} /\ at.rows.trades = {}
        /\ at.rows.equity = {}
    BY <1>6 DEF NewBook, NoRows
  <1>8. at \in Accounts
    <2>1. NewBook \in Books
      <3>1. [s \in {} |-> 0] \in [{} -> Position] /\ {} \in SUBSET Symbols
        OBVIOUS
      <3>2. [s \in {} |-> 0] \in UNION {[D -> Position] : D \in SUBSET Symbols}
        BY <3>1
      <3> QED
        BY <3>2 DEF NewBook, Books
    <2>2. NoRows \in Tables
      BY DEF NoRows, Tables
    <2> QED
      BY <1>6, <2>1, <2>2 DEF Accounts
  <1>9. PositionsOK(at) /\ ChargedOK(at)
    BY <1>7 DEF PositionsOK, ChargedOK
  <1>10. BooksOK(at)
    BY <1>7, NoRowsNoAmount, FS_EmptySet DEF BooksOK, NothingAhead, FiniteRows
  <1>11. HeldOK(at)
    <2>1. \A s : Of(s, at.rows.funding) = {} /\ Of(s, at.rows.trades) = {}
      BY <1>7 DEF Of
    <2>2. \A s : HeldIn(at, s) = {}
      BY <1>7, <2>1 DEF HeldIn, TradesHeld, TicksOf
    <2>3. \A s : Covered(Of(s, at.rows.funding)) = {} /\ Apart(Of(s, at.rows.funding))
      BY <2>1 DEF Covered, Apart
    <2>4. \A s : TiledIn(at, s) /\ EndsOK(at, s)
      BY <2>1, <2>2, <2>3 DEF TiledIn, EndsOK
    <2> QED
      BY <1>7, <2>4 DEF HeldOK, FillsThere
  <1>12. at = Saved
    BY <1>1, <1>6 DEF Saved
  <1> QED
    BY <1>4, <1>5, <1>8, <1>9, <1>10, <1>11, <1>12 DEF EngineInv, AccountsOK

LEMMA EngineNext ==
    EngineInv /\ [Next]_vars => EngineInv'
  <1> SUFFICES ASSUME EngineInv, [Next]_vars PROVE EngineInv'
    OBVIOUS
  <1>1. FilesOK /\ FilesOK' /\ RunOK /\ RunOK'
    BY FilesStep, RunStaysOK DEF EngineInv
  <1>2. PICK at \in Accounts : at = Saved /\ AccountsOK(at)
    BY DEF EngineInv
  <1>3. PICK by \in Accounts : by = Reached /\ AccountsOK(by)
    BY DEF EngineInv
  <1>4. UNCHANGED fileVars => FilesGrow
    BY DEF fileVars, FilesGrow
  <1>5. FilesGrow => AccountsOK(at)' /\ AccountsOK(by)'
    BY <1>1, <1>2, <1>3, AccountsStay
  <1>6. UNCHANGED <<lane, ledger>> => GatedOK'
    BY DEF EngineInv, GatedOK
  <1>7. CASE Environment /\ UNCHANGED <<Saved, Reached>> /\ Reached = Saved
    <2>1. FilesGrow /\ UNCHANGED <<lane, ledger>>
      BY <1>7 DEF Environment, FilesGrow
    <2> QED
      BY <1>1, <1>2, <1>3, <1>5, <1>6, <1>7, <2>1 DEF EngineInv
  <1>8. CASE UNCHANGED <<fileVars, Saved>> /\ (Reached' = Saved \/ UNCHANGED Reached)
    <2>1. FilesGrow /\ UNCHANGED <<lane, ledger>>
      BY <1>4, <1>8 DEF fileVars, Saved
    <2> QED
      BY <1>1, <1>2, <1>3, <1>5, <1>6, <1>8, <2>1 DEF EngineInv
  <1>9. CASE UNCHANGED <<fileVars, Saved>> /\ \E t \in Bars : BooksBar(t)
    <2>1. FilesGrow /\ UNCHANGED <<lane, ledger>>
      BY <1>4, <1>9 DEF fileVars, Saved
    <2>2. PICK t \in Bars : BooksBar(t)
      BY <1>9
    <2>3. /\ t \in Eligible /\ t > by.book.watermark /\ Resolved(by.book.open, t)
          /\ Reached' = BookBar(by, t) /\ (lane = "jsonl" => BatchCovered)
      BY <1>1, <1>3, <2>2 DEF BooksBar, RunOK
    <2>4. PICK new : new = BookBar(by, t)
      OBVIOUS
    <2>5. new \in Accounts /\ AccountsOK(new)
      BY <1>1, <1>3, <2>3, <2>4, BookingKeepsOK
    <2>6. AccountsOK(new)'
      BY <1>1, <2>1, <2>5, AccountsStay
    <2>7. new = Reached'
      BY <2>3, <2>4
    <2> QED
      BY <1>1, <1>2, <1>5, <1>6, <1>9, <2>1, <2>5, <2>6, <2>7 DEF EngineInv
  <1>10. CASE /\ UNCHANGED <<fileVars, Reached>> /\ Saved' = Reached
              /\ Commit /\ ledger' = AddRows(ledger, run.rows)
    <2>1. FilesGrow /\ lane' = lane
      BY <1>4, <1>10 DEF fileVars
    <2>2. GatedOK'
      BY <1>10, <2>1, SavedIsGated
    <2> QED
      BY <1>1, <1>3, <1>5, <1>10, <2>1, <2>2 DEF EngineInv
  <1> QED
    BY <1>7, <1>8, <1>9, <1>10, EngineKinds

THEOREM EngineInvariant == Spec => []EngineInv
  <1>1. Init => EngineInv
    BY EngineInit
  <1>2. EngineInv /\ [Next]_vars => EngineInv'
    BY EngineNext
  <1> QED
    BY <1>1, <1>2, PTL DEF Spec

-----------------------------------------------------------------------------
(* What follows.                                                            *)

\* The book names observed bars and positions filled behind the bar that
\* decided them, and so does every row of fills (engine.py:205, fill_model
\* next_bar_open_pessimistic).
THEOREM EngineTypeCorrect == Spec => []TypeOK
  <1>1. ASSUME EngineInv PROVE TypeOK
    <2>1. PICK at \in Accounts : at = Saved /\ AccountsOK(at)
      BY <1>1 DEF EngineInv
    <2>2. at.book = book /\ at.rows = ledger /\ PositionsOK(at)
      BY <2>1 DEF Saved, AccountsOK
    <2>3. /\ DOMAIN book.open \subseteq Symbols /\ book.open \in [DOMAIN book.open -> Position]
          /\ ledger.fills \subseteq FillTable
      BY <2>2, AccountsParts
    <2>4. \A s \in DOMAIN book.open : book.open[s].entered \in Bars /\ book.open[s].filled \in Bars
      BY <2>3 DEF Position
    <2> QED
      BY <2>2, <2>3, <2>4 DEF TypeOK, PositionsOK, FillTable
  <1> QED
    BY <1>1, EngineInvariant, PTL

\* Where the exchange settled once in the window of a row, the row charges that
\* settlement, although the files may have been behind when it was booked
\* (funding_coverage.py:563, sqlite_writer.py:1617).
THEOREM EveryWindowIsCharged == Spec => []ChargedInFull
  <1>1. ASSUME EngineInv PROVE ChargedInFull
    <2>1. PICK at \in Accounts : at = Saved /\ AccountsOK(at)
      BY <1>1 DEF EngineInv
    <2>2. at.rows = ledger /\ ChargedOK(at) /\ ledger.funding \subseteq FundingTable
      BY <2>1, AccountsParts DEF Saved, AccountsOK
    <2> SUFFICES ASSUME NEW r \in ledger.funding,
                        NEW due, due = Charged(source.settled[r.symbol], r.from, r.to)
                 PROVE  /\ r.events \subseteq due
                        /\ (Cardinality(due) = 1 /\ (lane = "sqlite" \/ ~r.stub)) =>
                              r.events = due
      BY DEF ChargedInFull
    <2>3. r.events \subseteq due
      BY <2>2 DEF ChargedOK
    <2>4. IsFiniteSet(due)
      <3>1. r.symbol \in Symbols
        BY <2>2 DEF FundingTable
      <3>2. IsFiniteSet(source.settled[r.symbol])
        BY <1>1, <3>1 DEF EngineInv, FilesOK
      <3>3. due \in SUBSET source.settled[r.symbol]
        BY DEF Charged
      <3> QED
        BY <3>2, <3>3, FS_Subset
    <2>5. ASSUME lane = "sqlite" \/ ~r.stub PROVE r.events # {}
      <3>1. lane \in {"jsonl", "sqlite"}
        BY <1>1, EngineAssumption DEF EngineInv, FilesOK
      <3>2. CASE lane = "sqlite"
        BY <1>1, <3>2 DEF EngineInv, GatedOK
      <3>3. CASE lane = "jsonl" /\ ~r.stub
        BY <2>2, <3>3 DEF ChargedOK
      <3> QED
        BY <2>5, <3>1, <3>2, <3>3
    <2> QED
      BY <2>3, <2>4, <2>5, OneIsAll
  <1> QED
    BY <1>1, EngineInvariant, PTL

\* What the engine carries from bar to bar agrees with the rows it leaves
\* behind (engine.py:260-311).
THEOREM BooksAgree == Spec => []BooksTie
  <1>1. ASSUME EngineInv PROVE BooksTie
    <2>1. PICK at \in Accounts : at = Saved /\ AccountsOK(at)
      BY <1>1 DEF EngineInv
    <2>2. at.book = book /\ at.rows = ledger /\ BooksOK(at)
      BY <2>1 DEF Saved, AccountsOK
    <2> QED
      BY <2>2 DEF BooksTie, BooksOK, UpTo, Between, Since
  <1> QED
    BY <1>1, EngineInvariant, PTL

\* The funding windows of a symbol tile the time it was held (engine.py:243-311).
THEOREM HoldingsAreTiled == Spec => []HoldingIsTiled
  <1>1. ASSUME EngineInv PROVE HoldingIsTiled
    <2>1. PICK at \in Accounts : at = Saved /\ AccountsOK(at)
      BY <1>1 DEF EngineInv
    <2>2. at.book = book /\ at.rows = ledger /\ HeldOK(at)
      BY <2>1 DEF Saved, AccountsOK
    <2>3. ASSUME NEW s \in Symbols \ refilled
          PROVE  /\ Apart(Of(s, ledger.funding))
                 /\ Covered(Of(s, ledger.funding)) \subseteq HeldTicks(s)
                 /\ HeldTicks(s) \subseteq Covered(Of(s, ledger.funding)) \cup SkippedTicks
      <3>1. TiledIn(at, s)
        BY <2>2 DEF HeldOK
      <3>2. \A t, kind : FillIn(at, s, t, kind) = FillOf(s, t, kind)
        BY <2>2 DEF FillIn, FillOf
      <3>3. \A trade \in Of(s, ledger.trades) :
               /\ FillIn(at, s, trade.entry, "entry") = FillOf(s, trade.entry, "entry")
               /\ FillIn(at, s, trade.exit, "exit") = FillOf(s, trade.exit, "exit")
        BY <3>2
      <3>4. HeldIn(at, s) = HeldTicks(s)
        <4>1. PICK trades : trades = Of(s, ledger.trades)
          OBVIOUS
        <4>2. UNION {Ticks(FillIn(at, s, trade.entry, "entry"), FillIn(at, s, trade.exit, "exit")) :
                       trade \in trades}
              = UNION {Ticks(FillOf(s, trade.entry, "entry"), FillOf(s, trade.exit, "exit")) :
                         trade \in trades}
          BY <3>3, <4>1
        <4> QED
          BY <2>2, <4>1, <4>2 DEF HeldIn, HeldTicks, TradesHeld, TicksOf
      <3>5. SkippedIn(at) = SkippedTicks
        BY <2>2 DEF SkippedIn, SkippedTicks, BookedIn, BookedBars
      <3> QED
        BY <2>2, <3>1, <3>4, <3>5 DEF TiledIn
    <2>4. ASSUME NEW s \in Symbols \ refilled, NEW windows, windows = Of(s, ledger.funding)
          PROVE  /\ \A r, q \in windows :
                       r # q => Ticks(r.from, r.to) \cap Ticks(q.from, q.to) = {}
                 /\ UNION {Ticks(r.from, r.to) : r \in windows} \subseteq HeldTicks(s)
                 /\ HeldTicks(s) \subseteq
                       (UNION {Ticks(r.from, r.to) : r \in windows}) \cup SkippedTicks
      <3>1. /\ Apart(windows) /\ Covered(windows) \subseteq HeldTicks(s)
            /\ HeldTicks(s) \subseteq Covered(windows) \cup SkippedTicks
        BY <2>3, <2>4
      <3> QED
        BY <3>1 DEF Apart, Covered
    <2> QED
      BY <2>4 DEF HoldingIsTiled
  <1> QED
    BY <1>1, EngineInvariant, PTL

-----------------------------------------------------------------------------
(* The replay.                                                              *)

Beginning == [book |-> NewBook, rows |-> NoRows]
Continued(g, n) ==
    IF n = NoBar THEN Beginning ELSE IF n \in Eligible THEN BookBar(g[n - 1], n) ELSE g[n - 1]
Replays(g) == g = [n \in NoBar..Horizon |-> Continued(g, n)]

\* There is one, from bar to bar.
LEMMA ReplayExists == \E g : Replays(g)
  <1> DEFINE times == NoBar..Horizon
             upto(g, k) == DOMAIN g = times /\ \A n \in times : n < k => g[n] = Continued(g, n)
             fine == {k \in Nat : \E g : upto(g, k)}
  <1>1. Horizon \in Nat /\ NoBar = -1
    BY EngineAssumption DEF NoBar
  <1>2. 0 \in fine
    <2>1. PICK g : g = [n \in times |-> Beginning]
      OBVIOUS
    <2>2. \A n \in times : n < 0 => n = NoBar
      BY <1>1
    <2>3. upto(g, 0)
      BY <2>1, <2>2 DEF Continued
    <2> QED
      BY <2>3
  <1>3. ASSUME NEW k \in Nat, k \in fine PROVE k + 1 \in fine
    <2>1. PICK g : upto(g, k)
      BY <1>3
    <2>2. PICK h : h = [n \in times |-> Continued(g, n)]
      OBVIOUS
    <2>3. \A n \in times : n < k => h[n] = g[n]
      BY <2>1, <2>2
    <2>4. ASSUME NEW n \in times, n < k + 1 PROVE h[n] = Continued(h, n)
      <3>1. CASE n = NoBar
        BY <2>2, <3>1 DEF Continued
      <3>2. CASE n # NoBar
        <4>1. n - 1 \in times /\ n - 1 < k
          BY <1>1, <2>4, <3>2
        <4>2. h[n - 1] = g[n - 1]
          BY <2>3, <4>1
        <4> QED
          BY <2>2, <3>2, <4>2 DEF Continued
      <3> QED
        BY <3>1, <3>2
    <2>5. upto(h, k + 1)
      BY <2>2, <2>4
    <2>6. k + 1 \in Nat
      OBVIOUS
    <2> HIDE DEF upto
    <2> QED
      BY <2>5, <2>6
  <1>4. Horizon + 1 \in fine
    <2>1. Horizon + 1 \in Nat
      BY <1>1
    <2>2. \A k \in Nat : k \in fine => k + 1 \in fine
      BY <1>3
    <2> HIDE DEF fine
    <2>3. Nat \subseteq fine
      BY <1>2, <2>2, NumberInduction
    <2> QED
      BY <2>1, <2>3
  <1>5. PICK g : upto(g, Horizon + 1)
    <2> HIDE DEF upto
    <2> QED
      BY <1>4
  <1>6. \A n \in times : g[n] = Continued(g, n)
    BY <1>1, <1>5
  <1>7. PICK h : h = [n \in times |-> Continued(g, n)]
    OBVIOUS
  <1>8. \A n \in times : h[n] = g[n]
    BY <1>6, <1>7
  <1>9. \A n \in times : Continued(h, n) = Continued(g, n)
    <2>1. ASSUME NEW n \in times PROVE Continued(h, n) = Continued(g, n)
      <3>1. CASE n = NoBar
        BY <3>1 DEF Continued
      <3>2. CASE n # NoBar
        <4>1. n - 1 \in times
          BY <1>1, <3>2
        <4> QED
          BY <1>8, <3>2, <4>1 DEF Continued
      <3> QED
        BY <3>1, <3>2
    <2> QED
      BY <2>1
  <1>10. h = [n \in times |-> Continued(h, n)]
    BY <1>7, <1>9
  <1> QED
    BY <1>10 DEF Replays

LEMMA ReplayIsOne ==
    ASSUME NEW g, Replays(g)
    PROVE  Replays(Replay)
  BY DEF Replay, Replays, Continued, Beginning

LEMMA ReplayIs ==
    /\ Replay[NoBar] = Beginning
    /\ \A n \in 0..Horizon :
          Replay[n] = IF n \in Eligible THEN BookBar(Replay[n - 1], n) ELSE Replay[n - 1]
  <1>1. Horizon \in Nat /\ NoBar = -1
    BY EngineAssumption DEF NoBar
  <1>2. Replays(Replay)
    BY ReplayExists, ReplayIsOne
  <1>3. \A n \in NoBar..Horizon : Replay[n] = Continued(Replay, n)
    BY <1>2 DEF Replays
  <1>4. NoBar \in NoBar..Horizon
    BY <1>1
  <1>5. \A n \in 0..Horizon : n \in NoBar..Horizon /\ n # NoBar
    BY <1>1
  <1> QED
    BY <1>3, <1>4, <1>5 DEF Continued

\* What the shape of the books after a bar depends on: the shape before it, who
\* is active, and where those acted on are filled.
Skeleton(at) ==
    [open  |-> [s \in DOMAIN at.book.open |-> at.book.open[s].filled],
     shape |-> Shape(at.rows)]
Begun(filled, t) == Max({t - Interval, filled})
Filled(symbols, t, kind, at) ==
    {[symbol |-> s, bar |-> t, kind |-> kind, at |-> at[s]] : s \in symbols}
NextSkeleton(old, t, active, at) ==
    [open  |-> [s \in active |-> IF s \in DOMAIN old.open THEN old.open[s] ELSE at[s]],
     shape |->
       [fills   |-> old.shape.fills \cup (Filled(DOMAIN old.open \ active, t, "exit", at)
                                          \cup Filled(active \ DOMAIN old.open, t, "entry", at)),
        windows |-> (old.shape.windows
                     \cup {<<s, t, Begun(old.open[s], t), t>> :
                             s \in {x \in DOMAIN old.open : Begun(old.open[x], t) < t}})
                    \cup {<<s, t, t, at[s]>> : s \in DOMAIN old.open \ active},
        held    |-> old.shape.held \cup {<<t, DOMAIN old.open>>}]]
NextFills(t) == [s \in Symbols |-> FillAt(s, t)]

\* The rows of some symbols, and their windows.
RowsFor(S, t, stub, from, to) == {FundingRow(s, t, stub, from[s], to[s]) : s \in S}
WindowsFor(S, t, from, to) == {<<s, t, from[s], to[s]>> : s \in S}
WindowsIn(rows) == {<<r.symbol, r.bar, r.from, r.to>> : r \in rows}

LEMMA WindowsOfRows ==
    ASSUME NEW S, NEW t, NEW stub, NEW from, NEW to
    PROVE  WindowsIn(RowsFor(S, t, stub, from, to)) = WindowsFor(S, t, from, to)
  <1>0. PICK rows : rows = RowsFor(S, t, stub, from, to)
    OBVIOUS
  <1>1. PICK row : row = [s \in S |-> FundingRow(s, t, stub, from[s], to[s])]
    OBVIOUS
  <1>2. \A s \in S : /\ row[s].symbol = s /\ row[s].bar = t
                     /\ row[s].from = from[s] /\ row[s].to = to[s]
    BY <1>1 DEF FundingRow
  <1>3. rows = {row[s] : s \in S}
    BY <1>0, <1>1 DEF RowsFor
  <1>4. \A s \in S : <<row[s].symbol, row[s].bar, row[s].from, row[s].to>> = <<s, t, from[s], to[s]>>
    BY <1>2
  <1>5. WindowsIn(rows) = {<<row[s].symbol, row[s].bar, row[s].from, row[s].to>> : s \in S}
    BY <1>3 DEF WindowsIn
  <1> QED
    BY <1>0, <1>4, <1>5 DEF WindowsFor

LEMMA BookBarSkeleton ==
    ASSUME NEW at \in Accounts, NEW t \in Bars, log[t] \in SUBSET Symbols
    PROVE  Skeleton(BookBar(at, t)) = NextSkeleton(Skeleton(at), t, log[t], NextFills(t))
  <1>1. PICK open : open = at.book.open
    OBVIOUS
  <1>2. PICK new : new = BookBar(at, t)
    OBVIOUS
  <1>3. IsBooked(new, at, open, t)
    BY <1>1, <1>2, BookBarFacts
  <1>4. PICK active \in SUBSET Symbols : active = log[t]
    OBVIOUS
  <1>5. DOMAIN open \in SUBSET Symbols /\ \A s \in DOMAIN open : open[s] \in Position
    BY <1>1, AccountsParts
  <1>6. PICK fill : fill = NextFills(t)
    OBVIOUS
  <1>7. \A s \in Symbols : fill[s] = FillAt(s, t)
    BY <1>6 DEF NextFills
  <1>8. PICK old : old = Skeleton(at)
    OBVIOUS
  <1>9. /\ DOMAIN old.open = DOMAIN open /\ \A s \in DOMAIN open : old.open[s] = open[s].filled
        /\ old.shape.fills = at.rows.fills
        /\ old.shape.windows = {<<r.symbol, r.bar, r.from, r.to>> : r \in at.rows.funding}
        /\ old.shape.held = {<<e.bar, e.open>> : e \in at.rows.equity}
    BY <1>1, <1>8 DEF Skeleton, Shape
  <1>10. Exits(open, t) = DOMAIN open \ active /\ Entries(open, t) = active \ DOMAIN open
    BY <1>4 DEF Exits, Entries
  <1>11. [s \in DOMAIN new.book.open |-> new.book.open[s].filled]
           = [s \in active |-> IF s \in DOMAIN old.open THEN old.open[s] ELSE fill[s]]
    <2>1. DOMAIN new.book.open = active
      <3>1. new.book.open = [s \in log[t] |-> new.book.open[s]]
        BY <1>3 DEF IsBooked
      <3> QED
        BY <1>4, <3>1
    <2>2. ASSUME NEW s \in active
          PROVE  new.book.open[s].filled = IF s \in DOMAIN old.open THEN old.open[s] ELSE fill[s]
      <3>1. CASE s \in DOMAIN open
        <4>1. new.book.open[s] = [open[s] EXCEPT !.charged = Accrued(open, s, t)]
          BY <1>3, <1>4, <3>1 DEF IsBooked
        <4>2. open[s] \in Position
          BY <1>5, <3>1
        <4>3. new.book.open[s].filled = open[s].filled
          BY <4>1, <4>2 DEF Position
        <4> QED
          BY <1>9, <3>1, <4>3
      <3>2. CASE s \notin DOMAIN open
        <4>1. new.book.open[s] = [entered |-> t, filled |-> FillAt(s, t), charged |-> 0]
          BY <1>3, <1>4, <3>2 DEF IsBooked
        <4> QED
          BY <1>7, <1>9, <3>2, <4>1
      <3> QED
        BY <3>1, <3>2
    <2> QED
      BY <2>1, <2>2
  <1>12. new.rows.fills = old.shape.fills \cup (Filled(DOMAIN open \ active, t, "exit", fill)
                                                \cup Filled(active \ DOMAIN open, t, "entry", fill))
    <2>1. new.rows.fills = at.rows.fills \cup (Fills(Exits(open, t), t, "exit")
                                               \cup Fills(Entries(open, t), t, "entry"))
      BY <1>3 DEF IsBooked
    <2>2. ASSUME NEW symbols \in SUBSET Symbols, NEW kind
          PROVE  Fills(symbols, t, kind) = Filled(symbols, t, kind, fill)
      BY <1>7 DEF Fills, Filled
    <2>3. DOMAIN open \ active \in SUBSET Symbols /\ active \ DOMAIN open \in SUBSET Symbols
      BY <1>5
    <2> QED
      BY <1>9, <1>10, <2>1, <2>2, <2>3
  <1>13. {<<r.symbol, r.bar, r.from, r.to>> : r \in new.rows.funding}
           = (old.shape.windows
              \cup {<<s, t, Begun(old.open[s], t), t>> :
                      s \in {x \in DOMAIN open : Begun(old.open[x], t) < t}})
             \cup {<<s, t, t, fill[s]>> : s \in DOMAIN open \ active}
    <2>1. new.rows.funding = (at.rows.funding \cup BarRows(open, t)) \cup StubRows(Exits(open, t), t)
      BY <1>3 DEF IsBooked, NewFunding
    <2>2. \A s \in DOMAIN open : WindowStart(open[s], t) = Begun(old.open[s], t)
      BY <1>9 DEF WindowStart, Begun
    <2>3. PICK held : held = {x \in DOMAIN open : Begun(old.open[x], t) < t}
      OBVIOUS
    <2>4. {<<r.symbol, r.bar, r.from, r.to>> : r \in BarRows(open, t)}
            = {<<s, t, Begun(old.open[s], t), t>> : s \in held}
      <3>1. {x \in DOMAIN open : WindowStart(open[x], t) < t} = held
        BY <2>2, <2>3
      <3>2. PICK from, to : /\ from = [s \in held |-> Begun(old.open[s], t)]
                            /\ to = [s \in held |-> t]
        OBVIOUS
      <3>3. BarRows(open, t) = {FundingRow(s, t, FALSE, from[s], to[s]) : s \in held}
        BY <2>2, <2>3, <3>1, <3>2 DEF BarRows
      <3>4. PICK rows, stub : rows = BarRows(open, t) /\ stub = FALSE
        OBVIOUS
      <3>5. rows = RowsFor(held, t, stub, from, to)
        BY <3>3, <3>4 DEF RowsFor
      <3>6. WindowsIn(rows) = WindowsFor(held, t, from, to)
        BY <3>5, WindowsOfRows
      <3>7. WindowsFor(held, t, from, to) = {<<s, t, Begun(old.open[s], t), t>> : s \in held}
        BY <3>2 DEF WindowsFor
      <3> QED
        BY <3>4, <3>6, <3>7 DEF WindowsIn
    <2>5. {<<r.symbol, r.bar, r.from, r.to>> : r \in StubRows(Exits(open, t), t)}
            = {<<s, t, t, fill[s]>> : s \in DOMAIN open \ active}
      <3>1. \A s \in DOMAIN open \ active : FillAt(s, t) = fill[s]
        BY <1>5, <1>7
      <3>2. PICK from : from = [s \in DOMAIN open \ active |-> t]
        OBVIOUS
      <3>3. StubRows(Exits(open, t), t)
              = {FundingRow(s, t, TRUE, from[s], fill[s]) : s \in DOMAIN open \ active}
        BY <1>10, <3>1, <3>2 DEF StubRows
      <3>4. PICK rows, gone, stub :
                /\ rows = StubRows(Exits(open, t), t) /\ gone = DOMAIN open \ active /\ stub = TRUE
        OBVIOUS
      <3>5. rows = RowsFor(gone, t, stub, from, fill)
        BY <3>3, <3>4 DEF RowsFor
      <3>6. WindowsIn(rows) = WindowsFor(gone, t, from, fill)
        BY <3>5, WindowsOfRows
      <3>7. WindowsFor(gone, t, from, fill) = {<<s, t, t, fill[s]>> : s \in gone}
        BY <3>2, <3>4 DEF WindowsFor
      <3> QED
        BY <3>4, <3>6, <3>7 DEF WindowsIn
    <2>6. \A A, B, C : {<<r.symbol, r.bar, r.from, r.to>> : r \in (A \cup B) \cup C}
              = ({<<r.symbol, r.bar, r.from, r.to>> : r \in A}
                 \cup {<<r.symbol, r.bar, r.from, r.to>> : r \in B})
                \cup {<<r.symbol, r.bar, r.from, r.to>> : r \in C}
      OBVIOUS
    <2> QED
      BY <1>9, <2>1, <2>3, <2>4, <2>5, <2>6
  <1>14. {<<e.bar, e.open>> : e \in new.rows.equity} = old.shape.held \cup {<<t, DOMAIN open>>}
    <2>1. PICK row : /\ row.bar = t /\ row.open = DOMAIN open
                     /\ new.rows.equity = at.rows.equity \cup {row}
      <3>1. PICK row : row = [bar |-> t, open |-> DOMAIN open,
                              funding |-> EquityFunding(at.book.funding, BarRows(open, t),
                                                        StubRows(Exits(open, t), t))]
        OBVIOUS
      <3>2. new.rows.equity = at.rows.equity \cup {row}
        BY <1>3, <3>1 DEF IsBooked
      <3> QED
        BY <3>1, <3>2
    <2>2. <<row.bar, row.open>> = <<t, DOMAIN open>>
      BY <2>1
    <2>3. {<<e.bar, e.open>> : e \in new.rows.equity}
            = {<<e.bar, e.open>> : e \in at.rows.equity} \cup {<<row.bar, row.open>>}
      BY <2>1
    <2> QED
      BY <1>9, <2>2, <2>3
  <1>15. Skeleton(new) = NextSkeleton(old, t, active, fill)
    <2>1. Shape(new.rows) = [fills |-> new.rows.fills,
                             windows |-> {<<r.symbol, r.bar, r.from, r.to>> : r \in new.rows.funding},
                             held |-> {<<e.bar, e.open>> : e \in new.rows.equity}]
      BY DEF Shape
    <2>2. Shape(new.rows) = NextSkeleton(old, t, active, fill).shape
      <3>1. DOMAIN old.open = DOMAIN open
        BY <1>9
      <3>2. PICK step : step = NextSkeleton(old, t, active, fill).shape
        OBVIOUS
      <3>3. /\ step = [fills |-> step.fills, windows |-> step.windows, held |-> step.held]
            /\ step.fills = old.shape.fills \cup (Filled(DOMAIN open \ active, t, "exit", fill)
                                                 \cup Filled(active \ DOMAIN open, t, "entry", fill))
            /\ step.windows = (old.shape.windows
                               \cup {<<s, t, Begun(old.open[s], t), t>> :
                                       s \in {x \in DOMAIN open : Begun(old.open[x], t) < t}})
                              \cup {<<s, t, t, fill[s]>> : s \in DOMAIN open \ active}
            /\ step.held = old.shape.held \cup {<<t, DOMAIN open>>}
        BY <3>1, <3>2 DEF NextSkeleton
      <3>4. /\ step.fills = new.rows.fills
            /\ step.windows = {<<r.symbol, r.bar, r.from, r.to>> : r \in new.rows.funding}
            /\ step.held = {<<e.bar, e.open>> : e \in new.rows.equity}
        BY <1>12, <1>13, <1>14, <3>3
      <3> QED
        BY <2>1, <3>2, <3>3, <3>4
    <2>3. [s \in DOMAIN new.book.open |-> new.book.open[s].filled]
            = NextSkeleton(old, t, active, fill).open
      BY <1>11 DEF NextSkeleton
    <2>4. NextSkeleton(old, t, active, fill)
            = [open |-> NextSkeleton(old, t, active, fill).open,
               shape |-> NextSkeleton(old, t, active, fill).shape]
      BY DEF NextSkeleton
    <2> QED
      BY <2>2, <2>3, <2>4 DEF Skeleton
  <1> QED
    BY <1>2, <1>4, <1>6, <1>8, <1>15

\* g is the replay.
Follows(g) ==
    /\ g[NoBar] = Beginning
    /\ \A n \in 0..Horizon : g[n] = IF n \in Eligible THEN BookBar(g[n - 1], n) ELSE g[n - 1]
\* What g booked up to w had next bars.
ResolvedUpTo(g, w) ==
    \A n \in 0..Horizon : (n <= w /\ n \in Eligible) => Resolved(g[n - 1].book.open, n)

\* The three facts about a state that are needed of the next one too.
ReplayFollows == \A g : g = Replay => Follows(g)
BookingAccounts ==
    FilesOK => \A at \in Accounts, t \in Eligible :
                  Resolved(at.book.open, t) => BookBar(at, t) \in Accounts
BookingSkeletons ==
    \A at \in Accounts, t \in Bars : \A new :
        (log[t] \in SUBSET Symbols /\ new = BookBar(at, t)) =>
            Skeleton(new) = NextSkeleton(Skeleton(at), t, log[t], NextFills(t))

LEMMA ReplayFacts == ReplayFollows /\ BookingAccounts /\ BookingSkeletons
  <1>1. ReplayFollows
    BY ReplayIs DEF ReplayFollows, Follows
  <1>2. BookingAccounts
    BY BookingKeepsAccounts DEF BookingAccounts
  <1>3. BookingSkeletons
    BY BookBarSkeleton DEF BookingSkeletons
  <1> QED
    BY <1>1, <1>2, <1>3

LEMMA ReplayFactsNext == (ReplayFollows /\ BookingAccounts /\ BookingSkeletons)'
  BY ReplayFacts, PTL

\* From bar to bar.
LEMMA BarInduction ==
    ASSUME NEW S, NoBar \in S, \A n \in 0..Horizon : n - 1 \in S => n \in S
    PROVE  NoBar..Horizon \subseteq S
  <1> DEFINE T == {k \in Nat : k <= Horizon + 1 => k - 1 \in S}
  <1>1. Horizon \in Nat /\ NoBar = -1
    BY EngineAssumption DEF NoBar
  <1>2. 0 \in T
    BY <1>1
  <1>3. ASSUME NEW k \in Nat, k \in T PROVE k + 1 \in T
    <2>1. ASSUME k + 1 <= Horizon + 1 PROVE k \in S
      <3>1. k \in 0..Horizon /\ k <= Horizon + 1
        BY <1>1, <2>1
      <3> QED
        BY <1>3, <3>1
    <2>2. k + 1 \in Nat /\ (k + 1) - 1 = k
      OBVIOUS
    <2> QED
      BY <2>1, <2>2
  <1>4. Nat \subseteq T
    <2>1. \A k \in Nat : k \in T => k + 1 \in T
      BY <1>3
    <2> HIDE DEF T
    <2> QED
      BY <1>2, <2>1, NumberInduction
  <1>5. ASSUME NEW n \in NoBar..Horizon PROVE n \in S
    <2>1. n + 1 \in Nat /\ n + 1 <= Horizon + 1 /\ (n + 1) - 1 = n
      BY <1>1
    <2> QED
      BY <1>4, <2>1
  <1> QED
    BY <1>5

LEMMA BeginningIsAnAccount ==
    /\ Beginning \in Accounts
    /\ Beginning.book.watermark = NoBar
  <1>1. [s \in {} |-> 0] \in [{} -> Position] /\ {} \in SUBSET Symbols
    OBVIOUS
  <1>2. [s \in {} |-> 0] \in UNION {[D -> Position] : D \in SUBSET Symbols}
    BY <1>1
  <1>3. NewBook \in Books
    BY <1>2 DEF NewBook, Books
  <1>4. NoRows \in Tables
    BY DEF NoRows, Tables
  <1> QED
    BY <1>3, <1>4 DEF Accounts, Beginning, NewBook

\* What a bar adds depends on the fills of those acted on and no others.
LEMMA SkeletonsAgree ==
    ASSUME NEW old, NEW t, NEW active, NEW f, NEW h,
           \A s \in (DOMAIN old.open \ active) \cup (active \ DOMAIN old.open) : f[s] = h[s]
    PROVE  NextSkeleton(old, t, active, f) = NextSkeleton(old, t, active, h)
  <1>1. \A s \in active : s \notin DOMAIN old.open => f[s] = h[s]
    OBVIOUS
  <1>2. [s \in active |-> IF s \in DOMAIN old.open THEN old.open[s] ELSE f[s]]
          = [s \in active |-> IF s \in DOMAIN old.open THEN old.open[s] ELSE h[s]]
    BY <1>1
  <1>3. /\ Filled(DOMAIN old.open \ active, t, "exit", f) = Filled(DOMAIN old.open \ active, t, "exit", h)
        /\ Filled(active \ DOMAIN old.open, t, "entry", f) = Filled(active \ DOMAIN old.open, t, "entry", h)
    BY DEF Filled
  <1>4. {<<s, t, t, f[s]>> : s \in DOMAIN old.open \ active}
          = {<<s, t, t, h[s]>> : s \in DOMAIN old.open \ active}
    OBVIOUS
  <1> QED
    BY <1>2, <1>3, <1>4 DEF NextSkeleton

\* A fill stays where it is, however the files grow.
LEMMA FillStays ==
    ASSUME FilesOK, FilesOK', FilesGrow, NEW s \in Symbols \ refilled', NEW t \in Bars,
           NextBars(s, t) # {}
    PROVE  NextBars(s, t)' # {} /\ FillAt(s, t)' = FillAt(s, t)
  <1>1. PICK u : u = FillAt(s, t)
    OBVIOUS
  <1>2. t \in prices[s] /\ u \in prices[s] /\ u \in Bars /\ FirstBehind(s, t, u)
    BY <1>1, FillAtFacts
  <1>3. prices[s] \subseteq prices'[s] /\ refilled \subseteq refilled' /\ source'.holes[s] = source.holes[s]
    BY DEF FilesGrow
  <1>4. PICK after : after = NextBars(s, t)'
    OBVIOUS
  <1>5. after = {x \in prices'[s] : x > t} /\ after \in SUBSET Bars
    BY <1>2, <1>3, <1>4 DEF NextBars, FilesOK
  <1>6. u \in after
    BY <1>2, <1>3, <1>5 DEF FirstBehind
  <1>7. PICK v : v = Min(after)
    OBVIOUS
  <1>8. v \in after /\ v <= u
    BY <1>5, <1>6, <1>7, LeastBar
  <1>9. v \in Bars \ source.holes[s]
    <2>1. prices'[s] \subseteq Bars \ source'.holes[s]
      BY DEF FilesOK, Served
    <2> QED
      BY <1>3, <1>5, <1>8, <2>1
  <1>10. u <= v
    BY <1>2, <1>3, <1>5, <1>8, <1>9 DEF FirstBehind
  <1>11. u \in Nat /\ v \in Nat
    BY <1>2, <1>9, BarsApart
  <1>12. FillAt(s, t)' = v
    BY <1>4, <1>7 DEF FillAt
  <1> QED
    BY <1>1, <1>4, <1>6, <1>8, <1>10, <1>11, <1>12

\* A bar adds the same, booked when the files had less.
LEMMA BookingAgrees ==
    ASSUME FilesOK, FilesOK', FilesGrow, refilled' = {}, NEW n \in Eligible,
           NEW a \in Accounts, NEW b \in Accounts, Skeleton(a) = Skeleton(b),
           Resolved(a.book.open, n)
    PROVE  /\ Resolved(b.book.open, n)'
           /\ BookBar(a, n) \in Accounts
           /\ \A new : new = BookBar(b, n)' =>
                 new \in Accounts /\ Skeleton(new) = Skeleton(BookBar(a, n))
  <1>1. /\ n \in Bars /\ log[n] \in SUBSET Symbols /\ log'[n] = log[n] /\ n \in Eligible'
    BY LogType DEF Eligible, FilesGrow
  <1>2. PICK held \in SUBSET Symbols : held = DOMAIN a.book.open /\ held = DOMAIN b.book.open
                                       /\ held = DOMAIN Skeleton(a).open
    BY AccountsParts DEF Skeleton
  <1>3. PICK active \in SUBSET Symbols : active = log[n]
    BY <1>1
  <1>4. PICK changed \in SUBSET Symbols : changed = (held \ active) \cup (active \ held)
    OBVIOUS
  <1>5. \A s \in changed : NextBars(s, n) # {}
    BY <1>2, <1>3, <1>4 DEF Resolved, Acted, Entries, Exits
  <1>6. \A s \in changed : NextBars(s, n)' # {} /\ FillAt(s, n)' = FillAt(s, n)
    BY <1>1, <1>5, FillStays
  <1>7. Resolved(b.book.open, n)'
    <2>1. Acted(Entries(b.book.open, n), n)' \cup Acted(Exits(b.book.open, n), n)' = changed
      BY <1>1, <1>2, <1>3, <1>4 DEF Acted, Entries, Exits
    <2> QED
      BY <1>6, <2>1 DEF Resolved
  <1>8. PICK new : new = BookBar(b, n)'
    OBVIOUS
  <1>9. BookBar(a, n) \in Accounts
    BY BookingKeepsAccounts
  <1>10. new \in Accounts
    BY <1>1, <1>7, <1>8, ReplayFactsNext DEF BookingAccounts
  <1>11. PICK f, h : f = NextFills(n) /\ h = NextFills(n)'
    OBVIOUS
  <1>12. \A s \in changed : f[s] = h[s]
    BY <1>6, <1>11 DEF NextFills
  <1>13. Skeleton(BookBar(a, n)) = NextSkeleton(Skeleton(a), n, active, f)
    BY <1>1, <1>3, <1>11, BookBarSkeleton
  <1>14. Skeleton(new) = NextSkeleton(Skeleton(b), n, active, h)
    BY <1>1, <1>3, <1>8, <1>11, ReplayFactsNext DEF BookingSkeletons
  <1>15. NextSkeleton(Skeleton(a), n, active, f) = NextSkeleton(Skeleton(a), n, active, h)
    BY <1>2, <1>4, <1>12, SkeletonsAgree
  <1> QED
    BY <1>7, <1>8, <1>9, <1>10, <1>13, <1>14, <1>15

LEMMA TimesAre ==
    /\ Horizon \in Nat /\ NoBar = -1 /\ Bars \subseteq 0..Horizon
    /\ \A n \in 0..Horizon : n \in NoBar..Horizon /\ n - 1 \in NoBar..Horizon /\ n # NoBar /\ n \in Nat
    /\ \A w \in Bars \cup {NoBar} : w \in NoBar..Horizon /\ w \in Int
  BY EngineAssumption DEF NoBar, Bars

\* The bars of the log, once in it, are followed by later ones only: the
\* observer takes what is closed, and the reference file has no hole filled.
LateOK ==
    Reference \notin refilled =>
        \A u \in DOMAIN log, v \in Bars \ source.holes[Reference] : v <= u => v \in DOMAIN log
LogAhead ==
    Reference \notin refilled' =>
        \A v \in DOMAIN log' \ DOMAIN log, u \in DOMAIN log : u < v

LEMMA LateStep ==
    ASSUME FilesOK, LateOK, [Next]_vars
    PROVE  LateOK' /\ LogAhead /\ FilesGrow
  <1>1. FilesOK' /\ FilesGrow
    <2>1. UNCHANGED fileVars => FilesGrow
      BY DEF fileVars, FilesGrow
    <2> QED
      BY <2>1, FilesStep DEF Environment
  <1>2. CASE Observe
    <2>1. PICK active \in [Closed \ DOMAIN log -> source.signals \cup {{}}] :
              log' = [t \in DOMAIN active \cup DOMAIN log |->
                        IF t \in DOMAIN log THEN log[t] ELSE active[t]]
      BY <1>2 DEF Observe
    <2>2. DOMAIN log' = Closed \cup DOMAIN log
      BY <2>1
    <2>3. UNCHANGED <<now, source, prices, refilled>>
      BY <1>2 DEF Observe
    <2>4. Reference \in Symbols /\ Interval \in Nat
      BY EngineAssumption
    <2>5. /\ prices[Reference] \subseteq Bars \ source.holes[Reference]
          /\ DOMAIN log \subseteq Bars /\ Bars \subseteq Nat /\ now \in Nat
      BY <2>4, LogType, BarsApart DEF FilesOK, Served
    <2>6. ASSUME Reference \notin refilled, NEW u \in Closed, NEW v \in Bars \ source.holes[Reference],
                 v <= u
          PROVE  v \in Closed
      <3>1. u \in prices[Reference] /\ u + Interval <= now
        BY DEF Closed
      <3>2. v \in prices[Reference]
        BY <2>4, <2>6, <3>1 DEF FilesOK
      <3>3. u \in Nat /\ v \in Nat
        BY <2>5, <3>1
      <3>4. v + Interval <= now
        BY <2>4, <2>5, <2>6, <3>1, <3>3
      <3> QED
        BY <3>2, <3>4 DEF Closed
    <2>7. LateOK'
      BY <2>2, <2>3, <2>6 DEF LateOK
    <2>8. LogAhead
      <3> SUFFICES ASSUME Reference \notin refilled,
                          NEW v \in DOMAIN log' \ DOMAIN log, NEW u \in DOMAIN log
                   PROVE  u < v
        BY <2>3 DEF LogAhead
      <3>1. v \in prices[Reference]
        BY <2>2 DEF Closed
      <3>2. ~(v <= u)
        BY <2>5, <3>1 DEF LateOK
      <3>3. u \in Nat /\ v \in Nat
        BY <2>5, <3>1
      <3> QED
        BY <3>2, <3>3
    <2> QED
      BY <1>1, <2>7, <2>8
  <1>3. CASE log' = log
    <2>1. LogAhead
      BY <1>3 DEF LogAhead
    <2>2. LateOK'
      <3> SUFFICES ASSUME Reference \notin refilled'
                   PROVE  \A u \in DOMAIN log, v \in Bars \ source'.holes[Reference] :
                              v <= u => v \in DOMAIN log
        BY <1>3 DEF LateOK
      <3>1. Reference \in Symbols \ refilled'
        BY EngineAssumption
      <3>2. source'.holes[Reference] = source.holes[Reference] /\ Reference \notin refilled
        BY <1>1, <3>1 DEF FilesGrow
      <3> QED
        BY <3>2 DEF LateOK
    <2> QED
      BY <1>1, <2>1, <2>2
  <1>4. Observe \/ log' = log
    BY DEF Next, Tick, FullRefresh, CutRefresh, Refresh, Refill, Start, Step, Commit, Abort, vars
  <1> QED
    BY <1>2, <1>3, <1>4

\* The replay of what is booked is the same, whatever the files and the log got
\* behind it.
LEMMA ReplaysAgree ==
    ASSUME FilesOK, FilesOK', FilesGrow, LogAhead, refilled' = {},
           NEW w \in DOMAIN log \cup {NoBar},
           NEW g, Follows(g), NEW h, Follows(h)', ResolvedUpTo(g, w)
    PROVE  /\ \A n \in NoBar..Horizon :
                  n <= w => g[n] \in Accounts /\ h[n] \in Accounts /\ Skeleton(h[n]) = Skeleton(g[n])
           /\ ResolvedUpTo(h, w)'
  <1>1. /\ w \in Int /\ w \in NoBar..Horizon /\ DOMAIN log \subseteq Bars /\ Bars \subseteq 0..Horizon
        /\ Horizon \in Nat
    BY LogType, TimesAre
  <1>2. ASSUME NEW n \in 0..Horizon, n <= w PROVE n \in Eligible' <=> n \in Eligible
    <2>1. w \in DOMAIN log
      BY <1>2, TimesAre
    <2>2. n \in DOMAIN log' => n \in DOMAIN log
      BY <1>1, <1>2, <2>1 DEF LogAhead
    <2> QED
      BY <2>2 DEF FilesGrow, Eligible
  <1> DEFINE same(n) == /\ g[n] \in Accounts /\ h[n] \in Accounts
                        /\ Skeleton(h[n]) = Skeleton(g[n])
             fine == {n \in Int : n <= w => same(n)}
  <1>3. NoBar \in fine
    <2>1. g[NoBar] = Beginning /\ h[NoBar] = Beginning
      BY DEF Follows, Beginning, NewBook, NoRows
    <2> QED
      BY <2>1, BeginningIsAnAccount, TimesAre
  <1>4. ASSUME NEW n \in 0..Horizon, n - 1 \in fine, n <= w
        PROVE  same(n) /\ (n \in Eligible => Resolved(h[n - 1].book.open, n)')
    <2>1. same(n - 1)
      BY <1>1, <1>4
    <2>2. g[n] = IF n \in Eligible THEN BookBar(g[n - 1], n) ELSE g[n - 1]
      BY DEF Follows
    <2>3. CASE n \notin Eligible
      <3>1. h[n] = h[n - 1]
        BY <1>2, <1>4, <2>3 DEF Follows
      <3> QED
        BY <2>1, <2>2, <2>3, <3>1
    <2>4. CASE n \in Eligible
      <3>1. PICK a, b : a = g[n - 1] /\ b = h[n - 1]
        OBVIOUS
      <3>2. a \in Accounts /\ b \in Accounts /\ Skeleton(a) = Skeleton(b)
        BY <2>1, <3>1
      <3>3. Resolved(a.book.open, n)
        BY <1>4, <2>4, <3>1 DEF ResolvedUpTo
      <3>4. h[n] = BookBar(b, n)'
        BY <1>2, <1>4, <2>4, <3>1 DEF Follows
      <3>5. /\ Resolved(b.book.open, n)' /\ BookBar(a, n) \in Accounts
            /\ h[n] \in Accounts /\ Skeleton(h[n]) = Skeleton(BookBar(a, n))
        BY <2>4, <3>2, <3>3, <3>4, BookingAgrees
      <3> QED
        BY <2>2, <2>4, <3>1, <3>5
    <2> QED
      BY <2>3, <2>4
  <1>5. NoBar..Horizon \subseteq fine
    <2>1. ASSUME NEW n \in 0..Horizon, n - 1 \in fine PROVE n \in fine
      <3> HIDE DEF same
      <3> QED
        BY <1>4, <2>1
    <2> HIDE DEF fine
    <2> QED
      BY <1>3, <2>1, BarInduction
  <1>6. ResolvedUpTo(h, w)'
    <2> SUFFICES ASSUME NEW n \in 0..Horizon, n <= w, n \in Eligible'
                 PROVE  Resolved(h[n - 1].book.open, n)'
      BY DEF ResolvedUpTo
    <2>1. n - 1 \in fine
      BY <1>5, TimesAre
    <2> QED
      BY <1>2, <1>4, <2>1
  <1>7. \A n \in NoBar..Horizon : n <= w => same(n)
    BY <1>5
  <1> QED
    BY <1>6, <1>7

\* The same, of one state.
LEMMA ReplayIsAccounts ==
    ASSUME FilesOK, NEW w \in Int, NEW g, Follows(g), ResolvedUpTo(g, w)
    PROVE  \A n \in NoBar..Horizon : n <= w => g[n] \in Accounts
  <1> DEFINE fine == {n \in Int : n <= w => g[n] \in Accounts}
  <1>1. NoBar \in fine
    BY BeginningIsAnAccount, TimesAre DEF Follows
  <1>2. ASSUME NEW n \in 0..Horizon, n - 1 \in fine PROVE n \in fine
    <2>1. n \in Int
      BY TimesAre
    <2>2. ASSUME n <= w PROVE g[n] \in Accounts
      <3>1. g[n - 1] \in Accounts
        BY <1>2, <2>1, <2>2
      <3>2. CASE n \in Eligible
        <4>1. Resolved(g[n - 1].book.open, n)
          BY <2>2, <3>2 DEF ResolvedUpTo
        <4>2. g[n] = BookBar(g[n - 1], n)
          BY <3>2 DEF Follows
        <4> QED
          BY <3>1, <3>2, <4>1, <4>2, BookingKeepsAccounts
      <3>3. CASE n \notin Eligible
        BY <3>1, <3>3 DEF Follows
      <3> QED
        BY <3>2, <3>3
    <2> QED
      BY <2>1, <2>2
  <1>3. NoBar..Horizon \subseteq fine
    <2>1. \A n \in 0..Horizon : n - 1 \in fine => n \in fine
      BY <1>2
    <2> HIDE DEF fine
    <2> QED
      BY <1>1, <2>1, BarInduction
  <1> QED
    BY <1>3

\* One run over the bars that are booked leaves what the runs left.
ReplayOK(at) ==
    refilled = {} =>
        /\ Skeleton(Replay[at.book.watermark]) = Skeleton(at)
        /\ ResolvedUpTo(Replay, at.book.watermark)
ReplayInv ==
    /\ LateOK
    /\ \E at \in Accounts : at = Saved /\ ReplayOK(at)
    /\ \E at \in Accounts : at = Reached /\ ReplayOK(at)

LEMMA ReplayStays ==
    ASSUME FilesOK, FilesOK', FilesGrow, LogAhead, NEW at \in Accounts, PositionsOK(at), ReplayOK(at)
    PROVE  ReplayOK(at)'
  <1> SUFFICES ASSUME refilled' = {}
               PROVE  /\ Skeleton(Replay[at.book.watermark])' = Skeleton(at)
                      /\ ResolvedUpTo(Replay, at.book.watermark)'
    BY DEF ReplayOK
  <1>1. refilled = {}
    BY DEF FilesGrow
  <1>2. PICK w \in DOMAIN log \cup {NoBar} : w = at.book.watermark
    BY DEF PositionsOK
  <1>3. PICK g : g = Replay
    OBVIOUS
  <1>4. PICK h : h = Replay'
    OBVIOUS
  <1>5. Follows(g) /\ Follows(h)'
    BY <1>3, <1>4, ReplayFacts, ReplayFactsNext DEF ReplayFollows
  <1>6. Skeleton(g[w]) = Skeleton(at) /\ ResolvedUpTo(g, w)
    BY <1>1, <1>2, <1>3 DEF ReplayOK
  <1>7. w \in NoBar..Horizon /\ w <= w
    <2>1. w \in Bars \cup {NoBar}
      BY LogType
    <2>2. w \in NoBar..Horizon /\ w \in Int
      BY <2>1, TimesAre
    <2> QED
      BY <2>2
  <1>8. Skeleton(h[w]) = Skeleton(g[w]) /\ ResolvedUpTo(h, w)'
    BY <1>5, <1>6, <1>7, ReplaysAgree
  <1>9. Replay' = h /\ at.book.watermark = w
    BY <1>2, <1>4
  <1> QED
    BY <1>6, <1>8, <1>9 DEF ResolvedUpTo

\* A bar booked behind the others, in whatever run.
LEMMA BookingReplays ==
    ASSUME FilesOK, NEW at \in Accounts, ReplayOK(at),
           NEW t \in Eligible, t > at.book.watermark, Resolved(at.book.open, t),
           \A u \in Pending(at.book) : t <= u
    PROVE  ReplayOK(BookBar(at, t))
  <1> SUFFICES ASSUME refilled = {} PROVE ReplayOK(BookBar(at, t))
    BY DEF ReplayOK
  <1>1. PICK w \in Int : w = at.book.watermark /\ w \in NoBar..Horizon
    BY AccountsParts, TimesAre
  <1>2. PICK g : g = Replay
    OBVIOUS
  <1>3. Follows(g)
    BY <1>2, ReplayFacts DEF ReplayFollows
  <1>4. Skeleton(g[w]) = Skeleton(at) /\ ResolvedUpTo(g, w)
    BY <1>1, <1>2 DEF ReplayOK
  <1>5. t \in Bars /\ log[t] \in SUBSET Symbols /\ t \in 0..Horizon /\ t \in Int /\ w < t
    BY <1>1, LogType, TimesAre DEF Eligible
  <1>6. \A n \in Eligible : w < n => t <= n
    BY <1>1 DEF Pending
  <1>7. g[w] \in Accounts
    <2>1. w <= w
      BY <1>1
    <2> QED
      BY <1>1, <1>3, <1>4, <2>1, ReplayIsAccounts
  <1>8. g[t - 1] = g[w]
    <2> DEFINE fine == {n \in Int : (w <= n /\ n < t) => g[n] = g[w]}
    <2>1. NoBar \in fine
      BY <1>1, TimesAre
    <2>2. ASSUME NEW n \in 0..Horizon, n - 1 \in fine PROVE n \in fine
      <3>1. n \in Int
        BY TimesAre
      <3>2. ASSUME w <= n, n < t PROVE g[n] = g[w]
        <4>1. CASE w = n
          BY <4>1
        <4>2. CASE w < n
          <5>1. w <= n - 1 /\ n - 1 < t
            BY <1>1, <1>5, <3>1, <3>2, <4>2
          <5>2. n \notin Eligible
            BY <1>5, <1>6, <3>1, <3>2, <4>2
          <5>3. g[n] = g[n - 1]
            BY <1>3, <5>2 DEF Follows
          <5> QED
            BY <2>2, <5>1, <5>3
        <4> QED
          BY <1>1, <3>1, <3>2, <4>1, <4>2
      <3> QED
        BY <3>1, <3>2
    <2>3. NoBar..Horizon \subseteq fine
      <3>1. \A n \in 0..Horizon : n - 1 \in fine => n \in fine
        BY <2>2
      <3> HIDE DEF fine
      <3> QED
        BY <2>1, <3>1, BarInduction
    <2>4. t - 1 \in NoBar..Horizon /\ w <= t - 1 /\ t - 1 < t
      BY <1>1, <1>5, TimesAre
    <2> QED
      BY <2>3, <2>4
  <1>9. PICK old, new, all : old = g[w] /\ new = BookBar(at, t) /\ all = BookBar(old, t)
    OBVIOUS
  <1>10. g[t] = all
    BY <1>3, <1>5, <1>8, <1>9 DEF Follows
  <1>11. Skeleton(new) = Skeleton(all)
    <2>1. Skeleton(new) = NextSkeleton(Skeleton(at), t, log[t], NextFills(t))
      BY <1>5, <1>9, BookBarSkeleton
    <2>2. Skeleton(all) = NextSkeleton(Skeleton(old), t, log[t], NextFills(t))
      BY <1>5, <1>7, <1>9, BookBarSkeleton
    <2> QED
      BY <1>4, <1>9, <2>1, <2>2
  <1>12. Resolved(old.book.open, t)
    <2>1. DOMAIN old.book.open = DOMAIN at.book.open
      <3>1. DOMAIN Skeleton(old).open = DOMAIN old.book.open
            /\ DOMAIN Skeleton(at).open = DOMAIN at.book.open
        BY DEF Skeleton
      <3> QED
        BY <1>4, <1>9, <3>1
    <2> QED
      BY <2>1 DEF Resolved, Acted, Entries, Exits
  <1>13. ResolvedUpTo(g, t)
    <2> SUFFICES ASSUME NEW n \in 0..Horizon, n <= t, n \in Eligible
                 PROVE  Resolved(g[n - 1].book.open, n)
      BY DEF ResolvedUpTo
    <2>1. CASE n <= w
      BY <1>4, <2>1 DEF ResolvedUpTo
    <2>2. CASE ~(n <= w)
      <3>1. n \in Int
        BY TimesAre
      <3>2. n = t
        BY <1>1, <1>5, <1>6, <2>2, <3>1
      <3> QED
        BY <1>8, <1>9, <1>12, <3>2
    <2> QED
      BY <2>1, <2>2
  <1>14. new.book.watermark = t
    <2>1. IsBooked(new, at, at.book.open, t)
      BY <1>5, <1>9, BookBarFacts
    <2>2. new.book = [watermark |-> t,
                      funding |-> at.book.funding + Amount(NewFunding(at.book.open, t)),
                      open |-> new.book.open]
      BY <2>1 DEF IsBooked
    <2> QED
      BY <2>2
  <1> QED
    BY <1>2, <1>9, <1>10, <1>11, <1>13, <1>14 DEF ReplayOK

LEMMA ReplayInit ==
    Init => ReplayInv
  <1> SUFFICES ASSUME Init PROVE ReplayInv
    OBVIOUS
  <1>1. book = NewBook /\ ledger = NoRows /\ run = Idle /\ DOMAIN log = {}
    BY DEF Init
  <1>2. Saved = Beginning /\ Reached = Saved
    BY <1>1 DEF Saved, Reached, Beginning
  <1>3. LateOK
    BY <1>1 DEF LateOK
  <1>4. ReplayOK(Beginning)
    <2>1. Beginning.book.watermark = NoBar
      BY BeginningIsAnAccount
    <2>2. Replay[NoBar] = Beginning
      BY ReplayFacts DEF ReplayFollows, Follows
    <2>3. ResolvedUpTo(Replay, NoBar)
      <3>1. \A n \in 0..Horizon : ~(n <= NoBar)
        BY TimesAre
      <3> QED
        BY <3>1 DEF ResolvedUpTo
    <2> QED
      BY <2>1, <2>2, <2>3 DEF ReplayOK
  <1> QED
    BY <1>2, <1>3, <1>4, BeginningIsAnAccount DEF ReplayInv

LEMMA ReplayNext ==
    EngineInv /\ EngineInv' /\ ReplayInv /\ [Next]_vars => ReplayInv'
  <1> SUFFICES ASSUME EngineInv, EngineInv', ReplayInv, [Next]_vars PROVE ReplayInv'
    OBVIOUS
  <1>1. FilesOK /\ FilesOK' /\ LateOK
    BY DEF EngineInv, ReplayInv
  <1>2. LateOK' /\ LogAhead /\ FilesGrow
    BY <1>1, LateStep
  <1>3. PICK at \in Accounts : at = Saved /\ PositionsOK(at) /\ ReplayOK(at)
    BY DEF EngineInv, ReplayInv, AccountsOK
  <1>4. PICK by \in Accounts : by = Reached /\ PositionsOK(by) /\ ReplayOK(by)
    BY DEF EngineInv, ReplayInv, AccountsOK
  <1>5. ReplayOK(at)' /\ ReplayOK(by)'
    BY <1>1, <1>2, <1>3, <1>4, ReplayStays
  <1>6. CASE UNCHANGED <<Saved, Reached>>
    BY <1>2, <1>3, <1>4, <1>5, <1>6 DEF ReplayInv
  <1>7. CASE UNCHANGED Saved /\ Reached' = Saved
    BY <1>2, <1>3, <1>5, <1>7 DEF ReplayInv
  <1>8. CASE UNCHANGED Reached /\ Saved' = Reached
    BY <1>2, <1>4, <1>5, <1>8 DEF ReplayInv
  <1>9. CASE UNCHANGED <<fileVars, Saved>> /\ \E t \in Bars : BooksBar(t)
    <2>1. PICK t \in Bars : BooksBar(t)
      BY <1>9
    <2>2. /\ t \in Eligible /\ t > by.book.watermark /\ Resolved(by.book.open, t)
          /\ Reached' = BookBar(by, t) /\ \A u \in Pending(by.book) : t <= u
      BY <1>4, <2>1 DEF BooksBar
    <2>3. PICK new : new = BookBar(by, t)
      OBVIOUS
    <2>4. ReplayOK(new)
      BY <1>1, <1>4, <2>2, <2>3, BookingReplays
    <2>5. new = Reached' /\ \E x \in Accounts : x = Reached' /\ PositionsOK(x)'
      BY <2>2, <2>3 DEF EngineInv, AccountsOK
    <2>6. new \in Accounts /\ PositionsOK(new)'
      BY <2>5
    <2>7. PositionsOK(new)
      <3>1. BookBar(by, t) \in Accounts /\ AccountsOK(BookBar(by, t))
        <4>1. AccountsOK(by) /\ (lane = "jsonl" => BatchCovered)
          BY <1>4, <2>1 DEF EngineInv, RunOK, BooksBar
        <4> QED
          BY <1>1, <1>4, <2>2, <4>1, BookingKeepsOK
      <3> QED
        BY <2>3, <3>1 DEF AccountsOK
    <2>8. ReplayOK(new)'
      BY <1>1, <1>2, <2>4, <2>6, <2>7, ReplayStays
    <2> QED
      BY <1>2, <1>3, <1>5, <1>9, <2>5, <2>6, <2>8 DEF ReplayInv
  <1> QED
    BY <1>6, <1>7, <1>8, <1>9, EngineKinds

\* One run over the bars that are booked, with the files as they are, leaves
\* what the runs left, and every bar of it has the next bars it needs.
THEOREM ReplayInvariant == Spec => []ReplayInv
  <1>1. Init => ReplayInv
    BY ReplayInit
  <1>2. EngineInv /\ EngineInv' /\ ReplayInv /\ [Next]_vars => ReplayInv'
    BY ReplayNext
  <1> QED
    BY <1>1, <1>2, EngineInvariant, PTL DEF Spec

\* How many runs the bars were booked in makes no difference (engine.py:225-237).
THEOREM BatchesAgree == Spec => []BatchesDoNotMatter
  <1>1. ASSUME ReplayInv PROVE BatchesDoNotMatter
    <2>1. PICK at \in Accounts : at = Saved /\ ReplayOK(at)
      BY <1>1 DEF ReplayInv
    <2>2. at.book = book /\ at.rows = ledger
      BY <2>1 DEF Saved
    <2> SUFFICES ASSUME refilled = {} PROVE Shape(Replay[book.watermark].rows) = Shape(ledger)
      BY DEF BatchesDoNotMatter
    <2>3. Skeleton(Replay[book.watermark]) = Skeleton(at)
      BY <2>1, <2>2 DEF ReplayOK
    <2>4. \A x : Skeleton(x).shape = Shape(x.rows)
      BY DEF Skeleton
    <2> QED
      BY <2>2, <2>3, <2>4
  <1> QED
    BY <1>1, ReplayInvariant, PTL
=============================================================================
