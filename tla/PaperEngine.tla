---------------------------- MODULE PaperEngine ----------------------------
(***************************************************************************)
(* The accounting engine of the paper lanes, quantbot/paper/engine.py, with *)
(* what feeds it: the refresh of the price and funding files, the observer, *)
(* the freshness gate and the funding-coverage gate of each lane            *)
(* (quantbot/paper/runner.py, quantbot/paper/sqlite_writer.py).             *)
(*                                                                         *)
(* Time is counted in ticks, of which Interval make a bar; a bar is named   *)
(* by its opening time.  Nothing else happens while the engine is at work:  *)
(* what may, and runs that die, are PaperRun's and SqliteLane's subject.     *)
(*                                                                         *)
(* Abstractions.  A funding row is its time, a second and whether a         *)
(* fraction follows; its rate and the mark of the position are left out, so *)
(* that an amount is the set of rows it was charged for.  Prices, fees and  *)
(* profit are left out.  What the observer decides is arbitrary, and fixed  *)
(* once published.                                                         *)
(***************************************************************************)
EXTENDS Integers, Sequences, FiniteSets, FiniteSetsExt

CONSTANTS
    Symbols,
    Reference,  \* the symbol whose bars are the observer's time line
    Interval,   \* bar_interval_hours
    Horizon,    \* bound: the end of time
    Forward,    \* forward_start_ts
    MaxStale,   \* max_bar_staleness_hours
    Lanes,      \* the lanes in use: "jsonl", "sqlite"
    Order,      \* the symbols in the order of the refresh
    MaxFaults,  \* bound: refreshes that do not get all files, and holes the
                \* exchange fills later
    Sources     \* what the exchange may have, by symbol, and the sets of symbols
                \* the observer may find active in it: [holes, settled, signals]

ASSUME EngineAssumption ==
    /\ Reference \in Symbols
    /\ Interval \in Nat \ {0} /\ Horizon \in Nat /\ Forward \in Nat /\ MaxStale \in Nat
    /\ MaxFaults \in Nat
    /\ Order \in Seq(Symbols) /\ {Order[i] : i \in DOMAIN Order} = Symbols
    /\ Lanes \subseteq {"jsonl", "sqlite"}

Settlements == [at : Int, late : BOOLEAN]
ASSUME SourcesAssumption ==
    /\ Sources \subseteq [holes : [Symbols -> SUBSET Nat],
                          settled : [Symbols -> SUBSET Settlements],
                          signals : SUBSET SUBSET Symbols]
    /\ \A src \in Sources, s \in Symbols : IsFiniteSet(src.settled[s])

Bars == {t \in 0..Horizon : t % Interval = 0}
NoBar == -1

VARIABLES
    now,
    source,     \* one of Sources
    prices,     \* the price files: symbol -> its bars
    rates,      \* the funding files: symbol -> its rows
    log,        \* observation_log.json: bar -> active symbols
    lane,
    book,       \* the state a run starts from
    ledger,     \* the rows of all runs
    run,        \* the engine at work: [book, rows]
    faults,     \* how much of MaxFaults is spent
    refilled    \* the symbols that had a hole filled

vars == <<now, source, prices, rates, log, lane, book, ledger, run, faults, refilled>>

-----------------------------------------------------------------------------
(* Funding rows and windows (from, to].  The engine cuts a row's time down   *)
(* to its second.                                                           *)

Charged(rows, from, to) == {r \in rows : from < r.at /\ r.at <= to}

\* The coverage gate keeps the fraction: a row in the second of a boundary is
\* taken to be at that boundary, the open one first.
Instant(row) == 2 * row.at + (IF row.late THEN 1 ELSE 0)
SameSecond(row, second) == Instant(row) - 2 * second \in {0, 1}
\* Mutant: a row is at the end of the window only to the millisecond.
AcceptedExactly(rows, from, to) ==
    {r \in rows : 2 * from < Instant(r) /\ Instant(r) <= 2 * to}
Accepted(rows, from, to) ==
    {r \in rows :
        /\ ~SameSecond(r, from)
        /\ SameSecond(r, to) \/ (2 * from < Instant(r) /\ Instant(r) <= 2 * to)}
\* Mutant: two rows anywhere in the window are ambiguous.
SingleRowWindow(rows, from, to) == Cardinality(Accepted(rows, from, to)) = 1
\* Two rows at the end of the window are ambiguous.
CleanWindow(rows, from, to) ==
    LET accepted == Accepted(rows, from, to)
    IN accepted # {} /\ Cardinality({r \in accepted : SameSecond(r, to)}) <= 1

-----------------------------------------------------------------------------
(* One bar.                                                                 *)

\* PriceBook.next_bar: the row behind the one of bar t, in the symbol's file.
NextBars(s, t) == IF t \in prices[s] THEN {u \in prices[s] : u > t} ELSE {}
\* Mutant: the fill is at the decision bar.
FillAtDecision(s, t) == t
FillAt(s, t) == Min(NextBars(s, t))

FundingRow(s, t, stub, from, to) ==
    [symbol |-> s, bar |-> t, stub |-> stub, from |-> from, to |-> to,
     events |-> Charged(rates[s], from, to)]
\* Mutant: the window is not clamped to the fill.
WindowUnclamped(position, t) == t - Interval
WindowStart(position, t) == Max({t - Interval, position.filled})
BarRows(open, t) ==
    {FundingRow(s, t, FALSE, WindowStart(open[s], t), t) :
        s \in {x \in DOMAIN open : WindowStart(open[x], t) < t}}
StubRows(exits, t) == {FundingRow(s, t, TRUE, t, FillAt(s, t)) : s \in exits}

\* The settlements of all rows, one charge for each.
Amount(rows) == Cardinality(UNION {{r} \X r.events : r \in rows})
Of(s, rows) == {r \in rows : r.symbol = s}

Fills(symbols, t, kind) ==
    {[symbol |-> s, bar |-> t, kind |-> kind, at |-> FillAt(s, t)] : s \in symbols}

Idle == [rows |-> {}]
NoRows == [fills |-> {}, funding |-> {}, trades |-> {}, equity |-> {}]
AddRows(all, new) ==
    [fills |-> all.fills \cup new.fills, funding |-> all.funding \cup new.funding,
     trades |-> all.trades \cup new.trades, equity |-> all.equity \cup new.equity]

\* Mutant: the equity row is written before the stubs are accrued.
EquityBeforeStubs(cum, barRows, stubRows) == cum + Amount(barRows)
EquityFunding(cum, barRows, stubRows) == cum + Amount(barRows) + Amount(stubRows)

\* Bar t on the book the engine has reached.
Booked(at, t, entries, exits) ==
    LET open == at.book.open
        barRows == BarRows(open, t)
        stubs == StubRows(exits, t)
        accrued(s) == open[s].charged + Amount(Of(s, barRows \cup stubs))
    IN [book |->
          [watermark |-> t,
           funding |-> at.book.funding + Amount(barRows \cup stubs),
           open |-> [s \in (DOMAIN open \ exits) \cup entries |->
                       IF s \in entries
                       THEN [entered |-> t, filled |-> FillAt(s, t), charged |-> 0]
                       ELSE [open[s] EXCEPT !.charged = accrued(s)]]],
        rows |-> AddRows(at.rows,
          [fills   |-> Fills(exits, t, "exit") \cup Fills(entries, t, "entry"),
           funding |-> barRows \cup stubs,
           trades  |-> {[symbol |-> s, entry |-> open[s].entered, exit |-> t,
                         charged |-> accrued(s)] : s \in exits},
           equity  |-> {[bar |-> t, open |-> DOMAIN open,
                         funding |-> EquityFunding(at.book.funding, barRows, stubs)]}])]

Entries(open, t) == log[t] \ DOMAIN open
Exits(open, t) == DOMAIN open \ log[t]
\* Mutant: a symbol without a next bar is passed over.
ActedWithNextBar(changed, t) == {s \in changed : NextBars(s, t) # {}}
Acted(changed, t) == changed

BookBar(at, t) ==
    Booked(at, t, Acted(Entries(at.book.open, t), t), Acted(Exits(at.book.open, t), t))
\* A bar is deferred when a symbol it acts on has no next bar.
Resolved(open, t) ==
    \A s \in Acted(Entries(open, t), t) \cup Acted(Exits(open, t), t) : NextBars(s, t) # {}

NewBook == [watermark |-> NoBar, funding |-> 0, open |-> [s \in {} |-> 0]]

Eligible == {t \in DOMAIN log : t >= Forward}
Pending(b) == {t \in Eligible : t > b.watermark}

-----------------------------------------------------------------------------
(* The gates.                                                               *)

\* check_freshness: the age of the newest eligible bar, or of the newest one.
Newest == Max(IF Eligible # {} THEN Eligible ELSE DOMAIN log)
Fresh == DOMAIN log # {} /\ now - Newest <= MaxStale

\* The JSONL lane, before the engine: the interval before every eligible bar,
\* for every symbol that has a price file.
Listed == {s \in Symbols : prices[s] # {}}
BatchCovered ==
    \A s \in Listed, t \in Eligible : CleanWindow(rates[s], t - Interval, t)

\* The SQLite lane, after the engine: the windows it emitted.
WindowsCovered(rows) ==
    \A r \in rows : r.from < r.to =>
        r.events # {} /\ CleanWindow(rates[r.symbol], r.from, r.to)

-----------------------------------------------------------------------------
(* The system.                                                              *)

\* qnty-data-refresh.sh overwrites the price files, then the funding files, with
\* all that the exchange has, the open bar included.
Served(s, t) == {u \in Bars : u <= t} \ source.holes[s]
Settled(s, t) == {r \in source.settled[s] : r.at <= t}

Init ==
    /\ now = 0
    /\ source \in Sources
    /\ prices = [s \in Symbols |-> Served(s, 0)]
    /\ rates = [s \in Symbols |-> Settled(s, 0)]
    /\ log = [t \in {} |-> {}]
    /\ lane \in Lanes
    /\ book = NewBook /\ ledger = NoRows /\ run = Idle
    /\ refilled = {} /\ faults = 0

\* The timers are set a few minutes after a bar opens.
Tick ==
    /\ run = Idle
    /\ now < Horizon
    /\ now' = now + Interval
    /\ UNCHANGED <<source, prices, rates, log, lane, book, ledger, run, faults, refilled>>

Refresh(priced, funded) ==
    /\ run = Idle
    /\ prices' = [s \in Symbols |-> IF s \in priced THEN Served(s, now) ELSE prices[s]]
    /\ rates' = [s \in Symbols |-> IF s \in funded THEN Settled(s, now) ELSE rates[s]]
    /\ UNCHANGED <<now, source, log, lane, book, ledger, run, refilled>>

FullRefresh == Refresh(Symbols, Symbols) /\ UNCHANGED faults
\* The first symbol whose prices do not come ends it; one whose funding does
\* not come is passed over.
CutRefresh ==
    /\ faults < MaxFaults /\ faults' = faults + 1
    /\ \/ \E n \in 1..(Len(Order) - 1) : Refresh({Order[i] : i \in 1..n}, {})
       \/ \E funded \in SUBSET Symbols : funded # Symbols /\ Refresh(Symbols, funded)

\* The exchange completes its history.
Refill(s) ==
    \E t \in source.holes[s] :
        /\ run = Idle /\ t <= now
        /\ faults < MaxFaults /\ faults' = faults + 1
        /\ source' = [source EXCEPT !.holes[s] = @ \ {t}]
        /\ refilled' = refilled \cup {s}
        /\ UNCHANGED <<now, prices, rates, log, lane, book, ledger, run>>

\* run_validation_v2.py: the bars of the reference file that the clock says
\* are closed.  What it decides before forward_start_ts is not used.
Closed == {t \in prices[Reference] : t + Interval <= now}
Observe ==
    /\ run = Idle
    /\ \E active \in [Closed \ DOMAIN log -> source.signals \cup {{}}] :
          /\ \A t \in DOMAIN active : IF t < Forward THEN active[t] = {}
                                      ELSE active[t] \in source.signals
          /\ log' = [t \in DOMAIN active \cup DOMAIN log |->
                       IF t \in DOMAIN log THEN log[t] ELSE active[t]]
    /\ UNCHANGED <<now, source, prices, rates, lane, book, ledger, run, faults, refilled>>

\* A run that can book a bar begins, behind the gates that come before
\* the engine.
Start ==
    /\ run = Idle
    /\ Fresh /\ Pending(book) # {} /\ Resolved(book.open, Min(Pending(book)))
    /\ lane = "jsonl" => BatchCovered
    /\ run' = [book |-> book, rows |-> NoRows]
    /\ UNCHANGED <<now, source, prices, rates, log, lane, book, ledger, faults, refilled>>

\* run_engine takes the next bar.
Step ==
    /\ run # Idle
    /\ Pending(run.book) # {}
    /\ LET t == Min(Pending(run.book)) IN
          /\ Resolved(run.book.open, t)
          /\ run' = BookBar(run, t)
    /\ UNCHANGED <<now, source, prices, rates, log, lane, book, ledger, faults, refilled>>

\* run_engine returns when it has no bar left or meets one it has to defer.
Finished ==
    /\ run # Idle
    /\ Pending(run.book) # {} => ~Resolved(run.book.open, Min(Pending(run.book)))
Accepts == lane = "sqlite" => WindowsCovered(run.rows.funding)

Commit ==
    /\ Finished /\ Accepts
    /\ book' = run.book
    /\ ledger' = AddRows(ledger, run.rows)
    /\ run' = Idle
    /\ UNCHANGED <<now, source, prices, rates, log, lane, faults, refilled>>

Abort ==
    /\ Finished /\ ~Accepts
    /\ run' = Idle
    /\ UNCHANGED <<now, source, prices, rates, log, lane, book, ledger, faults, refilled>>

Next ==
    \/ Tick
    \/ FullRefresh \/ CutRefresh
    \/ \E s \in Symbols : Refill(s)
    \/ Observe
    \/ Start \/ Step \/ Commit \/ Abort

\* Each command has a timer, and the engine ends.  That the commands wait for
\* the engine must not keep them from their turn.
Fairness ==
    /\ SF_vars(FullRefresh) /\ SF_vars(Observe) /\ SF_vars(Start)
    /\ WF_vars(Step \/ Commit \/ Abort)

Spec == Init /\ [][Next]_vars /\ Fairness

-----------------------------------------------------------------------------
(* Properties.                                                              *)

\* A fill is at a bar behind the bar that decided it (fill_model
\* next_bar_open_pessimistic); the watermark is an observed bar.
TypeOK ==
    /\ book.watermark \in DOMAIN log \cup {NoBar}
    /\ DOMAIN book.open \subseteq Symbols
    /\ \A s \in DOMAIN book.open :
          /\ book.open[s].entered \in Bars /\ book.open[s].filled \in Bars
          /\ book.open[s].entered < book.open[s].filled
    /\ \A f \in ledger.fills : f.symbol \in Symbols /\ f.bar \in Bars /\ f.at \in Bars /\ f.bar < f.at

BookedBars == {e.bar : e \in ledger.equity}

\* The ticks for which a symbol was held: from the fill of its entry to the
\* fill of its exit, or to the watermark.
FillOf(s, t, kind) == (CHOOSE f \in ledger.fills : f.symbol = s /\ f.bar = t /\ f.kind = kind).at
Ticks(from, to) == (from + 1)..to
HeldTicks(s) ==
    (UNION {Ticks(FillOf(s, trade.entry, "entry"), FillOf(s, trade.exit, "exit")) :
               trade \in Of(s, ledger.trades)})
    \cup (IF s \in DOMAIN book.open THEN Ticks(book.open[s].filled, book.watermark) ELSE {})

\* Between two bars booked one after the other, what lies before the interval
\* of the second.
SkippedTicks ==
    {x \in 1..Horizon : \E t \in BookedBars :
        /\ \E u \in BookedBars : u < x
        /\ x <= t - Interval
        /\ ~\E u \in BookedBars : x <= u /\ u < t}

\* The funding windows of a symbol tile the time it was held (engine.py:243-311,
\* schema section 11): no hour is in two windows, none is charged while the
\* symbol was not held, and the hours that are in none are those in front of a
\* bar whose predecessor the observer missed (engine.py:243).  A hole of a price
\* file that is filled between the entry and the exit is left aside.
HoldingIsTiled ==
    \A s \in Symbols \ refilled :
        LET windows == Of(s, ledger.funding) IN
        /\ \A r, q \in windows : r # q => Ticks(r.from, r.to) \cap Ticks(q.from, q.to) = {}
        /\ UNION {Ticks(r.from, r.to) : r \in windows} \subseteq HeldTicks(s)
        /\ HeldTicks(s) \subseteq (UNION {Ticks(r.from, r.to) : r \in windows}) \cup SkippedTicks

\* Where the exchange settles once in a window, that settlement is charged and
\* no other, although the files may have been behind when the window was booked
\* (funding_coverage.py:563, sqlite_writer.py:1617): the gates let no window
\* pass without it.  The JSONL gate does not look at the exit stubs.
ChargedInFull ==
    \A r \in ledger.funding :
        LET due == Charged(source.settled[r.symbol], r.from, r.to) IN
        /\ r.events \subseteq due
        /\ (Cardinality(due) = 1 /\ (lane = "sqlite" \/ ~r.stub)) => r.events = due

\* What the engine carries from bar to bar agrees with the rows it leaves
\* behind (engine.py:260-311): the funding of an equity row is the funding of
\* all rows up to its bar, a trade has that of its symbol between entry and
\* exit, and so has an open position.
BooksTie ==
    /\ \A e \in ledger.equity :
          e.funding = Amount({r \in ledger.funding : r.bar <= e.bar})
    /\ \A trade \in ledger.trades :
          trade.charged = Amount({r \in Of(trade.symbol, ledger.funding) :
                                     trade.entry < r.bar /\ r.bar <= trade.exit})
    /\ \A s \in DOMAIN book.open :
          book.open[s].charged =
              Amount({r \in Of(s, ledger.funding) : book.open[s].entered < r.bar})

\* How many runs the bars were booked in makes no difference (engine.py:225-237,
\* "defer the WHOLE bar"): one run over them, with the files as they are now,
\* fills, holds and windows the same.  Late bars and filled holes are left aside.
Shape(rows) ==
    [fills |-> rows.fills,
     windows |-> {<<r.symbol, r.bar, r.from, r.to>> : r \in rows.funding},
     held |-> {<<e.bar, e.open>> : e \in rows.equity}]
Replay ==
    LET upto[n \in NoBar..Horizon] ==
            IF n = NoBar THEN [book |-> NewBook, rows |-> NoRows]
            ELSE IF n \in Eligible THEN BookBar(upto[n - 1], n) ELSE upto[n - 1]
    IN upto
BatchesDoNotMatter == refilled = {} => Shape(Replay[book.watermark].rows) = Shape(ledger)

\* What a lane needs: the SQLite lane the symbols it may act on, the JSONL lane
\* all that are listed.
ActedOn == UNION {log[t] : t \in DOMAIN log}
Needed == IF lane = "jsonl" THEN Listed ELSE ActedOn
SourceIsWhole ==
    /\ \A s \in ActedOn : source.holes[s] = {}
    /\ \A s \in Needed, t \in Bars :
          Cardinality({r \in source.settled[s] : r.at = t}) = 1

\* When the exchange's data is, or becomes, whole for the symbols a lane needs,
\* every observed bar is booked in the end: a deferred bar or a run turned away
\* by a gate is taken up again (engine.py:230, runner.py:394).
EveryBarIsBooked == <>[]SourceIsWhole => []<>(Pending(book) = {})
=============================================================================
