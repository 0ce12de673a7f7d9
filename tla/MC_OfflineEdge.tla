--------------------------- MODULE MC_OfflineEdge ---------------------------
EXTENDS OfflineEdge, SequencesExt

CONSTANTS s1, s2

\* A day and a bit of bars every eight hours; four ticks are a second here and
\* a second an hour, so that an interval is 32 ticks.
Bars == <<32, 64, 96, 128>>
File(times, rates) ==
    [columns |-> {"time", "value"}, rows |-> [i \in DOMAIN times |-> [t |-> times[i], v |-> rates[i]]]]
Rated(times) == File(times, [i \in DOMAIN times |-> (i % 3) - 1])
Whole == Rated(Bars)

\* One file of each kind of trouble; the first ones join the bars.
FundingFiles ==
    {Whole,
     Rated(<<32, 65, 96, 128>>), Rated(<<33, 64, 96, 128>>), Rated(<<32, 64, 96, 129>>),
     Rated(<<32, 96, 128>>), Rated(<<32, 64, 65, 96, 128>>), Rated(<<32, 64, 96, 128, 160>>),
     Rated(<<32, 80, 96, 128>>), Rated(<<36, 68, 100, 132>>),
     Rated(<<32, 64, Blank, 128>>), Rated(<<32, Malformed, 96, 128>>), Rated(<<32, 96, 64, 128>>),
     File(Bars, <<1, NoRate, 0, 1>>), File(Bars, <<9, -1, 0, 1>>), Rated(<<>>),
     [Whole EXCEPT !.columns = {"time"}]}
BarsFiles ==
    {Whole, Rated(<<32, 64, 128>>), Rated(<<32, 64, 96, 129>>), Rated(<<32, 64, 66, 96, 128>>),
     Rated(<<Blank, 64, 96, 128>>), Rated(<<>>), [Whole EXCEPT !.columns = {"value"}]}
Of(bars, funding) ==
    [role \in Roles |-> [s \in Symbols |-> IF s = s1 THEN IF role = "bars" THEN bars ELSE funding ELSE Whole]]
MCRefreshes(role, s) ==
    IF s = s2 THEN {}
    ELSE IF role = "bars" THEN {Whole, Rated(<<32, 64, 128>>)}
    ELSE {Whole, Rated(<<32, 65, 96, 128>>), Rated(<<33, 64, 96, 129>>), Rated(<<36, 68, 100, 132>>)}

\* A chain where each packet names the ones before it.
Sound7 ==
    [p \in Packets |->
        [digest |-> Place(p), keys |-> "whole", loosened |-> {}, authorizes |-> FALSE,
         bound |-> [q \in Before(p) |-> Place(q)]]]
Flaws(p, c) ==
    {[c EXCEPT !.keys = k] : k \in {"missing", "forbidden"}}
    \cup {[c EXCEPT !.loosened = {d}] : d \in Declarations[p]}
    \cup {[c EXCEPT !.authorizes = TRUE]}
    \cup {[c EXCEPT !.bound = [@ EXCEPT ![q] = 99]] : q \in Before(p)}
MCDrafts(p, now, digest) ==
    LET c == [digest |-> digest, keys |-> "whole", loosened |-> {}, authorizes |-> FALSE,
              bound |-> [q \in Before(p) |-> IF now[q] = {} THEN 0 ELSE (CHOOSE x \in now[q] : TRUE).digest]]
    IN IF p \in {"contract", "manifest", "economic"} THEN {c} ELSE {}

Beginning(d, chain, r, w) ==
    [data |-> d, json |-> [p \in Packets |-> {chain[p]}],
     sidecar |-> [p \in Packets |-> {Place(p)}],
     binding |-> {[digest |-> 1, commit |-> 1]}, commits |-> <<1>>,
     refreshes |-> r, writes |-> w]
Plain == Beginning(Of(Whole, Whole), Sound7, 0, 2)
\* Bars without a column that nothing but the inventory looks for.
Unpriced == [Of(Whole, Whole) EXCEPT !["bars"] = [s \in Symbols |-> [Whole EXCEPT !.columns = {"time"}]]]
MCStarts ==
    {Plain}
    \cup {Beginning(Of(Whole, f), Sound7, 1, 0) : f \in FundingFiles}
    \cup {Beginning(Of(b, Whole), Sound7, 1, 0) : b \in BarsFiles}
    \cup {Beginning(Of(Rated(<<>>), Rated(<<>>)), Sound7, 1, 0), Beginning(Unpriced, Sound7, 0, 0)}
    \cup {Beginning(Of(Whole, Whole), [Sound7 EXCEPT ![p] = c], 0, 0) :
            <<p, c>> \in UNION {{p} \X Flaws(p, Sound7[p]) : p \in Packets}}
    \cup {[Plain EXCEPT !.binding = {}, !.writes = 1],
          [Plain EXCEPT !.binding = {[digest |-> 1, commit |-> 2]}, !.writes = 1],
          [Plain EXCEPT !.sidecar["null"] = {}, !.writes = 1]}

Line == [given |-> Packets, bound |-> TRUE, funding |-> {TRUE}, declared |-> {}, refused |-> FALSE]
MCInvocations ==
    {Line, [Line EXCEPT !.funding = {FALSE}], [Line EXCEPT !.refused = TRUE],
     [Line EXCEPT !.funding = {}],
     [Line EXCEPT !.funding = {}, !.declared = {[from |-> 32, to |-> 128]}],
     [Line EXCEPT !.bound = FALSE, !.given = {"contract"}],
     [Line EXCEPT !.given = {}], [Line EXCEPT !.given = @ \ {"simulation"}],
     [Line EXCEPT !.given = @ \ {"simulation", "economic"}], [Line EXCEPT !.given = @ \ {"economic"}]}
=============================================================================
