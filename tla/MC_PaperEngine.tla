--------------------------- MODULE MC_PaperEngine ---------------------------
(* Bars of two ticks.  The sources: complete, with a settlement between two  *)
(* bars; a hole in the reference's history, which the exchange may fill; a   *)
(* symbol with such a hole; one that ends, misses a settlement and has one   *)
(* twice.                                                                    *)
EXTENDS PaperEngine
CONSTANTS btc, alt

Grid(times) == {[at |-> t, late |-> FALSE] : t \in times}
Late(times) == {[at |-> t, late |-> TRUE] : t \in times}
Source(btcHoles, altHoles, btcRows, altRows, signals) ==
    [holes |-> [s \in {btc, alt} |-> IF s = btc THEN btcHoles ELSE altHoles],
     settled |-> [s \in {btc, alt} |-> IF s = btc THEN btcRows ELSE altRows],
     signals |-> signals]

MCSymbols == {btc, alt}
MCOrder == <<btc, alt>>
Each == {0, 2, 4, 6, 8, 10}
Rotating == {{alt}, {btc}}
Together == {{}, {btc, alt}}
MCSources ==
    {Source({}, {}, Grid(Each), Late(Each) \cup Grid({5}), Rotating),
     Source({6}, {}, Grid(Each), Late(Each), Together),
     Source({}, {4}, Grid(Each), Grid(Each), Together),
     Source({}, {8, 10}, Grid(Each), Grid({0, 2, 6}) \cup Late({6}), Together)}
=============================================================================
