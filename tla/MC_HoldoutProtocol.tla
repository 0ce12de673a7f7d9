------------------------- MODULE MC_HoldoutProtocol -------------------------
(* Eight bars: two warm-up and slot rows, one purged, one embargoed, two      *)
(* quarantined.  Funding decides two slots, pays in one, falls in the purge   *)
(* and in the quarantine.                                                    *)
EXTENDS HoldoutProtocol

Row(t, v) == [t |-> t, v |-> v]
MCBars == <<Row(2, 1), Row(4, 1), Row(6, 2), Row(8, 1), Row(10, 2), Row(12, 1), Row(14, 2), Row(16, 1)>>
MCFunding == <<Row(3, 1), Row(5, -1), Row(7, 1), Row(11, 1), Row(15, 1)>>
Args(boundary, commit, roles) ==
    [split |-> [boundary |-> boundary, purge |-> 1, embargo |-> 1], commit |-> commit, roles |-> roles]
OneCommand == {Args(5, "c1", BothRoles)}
TwoCommands == {Args(5, "c1", BothRoles), Args(5, "c2", {"bars"})}
Noted == {3, 7}
Quarantined == {7}
Paid == {2, 5}
Deciding == {2}
CloseValues == {1, 2}
RateValues == {-1, 1}
=============================================================================
