----------------------------- MODULE MCHNZTime -----------------------------
(* HNZTime for TLC: from ten minutes before local midnight to ten minutes    *)
(* after UTC midnight, one hour later.                                      *)
EXTENDS HNZTime

\* 22:50 and 23:45 UTC on the third day
BeforeLocalMidnight == 2 * Day + 22 * Hour + 50
BeforeMidnight == 2 * Day + 23 * Hour + 45
AroundMidnights == {BeforeLocalMidnight, BeforeMidnight}
=============================================================================
