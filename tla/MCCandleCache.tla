---------------------------- MODULE MCCandleCache ----------------------------
(* CandleCache for TLC: a risk-tab and a scanner window over a calendar     *)
(* with a weekend in it.                                                    *)
EXTENDS CandleCache, TLC

CONSTANTS risk, scanner

Windows == (risk :> 3) @@ (scanner :> 6)
TwoWeeks == {1, 2, 3, 6, 7, 8}

=============================================================================
