----------------------------- MODULE MCServices -----------------------------
EXTENDS Services

(* Three requests a minute; an answer may bring fewer, and few tokens.      *)
Generous == [requests |-> 3, tokens |-> 4]
Stingy   == [requests |-> 2, tokens |-> 1]
TwoRates == {Generous, Stingy}

(* Every limit is reached by the first call; an operator may allow two.    *)
SmallThresholds == [cap |-> 1, restrict |-> 1, shutdown |-> 1]
TwoCalls        == {<<"shutdown", 2>>}
=============================================================================
