------------------------- MODULE MCTradeIdProvider -------------------------
\* TLC instances of TradeIdProvider.
EXTENDS TradeIdProvider, TLC

\* Calls are interchangeable in the safety runs.
CallSymmetry == Permutations(Calls)
=============================================================================
