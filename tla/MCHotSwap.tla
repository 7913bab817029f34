----------------------------- MODULE MCHotSwap -----------------------------
EXTENDS HotSwap

OneRegOrder == <<"shield">>
=============================================================================
