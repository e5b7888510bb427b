------------------------ MODULE MCInteractiveConsole ------------------------
EXTENDS InteractiveConsole

\* Two requests at most are under way, counting those the browser gave up.
FewCalls == Cardinality(stray) + Cardinality({k \in DOMAIN call : ~Idle(k)}) <= 2
=============================================================================
