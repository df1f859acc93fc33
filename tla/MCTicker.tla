------------------------------- MODULE MCTicker -------------------------------
EXTENDS Ticker
CONSTANTS s1, a, b
\* A filter fed by a source and through another filter, and a loop.
LoopWires == {<<s1, a>>, <<s1, b>>, <<a, b>>, <<b, a>>}
\* One chain.
ChainWires == {<<s1, a>>, <<a, b>>}
===============================================================================
