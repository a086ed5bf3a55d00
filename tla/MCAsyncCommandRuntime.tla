----------------------- MODULE MCAsyncCommandRuntime -----------------------
EXTENDS AsyncCommandRuntime, TLC
CONSTANTS w1, w2, w3
AwaitedSymmetry == Permutations({w1, w2})
=============================================================================
