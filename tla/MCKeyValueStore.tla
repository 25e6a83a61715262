--------------------------- MODULE MCKeyValueStore ---------------------------
\* The key value store of few threads, keys and values, none of which the
\* module tells from another
EXTENDS KeyValueStore, TLC

Symmetry == Permutations(Threads) \cup Permutations(Keys) \cup Permutations(Values)
==============================================================================
