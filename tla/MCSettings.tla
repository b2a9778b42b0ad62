----------------------------- MODULE MCSettings -----------------------------
EXTENDS Settings, TLC

MCWriters == [i \in Items |-> {"cloud"}]
MCReaders == [i \in Items |-> {}]
Symmetry  == Permutations(Keys)
=============================================================================
