---------------------------- MODULE MCTimingWheel ----------------------------
EXTENDS TimingWheel, TLC

\* Entries are interchangeable: no property tells one address from another.
EntrySymmetry == Permutations(Entries)
=============================================================================
