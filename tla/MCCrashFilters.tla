--------------------------- MODULE MCCrashFilters ---------------------------
EXTENDS CrashFilters, TLC

CONSTANTS a, b, h1, h2

MCThreads == {a, b}
MCHostFilters == {h1, h2}
MCChaining == {h2}
MCSymmetry == Permutations(MCThreads)
============================================================================
