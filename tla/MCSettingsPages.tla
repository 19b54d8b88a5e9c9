--------------------------- MODULE MCSettingsPages ---------------------------
EXTENDS SettingsPages, TLC
Symmetry == Permutations(Browsers)
=============================================================================
