------------------------ MODULE MCTruthEnumeration ------------------------
EXTENDS TruthEnumeration
=============================================================================
