--------------------------- MODULE MCSharedTable ---------------------------
EXTENDS SharedTable, TLC
CONSTANTS h1, h2, a, b
===========================================================================
