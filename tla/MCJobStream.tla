----------------------------- MODULE MCJobStream -----------------------------
EXTENDS JobStream
CONSTANTS concept, w1, w2
=============================================================================
