--------------------------- MODULE MCVideoRenderer ---------------------------
EXTENDS VideoRenderer
=============================================================================
