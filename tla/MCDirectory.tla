---------------------------- MODULE MCDirectory ----------------------------
EXTENDS Directory
=============================================================================
