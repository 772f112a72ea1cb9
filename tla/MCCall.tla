------------------------------- MODULE MCCall -------------------------------
EXTENDS CallRefines
=============================================================================
