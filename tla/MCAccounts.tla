----------------------------- MODULE MCAccounts -----------------------------
EXTENDS AccountClaims
CONSTANTS a1, a2, d1, d2
StartList == <<a1>>
=============================================================================
