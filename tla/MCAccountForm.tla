---------------------------- MODULE MCAccountForm ----------------------------
EXTENDS AccountForm
CONSTANTS a1, a2
=============================================================================
