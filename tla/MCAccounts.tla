------------------------------ MODULE MCAccounts ------------------------------
EXTENDS Accounts, TLC

CONSTANTS alice, bob, bad, c1, c2, c3, a1, a2

MCRows == 1..5
=============================================================================
