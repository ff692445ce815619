---------------------------- MODULE MCAccounts ----------------------------
\* Instance for TLC: one account, three processes.
EXTENDS Accounts, TLC

WorkerSymmetry == Permutations(Workers)
===========================================================================
