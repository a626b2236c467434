---------------------------- MODULE MCAccountLock ----------------------------
EXTENDS AccountLockInv, TLC

Symmetric == Permutations(Calls) \cup Permutations(Sessions) \cup Permutations(Runs)
===============================================================================
