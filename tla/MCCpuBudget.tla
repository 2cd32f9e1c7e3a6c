----------------------------- MODULE MCCpuBudget ------------------------------
EXTENDS CpuBudget, TLC

Symmetry == Permutations(Job)
===============================================================================
