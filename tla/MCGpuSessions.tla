---------------------------- MODULE MCGpuSessions ----------------------------
EXTENDS GpuSessions, TLC

Symmetric == Permutations(Requests)
===============================================================================
