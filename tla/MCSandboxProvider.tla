-------------------------- MODULE MCSandboxProvider --------------------------
EXTENDS SandboxProvider, TLC

MCSymmetry == Permutations(Calls)
=============================================================================
