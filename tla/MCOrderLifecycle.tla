-------------------------- MODULE MCOrderLifecycle --------------------------
(* Model values and symmetry for the runs of OrderLifecycle.                *)
EXTENDS OrderLifecycle, TLC

CONSTANTS o1, s1, s2, s3, p1, p2, d1, d2, h1, h2

SlotSymmetry == Permutations(Sessions) \cup Permutations(PaySlots)
                  \cup Permutations(DeskSlots)
                  \cup Permutations(HookSlots)

=============================================================================
