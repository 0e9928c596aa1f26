----------------------------- MODULE MCCheckout -----------------------------
(* Model values, start stock and symmetry for the runs of Checkout.         *)
EXTENDS Checkout, TLC

CONSTANTS u1, u2, v1, v2, o1, o2, c1, c2

OneOfEach == [v \in Variants |-> 1]
TwoOfEach == [v \in Variants |-> 2]

CheckoutSymmetry ==
  Permutations(Users) \cup Permutations(Variants) \cup Permutations(Orders)
    \cup Permutations(Requests)

=============================================================================
