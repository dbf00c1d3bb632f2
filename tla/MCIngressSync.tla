---------------------------- MODULE MCIngressSync ----------------------------
EXTENDS IngressSync, TLC

\* Users are alike; addresses are not, where the operator has one of them.
UserSymmetry == Permutations(Users)
=============================================================================
