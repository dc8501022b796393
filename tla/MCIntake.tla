------------------------------ MODULE MCIntake ------------------------------
EXTENDS Intake, TLC

RequestSymmetry == Permutations(Requests)
=============================================================================
