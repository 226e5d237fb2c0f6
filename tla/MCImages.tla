------------------------------ MODULE MCImages ------------------------------
EXTENDS Images, TLC

Alike == Permutations(Objects)

=============================================================================
