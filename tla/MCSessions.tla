---------------------------- MODULE MCSessions ----------------------------
(* Values for Sessions: three interchangeable sessions of one user.         *)
EXTENDS Sessions, TLC

CONSTANTS s1, s2, s3, ann

MCSessions == {s1, s2, s3}
MCUsernames == {ann}
MCSymmetry == Permutations(MCSessions)
=============================================================================
