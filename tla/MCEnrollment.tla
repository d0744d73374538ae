---- MODULE MCEnrollment ----
EXTENDS Enrollment, TLC
CONSTANTS d1, d2, s1, s2, s3
OneHardware == {d1, d2} \X {d1, d2}
Symmetry == Permutations({s1, s2, s3}) \cup Permutations({d1, d2})
====
