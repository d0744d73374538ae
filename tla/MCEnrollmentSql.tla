---- MODULE MCEnrollmentSql ----
EXTENDS EnrollmentSql
CONSTANTS d1, s1, s2
====
