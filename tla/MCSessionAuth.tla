---- MODULE MCSessionAuth ----
EXTENDS SessionAuth
CONSTANTS d1, h1, h2, s1, s2, n1, n2, n3, n4, n5, n6
OneEach == [d \in {d1} |-> s1]
====
