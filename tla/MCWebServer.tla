---- MODULE MCWebServer ----
EXTENDS WebServer, TLC
Symmetry == Permutations(Browsers) \cup Permutations(Workers) \cup Permutations(Emails)
====
