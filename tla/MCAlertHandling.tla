----------------------------- MODULE MCAlertHandling ------------------------------
(* Small instance of AlertHandling: requests, and users, are interchangeable.      *)
EXTENDS AlertHandling, TLC

Interchangeable == Permutations(Request) \cup Permutations(User)
===================================================================================
