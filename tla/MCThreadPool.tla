----------------------------- MODULE MCThreadPool -----------------------------
(* Instances of ThreadPool for TLC. *)
EXTENDS ThreadPool, TLC

\* Workers and tasks are interchangeable in the safety runs.
Symmetry == Permutations(Threads) \cup Permutations(Tasks)

\* Arguments of set_expiry_timeout() (a cfg has no negative numbers).
NegativeExpiry == -1
NegativeExpiryOnly == {-1}
BothExpiries == {-1, 30000}
=============================================================================
