----------------------------- MODULE MCRunQueue -----------------------------
(* Small instances of the run queue for TLC. *)
EXTENDS RunQueue, TLC

CONSTANTS r1, r2, s1, w1, w2

OneRun == {r1}
TwoRuns == {r1, r2}
OneSession == {s1}
SameSession == [r \in Runs |-> s1]

ReadThenWrite == <<"read", "write">>
WriteOnly == <<"write">>
ReadOnly == <<"read">>

WorkerSymmetry == Permutations(Workers)
Symmetry == Permutations(Workers) \union Permutations(Runs)

=============================================================================
