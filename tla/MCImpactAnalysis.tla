------------------------- MODULE MCImpactAnalysis -------------------------
(***************************************************************************)
(* Small instances of ImpactAnalysis: the target, other projects, the      *)
(* interface asked about and another one.                                  *)
(***************************************************************************)
EXTENDS ImpactAnalysis, TLC

CONSTANTS a, b, c, asked, other

None  == [i \in Interfaces |-> NoRow]
On(p) == [provider |-> p, external |-> Null]

\* No dependency, one on the interface asked about, one on another, and one on the
\* name of a project that was not there yet.
ChainRows ==
    {None, [None EXCEPT ![asked] = On(a)], [None EXCEPT ![other] = [provider |-> Null, external |-> b]]}
    \cup {[None EXCEPT ![other] = On(p)] : p \in Projects}

Others == Permutations(Projects \ {a})
=============================================================================
