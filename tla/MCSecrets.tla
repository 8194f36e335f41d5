----------------------------- MODULE MCSecrets -----------------------------
EXTENDS Secrets, TLC

CONSTANTS w1, w2, n1, n2, f1, raw, t1, rv, v1, v2, none

\* RAW, and a type with two versions.
Schema0Def == (rv :> raw) @@ (v1 :> t1) @@ (v2 :> t1) @@ [v \in Versions |-> none]
Current0Def == (raw :> rv) @@ (t1 :> v2) @@ [t \in Types |-> none]

\* The path f1 has an underscore: n1 is under it, n2 is under a path that
\* differs from it only there.
PrefixDef == [f \in {f1} |-> {n1}]
LikeDef == [f \in {f1} |-> {n1, n2}]

\* A whole wallet, or the folder that holds n1 and not n2.
ScopesDef == {Names, {n1}}

\* A typed secret, and a placeholder linked to it.
Secret0Def == (1 :> [wallet |-> w1, name |-> n1, placeholder |-> FALSE, version |-> 1,
                     link |-> none, type |-> t1, schema |-> v1, at |-> 0])
           @@ (2 :> [wallet |-> w1, name |-> n2, placeholder |-> TRUE, version |-> 1,
                     link |-> 1, type |-> none, schema |-> none, at |-> 0])
           @@ [i \in Ids |-> NoRow]

Symmetry == Permutations(Calls) \cup Permutations(Edits)
=============================================================================
