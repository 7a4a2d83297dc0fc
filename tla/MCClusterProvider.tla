------------------------- MODULE MCClusterProvider --------------------------
(* Instances of the multicluster provider for TLC. *)
EXTENDS ClusterProvider, TLC

\* Control planes are interchangeable, and so are kubeconfigs: sound for the
\* safety run, which has no temporal property.
Interchangeable == Permutations(Names) \union Permutations(Hashes)

\* For the run with temporal properties: which kubeconfig a control plane starts
\* with makes no difference, only that a rewrite gives it another one.
StartsAlike ==
    \A n \in Names : secret[n] = None =>
        secret'[n] \in {None, CHOOSE h \in Hashes : TRUE}

\* Nor does it matter which control plane the only fault of that run hits.
FaultsAlike ==
    faults' # faults =>
        \A n \in Names \ {CHOOSE n \in Names : TRUE} :
            /\ secret'[n] = secret[n] /\ reachable'[n] = reachable[n]
            /\ work.name = n => work' = work

FairSpecAlike ==
    Init /\ [][Next /\ StartsAlike /\ FaultsAlike]_vars /\ Fairness
=============================================================================
