-------------------------------- MODULE MCOtr --------------------------------
(* Instances of Otr for TLC. *)
EXTENDS Otr, TLC

\* Neither trusts any key; or one trusts the other's, and is trusted itself or
\* not: the other end trusts a stranger's key (an announcement replayed from
\* whoever had the nickname before) or none (a departure handled late).
SomeTrust ==
    {f \in [Ends -> Keys \union {None}] :
        \/ \A e \in Ends : f[e] = None
        \/ \E e \in Ends : f[e] = Peer(e) /\ f[Peer(e)] # Peer(e)}

\* The two ends run the same code; answers are only compared.
Symmetry == Permutations(Ends) \union Permutations(Words)
=============================================================================
