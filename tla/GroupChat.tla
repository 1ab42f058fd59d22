----------------------------- MODULE GroupChat ------------------------------
(***************************************************************************)
(* What the group protocol promises: a chat between identities in which    *)
(* each session trusts the first key it sees for a nickname, and a message *)
(* is shown to a session at most once, only if it was addressed to the key *)
(* of that session, and only under the key the session trusts for the      *)
(* nickname it came from.                                                  *)
(***************************************************************************)
EXTENDS Naturals

CONSTANTS Names, Keys, KeyOwner, Msgs, Nobody

VARIABLES
    identity,  \* the key of each nickname's current session
    trusted,   \* the key each session trusts for each nickname, or Nobody
    posted,    \* messages: [msg, by (nickname), as (key), to (set of keys)]
    shown      \* how often each message was shown in the current session

vars == <<identity, trusted, posted, shown>>

Init ==
    /\ identity \in {f \in [Names -> Keys] : \A p \in Names : KeyOwner[f[p]] = p}
    /\ trusted = [p \in Names |-> [n \in Names |-> Nobody]]
    /\ posted  = {}
    /\ shown   = [p \in Names |-> [m \in Msgs |-> 0]]

NewSession(p, k) ==
    /\ KeyOwner[k] = p
    /\ identity' = [identity EXCEPT ![p] = k]
    /\ trusted'  = [trusted EXCEPT ![p] = [n \in Names |-> Nobody]]
    /\ shown'    = [shown EXCEPT ![p] = [m \in Msgs |-> 0]]
    /\ UNCHANGED posted

\* Only a key generated under n is ever announced as the key of n.
Trust(p, n, k) ==
    /\ n # p
    /\ KeyOwner[k] = n
    /\ trusted[p][n] = Nobody
    /\ trusted' = [trusted EXCEPT ![p][n] = k]
    /\ UNCHANGED <<identity, posted, shown>>

Forget(p, n) ==
    /\ trusted' = [trusted EXCEPT ![p][n] = Nobody]
    /\ UNCHANGED <<identity, posted, shown>>

\* A message goes to keys its author trusts, and each message goes out once.
Post(p, m, to) ==
    /\ \A q \in posted : q.msg # m
    /\ to \subseteq {trusted[p][n] : n \in Names} \ {Nobody}
    /\ posted' = posted \union
         {[msg |-> m, by |-> p, as |-> identity[p], to |-> to]}
    /\ UNCHANGED <<identity, trusted, shown>>

Show(p, q) ==
    /\ q.by # p
    /\ identity[p] \in q.to
    /\ trusted[p][q.by] = q.as
    /\ shown[p][q.msg] = 0
    /\ shown' = [shown EXCEPT ![p][q.msg] = 1]
    /\ UNCHANGED <<identity, trusted, posted>>

Next ==
    \E p \in Names :
        \/ \E k \in Keys : NewSession(p, k)
        \/ \E n \in Names, k \in Keys : Trust(p, n, k)
        \/ \E n \in Names : Forget(p, n)
        \/ \E m \in Msgs, to \in SUBSET Keys : Post(p, m, to)
        \/ \E q \in posted : Show(p, q)

Spec == Init /\ [][Next]_vars
=============================================================================
