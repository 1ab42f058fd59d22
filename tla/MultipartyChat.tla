--------------------------- MODULE MultipartyChat ---------------------------
(***************************************************************************)
(* Multiparty as an implementation of GroupChat: the Buddies table is what *)
(* a session trusts, a group message is a post addressed to the keys its   *)
(* ciphertexts can be read under.                                          *)
(***************************************************************************)
EXTENDS Multiparty

CONSTANT Nobody

ASSUME NobodyAssumption == Nobody \notin Keys

TrustedKey(p, n) ==
    IF buddies[p][n] = NoBuddy THEN Nobody ELSE buddies[p][n].PublicKey

trusted == [p \in Names |-> [n \in Names |-> TrustedKey(p, n)]]

Addressed(s) ==
    {k \in Keys : \E v \in DOMAIN s.Text : s.Text[v].Message.key = Secret(s.as, k)}

PostOf(s) == [msg |-> s.Tag.plain, by |-> s.from, as |-> s.as, to |-> Addressed(s)]

posted == {PostOf(s) : s \in {t \in net : t.type = "message"}}

Chat == INSTANCE GroupChat WITH identity <- publicKey, shown <- received

(* Every behaviour of the participants, whatever the order, loss and replay *)
(* of stanzas, is one GroupChat allows: keys are trusted on first sight and *)
(* held, and a message is shown once, to the keys it is addressed to, under *)
(* the key trusted for its author (receiveMessage, multiparty.go:213-363).  *)
ImplementsGroupChat == Chat!Spec
=============================================================================
