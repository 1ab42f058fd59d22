-------------------------------- MODULE Jid ---------------------------------
(***************************************************************************)
(* Addresses (src/xmpp/jid.go).  A text is a sequence of characters, each  *)
(* a string of length one.                                                 *)
(***************************************************************************)
EXTENDS Naturals, Sequences

Has(s, c) == \E i \in 1..Len(s) : s[i] = c

First(s, c) == CHOOSE i \in 1..Len(s) : s[i] = c /\ \A j \in 1..(i - 1) : s[j] # c

\* The halves of strings.SplitN(s, c, 2); without a c all of s comes before it.
Before(s, c) == IF Has(s, c) THEN SubSeq(s, 1, First(s, c) - 1) ELSE s
After(s, c)  == IF Has(s, c) THEN SubSeq(s, First(s, c) + 1, Len(s)) ELSE <<>>

\* Breaks SessionTypeOK: the host is looked for behind the last slash.
ParseJID_HostLast(s) ==
    LET rest == After(s, "@")
    IN  [Local |-> Before(s, "@"), Host |-> After(rest, "/"), Node |-> Before(rest, "/")]

\* What ParseJID returns for a text with an "@".
ParseJID(s) ==
    LET rest == After(s, "@")
    IN  [Local |-> Before(s, "@"), Host |-> Before(rest, "/"), Node |-> After(rest, "/")]

\* JID.String
Text(j) ==
    LET tail == IF j.Node = <<>> THEN <<>> ELSE <<"/">> \o j.Node
    IN  j.Local \o (<<"@">> \o (j.Host \o tail))
=============================================================================
