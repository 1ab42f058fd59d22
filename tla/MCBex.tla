------------------------------- MODULE MCBex --------------------------------
(* Instances of Bex for TLC. *)
EXTENDS Bex

CONSTANTS me, other

\* "#413ed1", the colour of introduction; one with small bytes; an invalid one.
Colors == {<<4, 1, 3, 14, 13, 1>>, <<0, 10, 1, 0, 0, 0>>, <<4, 1, 3>>}

\* Up to the limit of three entries, and over it.
Tables == {<<>>, <<"e1">>, <<"e1", "e2", "e3">>, <<"e1", "e2", "e3", "e4">>}

\* The value of a field is its own name, or whom it targets.
Values(h) ==
    LET fs == {Writes(h)[i] : i \in 1..Len(Writes(h))}
        plain == {[f \in fs |-> IF f = "Target" THEN t ELSE f] : t \in {me, other}}
    IN  CASE h = "SET_COLOR" -> {[Color |-> c] : c \in Colors}
          [] h = "SET_MODERATION_TABLE" -> {[TableKey |-> "keys", Table |-> t] : t \in Tables}
          [] OTHER -> plain

Submessages == UNION {{[Header |-> h, val |-> v] : v \in Values(h)} : h \in Headers}

\* Up to two submessages, a table over the limit before or after any other,
\* and packets with one submessage too many.
Few ==
    {<<>>} \union {<<s>> : s \in Submessages} \union
    {<<s, t>> : s \in Submessages, t \in Submessages} \union
    {<<s, s, s>> : s \in Submessages}
=============================================================================
