--------------------------- MODULE MCCommandLine ----------------------------
(* Instances of CommandLine for TLC. *)
EXTENDS CommandLine

CONSTANTS x, MaxRunes

\* Every line of at most five runes, a known command with every text of at
\* most MaxRunes runes, and a line that is too long.
AllLines ==
    UNION {[1..n -> Runes] : n \in 0..5} \union
    {<<Prefix, x, Space>> \o s : s \in UNION {[1..n -> Runes] : n \in 0..MaxRunes}} \union
    {[i \in 1..(MaxLen + 1) |-> Prefix]}

OneLetter == {<<x>>}

\* A command with a quoted and a plain argument.
QuotedLines ==
    {<<Prefix, x, Space, Quote>> \o s \o <<Quote, Space, x>> :
        s \in {<<>>, <<x>>, <<x, x>>}} \union {<<Prefix>> \o s : s \in [1..4 -> Runes]}
=============================================================================
