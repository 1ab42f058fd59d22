---------------------------- MODULE CommandLine -----------------------------
(***************************************************************************)
(* How a chat line becomes the call of a bot command: Parser.Parse         *)
(* (src/commandparser/parser.go:103-257) without its spam score, reading   *)
(* the line rune by rune.                                                  *)
(***************************************************************************)
EXTENDS Naturals, FiniteSets, SequencesExt

CONSTANTS
    Lines,    \* the lines a call may be given
    Letters,  \* runes without a meaning of their own
    Prefix, Space, Quote,
    Commands, \* names registered with On
    MaxLen    \* longer lines are ignored

Runes == Letters \union {Prefix, Space, Quote}

ASSUME RuneAssumption ==
    /\ Prefix # Space /\ Prefix # Quote /\ Space # Quote
    /\ {Prefix, Space, Quote} \intersect Letters = {}
    /\ Lines \subseteq Seq(Runes) /\ MaxLen \in Nat

VARIABLES
    line,        \* data
    pos,         \* runes of it that were read
    pc,          \* which loop of Parse reads next
    name,        \* the name read so far
    args,        \* invocation.Args
    argBuf,      \* the argument being read
    quoteState,  \* inside quotes
    called       \* the handler that was called

vars == <<line, pos, pc, name, args, argBuf, quoteState, called>>

Nothing == [by |-> "nobody"]

Init ==
    /\ line \in Lines /\ pos = 0 /\ pc = "start"
    /\ name = <<>> /\ args = <<>> /\ argBuf = <<>> /\ quoteState = FALSE
    /\ called = Nothing

-----------------------------------------------------------------------------
EOF  == pos = Len(line)
Rune == line[pos + 1]

ReadRune(next) == pos' = pos + 1 /\ pc' = next /\ UNCHANGED line

Ignore ==
    /\ pc = "start"
    /\ Len(line) > MaxLen \/ EOF
    /\ pc' = "done"
    /\ UNCHANGED <<line, pos, name, args, argBuf, quoteState, called>>

ReadPrefix ==
    /\ pc = "start" /\ Len(line) <= MaxLen /\ ~ EOF
    /\ ReadRune(IF Rune = Prefix THEN "name" ELSE "regexp")
    /\ UNCHANGED <<name, args, argBuf, quoteState, called>>

ReadName ==
    /\ pc = "name" /\ ~ EOF
    /\ ReadRune(IF Rune = Space THEN "args" ELSE "name")
    /\ name' = IF Rune = Space THEN name ELSE Append(name, Rune)
    /\ UNCHANGED <<args, argBuf, quoteState, called>>

\* A line that ends in its name has no arguments, not an empty one.
EndName ==
    /\ pc = "name" /\ EOF
    /\ pc' = "dispatch"
    /\ UNCHANGED <<line, pos, name, args, argBuf, quoteState, called>>

\* A definition named X_Y is X with one plausible mistake.  It is used in no
\* specification; the property it breaks is named beside it.

EndArgument ==
    /\ pc = "args" /\ ~ EOF /\ Rune = Space /\ ~ quoteState
    /\ ReadRune("args")
    /\ args' = Append(args, argBuf) /\ argBuf' = <<>>
    /\ UNCHANGED <<name, quoteState, called>>

\* Breaks CutAtSeparators: the quoted text is left for the next separator.
CloseQuote_KeepsReading ==
    /\ pc = "args" /\ ~ EOF /\ Rune = Quote /\ quoteState
    /\ ReadRune("args")
    /\ quoteState' = FALSE
    /\ UNCHANGED <<name, args, argBuf, called>>

CloseQuote ==
    /\ pc = "args" /\ ~ EOF /\ Rune = Quote /\ quoteState
    /\ ReadRune("args")
    /\ quoteState' = FALSE
    /\ args' = Append(args, argBuf) /\ argBuf' = <<>>
    /\ UNCHANGED <<name, called>>

OpenQuote ==
    /\ pc = "args" /\ ~ EOF /\ Rune = Quote /\ ~ quoteState
    /\ ReadRune("args")
    /\ quoteState' = TRUE
    /\ UNCHANGED <<name, args, argBuf, called>>

ReadArgument ==
    /\ pc = "args" /\ ~ EOF /\ Rune # Quote /\ (Rune = Space => quoteState)
    /\ ReadRune("args")
    /\ argBuf' = Append(argBuf, Rune)
    /\ UNCHANGED <<name, args, quoteState, called>>

\* The last argument needs no separator, and an open quote no end.
EndArguments ==
    /\ pc = "args" /\ EOF
    /\ pc' = "dispatch"
    /\ args' = IF argBuf = <<>> THEN args ELSE Append(args, argBuf)
    /\ UNCHANGED <<line, pos, name, argBuf, quoteState, called>>

Dispatch ==
    /\ pc = "dispatch"
    /\ pc' = "done"
    /\ called' = IF name \in Commands
                 THEN [by |-> "name", name |-> name, args |-> args]
                 ELSE Nothing
    /\ UNCHANGED <<line, pos, name, args, argBuf, quoteState>>

\* Some expression registered with Rgx may match; its matches are not modelled.
MatchRegexp ==
    /\ pc = "regexp"
    /\ pc' = "done"
    /\ called' \in {Nothing, [by |-> "regexp"]}
    /\ UNCHANGED <<line, pos, name, args, argBuf, quoteState>>

Next ==
    \/ Ignore \/ ReadPrefix \/ ReadName \/ EndName
    \/ EndArgument \/ CloseQuote \/ OpenQuote \/ ReadArgument \/ EndArguments
    \/ Dispatch \/ MatchRegexp

Spec == Init /\ [][Next]_vars

-----------------------------------------------------------------------------
(* What a line s means, by the positions of its spaces and quotes *)

\* Past the end if the line has none.
FirstSpace(s) == Min({i \in 1..Len(s) : s[i] = Space} \union {Len(s) + 1})

\* The name runs from the prefix to the first space.
Name(s) == SubSeq(s, 2, FirstSpace(s) - 1)

\* An odd number of quotes stands between the name and rune i.
Quoted(s, i) == Cardinality({j \in (FirstSpace(s) + 1)..(i - 1) : s[j] = Quote}) % 2 = 1

\* Unquoted spaces and closing quotes.
Separators(s) ==
    {i \in (FirstSpace(s) + 1)..Len(s) : s[i] = IF Quoted(s, i) THEN Quote ELSE Space}

\* Separators up to i, and the last one before i.
Rank(s, i)  == Cardinality({j \in Separators(s) : j <= i})
Start(s, i) == Max({FirstSpace(s)} \union {j \in Separators(s) : j < i})

\* The runes between two positions, without the quote that opens the argument.
Text(s, i, j) ==
    LET quotes == {k \in (i + 1)..(j - 1) : s[k] = Quote}
    IN  IF quotes = {} THEN SubSeq(s, i + 1, j - 1)
        ELSE SubSeq(s, i + 1, Min(quotes) - 1) \o SubSeq(s, Min(quotes) + 1, j - 1)

\* What the separators up to p end.
Cut(s, p) ==
    [k \in 1..Rank(s, p) |->
       LET i == CHOOSE i \in Separators(s) : Rank(s, i) = k
       IN  Text(s, Start(s, i), i)]

Arguments(s) ==
    LET end  == Len(s) + 1
        rest == Text(s, Start(s, end), end)
    IN  IF rest = <<>> THEN Cut(s, Len(s)) ELSE Append(Cut(s, Len(s)), rest)

(* Exactly the lines that begin with the prefix and a registered name call  *)
(* its command, with the text between the separators of the line: unquoted  *)
(* spaces and closing quotes end an argument (even an empty one), an        *)
(* opening quote does not, text before a quote belongs to the quoted        *)
(* argument, and an unclosed quote runs to the end (parser.go:168-244).     *)
CutAtSeparators ==
    pc = "done" /\ Len(line) \in 1..MaxLen /\ line[1] = Prefix =>
        called = IF Name(line) \in Commands
                 THEN [by |-> "name", name |-> Name(line), args |-> Arguments(line)]
                 ELSE Nothing

(* A quoted argument ends with its closing quote ("Delineates the end of a  *)
(* quoted asrgument", parser.go:208), so a line of a quoted and a plain     *)
(* argument, parted by a space, calls its command with these two.           *)
QuoteEndsArgument ==
    \A n, x, y \in Letters :
        called.by = "name" /\ line = <<Prefix, n, Space, Quote, x, Quote, Space, y>>
        => called.args = <<<<x>>, <<y>>>>
=============================================================================
