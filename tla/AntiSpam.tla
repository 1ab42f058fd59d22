------------------------------ MODULE AntiSpam ------------------------------
(***************************************************************************)
(* The spam score of Parser.Parse (src/commandparser/parser.go:103-160)    *)
(* and the goroutine that lets it decay.  Chat events are handled in       *)
(* goroutines of their own, so calls of Parse overlap; the table is a      *)
(* sync.Map, but the score in an entry, and the accumulator shared by all  *)
(* users, are read and written without a lock.                             *)
(***************************************************************************)
EXTENDS Integers, FiniteSets

CONSTANTS
    Users,             \* user@room
    Lines,             \* what they write, no longer than MaxLen
    Bare,              \* the line that is just the prefix
    MaxSpamPerMinute,
    MaxCalls,          \* how often Parse and AddScore are called
    MaxRunning,        \* calls that may be running at once
    Added,             \* what AddScore is given
    Largest,           \* the largest int64
    None

NewUserScore == 10

Smallest == -Largest - 1
Numbers  == Smallest..Largest

ASSUME AntiSpamAssumption ==
    /\ MaxCalls \in Nat /\ MaxRunning \in Nat
    /\ Largest \in Nat /\ NewUserScore <= Largest
    /\ MaxSpamPerMinute \in Numbers /\ Added \subseteq Numbers
    /\ None \notin Users \union Lines

VARIABLES
    table,       \* AntiSpam: the entry stored for a user, 0 if none
    owner,       \* the user an entry was made for, None if it was not made
    score,       \* its SpamScore
    decay,       \* what its goroutine does next
    faded,       \* what that goroutine is about to store
    lastCommandString,
    commandSpamAccumulator,
    call,        \* what each call does next, None before and after
    (* history and bounds *)
    made,        \* calls made
    doubled,     \* users for whom an entry was stored over another one
    costly       \* somebody repeated the last line, or AddScore was used

shared  == <<lastCommandString, commandSpamAccumulator>>
entries == <<owner, score, decay, faded>>
history == <<made, doubled, costly>>
vars    == <<table, entries, shared, call, history>>

-----------------------------------------------------------------------------
(* Entries are numbered by the call that makes them *)

Ids == 1..MaxCalls

Wrap(n) == ((n - Smallest) % (2 * Largest + 2)) + Smallest

\* A line, or the value of AddScore, on its way through the call.
Charging == {"check", "compare", "reset", "quadruple", "quadrupled", "charge", "remember", "read"}

Calls ==
    [at : {"load", "store"}, user : Users, line : Lines \union {None}, value : Numbers] \union
    [at : Charging, user : Users, line : Lines \union {None}, value : Numbers, entry : Ids] \union
    [at : {"write"}, user : Users, sum : Numbers, entry : Ids]

ASSUME CallAssumption == None \notin Calls

Running == {c \in Ids : call[c] # None}

Finish(c) == call' = [call EXCEPT ![c] = None]

Init ==
    /\ table = [u \in Users |-> 0]
    /\ owner = [i \in Ids |-> None] /\ score = [i \in Ids |-> 0]
    /\ decay = [i \in Ids |-> "gone"] /\ faded = [i \in Ids |-> 0]
    /\ lastCommandString = None /\ commandSpamAccumulator = 2
    /\ call = [c \in Ids |-> None]
    /\ made = 0 /\ doubled = {} /\ costly = FALSE

-----------------------------------------------------------------------------
(* Parse and AddScore                                                       *)
(*                                                                          *)
(* A definition named X_Y is X with one plausible mistake: it is used in no *)
(* specification, and the property it breaks is named beside it.            *)

Begin(user, line, value) ==
    /\ made < MaxCalls /\ Cardinality(Running) < MaxRunning
    /\ made' = made + 1
    /\ call' = [call EXCEPT ![made + 1] =
                   [at |-> "load", user |-> user, line |-> line, value |-> value]]
    /\ costly' = (costly \/ line = None)
    /\ UNCHANGED <<table, entries, shared, doubled>>

Parse(user, line) == Begin(user, line, 0)

AddScore(user, value) == Begin(user, None, value)

\* Breaks TypeOK: AddScore does not look whether there is an entry.
Load_Unchecked(c) ==
    /\ call[c] # None /\ call[c].at = "load"
    /\ LET i == table[call[c].user]
           found(at) == [at |-> at, user |-> call[c].user, line |-> call[c].line,
                         value |-> call[c].value, entry |-> i]
       IN  \/ /\ i = 0 /\ call[c].line # None
              /\ call' = [call EXCEPT ![c].at = "store"]
           \/ /\ i # 0 \/ call[c].line = None
              /\ call' = [call EXCEPT ![c] =
                             found(IF call[c].line = None THEN "read" ELSE "check")]
    /\ UNCHANGED <<table, entries, shared, history>>

\* AddScore does nothing for a user without an entry.
Load(c) ==
    /\ call[c] # None /\ call[c].at = "load"
    /\ LET i == table[call[c].user]
           found(at) == [at |-> at, user |-> call[c].user, line |-> call[c].line,
                         value |-> call[c].value, entry |-> i]
       IN  \/ /\ i = 0 /\ call[c].line # None
              /\ call' = [call EXCEPT ![c].at = "store"]
           \/ /\ i = 0 /\ call[c].line = None
              /\ Finish(c)
           \/ /\ i # 0
              /\ call' = [call EXCEPT ![c] =
                             found(IF call[c].line = None THEN "read" ELSE "check")]
    /\ UNCHANGED <<table, entries, shared, history>>

\* Breaks EveryEntryDecays: the goroutine is only started for the first entry.
Store_OneGoroutine(c) ==
    /\ call[c] # None /\ call[c].at = "store"
    /\ LET u == call[c].user
       IN  /\ table' = [table EXCEPT ![u] = c]
           /\ owner' = [owner EXCEPT ![c] = u]
           /\ doubled' = IF table[u] = 0 THEN doubled ELSE doubled \union {u}
           /\ decay' = IF table[u] = 0 THEN [decay EXCEPT ![c] = "test"] ELSE decay
    /\ score' = [score EXCEPT ![c] = NewUserScore]
    /\ Finish(c)
    /\ UNCHANGED <<faded, shared, made, costly>>

\* A user without an entry gets one, whatever was stored in the meantime, and
\* a goroutine that lets it decay.  The line is not charged.
Store(c) ==
    /\ call[c] # None /\ call[c].at = "store"
    /\ LET u == call[c].user
       IN  /\ table' = [table EXCEPT ![u] = c]
           /\ owner' = [owner EXCEPT ![c] = u]
           /\ doubled' = IF table[u] = 0 THEN doubled ELSE doubled \union {u}
    /\ score' = [score EXCEPT ![c] = NewUserScore]
    /\ decay' = [decay EXCEPT ![c] = "test"]
    /\ Finish(c)
    /\ UNCHANGED <<faded, shared, made, costly>>

\* A high score refuses the line, if the last one that was not is less than a
\* minute old; how much time has passed is left open.
Check(c) ==
    /\ call[c] # None /\ call[c].at = "check"
    /\ \/ score[call[c].entry] > MaxSpamPerMinute /\ Finish(c)
       \/ call' = [call EXCEPT ![c].at = "compare"]
    /\ UNCHANGED <<table, entries, shared, history>>

\* A line repeated from the last call, anybody's, costs more each time: the
\* accesses to the last line and to the accumulator, one by one.
Compare(c) ==
    /\ call[c] # None /\ call[c].at = "compare"
    /\ \/ /\ lastCommandString = call[c].line
          /\ call' = [call EXCEPT ![c].at = "quadruple"]
          /\ costly' = TRUE
       \/ /\ lastCommandString # call[c].line
          /\ call' = [call EXCEPT ![c].at = "reset", ![c].value = 3]
          /\ UNCHANGED costly
    /\ UNCHANGED <<table, entries, shared, made, doubled>>

\* The two halves of commandSpamAccumulator *= 4.
Quadruple(c) ==
    /\ call[c] # None /\ call[c].at = "quadruple"
    /\ call' = [call EXCEPT ![c].at = "quadrupled", ![c].value = Wrap(commandSpamAccumulator * 4)]
    /\ UNCHANGED <<table, entries, shared, history>>

WriteQuadrupled(c) ==
    /\ call[c] # None /\ call[c].at = "quadrupled"
    /\ commandSpamAccumulator' = call[c].value
    /\ call' = [call EXCEPT ![c].at = "charge"]
    /\ UNCHANGED <<table, entries, lastCommandString, history>>

Charge(c) ==
    /\ call[c] # None /\ call[c].at = "charge"
    /\ LET times == 2 + commandSpamAccumulator
       IN  call' = [call EXCEPT
              ![c].at = "remember",
              ![c].value = Wrap(3 * (IF call[c].line = Bare THEN 45 * times ELSE times))]
    /\ UNCHANGED <<table, entries, shared, history>>

Reset(c) ==
    /\ call[c] # None /\ call[c].at = "reset"
    /\ commandSpamAccumulator' = 2
    /\ call' = [call EXCEPT ![c].at = "remember"]
    /\ UNCHANGED <<table, entries, lastCommandString, history>>

Remember(c) ==
    /\ call[c] # None /\ call[c].at = "remember"
    /\ lastCommandString' = call[c].line
    /\ call' = [call EXCEPT ![c].at = "read"]
    /\ UNCHANGED <<table, entries, commandSpamAccumulator, history>>

\* The two halves of SpamScore += value.
Read(c) ==
    /\ call[c] # None /\ call[c].at = "read"
    /\ call' = [call EXCEPT ![c] =
                   [at |-> "write", user |-> call[c].user, entry |-> call[c].entry,
                    sum |-> Wrap(score[call[c].entry] + call[c].value)]]
    /\ UNCHANGED <<table, entries, shared, history>>

\* Breaks NeverOvercharged: what was read is added once more.
Write_Twice(c) ==
    /\ call[c] # None /\ call[c].at = "write"
    /\ score' = [score EXCEPT ![call[c].entry] = Wrap(@ + call[c].sum)]
    /\ Finish(c)
    /\ UNCHANGED <<table, owner, decay, faded, shared, history>>

Write(c) ==
    /\ call[c] # None /\ call[c].at = "write"
    /\ score' = [score EXCEPT ![call[c].entry] = call[c].sum]
    /\ Finish(c)
    /\ UNCHANGED <<table, owner, decay, faded, shared, history>>

\* What a line costs.
Multiply(c) ==
    Compare(c) \/ Quadruple(c) \/ WriteQuadrupled(c) \/ Charge(c) \/ Reset(c) \/ Remember(c)

Step(c) == Load(c) \/ Store(c) \/ Check(c) \/ Multiply(c) \/ Read(c) \/ Write(c)

-----------------------------------------------------------------------------
(* The goroutine of an entry *)

\* Breaks Forgiven: rounded up, one never goes below two.
ThreeQuarters_Ceiling(n) == -((-3 * n) \div 4)

\* int64(float64(n) * .75) rounds towards zero.
ThreeQuarters(n) == IF n < 0 THEN -((-3 * n) \div 4) ELSE (3 * n) \div 4

\* Breaks OneDecay: the key is deleted while the entry goes on decaying.
Test_DeletesFirst(i) ==
    /\ decay[i] = "test"
    /\ table' = [table EXCEPT ![owner[i]] = 0]
    /\ decay' = [decay EXCEPT ![i] = IF score[i] > 1 THEN "asleep" ELSE "gone"]
    /\ UNCHANGED <<owner, score, faded, shared, call, history>>

\* The loop goes on, or ends and deletes the key, whatever is stored there.
Test(i) ==
    /\ decay[i] = "test"
    /\ \/ /\ score[i] > 1
          /\ decay' = [decay EXCEPT ![i] = "asleep"]
          /\ UNCHANGED <<score, table>>
       \/ /\ score[i] <= 1
          /\ score' = [score EXCEPT ![i] = 0]
          /\ table' = [table EXCEPT ![owner[i]] = 0]
          /\ decay' = [decay EXCEPT ![i] = "gone"]
    /\ UNCHANGED <<owner, faded, shared, call, history>>

\* The two halves of SpamScore = int64(float64(SpamScore) * .75).
Fade(i) ==
    /\ decay[i] = "asleep"
    /\ faded' = [faded EXCEPT ![i] = ThreeQuarters(score[i])]
    /\ decay' = [decay EXCEPT ![i] = "write"]
    /\ UNCHANGED <<table, owner, score, shared, call, history>>

WriteFaded(i) ==
    /\ decay[i] = "write"
    /\ score' = [score EXCEPT ![i] = faded[i]]
    /\ decay' = [decay EXCEPT ![i] = "test"]
    /\ UNCHANGED <<table, owner, faded, shared, call, history>>

Decay(i) == Test(i) \/ Fade(i) \/ WriteFaded(i)

Next ==
    \/ \E u \in Users : \/ \E line \in Lines : Parse(u, line)
                        \/ \E value \in Added : AddScore(u, value)
    \/ \E i \in Ids : Step(i) \/ Decay(i)

Spec == Init /\ [][Next]_vars

\* The runtime runs every goroutine, and sleeps end.
LiveSpec == Spec /\ \A i \in Ids : WF_vars(Step(i)) /\ WF_vars(Decay(i))

-----------------------------------------------------------------------------
(* The types of the parser's state.                                         *)
TypeOK ==
    /\ table \in [Users -> Ids \union {0}]
    /\ owner \in [Ids -> Users \union {None}]
    /\ score \in [Ids -> Numbers] /\ faded \in [Ids -> Numbers]
    /\ decay \in [Ids -> {"test", "asleep", "write", "gone"}]
    /\ lastCommandString \in Lines \union {None}
    /\ commandSpamAccumulator \in Numbers
    /\ call \in [Ids -> Calls \union {None}]
    /\ made \in 0..MaxCalls
    /\ doubled \subseteq Users /\ costly \in BOOLEAN

(* The entry stored for a user is the user's own and has a goroutine that   *)
(* will delete it, however first lines race, so that no user is refused for *)
(* ever (parser.go:118-135).                                                *)
EveryEntryDecays ==
    \A u \in Users : table[u] # 0 => owner[table[u]] = u /\ decay[table[u]] # "gone"

(* Only if two first lines raced, each finding no entry, may an entry decay *)
(* that is not the stored one - and delete the stored one in the end        *)
(* (parser.go:116-134).                                                     *)
OneDecay ==
    \A i \in Ids : decay[i] # "gone" /\ owner[i] \notin doubled => table[owner[i]] = i

(* As long as nobody repeats the last line, a score is at most three per    *)
(* call above the initial one, so that 512 takes 168 lines: calls and decay *)
(* that overwrite each other's sums lose charges, and never make up any     *)
(* (parser.go:127-129 and 158).                                             *)
NeverOvercharged ==
    ~ costly => \A i \in Ids : score[i] <= NewUserScore + 3 * made

(* Nobody is refused for good: a user whose calls have ended has no entry   *)
(* left in the end, whatever the others write (parser.go:126-134).          *)
Forgiven ==
    \A u \in Users :
        <>[](\A c \in Running : call[c].user # u) => <>[](table[u] = 0)
=============================================================================
