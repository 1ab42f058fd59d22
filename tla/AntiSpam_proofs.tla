-------------------------- MODULE AntiSpam_proofs ---------------------------
(***************************************************************************)
(* Proofs about AntiSpam, for any number of users, lines and calls.  What  *)
(* has to be added to EveryEntryDecays and OneDecay is that an entry is    *)
(* made once, by a call that is then over (Fresh), and that only entries   *)
(* that were made decay (Owned).  NeverOvercharged counts: the calls that  *)
(* have charged a user already are as many as the lines its score and its  *)
(* entry come from at most (CInv), and nobody makes more than MaxLines.    *)
(***************************************************************************)
EXTENDS AntiSpam, FiniteSetTheorems, TLAPS

Owned == \A i \in Ids : decay[i] # "gone" => owner[i] \in Users

Fresh == \A i \in Ids : i > made \/ call[i] # None => owner[i] = None /\ decay[i] = "gone"

Begun == \A c \in Ids : call[c] # None => c <= made

IInv == TypeOK /\ EveryEntryDecays /\ OneDecay /\ Owned /\ Fresh /\ Begun

LEMMA WrapFits == ASSUME NEW n \in Int PROVE Wrap(n) \in Numbers
<1>1. Largest \in Nat
  BY AntiSpamAssumption
<1>2. (n - Smallest) \in Int /\ (2 * Largest + 2) \in Nat \ {0}
  BY <1>1 DEF Smallest
<1>3. (n - Smallest) % (2 * Largest + 2) \in 0..(2 * Largest + 1)
  BY <1>1, <1>2
<1> QED BY <1>1, <1>3 DEF Wrap, Numbers, Smallest

LEMMA QuarterFits == ASSUME NEW n \in Numbers PROVE ThreeQuarters(n) \in Numbers
<1>1. Largest \in Nat
  BY AntiSpamAssumption
<1>2. CASE n < 0
  <2>1. -3 * n \in Nat /\ n \in Int
    BY <1>1, <1>2 DEF Numbers, Smallest
  <2>2. (-3 * n) \div 4 \in Nat /\ (-3 * n) \div 4 <= -n
    BY <2>1, <1>2
  <2> QED BY <1>1, <1>2, <2>1, <2>2 DEF ThreeQuarters, Numbers, Smallest
<1>3. CASE n >= 0
  <2>1. (3 * n) \div 4 \in Nat /\ (3 * n) \div 4 <= n
    BY <1>1, <1>3 DEF Numbers, Smallest
  <2> QED BY <1>1, <1>3, <2>1 DEF ThreeQuarters, Numbers, Smallest
<1> QED BY <1>1, <1>2, <1>3 DEF Numbers, Smallest

-----------------------------------------------------------------------------
LEMMA InitIInv == Init => IInv
<1> SUFFICES ASSUME Init PROVE IInv
  OBVIOUS
<1>1. 0 \in Numbers /\ 2 \in Numbers /\ made \in 0..MaxCalls
  BY AntiSpamAssumption DEF Init, Numbers, Smallest, NewUserScore
<1>2. costly \in BOOLEAN
  BY Zenon DEF Init
<1>3. TypeOK
  BY <1>1, <1>2 DEF Init, TypeOK
<1>4. EveryEntryDecays /\ OneDecay /\ Owned /\ Fresh /\ Begun
  BY DEF Init, EveryEntryDecays, OneDecay, Owned, Fresh, Begun
<1> QED BY <1>3, <1>4 DEF IInv

\* What a call is before a step: one of three kinds of record.
LEMMA CallKinds ==
    ASSUME TypeOK, NEW c \in Ids, call[c] # None
    PROVE  /\ call[c] \in Calls
           /\ call[c].user \in Users
           /\ call[c].at \in {"load", "store"} \union Charging =>
                /\ call[c].line \in Lines \union {None} /\ call[c].value \in Numbers
           /\ call[c].at \in Charging \union {"write"} => call[c].entry \in Ids
           /\ call[c].at = "write" => call[c].sum \in Numbers
BY DEF TypeOK, Calls, Charging

LEMMA BeginStep ==
    ASSUME IInv, NEW u \in Users, NEW line \in Lines \union {None}, NEW value \in Numbers,
           Begin(u, line, value)
    PROVE  IInv'
<1> DEFINE new == [at |-> "load", user |-> u, line |-> line, value |-> value]
<1>1. new \in Calls
  BY DEF Calls
<1>2. made \in Nat /\ MaxCalls \in Nat /\ made + 1 \in Ids
  BY AntiSpamAssumption DEF Begin, IInv, TypeOK, Ids
<1>3. /\ call' = [call EXCEPT ![made + 1] = new] /\ made' = made + 1
      /\ UNCHANGED <<table, owner, score, decay, faded, doubled>>
      /\ UNCHANGED <<lastCommandString, commandSpamAccumulator>>
  BY DEF Begin, entries, shared
<1>4. costly' \in BOOLEAN
  BY Zenon DEF Begin
<1> HIDE DEF new
<1>5. TypeOK'
  BY <1>1, <1>2, <1>3, <1>4 DEF IInv, TypeOK, Begin
<1>6. EveryEntryDecays' /\ OneDecay' /\ Owned'
  BY <1>3 DEF IInv, EveryEntryDecays, OneDecay, Owned
<1>7. Fresh'
  BY <1>2, <1>3 DEF IInv, Fresh, TypeOK, Ids
<1>8. Begun'
  BY <1>2, <1>3 DEF IInv, Begun, TypeOK, Ids
<1> QED BY <1>5, <1>6, <1>7, <1>8 DEF IInv

\* A step that only moves a call on.
LEMMA CallStep ==
    ASSUME IInv, NEW c \in Ids, call[c] # None,
           NEW next \in Calls \union {None}, call' = [call EXCEPT ![c] = next],
           score' \in [Ids -> Numbers], commandSpamAccumulator' \in Numbers,
           lastCommandString' \in Lines \union {None}, costly' \in BOOLEAN,
           UNCHANGED <<table, owner, decay, faded, made, doubled>>
    PROVE  IInv'
<1>1. TypeOK'
  BY DEF IInv, TypeOK
<1>2. EveryEntryDecays' /\ OneDecay' /\ Owned' /\ Fresh' /\ Begun'
  BY DEF IInv, EveryEntryDecays, OneDecay, Owned, Fresh, Begun, TypeOK
<1> QED BY <1>1, <1>2 DEF IInv

LEMMA LoadStep == ASSUME IInv, NEW c \in Ids, Load(c) PROVE IInv'
<1> DEFINE found(at) == [at |-> at, user |-> call[c].user, line |-> call[c].line,
                         value |-> call[c].value, entry |-> table[call[c].user]]
<1> DEFINE stored == [call[c] EXCEPT !.at = "store"]
<1> USE DEF IInv
<1>1. call[c] # None /\ call[c].at = "load"
  BY DEF Load
<1>2. UNCHANGED <<table, owner, score, decay, faded, made, doubled, costly,
                  lastCommandString, commandSpamAccumulator>>
  BY DEF Load, entries, shared, history
<1>3. stored \in Calls
  BY <1>1, CallKinds DEF Calls, Charging
<1>4. ASSUME table[call[c].user] # 0, NEW at \in {"read", "check"} PROVE found(at) \in Calls
  BY <1>1, <1>4, CallKinds DEF Calls, Charging, TypeOK
<1>5. \/ call' = [call EXCEPT ![c] = stored]
      \/ call' = [call EXCEPT ![c] = None]
      \/ table[call[c].user] # 0 /\ \E at \in {"read", "check"} : call' = [call EXCEPT ![c] = found(at)]
  BY DEF Load, Finish
<1>6. /\ score' \in [Ids -> Numbers] /\ commandSpamAccumulator' \in Numbers
      /\ lastCommandString' \in Lines \union {None} /\ costly' \in BOOLEAN
  BY <1>2 DEF TypeOK
<1> HIDE DEF found, stored, IInv
<1> QED BY <1>1, <1>2, <1>3, <1>4, <1>5, <1>6, CallStep

LEMMA CheckStep == ASSUME IInv, NEW c \in Ids, Check(c) PROVE IInv'
<1> DEFINE on == [call[c] EXCEPT !.at = "compare"]
<1>1. call[c] # None /\ call[c].at = "check"
  BY DEF Check
<1>2. UNCHANGED <<table, owner, score, decay, faded, made, doubled, costly,
                  lastCommandString, commandSpamAccumulator>>
  BY DEF Check, entries, shared, history
<1>3. on \in Calls
  BY <1>1, CallKinds DEF Calls, Charging, IInv
<1>4. call' = [call EXCEPT ![c] = on] \/ call' = [call EXCEPT ![c] = None]
  BY DEF Check, Finish
<1>5. /\ score' \in [Ids -> Numbers] /\ commandSpamAccumulator' \in Numbers
      /\ lastCommandString' \in Lines \union {None} /\ costly' \in BOOLEAN
  BY <1>2 DEF TypeOK, IInv
<1> HIDE DEF on
<1> QED BY <1>1, <1>2, <1>3, <1>4, <1>5, CallStep

\* A call that is being charged goes on to the next access.
LEMMA GoesOn ==
    ASSUME TypeOK, NEW c \in Ids, call[c] # None, call[c].at \in Charging,
           NEW at \in Charging, NEW value \in Numbers
    PROVE  [call[c] EXCEPT !.at = at, !.value = value] \in Calls
<1>1. call[c] \in [at : Charging, user : Users, line : Lines \union {None},
                   value : Numbers, entry : Ids]
  BY CallKinds DEF Calls, Charging
<1>2. [call[c] EXCEPT !.at = at, !.value = value] \in
        [at : Charging, user : Users, line : Lines \union {None}, value : Numbers, entry : Ids]
  BY <1>1
<1> QED BY <1>2 DEF Calls

LEMMA MultiplyStep == ASSUME IInv, NEW c \in Ids, Multiply(c) PROVE IInv'
<1>1. call[c] # None /\ call[c].at \in Charging
  BY DEF Multiply, Compare, Quadruple, WriteQuadrupled, Charge, Reset, Remember, Charging
<1>2. UNCHANGED <<table, owner, score, decay, faded, made, doubled>>
  BY DEF Multiply, Compare, Quadruple, WriteQuadrupled, Charge, Reset, Remember, entries, history
<1>3. costly' \in BOOLEAN
  BY Zenon DEF IInv, TypeOK, Multiply, Compare, Quadruple, WriteQuadrupled, Charge, Reset,
               Remember, history
<1>4. /\ call[c].line \in Lines \union {None} /\ call[c].value \in Numbers
      /\ commandSpamAccumulator \in Numbers /\ lastCommandString \in Lines \union {None}
      /\ score' \in [Ids -> Numbers] /\ Numbers \subseteq Int /\ 2 \in Numbers /\ 3 \in Numbers
  BY <1>1, <1>2, CallKinds, AntiSpamAssumption DEF IInv, TypeOK, Numbers, Smallest, NewUserScore
<1>5. ASSUME NEW at \in Charging, NEW value \in Numbers,
             call' = [call EXCEPT ![c] = [call[c] EXCEPT !.at = at, !.value = value]],
             commandSpamAccumulator' \in Numbers, lastCommandString' \in Lines \union {None}
      PROVE  IInv'
  <2>1. PICK on : on = [call[c] EXCEPT !.at = at, !.value = value]
    OBVIOUS
  <2>2. on \in Calls
    BY <1>1, <2>1, GoesOn DEF IInv
  <2>3. call' = [call EXCEPT ![c] = on]
    BY <1>5, <2>1
  <2> QED BY <1>1, <1>2, <1>3, <1>4, <1>5, <2>2, <2>3, CallStep
<1>6. ASSUME NEW at \in Charging,
             call' = [call EXCEPT ![c] = [call[c] EXCEPT !.at = at]],
             commandSpamAccumulator' \in Numbers, lastCommandString' \in Lines \union {None}
      PROVE  IInv'
  <2>1. PICK on : on = [call[c] EXCEPT !.at = at]
    OBVIOUS
  <2>2. on \in Calls
    BY <1>1, <2>1, CallKinds DEF Calls, Charging, IInv
  <2>3. call' = [call EXCEPT ![c] = on]
    BY <1>6, <2>1
  <2> QED BY <1>1, <1>2, <1>3, <1>4, <1>6, <2>2, <2>3, CallStep
<1>7. CASE Compare(c)
  <2>1. /\ UNCHANGED <<commandSpamAccumulator, lastCommandString>>
        /\ \/ call' = [call EXCEPT ![c] = [call[c] EXCEPT !.at = "quadruple"]]
           \/ call' = [call EXCEPT ![c] = [call[c] EXCEPT !.at = "reset", !.value = 3]]
    BY <1>7 DEF Compare, shared
  <2> QED BY <1>4, <1>5, <1>6, <2>1 DEF Charging
<1>8. CASE Quadruple(c)
  <2>1. PICK n : n = commandSpamAccumulator * 4
    OBVIOUS
  <2>2. /\ UNCHANGED <<commandSpamAccumulator, lastCommandString>>
        /\ call' = [call EXCEPT ![c] = [call[c] EXCEPT !.at = "quadrupled", !.value = Wrap(n)]]
    BY <1>8, <2>1 DEF Quadruple, shared
  <2>3. n \in Int
    BY <1>4, <2>1
  <2> QED BY <1>4, <1>5, <2>2, <2>3, WrapFits DEF Charging
<1>9. CASE WriteQuadrupled(c)
  <2>1. /\ commandSpamAccumulator' = call[c].value /\ UNCHANGED lastCommandString
        /\ call' = [call EXCEPT ![c] = [call[c] EXCEPT !.at = "charge"]]
    BY <1>9 DEF WriteQuadrupled
  <2> QED BY <1>4, <1>6, <2>1 DEF Charging
<1>10. CASE Charge(c)
  <2>1. PICK n : n = 3 * (IF call[c].line = Bare THEN 45 * (2 + commandSpamAccumulator)
                                                  ELSE 2 + commandSpamAccumulator)
    OBVIOUS
  <2>2. /\ UNCHANGED <<commandSpamAccumulator, lastCommandString>>
        /\ call' = [call EXCEPT ![c] = [call[c] EXCEPT !.at = "remember", !.value = Wrap(n)]]
    BY <1>10, <2>1 DEF Charge, shared
  <2>3. n \in Int
    BY <1>4, <2>1
  <2> QED BY <1>4, <1>5, <2>2, <2>3, WrapFits DEF Charging
<1>11. CASE Reset(c)
  <2>1. /\ commandSpamAccumulator' = 2 /\ UNCHANGED lastCommandString
        /\ call' = [call EXCEPT ![c] = [call[c] EXCEPT !.at = "remember"]]
    BY <1>11 DEF Reset
  <2> QED BY <1>4, <1>6, <2>1 DEF Charging
<1>12. CASE Remember(c)
  <2>1. /\ lastCommandString' = call[c].line /\ UNCHANGED commandSpamAccumulator
        /\ call' = [call EXCEPT ![c] = [call[c] EXCEPT !.at = "read"]]
    BY <1>12 DEF Remember
  <2> QED BY <1>4, <1>6, <2>1 DEF Charging
<1> QED BY <1>7, <1>8, <1>9, <1>10, <1>11, <1>12 DEF Multiply

LEMMA ReadWriteStep == ASSUME IInv, NEW c \in Ids, Read(c) \/ Write(c) PROVE IInv'
<1>1. call[c] # None
  BY DEF Read, Write
<1>2. UNCHANGED <<table, owner, decay, faded, made, doubled, costly,
                  lastCommandString, commandSpamAccumulator>>
  BY DEF Read, Write, entries, shared, history
<1>3. /\ commandSpamAccumulator' \in Numbers /\ costly' \in BOOLEAN
      /\ lastCommandString' \in Lines \union {None}
  BY <1>2 DEF TypeOK, IInv
<1>4. CASE Read(c)
  <2> DEFINE on == [at |-> "write", user |-> call[c].user, entry |-> call[c].entry,
                    sum |-> Wrap(score[call[c].entry] + call[c].value)]
  <2>1. call[c].entry \in Ids /\ call[c].user \in Users /\ call[c].value \in Numbers
    BY <1>1, <1>4, CallKinds DEF Read, Charging, IInv
  <2>2. score[call[c].entry] + call[c].value \in Int
    BY <2>1, AntiSpamAssumption DEF IInv, TypeOK, Numbers, Smallest
  <2>3. on \in Calls
    BY <2>1, <2>2, WrapFits DEF Calls
  <2>4. call' = [call EXCEPT ![c] = on] /\ score' = score
    BY <1>4 DEF Read, entries
  <2> HIDE DEF on
  <2> QED BY <1>1, <1>2, <1>3, <2>3, <2>4, CallStep DEF IInv, TypeOK
<1>5. CASE Write(c)
  <2>1. call[c].entry \in Ids /\ call[c].sum \in Numbers
    BY <1>1, <1>5, CallKinds DEF Write, Charging, IInv
  <2>2. call' = [call EXCEPT ![c] = None]
        /\ score' = [score EXCEPT ![call[c].entry] = call[c].sum]
    BY <1>5 DEF Write, Finish
  <2>3. score' \in [Ids -> Numbers]
    BY <2>1, <2>2 DEF IInv, TypeOK
  <2> QED BY <1>1, <1>2, <1>3, <2>2, <2>3, CallStep
<1> QED BY <1>4, <1>5

LEMMA StoreStep == ASSUME IInv, NEW c \in Ids, Store(c) PROVE IInv'
<1> DEFINE u == call[c].user
<1>1. call[c] # None /\ u \in Users
  BY CallKinds DEF Store, IInv
<1>2. /\ table' = [table EXCEPT ![u] = c] /\ owner' = [owner EXCEPT ![c] = u]
      /\ doubled' = IF table[u] = 0 THEN doubled ELSE doubled \union {u}
      /\ score' = [score EXCEPT ![c] = NewUserScore]
      /\ decay' = [decay EXCEPT ![c] = "test"]
      /\ call' = [call EXCEPT ![c] = None]
      /\ UNCHANGED <<faded, made, lastCommandString, commandSpamAccumulator, costly>>
  BY DEF Store, Finish, shared
<1> HIDE DEF u
<1>3. NewUserScore \in Numbers /\ 0 \notin Ids
  BY AntiSpamAssumption DEF Numbers, Smallest, NewUserScore, Ids
<1>4. owner[c] = None /\ decay[c] = "gone" /\ None \notin Users /\ c <= made
  BY <1>1, AntiSpamAssumption DEF IInv, Fresh, Begun
<1>5. TypeOK'
  BY <1>1, <1>2, <1>3 DEF IInv, TypeOK
<1>6. EveryEntryDecays'
  BY <1>1, <1>2, <1>3, <1>4 DEF IInv, TypeOK, EveryEntryDecays
<1>7. OneDecay'
  <2> SUFFICES ASSUME NEW i \in Ids, decay'[i] # "gone", owner'[i] \notin doubled'
               PROVE  table'[owner'[i]] = i
    BY DEF OneDecay
  <2>1. CASE i = c
    BY <1>1, <1>2, <2>1 DEF IInv, TypeOK
  <2>2. CASE i # c
    <3>1. owner'[i] = owner[i] /\ decay[i] # "gone" /\ owner[i] \in Users
      BY <1>1, <1>2, <2>2 DEF IInv, TypeOK, Owned
    <3>2. owner[i] \notin doubled /\ table[owner[i]] = i
      BY <1>2, <3>1 DEF IInv, OneDecay
    <3>3. owner[i] # u
      BY <1>2, <1>3, <3>1, <3>2
    <3> QED BY <1>1, <1>2, <3>1, <3>2, <3>3 DEF IInv, TypeOK
  <2> QED BY <2>1, <2>2
<1>8. Owned'
  BY <1>1, <1>2 DEF IInv, TypeOK, Owned
<1>9. Fresh' /\ Begun'
  BY <1>1, <1>2, <1>4 DEF IInv, TypeOK, Fresh, Begun, Ids
<1> QED BY <1>5, <1>6, <1>7, <1>8, <1>9 DEF IInv

LEMMA DecayStep == ASSUME IInv, NEW i \in Ids, Decay(i) PROVE IInv'
<1>1. UNCHANGED <<owner, call, made, doubled, costly, lastCommandString, commandSpamAccumulator>>
  BY DEF Decay, Test, Fade, WriteFaded, shared, history
<1>2. decay[i] # "gone" /\ owner[i] \in Users
  BY DEF Decay, Test, Fade, WriteFaded, IInv, Owned
<1>3. CASE decay' = [decay EXCEPT ![i] = "gone"] /\ table' = [table EXCEPT ![owner[i]] = 0]
           /\ score' = [score EXCEPT ![i] = 0] /\ UNCHANGED faded
  <2>1. TypeOK'
    BY <1>1, <1>2, <1>3, AntiSpamAssumption DEF IInv, TypeOK, Numbers, Smallest
  <2>2. EveryEntryDecays'
    BY <1>1, <1>2, <1>3 DEF IInv, TypeOK, EveryEntryDecays
  <2>3. OneDecay'
    BY <1>1, <1>2, <1>3 DEF IInv, TypeOK, OneDecay, Owned
  <2>4. Owned' /\ Fresh' /\ Begun'
    BY <1>1, <1>2, <1>3 DEF IInv, TypeOK, Owned, Fresh, Begun
  <2> QED BY <2>1, <2>2, <2>3, <2>4 DEF IInv
<1>4. CASE UNCHANGED table /\ \E what \in {"test", "asleep", "write"} :
               decay' = [decay EXCEPT ![i] = what]
  <2>1. score' \in [Ids -> Numbers] /\ faded' \in [Ids -> Numbers]
    <3>1. ThreeQuarters(score[i]) \in Numbers /\ faded[i] \in Numbers
      BY QuarterFits DEF IInv, TypeOK
    <3>2. \/ UNCHANGED <<score, faded>>
          \/ faded' = [faded EXCEPT ![i] = ThreeQuarters(score[i])] /\ UNCHANGED score
          \/ score' = [score EXCEPT ![i] = faded[i]] /\ UNCHANGED faded
          \/ score' = [score EXCEPT ![i] = 0] /\ UNCHANGED faded
      BY DEF Decay, Test, Fade, WriteFaded
    <3>3. 0 \in Numbers
      BY AntiSpamAssumption DEF Numbers, Smallest
    <3> QED BY <3>1, <3>2, <3>3 DEF IInv, TypeOK
  <2>2. TypeOK'
    BY <1>1, <1>2, <1>4, <2>1 DEF IInv, TypeOK
  <2>3. EveryEntryDecays' /\ OneDecay' /\ Owned' /\ Fresh' /\ Begun'
    BY <1>1, <1>2, <1>4 DEF IInv, TypeOK, EveryEntryDecays, OneDecay, Owned, Fresh, Begun
  <2> QED BY <2>2, <2>3 DEF IInv
<1> QED BY <1>3, <1>4 DEF Decay, Test, Fade, WriteFaded

LEMMA NextIInv == IInv /\ [Next]_vars => IInv'
<1> SUFFICES ASSUME IInv, [Next]_vars PROVE IInv'
  OBVIOUS
<1>1. ASSUME NEW u \in Users, NEW line \in Lines, Parse(u, line) PROVE IInv'
  <2>1. 0 \in Numbers
    BY AntiSpamAssumption DEF Numbers, Smallest
  <2> QED BY <1>1, <2>1, BeginStep DEF Parse
<1>2. ASSUME NEW u \in Users, NEW value \in Added, AddScore(u, value) PROVE IInv'
  BY <1>2, BeginStep, AntiSpamAssumption DEF AddScore
<1>3. ASSUME NEW i \in Ids, Step(i) PROVE IInv'
  BY <1>3, LoadStep, StoreStep, CheckStep, MultiplyStep, ReadWriteStep DEF Step
<1>4. ASSUME NEW i \in Ids, Decay(i) PROVE IInv'
  BY <1>4, DecayStep
<1>5. CASE UNCHANGED vars
  BY <1>5 DEF vars, entries, shared, history, IInv, TypeOK, EveryEntryDecays, OneDecay,
              Owned, Fresh, Begun
<1> QED BY <1>1, <1>2, <1>3, <1>4, <1>5 DEF Next

-----------------------------------------------------------------------------
(* The invariant of the spam table, for any users, lines and calls.         *)
THEOREM Invariance == Spec => []IInv
BY InitIInv, NextIInv, PTL DEF Spec

(* The types of the parser's state: every number fits its width.            *)
THEOREM TypeCorrect == Spec => []TypeOK
BY Invariance, PTL DEF IInv

(* A stored entry always has a goroutine that will delete it, so no entry   *)
(* outlives its user's score (parser.go:118-135).                           *)
THEOREM NoEntryForEver == Spec => []EveryEntryDecays
BY Invariance, PTL DEF IInv

(* Unless two first lines of a user raced, the only goroutine that can      *)
(* delete the user's entry is that entry's own (parser.go:116-134).         *)
THEOREM OnlyItsOwnDecay == Spec => []OneDecay
BY Invariance, PTL DEF IInv
-----------------------------------------------------------------------------
(* What a score can be *)

\* Calls that have read a score to add to it, or are over.
Spent == {c \in 1..made : call[c] = None \/ call[c].at = "write"}

\* What a score can be after that many charges of three.
Most == NewUserScore + 3 * Cardinality(Spent)

\* As long as no line is repeated, every score, every one that is about to be
\* stored, and every sum are covered by the calls spent on them.
CInv ==
    ~ costly =>
        /\ \A i \in Ids : score[i] <= Most /\ faded[i] <= Most
        /\ \A c \in Ids : call[c] # None =>
             /\ call[c].at = "load" => call[c].line # None
             /\ call[c].at \notin {"quadruple", "quadrupled", "charge"}
             /\ call[c].at \in {"reset", "remember", "read"} => call[c].value = 3
             /\ call[c].at = "write" => call[c].sum <= Most

LEMMA SpentFinite ==
    ASSUME IInv
    PROVE  /\ IsFiniteSet(Spent) /\ Most \in Int
           /\ NewUserScore <= Most /\ Most <= NewUserScore + 3 * made
<1>1. made \in Nat /\ IsFiniteSet(1..made) /\ Cardinality(1..made) = made
  BY AntiSpamAssumption, FS_Interval DEF IInv, TypeOK
<1>2. Spent \subseteq 1..made
  BY DEF Spent
<1>3. IsFiniteSet(Spent) /\ Cardinality(Spent) <= made /\ Cardinality(Spent) \in Nat
  BY <1>1, <1>2, FS_Subset, FS_CardinalityType
<1> QED BY <1>1, <1>3 DEF Most, NewUserScore

LEMMA SpentFiniteAfter ==
    ASSUME IInv'
    PROVE  IsFiniteSet(Spent') /\ Most' \in Int /\ NewUserScore <= Most'
<1>1. made' \in Nat /\ IsFiniteSet(1..made')
  BY AntiSpamAssumption, FS_Interval DEF IInv, TypeOK
<1>2. Spent' \subseteq 1..made'
  BY DEF Spent
<1>3. IsFiniteSet(Spent') /\ Cardinality(Spent') \in Nat
  BY <1>1, <1>2, FS_Subset, FS_CardinalityType
<1> QED BY <1>3 DEF Most, NewUserScore

\* A number that fits is what it was; one that is too large does not grow.
LEMMA WrapShrinks ==
    ASSUME NEW n \in Int, Smallest <= n
    PROVE  Wrap(n) <= n /\ (n <= Largest => Wrap(n) = n)
<1> DEFINE w == 2 * Largest + 2
           m == n - Smallest
<1>1. Largest \in Nat /\ w \in Nat \ {0} /\ m \in Nat
  BY AntiSpamAssumption DEF Smallest
<1>2. m % w \in Int /\ m % w <= m
  BY <1>1
<1>3. ASSUME n <= Largest PROVE m % w = m
  <2>1. m < w
    BY <1>1, <1>3 DEF Smallest
  <2> HIDE DEF m, w
  <2> QED BY <1>1, <2>1
<1>4. Wrap(n) = (m % w) + Smallest
  BY DEF Wrap
<1>5. n = m + Smallest
  BY <1>1 DEF Smallest
<1> HIDE DEF m, w
<1> QED BY <1>1, <1>2, <1>3, <1>4, <1>5 DEF Smallest

LEMMA QuarterShrinks == ASSUME NEW n \in Int PROVE ThreeQuarters(n) <= n \/ ThreeQuarters(n) <= 0
<1>1. CASE n < 0
  <2>1. (-3 * n) \div 4 \in Nat
    BY <1>1
  <2> QED BY <1>1, <2>1 DEF ThreeQuarters
<1>2. CASE n >= 0
  BY <1>2 DEF ThreeQuarters
<1> QED BY <1>1, <1>2

\* What a step has to keep: calls stay spent, and what is new is covered.
LEMMA Covered ==
    ASSUME IInv, IInv', CInv, ~ costly, Spent \subseteq Spent',
           \A i \in Ids : /\ score'[i] = score[i] \/ score'[i] <= Most'
                          /\ faded'[i] = faded[i] \/ faded'[i] <= Most',
           \A d \in Ids : call'[d] # None =>
               \/ call'[d] = call[d]
               \/ /\ call'[d].at = "load" => call'[d].line # None
                  /\ call'[d].at \notin {"quadruple", "quadrupled", "charge"}
                  /\ call'[d].at \in {"reset", "remember", "read"} => call'[d].value = 3
                  /\ call'[d].at = "write" => call'[d].sum <= Most'
    PROVE  CInv'
<1>1. Most <= Most' /\ Most \in Int /\ Most' \in Int
  <2>1. Cardinality(Spent) <= Cardinality(Spent') /\ Cardinality(Spent) \in Nat
        /\ Cardinality(Spent') \in Nat
    BY SpentFiniteAfter, SpentFinite, FS_Subset, FS_CardinalityType
  <2> QED BY <2>1 DEF Most, NewUserScore
<1>2. ASSUME NEW i \in Ids
      PROVE  score[i] <= Most /\ faded[i] <= Most /\ score[i] \in Int /\ faded[i] \in Int
  BY AntiSpamAssumption DEF CInv, IInv, TypeOK, Numbers, Smallest
<1>3. ASSUME NEW i \in Ids PROVE score'[i] <= Most' /\ faded'[i] <= Most'
  BY <1>1, <1>2
<1>4. ASSUME NEW d \in Ids, call[d] # None, call[d].at = "write" PROVE call[d].sum <= Most'
  <2>1. call[d].sum \in Int
    BY <1>4, CallKinds, AntiSpamAssumption DEF IInv, Numbers, Smallest
  <2> QED BY <1>1, <1>4, <2>1 DEF CInv
<1>5. ASSUME NEW d \in Ids, call'[d] # None
      PROVE  /\ call'[d].at = "load" => call'[d].line # None
             /\ call'[d].at \notin {"quadruple", "quadrupled", "charge"}
             /\ call'[d].at \in {"reset", "remember", "read"} => call'[d].value = 3
             /\ call'[d].at = "write" => call'[d].sum <= Most'
  BY <1>4, <1>5 DEF CInv
<1> QED BY <1>3, <1>5 DEF CInv

LEMMA InitCInv == Init => CInv
<1> SUFFICES ASSUME Init PROVE CInv
  OBVIOUS
<1>1. NewUserScore <= Most /\ Most \in Int
  BY InitIInv, SpentFinite
<1> QED BY <1>1 DEF Init, CInv, NewUserScore

LEMMA BeginCovered ==
    ASSUME IInv, IInv', CInv, ~ costly', NEW u \in Users, NEW line, NEW value,
           Begin(u, line, value)
    PROVE  CInv'
<1> DEFINE new == [at |-> "load", user |-> u, line |-> line, value |-> value]
<1>1. ~ costly /\ line # None
  BY Zenon DEF Begin
<1>2. /\ made' = made + 1 /\ made \in Nat /\ made + 1 \in Ids
      /\ call' = [call EXCEPT ![made + 1] = new] /\ UNCHANGED <<score, faded>>
  BY AntiSpamAssumption DEF Begin, IInv, TypeOK, Ids, entries
<1>3. ASSUME NEW d \in Ids
      PROVE  \/ call'[d] = call[d]
             \/ d = made + 1 /\ call'[d].at = "load" /\ call'[d].line # None
  BY <1>1, <1>2 DEF IInv, TypeOK
<1>4. Spent \subseteq Spent'
  <2> SUFFICES ASSUME NEW d \in Spent PROVE d \in Spent'
    OBVIOUS
  <2>1. d \in 1..made /\ d \in Ids /\ d # made + 1 /\ d \in 1..made'
    BY <1>2, AntiSpamAssumption DEF Spent, Ids, IInv, TypeOK
  <2> QED BY <1>3, <2>1 DEF Spent
<1> HIDE DEF new
<1> QED BY <1>1, <1>2, <1>3, <1>4, Covered

\* A call that goes on is not spent, or is about to be.
LEMMA StepCovered ==
    ASSUME IInv, IInv', CInv, ~ costly', NEW c \in Ids, Step(c)
    PROVE  CInv'
<1> USE DEF Multiply
<1>1. call[c] # None /\ ~ costly /\ UNCHANGED made
  <2>1. call[c] # None /\ UNCHANGED made
    BY DEF Step, Load, Store, Check, Compare, Quadruple, WriteQuadrupled, Charge, Reset,
           Remember, Read, Write, history
  <2>2. costly => costly'
    BY Zenon DEF Step, Load, Store, Check, Compare, Quadruple, WriteQuadrupled, Charge, Reset,
                 Remember, Read, Write, history
  <2> QED BY <2>1, <2>2
<1>2. \A d \in Ids : d # c => call'[d] = call[d]
  BY DEF Step, Load, Store, Check, Compare, Quadruple, WriteQuadrupled, Charge, Reset,
         Remember, Read, Write, Finish, IInv, TypeOK
<1> HIDE DEF Multiply
<1>3. ASSUME call[c].at # "write" \/ call'[c] = None PROVE Spent \subseteq Spent'
  <2> SUFFICES ASSUME NEW d \in Spent PROVE d \in Spent'
    OBVIOUS
  <2>1. d \in Ids /\ d \in 1..made'
    BY <1>1, AntiSpamAssumption DEF Spent, Ids, IInv, TypeOK
  <2>2. CASE d = c
    BY <1>1, <1>3, <2>1, <2>2 DEF Spent
  <2>3. CASE d # c
    BY <1>2, <2>1, <2>3 DEF Spent
  <2> QED BY <2>2, <2>3
<1>4. CASE Load(c) \/ Check(c)
  <2>1. UNCHANGED <<score, faded>> /\ call[c].at # "write"
    BY <1>4 DEF Load, Check, entries
  <2>2. \/ call'[c] = None \/ call'[c].at \in {"store", "check", "compare"}
        \/ call'[c].at = "read" /\ call[c].at = "load" /\ call[c].line = None
    <3>1. CASE Load(c)
      <4>1. call[c].at = "load" /\ call \in [Ids -> Calls \union {None}]
        BY <3>1 DEF Load, IInv, TypeOK
      <4>2. [call[c] EXCEPT !.at = "store"].at = "store"
        BY <1>1, <4>1 DEF Calls
      <4>3. \/ call'[c] = None
            \/ call'[c] = [call[c] EXCEPT !.at = "store"]
            \/ call'[c].at = IF call[c].line = None THEN "read" ELSE "check"
        BY <3>1, <4>1 DEF Load, Finish
      <4> QED BY <4>1, <4>2, <4>3
    <3>2. CASE Check(c)
      <4>1. call \in [Ids -> Calls \union {None}]
        BY DEF IInv, TypeOK
      <4>2. [call[c] EXCEPT !.at = "compare"].at = "compare"
        BY <1>1, <4>1 DEF Calls
      <4>3. call'[c] = None \/ call'[c] = [call[c] EXCEPT !.at = "compare"]
        BY <3>2, <4>1 DEF Check, Finish
      <4> QED BY <4>2, <4>3
    <3> QED BY <1>4, <3>1, <3>2
  <2>3. call[c].at = "load" => call[c].line # None
    BY <1>1 DEF CInv
  <2> QED BY <1>1, <1>2, <1>3, <2>1, <2>2, <2>3, Covered
<1>5. CASE Store(c)
  <2>1. /\ score' = [score EXCEPT ![c] = NewUserScore] /\ UNCHANGED faded
        /\ call'[c] = None
    BY <1>5 DEF Store, Finish, IInv, TypeOK
  <2>2. \A i \in Ids : score'[i] = score[i] \/ score'[i] <= Most'
    BY <2>1, SpentFiniteAfter DEF IInv, TypeOK
  <2> QED BY <1>1, <1>2, <1>3, <2>1, <2>2, Covered
<1>6. CASE Multiply(c)
  <2>1. UNCHANGED <<score, faded>> /\ call[c].at # "write"
    BY <1>6 DEF Multiply, Compare, Quadruple, WriteQuadrupled, Charge, Reset, Remember, entries
  <2>2. call'[c].at \in {"reset", "remember", "read"} /\ call'[c].value = 3
    <3>1. call[c].at \notin {"quadruple", "quadrupled", "charge"}
      BY <1>1 DEF CInv
    <3>2. DOMAIN call = Ids /\ call[c] \in Calls
      BY <1>1 DEF IInv, TypeOK
    <3>3. CASE Compare(c)
      <4>1. call' = [call EXCEPT ![c].at = "reset", ![c].value = 3]
        BY <3>3, Zenon DEF Compare
      <4>2. call'[c] = [call[c] EXCEPT !.at = "reset", !.value = 3]
        BY <3>2, <4>1
      <4>3. call[c].at = "compare"
        BY <3>3 DEF Compare
      <4>4. [call[c] EXCEPT !.at = "reset", !.value = 3].at = "reset"
            /\ [call[c] EXCEPT !.at = "reset", !.value = 3].value = 3
        BY <3>2, <4>3 DEF Calls, Charging
      <4> QED BY <4>2, <4>4
    <3>4. CASE Reset(c) \/ Remember(c)
      <4>1. /\ call[c].at \in {"reset", "remember"}
            /\ \E at \in {"remember", "read"} : call'[c] = [call[c] EXCEPT !.at = at]
        BY <3>2, <3>4 DEF Reset, Remember
      <4>2. PICK at \in {"remember", "read"} : call'[c] = [call[c] EXCEPT !.at = at]
        BY <4>1
      <4>3. call[c].value = 3
        BY <1>1, <4>1 DEF CInv
      <4>4. [call[c] EXCEPT !.at = at].at = at /\ [call[c] EXCEPT !.at = at].value = call[c].value
        BY <3>2, <4>1 DEF Calls, Charging
      <4> QED BY <4>2, <4>3, <4>4
    <3> QED BY <1>6, <3>1, <3>3, <3>4 DEF Multiply, Quadruple, WriteQuadrupled, Charge
  <2> QED BY <1>1, <1>2, <1>3, <2>1, <2>2, Covered
<1>7. CASE Read(c)
  <2> DEFINE e == call[c].entry
  <2>1. /\ UNCHANGED <<score, faded>> /\ call[c].at = "read" /\ e \in Ids
        /\ call'[c].at = "write" /\ call'[c].sum = Wrap(score[e] + 3) /\ call'[c] # None
    <3>1. call[c].at = "read" /\ e \in Ids /\ call[c].value = 3
      BY <1>1, <1>7, CallKinds DEF Read, Charging, IInv, CInv
    <3>2. call'[c] = [at |-> "write", user |-> call[c].user, entry |-> e,
                      sum |-> Wrap(score[e] + call[c].value)]
      BY <1>7 DEF Read, IInv, TypeOK
    <3>3. [at |-> "write", user |-> call[c].user, entry |-> e,
           sum |-> Wrap(score[e] + call[c].value)] \in Calls
      <4>1. score[e] + call[c].value \in Int
        BY <3>1, AntiSpamAssumption DEF IInv, TypeOK, Numbers, Smallest
      <4>2. call[c].user \in Users
        BY <1>1, CallKinds DEF IInv
      <4> QED BY <3>1, <4>1, <4>2, WrapFits DEF Calls
    <3>4. UNCHANGED <<score, faded>>
      BY <1>7 DEF Read, entries
    <3>5. call'[c] # None
      BY <3>2, <3>3, CallAssumption
    <3> QED BY <3>1, <3>2, <3>4, <3>5
  <2>2. score[e] \in Int /\ score[e] <= Most /\ Smallest <= score[e] /\ Smallest \in Int
    BY <1>1, <2>1, AntiSpamAssumption DEF CInv, IInv, TypeOK, Numbers, Smallest
  <2>3. Wrap(score[e] + 3) <= score[e] + 3
    BY <2>2, WrapShrinks
  <2>4. Spent' = Spent \union {c} /\ c \notin Spent
    <3>1. c \in 1..made'
      BY <1>1 DEF IInv, Begun, Ids
    <3>2. c \notin Spent
      BY <1>1, <2>1 DEF Spent
    <3>3. Spent \subseteq Spent' /\ c \in Spent'
      BY <1>3, <2>1, <3>1 DEF Spent
    <3>4. ASSUME NEW d \in Spent', d # c PROVE d \in Spent
      <4>1. d \in Ids /\ d \in 1..made
        BY <1>1, AntiSpamAssumption DEF Spent, Ids, IInv, TypeOK
      <4> QED BY <1>2, <3>4, <4>1 DEF Spent
    <3> QED BY <3>2, <3>3, <3>4
  <2>5. Most' = Most + 3
    <3>1. Cardinality(Spent') = Cardinality(Spent) + 1 /\ Cardinality(Spent) \in Nat
      BY <2>4, SpentFinite, FS_AddElement, FS_CardinalityType
    <3> QED BY <3>1 DEF Most, NewUserScore
  <2>6. call'[c].sum <= Most'
    <3>1. Wrap(score[e] + 3) \in Int
      BY <2>2, WrapFits, AntiSpamAssumption DEF Numbers, Smallest
    <3> QED BY <2>1, <2>2, <2>3, <2>5, <3>1, SpentFinite
  <2> HIDE DEF e
  <2> QED BY <1>1, <1>2, <2>1, <2>4, <2>6, Covered
<1>8. CASE Write(c)
  <2>1. /\ score' = [score EXCEPT ![call[c].entry] = call[c].sum] /\ UNCHANGED faded
        /\ call' = [call EXCEPT ![c] = None] /\ call[c].at = "write"
    BY <1>8 DEF Write, Finish
  <2>2. call'[c] = None
    BY <2>1 DEF IInv, TypeOK
  <2>3. Spent' = Spent
    <3>1. ASSUME NEW d \in Ids
          PROVE  (call'[d] = None \/ call'[d].at = "write") <=> (call[d] = None \/ call[d].at = "write")
      BY <1>2, <2>1, <2>2
    <3>2. 1..made \subseteq Ids
      BY AntiSpamAssumption DEF IInv, TypeOK, Ids
    <3> QED BY <1>1, <3>1, <3>2 DEF Spent
  <2>4. call[c].sum <= Most'
    BY <1>1, <2>1, <2>3 DEF CInv, Most
  <2>5. \A i \in Ids : score'[i] = score[i] \/ score'[i] <= Most'
    BY <2>1, <2>4 DEF IInv, TypeOK
  <2> QED BY <1>1, <1>2, <2>1, <2>2, <2>3, <2>5, Covered
<1> QED BY <1>4, <1>5, <1>6, <1>7, <1>8 DEF Step

\* What decays gets smaller.
LEMMA DecayCovered ==
    ASSUME IInv, IInv', CInv, ~ costly', NEW i \in Ids, Decay(i)
    PROVE  CInv'
<1>1. ~ costly /\ UNCHANGED <<call, made>>
  BY DEF Decay, Test, Fade, WriteFaded, history
<1>2. Spent' = Spent /\ Most' = Most
  BY <1>1 DEF Spent, Most
<1>3. /\ score[i] \in Int /\ faded[i] \in Int /\ score[i] <= Most /\ faded[i] <= Most
      /\ Most \in Int /\ 0 <= Most
  BY <1>1, SpentFinite, AntiSpamAssumption DEF CInv, IInv, TypeOK, Numbers, Smallest, NewUserScore
<1>4. ThreeQuarters(score[i]) <= Most
  <2>1. ThreeQuarters(score[i]) \in Int
    BY <1>3, QuarterFits, AntiSpamAssumption DEF IInv, TypeOK, Numbers, Smallest
  <2> QED BY <1>3, <2>1, QuarterShrinks
<1>5. \/ UNCHANGED <<score, faded>>
      \/ faded' = [faded EXCEPT ![i] = ThreeQuarters(score[i])] /\ UNCHANGED score
      \/ score' = [score EXCEPT ![i] = faded[i]] /\ UNCHANGED faded
      \/ score' = [score EXCEPT ![i] = 0] /\ UNCHANGED faded
  BY DEF Decay, Test, Fade, WriteFaded
<1>6. \A k \in Ids : /\ score'[k] = score[k] \/ score'[k] <= Most'
                     /\ faded'[k] = faded[k] \/ faded'[k] <= Most'
  BY <1>2, <1>3, <1>4, <1>5 DEF IInv, TypeOK
<1> QED BY <1>1, <1>2, <1>6, Covered

LEMMA NextCInv == IInv /\ IInv' /\ CInv /\ [Next]_vars => CInv'
<1> SUFFICES ASSUME IInv, IInv', CInv, [Next]_vars, ~ costly' PROVE CInv'
  BY DEF CInv
<1>1. ASSUME NEW u \in Users, NEW line, NEW value, Begin(u, line, value) PROVE CInv'
  BY <1>1, BeginCovered
<1>2. ASSUME NEW c \in Ids, Step(c) PROVE CInv'
  BY <1>2, StepCovered
<1>3. ASSUME NEW i \in Ids, Decay(i) PROVE CInv'
  BY <1>3, DecayCovered
<1>4. CASE UNCHANGED vars
  BY <1>4 DEF vars, entries, history, CInv, Most, Spent
<1> QED BY <1>1, <1>2, <1>3, <1>4 DEF Next, Parse, AddScore

(* As long as nobody repeats the last line, calls and decay that overwrite  *)
(* each other's sums lose charges and never make any up, for any number of  *)
(* calls at once: a call is charged for once it has read the score, and     *)
(* only once (parser.go:126-158).                                           *)
THEOREM ChargedOnce == Spec => []NeverOvercharged
<1>1. IInv /\ CInv => NeverOvercharged
  <2> SUFFICES ASSUME IInv, CInv, ~ costly, NEW i \in Ids
               PROVE  score[i] <= NewUserScore + 3 * made
    BY DEF NeverOvercharged
  <2>1. score[i] <= Most /\ score[i] \in Int /\ made \in Int
    BY AntiSpamAssumption DEF CInv, IInv, TypeOK, Numbers, Smallest
  <2> QED BY <2>1, SpentFinite DEF NewUserScore
<1> QED BY InitIInv, NextIInv, InitCInv, NextCInv, <1>1, PTL DEF Spec
=============================================================================
