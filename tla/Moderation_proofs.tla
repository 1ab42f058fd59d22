-------------------------- MODULE Moderation_proofs -------------------------
(***************************************************************************)
(* Proofs about Moderation, for any nicknames, keys, number of goroutines, *)
(* stays and tables.  What makes MutedUnlessRaced inductive is that nobody *)
(* the current table matches gets past IsBlocked any more (NoLateEntry).   *)
(***************************************************************************)
EXTENDS Moderation, TLAPS

NoLateEntry == \A n \in nicknames : Admitted(n) # {} => n \in raced

IInv == TypeOK /\ NoLateEntry /\ MutedUnlessRaced

-----------------------------------------------------------------------------
\* The fields of a task, by what it does.
LEMMA TaskFields ==
    ASSUME NEW t \in Tasks
    PROVE  /\ t.do \in {"check", "fingerprint", "receive"} =>
                t = Checking(t.do, t) /\ t.nick \in Nicks /\ t.key \in Keys
           /\ t.do = "compare" =>
                t.nick \in Nicks /\ t.key \in Keys /\ t.fp \in Keys \union {None}
           /\ t.do = "destroy" => t.nick \in Nicks
           /\ t.do = "set" /\ t.table = "nicknames" => t.entries \subseteq Nicks
           /\ t.do = "set" /\ t.table = "keys" => t.entries \subseteq Keys
           /\ t.do = "list" => t.entries \subseteq Nicks
           /\ t.do = "keys" => t.entries \subseteq Keys
           /\ t.do = "match" => /\ t.key \in Keys /\ t.todo \subseteq Nicks
                                /\ t.names \subseteq Nicks /\ t.entries \subseteq Keys
           /\ t.do = "blacklist" => t.names \subseteq Nicks /\ t.entries \subseteq Keys
BY DEF Tasks, Checking

\* A step of one goroutine leaves the others' tasks alone.
LEMMA GotoTask ==
    ASSUME TypeOK, NEW g \in Goroutines, NEW next \in Tasks \union {None}, Goto(g, next)
    PROVE  /\ task' \in [Goroutines -> Tasks \union {None}]
           /\ \A h \in Goroutines : task'[h] = IF h = g THEN next ELSE task[h]
BY DEF TypeOK, Goto

\* What a new task adds to the goroutines that are past IsBlocked ...
LEMMA AdmittedStep ==
    ASSUME TypeOK, NEW g \in Goroutines, NEW next \in Tasks \union {None}, Goto(g, next),
           NEW n, Admitted(n)' # {}
    PROVE  \/ Admitted(n) # {}
           \/ next # None /\ next.do \in Past /\ next.nick = n
BY GotoTask DEF Admitted

\* ... and what keeps one that enforces the table of nicknames.
LEMMA EnforcingStep ==
    ASSUME TypeOK, NEW g \in Goroutines, NEW next \in Tasks \union {None}, Goto(g, next),
           NEW n, Enforcing(n),
           \/ task[g] = None \/ task[g].do \notin {"list", "blacklist"}
           \/ next # None /\ next.do = "blacklist" /\ n \in next.names
    PROVE  Enforcing(n)'
BY GotoTask DEF Enforcing

\* The effect of a goroutine that touches neither tables, buddies nor blacklist.
LEMMA QuietStep ==
    ASSUME IInv, NEW g \in Goroutines, NEW next \in Tasks \union {None}, Goto(g, next),
           UNCHANGED <<room, tables, buddies, blacklist, raced>>,
           \/ task[g] = None \/ task[g].do \notin {"list", "blacklist"},
           \A n \in nicknames :
             next # None /\ next.do \in Past /\ next.nick = n
             => Admitted(n) # {}
    PROVE  IInv'
<1>1. TypeOK'
  BY GotoTask DEF IInv, TypeOK, room, tables
<1>2. NoLateEntry'
  BY AdmittedStep DEF IInv, NoLateEntry, tables
<1>3. MutedUnlessRaced'
  BY EnforcingStep DEF IInv, MutedUnlessRaced, tables, Present
<1> QED BY <1>1, <1>2, <1>3 DEF IInv

\* What the room does: it may start a goroutine, and changes nobody's tables.
LEMMA RoomStep ==
    ASSUME IInv, UNCHANGED <<tables, buddies, blacklist, raced>>,
           key' \in [Nicks -> Keys \union {None}], stays' \in [Nicks -> 0..MaxStays],
           sent' \in 0..MaxTables,
           NEW t \in Tasks, Spawn(t) \/ UNCHANGED task,
           t.do \notin Past
    PROVE  IInv'
<1>1. CASE UNCHANGED task
  BY <1>1 DEF IInv, TypeOK, NoLateEntry, MutedUnlessRaced, Admitted, Enforcing, Present, tables
<1>2. ASSUME NEW g \in Goroutines, task[g] = None, Goto(g, t)
      PROVE  IInv'
  <2>1. TypeOK'
    BY <1>2, GotoTask DEF IInv, TypeOK, tables
  <2>2. NoLateEntry'
    BY <1>2, AdmittedStep DEF IInv, NoLateEntry, tables
  <2>3. MutedUnlessRaced'
    BY <1>2, EnforcingStep DEF IInv, MutedUnlessRaced, tables, Present
  <2> QED BY <2>1, <2>2, <2>3 DEF IInv
<1> QED BY <1>1, <1>2 DEF Spawn, Goto

LEMMA PeopleStep ==
    ASSUME IInv, NEW n \in Nicks,
           (\E k \in Keys : Enter(n, k)) \/ AnnounceKey(n) \/ Leave(n)
    PROVE  IInv'
<1> DEFINE leave == [do |-> "destroy", nick |-> n]
           check == [do |-> "check", nick |-> n, key |-> key[n]]
<1>1. leave \in Tasks
  BY DEF Tasks
<1>2. leave.do \notin Past /\ check.do \notin Past
  BY DEF Past
<1>3. ASSUME NEW k \in Keys, Enter(n, k) PROVE IInv'
  <2>1. /\ key' \in [Nicks -> Keys \union {None}] /\ stays' \in [Nicks -> 0..MaxStays]
        /\ sent' \in 0..MaxTables
    BY <1>3, ModerationAssumption DEF Enter, IInv, TypeOK
  <2> QED BY <1>1, <1>2, <1>3, <2>1, RoomStep DEF Enter
<1>4. CASE AnnounceKey(n)
  <2>1. check \in Tasks
    BY <1>4 DEF AnnounceKey, IInv, TypeOK, Tasks
  <2> QED BY <1>2, <1>4, <2>1, RoomStep DEF AnnounceKey, room, IInv, TypeOK
<1>5. CASE Leave(n)
  <2>1. key' \in [Nicks -> Keys \union {None}]
    BY <1>5 DEF Leave, IInv, TypeOK
  <2> QED BY <1>1, <1>2, <1>5, <2>1, RoomStep DEF Leave, IInv, TypeOK
<1> QED BY <1>3, <1>4, <1>5

LEMMA SendTableStep ==
    ASSUME IInv, SendTable
    PROVE  IInv'
<1>1. sent' \in 0..MaxTables
  BY ModerationAssumption DEF SendTable, IInv, TypeOK
<1> DEFINE names(ns) == [do |-> "set", table |-> "nicknames", entries |-> ns]
           fprs(ks)  == [do |-> "set", table |-> "keys", entries |-> ks]
<1>2. PICK t \in Tasks : Spawn(t) /\ t.do = "set"
  <2>1. (\E ns \in SUBSET Nicks : Spawn(names(ns))) \/ (\E ks \in SUBSET Keys : Spawn(fprs(ks)))
    BY DEF SendTable
  <2>2. \A ns \in SUBSET Nicks : names(ns) \in Tasks /\ names(ns).do = "set"
    BY DEF Tasks
  <2>3. \A ks \in SUBSET Keys : fprs(ks) \in Tasks /\ fprs(ks).do = "set"
    BY DEF Tasks
  <2> HIDE DEF names, fprs
  <2> QED BY <2>1, <2>2, <2>3
<1> QED BY <1>1, <1>2, RoomStep DEF SendTable, IInv, TypeOK, Past

-----------------------------------------------------------------------------
LEMMA CheckStep ==
    ASSUME IInv, NEW g \in Goroutines, CheckNickname(g) \/ GroupFingerprint(g) \/ CheckKey(g)
    PROVE  IInv'
<1>1. task[g] \in Tasks /\ task[g] # None /\ task[g].do \in {"check", "fingerprint", "compare"}
  BY DEF IInv, TypeOK, CheckNickname, GroupFingerprint, CheckKey, Doing
<1>2. /\ task[g].nick \in Nicks /\ task[g].key \in Keys
      /\ Checking("fingerprint", task[g]) \in Tasks /\ Checking("receive", task[g]) \in Tasks
  BY <1>1, TaskFields DEF Tasks, Checking
<1>3. CASE CheckNickname(g)
  <2> DEFINE next == IF task[g].nick \in nicknames THEN None
                     ELSE Checking("fingerprint", task[g])
  <2>1. Goto(g, next) /\ UNCHANGED <<room, tables, buddies, blacklist, raced>>
    BY <1>3 DEF CheckNickname
  <2>2. next \in Tasks \union {None}
    BY <1>2
  <2>3. next # None => next.nick \notin nicknames
    BY DEF Checking
  <2> HIDE DEF next
  <2> QED BY <1>1, <2>1, <2>2, <2>3, QuietStep
<1>4. ASSUME task[g].do \in {"fingerprint", "compare"} PROVE Admitted(task[g].nick) # {}
  BY <1>1, <1>4 DEF Admitted, Past
<1>5. CASE GroupFingerprint(g)
  <2> DEFINE next == [do |-> "compare", nick |-> task[g].nick, key |-> task[g].key,
                      fp |-> buddies[task[g].nick]]
  <2>1. /\ Goto(g, next) /\ UNCHANGED <<room, tables, buddies, blacklist, raced>>
        /\ task[g].do = "fingerprint"
    BY <1>5 DEF GroupFingerprint, Doing
  <2>2. next \in Tasks \union {None}
    BY <1>2 DEF Tasks, IInv, TypeOK
  <2>3. next.nick = task[g].nick
    OBVIOUS
  <2> HIDE DEF next
  <2> QED BY <1>1, <1>4, <2>1, <2>2, <2>3, QuietStep
<1>6. CASE CheckKey(g)
  <2> DEFINE next == IF task[g].fp \in keys THEN None ELSE Checking("receive", task[g])
  <2>1. /\ Goto(g, next) /\ UNCHANGED <<room, tables, buddies, blacklist, raced>>
        /\ task[g] # None /\ task[g].do = "compare"
    BY <1>6 DEF CheckKey, Doing
  <2>2. next \in Tasks \union {None}
    BY <1>2
  <2>3. next # None => next.nick = task[g].nick
    BY DEF Checking
  <2>4. Admitted(task[g].nick) # {}
    BY <1>4, <2>1
  <2> HIDE DEF next
  <2> QED BY <1>1, <2>1, <2>2, <2>3, <2>4, QuietStep
<1> QED BY <1>3, <1>5, <1>6

LEMMA ReceiveStep ==
    ASSUME IInv, NEW g \in Goroutines, ReceiveMessage(g)
    PROVE  IInv'
<1>1. /\ task[g] \in Tasks /\ task[g] # None /\ task[g].do = "receive" /\ Goto(g, None)
      /\ UNCHANGED <<room, tables, blacklist, raced>>
  BY DEF IInv, TypeOK, ReceiveMessage, Doing
<1>2. task[g].nick \in Nicks /\ task[g].key \in Keys
  BY <1>1, TaskFields
<1>3. TypeOK'
  <2>1. buddies' \in [Nicks -> Keys \union {None}]
    BY <1>2 DEF ReceiveMessage, IInv, TypeOK
  <2> QED BY <1>1, <2>1, GotoTask DEF IInv, TypeOK, room, tables
<1>4. NoLateEntry'
  BY <1>1, AdmittedStep DEF IInv, NoLateEntry, tables
<1>5. MutedUnlessRaced'
  <2> SUFFICES ASSUME NEW n \in nicknames, n \in Present', n \notin raced
               PROVE  n \in blacklist \/ Enforcing(n)'
    BY <1>1 DEF MutedUnlessRaced, tables
  <2>1. Admitted(task[g].nick) # {}
    BY <1>1 DEF Admitted, Past
  <2>2. n # task[g].nick
    BY <2>1 DEF IInv, NoLateEntry
  <2>3. n \in Present
    BY <2>2 DEF Present, ReceiveMessage, IInv, TypeOK
  <2> QED BY <1>1, <2>3, EnforcingStep DEF IInv, MutedUnlessRaced
<1> QED BY <1>3, <1>4, <1>5 DEF IInv

LEMMA DestroyStep ==
    ASSUME IInv, NEW g \in Goroutines, DestroyUser(g)
    PROVE  IInv'
<1>1. /\ task[g] \in Tasks /\ task[g] # None /\ task[g].do = "destroy" /\ Goto(g, None)
      /\ UNCHANGED <<room, tables, blacklist, raced>>
  BY DEF IInv, TypeOK, DestroyUser, Doing
<1>2. TypeOK'
  <2>1. buddies' \in [Nicks -> Keys \union {None}]
    BY DEF DestroyUser, IInv, TypeOK
  <2> QED BY <1>1, <2>1, GotoTask DEF IInv, TypeOK, room, tables
<1>3. NoLateEntry'
  BY <1>1, AdmittedStep DEF IInv, NoLateEntry, tables
<1>4. Present' \subseteq Present
  BY DEF Present, DestroyUser, IInv, TypeOK
<1>5. MutedUnlessRaced'
  BY <1>1, <1>4, EnforcingStep DEF IInv, MutedUnlessRaced, tables
<1> QED BY <1>2, <1>3, <1>5 DEF IInv

LEMMA StoreStep ==
    ASSUME IInv, NEW g \in Goroutines, StoreTable(g)
    PROVE  IInv'
<1> DEFINE es == task[g].entries
           list == [do |-> "list", entries |-> es]
           kk   == [do |-> "keys", entries |-> es]
<1>1. /\ task[g] \in Tasks /\ task[g] # None /\ task[g].do = "set"
      /\ UNCHANGED <<room, buddies, blacklist>>
  BY DEF IInv, TypeOK, StoreTable, Doing
<1>2. CASE /\ task[g].table = "nicknames" /\ nicknames' = es /\ keys' = keys
           /\ raced' = raced \union {n \in es : Admitted(n) # {}}
           /\ Goto(g, list)
  <2>1. es \subseteq Nicks /\ list \in Tasks /\ list # None
    BY <1>1, <1>2, TaskFields, NoneAssumption DEF Tasks
  <2>2. TypeOK'
    BY <1>1, <1>2, <2>1, GotoTask DEF IInv, TypeOK, room
  <2>3. NoLateEntry'
    BY <1>2, <2>1, AdmittedStep DEF Past, IInv, NoLateEntry
  <2>4. \A n \in es : Enforcing(n)'
    <3>1. task'[g] = list
      BY <1>2, <2>1, GotoTask DEF IInv
    <3> QED BY <2>1, <3>1 DEF Enforcing
  <2> QED BY <1>2, <2>2, <2>3, <2>4 DEF IInv, MutedUnlessRaced
<1>3. CASE /\ task[g].table = "keys" /\ keys' = es /\ Goto(g, kk)
           /\ UNCHANGED <<nicknames, raced>>
  <2>1. es \subseteq Keys /\ kk \in Tasks
    BY <1>1, <1>3, TaskFields DEF Tasks
  <2>2. TypeOK'
    BY <1>1, <1>3, <2>1, GotoTask DEF IInv, TypeOK, room
  <2>3. NoLateEntry'
    BY <1>3, <2>1, AdmittedStep DEF Past, IInv, NoLateEntry
  <2>4. MutedUnlessRaced'
    BY <1>1, <1>3, <2>1, EnforcingStep DEF IInv, MutedUnlessRaced, Present
  <2> QED BY <2>2, <2>3, <2>4 DEF IInv
<1> QED BY <1>2, <1>3 DEF StoreTable

LEMMA ListStep ==
    ASSUME IInv, NEW g \in Goroutines, ListNames(g)
    PROVE  IInv'
<1> DEFINE next == [do |-> "blacklist", names |-> Present \intersect task[g].entries,
                    entries |-> {}]
<1>1. /\ task[g] \in Tasks /\ task[g] # None /\ task[g].do = "list" /\ Goto(g, next)
      /\ UNCHANGED <<room, tables, buddies, blacklist, raced>>
  BY DEF IInv, TypeOK, ListNames, Doing
<1>2. next \in Tasks /\ next # None
  BY NoneAssumption DEF Tasks, Present
<1>3. TypeOK'
  BY <1>1, <1>2, GotoTask DEF IInv, TypeOK, room, tables
<1>4. NoLateEntry'
  BY <1>1, <1>2, AdmittedStep DEF Past, IInv, NoLateEntry, tables
<1>5. \A n \in Present : Enforcing(n) => Enforcing(n)'
  <2>1. \A h \in Goroutines : task'[h] = IF h = g THEN next ELSE task[h]
    BY <1>1, <1>2, GotoTask DEF IInv
  <2> QED BY <1>1, <1>2, <2>1 DEF Enforcing
<1>6. MutedUnlessRaced'
  BY <1>1, <1>5 DEF IInv, MutedUnlessRaced, tables, Present
<1> QED BY <1>3, <1>4, <1>6 DEF IInv

LEMMA KeysStep ==
    ASSUME IInv, NEW g \in Goroutines, NamesByFingerprint(g) \/ MatchFingerprint(g)
    PROVE  IInv'
<1>1. /\ task[g] \in Tasks /\ task[g].do \in {"keys", "match"}
      /\ UNCHANGED <<room, tables, buddies, blacklist, raced>>
  BY DEF IInv, TypeOK, NamesByFingerprint, MatchFingerprint, Doing
<1>2. PICK next \in Tasks \union {None} :
        Goto(g, next) /\ (next # None => next.do \in {"match", "blacklist"})
  <2>1. CASE NamesByFingerprint(g)
    <3>1. task[g].entries \subseteq Keys
      BY <2>1, <1>1, TaskFields DEF NamesByFingerprint, Doing
    <3> DEFINE match(v) == [do |-> "match", key |-> v, todo |-> Present, names |-> {},
                            entries |-> task[g].entries \ {v}]
    <3>2. Goto(g, None) \/ \E v \in task[g].entries : Goto(g, match(v))
      BY <2>1 DEF NamesByFingerprint
    <3>3. \A v \in task[g].entries : match(v) \in Tasks /\ match(v).do = "match"
      BY <3>1 DEF Tasks, Present
    <3> HIDE DEF match
    <3> QED BY <3>2, <3>3
  <2>2. CASE MatchFingerprint(g)
    <3>1. /\ task[g].key \in Keys /\ task[g].todo \subseteq Nicks
          /\ task[g].names \subseteq Nicks /\ task[g].entries \subseteq Keys
      BY <2>2, <1>1, TaskFields DEF MatchFingerprint, Doing
    <3> DEFINE found    == [do |-> "blacklist", names |-> task[g].names,
                            entries |-> task[g].entries]
               match(n) == [do |-> "match", key |-> task[g].key, todo |-> task[g].todo \ {n},
                            names |-> task[g].names \union
                                      (IF buddies[n] = task[g].key THEN {n} ELSE {}),
                            entries |-> task[g].entries]
    <3>2. Goto(g, found) \/ \E n \in task[g].todo : Goto(g, match(n))
      BY <2>2 DEF MatchFingerprint
    <3>3. found \in Tasks /\ found.do = "blacklist"
      BY <3>1 DEF Tasks
    <3>4. \A n \in task[g].todo : match(n) \in Tasks /\ match(n).do = "match"
      BY <3>1 DEF Tasks
    <3> HIDE DEF found, match
    <3> QED BY <3>2, <3>3, <3>4
  <2> QED BY <2>1, <2>2
<1> QED BY <1>1, <1>2, QuietStep DEF Past

LEMMA BlacklistStep ==
    ASSUME IInv, NEW g \in Goroutines, BlacklistUser(g)
    PROVE  IInv'
<1>1. /\ task[g] \in Tasks /\ task[g] # None /\ task[g].do = "blacklist"
      /\ UNCHANGED <<room, tables, buddies, raced>>
  BY DEF IInv, TypeOK, BlacklistUser, Doing
<1>2. task[g].names \subseteq Nicks /\ task[g].entries \subseteq Keys
  BY <1>1, TaskFields
<1> DEFINE keysOf  == [do |-> "keys", entries |-> task[g].entries]
           rest(n) == [do |-> "blacklist", names |-> task[g].names \ {n},
                       entries |-> task[g].entries]
<1>3. PICK next \in Tasks :
        /\ Goto(g, next) /\ next # None /\ next.do \in {"keys", "blacklist"}
        /\ blacklist \subseteq blacklist' /\ blacklist' \subseteq Nicks
        /\ \A n \in task[g].names :
             n \in blacklist' \/ (next.do = "blacklist" /\ n \in next.names)
  <2>1. \/ task[g].names = {} /\ blacklist' = blacklist /\ Goto(g, keysOf)
        \/ \E n \in task[g].names : blacklist' = blacklist \union {n} /\ Goto(g, rest(n))
    BY DEF BlacklistUser
  <2>2. keysOf \in Tasks /\ keysOf # None /\ keysOf.do = "keys"
    BY <1>2, NoneAssumption DEF Tasks
  <2>3. \A n \in task[g].names :
          /\ rest(n) \in Tasks /\ rest(n) # None /\ rest(n).do = "blacklist"
          /\ rest(n).names = task[g].names \ {n}
    BY <1>2, NoneAssumption DEF Tasks
  <2>4. blacklist \subseteq Nicks
    BY DEF IInv, TypeOK
  <2> HIDE DEF keysOf, rest
  <2> QED BY <1>2, <2>1, <2>2, <2>3, <2>4
<1>4. TypeOK'
  BY <1>1, <1>3, GotoTask DEF IInv, TypeOK, room, tables
<1>5. NoLateEntry'
  BY <1>1, <1>3, AdmittedStep DEF Past, IInv, NoLateEntry, tables
<1>6. MutedUnlessRaced'
  <2> SUFFICES ASSUME NEW n \in nicknames, n \in Present, n \notin raced
               PROVE  n \in blacklist' \/ Enforcing(n)'
    BY <1>1 DEF MutedUnlessRaced, tables, Present
  <2>1. n \in blacklist \/ Enforcing(n)
    BY DEF IInv, MutedUnlessRaced
  <2>2. \A h \in Goroutines : task'[h] = IF h = g THEN next ELSE task[h]
    BY <1>3, GotoTask DEF IInv
  <2> QED BY <1>1, <1>3, <2>1, <2>2 DEF Enforcing
<1> QED BY <1>4, <1>5, <1>6 DEF IInv

-----------------------------------------------------------------------------
LEMMA InitIInv == Init => IInv
BY ModerationAssumption DEF Init, IInv, TypeOK, NoLateEntry, MutedUnlessRaced, Present

LEMMA NextIInv == IInv /\ [Next]_vars => IInv'
<1> SUFFICES ASSUME IInv, [Next]_vars PROVE IInv'
  OBVIOUS
<1>1. ASSUME NEW n \in Nicks, (\E k \in Keys : Enter(n, k)) \/ AnnounceKey(n) \/ Leave(n)
      PROVE  IInv'
  BY <1>1, PeopleStep
<1>2. CASE SendTable
  BY <1>2, SendTableStep
<1>3. ASSUME NEW g \in Goroutines, Run(g) PROVE IInv'
  BY <1>3, CheckStep, ReceiveStep, DestroyStep, StoreStep, ListStep, KeysStep,
     BlacklistStep DEF Run
<1>4. CASE UNCHANGED vars
  BY <1>4 DEF vars, room, tables, IInv, TypeOK, NoLateEntry, MutedUnlessRaced, Admitted,
              Enforcing, Present
<1> QED BY <1>1, <1>2, <1>3, <1>4 DEF Next

(* The invariant of moderation, for any people and goroutines.              *)
THEOREM Invariance == Spec => []IInv
BY InitIInv, NextIInv, PTL DEF Spec

(* The types of the room's tables.                                          *)
THEOREM TypeCorrect == Spec => []TypeOK
BY Invariance, PTL DEF IInv

(* Whoever the table of nicknames matches is blacklisted or about to be,    *)
(* unless a key announcement of theirs was past IsBlocked when the table    *)
(* was stored (dog_bex.go:338-353).                                         *)
THEOREM TableMutes == Spec => []MutedUnlessRaced
BY Invariance, PTL DEF IInv
=============================================================================
