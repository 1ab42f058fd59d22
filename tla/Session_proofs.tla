-------------------------- MODULE Session_proofs ----------------------------
(***************************************************************************)
(* Proofs about Connection and Session, for any set of rooms and any       *)
(* number of losses, crashes and calls.                                    *)
(*                                                                         *)
(* RoomsKept is not inductive: it says nothing while connectAllRooms       *)
(* rebuilds the table, nor before the first rejoin.  The invariant adds    *)
(* what holds there (Rebuilding, Stored), and that the rooms of the table  *)
(* are entered already while rejoining (Entered).                          *)
(*                                                                         *)
(* Every step of Session is a step of Connection or leaves Connection's    *)
(* variables alone, so what is proved of Connection holds of a connection  *)
(* with the session under it.  That a handler finds its room rests on the  *)
(* same invariant: a room that was entered is owed.  That an open session  *)
(* knows its own address counts the stanzas of a handshake: as many are    *)
(* under way as it still owes (InStep, HInv).                              *)
(***************************************************************************)
EXTENDS Session, SequenceTheorems, TLAPS

-----------------------------------------------------------------------------
(* Connection *)

\* Joined rooms and rooms still to join make up what is owed; the stored list
\* is the old one until the first room is joined, then the partial table.
Rebuilding ==
    up /\ pc = "rejoin" =>
        /\ owed = rooms \union rejoin
        /\ saved = rooms \/ (rooms = {} /\ saved = owed)

Stored ==
    up /\ pc # "rejoin" =>
        /\ saved = owed
        /\ booted => rooms = owed
        /\ ~ booted => pc # "reading"

Entered ==
    up /\ alive /\ pc \in {"rejoin", "reading"} => rooms \subseteq entered

IInv == TypeOK /\ Rebuilding /\ Stored /\ Entered

LEMMA InitIInv == Init => IInv
<1> SUFFICES ASSUME Init PROVE IInv
  OBVIOUS
<1>1. up /\ ~ hasConn /\ ~ alive /\ ~ killed /\ ~ returned /\ ~ booted
  BY Zenon DEF Init
<1>2. /\ saved \subseteq Rooms /\ owed = saved
      /\ rooms = {} /\ rejoin = {} /\ entered = {} /\ pc = "dial"
      /\ senders = 0 /\ closing = 0 /\ losses = 0 /\ crashes = 0
  BY DEF Init
<1>3. {up, hasConn, alive, killed, returned, booted} \subseteq BOOLEAN
  BY Zenon DEF Init
<1> QED BY <1>1, <1>2, <1>3, BoundAssumption DEF IInv, TypeOK, Rebuilding, Stored, Entered

LEMMA LoopStep ==
    ASSUME IInv, DialSucceeds \/ DialDead \/ DialFails \/ Loop \/ ReadRefused
    PROVE  IInv'
<1> USE DEF IInv, TypeOK, Rebuilding, Stored, Entered, process, calls, bounds
<1>1. CASE DialSucceeds
  BY <1>1 DEF DialSucceeds
<1>2. CASE DialFails
  BY <1>2 DEF DialFails
<1>10. CASE DialDead
  BY <1>10 DEF DialDead
<1>3. CASE BeginRejoin
  BY <1>3 DEF BeginRejoin
<1>4. CASE RejoinOne
  BY <1>4 DEF RejoinOne, joinMuc
<1>5. CASE EndRejoin
  BY <1>5 DEF EndRejoin
<1>6. CASE ReadFails
  BY <1>6 DEF ReadFails
<1>7. CASE ReadRefused
  BY <1>7, BoundAssumption DEF ReadRefused
<1>8. CASE HandleError
  BY <1>8 DEF HandleError
<1>9. CASE Wake
  BY <1>9 DEF Wake
<1> QED BY <1>1, <1>2, <1>3, <1>4, <1>5, <1>6, <1>7, <1>8, <1>9, <1>10 DEF Loop

LEMMA ProgramStep ==
    ASSUME IInv,
           \/ \E r \in Rooms : JoinRoom(r) \/ JoinRoomPanics(r)
           \/ Disconnect \/ CloseConn \/ RunReturns
    PROVE  IInv'
<1> USE DEF IInv, TypeOK, Rebuilding, Stored, Entered, process, calls, bounds
<1>1. ASSUME NEW r \in Rooms, JoinRoom(r) PROVE IInv'
  BY <1>1 DEF JoinRoom, joinMuc
<1>2. ASSUME NEW r \in Rooms, JoinRoomPanics(r) PROVE IInv'
  <2>1. ~ up' /\ up' \in BOOLEAN
    BY <1>2, Zenon DEF JoinRoomPanics
  <2> QED BY <1>2, <2>1, BoundAssumption DEF JoinRoomPanics
<1>3. CASE Disconnect
  BY <1>3 DEF Disconnect
<1>4. CASE CloseConn
  <2>1. ~ alive' /\ alive' \in BOOLEAN
    BY <1>4, Zenon DEF CloseConn
  <2> QED BY <1>4, <2>1 DEF CloseConn
<1>5. CASE RunReturns
  BY <1>5 DEF RunReturns
<1> QED BY <1>1, <1>2, <1>3, <1>4, <1>5

LEMMA EnvironmentStep ==
    ASSUME IInv, LoseConnection \/ Crash \/ Restart
    PROVE  IInv'
<1> USE DEF IInv, TypeOK, Rebuilding, Stored, Entered, process, calls, bounds
<1>1. CASE LoseConnection
  <2>1. ~ alive' /\ alive' \in BOOLEAN
    BY <1>1, Zenon DEF LoseConnection
  <2> QED BY <1>1, <2>1, BoundAssumption DEF LoseConnection
<1>2. CASE Crash
  <2>1. ~ up' /\ up' \in BOOLEAN
    BY <1>2, Zenon DEF Crash
  <2> QED BY <1>2, <2>1, BoundAssumption DEF Crash
<1>3. CASE Restart
  BY <1>3 DEF Restart, Start
<1> QED BY <1>1, <1>2, <1>3

LEMMA NextIInv == IInv /\ [Next]_vars => IInv'
<1> SUFFICES ASSUME IInv, [Next]_vars PROVE IInv'
  OBVIOUS
<1>1. CASE UNCHANGED vars
  BY <1>1 DEF vars, IInv, TypeOK, Rebuilding, Stored, Entered
<1> QED BY <1>1, LoopStep, ProgramStep, EnvironmentStep DEF Next

\* Only joinMuc and its panicking call write the list, and both store the
\* table they add to, which holds everything stored after the first rejoin.
LEMMA NextSaved ==
    IInv /\ [Next]_vars => saved \subseteq saved' \/ pc = "rejoin" \/ ~ booted
<1> SUFFICES ASSUME IInv, [Next]_vars, pc # "rejoin", booted
             PROVE  saved \subseteq saved'
  OBVIOUS
<1>1. ASSUME NEW r \in Rooms, JoinRoom(r) PROVE saved \subseteq saved'
  BY <1>1 DEF JoinRoom, joinMuc, IInv, Stored
<1>2. ASSUME NEW r \in Rooms, JoinRoomPanics(r) PROVE saved \subseteq saved'
  BY <1>2 DEF JoinRoomPanics, IInv, Stored
<1>3. CASE Restart
  BY <1>3 DEF Restart
<1>4. CASE BeginRejoin \/ RejoinOne \/ EndRejoin
  BY <1>4 DEF BeginRejoin, RejoinOne, EndRejoin
<1>5. CASE UNCHANGED process
  BY <1>5 DEF process
<1>6. CASE UNCHANGED vars
  BY <1>6 DEF vars
<1> QED BY <1>1, <1>2, <1>3, <1>4, <1>5, <1>6
    DEF Next, Loop, DialSucceeds, DialDead, DialFails, ReadFails, ReadRefused, HandleError, Wake,
        Disconnect, CloseConn, RunReturns, LoseConnection, Crash

-----------------------------------------------------------------------------
(* The invariant of a connection, for any rooms and bounds.                 *)
THEOREM Invariance == Spec => []IInv
BY InitIInv, NextIInv, PTL DEF Spec

(* The types of the connection's state.                                     *)
THEOREM TypeCorrect == Spec => []TypeOK
BY Invariance, PTL DEF IInv

(* Outside connectAllRooms, a process that has been through it once is in   *)
(* the rooms it owes and has them stored (dog_conn.go:436-450, 496-501).    *)
THEOREM NoRoomForgotten == Spec => []RoomsKept
<1>1. IInv => RoomsKept
  BY DEF IInv, Stored, RoomsKept
<1> QED BY <1>1, Invariance, PTL

(* A client reading from an open connection has entered every room of its   *)
(* table on it (dog_conn.go:129 and 445-447).                               *)
THEOREM RejoinedEverywhere == Spec => []PresentEverywhere
<1>1. IInv => PresentEverywhere
  BY DEF IInv, Entered, PresentEverywhere
<1> QED BY <1>1, Invariance, PTL

(* The stored list shrinks only in the two windows (dog_conn.go:497-501).   *)
THEOREM SavedOnlyRebuilt == Spec => SavedShrinksOnlyWhen
<1>1. IInv /\ [Next]_vars =>
        [saved \subseteq saved' \/ pc = "rejoin" \/ ~ booted]_vars
  BY NextSaved
<1> QED BY <1>1, Invariance, PTL DEF Spec, SavedShrinksOnlyWhen

-----------------------------------------------------------------------------
(* Addresses *)

\* The first c of a \o <<c>> \o b ends a, if a has none.
LEMMA SplitAtFirst ==
    ASSUME NEW S, NEW a \in Seq(S), NEW c \in S, NEW b \in Seq(S), ~ Has(a, c)
    PROVE  /\ Before(a \o (<<c>> \o b), c) = a
           /\ After(a \o (<<c>> \o b), c) = b
<1> DEFINE t == <<c>> \o b
           s == a \o t
           n == Len(a)
<1>1. /\ n \in Nat /\ Len(b) \in Nat /\ <<c>> \in Seq(S) /\ Len(<<c>>) = 1
      /\ <<c>>[1] = c
  <2>1. n \in Nat /\ Len(b) \in Nat
    BY LenProperties
  <2>2. <<c>> \in Seq(S) /\ Len(<<c>>) = 1 /\ <<c>>[1] = c
    OBVIOUS
  <2> QED BY <2>1, <2>2
<1>2. /\ t \in Seq(S) /\ Len(t) = 1 + Len(b)
      /\ \A i \in 1..(1 + Len(b)) : t[i] = IF i <= 1 THEN <<c>>[i] ELSE b[i - 1]
  BY <1>1, ConcatProperties
<1>3. /\ s \in Seq(S) /\ Len(s) = n + Len(t)
      /\ \A i \in 1..(n + Len(t)) : s[i] = IF i <= n THEN a[i] ELSE t[i - n]
  BY <1>2, ConcatProperties, Zenon
<1> HIDE DEF t, s
<1>4. t[1] = c /\ \A i \in 1..Len(b) : t[i + 1] = b[i]
  BY <1>1, <1>2
<1>5. Len(s) = n + 1 + Len(b) /\ s[n + 1] = c /\ n + 1 \in 1..Len(s)
  BY <1>1, <1>2, <1>3, <1>4
<1>6. \A i \in 1..n : s[i] = a[i] /\ s[i] # c
  BY <1>1, <1>2, <1>3 DEF Has
<1>7. \A i \in 1..Len(b) : s[n + 1 + i] = b[i]
  BY <1>1, <1>2, <1>3, <1>4
<1>8. Has(s, c)
  BY <1>5 DEF Has
<1>9. First(s, c) = n + 1
  <2>1. ASSUME NEW i \in 1..Len(s), s[i] = c, \A j \in 1..(i - 1) : s[j] # c
        PROVE  i = n + 1
    BY <1>1, <1>5, <1>6, <2>1
  <2>2. \A j \in 1..(n + 1 - 1) : s[j] # c
    BY <1>1, <1>6
  <2> QED BY <1>5, <2>1, <2>2 DEF First
<1>10. SubSeq(s, 1, n) = a
  <2>1. \A i \in 1..n : s[i] \in S
    BY <1>1, <1>3, <1>5, ElementOfSeq
  <2>2. /\ SubSeq(s, 1, n) \in Seq(S)
        /\ Len(SubSeq(s, 1, n)) = IF 1 <= n THEN n - 1 + 1 ELSE 0
        /\ \A i \in 1..(n - 1 + 1) : SubSeq(s, 1, n)[i] = s[1 + i - 1]
    BY <1>1, <2>1, SubSeqProperties
  <2>3. Len(SubSeq(s, 1, n)) = n
    BY <1>1, <2>2
  <2>4. \A i \in 1..n : SubSeq(s, 1, n)[i] = a[i]
    BY <1>1, <1>6, <2>2
  <2> QED BY <2>2, <2>3, <2>4, SeqEqual
<1>11. SubSeq(s, n + 2, Len(s)) = b
  <2> DEFINE m == n + 2
             l == Len(s)
  <2>1. m \in Int /\ l \in Int /\ l - m + 1 = Len(b)
    BY <1>1, <1>5
  <2>2. \A i \in m..l : s[i] \in S
    BY <1>1, <1>3, <1>5, ElementOfSeq
  <2>3. /\ SubSeq(s, m, l) \in Seq(S)
        /\ Len(SubSeq(s, m, l)) = IF m <= l THEN l - m + 1 ELSE 0
        /\ \A i \in 1..(l - m + 1) : SubSeq(s, m, l)[i] = s[m + i - 1]
    <3> HIDE DEF m, l
    <3> QED BY <2>1, <2>2, SubSeqProperties
  <2>4. Len(SubSeq(s, m, l)) = Len(b)
    <3> HIDE DEF m, l
    <3> QED BY <1>1, <2>1, <2>3
  <2>5. \A i \in 1..Len(b) : SubSeq(s, m, l)[i] = b[i]
    <3>1. \A i \in 1..Len(b) : m + i - 1 = n + 1 + i
      BY <1>1
    <3> HIDE DEF m, l
    <3> QED BY <1>7, <2>1, <2>3, <3>1
  <2> HIDE DEF m, l
  <2>6. SubSeq(s, m, l) = b
    BY <2>3, <2>4, <2>5, SeqEqual
  <2> QED BY <2>6 DEF m, l
<1>12. First(s, c) - 1 = n /\ First(s, c) + 1 = n + 2
  BY <1>1, <1>9
<1>13. Before(s, c) = a /\ After(s, c) = b
  BY <1>8, <1>10, <1>11, <1>12 DEF Before, After
<1> QED BY <1>13 DEF s, t

\* ParseJID undoes JID.String, whatever the nickname is made of.
LEMMA TextComesBack ==
    ASSUME NEW S, "@" \in S, "/" \in S,
           NEW local \in Seq(S), NEW host \in Seq(S), NEW node \in Seq(S),
           ~ Has(local, "@"), ~ Has(host, "/")
    PROVE  ParseJID(Text([Local |-> local, Host |-> host, Node |-> node])) =
               [Local |-> local, Host |-> host, Node |-> node]
<1> DEFINE tail == IF node = <<>> THEN <<>> ELSE <<"/">> \o node
           j == [Local |-> local, Host |-> host, Node |-> node]
<1>1. tail \in Seq(S) /\ <<"@">> \in Seq(S) /\ <<"/">> \in Seq(S)
  BY ConcatProperties
<1>2. Text(j) = local \o (<<"@">> \o (host \o tail))
  BY DEF Text
<1>3. host \o tail \in Seq(S)
  BY <1>1, ConcatProperties
<1>4. Before(Text(j), "@") = local /\ After(Text(j), "@") = host \o tail
  <2> DEFINE rest == host \o tail
  <2> HIDE DEF tail, j, rest
  <2>1. rest \in Seq(S) /\ Text(j) = local \o (<<"@">> \o rest)
    BY <1>2, <1>3 DEF rest
  <2>2. Before(local \o (<<"@">> \o rest), "@") = local /\ After(local \o (<<"@">> \o rest), "@") = rest
    BY <2>1, SplitAtFirst
  <2> QED BY <2>1, <2>2 DEF rest
<1>5. Before(host \o tail, "/") = host /\ After(host \o tail, "/") = node
  <2>1. CASE node = <<>>
    <3>1. host \o tail = host
      BY <2>1, ConcatEmptySeq
    <3> QED BY <2>1, <3>1 DEF Before, After
  <2>2. CASE node # <<>>
    BY <2>2, SplitAtFirst
  <2> QED BY <2>1, <2>2
<1> HIDE DEF tail
<1>6. ParseJID(Text(j)) = [Local |-> local, Host |-> host, Node |-> node]
  BY <1>4, <1>5 DEF ParseJID
<1> QED BY <1>6
-----------------------------------------------------------------------------
(* Every step of the session is one of the connection *)

LEMMA StepsImplement == SessionNext => [Next]_vars
<1> SUFFICES ASSUME SessionNext PROVE Next \/ UNCHANGED vars
  OBVIOUS
<1>1. CASE OpenSocket \/ ServerAnswers \/ ServerSends \/ CutHandshake
  <2>1. CASE OpenSocket \/ CutHandshake
    BY <2>1 DEF OpenSocket, CutHandshake
  <2>2. CASE ServerAnswers
    BY <2>2 DEF ServerAnswers
  <2>3. UNCHANGED <<vars, handshake, pongs, handlers, cuts>> => UNCHANGED vars
    OBVIOUS
  <2>4. CASE ServerSends
    BY <2>3, <2>4, Zenon DEF ServerSends
  <2> QED BY <1>1, <2>1, <2>2, <2>4
<1>2. CASE Dialling
  BY <1>2 DEF Dialling, SendRequest, ReceiveAnswer, DialReturns, Next
<1>3. CASE Reading
  BY <1>3 DEF Reading, ReadPing, ReadOther, ReadRoom, ReadBad, Next, Loop
<1>4. CASE SessionLoop /\ ~ Dialling /\ ~ Reading
  BY <1>4 DEF SessionLoop, Next, Loop
<1>5. CASE \E h \in handlers : HandleStanza(h)
  BY <1>5 DEF HandleStanza
<1>6. CASE Calling \/ Close
  BY <1>6 DEF Calling, Close, Next
<1>7. CASE CutConnection \/ Die \/ StartAgain
  BY <1>7 DEF CutConnection, Die, StartAgain, Next
<1>8. CASE DialFails /\ next = 0 /\ UNCHANGED session
  BY <1>8 DEF Next
<1> QED BY <1>1, <1>2, <1>3, <1>4, <1>5, <1>6, <1>7, <1>8 DEF SessionNext

LEMMA SessionSteps == [SessionNext]_svars => [Next]_vars
BY StepsImplement DEF svars

(* With the session under it, a connection takes no step that Connection    *)
(* does not allow (xmpp.go:129-290 under dog_conn.go:109-234).              *)
THEOREM Refinement == SessionSpec => Spec
<1>1. SessionInit => Init
  BY DEF SessionInit
<1> QED BY <1>1, SessionSteps, PTL DEF SessionSpec, Spec

\* So it has the invariant of Connection.
LEMMA ConnectionInvariant == SessionSpec => []IInv
BY Refinement, Invariance, PTL

-----------------------------------------------------------------------------
(* The rooms a stanza may come from *)

\* The rooms that no rejoin will forget.
Kept == IF booted \/ pc = "rejoin" THEN owed ELSE rooms

Plain ==
    [kind : {"header", "features", "success", "bound", "unbound", "started", "bad", "other"}]
    \union [kind : {"ping"}, id : Nat]

From(R) == Plain \union {Occupant(r, nick) : r \in R, nick \in Nicks}

Waiting == /\ handlers \subseteq Occupants
           /\ up => \A h \in handlers : h.room \in Kept /\ booted

Scalars ==
    /\ next \in 0..(Len(Handshake) + 1)
    /\ open \in BOOLEAN /\ bound \in BOOLEAN /\ refused \in BOOLEAN
    /\ asked \in Requests \union {None}
    /\ pings \in Nat /\ pongs \in Seq(Nat)
    /\ cuts \in 0..MaxCuts /\ stanzas \in 0..MaxStanzas

SInv == /\ Scalars
        /\ up => rooms \subseteq owed
        /\ up => entered \subseteq Kept
        /\ up => inbox \in Seq(From(Kept))
        /\ inbox \in Seq(From(Rooms))
        /\ Waiting

LEMMA BootedStays == ASSUME up, [Next]_vars, booted PROVE booted'
<1>1. CASE UNCHANGED booted
  BY <1>1
<1>2. ASSUME NEW r \in Rooms, JoinRoom(r) \/ JoinRoomPanics(r) PROVE UNCHANGED booted
  BY <1>2 DEF JoinRoom, JoinRoomPanics
<1>3. CASE EndRejoin
  BY <1>3, Zenon DEF EndRejoin
<1> QED BY <1>1, <1>2, <1>3
    DEF Next, Loop, DialSucceeds, DialDead, DialFails, BeginRejoin, RejoinOne, ReadFails,
        ReadRefused, HandleError, Wake, Disconnect, CloseConn, RunReturns, LoseConnection,
        Crash, Restart, process, vars

LEMMA KeptGrows ==
    ASSUME IInv, up, rooms \subseteq owed, [Next]_vars
    PROVE  /\ Kept \subseteq Kept' /\ rooms' \subseteq owed'
           /\ entered \subseteq Kept => entered' \subseteq Kept'
<1> DEFINE Grown == /\ Kept \subseteq Kept' /\ rooms' \subseteq owed'
                    /\ entered \subseteq Kept => entered' \subseteq Kept'
<1>1. booted => booted'
  BY BootedStays
<1> USE DEF IInv, Rebuilding, Stored, Entered, process, Kept
<1>2. CASE UNCHANGED process /\ UNCHANGED pc /\ (UNCHANGED entered \/ entered' = {})
  BY <1>1, <1>2
<1>3. CASE UNCHANGED process /\ pc # "rejoin" /\ pc' # "rejoin" /\ (UNCHANGED entered \/ entered' = {})
  BY <1>1, <1>3
<1>4. CASE BeginRejoin
  BY <1>4 DEF BeginRejoin
<1>5. CASE RejoinOne
  BY <1>5 DEF RejoinOne, joinMuc
<1>6. CASE EndRejoin
  BY <1>6 DEF EndRejoin
<1>7. ASSUME NEW r \in Rooms, JoinRoom(r) PROVE Grown
  BY <1>1, <1>7 DEF JoinRoom, joinMuc
<1>8. ASSUME NEW r \in Rooms, JoinRoomPanics(r) PROVE Grown
  BY <1>1, <1>8 DEF JoinRoomPanics
<1>9. CASE DialSucceeds \/ DialDead \/ DialFails \/ ReadFails \/ ReadRefused
           \/ HandleError \/ Wake
  BY <1>3, <1>9 DEF DialSucceeds, DialDead, DialFails, ReadFails, ReadRefused, HandleError, Wake
<1>10. CASE Disconnect \/ CloseConn \/ RunReturns \/ LoseConnection \/ Crash
  BY <1>2, <1>10 DEF Disconnect, CloseConn, RunReturns, LoseConnection, Crash
<1>11. CASE UNCHANGED vars
  BY <1>2, <1>11 DEF vars
<1> QED BY <1>4, <1>5, <1>6, <1>7, <1>8, <1>9, <1>10, <1>11 DEF Next, Loop, Restart

LEMMA RoomsMatter ==
    ASSUME NEW R, NEW Q, R \subseteq Q, NEW s \in Seq(From(R))
    PROVE  s \in Seq(From(Q))
<1>1. From(R) \subseteq From(Q)
  BY DEF From
<1> QED BY <1>1, SeqMonotonic

\* What an action does to the inbox when it sends nothing from a room.
LEMMA Shortened ==
    ASSUME NEW T, NEW s \in Seq(T)
    PROVE  /\ s # <<>> => Tail(s) \in Seq(T)
           /\ \A t \in Prefixes(s) : t \in Seq(T)
<1>1. s # <<>> => Tail(s) \in Seq(T)
  BY HeadTailProperties
<1>2. ASSUME NEW n \in 0..Len(s) PROVE SubSeq(s, 1, n) \in Seq(T)
  <2>1. Len(s) \in Nat /\ \A i \in 1..n : s[i] \in T
    BY ElementOfSeq, LenProperties
  <2> QED BY <2>1, SubSeqProperties
<1> QED BY <1>1, <1>2 DEF Prefixes

\* Nothing gets into the inbox but from rooms that were entered.
LEMMA InboxStep ==
    ASSUME NEW R, SessionNext, up, entered \subseteq R, asked \in Requests \union {None},
           pings \in Nat, inbox \in Seq(From(R))
    PROVE  inbox' \in Seq(From(R))
<1> DEFINE K == From(R)
<1>0. inbox \in Seq(K) /\ <<>> \in Seq(K)
  BY EmptySeq
<1>1. CASE inbox' \in {inbox, <<>>}
  BY <1>0, <1>1
<1>2. CASE inbox # <<>> /\ inbox' = Tail(inbox)
  <2> HIDE DEF K
  <2> QED BY <1>0, <1>2, Shortened
<1>3. CASE inbox' \in Prefixes(inbox)
  <2> HIDE DEF K
  <2> QED BY <1>0, <1>3, Shortened
<1>4. CASE ServerAnswers
  <2>1. PICK answer \in Answers(asked) :
            inbox' = inbox \o [i \in 1..Len(answer) |-> [kind |-> answer[i]]]
    BY <1>4 DEF ServerAnswers
  <2> DEFINE new == [i \in 1..Len(answer) |-> [kind |-> answer[i]]]
  <2>2. new \in Seq(K)
    <3>0. asked \in Requests
      BY <1>4 DEF ServerAnswers
    <3>1. answer \in {<<"header", "features">>, <<"success">>, <<"bound">>, <<"unbound">>, <<"started">>}
      BY <3>0 DEF Answers, Requests
    <3>2. Len(answer) \in Nat /\ \A i \in 1..Len(answer) : [kind |-> answer[i]] \in K
      BY <3>1 DEF From, Plain
    <3> HIDE DEF K
    <3> QED BY <3>2
  <2>3. inbox \o new \in Seq(K)
    <3> HIDE DEF K, new
    <3> QED BY <1>0, <2>2, ConcatProperties
  <2> QED BY <2>1, <2>3
<1>5. CASE ServerSends
  <2>1. PICK st \in Sendable : inbox' = Append(inbox, st)
    BY <1>5, Zenon DEF ServerSends
  <2>2. pings + 1 \in Nat
    OBVIOUS
  <2>3. CASE st \in {Ping(pings + 1), Other, Bad}
    <3>1. st \in Plain
      BY <2>2, <2>3 DEF Plain, Ping, Other, Bad
    <3>2. st \in K
      BY <3>1 DEF From
    <3>3. Append(inbox, st) \in Seq(K)
      <4> HIDE DEF K
      <4> QED BY <1>0, <3>2
    <3> QED BY <2>1, <3>3
  <2>4. CASE st \in {Occupant(r, nick) : r \in entered, nick \in Nicks}
    <3>1. st \in K
      BY <2>4 DEF From
    <3>2. Append(inbox, st) \in Seq(K)
      <4> HIDE DEF K
      <4> QED BY <1>0, <3>1
    <3> QED BY <2>1, <3>2
  <2> QED BY <2>1, <2>3, <2>4 DEF Sendable
<1>6. CASE OpenSocket \/ SendRequest \/ DialReturns
  BY <1>1, <1>6 DEF OpenSocket, NewSocket, SendRequest, DialReturns, stream
<1>7. CASE ReceiveAnswer
  BY <1>1, <1>2, <1>7 DEF ReceiveAnswer
<1>8. CASE Reading
  BY <1>2, <1>8 DEF Reading, ReadPing, ReadOther, ReadRoom, ReadBad
<1>9. CASE UNCHANGED session
  BY <1>1, <1>9 DEF session, stream
<1>10. CASE HandleError /\ NewSocket(FALSE)
  BY <1>1, <1>10 DEF NewSocket
<1>11. CASE Close \/ Die
  BY <1>1, <1>11 DEF Close, Die, NewSocket
<1>12. CASE CutHandshake \/ CutConnection
  BY <1>3, <1>12 DEF CutHandshake, CutConnection
<1>13. ASSUME NEW h \in handlers, HandleStanza(h) PROVE UNCHANGED inbox
  BY <1>13 DEF HandleStanza, stream
<1>14. ~ StartAgain
  BY DEF StartAgain, Restart
<1> QED
  BY <1>1, <1>4, <1>5, <1>6, <1>7, <1>8, <1>9, <1>10, <1>11, <1>12, <1>13, <1>14
  DEF SessionNext, SessionLoop, Dialling, Calling

LEMMA NewSocketScalars ==
    ASSUME Scalars, NEW b \in BOOLEAN, NewSocket(b), UNCHANGED cuts
    PROVE  Scalars'
<1>1. open' \in BOOLEAN /\ bound' \in BOOLEAN /\ refused' \in BOOLEAN
  BY Zenon DEF NewSocket
<1>2. 0 \in 0..(Len(Handshake) + 1) /\ 1 \in 0..(Len(Handshake) + 1)
  BY DEF Handshake
<1>3. 0 \in 0..MaxStanzas /\ <<>> \in Seq(Nat)
  BY SessionAssumption
<1>4. /\ next' \in {0, 1} /\ asked' = None /\ pings' = 0 /\ pongs' = <<>> /\ stanzas' = 0
  BY DEF NewSocket
<1> QED BY <1>1, <1>2, <1>3, <1>4 DEF Scalars

LEMMA ScalarsStep ==
    ASSUME Scalars, SessionNext, inbox \in Seq(From(Rooms))
    PROVE  Scalars'
<1>1. CASE OpenSocket \/ Die \/ StartAgain \/ (HandleError /\ NewSocket(FALSE) /\ UNCHANGED <<handlers, cuts>>)
  <2>1. UNCHANGED cuts /\ \E b \in BOOLEAN : NewSocket(b)
    BY <1>1 DEF OpenSocket, Die, StartAgain
  <2> QED BY <2>1, NewSocketScalars
<1>2. CASE SendRequest
  <2>1. next \in 1..Len(Handshake) /\ Handshake[next] \in Requests /\ next' = next + 1
    BY <1>2 DEF SendRequest, At
  <2>2. next' \in 0..(Len(Handshake) + 1)
    BY <2>1 DEF Handshake
  <2>3. asked' \in Requests \union {None}
    BY <1>2, <2>1 DEF SendRequest
  <2>4. UNCHANGED <<open, bound, refused, pings, pongs, cuts, stanzas>>
    BY <1>2 DEF SendRequest, stream, limits
  <2> QED BY <2>2, <2>3, <2>4 DEF Scalars
<1>3. CASE ReceiveAnswer
  <2>1. next' \in 0..(Len(Handshake) + 1)
    BY <1>3 DEF ReceiveAnswer, At, Handshake
  <2>2. bound' \in BOOLEAN
    <3>1. CASE At({"recvJID"})
      BY <1>3, <3>1, Zenon DEF ReceiveAnswer
    <3>2. CASE ~ At({"recvJID"})
      BY <1>3, <3>2 DEF ReceiveAnswer, Scalars
    <3> QED BY <3>1, <3>2
  <2>3. UNCHANGED <<open, asked, refused, pings, pongs, cuts, stanzas>>
    BY <1>3 DEF ReceiveAnswer, limits
  <2> QED BY <2>1, <2>2, <2>3 DEF Scalars
<1>4. CASE DialReturns
  <2>1. open' \in BOOLEAN
    BY <1>4, Zenon DEF DialReturns
  <2>2. next' \in 0..(Len(Handshake) + 1)
    BY <1>4 DEF DialReturns, Handshake
  <2>3. UNCHANGED <<asked, bound, refused, pings, pongs, cuts, stanzas>>
    BY <1>4 DEF DialReturns, stream, limits
  <2> QED BY <2>1, <2>2, <2>3 DEF Scalars
<1>5. CASE ServerAnswers
  <2>1. refused' \in BOOLEAN
    BY <1>5, Zenon DEF ServerAnswers
  <2>2. asked' = None /\ UNCHANGED <<next, open, bound, pings, pongs, cuts, stanzas>>
    BY <1>5 DEF ServerAnswers, limits
  <2> QED BY <2>1, <2>2 DEF Scalars
<1>6. CASE ServerSends
  <2>1. pings' \in Nat
    BY <1>6 DEF ServerSends, Scalars
  <2>2. stanzas' \in 0..MaxStanzas
    BY <1>6, SessionAssumption DEF ServerSends, Scalars
  <2>3. UNCHANGED <<handshake, pongs, cuts>>
    BY <1>6, Zenon DEF ServerSends
  <2> QED BY <2>1, <2>2, <2>3 DEF Scalars, handshake
<1>7. CASE CutHandshake
  <2>1. open' \in BOOLEAN
    BY <1>7, Zenon DEF CutHandshake
  <2>2. cuts' \in 0..MaxCuts
    BY <1>7, SessionAssumption DEF CutHandshake, Scalars
  <2>3. asked' = None /\ UNCHANGED <<next, bound, refused, pings, pongs, stanzas>>
    BY <1>7 DEF CutHandshake
  <2> QED BY <2>1, <2>2, <2>3 DEF Scalars
<1>8. CASE CutConnection
  <2>1. pings' = 0 /\ pongs' = <<>> /\ UNCHANGED <<handshake, limits>>
    BY <1>8 DEF CutConnection
  <2> QED BY <2>1 DEF Scalars, handshake, limits
<1>9. CASE UNCHANGED <<handshake, limits, pings, pongs>>
  BY <1>9 DEF Scalars, handshake, limits
<1>10. CASE Reading
  <2>1. UNCHANGED <<handshake, limits, pings>>
    BY <1>10 DEF Reading, ReadPing, ReadOther, ReadRoom, ReadBad
  <2>2. CASE ReadPing
    <3>1. 1 \in 1..Len(inbox) /\ inbox[1].kind = "ping"
      BY <2>2, EmptySeq DEF ReadPing
    <3>2. inbox[1] \in From(Rooms)
      BY <3>1, ElementOfSeq
    <3>3. inbox[1] \in [kind : {"ping"}, id : Nat]
      <4>1. \A r \in Rooms, nick \in Nicks : Occupant(r, nick).kind # "ping"
        BY DEF Occupant
      <4>2. \A st \in [kind : {"header", "features", "success", "bound", "unbound",
                              "started", "bad", "other"}] : st.kind # "ping"
        OBVIOUS
      <4>3. inbox[1] \in Plain \/ \E r \in Rooms, nick \in Nicks : inbox[1] = Occupant(r, nick)
        BY <3>2 DEF From
      <4>4. inbox[1] \in Plain
        BY <3>1, <4>1, <4>3, Zenon
      <4> QED BY <3>1, <4>2, <4>4 DEF Plain
    <3>5. inbox[1].id \in Nat
      BY <3>3
    <3>4. pongs' \in Seq(Nat)
      BY <2>2, <3>5 DEF ReadPing, Scalars
    <3> QED BY <2>1, <3>4 DEF Scalars, handshake, limits
  <2>3. CASE UNCHANGED pongs
    BY <2>1, <2>3 DEF Scalars, handshake, limits
  <2> QED BY <1>10, <2>2, <2>3 DEF Reading, ReadOther, ReadRoom, ReadBad
<1>11. CASE Close \/ UNCHANGED session \/ \E h \in handlers : HandleStanza(h)
  BY <1>9, <1>11 DEF Close, session, stream, HandleStanza
<1> QED BY <1>1, <1>2, <1>3, <1>4, <1>5, <1>6, <1>7, <1>8, <1>10, <1>11
        DEF SessionNext, SessionLoop, Dialling, Calling

\* A handler is left an occupant of a room that is kept.
LEMMA ReadRoomStep ==
    ASSUME IInv, up, inbox \in Seq(From(Kept)), ReadRoom
    PROVE  \E h \in Occupants : /\ handlers' = handlers \union {h}
                                /\ h.room \in Kept
<1>1. 1 \in 1..Len(inbox) /\ inbox[1].kind = "room"
  BY EmptySeq DEF ReadRoom
<1>2. inbox[1] \in From(Kept)
  BY <1>1, ElementOfSeq
<1>3. inbox[1] \notin Plain
  BY <1>1 DEF Plain
<1>4. PICK r \in Kept, nick \in Nicks : inbox[1] = Occupant(r, nick)
  BY <1>2, <1>3 DEF From
<1>5. r \in Rooms
  BY DEF Kept, IInv, TypeOK
<1> DEFINE j == [Local |-> r, Host |-> Conference, Node |-> nick]
           h == [room |-> r, host |-> Conference, nick |-> nick]
<1>6. inbox[1].from = Text(j)
  BY <1>4 DEF Occupant
<1>7. ParseJID(Text(j)) = j
  <2>1. /\ r \in Seq(Characters) /\ Conference \in Seq(Characters) /\ nick \in Seq(Characters)
        /\ ~ Has(r, "@") /\ ~ Has(Conference, "/") /\ "@" \in Characters /\ "/" \in Characters
    BY <1>5, SessionAssumption
  <2> QED BY <2>1, TextComesBack
<1>8. handlers' = handlers \union {h}
  BY <1>6, <1>7 DEF ReadRoom
<1>9. h \in Occupants /\ h.room \in Kept
  BY <1>4, <1>5 DEF Occupants
<1> QED BY <1>8, <1>9

LEMMA WaitingStep ==
    ASSUME IInv, Waiting, SessionNext, up, inbox \in Seq(From(Kept))
    PROVE  /\ handlers' \subseteq Occupants
           /\ \A h \in handlers' : h.room \in Kept /\ booted
<1>1. CASE handlers' \subseteq handlers
  BY <1>1 DEF Waiting
<1>2. CASE ReadRoom
  <2>1. PICK h \in Occupants : handlers' = handlers \union {h} /\ h.room \in Kept
    BY <1>2, ReadRoomStep
  <2>2. booted
    BY <1>2 DEF ReadRoom, IInv, Stored
  <2> QED BY <2>1, <2>2 DEF Waiting
<1>3. handlers' \subseteq handlers \/ ReadRoom
  <2>1. CASE OpenSocket \/ Dialling
    BY <2>1 DEF OpenSocket, Dialling, SendRequest, ReceiveAnswer, DialReturns
  <2>2. CASE Reading
    BY <2>2 DEF Reading, ReadPing, ReadOther, ReadBad
  <2>3. CASE UNCHANGED session \/ UNCHANGED <<handlers, cuts>>
    BY <2>3 DEF session
  <2>4. CASE Close \/ ServerAnswers \/ CutHandshake \/ CutConnection \/ Die \/ StartAgain
    BY <2>4 DEF Close, ServerAnswers, CutHandshake, CutConnection, Die, StartAgain
  <2>5. CASE ServerSends
    BY <2>5, Zenon DEF ServerSends
  <2>6. ASSUME NEW h \in handlers, HandleStanza(h) PROVE handlers' \subseteq handlers
    BY <2>6 DEF HandleStanza
  <2> QED BY <2>1, <2>2, <2>3, <2>4, <2>5, <2>6 DEF SessionNext, SessionLoop, Calling
<1> QED BY <1>1, <1>2, <1>3

LEMMA InitSInv == SessionInit => SInv
<1> SUFFICES ASSUME SessionInit PROVE SInv
  OBVIOUS
<1>1. /\ next = 0 /\ asked = None /\ inbox = <<>> /\ pings = 0 /\ pongs = <<>>
      /\ handlers = {} /\ cuts = 0 /\ stanzas = 0 /\ rooms = {} /\ entered = {}
  BY DEF SessionInit, Init
<1>2. open \in BOOLEAN /\ bound \in BOOLEAN /\ refused \in BOOLEAN
  BY Zenon DEF SessionInit
<1>3. Scalars
  BY <1>1, <1>2, SessionAssumption DEF Scalars, Handshake
<1>4. inbox \in Seq(From(Kept)) /\ inbox \in Seq(From(Rooms))
  BY <1>1, EmptySeq
<1> QED BY <1>1, <1>3, <1>4 DEF SInv, Waiting

LEMMA NextSInv == IInv /\ SInv /\ [SessionNext]_svars => SInv'
<1> SUFFICES ASSUME IInv, SInv, [SessionNext]_svars PROVE SInv'
  OBVIOUS
<1>1. CASE UNCHANGED svars
  BY <1>1 DEF svars, vars, session, handshake, stream, limits, SInv, Scalars, Waiting, Kept
<1>2. CASE SessionNext /\ up
  <2>1. Scalars'
    BY <1>2, ScalarsStep DEF SInv
  <2>2. Kept \subseteq Kept' /\ rooms' \subseteq owed' /\ entered' \subseteq Kept'
    BY <1>2, SessionSteps, KeptGrows DEF SInv
  <2>3. booted => booted'
    BY <1>2, SessionSteps, BootedStays
  <2>4. inbox' \in Seq(From(Kept))
    BY <1>2, InboxStep DEF SInv, Scalars
  <2>5. inbox' \in Seq(From(Kept'))
    BY <2>2, <2>4, RoomsMatter
  <2>6. Seq(From(Kept')) = Seq(From(Kept))'
    BY DEF From, Plain, Occupant, Text
  <2>8. inbox' \in Seq(From(Rooms))
    BY <1>2, InboxStep DEF SInv, Scalars, IInv, TypeOK
  <2>7. Waiting'
    BY <1>2, <2>2, <2>3, WaitingStep DEF SInv, Waiting, Occupants
  <2>9. Seq(From(Rooms))' = Seq(From(Rooms))
    BY DEF From, Plain, Occupant, Text
  <2> QED BY <2>1, <2>2, <2>5, <2>6, <2>7, <2>8, <2>9 DEF SInv
<1>3. CASE SessionNext /\ ~ up
  <2>1. StartAgain
    BY <1>3 DEF SessionNext, OpenSocket, DialFails, SessionLoop, Dialling, SendRequest,
        ReceiveAnswer, DialReturns, DialSucceeds, DialDead, Reading, ReadPing, ReadOther,
        ReadRoom, ReadBad, ReadRefused, ReadFails, BeginRejoin, RejoinOne, EndRejoin, Wake,
        HandleError, HandleStanza, Calling, JoinRoom, JoinRoomPanics, Disconnect, RunReturns,
        Close, CloseConn, ServerAnswers, ServerSends, CutHandshake, CutConnection,
        LoseConnection, Die, Crash
  <2>2. Scalars'
    BY <1>3, ScalarsStep DEF SInv
  <2>3. /\ rooms' = {} /\ entered' = {} /\ inbox' = <<>> /\ handlers' = {}
    BY <2>1 DEF StartAgain, Restart, Start, NewSocket
  <2>4. inbox' \in Seq(From(Kept))' /\ inbox' \in Seq(From(Rooms))'
    BY <2>3, EmptySeq
  <2> QED BY <2>2, <2>3, <2>4 DEF SInv, Waiting
<1> QED BY <1>1, <1>2, <1>3

LEMMA SessionInvariant == SessionSpec => []SInv
BY ConnectionInvariant, InitSInv, NextSInv, PTL DEF SessionSpec

\* Every stanza a session sees is one the types allow.
LEMMA StanzaTypes == From(Rooms) \subseteq Stanzas
<1> SUFFICES ASSUME NEW r \in Rooms, NEW nick \in Nicks PROVE Occupant(r, nick) \in Stanzas
  BY DEF From, Plain, Stanzas
<1> DEFINE tail == IF nick = <<>> THEN <<>> ELSE <<"/">> \o nick
<1>1. /\ r \in Seq(Characters) /\ Conference \in Seq(Characters) /\ nick \in Seq(Characters)
      /\ <<"@">> \in Seq(Characters) /\ <<"/">> \in Seq(Characters)
  BY SessionAssumption
<1>2. tail \in Seq(Characters)
  BY <1>1, ConcatProperties
<1> DEFINE text == r \o (<<"@">> \o (Conference \o tail))
<1>3. text \in Seq(Characters)
  <2> HIDE DEF tail
  <2>1. Conference \o tail \in Seq(Characters)
    BY <1>1, <1>2, ConcatProperties
  <2>2. <<"@">> \o (Conference \o tail) \in Seq(Characters)
    BY <1>1, <2>1, ConcatProperties
  <2> QED BY <1>1, <2>2, ConcatProperties
<1>4. Occupant(r, nick) = [kind |-> "room", from |-> text]
  BY DEF Occupant, Text
<1> HIDE DEF text
<1> QED BY <1>3, <1>4 DEF Stanzas

-----------------------------------------------------------------------------
(* The types of the session: whom a goroutine handles is an occupant the    *)
(* server named, for any names (jid.go:17-38).                              *)
THEOREM SessionTypeCorrect == SessionSpec => []SessionTypeOK
<1>1. SInv => SessionTypeOK
  <2> SUFFICES ASSUME SInv PROVE SessionTypeOK
    OBVIOUS
  <2>1. inbox \in Seq(Stanzas)
    BY StanzaTypes, SeqMonotonic DEF SInv
  <2> QED BY <2>1 DEF SInv, Scalars, Waiting, SessionTypeOK
<1> QED BY <1>1, SessionInvariant, PTL

(* A goroutine that looks its room up finds it, for any rooms, nicknames    *)
(* and bounds: nothing the server sends ends the process                    *)
(* (dog_conn.go:219-221 and 260-263).                                       *)
THEOREM HandlersFindRooms == SessionSpec => []RoomsOfHandlers
<1>1. IInv /\ SInv => RoomsOfHandlers
  BY DEF IInv, Stored, SInv, Waiting, Kept, RoomsOfHandlers
<1> QED BY <1>1, ConnectionInvariant, SessionInvariant, PTL

(* With the session under it, the connection still keeps its rooms.         *)
THEOREM SessionKeepsRooms == SessionSpec => []RoomsKept
BY Refinement, NoRoomForgotten, PTL

(* And is still present in all of them when it reads.                       *)
THEOREM SessionIsPresent == SessionSpec => []PresentEverywhere
BY Refinement, RejoinedEverywhere, PTL
-----------------------------------------------------------------------------
(* What the handshake has sent and received *)

Stanza(kind) == [kind |-> kind]

\* The server owes the answer to a request, or the answer is on the way.
Owes(request, answer) ==
    \/ asked = request /\ inbox = <<>>
    \/ asked = None /\ inbox = answer

\* Stanzas are counted, so that on an open websocket each recv gets what it is
\* meant to get.
InStep ==
    /\ next \in {1, 4, 6, 9, 11, 13} => asked = None /\ inbox = <<>>
    /\ next \in {2, 7} => Owes("open", <<Stanza("header"), Stanza("features")>>)
    /\ next \in {3, 8} => asked = None /\ inbox = <<Stanza("features")>>
    /\ next = 5  => Owes("auth", <<Stanza("success")>>)
    /\ next = 10 => \/ Owes("bind", <<Stanza("bound")>>)
                    \/ refused /\ asked = None /\ inbox = <<Stanza("unbound")>>
    /\ next = 12 => Owes("session", <<Stanza("started")>>)
    /\ next > 10 => bound \/ refused

\* The websocket of Dial is open only in a handshake, a handshake only goes on
\* in a dial, and while there is one the last connection is closed.
HInv ==
    up => /\ open => next # 0 /\ InStep
          /\ next # 0 => pc = "dial"
          /\ pc \in {"dial", "sleep"} => ~ alive
          /\ JidKnown


LEMMA InitHInv == SessionInit => HInv
BY DEF SessionInit, Init, HInv, JidKnown

\* A new websocket: nothing was sent on it.
LEMMA NewSocketInStep == ASSUME NewSocket(TRUE) PROVE InStep'
BY DEF NewSocket, InStep

\* Handshake, by number.
LEMMA Numbered ==
    /\ Len(Handshake) = 12
    /\ Handshake[1] = "open" /\ Handshake[2] = "recv" /\ Handshake[3] = "recv"
    /\ Handshake[4] = "auth" /\ Handshake[5] = "recv" /\ Handshake[6] = "open"
    /\ Handshake[7] = "recv" /\ Handshake[8] = "recv" /\ Handshake[9] = "bind"
    /\ Handshake[10] = "recvJID" /\ Handshake[11] = "session" /\ Handshake[12] = "recv"
BY DEF Handshake

LEMMA SendInStep ==
    ASSUME open, InStep, SendRequest
    PROVE  InStep'
<1>1. /\ next \in 1..12 /\ Handshake[next] \in Requests /\ next' = next + 1
      /\ asked' = Handshake[next] /\ inbox' = inbox /\ refused' = refused /\ bound' = bound
  BY Numbered DEF SendRequest, At, stream
<1>2. next \in {1, 4, 6, 9, 11}
  BY <1>1, Numbered DEF Requests
<1>3. inbox = <<>>
  BY <1>2 DEF InStep
<1>4. CASE next = 1
  BY <1>1, <1>3, <1>4, Numbered DEF InStep, Owes
<1>5. CASE next = 4
  BY <1>1, <1>3, <1>5, Numbered DEF InStep, Owes
<1>6. CASE next = 6
  BY <1>1, <1>3, <1>6, Numbered DEF InStep, Owes
<1>7. CASE next = 9
  BY <1>1, <1>3, <1>7, Numbered DEF InStep, Owes
<1>8. CASE next = 11
  BY <1>1, <1>3, <1>8, Numbered DEF InStep, Owes
<1> QED BY <1>2, <1>4, <1>5, <1>6, <1>7, <1>8

\* The only stanza there is the one this recv is for.
LEMMA ReceiveInStep ==
    ASSUME open, InStep, ReceiveAnswer
    PROVE  InStep'
<1>1. /\ next \in 1..12 /\ Handshake[next] \in {"recv", "recvJID"} /\ next' = next + 1
      /\ asked' = asked /\ refused' = refused /\ inbox # <<>> /\ inbox' = Tail(inbox)
      /\ bound' = IF next = 10 THEN inbox[1] = Stanza("bound") ELSE bound
  BY Numbered DEF ReceiveAnswer, At, Stanza
<1>2. next \in {2, 3, 5, 7, 8, 10, 12}
  BY <1>1, Numbered
<1>3. CASE next \in {2, 7}
  <2>1. asked = None /\ inbox = <<Stanza("header"), Stanza("features")>>
    BY <1>1, <1>3 DEF InStep, Owes
  <2>2. Tail(inbox) = <<Stanza("features")>>
    BY <2>1
  <2>3. next' \in {3, 8}
    BY <1>1, <1>3
  <2> QED BY <1>1, <2>1, <2>2, <2>3 DEF InStep
<1>4. CASE next \in {3, 5, 8, 12}
  <2>1. asked = None /\ Tail(inbox) = <<>>
    BY <1>1, <1>4 DEF InStep, Owes
  <2>2. next' \in {4, 6, 9, 13} /\ (next' > 10 => next > 10) /\ bound' = bound
    BY <1>1, <1>4
  <2> QED BY <1>1, <2>1, <2>2 DEF InStep
<1>5. CASE next = 10
  <2>1. /\ asked = None /\ Tail(inbox) = <<>>
        /\ inbox[1] = Stanza("bound") \/ refused
    BY <1>1, <1>5 DEF InStep, Owes
  <2>2. next' = 11
    BY <1>1, <1>5
  <2>3. (bound' <=> inbox[1] = Stanza("bound")) /\ (refused' <=> refused)
    BY <1>1, <1>5
  <2>4. bound' \/ refused'
    BY <2>1, <2>3, Zenon
  <2> QED BY <1>1, <2>1, <2>2, <2>4 DEF InStep
<1> QED BY <1>2, <1>3, <1>4, <1>5

LEMMA AnswerInStep ==
    ASSUME open, InStep, next \in 0..13, next # 0, None \notin Requests, ServerAnswers
    PROVE  InStep'
<1>1. /\ asked # None /\ asked' = None /\ next' = next /\ bound' = bound
      /\ refused => refused'
  BY DEF ServerAnswers
<1>2. /\ next \in {2, 5, 7, 10, 12} /\ inbox = <<>>
      /\ next \in {2, 7} => asked = "open"
      /\ next = 5 => asked = "auth"
      /\ next = 10 => asked = "bind"
      /\ next = 12 => asked = "session"
  BY <1>1 DEF InStep, Owes
<1>3. PICK answer \in Answers(asked) :
          /\ inbox' = inbox \o [i \in 1..Len(answer) |-> [kind |-> answer[i]]]
          /\ refused' = (refused \/ answer = <<"unbound">>)
  BY DEF ServerAnswers
<1>4. ASSUME NEW k, answer = <<k>> PROVE inbox' = <<Stanza(k)>>
  BY <1>2, <1>3, <1>4 DEF Stanza
<1>5. CASE next \in {2, 7}
  <2>1. answer = <<"header", "features">>
    BY <1>2, <1>5 DEF Answers
  <2>2. inbox' = <<Stanza("header"), Stanza("features")>>
    BY <1>2, <1>3, <2>1 DEF Stanza
  <2> QED BY <1>1, <1>5, <2>2 DEF InStep, Owes
<1>6. CASE next = 5
  <2>1. answer = <<"success">>
    BY <1>2, <1>6 DEF Answers
  <2> QED BY <1>1, <1>4, <1>6, <2>1 DEF InStep, Owes
<1>7. CASE next = 10
  <2>1. answer = <<"bound">> \/ answer = <<"unbound">>
    BY <1>2, <1>7 DEF Answers
  <2>2. CASE answer = <<"bound">>
    BY <1>1, <1>4, <1>7, <2>2 DEF InStep, Owes
  <2>3. CASE answer = <<"unbound">>
    BY <1>1, <1>3, <1>4, <1>7, <2>3 DEF InStep, Owes
  <2> QED BY <2>1, <2>2, <2>3
<1>8. CASE next = 12
  <2>1. answer = <<"started">>
    BY <1>2, <1>8 DEF Answers
  <2>2. bound \/ refused
    BY <1>8 DEF InStep
  <2> QED BY <1>1, <1>4, <1>8, <2>1, <2>2 DEF InStep, Owes
<1> QED BY <1>2, <1>5, <1>6, <1>7, <1>8

LEMMA NextHInv == SInv /\ HInv /\ [SessionNext]_svars => HInv'
<1> SUFFICES ASSUME SInv, HInv, [SessionNext]_svars, up' PROVE HInv'
  BY DEF HInv
<1>0. next \in 0..13 /\ None \notin Requests
  BY Numbered, SessionAssumption DEF SInv, Scalars, Requests
<1>1. CASE OpenSocket
  <2>1. NewSocket(TRUE) /\ pc = "dial" /\ up /\ UNCHANGED <<pc, alive>>
    BY <1>1 DEF OpenSocket, vars
  <2>2. InStep' /\ next' = 1 /\ ~ alive'
    BY <2>1, NewSocketInStep DEF NewSocket, HInv
  <2> QED BY <2>1, <2>2 DEF HInv, JidKnown
<1>2. CASE SendRequest
  <2>1. next # 0 /\ next' # 0 /\ UNCHANGED <<vars, open, bound, refused>>
    BY <1>0, <1>2, Numbered DEF SendRequest, At
  <2>2. up /\ pc = "dial"
    BY <1>2, <2>1 DEF SendRequest, HInv
  <2>3. open' => InStep'
    BY <1>2, <2>1, <2>2, SendInStep DEF HInv
  <2> QED BY <2>1, <2>2, <2>3 DEF HInv, JidKnown, vars
<1>3. CASE ReceiveAnswer
  <2>1. next # 0 /\ next' # 0 /\ UNCHANGED <<vars, open, refused>>
    BY <1>0, <1>3, Numbered DEF ReceiveAnswer, At
  <2>2. up /\ pc = "dial"
    BY <1>3, <2>1 DEF ReceiveAnswer, HInv
  <2>3. open' => InStep'
    BY <1>3, <2>1, <2>2, ReceiveInStep DEF HInv
  <2>4. ~ alive'
    BY <2>1, <2>2 DEF HInv, vars
  <2> QED BY <2>1, <2>2, <2>3, <2>4 DEF HInv, JidKnown, vars
<1>4. CASE DialReturns
  <2>1. next = 13 /\ next' = 0 /\ ~ open' /\ UNCHANGED <<bound, refused>>
    BY <1>4, Numbered DEF DialReturns
  <2>2. CASE open
    <3>1. up /\ pc' = "connected"
      BY <1>4, <2>2 DEF DialReturns, DialSucceeds
    <3>2. bound \/ refused
      BY <2>1, <2>2, <3>1 DEF HInv, InStep
    <3> QED BY <2>1, <3>1, <3>2 DEF HInv, JidKnown
  <2>3. CASE ~ open
    <3>1. pc' = "connected" /\ ~ alive'
      BY <1>4, <2>3 DEF DialReturns, DialDead
    <3> QED BY <2>1, <3>1 DEF HInv, JidKnown
  <2> QED BY <2>2, <2>3
<1>5. CASE ServerAnswers
  <2>1. open /\ up /\ UNCHANGED <<vars, next, open, bound>> /\ (refused => refused')
    BY <1>5 DEF ServerAnswers
  <2> QED BY <1>0, <1>5, <2>1, AnswerInStep DEF HInv, JidKnown, vars
<1>6. CASE UNCHANGED <<handshake, inbox, up, pc, alive>>
  BY <1>6 DEF handshake, HInv, JidKnown, InStep, Owes, Stanza
<1>7. CASE UNCHANGED handshake /\ up /\ next = 0 /\ ~ open
           /\ pc' = pc /\ (alive' => alive)
  BY <1>7 DEF handshake, HInv, JidKnown
<1>8. CASE Reading
  <2>1. UNCHANGED handshake /\ up /\ pc = "reading"
    BY <1>8 DEF Reading, ReadPing, ReadOther, ReadRoom, ReadBad, ReadRefused, ReadFails
  <2>2. next = 0 /\ ~ open
    BY <2>1 DEF HInv
  <2>3. UNCHANGED alive /\ pc' \in {"reading", "failed"}
    BY <1>8, <2>1 DEF Reading, ReadPing, ReadOther, ReadRoom, ReadBad, ReadRefused, ReadFails, vars
  <2> QED BY <2>1, <2>2, <2>3 DEF HInv, JidKnown, handshake
<1>9. CASE (BeginRejoin \/ RejoinOne \/ EndRejoin) /\ UNCHANGED session
  <2>1. /\ UNCHANGED <<handshake, inbox, alive>> /\ up
        /\ pc \in {"connected", "rejoin"} /\ pc' \in {"rejoin", "reading"}
    BY <1>9 DEF session, stream, BeginRejoin, RejoinOne, EndRejoin
  <2> QED BY <2>1 DEF HInv, JidKnown, handshake
<1>10. CASE (Wake \/ ReadFails) /\ UNCHANGED session
  <2>1. /\ UNCHANGED <<handshake, inbox, alive>> /\ up
        /\ \/ pc = "sleep" /\ pc' = "dial"
           \/ pc = "reading" /\ pc' = "failed"
    BY <1>10 DEF session, stream, Wake, ReadFails
  <2> QED BY <2>1 DEF HInv, JidKnown, handshake
<1>11. CASE DialFails /\ next = 0 /\ UNCHANGED session
  BY <1>11 DEF DialFails, session, handshake, HInv, JidKnown
<1>12. CASE HandleError /\ NewSocket(FALSE)
  BY <1>12 DEF HandleError, NewSocket, HInv, JidKnown
<1>13. CASE Calling
  <2>1. UNCHANGED <<up, pc, alive>>
    BY <1>13 DEF Calling, JoinRoom, JoinRoomPanics, Disconnect, RunReturns
  <2>2. UNCHANGED <<handshake, inbox>>
    BY <1>13 DEF Calling, session, stream
  <2> QED BY <1>6, <2>1, <2>2
<1>14. CASE Close
  <2>1. UNCHANGED <<handshake, pc, up>> /\ up /\ ~ alive'
    BY <1>14 DEF Close, CloseConn
  <2>2. CASE pc = "dial"
    <3>1. inbox' = inbox
      BY <1>14, <2>2 DEF Close
    <3> QED BY <2>1, <3>1 DEF HInv, JidKnown, handshake, InStep, Owes, Stanza
  <2>3. CASE pc # "dial"
    BY <2>1, <2>3 DEF HInv, JidKnown, handshake
  <2> QED BY <2>2, <2>3
<1>15. CASE ServerSends
  <2>1. up /\ alive /\ UNCHANGED <<vars, handshake>>
    BY <1>15, Zenon DEF ServerSends
  <2>2. next = 0 /\ ~ open
    BY <2>1 DEF HInv
  <2> QED BY <1>7, <2>1, <2>2 DEF vars
<1>16. CASE CutHandshake
  BY <1>16 DEF CutHandshake, vars, HInv, JidKnown
<1>17. CASE CutConnection
  <2>1. up /\ alive /\ UNCHANGED <<handshake, pc>> /\ ~ alive'
    BY <1>17 DEF CutConnection, LoseConnection
  <2>2. next = 0 /\ ~ open
    BY <2>1 DEF HInv
  <2> QED BY <1>7, <2>1, <2>2
<1>18. CASE Die \/ StartAgain
  BY <1>18 DEF Die, Crash, StartAgain, Restart, Start, NewSocket, HInv, JidKnown
<1>19. ASSUME NEW h \in handlers, HandleStanza(h) PROVE UNCHANGED <<handshake, inbox, up, pc, alive>>
  BY <1>19 DEF HandleStanza, stream, vars
<1>20. CASE UNCHANGED svars
  BY <1>6, <1>20 DEF svars, session, stream, vars
<1> QED BY <1>1, <1>2, <1>3, <1>4, <1>5, <1>6, <1>8, <1>9, <1>10, <1>11, <1>12, <1>13, <1>14,
           <1>15, <1>16, <1>17, <1>18, <1>19, <1>20
        DEF SessionNext, SessionLoop, Dialling

(* Dial counts stanzas and checks none, and yet an open connection has its  *)
(* JID, or the server refused it: however often connections are lost, in a  *)
(* handshake or after it, and whatever the server sends (xmpp.go:162-176).  *)
THEOREM OpenMeansBound == SessionSpec => []JidKnown
<1>1. HInv => JidKnown
  BY DEF HInv, JidKnown
<1> QED BY InitHInv, NextHInv, SessionInvariant, <1>1, PTL DEF SessionSpec
=============================================================================
