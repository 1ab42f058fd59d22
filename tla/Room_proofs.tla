----------------------------- MODULE Room_proofs ----------------------------
(***************************************************************************)
(* Proofs about Room, for any people, keys, number of goroutines, stays,   *)
(* posts and lost connections.                                             *)
(***************************************************************************)
EXTENDS Room, TLAPS

\* Before the first departure of a nickname nothing is being undone, and its
\* Member only comes after its key.
FirstStay ==
    \A n \in Nicks \ left :
        /\ Pending("destroy", n) = {}
        /\ buddies[n] = None => members[n] = None /\ Pending("store", n) = {}

\* No RoomJoined for a Room before our own presence in it.
Unannounced(r) == roomJoined[r] = 0 /\ Announcing(r) = {}

NotJoinedYet ==
    /\ ~ joinedEvent => Unannounced(losses)
    /\ \A r \in Rooms : r > losses => Unannounced(r)

IInv ==
    /\ TypeOK
    /\ NoOrphanBuddy
    /\ MemberMadeOnce /\ FirstStay
    /\ RoomJoinedOnce /\ NotJoinedYet

-----------------------------------------------------------------------------
(* What a goroutine's next step does to the sets of pending ones *)

LEMMA TodoInjective ==
    ASSUME NEW w1, NEW w2, NEW n1, NEW n2
    PROVE  /\ Todo(w1, n1) = Todo(w2, n2) <=> w1 = w2 /\ n1 = n2
           /\ \A r \in Rooms : Todo(w1, n1) # Announce(r)
BY DEF Todo, Announce

LEMMA AnnounceInjective ==
    \A q, r \in Rooms : Announce(q) = Announce(r) => q = r
BY DEF Announce

LEMMA ReceiveIsNotTodo ==
    ASSUME NEW s, NEW w, NEW n
    PROVE  /\ [do |-> "receive", msg |-> s] # Todo(w, n)
           /\ \A r \in Rooms : [do |-> "receive", msg |-> s] # Announce(r)
BY DEF Todo, Announce

LEMMA NoneIsNoTask ==
    /\ \A n \in Nicks : /\ None # Todo("store", n)
                        /\ None # Todo("mark", n)
                        /\ None # Todo("delete", n)
                        /\ None # Todo("destroy", n)
    /\ \A r \in Rooms : None # Announce(r)
<1>1. \A n \in Nicks, w \in {"store", "mark", "delete", "destroy"} : Todo(w, n) \in Tasks
  BY DEF Tasks, Todo
<1>2. \A r \in Rooms : Announce(r) \in Tasks
  BY DEF Tasks, Announce
<1> QED BY <1>1, <1>2, NoneAssumption

LEMMA GotoPending ==
    ASSUME TypeOK, NEW g \in Goroutines, NEW next, Goto(g, next), NEW w, NEW n
    PROVE  Pending(w, n)' = IF next = Todo(w, n) THEN Pending(w, n) \union {g}
                                                 ELSE Pending(w, n) \ {g}
<1>1. \A h \in Goroutines : task'[h] = IF h = g THEN next ELSE task[h]
  BY DEF TypeOK, Goto
<1> QED BY <1>1 DEF Pending, Todo

LEMMA GotoAnnouncing ==
    ASSUME TypeOK, NEW g \in Goroutines, NEW next, Goto(g, next), NEW r \in Rooms
    PROVE  Announcing(r)' = IF next = Announce(r) THEN Announcing(r) \union {g}
                                                  ELSE Announcing(r) \ {g}
<1>1. \A h \in Goroutines : task'[h] = IF h = g THEN next ELSE task[h]
  BY DEF TypeOK, Goto
<1> QED BY <1>1 DEF Announcing, Announce

LEMMA SpawnedTask ==
    ASSUME NEW s \in Stanzas, losses \in Rooms
    PROVE  /\ Spawned(s) \in Tasks \union {None}
           /\ \A n \in Nicks : /\ Spawned(s) # Todo("store", n)
                               /\ Spawned(s) # Todo("destroy", n)
           /\ s = SelfStanza /\ ~ joinedEvent => Spawned(s) = Announce(losses)
           /\ ~ (s = SelfStanza /\ ~ joinedEvent) =>
                 \A r \in Rooms : Spawned(s) # Announce(r)
<1>1. CASE s \in Messages
  <2>1. Spawned(s) = [do |-> "receive", msg |-> s]
    BY <1>1 DEF Spawned, Messages
  <2>2. s # SelfStanza
    BY <1>1 DEF Messages, SelfStanza
  <2>3. Spawned(s) \in Tasks
    BY <1>1, <2>1 DEF Tasks
  <2>4. \A n \in Nicks : Spawned(s) # Todo("store", n) /\ Spawned(s) # Todo("destroy", n)
    BY <2>1, ReceiveIsNotTodo
  <2>5. \A r \in Rooms : Spawned(s) # Announce(r)
    BY <2>1, ReceiveIsNotTodo
  <2> QED BY <2>2, <2>3, <2>4, <2>5
<1>2. CASE s \in [type : {"unavailable"}, nick : Nicks]
  <2>1. Spawned(s) = Todo("delete", s.nick) /\ s.nick \in Nicks /\ s # SelfStanza
    BY <1>2 DEF Spawned, SelfStanza
  <2>2. Todo("delete", s.nick) \in Tasks
    BY <2>1 DEF Tasks, Todo
  <2> QED BY <2>1, <2>2, TodoInjective
<1>3. CASE s = SelfStanza
  <2>1. Spawned(s) = IF joinedEvent THEN None ELSE Announce(losses)
    BY <1>3 DEF Spawned, SelfStanza
  <2>2. Announce(losses) \in Tasks
    BY DEF Announce, Tasks
  <2> QED BY <1>3, <2>1, <2>2, TodoInjective, NoneIsNoTask
<1> QED BY <1>1, <1>2, <1>3 DEF Stanzas

-----------------------------------------------------------------------------
LEMMA InitIInv == Init => IInv
<1> SUFFICES ASSUME Init PROVE IInv
  OBVIOUS
<1>1. TypeOK
  <2>1. 0 \in 0..MaxStays /\ 0 \in 0..MaxPosts /\ 0 \in 0..MaxEchoes /\ 0 \in 0..MaxLosses
    BY RoomAssumption
  <2>2. wire \in Seq(Stanzas)
    BY DEF Init
  <2> QED BY <2>1, <2>2 DEF Init, TypeOK
<1>2. /\ \A r \in Rooms : Announcing(r) = {}
      /\ \A n \in Nicks : Pending("store", n) = {} /\ Pending("destroy", n) = {}
  BY NoneIsNoTask DEF Init, Announcing, Pending
<1>3. NoOrphanBuddy /\ MemberMadeOnce /\ FirstStay
  BY <1>2 DEF Init, NoOrphanBuddy, MemberMadeOnce, FirstStay
<1>4. RoomJoinedOnce /\ NotJoinedYet
  <2>1. \A r \in Rooms : Unannounced(r)
    BY <1>2 DEF Init, Unannounced
  <2>2. 0 \in Rooms /\ losses = 0
    BY RoomAssumption DEF Rooms, Init
  <2>3. RoomJoinedOnce
    BY <2>1 DEF RoomJoinedOnce, Unannounced
  <2> QED BY <2>1, <2>2, <2>3 DEF NotJoinedYet
<1> QED BY <1>1, <1>3, <1>4 DEF IInv

\* People and the server only add to the wire.
LEMMA PeersStep ==
    ASSUME IInv, TypeOK', UNCHANGED <<tables, task, losses>>
    PROVE  IInv'
BY DEF IInv, tables, NoOrphanBuddy, MemberMadeOnce, FirstStay, RoomJoinedOnce,
       NotJoinedYet, Unannounced, Pending, Announcing

LEMMA PeopleTypeOK ==
    ASSUME TypeOK, NEW n \in Nicks, People(n)
    PROVE  TypeOK' /\ UNCHANGED <<tables, task, losses>>
<1>1. ASSUME NEW k \in Keys, Enter(n, k) PROVE TypeOK' /\ UNCHANGED <<tables, task, losses>>
  <2>1. stays' \in [Nicks -> 0..MaxStays]
    BY <1>1, RoomAssumption DEF TypeOK, Enter
  <2>2. posts' \in [Nicks -> 0..MaxPosts]
    BY <1>1, RoomAssumption DEF TypeOK, Enter
  <2>3. key' \in [Nicks -> Keys \union {None}]
    BY <1>1 DEF TypeOK, Enter
  <2>4. UNCHANGED <<announced, history, wire, echoes, losses, tables, task>>
    BY <1>1 DEF Enter
  <2> QED BY <2>1, <2>2, <2>3, <2>4 DEF TypeOK, tables
<1>2. ASSUME NEW s \in Messages, Post(n, s), UNCHANGED announced
      PROVE  TypeOK' /\ UNCHANGED <<tables, task, losses>>
  <2>1. wire' \in Seq(Stanzas)
    BY <1>2 DEF TypeOK, Post, Stanzas
  <2>2. posts' \in [Nicks -> 0..MaxPosts]
    BY <1>2, RoomAssumption DEF TypeOK, Post
  <2> QED BY <1>2, <2>1, <2>2 DEF TypeOK, Post, tables
<1>3. CASE PostFlag(n)
  <2>1. FlagStanza(n, key[n]) \in Messages
    BY <1>3 DEF TypeOK, PostFlag, FlagStanza, Messages
  <2> QED BY <1>2, <1>3, <2>1 DEF PostFlag
<1>4. CASE PostKey(n)
  <2>1. KeyStanza(n, key[n]) \in Messages
    BY <1>4 DEF TypeOK, PostKey, KeyStanza, Messages
  <2>2. wire' \in Seq(Stanzas)
    BY <1>4, <2>1 DEF TypeOK, PostKey, Post, Stanzas
  <2>3. posts' \in [Nicks -> 0..MaxPosts]
    BY <1>4, RoomAssumption DEF TypeOK, PostKey, Post
  <2> QED BY <1>4, <2>1, <2>2, <2>3 DEF TypeOK, PostKey, Post, tables
<1>5. CASE Leave(n)
  <2>1. LeaveStanza(n) \in Stanzas
    BY DEF LeaveStanza, Stanzas
  <2> QED BY <1>5, <2>1 DEF TypeOK, Leave, tables
<1> QED BY <1>1, <1>3, <1>4, <1>5 DEF People

LEMMA EchoTypeOK ==
    ASSUME TypeOK, EchoPresence
    PROVE  TypeOK' /\ UNCHANGED <<tables, task, losses>>
<1>1. wire' \in Seq(Stanzas)
  BY DEF TypeOK, EchoPresence, Stanzas
<1>2. echoes' \in 0..MaxEchoes
  BY RoomAssumption DEF TypeOK, EchoPresence
<1> QED BY <1>1, <1>2 DEF TypeOK, EchoPresence, tables

\* The reader hands a stanza to an idle goroutine.
LEMMA ReaderStep ==
    ASSUME IInv, processEvent
    PROVE  IInv'
<1> DEFINE s == Head(wire)
<1>1. TypeOK /\ s \in Stanzas
  BY DEF IInv, TypeOK, processEvent
<1>0. losses \in Rooms
  BY <1>1 DEF TypeOK, Rooms
<1>2. PICK g \in Goroutines : task[g] = None /\ Goto(g, Spawned(s))
  BY DEF processEvent, Goto
<1>3. /\ wire' = Tail(wire)
      /\ joinedEvent' = (joinedEvent \/ s = SelfStanza)
      /\ UNCHANGED <<key, stays, posts, announced, history, echoes, losses,
                     members, buddies, roomJoined, left>>
  BY DEF processEvent
<1>4. wire' \in Seq(Stanzas)
  BY <1>1 DEF processEvent, TypeOK
<1> HIDE DEF s
<1>5. TypeOK'
  <2>1. task' \in [Goroutines -> Tasks \union {None}]
    BY <1>0, <1>1, <1>2, SpawnedTask DEF TypeOK, Goto
  <2> QED BY <1>1, <1>3, <1>4, <2>1 DEF TypeOK
<1>6. \A n \in Nicks : /\ Pending("store", n)' = Pending("store", n)
                       /\ Pending("destroy", n)' = Pending("destroy", n)
  <2> TAKE n \in Nicks
  <2>1. g \notin Pending("store", n) /\ g \notin Pending("destroy", n)
    BY <1>2, NoneIsNoTask DEF Pending
  <2>2. Spawned(s) # Todo("store", n) /\ Spawned(s) # Todo("destroy", n)
    BY <1>0, <1>1, SpawnedTask
  <2> QED BY <1>1, <1>2, <2>1, <2>2, GotoPending
<1>7. NoOrphanBuddy' /\ MemberMadeOnce' /\ FirstStay'
  BY <1>3, <1>6 DEF IInv, NoOrphanBuddy, MemberMadeOnce, FirstStay
<1>8. RoomJoinedOnce' /\ NotJoinedYet'
  <2>1. \A r \in Rooms : g \notin Announcing(r)
    BY <1>2, NoneIsNoTask DEF Announcing
  <2>2. losses' = losses /\ roomJoined' = roomJoined
    BY <1>3
  <2>3. CASE s = SelfStanza /\ ~ joinedEvent
    <3>1. \A r \in Rooms : Announcing(r)' = IF r = losses THEN {g} ELSE Announcing(r)
      <4> TAKE r \in Rooms
      <4>1. CASE r = losses
        <5>1. Announcing(r)' = Announcing(r) \union {g}
          BY <1>1, <1>2, <1>0, <2>3, <4>1, SpawnedTask, GotoAnnouncing
        <5>2. Announcing(r) = {}
          BY <2>3, <4>1 DEF IInv, NotJoinedYet, Unannounced
        <5> QED BY <4>1, <5>1, <5>2
      <4>2. CASE r # losses
        <5>1. Spawned(s) # Announce(r)
          BY <1>0, <1>1, <2>3, <4>2, SpawnedTask, AnnounceInjective
        <5>2. Announcing(r)' = Announcing(r) \ {g}
          BY <1>1, <1>2, <5>1, GotoAnnouncing
        <5> QED BY <2>1, <4>2, <5>2
      <4> QED BY <4>1, <4>2
    <3>2. roomJoined[losses] = 0
      BY <2>3 DEF IInv, NotJoinedYet, Unannounced
    <3>3. RoomJoinedOnce'
      BY <2>2, <3>1, <3>2 DEF IInv, RoomJoinedOnce
    <3>4. joinedEvent' = TRUE
      BY <1>3, <2>3
    <3>5. \A r \in Rooms : r > losses => Unannounced(r)'
      <4>1. \A r \in Rooms : r > losses => r # losses
        BY DEF Rooms
      <4> QED BY <2>2, <3>1, <4>1 DEF IInv, NotJoinedYet, Unannounced
    <3> QED BY <2>2, <3>3, <3>4, <3>5 DEF NotJoinedYet
  <2>4. CASE ~ (s = SelfStanza /\ ~ joinedEvent)
    <3>1. \A r \in Rooms : Announcing(r)' = Announcing(r)
      <4> TAKE r \in Rooms
      <4>1. Spawned(s) # Announce(r)
        BY <1>0, <1>1, <2>4, SpawnedTask
      <4>2. Announcing(r)' = Announcing(r) \ {g}
        BY <1>1, <1>2, <4>1, GotoAnnouncing
      <4> QED BY <2>1, <4>2
    <3>2. joinedEvent' = joinedEvent
      <4>1. joinedEvent \in BOOLEAN
        BY <1>1 DEF TypeOK
      <4> QED BY <1>3, <2>4, <4>1
    <3>3. RoomJoinedOnce'
      BY <2>2, <3>1 DEF IInv, RoomJoinedOnce
    <3>4. \A r \in Rooms : Unannounced(r)' <=> Unannounced(r)
      BY <2>2, <3>1 DEF Unannounced
    <3>5. NotJoinedYet'
      BY <1>0, <2>2, <3>2, <3>4 DEF IInv, NotJoinedYet
    <3> QED BY <3>3, <3>5
  <2> QED BY <2>3, <2>4
<1> QED BY <1>5, <1>7, <1>8 DEF IInv

\* A new Room is empty, and what is left over from the old one are its timers
\* and handlers at their first step.
LEMMA ReconnectStep ==
    ASSUME IInv, Reconnect
    PROVE  IInv'
<1>1. PICK late \in SUBSET {g \in Goroutines :
              task[g] # None /\ task[g].do \in {"receive", "delete", "mark"}} :
        task' = [g \in Goroutines |->
                    IF g \in late \/ \E r \in Rooms : g \in Announcing(r)
                    THEN task[g] ELSE None]
  BY DEF Reconnect, LoseAndReplay
<1>2. TypeOK
  BY DEF IInv
<1>3. \A g \in Goroutines : task'[g] = None
                            \/ task'[g].do \in {"receive", "delete", "mark", "announce"}
  <2> TAKE g \in Goroutines
  <2>1. CASE \E r \in Rooms : g \in Announcing(r)
    BY <1>1, <2>1 DEF Announcing, Announce
  <2>2. CASE g \in late
    BY <1>1, <2>2
  <2>3. CASE ~ (g \in late \/ \E r \in Rooms : g \in Announcing(r))
    BY <1>1, <2>3
  <2> QED BY <2>1, <2>2, <2>3
<1>4. \A n \in Nicks : Pending("store", n)' = {} /\ Pending("destroy", n)' = {}
  BY <1>3, NoneIsNoTask DEF Pending, Todo
<1>5. \A r \in Rooms : Announcing(r)' = Announcing(r)
  <2> TAKE r \in Rooms
  <2>1. ASSUME NEW g \in Goroutines
        PROVE  g \in Announcing(r)' <=> g \in Announcing(r)
    <3>1. CASE g \in Announcing(r)
      <4>1. task'[g] = task[g]
        BY <1>1, <3>1
      <4> QED BY <3>1, <4>1 DEF Announcing, Announce
    <3>2. CASE g \notin Announcing(r)
      <4>1. task'[g] = task[g] \/ task'[g] = None
        BY <1>1
      <4>2. task[g] # Announce(r)
        BY <3>2 DEF Announcing
      <4>3. task'[g] # Announce(r)
        BY <4>1, <4>2, NoneIsNoTask
      <4> QED BY <3>2, <4>3 DEF Announcing, Announce
    <3> QED BY <3>1, <3>2
  <2> QED BY <2>1 DEF Announcing
<1>6. /\ members' = [n \in Nicks |-> None] /\ buddies' = [n \in Nicks |-> None]
      /\ joinedEvent' = FALSE /\ roomJoined' = roomJoined /\ left' = {}
      /\ losses' = losses + 1
  BY DEF Reconnect, LoseAndReplay
<1>7. TypeOK'
  <2>1. wire' \in Seq(Stanzas)
    <3>1. CASE wire' = <<>>
      BY <3>1
    <3>2. CASE \E s \in history : wire' = <<s>>
      <4>1. PICK s \in history : wire' = <<s>>
        BY <3>2
      <4>2. s \in Stanzas
        BY <1>2 DEF TypeOK, Stanzas
      <4> QED BY <4>1, <4>2
    <3> QED BY <3>1, <3>2 DEF Reconnect, LoseAndReplay
  <2>2. losses' \in 0..MaxLosses /\ echoes' \in 0..MaxEchoes
    BY <1>2, RoomAssumption DEF Reconnect, LoseAndReplay, TypeOK
  <2>3. posts' \in [Nicks -> 0..MaxPosts]
    BY RoomAssumption DEF Reconnect, LoseAndReplay
  <2>4. task' \in [Goroutines -> Tasks \union {None}]
    BY <1>1, <1>2 DEF TypeOK
  <2>5. /\ members' \in [Nicks -> {"person", "bot", None}]
        /\ buddies' \in [Nicks -> Keys \union {None}]
        /\ joinedEvent' \in BOOLEAN /\ roomJoined' \in [Rooms -> Nat] /\ left' \subseteq Nicks
    BY <1>2, <1>6 DEF TypeOK
  <2>6. /\ UNCHANGED <<key, stays, history>>
        /\ announced' \subseteq Nicks
    BY DEF Reconnect, LoseAndReplay
  <2> HIDE DEF Reconnect, LoseAndReplay
  <2> QED BY <1>2, <2>1, <2>2, <2>3, <2>4, <2>5, <2>6 DEF TypeOK
<1>8. NoOrphanBuddy' /\ MemberMadeOnce' /\ FirstStay'
  BY <1>4, <1>6 DEF NoOrphanBuddy, MemberMadeOnce, FirstStay
<1>9. RoomJoinedOnce' /\ NotJoinedYet'
  <2>1. RoomJoinedOnce'
    BY <1>5, <1>6 DEF IInv, RoomJoinedOnce
  <2>2. \A r \in Rooms : Unannounced(r)' <=> Unannounced(r)
    BY <1>5, <1>6 DEF Unannounced
  <2>3. losses' \in Rooms
    BY <1>7 DEF TypeOK, Rooms
  <2>4. \A r \in Rooms : r > losses => Unannounced(r)
    BY DEF IInv, NotJoinedYet
  <2>5. losses' > losses /\ \A r \in Rooms : r > losses' => r > losses
    BY <1>2, <1>6 DEF TypeOK, Rooms
  <2>6. NotJoinedYet'
    <3>1. \A r \in Rooms : r > losses => Unannounced(r)'
      BY <2>2, <2>4
    <3>2. Unannounced(losses)'
      <4>1. \A r \in Rooms : r = losses' => (Unannounced(r)' => Unannounced(losses)')
        BY DEF Unannounced, Announcing, Announce
      <4> QED BY <2>3, <2>5, <3>1, <4>1
    <3> QED BY <2>5, <3>1, <3>2 DEF NotJoinedYet
  <2> QED BY <2>1, <2>6
<1> QED BY <1>7, <1>8, <1>9 DEF IInv

-----------------------------------------------------------------------------
(* The goroutines *)

\* A step to a task other than the announcement keeps the RoomJoined facts.
LEMMA NotAnnouncing ==
    ASSUME IInv, NEW g \in Goroutines, NEW next, Goto(g, next),
           \A r \in Rooms : next # Announce(r),
           UNCHANGED <<joinedEvent, roomJoined, losses>>
    PROVE  RoomJoinedOnce' /\ NotJoinedYet'
<1>1. \A r \in Rooms : Announcing(r)' = Announcing(r) \ {g}
  BY GotoAnnouncing DEF IInv
<1>2. losses \in Rooms
  BY DEF IInv, TypeOK, Rooms
<1>3. \A r \in Rooms : Unannounced(r) => Unannounced(r)'
  BY <1>1 DEF Unannounced
<1>4. RoomJoinedOnce'
  BY <1>1 DEF IInv, RoomJoinedOnce
<1> QED BY <1>2, <1>3, <1>4 DEF IInv, NotJoinedYet

\* A goroutine that ends without touching the tables.
LEMMA EndStep ==
    ASSUME IInv, NEW g \in Goroutines, Goto(g, None), UNCHANGED <<peers, tables>>,
           \A n \in Nicks : task[g] # Todo("store", n) /\ task[g] # Todo("destroy", n)
    PROVE  IInv'
<1>1. TypeOK'
  BY DEF IInv, TypeOK, peers, tables, Goto
<1>2. \A n \in Nicks : /\ Pending("store", n)' = Pending("store", n)
                       /\ Pending("destroy", n)' = Pending("destroy", n)
  <2> TAKE n \in Nicks
  <2>1. g \notin Pending("store", n) /\ g \notin Pending("destroy", n)
    BY DEF Pending
  <2> QED BY <2>1, GotoPending, NoneIsNoTask DEF IInv
<1>3. NoOrphanBuddy' /\ MemberMadeOnce' /\ FirstStay'
  BY <1>2 DEF IInv, tables, NoOrphanBuddy, MemberMadeOnce, FirstStay
<1>4. RoomJoinedOnce' /\ NotJoinedYet'
  BY NotAnnouncing, NoneIsNoTask DEF peers, tables
<1> QED BY <1>1, <1>3, <1>4 DEF IInv

LEMMA ReceiveStep ==
    ASSUME IInv, NEW g \in Goroutines, ReceiveMessage(g)
    PROVE  IInv'
<1> DEFINE s == task[g].msg
           n == s.nick
<1>1. TypeOK /\ task[g] \in Tasks /\ task[g].do = "receive"
  BY DEF IInv, TypeOK, ReceiveMessage
<1>2. s \in Messages /\ n \in Nicks /\ s.key \in Keys
  <2>1. task[g] \in [do : {"receive"}, msg : Messages]
    BY <1>1 DEF Tasks
  <2> QED BY <2>1 DEF Messages
<1>3. \A m \in Nicks : g \notin Pending("store", m) /\ g \notin Pending("destroy", m)
  BY <1>1 DEF Pending, Todo
<1>4. UNCHANGED <<peers, members, joinedEvent, roomJoined, left>>
  BY DEF ReceiveMessage
<1>5. CASE buddies[n] = None /\ buddies' = [buddies EXCEPT ![n] = s.key]
           /\ Goto(g, Todo("store", n))
  <2> HIDE DEF s, n
  <2>1. TypeOK'
    <3>1. Todo("store", n) \in Tasks
      BY <1>2 DEF Tasks, Todo
    <3> QED BY <1>1, <1>2, <1>4, <1>5, <3>1 DEF TypeOK, peers, Goto
  <2>2. \A m \in Nicks :
          /\ Pending("store", m)' = IF m = n THEN Pending("store", m) \union {g}
                                             ELSE Pending("store", m)
          /\ Pending("destroy", m)' = Pending("destroy", m)
    <3> TAKE m \in Nicks
    <3>1. Pending("store", m)' = IF m = n THEN Pending("store", m) \union {g}
                                 ELSE Pending("store", m) \ {g}
      BY <1>1, <1>5, GotoPending, TodoInjective
    <3>2. Pending("destroy", m)' = Pending("destroy", m) \ {g}
      BY <1>1, <1>5, GotoPending, TodoInjective
    <3> QED BY <1>3, <3>1, <3>2
  <2>3. \A m \in Nicks : m # n => buddies'[m] = buddies[m]
    BY <1>1, <1>5 DEF TypeOK
  <2>4. NoOrphanBuddy'
    BY <1>4, <2>2, <2>3 DEF IInv, NoOrphanBuddy
  <2>5. n \notin left => Pending("store", n) = {} /\ members[n] = None
    BY <1>2, <1>5 DEF IInv, FirstStay
  <2>6. MemberMadeOnce'
    BY <1>4, <2>2, <2>5 DEF IInv, MemberMadeOnce
  <2>7. FirstStay'
    <3>1. buddies'[n] # None
      BY <1>1, <1>2, <1>5, RoomAssumption DEF TypeOK
    <3> QED BY <1>4, <2>2, <2>3, <3>1 DEF IInv, FirstStay
  <2>8. RoomJoinedOnce' /\ NotJoinedYet'
    BY <1>4, <1>5, NotAnnouncing, TodoInjective DEF peers
  <2> QED BY <2>1, <2>4, <2>6, <2>7, <2>8 DEF IInv
<1>6. CASE Goto(g, Todo("mark", n)) /\ UNCHANGED buddies
  <2> HIDE DEF s, n
  <2>1. TypeOK'
    <3>1. Todo("mark", n) \in Tasks
      BY <1>2 DEF Tasks, Todo
    <3> QED BY <1>1, <1>4, <1>6, <3>1 DEF TypeOK, peers, Goto
  <2>2. \A m \in Nicks : /\ Pending("store", m)' = Pending("store", m)
                         /\ Pending("destroy", m)' = Pending("destroy", m)
    <3> TAKE m \in Nicks
    <3>1. Pending("store", m)' = Pending("store", m) \ {g}
      BY <1>1, <1>6, GotoPending, TodoInjective
    <3>2. Pending("destroy", m)' = Pending("destroy", m) \ {g}
      BY <1>1, <1>6, GotoPending, TodoInjective
    <3> QED BY <1>3, <3>1, <3>2
  <2>3. NoOrphanBuddy' /\ MemberMadeOnce' /\ FirstStay'
    BY <1>4, <1>6, <2>2 DEF IInv, NoOrphanBuddy, MemberMadeOnce, FirstStay
  <2>4. RoomJoinedOnce' /\ NotJoinedYet'
    BY <1>4, <1>6, NotAnnouncing, TodoInjective DEF peers
  <2> QED BY <2>1, <2>3, <2>4 DEF IInv
<1>7. CASE Goto(g, None) /\ UNCHANGED buddies
  <2>1. \A m \in Nicks : task[g] # Todo("store", m) /\ task[g] # Todo("destroy", m)
    BY <1>1 DEF Todo
  <2> QED BY <1>4, <1>7, <2>1, EndStep DEF tables
<1> QED BY <1>5, <1>6, <1>7 DEF ReceiveMessage

LEMMA StoreStep ==
    ASSUME IInv, NEW g \in Goroutines, StoreMember(g)
    PROVE  IInv'
<1>1. PICK n \in Nicks : /\ task[g] = Todo("store", n)
                         /\ members' = [members EXCEPT ![n] = "person"]
  BY DEF StoreMember
<1>2. Goto(g, None) /\ UNCHANGED <<peers, buddies, joinedEvent, roomJoined, left>>
  BY DEF StoreMember
<1>3. TypeOK'
  BY <1>1, <1>2 DEF IInv, TypeOK, peers, Goto
<1>4. g \in Pending("store", n)
  BY <1>1 DEF Pending
<1>5. \A m \in Nicks : /\ Pending("store", m)' = Pending("store", m) \ {g}
                       /\ Pending("destroy", m)' = Pending("destroy", m)
  <2> TAKE m \in Nicks
  <2>1. Pending("store", m)' = Pending("store", m) \ {g}
    BY <1>2, GotoPending, NoneIsNoTask DEF IInv
  <2>2. Pending("destroy", m)' = Pending("destroy", m) \ {g}
    BY <1>2, GotoPending, NoneIsNoTask DEF IInv
  <2>3. g \notin Pending("destroy", m)
    BY <1>1, TodoInjective DEF Pending
  <2> QED BY <2>1, <2>2, <2>3
<1>6. \A m \in Nicks : m # n => g \notin Pending("store", m)
  BY <1>1, TodoInjective DEF Pending
<1>7. members'[n] # None /\ \A m \in Nicks : m # n => members'[m] = members[m]
  BY <1>1, RoomAssumption DEF IInv, TypeOK
<1>8. NoOrphanBuddy'
  <2> SUFFICES ASSUME NEW m \in Nicks, buddies'[m] # None
               PROVE  members'[m] # None \/ Pending("store", m)' # {}
                                         \/ Pending("destroy", m)' # {}
    BY DEF NoOrphanBuddy
  <2>1. CASE m = n
    BY <1>7, <2>1
  <2>2. CASE m # n
    BY <1>2, <1>5, <1>6, <1>7, <2>2 DEF IInv, NoOrphanBuddy
  <2> QED BY <2>1, <2>2
<1>9. MemberMadeOnce'
  BY <1>2, <1>4, <1>5, <1>7 DEF IInv, MemberMadeOnce
<1>10. FirstStay'
  BY <1>2, <1>4, <1>5, <1>7 DEF IInv, FirstStay
<1>11. RoomJoinedOnce' /\ NotJoinedYet'
  BY <1>2, NotAnnouncing, NoneIsNoTask DEF peers
<1> QED BY <1>3, <1>8, <1>9, <1>10, <1>11 DEF IInv

LEMMA MarkStep ==
    ASSUME IInv, NEW g \in Goroutines, MarkBot(g)
    PROVE  IInv'
<1>1. PICK n \in Nicks :
        /\ task[g] = Todo("mark", n)
        /\ members' = IF members[n] = None THEN members
                      ELSE [members EXCEPT ![n] = "bot"]
  BY DEF MarkBot
<1>2. Goto(g, None) /\ UNCHANGED <<peers, buddies, joinedEvent, roomJoined, left>>
  BY DEF MarkBot
<1>3. TypeOK'
  BY <1>1, <1>2 DEF IInv, TypeOK, peers, Goto
<1>4. \A m \in Nicks : /\ Pending("store", m)' = Pending("store", m)
                       /\ Pending("destroy", m)' = Pending("destroy", m)
  <2> TAKE m \in Nicks
  <2>1. g \notin Pending("store", m) /\ g \notin Pending("destroy", m)
    BY <1>1, TodoInjective DEF Pending
  <2> QED BY <1>2, <2>1, GotoPending, NoneIsNoTask DEF IInv
<1>5. \A m \in Nicks : members'[m] = None <=> members[m] = None
  BY <1>1, RoomAssumption DEF IInv, TypeOK
<1>6. NoOrphanBuddy' /\ MemberMadeOnce' /\ FirstStay'
  BY <1>2, <1>4, <1>5 DEF IInv, NoOrphanBuddy, MemberMadeOnce, FirstStay
<1>7. RoomJoinedOnce' /\ NotJoinedYet'
  BY <1>2, NotAnnouncing, NoneIsNoTask DEF peers
<1> QED BY <1>3, <1>6, <1>7 DEF IInv

LEMMA DeleteStep ==
    ASSUME IInv, NEW g \in Goroutines, DeleteMember(g)
    PROVE  IInv'
<1>1. PICK n \in Nicks :
        /\ task[g] = Todo("delete", n)
        /\ members' = [members EXCEPT ![n] = None]
        /\ left' = left \union {n}
        /\ Goto(g, Todo("destroy", n))
  BY DEF DeleteMember
<1>2. UNCHANGED <<peers, buddies, joinedEvent, roomJoined>>
  BY DEF DeleteMember
<1>3. TypeOK'
  <2>1. Todo("destroy", n) \in Tasks
    BY DEF Tasks, Todo
  <2> QED BY <1>1, <1>2, <2>1 DEF IInv, TypeOK, peers, Goto
<1>4. \A m \in Nicks :
        /\ Pending("store", m)' = Pending("store", m)
        /\ Pending("destroy", m)' = IF m = n THEN Pending("destroy", m) \union {g}
                                             ELSE Pending("destroy", m)
  <2> TAKE m \in Nicks
  <2>1. g \notin Pending("store", m) /\ g \notin Pending("destroy", m)
    BY <1>1, TodoInjective DEF Pending
  <2>2. Pending("store", m)' = Pending("store", m) \ {g}
    BY <1>1, GotoPending, TodoInjective DEF IInv
  <2>3. Pending("destroy", m)' = IF m = n THEN Pending("destroy", m) \union {g}
                                 ELSE Pending("destroy", m) \ {g}
    BY <1>1, GotoPending, TodoInjective DEF IInv
  <2> QED BY <2>1, <2>2, <2>3
<1>5. \A m \in Nicks : m # n => members'[m] = members[m]
  BY <1>1 DEF IInv, TypeOK
<1>6. NoOrphanBuddy'
  BY <1>2, <1>4, <1>5 DEF IInv, NoOrphanBuddy
<1>7. MemberMadeOnce' /\ FirstStay'
  BY <1>1, <1>2, <1>4, <1>5 DEF IInv, MemberMadeOnce, FirstStay
<1>8. RoomJoinedOnce' /\ NotJoinedYet'
  BY <1>1, <1>2, NotAnnouncing, TodoInjective DEF peers
<1> QED BY <1>3, <1>6, <1>7, <1>8 DEF IInv

LEMMA DestroyStep ==
    ASSUME IInv, NEW g \in Goroutines, DestroyUser(g)
    PROVE  IInv'
<1>1. PICK n \in Nicks : /\ task[g] = Todo("destroy", n)
                         /\ buddies' = [buddies EXCEPT ![n] = None]
  BY DEF DestroyUser
<1>2. Goto(g, None) /\ UNCHANGED <<peers, members, joinedEvent, roomJoined, left>>
  BY DEF DestroyUser
<1>3. TypeOK'
  BY <1>1, <1>2 DEF IInv, TypeOK, peers, Goto
<1>4. \A m \in Nicks : /\ Pending("store", m)' = Pending("store", m)
                       /\ Pending("destroy", m)' = Pending("destroy", m) \ {g}
  <2> TAKE m \in Nicks
  <2>1. g \notin Pending("store", m)
    BY <1>1, TodoInjective DEF Pending
  <2> QED BY <1>2, <2>1, GotoPending, NoneIsNoTask DEF IInv
<1>5. \A m \in Nicks : m # n => g \notin Pending("destroy", m)
  BY <1>1, TodoInjective DEF Pending
<1>6. buddies'[n] = None /\ \A m \in Nicks : m # n => buddies'[m] = buddies[m]
  BY <1>1 DEF IInv, TypeOK
<1>7. NoOrphanBuddy'
  BY <1>2, <1>4, <1>5, <1>6 DEF IInv, NoOrphanBuddy
<1>8. n \in left
  <2>1. g \in Pending("destroy", n)
    BY <1>1 DEF Pending
  <2> QED BY <2>1 DEF IInv, FirstStay
<1>9. MemberMadeOnce' /\ FirstStay'
  BY <1>2, <1>4, <1>6, <1>8 DEF IInv, MemberMadeOnce, FirstStay
<1>10. RoomJoinedOnce' /\ NotJoinedYet'
  BY <1>2, NotAnnouncing, NoneIsNoTask DEF peers
<1> QED BY <1>3, <1>7, <1>9, <1>10 DEF IInv

LEMMA AnnounceStep ==
    ASSUME IInv, NEW g \in Goroutines, EmitRoomJoined(g)
    PROVE  IInv'
<1>1. PICK r \in Rooms : /\ task[g] = Announce(r)
                         /\ roomJoined' = [roomJoined EXCEPT ![r] = @ + 1]
  BY DEF EmitRoomJoined
<1>2. Goto(g, None) /\ UNCHANGED <<peers, members, buddies, joinedEvent, left>>
  BY DEF EmitRoomJoined
<1>3. TypeOK /\ losses \in Rooms
  BY DEF IInv, TypeOK, Rooms
<1>4. g \in Announcing(r)
  BY <1>1 DEF Announcing
<1>5. roomJoined'[r] = 1 /\ \A q \in Rooms : q # r => roomJoined'[q] = roomJoined[q]
  <2>1. roomJoined[r] \in Nat /\ roomJoined[r] <= 1 /\ roomJoined[r] # 1
    BY <1>3, <1>4 DEF IInv, TypeOK, RoomJoinedOnce
  <2>2. roomJoined[r] = 0
    BY <2>1
  <2> QED BY <1>1, <1>3, <2>2 DEF TypeOK
<1>6. TypeOK'
  <2>1. roomJoined' \in [Rooms -> Nat]
    BY <1>1, <1>3 DEF TypeOK
  <2> QED BY <1>2, <1>3, <2>1 DEF TypeOK, peers, Goto
<1>7. \A m \in Nicks : /\ Pending("store", m)' = Pending("store", m)
                       /\ Pending("destroy", m)' = Pending("destroy", m)
  <2> TAKE m \in Nicks
  <2>1. g \notin Pending("store", m) /\ g \notin Pending("destroy", m)
    BY <1>1, TodoInjective DEF Pending
  <2> QED BY <1>2, <1>3, <2>1, GotoPending, NoneIsNoTask
<1>8. NoOrphanBuddy' /\ MemberMadeOnce' /\ FirstStay'
  BY <1>2, <1>7 DEF IInv, NoOrphanBuddy, MemberMadeOnce, FirstStay
<1>9. \A q \in Rooms : Announcing(q)' = Announcing(q) \ {g}
  BY <1>2, <1>3, GotoAnnouncing, NoneIsNoTask
<1>10. RoomJoinedOnce'
  <2>1. Announcing(r)' = {}
    BY <1>4, <1>9 DEF IInv, RoomJoinedOnce
  <2> QED BY <1>5, <1>9, <2>1 DEF IInv, RoomJoinedOnce
<1>11. NotJoinedYet'
  <2>1. \A q \in Rooms : Unannounced(q) => q # r
    BY <1>4 DEF Unannounced
  <2>2. \A q \in Rooms : Unannounced(q) => Unannounced(q)'
    BY <1>5, <1>9, <2>1 DEF Unannounced
  <2>3. losses' = losses /\ joinedEvent' = joinedEvent
    BY <1>2 DEF peers
  <2>4. ASSUME ~ joinedEvent PROVE Unannounced(losses)'
    <3>1. Unannounced(losses)
      BY <2>4 DEF IInv, NotJoinedYet
    <3>2. \A q \in Rooms : q = losses' => (Unannounced(q)' => Unannounced(losses)')
      BY DEF Unannounced, Announcing, Announce
    <3> QED BY <1>3, <2>2, <2>3, <3>1, <3>2
  <2>5. \A q \in Rooms : q > losses => Unannounced(q)
    BY DEF IInv, NotJoinedYet
  <2> QED BY <2>2, <2>3, <2>4, <2>5 DEF NotJoinedYet
<1> QED BY <1>6, <1>8, <1>10, <1>11 DEF IInv

-----------------------------------------------------------------------------
LEMMA NextIInv == IInv /\ [Next]_vars => IInv'
<1> SUFFICES ASSUME IInv, [Next]_vars PROVE IInv'
  OBVIOUS
<1>1. ASSUME NEW n \in Nicks, People(n) PROVE IInv'
  BY <1>1, PeopleTypeOK, PeersStep DEF IInv
<1>2. CASE EchoPresence
  BY <1>2, EchoTypeOK, PeersStep DEF IInv
<1>3. CASE processEvent
  BY <1>3, ReaderStep
<1>4. CASE Reconnect
  BY <1>4, ReconnectStep
<1>5. ASSUME NEW g \in Goroutines, Run(g) PROVE IInv'
  BY <1>5, ReceiveStep, StoreStep, MarkStep, DeleteStep, DestroyStep, AnnounceStep DEF Run
<1>6. CASE UNCHANGED vars
  <2>1. TypeOK'
    BY <1>6 DEF vars, peers, tables, IInv, TypeOK
  <2> QED BY <1>6, <2>1, PeersStep DEF vars, peers
<1> QED BY <1>1, <1>2, <1>3, <1>4, <1>5, <1>6 DEF Next

(* The invariant of a room, for any number of people and goroutines.        *)
THEOREM Invariance == Spec => []IInv
BY InitIInv, NextIInv, PTL DEF Spec

(* The types of the room's tables.                                          *)
THEOREM TypeCorrect == Spec => []TypeOK
BY Invariance, PTL DEF IInv

(* Nobody is a buddy without a Member once the goroutines are done          *)
(* (dog_conn.go:220-223 and 289-307).                                       *)
THEOREM BuddiesHaveMembers == Spec => []NoOrphanBuddy
BY Invariance, PTL DEF IInv

(* Repeated announcements never replace a Member of someone who has not     *)
(* left (dog_conn.go:298-307).                                              *)
THEOREM MembersAreKept == Spec => []MemberMadeOnce
BY Invariance, PTL DEF IInv

(* RoomJoined is announced once per Room (dog_conn.go:198-212).             *)
THEOREM AnnouncedOnce == Spec => []RoomJoinedOnce
BY Invariance, PTL DEF IInv
=============================================================================
