-------------------------------- MODULE Room --------------------------------
(***************************************************************************)
(* One chat room as one client sees it (src/dog/dog_conn.go, dog_room.go). *)
(* The reader (processEvent) takes stanzas off the connection in order and *)
(* hands each to a goroutine of its own; the goroutines of processMessage  *)
(* and of a departure run in any order and interleave at every lock.  The  *)
(* room keeps two tables about the same people: Members, under the room's  *)
(* lock, and Mp.Buddies, under the lock of Multiparty.                     *)
(*                                                                         *)
(* Of Mp only the key trusted for each nickname is kept (see Multiparty).  *)
(* Events handed to the user are left out, except RoomJoined.              *)
(***************************************************************************)
EXTENDS Naturals, Sequences, FiniteSets

CONSTANTS
    Nicks,       \* the other nicknames seen in the room
    Keys,        \* identity keys of the people behind them
    Blocked,     \* nicknames the moderation table matches (IsBlocked)
    Goroutines,  \* handlers that may be running at once
    MaxStays,    \* how often each nickname may enter the room
    MaxPosts,    \* how many group messages each nickname posts per stay
    MaxEchoes,   \* how often the server sends our own presence per connection
    MaxLosses,   \* how often the connection may be lost
    None         \* no key, no Member, no goroutine

ASSUME RoomAssumption ==
    /\ Blocked \subseteq Nicks
    /\ \A k \in Keys : None # k
    /\ None # "person" /\ None # "bot"
    /\ {MaxStays, MaxPosts, MaxEchoes, MaxLosses} \subseteq Nat

VARIABLES
    (* the server and the other people *)
    key,          \* the key a nickname in the room uses, None if it is out
    stays,        \* how often each nickname has entered
    posts,        \* group messages each nickname posted in its current stay
    announced,    \* nicknames whose key went to the current connection
    history,      \* group messages the server may replay to whoever joins
    wire,         \* stanzas on their way to the client
    echoes,       \* times our own presence was sent on this connection
    losses,       \* connections lost so far
    (* the client's Room *)
    members,      \* Room.Members: "person", "bot" (Member.Bot) or None
    buddies,      \* Room.Mp.Buddies: the key trusted for a nickname, or None
    joinedEvent,  \* Room.joinedEvent
    task,         \* what each goroutine still has to do
    roomJoined,   \* RoomJoined events emitted for each Room so far
    left          \* nicknames with a departure handled in this Room

peers  == <<key, stays, posts, announced, history, wire, echoes, losses>>
tables == <<members, buddies, joinedEvent, roomJoined, left>>
vars   == <<peers, tables, task>>

-----------------------------------------------------------------------------
(* What is on the wire, and what a goroutine is about to do *)

KeyStanza(n, k)  == [type |-> "key",  nick |-> n, key |-> k]
FlagStanza(n, k) == [type |-> "flag", nick |-> n, key |-> k]
LeaveStanza(n)   == [type |-> "unavailable", nick |-> n]
SelfStanza       == [type |-> "self"]

Messages == [type : {"key", "flag"}, nick : Nicks, key : Keys]
Stanzas  == Messages \union [type : {"unavailable"}, nick : Nicks] \union {SelfStanza}

\* The Room is made anew on every connection; the present one is numbered
\* by the connections lost before it.
Rooms == 0..MaxLosses

\* "receive", "mark" and "delete" begin by looking the Room up; the others
\* hold the one they found.
Tasks ==
    [do : {"receive"}, msg : Messages] \union
    [do : {"store", "mark", "delete", "destroy"}, nick : Nicks] \union
    [do : {"announce"}, room : Rooms]

ASSUME NoneAssumption == \A t \in Tasks : None # t

Todo(what, n) == [do |-> what, nick |-> n]

Announce(r) == [do |-> "announce", room |-> r]

Pending(what, n) == {g \in Goroutines : task[g] = Todo(what, n)}

Announcing(r) == {g \in Goroutines : task[g] = Announce(r)}

Init ==
    /\ key = [n \in Nicks |-> None]
    /\ stays = [n \in Nicks |-> 0]
    /\ posts = [n \in Nicks |-> 0]
    /\ announced = {} /\ history = {} /\ wire = <<>>
    /\ echoes = 0 /\ losses = 0
    /\ members = [n \in Nicks |-> None]
    /\ buddies = [n \in Nicks |-> None]
    /\ joinedEvent = FALSE /\ left = {}
    /\ roomJoined = [r \in Rooms |-> 0]
    /\ task = [g \in Goroutines |-> None]

-----------------------------------------------------------------------------
(* The server and the other people *)

Enter(n, k) ==
    /\ key[n] = None /\ stays[n] < MaxStays
    /\ key' = [key EXCEPT ![n] = k]
    /\ stays' = [stays EXCEPT ![n] = @ + 1]
    /\ posts' = [posts EXCEPT ![n] = 0]
    /\ UNCHANGED <<announced, history, wire, echoes, losses, tables, task>>

Post(n, s) ==
    /\ posts[n] < MaxPosts
    /\ posts' = [posts EXCEPT ![n] = @ + 1]
    /\ wire' = Append(wire, s)
    /\ history' = history \union {s}
    /\ UNCHANGED <<key, stays, echoes, losses, tables, task>>

PostKey(n) ==
    /\ key[n] # None
    /\ Post(n, KeyStanza(n, key[n]))
    /\ announced' = announced \union {n}

\* A group message that flags its author as a bot (FLAG_ME_AS_BOT).
PostFlag(n) ==
    /\ key[n] # None
    /\ Post(n, FlagStanza(n, key[n]))
    /\ UNCHANGED announced

Leave(n) ==
    /\ key[n] # None
    /\ key' = [key EXCEPT ![n] = None]
    /\ wire' = Append(wire, LeaveStanza(n))
    /\ UNCHANGED <<stays, posts, announced, history, echoes, losses, tables, task>>

\* JoinMUC sends two presence stanzas, and each is answered with our own.
EchoPresence ==
    /\ echoes < MaxEchoes
    /\ echoes' = echoes + 1
    /\ wire' = Append(wire, SelfStanza)
    /\ UNCHANGED <<key, stays, posts, announced, history, losses, tables, task>>

-----------------------------------------------------------------------------
(* The reader *)

\* A definition named X_Y is X with one plausible mistake.  It is used in no
\* specification; the property it breaks is named beside it.

\* Breaks RoomJoinedOnce: every presence of our own starts the timer.
Spawned_EveryEcho(s) ==
    CASE s.type \in {"key", "flag"}  -> [do |-> "receive", msg |-> s]
      [] s.type = "unavailable"      -> Todo("delete", s.nick)
      [] s.type = "self"             -> Announce(losses)

\* What processEvent starts for a stanza.  Our own presence starts the timer
\* of RoomJoined, once per Room.
Spawned(s) ==
    CASE s.type \in {"key", "flag"}  -> [do |-> "receive", msg |-> s]
      [] s.type = "unavailable"      -> Todo("delete", s.nick)
      [] s.type = "self"             -> IF joinedEvent THEN None
                                        ELSE Announce(losses)

processEvent ==
    /\ wire # <<>>
    /\ \E g \in Goroutines :
         /\ task[g] = None
         /\ task' = [task EXCEPT ![g] = Spawned(Head(wire))]
    /\ joinedEvent' = (joinedEvent \/ Head(wire) = SelfStanza)
    /\ wire' = Tail(wire)
    /\ UNCHANGED <<key, stays, posts, announced, history, echoes, losses,
                   members, buddies, roomJoined, left>>

\* All of a reconnection but the two tables.  The timers of the old Room still
\* fire.  Other handlers that hold the old Room finish on it unseen; those in
\* `late' have not looked the Room up yet and will find the new one.  The
\* server may replay history.
LoseAndReplay ==
    /\ losses < MaxLosses
    /\ losses' = losses + 1
    /\ \E late \in SUBSET {g \in Goroutines :
             task[g] # None /\ task[g].do \in {"receive", "delete", "mark"}} :
         task' = [g \in Goroutines |->
                     IF g \in late \/ \E r \in Rooms : g \in Announcing(r)
                     THEN task[g] ELSE None]
    /\ \/ wire' = <<>>
       \/ \E s \in history : wire' = <<s>>
    /\ joinedEvent' = FALSE /\ left' = {}
    /\ announced' = {} /\ echoes' = 0
    /\ posts' = [n \in Nicks |-> 0]
    /\ UNCHANGED <<key, stays, history, roomJoined>>

\* Breaks TypeOK: the table of Members is not made anew.
Reconnect_NilMembers ==
    /\ LoseAndReplay
    /\ members' = None
    /\ buddies' = [n \in Nicks |-> None]

\* Breaks KnownForGood: the new Room keeps the old Mp.
Reconnect_KeepsMp ==
    /\ LoseAndReplay
    /\ members' = [n \in Nicks |-> None]
    /\ UNCHANGED buddies

\* The connection is lost and connectAllRooms replaces the Room.
Reconnect ==
    /\ LoseAndReplay
    /\ members' = [n \in Nicks |-> None]
    /\ buddies' = [n \in Nicks |-> None]

-----------------------------------------------------------------------------
(* The goroutines: one action per critical section *)

Goto(g, next) == task' = [task EXCEPT ![g] = next]

\* Breaks MemberMadeOnce: a key seen before names a new user again.
ReceiveMessage_KnownAgain(g) ==
    /\ task[g] # None /\ task[g].do = "receive"
    /\ LET s == task[g].msg
           n == s.nick
       IN  \/ /\ n \notin Blocked /\ s.type = "key" /\ buddies[n] \in {None, s.key}
              /\ buddies' = [buddies EXCEPT ![n] = s.key]
              /\ Goto(g, Todo("store", n))
           \/ /\ n \in Blocked \/ s.type # "key" \/ buddies[n] \notin {None, s.key}
              /\ Goto(g, None)
              /\ UNCHANGED buddies
    /\ UNCHANGED <<peers, members, joinedEvent, roomJoined, left>>

\* processMessage up to the return of Mp.ReceiveMessage.  A key for an unknown
\* nickname is trusted and the nickname returned; a group message is readable
\* under the trusted key only; anything else is an error or nothing.
ReceiveMessage(g) ==
    /\ task[g] # None /\ task[g].do = "receive"
    /\ LET s == task[g].msg
           n == s.nick
       IN  \/ /\ n \notin Blocked /\ s.type = "key" /\ buddies[n] = None
              /\ buddies' = [buddies EXCEPT ![n] = s.key]
              /\ Goto(g, Todo("store", n))
           \/ /\ n \notin Blocked /\ s.type = "flag" /\ buddies[n] = s.key
              /\ Goto(g, Todo("mark", n))
              /\ UNCHANGED buddies
           \/ /\ \/ n \in Blocked
                 \/ s.type = "key" /\ buddies[n] # None
                 \/ s.type = "flag" /\ buddies[n] # s.key
              /\ Goto(g, None)
              /\ UNCHANGED buddies
    /\ UNCHANGED <<peers, members, joinedEvent, roomJoined, left>>

\* processMessage, the new user's Member: replaces whatever is there.
StoreMember(g) ==
    /\ \E n \in Nicks :
         /\ task[g] = Todo("store", n)
         /\ members' = [members EXCEPT ![n] = "person"]
    /\ Goto(g, None)
    /\ UNCHANGED <<peers, buddies, joinedEvent, roomJoined, left>>

\* handleGroupBEXPacket, FLAG_ME_AS_BOT: lost if there is no Member.
MarkBot(g) ==
    /\ \E n \in Nicks :
         /\ task[g] = Todo("mark", n)
         /\ members' = IF members[n] = None THEN members
                       ELSE [members EXCEPT ![n] = "bot"]
    /\ Goto(g, None)
    /\ UNCHANGED <<peers, buddies, joinedEvent, roomJoined, left>>

\* Breaks NoOrphanBuddy: Multiparty is not told of the departure.
DeleteMember_Only(g) ==
    /\ \E n \in Nicks :
         /\ task[g] = Todo("delete", n)
         /\ members' = [members EXCEPT ![n] = None]
         /\ left' = left \union {n}
    /\ Goto(g, None)
    /\ UNCHANGED <<peers, buddies, joinedEvent, roomJoined>>

\* The departure goroutine of processEvent: Members first, then Buddies.
DeleteMember(g) ==
    /\ \E n \in Nicks :
         /\ task[g] = Todo("delete", n)
         /\ members' = [members EXCEPT ![n] = None]
         /\ left' = left \union {n}
         /\ Goto(g, Todo("destroy", n))
    /\ UNCHANGED <<peers, buddies, joinedEvent, roomJoined>>

DestroyUser(g) ==
    /\ \E n \in Nicks :
         /\ task[g] = Todo("destroy", n)
         /\ buddies' = [buddies EXCEPT ![n] = None]
    /\ Goto(g, None)
    /\ UNCHANGED <<peers, members, joinedEvent, roomJoined, left>>

\* The timer started by our own presence fires, for the Room it was started in.
EmitRoomJoined(g) ==
    /\ \E r \in Rooms :
         /\ task[g] = Announce(r)
         /\ roomJoined' = [roomJoined EXCEPT ![r] = @ + 1]
    /\ Goto(g, None)
    /\ UNCHANGED <<peers, members, buddies, joinedEvent, left>>

Run(g) ==
    \/ ReceiveMessage(g) \/ StoreMember(g) \/ MarkBot(g)
    \/ DeleteMember(g) \/ DestroyUser(g) \/ EmitRoomJoined(g)

People(n) ==
    \/ \E k \in Keys : Enter(n, k)
    \/ PostKey(n) \/ PostFlag(n) \/ Leave(n)

Next ==
    \/ \E n \in Nicks : People(n)
    \/ EchoPresence \/ processEvent \/ Reconnect
    \/ \E g \in Goroutines : Run(g)

Spec == Init /\ [][Next]_vars

\* The Go scheduler runs the reader and every goroutine that can proceed; all
\* locks are released on every path.  People and the network owe nothing.
LiveSpec == Spec /\ WF_vars(processEvent)
                 /\ \A g \in Goroutines : WF_vars(Run(g))

-----------------------------------------------------------------------------
(* The types of the room's tables and of the goroutines' work.              *)
TypeOK ==
    /\ key \in [Nicks -> Keys \union {None}]
    /\ stays \in [Nicks -> 0..MaxStays] /\ posts \in [Nicks -> 0..MaxPosts]
    /\ announced \subseteq Nicks /\ left \subseteq Nicks
    /\ history \subseteq Messages
    /\ wire \in Seq(Stanzas)
    /\ echoes \in 0..MaxEchoes /\ losses \in 0..MaxLosses
    /\ members \in [Nicks -> {"person", "bot", None}]
    /\ buddies \in [Nicks -> Keys \union {None}]
    /\ joinedEvent \in BOOLEAN /\ roomJoined \in [Rooms -> Nat]
    /\ task \in [Goroutines -> Tasks \union {None}]

(* A nickname whose key the room trusts has a Member, or a goroutine is     *)
(* about to store one or to forget the key: when the goroutines are done,   *)
(* nobody is a buddy whose private messages are dropped for want of a       *)
(* Member (dog_conn.go:333-337).  The order of the two updates matters in   *)
(* both handlers (dog_conn.go:289-307 and 220-223).                         *)
NoOrphanBuddy ==
    \A n \in Nicks : buddies[n] # None =>
        \/ members[n] # None
        \/ Pending("store", n) # {}
        \/ Pending("destroy", n) # {}

(* While no departure of a nickname has been handled, its Member is made at *)
(* most once, however many copies of its key arrive in whatever order: the  *)
(* Bot flag and OTR conversation it holds are not thrown away by a repeated *)
(* announcement (dog_conn.go:298-307, multiparty.go:240-246).               *)
MemberMadeOnce ==
    \A n \in Nicks \ left :
        /\ \A g, h \in Pending("store", n) : g = h
        /\ members[n] # None => Pending("store", n) = {}

(* RoomJoined is announced at most once per Room, although the server sends *)
(* our own presence several times and presence of the next connection may   *)
(* follow before the timer fires, in the old Room (dog_conn.go:198-212).    *)
RoomJoinedOnce ==
    \A r \in Rooms :
        /\ \A g, h \in Announcing(r) : g = h
        /\ roomJoined[r] <= 1
        /\ roomJoined[r] = 1 => Announcing(r) = {}

(* Someone who entered the room once, stays, and whose key was sent to the  *)
(* current connection ends up known for good: trusted key and Member both,  *)
(* whatever the order of the goroutines (dog_conn.go:289-307).              *)
KnownForGood ==
    \A n \in Nicks \ Blocked :
        <>[](stays[n] = 1 /\ key[n] # None /\ n \in announced)
        => <>[](buddies[n] = key[n] /\ members[n] # None)
=============================================================================
