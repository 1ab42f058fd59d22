------------------------------ MODULE Session -------------------------------
(***************************************************************************)
(* Connection with the XMPP session under it (src/xmpp/xmpp.go): the       *)
(* handshake of Dial, stanza by stanza, Recv, and what processEvent does   *)
(* with what Recv returns (src/dog/dog_conn.go:164-234).                   *)
(*                                                                         *)
(* Every step is a step of Connection, or one only the session sees.       *)
(***************************************************************************)
EXTENDS Connection, Jid

CONSTANTS
    Characters,   \* what names are made of
    Nicks,        \* nicknames the server names, the empty one for a room itself
    Conference,   \* the host of the rooms
    MaxCuts,      \* how often the connection is lost during a handshake
    MaxStanzas,   \* stanzas the server sends to a connection after the handshake
    None

ASSUME SessionAssumption ==
    /\ MaxCuts \in Nat /\ MaxStanzas \in Nat
    /\ {"@", "/"} \subseteq Characters
    /\ Rooms \subseteq Seq(Characters) /\ Nicks \subseteq Seq(Characters)
    /\ Conference \in Seq(Characters)
    /\ ~ Has(Conference, "/")
    /\ \A r \in Rooms : ~ Has(r, "@")
    /\ None \notin {"open", "auth", "bind", "session"}

VARIABLES
    next,      \* the next step of Handshake, 0 before the websocket is open
    open,      \* the websocket Dial works on is open
    asked,     \* the request the server has not answered yet
    bound,     \* the JID of the connection being made, or made last, is known
    refused,   \* the server refused to bind it
    inbox,     \* stanzas on the way from the server, on the open connection
    pings,     \* pings the server has sent on it
    pongs,     \* ids of the pings answered on it
    handlers,  \* occupants whose stanzas are left to goroutines
    (* bounds *)
    cuts, stanzas

handshake == <<next, open, asked, bound, refused>>
stream    == <<inbox, pings, pongs>>
limits    == <<cuts, stanzas>>
session   == <<handshake, stream, handlers, limits>>
svars     == <<vars, session>>

Requests == {"open", "auth", "bind", "session"}

\* Breaks JidKnown: the features behind the first header are not read.
Handshake_OneHeader ==
    <<"open", "recv", "auth", "recv", "open", "recv", "recv",
      "bind", "recvJID", "session", "recv">>

\* What Dial does once the websocket is open.
Handshake ==
    <<"open", "recv", "recv", "auth", "recv", "open", "recv", "recv",
      "bind", "recvJID", "session", "recv">>

\* What the server answers: a header and its features, or one stanza.
Answers(request) ==
    CASE request = "open" -> {<<"header", "features">>}
      [] request = "auth" -> {<<"success">>}
      [] request = "bind" -> {<<"bound">>, <<"unbound">>}
      [] request = "session" -> {<<"started">>}

\* Stanzas of an open session: a message or the departure of an occupant of a
\* room, a ping, one that Recv or processEvent gives up on (an error, an unknown
\* stanza, a presence without an "@"), and those without effect here (other
\* presences and iqs, a nickname conflict, a rate limit, one longer than 75000
\* bytes).
Occupant(r, nick) == [kind |-> "room", from |-> Text([Local |-> r, Host |-> Conference, Node |-> nick])]
Ping(id) == [kind |-> "ping", id |-> id]
Bad      == [kind |-> "bad"]
Other    == [kind |-> "other"]

Stanzas ==
    [kind : {"header", "features", "success", "bound", "unbound", "started", "bad", "other"}]
    \union [kind : {"room"}, from : Seq(Characters)] \union [kind : {"ping"}, id : Nat]

Prefixes(s) == {SubSeq(s, 1, n) : n \in 0..Len(s)}

SessionInit ==
    /\ Init
    /\ next = 0 /\ open = FALSE /\ asked = None /\ bound = FALSE /\ refused = FALSE
    /\ inbox = <<>> /\ pings = 0 /\ pongs = <<>>
    /\ handlers = {} /\ cuts = 0 /\ stanzas = 0

\* What the handshake and the stream are on a new websocket, or on none.
NewSocket(isOpen) ==
    /\ open' = isOpen
    /\ next' = IF isOpen THEN 1 ELSE 0
    /\ asked' = None /\ bound' = FALSE /\ refused' = FALSE
    /\ inbox' = <<>> /\ pings' = 0 /\ pongs' = <<>> /\ stanzas' = 0

-----------------------------------------------------------------------------
(* Dial                                                                     *)
(*                                                                          *)
(* A definition named X_Y is X with one plausible mistake: it is used in no *)
(* specification, and the property it breaks is named beside it.            *)

At(steps) == next \in 1..Len(Handshake) /\ Handshake[next] \in steps

\* Breaks ImplementsConnection: Conn.c is assigned before the handshake.
OpenSocket_AsConn ==
    /\ up /\ pc = "dial" /\ next = 0
    /\ NewSocket(TRUE)
    /\ hasConn' = TRUE
    /\ UNCHANGED <<up, pc, process, alive, entered, calls, bounds, handlers, cuts>>

OpenSocket ==
    /\ up /\ pc = "dial" /\ next = 0
    /\ NewSocket(TRUE)
    /\ UNCHANGED <<vars, handlers, cuts>>

\* The error of a send is ignored.
SendRequest ==
    /\ up /\ At(Requests)
    /\ asked' = IF open THEN Handshake[next] ELSE None
    /\ next' = next + 1
    /\ UNCHANGED <<vars, open, bound, refused, stream, handlers, limits>>

\* So is the error of a recv; without a timeout it waits for a stanza or for
\* the end of the connection.  The JID is empty unless the answer has one.
ReceiveAnswer ==
    /\ up /\ At({"recv", "recvJID"})
    /\ inbox # <<>> \/ ~ open
    /\ bound' = IF At({"recvJID"}) THEN inbox # <<>> /\ inbox[1] = [kind |-> "bound"] ELSE bound
    /\ inbox' = IF inbox = <<>> THEN <<>> ELSE Tail(inbox)
    /\ next' = next + 1
    /\ UNCHANGED <<vars, open, asked, refused, pings, pongs, handlers, limits>>

DialReturns ==
    /\ next = Len(Handshake) + 1
    /\ IF open THEN DialSucceeds ELSE DialDead
    /\ next' = 0 /\ open' = FALSE
    /\ UNCHANGED <<asked, bound, refused, stream, handlers, limits>>

Dialling == SendRequest \/ ReceiveAnswer \/ DialReturns

-----------------------------------------------------------------------------
(* Recv and processEvent *)

\* Breaks PingAnswered: the answer is sent to the first ping only.
ReadPing_Once ==
    /\ up /\ pc = "reading" /\ inbox # <<>> /\ inbox[1].kind = "ping"
    /\ pongs' = IF alive /\ pongs = <<>> THEN Append(pongs, inbox[1].id) ELSE pongs
    /\ inbox' = Tail(inbox)
    /\ UNCHANGED <<vars, handshake, pings, handlers, limits>>

\* Recv answers a ping itself and goes on.
ReadPing ==
    /\ up /\ pc = "reading" /\ inbox # <<>> /\ inbox[1].kind = "ping"
    /\ pongs' = IF alive THEN Append(pongs, inbox[1].id) ELSE pongs
    /\ inbox' = Tail(inbox)
    /\ UNCHANGED <<vars, handshake, pings, handlers, limits>>

ReadOther ==
    /\ up /\ pc = "reading" /\ inbox # <<>> /\ inbox[1].kind = "other"
    /\ inbox' = Tail(inbox)
    /\ UNCHANGED <<vars, handshake, pings, pongs, handlers, limits>>

\* A goroutine is started for a message or a departure.
ReadRoom ==
    /\ up /\ pc = "reading" /\ inbox # <<>> /\ inbox[1].kind = "room"
    /\ LET jid == ParseJID(inbox[1].from)
       IN  handlers' = handlers \union {[room |-> jid.Local, host |-> jid.Host, nick |-> jid.Node]}
    /\ inbox' = Tail(inbox)
    /\ UNCHANGED <<vars, handshake, pings, pongs, limits>>

\* An error that is returned ends the loop of reads.
ReadBad ==
    /\ inbox # <<>> /\ inbox[1].kind = "bad"
    /\ IF alive THEN ReadRefused ELSE ReadFails
    /\ inbox' = Tail(inbox)
    /\ UNCHANGED <<handshake, pings, pongs, handlers, limits>>

Reading == ReadPing \/ ReadOther \/ ReadRoom \/ ReadBad

\* GetRoom waits for rl; a message or departure of a room that is not in the
\* table ends the process.
HandleStanza(h) ==
    /\ up /\ pc # "rejoin" /\ h \in handlers
    /\ h.room \in rooms
    /\ handlers' = handlers \ {h}
    /\ UNCHANGED <<vars, handshake, stream, limits>>

\* The rest of populateConnection.
SessionLoop ==
    \/ Dialling \/ Reading
    \/ (BeginRejoin \/ RejoinOne \/ EndRejoin \/ Wake) /\ UNCHANGED session
    \/ ReadFails /\ inbox = <<>> /\ UNCHANGED session
    \/ HandleError /\ NewSocket(FALSE) /\ UNCHANGED <<handlers, cuts>>

-----------------------------------------------------------------------------
(* The program, closing Conn.c and nothing Dial works on *)

Close ==
    /\ CloseConn
    /\ inbox' = IF pc = "dial" THEN inbox ELSE <<>>
    /\ UNCHANGED <<handshake, pings, pongs, handlers, limits>>

Calling ==
    /\ \/ \E r \in Rooms : JoinRoom(r) \/ JoinRoomPanics(r)
       \/ Disconnect \/ RunReturns
    /\ UNCHANGED session

-----------------------------------------------------------------------------
(* The server and the network *)

ServerAnswers ==
    /\ up /\ open /\ asked # None
    /\ \E answer \in Answers(asked) :
         /\ inbox' = inbox \o [i \in 1..Len(answer) |-> [kind |-> answer[i]]]
         /\ refused' = (refused \/ answer = <<"unbound">>)
    /\ asked' = None
    /\ UNCHANGED <<vars, next, open, bound, pings, pongs, handlers, limits>>

Sendable ==
    {Ping(pings + 1), Other, Bad} \union {Occupant(r, nick) : r \in entered, nick \in Nicks}

\* At most one bad stanza is under way, and it counts as a lost connection.
ServerSends ==
    /\ up /\ alive
    /\ stanzas < MaxStanzas /\ stanzas' = stanzas + 1
    /\ \E st \in Sendable :
         /\ st = Bad => losses < MaxLosses /\ \A i \in 1..Len(inbox) : inbox[i] # Bad
         /\ inbox' = Append(inbox, st)
         /\ pings' = IF st.kind = "ping" THEN pings + 1 ELSE pings
    /\ UNCHANGED <<vars, handshake, pongs, handlers, cuts>>

\* What was under way may or may not arrive.
CutHandshake ==
    /\ up /\ open
    /\ cuts < MaxCuts /\ cuts' = cuts + 1
    /\ open' = FALSE /\ asked' = None
    /\ inbox' \in Prefixes(inbox)
    /\ UNCHANGED <<vars, next, bound, refused, pings, pongs, handlers, stanzas>>

CutConnection ==
    /\ LoseConnection
    /\ inbox' \in Prefixes(inbox) /\ pings' = 0 /\ pongs' = <<>>
    /\ UNCHANGED <<handshake, handlers, limits>>

Die == Crash /\ NewSocket(FALSE) /\ handlers' = {} /\ UNCHANGED cuts

StartAgain == Restart /\ NewSocket(FALSE) /\ handlers' = {} /\ UNCHANGED cuts

SessionNext ==
    \/ OpenSocket
    \/ DialFails /\ next = 0 /\ UNCHANGED session
    \/ SessionLoop
    \/ \E h \in handlers : HandleStanza(h)
    \/ Calling \/ Close
    \/ ServerAnswers \/ ServerSends \/ CutHandshake \/ CutConnection
    \/ Die \/ StartAgain

SessionSpec == SessionInit /\ [][SessionNext]_svars

\* A server that is dialled again and again is reached in the end, and answers
\* every request or goes: nothing else ends the wait for an answer.
SessionLive ==
    /\ SessionSpec
    /\ SF_svars(OpenSocket) /\ WF_svars(ServerAnswers) /\ WF_svars(SessionLoop)
    /\ WF_svars(Close) /\ WF_svars(RunReturns /\ UNCHANGED session)

-----------------------------------------------------------------------------
Occupants == [room : Rooms, host : {Conference}, nick : Nicks]

(* The types of the session's state; whom a goroutine is left to handle is  *)
(* an occupant the server named, whatever its nickname is made of           *)
(* (jid.go:17-38).                                                          *)
SessionTypeOK ==
    /\ next \in 0..(Len(Handshake) + 1)
    /\ open \in BOOLEAN /\ bound \in BOOLEAN /\ refused \in BOOLEAN
    /\ asked \in Requests \union {None}
    /\ inbox \in Seq(Stanzas) /\ pings \in Nat /\ pongs \in Seq(Nat)
    /\ handlers \subseteq Occupants
    /\ cuts \in 0..MaxCuts /\ stanzas \in 0..MaxStanzas

(* Dial counts stanzas and ignores every error, but a connection that is    *)
(* open has a JID, unless the server refused to give it one: a connection   *)
(* lost in the middle is never taken for one that is bound                  *)
(* (xmpp.go:162-176).                                                       *)
JidKnown == up /\ alive => bound \/ refused

(* A goroutine that waits to look its room up finds it in the table, even   *)
(* after a reconnection: the process is not ended by a message from a room  *)
(* that "does not exist", nor by a departure (dog_conn.go:219-221 and       *)
(* 260-263).                                                                *)
RoomsOfHandlers ==
    up /\ pc # "rejoin" => \A h \in handlers : h.room \in rooms

(* As long as a connection lives, each ping on it is answered in the end,   *)
(* with its own id, however long the rooms take to be rejoined              *)
(* (xmpp.go:270-279).                                                       *)
PingAnswered ==
    \A id \in 1..MaxStanzas :
        pings >= id ~> (\E i \in 1..Len(pongs) : pongs[i] = id) \/ ~ alive \/ ~ up

(* With the session under it the connection does what Connection says, and  *)
(* is as live: a handshake that is cut short is a dial that fails, or one   *)
(* that returns a connection already lost.                                  *)
ImplementsConnection == LiveSpec
=============================================================================
