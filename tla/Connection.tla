----------------------------- MODULE Connection -----------------------------
(***************************************************************************)
(* The life of a dog.Conn (src/dog/dog_conn.go): Run starts the loop of    *)
(* populateConnection, which dials, rejoins the saved rooms, reads until   *)
(* an error, sleeps and dials again; the program calls JoinRoom and        *)
(* Disconnect from goroutines of its own; the process may die at any time  *)
(* and be started again on the same database.                              *)
(*                                                                         *)
(* The sleep between two dials has no length here (its growth and reset    *)
(* change no state but time), and the database is a persistent one.        *)
(***************************************************************************)
EXTENDS Naturals, FiniteSets

CONSTANTS
    Rooms,           \* room names
    MaxLosses,       \* how often a connection that was made is lost
    MaxCrashes,      \* how often the process dies
    MaxDisconnects   \* how often the program calls Disconnect

ASSUME BoundAssumption == MaxLosses \in Nat /\ MaxCrashes \in Nat /\ MaxDisconnects \in Nat

VARIABLES
    (* the process *)
    up,        \* the process runs
    pc,        \* where populateConnection is
    rooms,     \* keys of Conn.rooms
    rejoin,    \* rooms connectAllRooms still has to join; it holds Conn.rl
    hasConn,   \* Conn.c # nil
    killed,    \* Conn.killed
    senders,   \* goroutines of Disconnect blocked on errc
    closing,   \* calls of Disconnect that have not closed Conn.c yet
    returned,  \* Run has returned
    (* the database *)
    saved,     \* room names stored under "rooms"
    (* the server *)
    alive,     \* the connection Conn.c stands for is open
    entered,   \* rooms that connection has entered
    (* history and bounds *)
    booted,    \* this process has been through connectAllRooms
    owed,      \* rooms this process found saved or was asked to join; a join
               \* before its first rejoin stores over what it found
    losses, crashes

vars == <<up, pc, rooms, rejoin, hasConn, killed, senders, closing, returned,
          saved, alive, entered, booted, owed, losses, crashes>>

process == <<rooms, rejoin, saved, booted, owed>>
calls   == <<killed, senders, closing, returned>>
bounds  == <<losses, crashes>>

\* New and Run: initKeys stores what is missing and the loop is started.
Start ==
    /\ up' = TRUE /\ pc' = "dial"
    /\ rooms' = {} /\ rejoin' = {} /\ hasConn' = FALSE
    /\ killed' = FALSE /\ senders' = 0 /\ closing' = 0 /\ returned' = FALSE
    /\ alive' = FALSE /\ entered' = {}
    /\ booted' = FALSE /\ owed' = saved

Init ==
    /\ saved \in SUBSET Rooms
    /\ up = TRUE /\ pc = "dial"
    /\ rooms = {} /\ rejoin = {} /\ hasConn = FALSE
    /\ killed = FALSE /\ senders = 0 /\ closing = 0 /\ returned = FALSE
    /\ alive = FALSE /\ entered = {}
    /\ booted = FALSE /\ owed = saved
    /\ losses = 0 /\ crashes = 0

-----------------------------------------------------------------------------
(* populateConnection                                                       *)
(*                                                                          *)
(* A definition named X_Y is X with one plausible mistake: it is used in no *)
(* specification, and the property it breaks is named beside it.            *)

DialSucceeds ==
    /\ up /\ pc = "dial"
    /\ hasConn' = TRUE /\ alive' = TRUE /\ entered' = {}
    /\ pc' = "connected"
    /\ UNCHANGED <<up, process, calls, bounds>>

\* Dial ignores the errors of its handshake, and may return a connection that
\* is already lost.
DialDead ==
    /\ up /\ pc = "dial"
    /\ hasConn' = TRUE /\ alive' = FALSE /\ entered' = {}
    /\ pc' = "connected"
    /\ UNCHANGED <<up, process, calls, bounds>>

\* A failed Dial assigns nil to Conn.c.
DialFails ==
    /\ up /\ pc = "dial"
    /\ hasConn' = FALSE /\ alive' = FALSE /\ entered' = {}
    /\ pc' = "failed"
    /\ UNCHANGED <<up, process, calls, bounds>>

\* Breaks PresentEverywhere: rooms already in the table are not joined again.
BeginRejoin_KeepsTable ==
    /\ up /\ pc = "connected"
    /\ rooms' = rooms /\ rejoin' = saved \ rooms
    /\ pc' = "rejoin"
    /\ UNCHANGED <<up, saved, booted, owed, hasConn, alive, entered, calls, bounds>>

\* connectAllRooms takes rl, empties the table and loads the saved names.
BeginRejoin ==
    /\ up /\ pc = "connected"
    /\ rooms' = {} /\ rejoin' = saved
    /\ pc' = "rejoin"
    /\ UNCHANGED <<up, saved, booted, owed, hasConn, alive, entered, calls, bounds>>

\* Breaks RoomsKept: the names are collected before the room is added.
joinMuc_StoresFirst(r) ==
    /\ rooms' = rooms \union {r}
    /\ saved' = rooms
    /\ entered' = IF alive THEN entered \union {r} ELSE entered

\* Breaks SavedShrinksOnlyWhen: only the new name is stored.
joinMuc_StoresOne(r) ==
    /\ rooms' = rooms \union {r}
    /\ saved' = {r}
    /\ entered' = IF alive THEN entered \union {r} ELSE entered

\* joinMuc: adds the room, stores the names of the whole table, and sends the
\* presence, which is lost without an error when the connection is closed.
joinMuc(r) ==
    /\ rooms' = rooms \union {r}
    /\ saved' = rooms \union {r}
    /\ entered' = IF alive THEN entered \union {r} ELSE entered

RejoinOne ==
    /\ up /\ pc = "rejoin"
    /\ \E r \in rejoin :
         /\ joinMuc(r)
         /\ rejoin' = rejoin \ {r}
    /\ UNCHANGED <<up, pc, booted, owed, hasConn, alive, calls, bounds>>

\* connectAllRooms releases rl; Connected is emitted; reading begins.
EndRejoin ==
    /\ up /\ pc = "rejoin" /\ rejoin = {}
    /\ pc' = "reading" /\ booted' = TRUE
    /\ UNCHANGED <<up, rooms, rejoin, saved, owed, hasConn, alive, entered, calls, bounds>>

\* Recv fails: always once the connection is gone, and on some stanzas too
\* (an error other than a nickname conflict or a rate limit).
ReadFails ==
    /\ up /\ pc = "reading" /\ ~ alive
    /\ pc' = "failed"
    /\ UNCHANGED <<up, process, hasConn, alive, entered, calls, bounds>>

ReadRefused ==
    /\ up /\ pc = "reading" /\ alive
    /\ losses < MaxLosses /\ losses' = losses + 1
    /\ pc' = "failed"
    /\ UNCHANGED <<up, process, hasConn, alive, entered, calls, crashes>>

\* Breaks ComesBack: a failed dial ends the loop.
HandleError_GivesUp ==
    /\ up /\ pc = "failed"
    /\ alive' = FALSE /\ entered' = {}
    /\ pc' = IF killed \/ ~ hasConn THEN "ended" ELSE "sleep"
    /\ UNCHANGED <<up, process, hasConn, calls, bounds>>

\* hndlErr: the connection is closed and the loop ends or goes to sleep.
HandleError ==
    /\ up /\ pc = "failed"
    /\ alive' = FALSE /\ entered' = {}
    /\ pc' = IF killed THEN "ended" ELSE "sleep"
    /\ UNCHANGED <<up, process, hasConn, calls, bounds>>

Wake ==
    /\ up /\ pc = "sleep"
    /\ pc' = "dial"
    /\ UNCHANGED <<up, process, hasConn, alive, entered, calls, bounds>>

Loop ==
    \/ BeginRejoin \/ RejoinOne \/ EndRejoin
    \/ ReadFails \/ HandleError \/ Wake

-----------------------------------------------------------------------------
(* The program: any goroutine, at any time; rl is held while rejoining *)

JoinRoom(r) ==
    /\ up /\ pc # "rejoin"
    /\ r \notin rooms
    /\ hasConn
    /\ joinMuc(r)
    /\ owed' = (IF booted THEN owed ELSE rooms) \union {r}
    /\ UNCHANGED <<up, pc, rejoin, hasConn, alive, booted, calls, bounds>>

\* Without a connection joinMuc dereferences nil after it has stored the
\* names: the process dies.
JoinRoomPanics(r) ==
    /\ up /\ pc # "rejoin"
    /\ r \notin rooms
    /\ ~ hasConn
    /\ crashes < MaxCrashes /\ crashes' = crashes + 1
    /\ up' = FALSE
    /\ saved' = rooms \union {r}
    /\ UNCHANGED <<pc, rooms, rejoin, hasConn, alive, entered, booted, owed, calls, losses>>

\* Breaks DisconnectReturns: nobody tells Run, as if the loop's end did.
Disconnect_NoSender ==
    /\ up /\ senders + closing < MaxDisconnects /\ ~ returned
    /\ killed' = TRUE
    /\ closing' = closing + 1
    /\ UNCHANGED <<up, pc, process, hasConn, alive, entered, senders, returned, bounds>>

\* Disconnect marks the connection killed and starts a sender on errc, then
\* closes whatever Conn.c is by then.
Disconnect ==
    /\ up /\ senders + closing < MaxDisconnects /\ ~ returned
    /\ killed' = TRUE
    /\ senders' = senders + 1
    /\ closing' = closing + 1
    /\ UNCHANGED <<up, pc, process, hasConn, alive, entered, returned, bounds>>

CloseConn ==
    /\ up /\ closing > 0
    /\ closing' = closing - 1
    /\ alive' = FALSE /\ entered' = {}
    /\ UNCHANGED <<up, pc, process, hasConn, killed, senders, returned, bounds>>

\* Breaks TypeOK: Run does not wait for a sender.
RunReturns_Unasked ==
    /\ up /\ ~ returned
    /\ senders' = senders - 1 /\ returned' = TRUE
    /\ UNCHANGED <<up, pc, process, hasConn, alive, entered, killed, closing, bounds>>

\* Run receives from errc.
RunReturns ==
    /\ up /\ senders > 0 /\ ~ returned
    /\ senders' = senders - 1 /\ returned' = TRUE
    /\ UNCHANGED <<up, pc, process, hasConn, alive, entered, killed, closing, bounds>>

-----------------------------------------------------------------------------
(* The environment *)

LoseConnection ==
    /\ up /\ alive
    /\ losses < MaxLosses /\ losses' = losses + 1
    /\ alive' = FALSE /\ entered' = {}
    /\ UNCHANGED <<up, pc, process, hasConn, calls, crashes>>

Crash ==
    /\ up
    /\ crashes < MaxCrashes /\ crashes' = crashes + 1
    /\ up' = FALSE
    /\ UNCHANGED <<pc, process, hasConn, alive, entered, calls, losses>>

Restart ==
    /\ ~ up
    /\ Start
    /\ UNCHANGED <<saved, bounds>>

Next ==
    \/ DialSucceeds \/ DialDead \/ DialFails \/ Loop \/ ReadRefused
    \/ \E r \in Rooms : JoinRoom(r) \/ JoinRoomPanics(r)
    \/ Disconnect \/ CloseConn \/ RunReturns
    \/ LoseConnection \/ Crash \/ Restart

Spec == Init /\ [][Next]_vars

\* The runtime runs every goroutine that can proceed, sleeps end, and a server
\* that is dialled again and again answers in the end.
LiveSpec ==
    /\ Spec
    /\ WF_vars(Loop) /\ SF_vars(DialSucceeds)
    /\ WF_vars(CloseConn) /\ WF_vars(RunReturns)

-----------------------------------------------------------------------------
(* The types of the connection's state.                                     *)
TypeOK ==
    /\ up \in BOOLEAN /\ hasConn \in BOOLEAN /\ alive \in BOOLEAN
    /\ killed \in BOOLEAN /\ returned \in BOOLEAN /\ booted \in BOOLEAN
    /\ pc \in {"dial", "connected", "rejoin", "reading", "failed", "sleep", "ended"}
    /\ rooms \subseteq Rooms /\ rejoin \subseteq Rooms /\ saved \subseteq Rooms
    /\ entered \subseteq Rooms /\ owed \subseteq Rooms
    /\ senders \in Nat /\ closing \in Nat
    /\ losses \in 0..MaxLosses /\ crashes \in 0..MaxCrashes

(* Whenever connectAllRooms is not at work, the process is in exactly the   *)
(* rooms it found saved or was asked to join, and exactly those are saved:  *)
(* no lost connection, and no join at any moment of a reconnection, makes   *)
(* it forget one (dog_conn.go:436-450 and 496-501).  A join that comes      *)
(* before the first rejoin is the exception, and takes the place of what    *)
(* was saved.                                                               *)
RoomsKept ==
    up /\ booted /\ pc # "rejoin" => rooms = owed /\ saved = owed

(* A client that reads from an open connection has entered, on that very    *)
(* connection, every room of its table: a presence sent on a dead or older  *)
(* connection (its error is ignored, xmpp.go:218-226) is always followed by *)
(* a rejoin.                                                                *)
PresentEverywhere ==
    up /\ pc = "reading" /\ alive => rooms \subseteq entered

(* The stored room list only shrinks while rejoining, where it is rebuilt   *)
(* one room at a time, or by a join that comes before the first rejoin of   *)
(* the process: those are the windows in which a crash loses rooms          *)
(* (dog_conn.go:445-447 and 497-501).                                       *)
SavedShrinksOnlyWhen ==
    [][saved \subseteq saved' \/ pc = "rejoin" \/ ~ booted]_vars

(* Disconnect makes Run return, even in the middle of a reconnection        *)
(* (dog_conn.go:102 and 530; README.md:67).                                 *)
DisconnectReturns == killed ~> returned \/ ~ up

(* Unless it is told to stop or dies, a client is in the end back in every  *)
(* room it should be in (dog_conn.go:114-161; README.md:54).                *)
ComesBack ==
    \A r \in Rooms :
        r \in owed ~> (alive /\ r \in entered) \/ r \notin owed \/ killed \/ ~ up

(* Once Run has returned because of Disconnect ("graceful exit",            *)
(* README.md:67), the client does not open another connection.              *)
GracefulExit == [][returned /\ up' => ~ (~ alive /\ alive')]_vars
=============================================================================
