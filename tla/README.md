# Verification of go-cryptodog

TLA+ models of the go-cryptodog library, TLC configurations that check them on
small instances, and theorems about them checked by the TLAPS proof system.
Everything is translated from the Go source; the documents and comments of the
repository are only quoted where the code is compared with them.

## The system

A program (`cmd/demobot`, `cmd/hircine`) uses a `dog.Conn`, which keeps one
websocket to an XMPP server, one `Room` per joined conference room, and in each
Room a `multiparty.Me` that encrypts group messages for every buddy.

| component | state | operations | interacts through |
|---|---|---|---|
| multiparty (`multiparty/multiparty.go`) | `Me`: keys, `Buddies`, `UsedIVs`, `blacklist`; `buddyLock`, `keyLock` | send / request a public key, send a message, receive a stanza, destroy a user, blacklist | text of group messages |
| room (`dog/dog_conn.go`, `dog_room.go`) | `Members`, `joinedEvent`, `Mp`, under `ml` | presence, group message, departure, flags | a goroutine per stanza |
| connection (`dog/dog_conn.go`) | `rooms` under `rl`, `c.c`, `killed`, `errc` | Run, JoinRoom, Disconnect, the loop of populateConnection | the database's `rooms`, the server |
| moderation (`dog/dog_bex.go`) | `ModerationTables` (no lock), `Mp.blacklist` | SetModerationTable, IsBlocked | message goroutines |
| BEX codec (`dog/dog_bex.go`) | none | EncodeBEX, DecodeBEX, the two handlers | group and private messages |
| private conversations (`dog/dog_room.go`) | `Member.otr`, `onInit` (no lock) | DM, initOtr, Ask, Answer, the otr3 event handlers | private messages, fingerprints of Mp |
| XMPP session (`xmpp/`) | the socket, the JID | Dial, Recv, JoinMUC, JIDs | stanzas, on which the connection's loop acts |
| disk database (`dog/dog_db_disk.go`) | one file per key | Load, Store, Delete | the connection |
| events (`dog/dog_event.go`) | table of callbacks | On, emit | a goroutine per callback |
| command parser (`commandparser/parser.go`) | commands; `AntiSpam` scores | Parse, AddScore | the program's event handlers |
| hircine (`cmd/hircine`) | one IRC client, one `dog.Conn` | IRC commands, events | shared database |

What is hard in it: every message and every departure is handled by a goroutine
of its own, so nothing keeps the order in which the server sent them; the two
tables about the same people (`Members`, `Mp.Buddies`) have two locks; the
server replays history to whoever joins; the connection can be lost, closed by
the program or die with the process at any step of a rejoin, and the stored
room list is rewritten during it; the moderation tables have no lock at all.
Private conversations and spam scores have no lock either, and are changed by
callers, message goroutines and timers at once; the XMPP handshake ignores every
error. `PROJECT.json` lists the hazards that matter most at their lines, with the
properties that cover them or the reason none does.

What makes each component correct, in short. Multiparty: keys are pinned,
secrets match keys, a message is shown once and an honest one is accepted. Room:
who is in Buddies is in Members once the goroutines are done (the other way round
the code does not promise), nothing is made twice.
Connection: no room is forgotten, every connection enters all rooms, Disconnect
ends Run, the client comes back. Moderation: a matched nickname gets none of our
messages. BEX: what is decoded is what was encoded, up to the first table over its limit. Parser:
arguments are the text between separators. Anti-spam: every score is forgotten in
the end, and without repeated lines no score exceeds what all lines could charge.
OTR: a success of the SMP means the same answer between people who trust each
other's keys; a question is asked once unless two handlers of GoneSecure meet, is
not forgotten but for the races named below, and is concluded. XMPP session: a connection that is open has a JID, a
ping is answered, a handshake that is cut short is a dial that failed.

## Modules

**Multiparty** models `Me`. One action per handler and call; `sendMessage` is
two actions, `ChooseRecipients` (up to the release of `keyLock`) and
`EncryptAndSend`, because calls that take only one of the two locks run between
them. A conjunct `sending[p] = Idle` stands for `buddyLock`. `net` is the set of
stanzas ever relayed: a handler may take any of them any number of times, which
covers reordering, loss and replay. Cryptography is symbolic: a secret is the
pair of keys it is derived from, a ciphertext carries its key and IV, and
decrypting with another key gives `Garbage`. The branch for an entry with an empty
field (`multiparty.go:296-297`) is left out: no sender running this code makes one. Of a participant's code only what
uses it honestly is modelled: all stanzas come from participants that run this
code.

**GroupChat** is what the protocol promises: trust on first sight, posts
addressed to keys, each shown at most once per session.
**MultipartyChat** maps Multiparty's state to it; `ImplementsGroupChat` is both
a checked property and a theorem.

**Room** models `processEvent` (the reader) and its goroutines, one action per
critical section: `ReceiveMessage` ends where `Mp.ReceiveMessage` returns,
`StoreMember` is the later section under `ml`, a departure is `DeleteMember`
then `DestroyUser`. Of Mp only the trusted key of each nickname is kept.
`Reconnect` replaces the Room; handlers that have not looked it up yet will find
the new one, and the two-second timers of the old one go on and emit RoomJoined
for it: Rooms are numbered by the connections lost before them, and RoomJoined is
counted for each. The server and the other people are modelled from what the code
expects of them.

**Connection** models `Run`, `populateConnection`, `connectAllRooms`, `joinMuc`,
`JoinRoom` and `Disconnect`. `rl` is held while `pc = "rejoin"`. The state is the
process's (lost by `Crash`), the database's (`saved`, kept) and the server's
(`alive`, `entered`). `owed` is history: the rooms found saved or asked for. A
dial may succeed, fail, or return a connection that is already lost
(`DialDead`), since `Dial` ignores the errors of its handshake.

**Session** puts the XMPP session under Connection: `Handshake` is the list of
sends and receives of `Dial`, `next` the step it is at, `inbox` the stanzas under
way. `Recv` is one action per kind of stanza it tells apart. What it hands on
about a room is a goroutine in `handlers`, with the address **Jid**'s `ParseJID`
returns for the text the server sent; there names are sequences of characters,
nicknames with an `@` or `/` included. Each action of Session is an action of
Connection with something added, or leaves Connection's variables alone, so
that `ImplementsConnection` (Connection's specification with its fairness) is a
property of it.

**Moderation** models a moderator's table against the goroutines that learn
keys: each look at `ModerationTables`, `Buddies` or the blacklist is an action
(`IsBlocked` is three: the table of nicknames, the fingerprint, the table of keys).
`raced` is history: the nicknames with an announcement past `IsBlocked` when a
table was stored.

**Bex** models the codec over tokens (field, value), written and read by two
separate tables of fields as in the two switches of the code, and the handlers of
group and of private packets. Only the three bytes of a colour are real bytes.
`Submessage` is the Go type: which fields a submessage has is fixed by its header;
a packet is any sequence of them. `DecodeBEX` sees bytes, no tokens: where it stands
at a token that is no header (`Misread`) it takes what it finds for one, and the
model allows any header, any fields, the receiver's own name in `Target` included,
and any extent.

**Otr** models a conversation of two clients. Every call and every stanza is a
task of the end it concerns, done in steps that end at each access to the
Member: `initOtr` (the nil check) and `create` are two, `Ask`'s look at the
conversation and `SetOnInit` as well, and HandleSecurityEvent's check, read and
reset of `onInit` are three (`CheckOnInit`, `ReadOnInit`, `ResetOnInit`). What a
goroutine does with the conversation it has read from `m.otr` is one step at that
read: once initOtr has replaced a conversation nobody looks at the old one again,
and the event a late goroutine raises on the Member takes those steps of its own.
`create` assigns `m.otr` together with its handlers and policies (the code does it
line by line, `dog_room.go:147-155`). Tasks are a set: two goroutines with the same
task at the same place are one. Either end may call Ask and DM any number of times
up to `MaxCalls` in all. A message is a task of its receiver, so
that messages overtake each other as the goroutines of the code do. otr3 is
external: its key exchange is reduced to a query, a commitment and a signature,
its choice between two exchanges at once is left open, its SMP has its four
messages and aborts. A secret is the tuple `prepareAnswer` concatenates. History
is `raced` (Ask stored its question when the conversation had become secure),
`replaced` (another Ask wrote over it), `created`, `begun`, `questions`, `given`,
`together` (two goroutines between their check of `onInit` and its reset) and
`crashed` (`go fn()` on nil: the end takes no more steps).

**AntiSpam** models the scores of the parser: every access of the entry, of
`lastCommandString` and of `commandSpamAccumulator` is an action, so that the two
halves of every `+=`, of `*=` and of every decay can be interrupted, an entry is named by the call that made it, and numbers
wrap at `Largest`. How much time has passed since the last line is left open.

**CommandLine** models `Parse` rune by rune; its reference definition
(`Arguments`) is stated over the positions of the separators of the line, without
reading it from left to right.

The `MC*` modules hold the instances. A definition named `X_Y` is `X` with one
plausible mistake; it is in no specification and shows that the property named
beside it can fail.

## Runs

| run | properties | what it shows |
|---|---|---|
| mp_two | TypeOK, BuddyKeys, KeyPinned, ImplementsGroupChat | two people, a second key for one of them, an oversized message |
| mp_three | RecipientsKnown, DeliveredOnce, HonestAccepted | three people, so that buddy lists differ, one of them blacklisted |
| room_tables | TypeOK, NoOrphanBuddy, MemberMadeOnce, RoomJoinedOnce, KnownForGood | one nickname that comes twice, two goroutines, two echoes of our presence, a reconnection with replay; safety and liveness |
| conn_rooms | TypeOK, RoomsKept, PresentEverywhere, SessionTypeOK, JidKnown, RoomsOfHandlers, SavedShrinksOnlyWhen, DisconnectReturns, ComesBack, PingAnswered, ImplementsConnection | connection and session together: two rooms, one loss, one handshake cut short, one death, one Disconnect, two stanzas per connection |
| conn_exit | GracefulExit (violated) | after Disconnect, Run returns and the client reconnects |
| mod_tables | TypeOK, MutedUnlessRaced, Enforced | two nicknames, two stays, two tables, two goroutines; a table takes effect in the end |
| bex_codec | RoundTrip | all pairs of submessages, tables over the limit at any place, packets over the limit |
| bex_table | NothingInvented (violated) | the entries of a table over the limit are read as submessages and handled |
| cmd_lines | CutAtSeparators | all lines of five runes, all texts of six after a known name: which command is called, with which arguments |
| cmd_quotes | QuoteEndsArgument (violated) | a space after a closing quote makes an empty argument |
| otr_verify | TypeOK, VerifiedMeansTrusted, HonestVerified, OneHandler, AskedOnce, AskNotForgotten, Concluded | two ends, two calls by either or both, two answers, the kinds of trust below |
| antispam_scores | TypeOK, EveryEntryDecays, OneDecay, NeverOvercharged, Forgiven | two users, three calls of which two at once, eight-bit numbers |

The three violated properties are quoted from the README, the comments and the
messages of the code; `PROJECT.json` ("findings") cites both sides. Two more faults
of the code show in what the properties say or except:

* a colour with a byte below sixteen does not survive the round trip: it is printed
  with `%X` (`dog_bex.go:147`), one digit, where the encoder and `ValidColor` expect
  two (207, 488-491). `RoundTrip` says that exactly the other colours come back;
* `onInit` is checked, read and reset without a lock (`dog_room.go:182-184`). When
  initOtr has replaced a conversation, the goroutines of the old and of the new one
  can be there together: both take the question and it is sent twice, or one starts
  the nil function the other left and the process ends. `OneHandler` and `AskedOnce`
  confine both to that case; neither holds without the exception.

### Bounds and why they are enough

* Multiparty: two participants give every pairwise case (a second key, two
  messages in either order, replay of all stanzas without bound); three are the
  least for two buddy lists that differ. Each plaintext is sent once (it is
  made unique by 64 random bytes in the code).
* Room: one nickname, since handlers of different nicknames touch different
  entries of both tables; two keys and two stays make a departure and a return
  under another key; two goroutines let a key and a departure be under way
  together. The proofs hold for any numbers.
* Connection and Session: two rooms make a rejoin interruptible in the middle.
  One loss, one cut and one death can hit the recovery from each other in any
  order. The session costs most of the states, so these bounds are smaller than
  Connection would need alone; the safety properties are proved for all bounds
  and any stanzas. Two stanzas per connection let a ping wait behind another.
* Otr: an exchange that is renewed, crossed or thrown away needs two calls, and so
  does a question that is written over; two answers tell agreement from
  disagreement. `SomeTrust` takes the trusts in which neither end trusts a key, or
  one trusts the other's real key and the other a real, a stranger's or no key; the
  proofs are for all.
* AntiSpam: two first lines that race need two calls at once, and a third call
  meets what they left. With eight bits and a limit of twelve, repeated lines
  pass the limit within three calls. The accumulator reaches 8 in them; the charge
  of the bare prefix repeated (three times 450) wraps, to 70, and no score becomes
  negative. The proofs are for any width and number of calls.
* Moderation: two nicknames and two tables, one table replacing the other, with
  both handlers or a handler and a table under way. The blacklist is only read
  by sendMessage (Multiparty), so the number of goroutines matters little.
* Bex: limits of two submessages and three entries stand for 8 and 512. A pair
  is enough to see one submessage shift the next.
* CommandLine: the parser's state depends on the last rune and one flag, so
  six runes go through every sequence of its transitions several times.

Deadlock is not checked where the model's environment runs out of budget (stays,
posts, losses, tables) or the modelled call has returned, as the program too is
then idle; Multiparty, whose participants may always act, is checked for it.

### Fairness

`Room!LiveSpec` and `Moderation!LiveSpec` let the reader and every goroutine run
(Go's scheduler; every lock in the code is released on every path).
`Connection!LiveSpec` lets the loop, Run and the goroutines of Disconnect run,
and assumes that a server dialled again and again answers in the end (strong
fairness of `DialSucceeds`); losses and deaths are bounded by constants.
`Session!SessionLive` says the same one level down: the websocket opens in the
end if it is tried again and again, and a server answers every request of the
handshake or the connection goes; `ImplementsConnection` shows that this gives
Connection's fairness. A server that stays silent and a connection that is half
open are outside of it: nothing in the code ends those waits (`xmpp.go:162-176`,
`194-199`). `AntiSpam!LiveSpec` runs every call and every decay goroutine, whose
sleeps end. Otr has no fairness: what it says of the end is said of states where
all goroutines are done. None of the other people, the server's messages or the
program's calls are fair.

## Proofs

| module | theorems |
|---|---|
| Multiparty_proofs | TypeCorrect, SecretsFollowKeys, NoNilRecipient, AtMostOnce, HonestDelivery, TrustOnFirstUse; Refinement: `Spec => ImplementsGroupChat` |
| Room_proofs | TypeCorrect, BuddiesHaveMembers, MembersAreKept, AnnouncedOnce |
| Moderation_proofs | TypeCorrect, TableMutes |
| Session_proofs | of Connection: TypeCorrect, NoRoomForgotten, RejoinedEverywhere, SavedOnlyRebuilt; Refinement: `SessionSpec => Spec` of Connection; of Session: SessionTypeCorrect, HandlersFindRooms, SessionKeepsRooms, SessionIsPresent, OpenMeansBound |
| Otr_proofs | TypeCorrect, SuccessIsMutual, HonestEndsAreVerified, HandlersApart, QuestionAskedOnce, QuestionNotForgotten, ProofsConclude |
| AntiSpam_proofs | TypeCorrect, NoEntryForEver, OnlyItsOwnDecay, ChargedOnce |
| Bex_proofs | EveryFieldComesBack |
| CommandLine_proofs | CallsWhatTheLineSays |

They hold for every value of the constants under the assumptions named in the
modules (keys have an owner, the markers `NoBuddy`, `Idle`, `None` are not data,
bounds are naturals, packets are sequences of well-formed submessages). Every
invariant of a passing run is stated by one of them. The argument is the same in each: an inductive invariant
`IInv` is shown to hold initially and to be kept by each action, one lemma per
action, and the properties follow from it.

* Multiparty: the invariant adds to the checked ones what every group message
  on the net looks like (`Sealed`: one IV per recipient, each text under the key
  of its HMAC, each HMAC over all texts, the tag over all HMACs). `HonestDelivery`
  needs that the HMAC input of the receiver, which leaves its other buddies out
  only when the message does, is that of the sender.
* MultipartyChat: each step is a step of GroupChat or a stutter, under that
  invariant.
* Room: `MemberMadeOnce` and `RoomJoinedOnce` are not inductive; `FirstStay` adds
  that before the first departure of a nickname nothing is being undone and its
  Member only comes after its key, `NotJoinedYet` that no timer of a Room runs,
  or has fired, before our own presence in it.
* Connection: `RoomsKept` says nothing while the table is rebuilt nor before the
  first rejoin; `Rebuilding` and `Stored` say what holds there, `Entered` that the
  rooms of the table are entered already while rejoining.
* Session: every step is a step of Connection or leaves it alone, so Connection's
  theorems carry over through `Refinement`. `SessionTypeOK` needs that every text
  under way is an address `ParseJID` takes apart as it was put together: no room
  has an `@`, the conference no `/`, whatever the nickname has. `RoomsOfHandlers`
  needs that the table never loses a room outside of a rejoin. `JidKnown` is not
  inductive: the code ignores every error of the handshake, so what makes an open
  connection have a JID is that as many stanzas come as there are receives, and
  each receive gets the one it is meant for, unless the websocket closes.
  `InStep` says, for each step of the handshake, what the server still owes and
  that nothing else is under way; `HInv` that this holds while the socket is open
  in a dial.
* Moderation: nobody the current table matches gets past `IsBlocked` any more,
  unless noted in `raced` (`NoLateEntry`).
* Otr: a verdict compares two secrets, so the invariant says where each secret
  came from, in an end's hands (`Held`) and on the way (`Carried`); `EqualSecrets`
  and `TrustedSecrets` say what equal ones mean. For `OneHandler`: an end
  that has made one conversation becomes secure once, so one handler at most is
  under way, and what it saw in `onInit` is still there (`OneGone`). For `AskedOnce`
  the right to ask is in one place at a time while handlers never were together
  (`OneRight`). That `TypeOK` holds is a matter of
  counting: the number of an exchange stays within the calls because each call
  leads to one exchange at most, which is carried by one task or message at a
  time (`OneCarrier`, `Spent`), and no message is newer than the last exchange
  begun (`Dated`). `AskNotForgotten` and `Concluded` speak of states in which all
  is done; `EInv` says what holds until then, as long as no exchange crossed
  another and no conversation was replaced: a key exchange that is not over has its next message under way
  (`Proceeds`), a question that was put is kept or on its way (`Remembered`), and
  so is the next message of an SMP, or its abort (`Proving`).
* AntiSpam: an entry is made once, by a call that is then over (`Fresh`), and only
  entries that were made decay (`Owned`). A score can be read by several calls
  before one stores it, so `NeverOvercharged` does not go by sums of what is
  stored: `CInv` bounds every score, every sum about to be stored and every
  decayed value by what the calls that have read it so far can charge (`Most`,
  `Spent`), which holds until a line is repeated.
* Bex: packets of any length, so the proofs go over positions. `FlattenSeq` is a
  recursive function whose instances cannot be taken out of the induction
  theorems of the library; `Least` and `SetInduction` are proved from the order of
  the naturals instead, by a least element of a set of numbers, and the lemmas on
  flattening from them. `ReadsBack` says that one submessage is read as it was
  written and exactly its own tokens are taken; `Rest` that what is left of the
  wire is the encoding of the submessages not decoded yet, as long as no table over
  the limit was met: the code leaves the entries of such a table to be read as
  submessages (`dog_bex.go:173`), and nothing is claimed of what follows it.
* CommandLine: the reference definition has no recursion, so each of its words
  (`FirstSpace`, `Quoted`, `Separators`, `Rank`, `Start`, `Text`, `Cut`) gets a lemma
  that says how it changes from a prefix of the line to the next longer one; `PInv`
  says that the parser's variables are its words for the prefix read so far.

Only model-checked: the liveness properties (KnownForGood, Enforced,
DisconnectReturns, ComesBack, PingAnswered, Forgiven and the fairness in
ImplementsConnection), which the provers do not reach.

## Not modelled

* hircine: its calls are the program's calls in the models; the rest turns IRC
  lines into them and events into IRC lines. Its clients share one database, which
  is listed as a hazard; it also uses connections that are nil (PRIVMSG before
  JOIN, `main.go:117`; a second JOIN during the first, `249`) and keeps that of a
  client gone without QUIT (`84`).
* The event table, upload and download (one HTTP request each), the file system
  under the database (a Store is atomic in the models; a file cut short by a death
  of the process is listed as a hazard), the two example programs.
* EscapeLocal and UnescapeLocal, which only their test calls; `packets.go` and the
  stanza templates, which are text; Kick and the composing messages, which only
  send.
* otr3 itself, DMDisabled, and a departure or reconnection that replaces a Member
  in the middle of a conversation.
* Smaller things met while modelling, each a single line that needs no model:
  `Ask` uses a nil conversation with DMDisabled (`dog_room.go:290`); the event of a
  private file has no Type (`dog_bex.go:385`); an error presence without an error element is a nil
  dereference (`xmpp.go:246`); a second Disconnect leaves its sender blocked
  (`dog_conn.go:529`).
* Data races that end the process (concurrent map access in `SortedNames`,
  `ModerationTables`, `On`) are listed as a hazard; the models take each access as
  atomic.

## Plan

Done, in order: Multiparty and its refinement of GroupChat; Room; Connection;
Moderation; Bex; CommandLine; AntiSpam; Otr; Session with Jid, composed with
Connection; the proofs about all of them.

What could follow: Hircine's clients on one database; Room composed with
Multiparty (Room's abstract Mp refined by Me); Moderation composed with
Connection (tables lost by a reconnection); Otr composed with Room (a Member
replaced during a conversation).
