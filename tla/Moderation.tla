----------------------------- MODULE Moderation -----------------------------
(***************************************************************************)
(* How a room enforces the tables a moderator sends (src/dog/dog_bex.go:   *)
(* SetModerationTable, IsBlocked): what a blocked nickname says is not     *)
(* read, and who is blocked while in the room is blacklisted, that is left *)
(* out of the recipients of our messages (Multiparty).                     *)
(*                                                                         *)
(* Every stanza has a goroutine of its own, and the tables have no lock:   *)
(* one action per critical section or per access to a shared table.        *)
(***************************************************************************)
EXTENDS Naturals, FiniteSets

CONSTANTS
    Nicks,       \* the other nicknames
    Keys,        \* identity keys
    Goroutines,  \* handlers that may run at once
    MaxStays,    \* how often each nickname may enter
    MaxTables,   \* how many tables the moderator sends
    None         \* no key, no goroutine

ASSUME ModerationAssumption ==
    None \notin Keys /\ MaxStays \in Nat /\ MaxTables \in Nat

VARIABLES
    key, stays, sent,  \* who is in the room under which key; bounds
    nicknames,   \* ModerationTables["nicknames"]: the nicknames it matches
    keys,        \* ModerationTables["keys"]
    buddies,     \* Mp.Buddies: the key trusted for a nickname, or None
    blacklist,   \* Mp.blacklist
    task,        \* what each goroutine still has to do
    raced        \* nicknames that were past IsBlocked when a table came

room   == <<key, stays, sent>>
tables == <<nicknames, keys>>
vars   == <<room, tables, buddies, blacklist, task, raced>>

(* What a goroutine is about to do *)

Tasks ==
    [do : {"check", "fingerprint", "receive"}, nick : Nicks, key : Keys] \union
    [do : {"compare"}, nick : Nicks, key : Keys, fp : Keys \union {None}] \union
    [do : {"destroy"}, nick : Nicks] \union
    [do : {"set"}, table : {"nicknames"}, entries : SUBSET Nicks] \union
    [do : {"set"}, table : {"keys"}, entries : SUBSET Keys] \union
    [do : {"list"}, entries : SUBSET Nicks] \union
    [do : {"keys"}, entries : SUBSET Keys] \union
    [do : {"match"}, key : Keys, todo : SUBSET Nicks, names : SUBSET Nicks,
     entries : SUBSET Keys] \union
    [do : {"blacklist"}, names : SUBSET Nicks, entries : SUBSET Keys]

ASSUME NoneAssumption == \A t \in Tasks : None # t

Present == {n \in Nicks : buddies[n] # None}

\* Past the first half of IsBlocked, about to trust a key.
Past == {"fingerprint", "compare", "receive"}

\* Goroutines there for n.
Admitted(n) ==
    {g \in Goroutines : task[g] # None /\ task[g].do \in Past /\ task[g].nick = n}

\* Whether a goroutine still has to blacklist n for the table of nicknames.
Enforcing(n) ==
    \E g \in Goroutines :
        task[g] # None /\ \/ task[g].do = "list" /\ n \in task[g].entries
                          \/ task[g].do = "blacklist" /\ n \in task[g].names

Init ==
    /\ key = [n \in Nicks |-> None] /\ stays = [n \in Nicks |-> 0] /\ sent = 0
    /\ nicknames = {} /\ keys = {}
    /\ buddies = [n \in Nicks |-> None] /\ blacklist = {}
    /\ task = [g \in Goroutines |-> None]
    /\ raced = {}

Spawn(t) == \E g \in Goroutines : task[g] = None /\ task' = [task EXCEPT ![g] = t]

Goto(g, next) == task' = [task EXCEPT ![g] = next]

\* The next step of the check of a key announcement t.
Checking(what, t) == [do |-> what, nick |-> t.nick, key |-> t.key]

Doing(g, what) == task[g] # None /\ task[g].do = what

-----------------------------------------------------------------------------
(* The room: people come, announce a key and leave; a table arrives *)

Enter(n, k) ==
    /\ key[n] = None /\ stays[n] < MaxStays
    /\ key' = [key EXCEPT ![n] = k]
    /\ stays' = [stays EXCEPT ![n] = @ + 1]
    /\ UNCHANGED <<sent, tables, buddies, blacklist, task, raced>>

AnnounceKey(n) ==
    /\ key[n] # None
    /\ Spawn([do |-> "check", nick |-> n, key |-> key[n]])
    /\ UNCHANGED <<room, tables, buddies, blacklist, raced>>

Leave(n) ==
    /\ key[n] # None
    /\ key' = [key EXCEPT ![n] = None]
    /\ Spawn([do |-> "destroy", nick |-> n])
    /\ UNCHANGED <<stays, sent, tables, buddies, blacklist, raced>>

\* A table of a moderator (IsMod) that got past IsBlocked itself.
SendTable ==
    /\ sent < MaxTables /\ sent' = sent + 1
    /\ \/ \E ns \in SUBSET Nicks : Spawn([do |-> "set", table |-> "nicknames", entries |-> ns])
       \/ \E ks \in SUBSET Keys : Spawn([do |-> "set", table |-> "keys", entries |-> ks])
    /\ UNCHANGED <<key, stays, tables, buddies, blacklist, raced>>

-----------------------------------------------------------------------------
(* processMessage of a key announcement *)

\* A definition named X_Y is X with one plausible mistake.  It is used in no
\* specification; the property it breaks is named beside it.

\* Breaks MutedUnlessRaced: only who is known already is looked up.
CheckNickname_KnownOnly(g) ==
    /\ Doing(g, "check")
    /\ Goto(g, IF task[g].nick \in nicknames \intersect Present THEN None
               ELSE Checking("fingerprint", task[g]))
    /\ UNCHANGED <<room, tables, buddies, blacklist, raced>>

\* IsBlocked, first half: the nickname.
CheckNickname(g) ==
    /\ Doing(g, "check")
    /\ Goto(g, IF task[g].nick \in nicknames THEN None
               ELSE Checking("fingerprint", task[g]))
    /\ UNCHANGED <<room, tables, buddies, blacklist, raced>>

\* IsBlocked, second half: the fingerprint, empty for an unknown nickname ...
GroupFingerprint(g) ==
    /\ Doing(g, "fingerprint")
    /\ Goto(g, [do |-> "compare", nick |-> task[g].nick, key |-> task[g].key,
                fp |-> buddies[task[g].nick]])
    /\ UNCHANGED <<room, tables, buddies, blacklist, raced>>

\* ... which is then looked for in the table.
CheckKey(g) ==
    /\ Doing(g, "compare")
    /\ Goto(g, IF task[g].fp \in keys THEN None ELSE Checking("receive", task[g]))
    /\ UNCHANGED <<room, tables, buddies, blacklist, raced>>

\* Mp.ReceiveMessage: a key is trusted for a nickname that has none.
ReceiveMessage(g) ==
    /\ Doing(g, "receive")
    /\ buddies' = IF buddies[task[g].nick] = None
                  THEN [buddies EXCEPT ![task[g].nick] = task[g].key]
                  ELSE buddies
    /\ Goto(g, None)
    /\ UNCHANGED <<room, tables, blacklist, raced>>

\* The departure goroutine; the blacklist is left alone.
DestroyUser(g) ==
    /\ Doing(g, "destroy")
    /\ buddies' = [buddies EXCEPT ![task[g].nick] = None]
    /\ Goto(g, None)
    /\ UNCHANGED <<room, tables, blacklist, raced>>

-----------------------------------------------------------------------------
(* SetModerationTable *)

StoreTable(g) ==
    /\ Doing(g, "set")
    /\ LET es == task[g].entries
       IN  \/ /\ task[g].table = "nicknames"
              /\ nicknames' = es
              /\ raced' = raced \union {n \in es : Admitted(n) # {}}
              /\ Goto(g, [do |-> "list", entries |-> es])
              /\ UNCHANGED keys
           \/ /\ task[g].table = "keys"
              /\ keys' = es
              /\ Goto(g, [do |-> "keys", entries |-> es])
              /\ UNCHANGED <<nicknames, raced>>
    /\ UNCHANGED <<room, buddies, blacklist>>

\* "nicknames": SortedNames, and the names that match.
ListNames(g) ==
    /\ Doing(g, "list")
    /\ Goto(g, [do |-> "blacklist", names |-> Present \intersect task[g].entries,
                entries |-> {}])
    /\ UNCHANGED <<room, tables, buddies, blacklist, raced>>

\* "keys": NamesByFingerprint of the next entry takes the names ...
NamesByFingerprint(g) ==
    /\ Doing(g, "keys")
    /\ \/ /\ task[g].entries = {}
          /\ Goto(g, None)
       \/ \E v \in task[g].entries :
            Goto(g, [do |-> "match", key |-> v, todo |-> Present, names |-> {},
                     entries |-> task[g].entries \ {v}])
    /\ UNCHANGED <<room, tables, buddies, blacklist, raced>>

\* ... and compares their fingerprints one by one, under the lock each time.
MatchFingerprint(g) ==
    /\ Doing(g, "match")
    /\ \/ /\ task[g].todo = {}
          /\ Goto(g, [do |-> "blacklist", names |-> task[g].names,
                      entries |-> task[g].entries])
       \/ \E n \in task[g].todo :
            Goto(g, [do |-> "match", key |-> task[g].key, todo |-> task[g].todo \ {n},
                     names |-> task[g].names \union
                               (IF buddies[n] = task[g].key THEN {n} ELSE {}),
                     entries |-> task[g].entries])
    /\ UNCHANGED <<room, tables, buddies, blacklist, raced>>

\* Breaks Enforced: the first match ends the loop.
BlacklistUser_FirstOnly(g) ==
    /\ Doing(g, "blacklist")
    /\ \/ /\ task[g].names = {}
          /\ Goto(g, [do |-> "keys", entries |-> task[g].entries])
          /\ UNCHANGED blacklist
       \/ \E n \in task[g].names :
            /\ blacklist' = blacklist \union {n}
            /\ Goto(g, [do |-> "blacklist", names |-> {}, entries |-> task[g].entries])
    /\ UNCHANGED <<room, tables, buddies, raced>>

\* Breaks TypeOK: the key is blacklisted in place of its nickname.
BlacklistUser_Key(g) ==
    /\ Doing(g, "blacklist")
    /\ \/ /\ task[g].names = {}
          /\ Goto(g, [do |-> "keys", entries |-> task[g].entries])
          /\ UNCHANGED blacklist
       \/ \E n \in task[g].names :
            /\ blacklist' = blacklist \union {buddies[n]}
            /\ Goto(g, [do |-> "blacklist", names |-> task[g].names \ {n},
                        entries |-> task[g].entries])
    /\ UNCHANGED <<room, tables, buddies, raced>>

\* BlacklistUser, for one name at a time; then the next key, if any.
BlacklistUser(g) ==
    /\ Doing(g, "blacklist")
    /\ \/ /\ task[g].names = {}
          /\ Goto(g, [do |-> "keys", entries |-> task[g].entries])
          /\ UNCHANGED blacklist
       \/ \E n \in task[g].names :
            /\ blacklist' = blacklist \union {n}
            /\ Goto(g, [do |-> "blacklist", names |-> task[g].names \ {n},
                        entries |-> task[g].entries])
    /\ UNCHANGED <<room, tables, buddies, raced>>

Run(g) ==
    \/ CheckNickname(g) \/ GroupFingerprint(g) \/ CheckKey(g)
    \/ ReceiveMessage(g) \/ DestroyUser(g)
    \/ StoreTable(g) \/ ListNames(g) \/ NamesByFingerprint(g) \/ MatchFingerprint(g)
    \/ BlacklistUser(g)

Next ==
    \/ \E n \in Nicks : (\E k \in Keys : Enter(n, k)) \/ AnnounceKey(n) \/ Leave(n)
    \/ SendTable
    \/ \E g \in Goroutines : Run(g)

Spec == Init /\ [][Next]_vars

\* The Go scheduler runs every goroutine that can proceed.
LiveSpec == Spec /\ \A g \in Goroutines : WF_vars(Run(g))

-----------------------------------------------------------------------------
(* The types of the room's tables and of the goroutines' work.              *)
TypeOK ==
    /\ key \in [Nicks -> Keys \union {None}] /\ stays \in [Nicks -> 0..MaxStays]
    /\ sent \in 0..MaxTables
    /\ nicknames \subseteq Nicks /\ keys \subseteq Keys
    /\ buddies \in [Nicks -> Keys \union {None}]
    /\ blacklist \subseteq Nicks /\ raced \subseteq Nicks
    /\ task \in [Goroutines -> Tasks \union {None}]

(* A nickname the current table matches receives none of our messages: if   *)
(* it is known at all it is blacklisted or about to be.  The one way around *)
(* it is a key announcement that was already past IsBlocked when the table  *)
(* was stored (dog_conn.go:285-289 against dog_bex.go:338-353).             *)
MutedUnlessRaced ==
    \A n \in (nicknames \intersect Present) \ raced :
        n \in blacklist \/ Enforcing(n)

(* A table of nicknames takes effect: who stays known while matched by it   *)
(* is blacklisted in the end (dog_bex.go:347-354).                          *)
Enforced ==
    \A n \in Nicks :
        <>[](n \in (nicknames \intersect Present) \ raced) => <>(n \in blacklist)
=============================================================================
