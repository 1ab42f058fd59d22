----------------------------- MODULE Multiparty -----------------------------
(***************************************************************************)
(* The multiparty group protocol (src/multiparty/multiparty.go): every     *)
(* participant of one chat room runs a Me, which learns the public keys of *)
(* its buddies, encrypts each group message once per buddy and accepts the *)
(* messages of others after an HMAC, an IV and a tag check.                *)
(*                                                                         *)
(* `net' is the set of stanzas the conference server ever relayed.  A      *)
(* client handles every stanza in a goroutine of its own (dog_conn.go:180) *)
(* and a server replays history to whoever joins, so any stanza may be     *)
(* handled at any time, any number of times or never.                      *)
(*                                                                         *)
(* The cryptography is symbolic: a shared secret is the pair of identity   *)
(* keys it is derived from, a ciphertext carries its key, IV and plaintext,*)
(* and a fresh random IV is named by the message and recipient it is for.  *)
(***************************************************************************)
EXTENDS Naturals, FiniteSets

CONSTANTS
    Names,       \* nicknames in the room
    Keys,        \* identity keys (a public key with its secret half)
    KeyOwner,    \* the nickname each key is generated under
    Msgs,        \* plaintexts; each is sent at most once (64 random bytes)
    BigMsgs,     \* those longer than MaximumMessageSize once encrypted
    Moderated,   \* nicknames a caller may blacklist
    Targets,     \* nicknames, or Everyone, a caller requests keys from
    Everyone,    \* the empty target of a public_key_request
    NoBuddy,     \* a nickname with no entry in Buddies
    NoSecret,    \* a nil MpSecretKey
    Idle,        \* no sendMessage in progress
    Garbage      \* what a wrong key or IV decrypts to

ASSUME KeyAssumption == KeyOwner \in [Keys -> Names] /\ Moderated \subseteq Names
ASSUME MsgAssumption == BigMsgs \subseteq Msgs /\ Garbage \notin Msgs
ASSUME NilAssumption ==
    /\ Everyone \notin Names /\ Targets \subseteq Names \union {Everyone}
    /\ \A S \in SUBSET Keys : NoSecret # S
    /\ \A e \in BOOLEAN, k \in Keys, S \in (SUBSET Keys) \union {NoSecret} :
         NoBuddy # [CryptoEnabled |-> e, PublicKey |-> k, MpSecretKey |-> S]
    /\ \A m \in Msgs, S \in SUBSET Names : Idle # [msg |-> m, to |-> S]

VARIABLES
    publicKey,   \* Me.PublicKey (and the SecretKey it determines)
    buddies,     \* Me.Buddies
    usedIVs,     \* Me.UsedIVs
    blacklist,   \* Me.blacklist
    sending,     \* the sendMessage holding buddyLock, between its two halves
    received,    \* how often each plaintext was returned in this session
    net          \* every stanza relayed so far

vars == <<publicKey, buddies, usedIVs, blacklist, sending, received, net>>

-----------------------------------------------------------------------------
(* Keys, ciphertexts, HMACs and tags *)

Secrets == SUBSET Keys

\* genSharedSecret: both ends of a Diffie-Hellman exchange get the same value.
Secret(k1, k2) == {k1, k2}

NewIV(m, v) == <<m, v>>

encryptAES(m, key, iv) == [key |-> key, iv |-> iv, plain |-> m]

decryptAES(c, key, iv) == IF c.key = key /\ c.iv = iv THEN c.plain ELSE Garbage

HMAC(over, key) == [over |-> over, key |-> key]

MessageTag(m, hmacs) == [plain |-> m, hmacs |-> hmacs]

HasKey(p, n) == buddies[p][n] # NoBuddy /\ buddies[p][n].CryptoEnabled

(* Stanzas *)

PublicKeyStanza(p) ==
    [type |-> "public_key", from |-> p, key |-> publicKey[p]]

RequestStanza(p, target) ==
    [type |-> "public_key_request", from |-> p, target |-> target]

\* The bytes an HMAC covers: the ciphertext and IV of the recipients in S.
HmacInput(text, S) == {<<text[v].Message, text[v].IV>> : v \in S}

\* One TextAnswer per recipient, first without its HMAC, then with it.
\* The field `as' is not sent: it records the key the sender used.
MessageStanza(p, m, to) ==
    LET key(v)  == buddies[p][v].MpSecretKey
        body    == [v \in to |->
                     [Message |-> encryptAES(m, key(v), NewIV(m, v)),
                      IV      |-> NewIV(m, v)]]
        hmac(v) == HMAC(HmacInput(body, to), key(v))
    IN  [type |-> "message", from |-> p, as |-> publicKey[p],
         Text |-> [v \in to |-> [Message |-> body[v].Message,
                                 IV      |-> body[v].IV,
                                 HMAC    |-> hmac(v)]],
         Tag  |-> MessageTag(m, {hmac(v) : v \in to})]

-----------------------------------------------------------------------------
Init ==
    /\ publicKey \in {f \in [Names -> Keys] : \A p \in Names : KeyOwner[f[p]] = p}
    /\ buddies   = [p \in Names |-> [n \in Names |-> NoBuddy]]
    /\ usedIVs   = [p \in Names |-> {}]
    /\ blacklist = [p \in Names |-> {}]
    /\ sending   = [p \in Names |-> Idle]
    /\ received  = [p \in Names |-> [m \in Msgs |-> 0]]
    /\ net       = {}

\* NewMe: p (re)joins with a fresh Me under profile key k.
NewMe(p, k) ==
    /\ KeyOwner[k] = p
    /\ publicKey' = [publicKey EXCEPT ![p] = k]
    /\ buddies'   = [buddies EXCEPT ![p] = [n \in Names |-> NoBuddy]]
    /\ usedIVs'   = [usedIVs EXCEPT ![p] = {}]
    /\ blacklist' = [blacklist EXCEPT ![p] = {}]
    /\ sending'   = [sending EXCEPT ![p] = Idle]
    /\ received'  = [received EXCEPT ![p] = [m \in Msgs |-> 0]]
    /\ UNCHANGED net

\* SendPublicKey takes no lock and ignores the nickname it is given.
SendPublicKey(p) ==
    /\ net' = net \union {PublicKeyStanza(p)}
    /\ UNCHANGED <<publicKey, buddies, usedIVs, blacklist, sending, received>>

RequestPublicKey(p, target) ==
    /\ net' = net \union {RequestStanza(p, target)}
    /\ UNCHANGED <<publicKey, buddies, usedIVs, blacklist, sending, received>>

\* A definition named X_Y is X with one plausible mistake.  It is used in no
\* specification; the property it breaks is named beside it.

\* Breaks TypeOK: the nickname is kept where its key belongs.
ReceivePublicKey_KeepsName(p, s) ==
    LET n == s.from
    IN  /\ s.type = "public_key" /\ n # p
        /\ sending[p] = Idle
        /\ ~HasKey(p, n)
        /\ buddies' = [buddies EXCEPT ![p][n] =
             [CryptoEnabled |-> TRUE,
              PublicKey     |-> n,
              MpSecretKey   |-> Secret(publicKey[p], s.key)]]
        /\ UNCHANGED <<publicKey, usedIVs, blacklist, sending, received, net>>

\* Breaks BuddyKeys: a known nickname may change its key; the secret is
\* derived only when it is nil.
ReceivePublicKey_StaleSecret(p, s) ==
    LET n   == s.from
        old == buddies[p][n]
    IN  /\ s.type = "public_key" /\ n # p
        /\ sending[p] = Idle
        /\ buddies' = [buddies EXCEPT ![p][n] =
             [CryptoEnabled |-> TRUE,
              PublicKey     |-> s.key,
              MpSecretKey   |-> IF old = NoBuddy THEN Secret(publicKey[p], s.key)
                                ELSE old.MpSecretKey]]
        /\ UNCHANGED <<publicKey, usedIVs, blacklist, sending, received, net>>

\* Breaks KeyPinned: the latest key wins, with its own secret.
ReceivePublicKey_LatestKey(p, s) ==
    LET n == s.from
    IN  /\ s.type = "public_key" /\ n # p
        /\ sending[p] = Idle
        /\ buddies' = [buddies EXCEPT ![p][n] =
             [CryptoEnabled |-> TRUE,
              PublicKey     |-> s.key,
              MpSecretKey   |-> Secret(publicKey[p], s.key)]]
        /\ UNCHANGED <<publicKey, usedIVs, blacklist, sending, received, net>>

\* receiveMessage, case "public_key": a key for a nickname that has none yet.
\* For a buddy with a key the same key is ignored and another one refused.
ReceivePublicKey(p, s) ==
    LET n   == s.from
        old == buddies[p][n]
    IN  /\ s.type = "public_key" /\ n # p
        /\ sending[p] = Idle
        /\ ~HasKey(p, n)
        /\ buddies' = [buddies EXCEPT ![p][n] =
             [CryptoEnabled |-> TRUE,
              PublicKey     |-> s.key,
              MpSecretKey   |-> IF old = NoBuddy \/ old.MpSecretKey = NoSecret
                                THEN Secret(publicKey[p], s.key)
                                ELSE old.MpSecretKey]]
        /\ UNCHANGED <<publicKey, usedIVs, blacklist, sending, received, net>>

\* receiveMessage, case "public_key_request".
ReceiveRequest(p, s) ==
    /\ s.type = "public_key_request" /\ s.from # p
    /\ sending[p] = Idle
    /\ s.target \in {p, Everyone}
    /\ SendPublicKey(p)

\* sendMessage up to the release of keyLock: the recipients are chosen.
ChooseRecipients(p, m) ==
    /\ sending[p] = Idle
    /\ \A s \in net : s.type = "message" => s.Tag.plain # m
    /\ \A q \in Names : sending[q] # Idle => sending[q].msg # m
    /\ sending' = [sending EXCEPT ![p] =
         [msg |-> m,
          to  |-> {n \in Names \ blacklist[p] : HasKey(p, n)}]]
    /\ UNCHANGED <<publicKey, buddies, usedIVs, blacklist, received, net>>

\* The rest of sendMessage.  buddyLock is still held, keyLock no longer is.
\* The code skips a recipient without a secret when it encrypts and then
\* dereferences its missing TextAnswer; RecipientsKnown says there is none.
EncryptAndSend(p) ==
    /\ sending[p] # Idle
    /\ LET m  == sending[p].msg
           to == sending[p].to
       IN  /\ usedIVs' = [usedIVs EXCEPT ![p] = @ \union {NewIV(m, v) : v \in to}]
           /\ net' = net \union {MessageStanza(p, m, to)}
    /\ sending' = [sending EXCEPT ![p] = Idle]
    /\ UNCHANGED <<publicKey, buddies, blacklist, received>>

-----------------------------------------------------------------------------
(* The checks of receiveMessage, case "message", in the code's order *)

\* Buddies the stanza leaves out, and the HMAC input without them.  An entry
\* with an empty field counts as missing too; senders running this code make
\* none.
MissingRecipients(p, s) ==
    {r \in Names : buddies[p][r] # NoBuddy /\ r \notin DOMAIN s.Text}

\* Breaks HonestAccepted: recipients who are no buddies are left out as well.
BuddyHmacInput_BuddiesOnly(p, s) ==
    HmacInput(s.Text, {r \in DOMAIN s.Text : r = p \/ buddies[p][r] # NoBuddy})

BuddyHmacInput(p, s) ==
    HmacInput(s.Text, DOMAIN s.Text \ MissingRecipients(p, s))

Authentic(p, s) ==
    /\ buddies[p][s.from] # NoBuddy
    /\ s.Text[p].HMAC =
         HMAC(BuddyHmacInput(p, s), buddies[p][s.from].MpSecretKey)

Plaintext(p, s) ==
    decryptAES(s.Text[p].Message, buddies[p][s.from].MpSecretKey, s.Text[p].IV)

TagMatches(p, s) ==
    s.Tag = MessageTag(Plaintext(p, s), {s.Text[v].HMAC : v \in DOMAIN s.Text})

FitsMaximum(p, s) == s.Text[p].Message.plain \notin BigMsgs

\* Breaks DeliveredOnce and ImplementsGroupChat: IVs are not compared.
Accepts_Replayed(p, s) ==
    /\ p \in DOMAIN s.Text
    /\ FitsMaximum(p, s)
    /\ Authentic(p, s)

Accepts(p, s) ==
    /\ p \in DOMAIN s.Text
    /\ FitsMaximum(p, s)
    /\ Authentic(p, s)
    /\ s.Text[p].IV \notin usedIVs[p]

\* ReceiveMessage of a group message that passes the checks up to the IV: the
\* IV is spent, and the plaintext is returned if the tag matches too.  Every
\* earlier refusal returns an error and leaves the state alone.
ReceiveMessage(p, s) ==
    /\ s.type = "message" /\ s.from # p
    /\ sending[p] = Idle
    /\ Accepts(p, s)
    /\ usedIVs' = [usedIVs EXCEPT ![p] = @ \union {s.Text[p].IV}]
    /\ received' = IF TagMatches(p, s)
                   THEN [received EXCEPT ![p][Plaintext(p, s)] = @ + 1]
                   ELSE received
    /\ UNCHANGED <<publicKey, buddies, blacklist, sending, net>>

\* Breaks RecipientsKnown: the entry is removed without buddyLock.
DestroyUser_Unlocked(p, n) ==
    /\ buddies' = [buddies EXCEPT ![p][n] = NoBuddy]
    /\ UNCHANGED <<publicKey, usedIVs, blacklist, sending, received, net>>

\* DestroyUser, called when the user leaves the room; it waits for buddyLock.
DestroyUser(p, n) ==
    /\ sending[p] = Idle
    /\ buddies' = [buddies EXCEPT ![p][n] = NoBuddy]
    /\ UNCHANGED <<publicKey, usedIVs, blacklist, sending, received, net>>

\* BlacklistUser, UnblacklistUser and ClearBlacklist take keyLock only.
BlacklistUser(p, n) ==
    /\ blacklist' = [blacklist EXCEPT ![p] = @ \union {n}]
    /\ UNCHANGED <<publicKey, buddies, usedIVs, sending, received, net>>

UnblacklistUser(p, n) ==
    /\ blacklist' = [blacklist EXCEPT ![p] = @ \ {n}]
    /\ UNCHANGED <<publicKey, buddies, usedIVs, sending, received, net>>

ClearBlacklist(p) ==
    /\ blacklist' = [blacklist EXCEPT ![p] = {}]
    /\ UNCHANGED <<publicKey, buddies, usedIVs, sending, received, net>>

-----------------------------------------------------------------------------
Handle(p) ==
    \E s \in net : ReceivePublicKey(p, s) \/ ReceiveRequest(p, s) \/ ReceiveMessage(p, s)

Call(p) ==
    \/ \E k \in Keys : NewMe(p, k)
    \/ SendPublicKey(p)
    \/ \E t \in Targets : RequestPublicKey(p, t)
    \/ \E m \in Msgs : ChooseRecipients(p, m)
    \/ EncryptAndSend(p)
    \/ \E n \in Names : DestroyUser(p, n)
    \/ \E n \in Moderated : BlacklistUser(p, n) \/ UnblacklistUser(p, n)
    \/ ClearBlacklist(p)

Next == \E p \in Names : Handle(p) \/ Call(p)

Spec == Init /\ [][Next]_vars

-----------------------------------------------------------------------------
Buddy == [CryptoEnabled : BOOLEAN, PublicKey : Keys,
          MpSecretKey : Secrets \union {NoSecret}]

IVs == Msgs \X Names

Ciphertext == [key : Secrets, iv : IVs, plain : Msgs]

HMACs == [over : SUBSET (Ciphertext \X IVs), key : Secrets]

KeyStanzas == [type : {"public_key"}, from : Names, key : Keys]

RequestStanzas ==
    [type : {"public_key_request"}, from : Names, target : Targets]

TextAnswers == [Message : Ciphertext, IV : IVs, HMAC : HMACs]

\* A group message: DOMAIN Text is any set of nicknames.
IsMessageStanza(s) ==
    /\ s = [type |-> "message", from |-> s.from, as |-> s.as,
            Text |-> s.Text, Tag |-> s.Tag]
    /\ s.from \in Names /\ s.as \in Keys
    /\ DOMAIN s.Text \subseteq Names
    /\ s.Text \in [DOMAIN s.Text -> TextAnswers]
    /\ s.Tag = [plain |-> s.Tag.plain, hmacs |-> s.Tag.hmacs]
    /\ s.Tag.plain \in Msgs /\ s.Tag.hmacs \subseteq HMACs

IsStanza(s) == s \in KeyStanzas \/ s \in RequestStanzas \/ IsMessageStanza(s)

(* The types of everything a Me and the room hold: Me (multiparty.go:55-69). *)
TypeOK ==
    /\ publicKey \in [Names -> Keys]
    /\ buddies \in [Names -> [Names -> Buddy \union {NoBuddy}]]
    /\ usedIVs \in [Names -> SUBSET IVs]
    /\ blacklist \in [Names -> SUBSET Names]
    /\ sending \in [Names -> [msg : Msgs, to : SUBSET Names] \union {Idle}]
    /\ received \in [Names -> [Msgs -> Nat]]
    /\ \A s \in net : IsStanza(s)

(* Every entry of Buddies carries a public key and exactly the secret       *)
(* shared with that key; a participant is never a buddy of itself.  The     *)
(* three fields are written separately and the secret only when it is nil   *)
(* (multiparty.go:254-263), and a stale secret would make every message to  *)
(* or from that buddy fail the HMAC check for good.                         *)
BuddyKeys ==
    \A p, n \in Names : buddies[p][n] # NoBuddy =>
        /\ n # p
        /\ buddies[p][n].CryptoEnabled
        /\ buddies[p][n].MpSecretKey = Secret(publicKey[p], buddies[p][n].PublicKey)

(* Between the choice of the recipients and their encryption no recipient   *)
(* loses its entry or its secret, so the second loop of sendMessage never   *)
(* dereferences a TextAnswer the first one skipped (multiparty.go:164,189). *)
RecipientsKnown ==
    \A p \in Names : sending[p] # Idle =>
        \A v \in sending[p].to :
            buddies[p][v] # NoBuddy /\ buddies[p][v].MpSecretKey # NoSecret

(* A session spends an IV addressed to it exactly when it returns that      *)
(* message to its caller, and returns it once: replayed history never shows *)
(* up twice, and no IV is burned by a message that is then refused          *)
(* (the IV is spent at multiparty.go:337, before the tag check at 351).     *)
DeliveredOnce ==
    \A p \in Names, m \in Msgs :
        received[p][m] = IF NewIV(m, p) \in usedIVs[p] THEN 1 ELSE 0

(* A message encrypted by and for the keys both ends know is accepted on    *)
(* its first arrival, and its tag then matches, whatever other buddies      *)
(* either end has: the two sides compute the HMAC over recipient lists      *)
(* taken from different tables (multiparty.go:148-185 and 290-325).         *)
HonestAccepted ==
    \A p \in Names, s \in net :
        (/\ s.type = "message" /\ s.from # p
         /\ p \in DOMAIN s.Text
         /\ buddies[p][s.from] # NoBuddy
         /\ buddies[p][s.from].PublicKey = s.as
         /\ s.Text[p].Message.key = Secret(s.as, publicKey[p])
         /\ s.Text[p].IV \notin usedIVs[p]
         /\ s.Text[p].Message.plain \notin BigMsgs)
        => Accepts(p, s) /\ TagMatches(p, s)

(* A nickname keeps the first key learned for it until it leaves or the     *)
(* session ends: no stanza, in any order or replayed, swaps the key of a    *)
(* present buddy ("invalid key change", multiparty.go:240-248).             *)
KeyPinned ==
    [][\A p, n \in Names :
         buddies[p][n] # NoBuddy /\ buddies'[p][n] # NoBuddy
         => buddies'[p][n].PublicKey = buddies[p][n].PublicKey]_vars
=============================================================================
