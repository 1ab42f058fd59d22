------------------------- MODULE Multiparty_proofs --------------------------
(***************************************************************************)
(* Proofs about Multiparty, for any set of nicknames, keys and messages.   *)
(* The inductive invariant adds to the stated ones what every group        *)
(* message on the wire looks like (Sealed).                                *)
(*                                                                         *)
(* The last part proves that Multiparty implements GroupChat.  A step needs *)
(* besides that keys travel under the nickname they were generated for     *)
(* (Owned), and that no two sends carry the same message (Unsent).         *)
(***************************************************************************)
EXTENDS MultipartyChat, TLAPS

\* A group message as sendMessage builds it: one IV per recipient, each text
\* under the key of its HMAC, each HMAC over all texts, the tag over all HMACs.
SealedStanza(s) ==
    /\ \A v \in DOMAIN s.Text :
         /\ s.Text[v].IV = NewIV(s.Tag.plain, v)
         /\ s.Text[v].Message =
              encryptAES(s.Tag.plain, s.Text[v].HMAC.key, s.Text[v].IV)
         /\ s.Text[v].HMAC.over = HmacInput(s.Text, DOMAIN s.Text)
    /\ s.Tag.hmacs = {s.Text[v].HMAC : v \in DOMAIN s.Text}

Sealed == \A s \in net : s.type = "message" => SealedStanza(s)

IInv == TypeOK /\ BuddyKeys /\ RecipientsKnown /\ Sealed /\ DeliveredOnce

-----------------------------------------------------------------------------
LEMMA SecretSymmetric ==
    ASSUME NEW k1, NEW k2
    PROVE  Secret(k1, k2) = Secret(k2, k1)
BY DEF Secret

LEMMA BuddyNotNil == NoBuddy \notin Buddy
BY NilAssumption DEF Buddy, Secrets

LEMMA SendNotIdle == Idle \notin [msg : Msgs, to : SUBSET Names]
BY NilAssumption

\* The stanza EncryptAndSend puts on the wire is well typed and sealed.
LEMMA StanzaSealed ==
    ASSUME TypeOK, RecipientsKnown, NEW p \in Names, sending[p] # Idle
    PROVE  LET s == MessageStanza(p, sending[p].msg, sending[p].to)
           IN  IsMessageStanza(s) /\ SealedStanza(s) /\ s.type = "message"
<1> DEFINE m  == sending[p].msg
           to == sending[p].to
           s  == MessageStanza(p, m, to)
           key(v) == buddies[p][v].MpSecretKey
           body == [v \in to |-> [Message |-> encryptAES(m, key(v), NewIV(m, v)),
                                  IV      |-> NewIV(m, v)]]
           over == HmacInput(body, to)
<1>1. m \in Msgs /\ to \in SUBSET Names /\ publicKey[p] \in Keys
  BY DEF TypeOK
<1>2. \A v \in to : key(v) \in Secrets
  <2> TAKE v \in to
  <2>1. buddies[p][v] # NoBuddy /\ buddies[p][v].MpSecretKey # NoSecret
    BY DEF RecipientsKnown
  <2>2. buddies[p][v] \in Buddy
    BY <1>1, <2>1 DEF TypeOK
  <2> QED BY <2>1, <2>2 DEF Buddy
<1>3. s = [type |-> "message", from |-> p, as |-> publicKey[p],
           Text |-> [v \in to |-> [Message |-> body[v].Message, IV |-> body[v].IV,
                                   HMAC |-> HMAC(over, key(v))]],
           Tag |-> MessageTag(m, {HMAC(over, key(v)) : v \in to})]
  BY DEF MessageStanza
<1> DEFINE text == [v \in to |-> [Message |-> encryptAES(m, key(v), NewIV(m, v)),
                                  IV      |-> NewIV(m, v),
                                  HMAC    |-> HMAC(over, key(v))]]
<1>4. s.Text = text /\ DOMAIN s.Text = to
  BY <1>3
<1>5. over = HmacInput(text, to)
  BY DEF HmacInput
<1>6. \A v \in to : encryptAES(m, key(v), NewIV(m, v)) \in Ciphertext /\ NewIV(m, v) \in IVs
  BY <1>1, <1>2 DEF encryptAES, NewIV, Ciphertext, IVs
<1>7. over \in SUBSET (Ciphertext \X IVs)
  <2>1. over = {<<text[v].Message, text[v].IV>> : v \in to}
    BY <1>5 DEF HmacInput
  <2>2. over = {<<encryptAES(m, key(v), NewIV(m, v)), NewIV(m, v)>> : v \in to}
    BY <2>1 DEF text
  <2> HIDE DEF over
  <2> QED BY <1>6, <2>2
<1>8. \A v \in to : HMAC(over, key(v)) \in HMACs
  BY <1>2, <1>7 DEF HMAC, HMACs
<1>9. text \in [to -> TextAnswers]
  BY <1>6, <1>8 DEF TextAnswers
<1>10. s.Tag = [plain |-> m, hmacs |-> {HMAC(over, key(v)) : v \in to}]
  BY <1>3 DEF MessageTag
<1>11. s.type = "message" /\ s.from = p /\ s.as = publicKey[p]
  BY <1>3
<1>12. s = [type |-> "message", from |-> s.from, as |-> s.as,
            Text |-> s.Text, Tag |-> s.Tag]
  BY <1>3
<1> HIDE DEF s, text, over
<1>13. IsMessageStanza(s)
  <2>1. s.Tag = [plain |-> s.Tag.plain, hmacs |-> s.Tag.hmacs]
    BY <1>10
  <2>2. s.Tag.plain \in Msgs /\ s.Tag.hmacs \subseteq HMACs
    BY <1>1, <1>8, <1>10
  <2> QED BY <1>1, <1>4, <1>9, <1>11, <1>12, <2>1, <2>2 DEF IsMessageStanza
<1>14. SealedStanza(s)
  <2>1. ASSUME NEW v \in to
        PROVE  /\ s.Text[v].IV = NewIV(s.Tag.plain, v)
               /\ s.Text[v].Message =
                    encryptAES(s.Tag.plain, s.Text[v].HMAC.key, s.Text[v].IV)
               /\ s.Text[v].HMAC.over = HmacInput(s.Text, DOMAIN s.Text)
               /\ s.Text[v].HMAC = HMAC(over, key(v))
    <3>1. s.Text[v] = [Message |-> encryptAES(m, key(v), NewIV(m, v)),
                       IV      |-> NewIV(m, v),
                       HMAC    |-> HMAC(over, key(v))]
      BY <1>4 DEF text
    <3>2. s.Text[v].HMAC = [over |-> over, key |-> key(v)]
      BY <3>1 DEF HMAC
    <3>3. over = HmacInput(s.Text, DOMAIN s.Text)
      BY <1>4, <1>5
    <3> QED BY <1>10, <3>1, <3>2, <3>3
  <2>2. s.Tag.hmacs = {s.Text[v].HMAC : v \in DOMAIN s.Text}
    BY <1>4, <1>10, <2>1
  <2> QED BY <1>4, <2>1, <2>2 DEF SealedStanza
<1> QED BY <1>11, <1>13, <1>14 DEF s

\* A sealed message that authenticates under the receiver's secret decrypts
\* to the plaintext of its tag, and the tag matches.
LEMMA AuthenticDecrypts ==
    ASSUME TypeOK, Sealed, NEW p \in Names, NEW s \in net,
           s.type = "message", p \in DOMAIN s.Text, Authentic(p, s)
    PROVE  /\ Plaintext(p, s) = s.Tag.plain
           /\ s.Tag.plain \in Msgs
           /\ TagMatches(p, s)
           /\ s.Text[p].IV = NewIV(s.Tag.plain, p)
<1>1. SealedStanza(s)
  BY DEF Sealed
<1>2. IsMessageStanza(s)
  BY DEF TypeOK, IsStanza, KeyStanzas, RequestStanzas
<1>3. s.Text[p].HMAC.key = buddies[p][s.from].MpSecretKey
  BY DEF Authentic, HMAC
<1>4. Plaintext(p, s) = s.Tag.plain
  <2>1. s.Text[p].Message = [key |-> s.Text[p].HMAC.key, iv |-> s.Text[p].IV,
                             plain |-> s.Tag.plain]
    BY <1>1 DEF SealedStanza, encryptAES
  <2> QED BY <1>3, <2>1 DEF Plaintext, decryptAES
<1>5. s.Tag = MessageTag(s.Tag.plain, s.Tag.hmacs)
  BY <1>2 DEF IsMessageStanza, MessageTag
<1>6. TagMatches(p, s)
  BY <1>1, <1>4, <1>5 DEF TagMatches, SealedStanza
<1> QED BY <1>1, <1>2, <1>4, <1>6 DEF SealedStanza, IsMessageStanza

-----------------------------------------------------------------------------
LEMMA InitIInv == Init => IInv
<1> SUFFICES ASSUME Init PROVE IInv
  OBVIOUS
<1>1. TypeOK
  BY DEF Init, TypeOK
<1>2. BuddyKeys /\ RecipientsKnown
  BY DEF Init, BuddyKeys, RecipientsKnown
<1>3. Sealed /\ DeliveredOnce
  BY DEF Init, Sealed, DeliveredOnce
<1> QED BY <1>1, <1>2, <1>3 DEF IInv

\* A step that only adds key and request stanzas keeps the invariant.
LEMMA KeyStanzaStep ==
    ASSUME IInv, NEW s \in KeyStanzas \union RequestStanzas,
           net' = net \union {s},
           UNCHANGED <<publicKey, buddies, usedIVs, blacklist, sending, received>>
    PROVE  IInv'
<1>1. TypeOK'
  BY DEF IInv, TypeOK, IsStanza
<1>2. Sealed'
  BY DEF IInv, Sealed, KeyStanzas, RequestStanzas
<1>3. BuddyKeys' /\ RecipientsKnown' /\ DeliveredOnce'
  BY DEF IInv, BuddyKeys, RecipientsKnown, DeliveredOnce
<1> QED BY <1>1, <1>2, <1>3 DEF IInv

\* A step that only changes the blacklist keeps the invariant.
LEMMA BlacklistStep ==
    ASSUME IInv, blacklist' \in [Names -> SUBSET Names],
           UNCHANGED <<publicKey, buddies, usedIVs, sending, received, net>>
    PROVE  IInv'
<1>1. TypeOK'
  BY DEF IInv, TypeOK
<1>2. BuddyKeys' /\ RecipientsKnown' /\ Sealed' /\ DeliveredOnce'
  BY DEF IInv, BuddyKeys, RecipientsKnown, Sealed, DeliveredOnce
<1> QED BY <1>1, <1>2 DEF IInv

LEMMA NewMeStep ==
    ASSUME IInv, NEW p \in Names, NEW k \in Keys, NewMe(p, k)
    PROVE  IInv'
<1> USE DEF IInv, NewMe
<1>1. TypeOK'
  BY DEF TypeOK
<1>2. BuddyKeys'
  BY DEF TypeOK, BuddyKeys
<1>3. RecipientsKnown'
  <2> SUFFICES ASSUME NEW q \in Names, sending'[q] # Idle, NEW v \in sending'[q].to
               PROVE  buddies'[q][v] # NoBuddy /\ buddies'[q][v].MpSecretKey # NoSecret
    BY DEF RecipientsKnown
  <2>1. q # p
    BY DEF TypeOK
  <2> QED BY <2>1 DEF TypeOK, RecipientsKnown
<1>4. Sealed'
  BY DEF Sealed
<1>5. DeliveredOnce'
  BY DEF TypeOK, DeliveredOnce
<1> QED BY <1>1, <1>2, <1>3, <1>4, <1>5

LEMMA ReceivePublicKeyStep ==
    ASSUME IInv, NEW p \in Names, NEW s \in net, ReceivePublicKey(p, s)
    PROVE  IInv'
<1> DEFINE n == s.from
<1>1. n \in Names /\ n # p /\ s.key \in Keys
  <2>1. s.type = "public_key" /\ n # p
    BY DEF ReceivePublicKey
  <2>2. IsStanza(s)
    BY DEF IInv, TypeOK
  <2>3. ~ IsMessageStanza(s)
    BY <2>1 DEF IsMessageStanza
  <2> QED BY <2>1, <2>2, <2>3 DEF IsStanza, KeyStanzas, RequestStanzas
<1>2. buddies[p][n] = NoBuddy
  BY <1>1 DEF IInv, BuddyKeys, ReceivePublicKey, HasKey
<1> DEFINE new == [CryptoEnabled |-> TRUE, PublicKey |-> s.key,
                   MpSecretKey |-> Secret(publicKey[p], s.key)]
<1>3. buddies' = [buddies EXCEPT ![p][n] = new]
  BY <1>2 DEF ReceivePublicKey
<1>4. new \in Buddy
  BY <1>1 DEF IInv, TypeOK, Buddy, Secrets, Secret
<1>5. UNCHANGED <<publicKey, usedIVs, blacklist, sending, received, net>> /\ sending[p] = Idle
  BY DEF ReceivePublicKey
<1> HIDE DEF n
<1>6. TypeOK'
  <2>1. buddies' \in [Names -> [Names -> Buddy \union {NoBuddy}]]
    BY <1>1, <1>3, <1>4 DEF IInv, TypeOK
  <2> QED BY <1>5, <2>1 DEF IInv, TypeOK
<1>7. BuddyKeys'
  <2> SUFFICES ASSUME NEW q \in Names, NEW r \in Names, buddies'[q][r] # NoBuddy
               PROVE  /\ r # q
                      /\ buddies'[q][r].CryptoEnabled
                      /\ buddies'[q][r].MpSecretKey =
                           Secret(publicKey'[q], buddies'[q][r].PublicKey)
    BY DEF BuddyKeys
  <2>1. CASE q = p /\ r = n
    <3>1. buddies'[q][r] = new
      BY <1>1, <1>3, <2>1 DEF IInv, TypeOK
    <3> QED BY <1>1, <1>5, <2>1, <3>1
  <2>2. CASE ~(q = p /\ r = n)
    <3>1. buddies'[q][r] = buddies[q][r]
      BY <1>1, <1>3, <2>2 DEF IInv, TypeOK
    <3> QED BY <1>5, <3>1 DEF IInv, BuddyKeys
  <2> QED BY <2>1, <2>2
<1>8. RecipientsKnown'
  <2> SUFFICES ASSUME NEW q \in Names, sending'[q] # Idle, NEW v \in sending'[q].to
               PROVE  buddies'[q][v] # NoBuddy /\ buddies'[q][v].MpSecretKey # NoSecret
    BY DEF RecipientsKnown
  <2>1. q # p
    BY <1>5
  <2>2. buddies'[q] = buddies[q]
    BY <1>3, <2>1 DEF IInv, TypeOK
  <2> QED BY <1>5, <2>2 DEF IInv, RecipientsKnown
<1>9. Sealed' /\ DeliveredOnce'
  BY <1>5 DEF IInv, Sealed, DeliveredOnce
<1> QED BY <1>6, <1>7, <1>8, <1>9 DEF IInv

LEMMA ChooseRecipientsStep ==
    ASSUME IInv, NEW p \in Names, NEW m \in Msgs, ChooseRecipients(p, m)
    PROVE  IInv'
<1> DEFINE to == {n \in Names \ blacklist[p] : HasKey(p, n)}
           new == [msg |-> m, to |-> to]
<1>1. sending' = [sending EXCEPT ![p] = new]
  BY DEF ChooseRecipients
<1>2. UNCHANGED <<publicKey, buddies, usedIVs, blacklist, received, net>>
  BY DEF ChooseRecipients
<1>3. \A v \in to : buddies[p][v] # NoBuddy /\ buddies[p][v].MpSecretKey # NoSecret
  <2> SUFFICES ASSUME NEW v \in to
               PROVE  buddies[p][v] # NoBuddy /\ buddies[p][v].MpSecretKey # NoSecret
    OBVIOUS
  <2>1. buddies[p][v] # NoBuddy
    BY DEF HasKey
  <2>2. buddies[p][v] \in Buddy /\ publicKey[p] \in Keys
    BY <2>1 DEF IInv, TypeOK
  <2>3. buddies[p][v].MpSecretKey = Secret(publicKey[p], buddies[p][v].PublicKey)
    BY <2>1 DEF IInv, BuddyKeys
  <2>4. buddies[p][v].MpSecretKey \in SUBSET Keys
    BY <2>2, <2>3 DEF Secret, Buddy
  <2> QED BY <2>1, <2>4, NilAssumption
<1>4. new \in [msg : Msgs, to : SUBSET Names]
  OBVIOUS
<1> HIDE DEF to
<1>5. TypeOK'
  BY <1>1, <1>2, <1>4 DEF IInv, TypeOK
<1>6. RecipientsKnown'
  <2> SUFFICES ASSUME NEW q \in Names, sending'[q] # Idle, NEW v \in sending'[q].to
               PROVE  buddies'[q][v] # NoBuddy /\ buddies'[q][v].MpSecretKey # NoSecret
    BY DEF RecipientsKnown
  <2>1. CASE q = p
    <3>1. sending'[q] = new
      BY <1>1, <2>1 DEF IInv, TypeOK
    <3> QED BY <1>2, <1>3, <2>1, <3>1
  <2>2. CASE q # p
    <3>1. sending'[q] = sending[q]
      BY <1>1, <2>2 DEF IInv, TypeOK
    <3> QED BY <1>2, <3>1 DEF IInv, RecipientsKnown
  <2> QED BY <2>1, <2>2
<1>7. BuddyKeys' /\ Sealed' /\ DeliveredOnce'
  BY <1>2 DEF IInv, BuddyKeys, Sealed, DeliveredOnce
<1> QED BY <1>5, <1>6, <1>7 DEF IInv

LEMMA EncryptAndSendStep ==
    ASSUME IInv, NEW p \in Names, EncryptAndSend(p)
    PROVE  IInv'
<1> DEFINE m  == sending[p].msg
           to == sending[p].to
           s  == MessageStanza(p, m, to)
           ivs == {NewIV(m, v) : v \in to}
<1>1. sending[p] # Idle /\ m \in Msgs /\ to \in SUBSET Names
  BY DEF IInv, TypeOK, EncryptAndSend
<1>2. /\ usedIVs' = [usedIVs EXCEPT ![p] = @ \union ivs]
      /\ net' = net \union {s}
      /\ sending' = [sending EXCEPT ![p] = Idle]
      /\ UNCHANGED <<publicKey, buddies, blacklist, received>>
  BY DEF EncryptAndSend
<1>3. IsMessageStanza(s) /\ SealedStanza(s) /\ s.type = "message"
  BY <1>1, StanzaSealed DEF IInv
<1>4. p \notin to
  BY <1>1 DEF IInv, RecipientsKnown, BuddyKeys
<1>5. ivs \subseteq IVs
  BY <1>1 DEF NewIV, IVs
<1> HIDE DEF s, ivs
<1>6. TypeOK'
  <2>1. \A t \in net' : IsStanza(t)
    BY <1>2, <1>3 DEF IInv, TypeOK, IsStanza
  <2>2. usedIVs' \in [Names -> SUBSET IVs]
    BY <1>2, <1>5 DEF IInv, TypeOK
  <2>3. sending' \in [Names -> [msg : Msgs, to : SUBSET Names] \union {Idle}]
    BY <1>2 DEF IInv, TypeOK
  <2> QED BY <1>2, <2>1, <2>2, <2>3 DEF IInv, TypeOK
<1>7. BuddyKeys'
  BY <1>2 DEF IInv, BuddyKeys
<1>8. RecipientsKnown'
  <2> SUFFICES ASSUME NEW q \in Names, sending'[q] # Idle, NEW v \in sending'[q].to
               PROVE  buddies'[q][v] # NoBuddy /\ buddies'[q][v].MpSecretKey # NoSecret
    BY DEF RecipientsKnown
  <2>1. q # p /\ sending'[q] = sending[q]
    BY <1>2 DEF IInv, TypeOK
  <2> QED BY <1>2, <2>1 DEF IInv, RecipientsKnown
<1>9. Sealed'
  BY <1>2, <1>3 DEF IInv, Sealed
<1>10. DeliveredOnce'
  <2> SUFFICES ASSUME NEW q \in Names, NEW n \in Msgs
               PROVE  (NewIV(n, q) \in usedIVs'[q]) = (NewIV(n, q) \in usedIVs[q])
    BY <1>2 DEF IInv, DeliveredOnce
  <2>1. CASE q = p
    <3>1. NewIV(n, q) \notin ivs
      BY <1>4, <2>1 DEF ivs, NewIV
    <3> QED BY <1>2, <2>1, <3>1 DEF IInv, TypeOK
  <2>2. CASE q # p
    BY <1>2, <2>2 DEF IInv, TypeOK
  <2> QED BY <2>1, <2>2
<1> QED BY <1>6, <1>7, <1>8, <1>9, <1>10 DEF IInv

LEMMA ReceiveMessageStep ==
    ASSUME IInv, NEW p \in Names, NEW s \in net, ReceiveMessage(p, s)
    PROVE  IInv'
<1> DEFINE m == s.Tag.plain
<1>1. /\ s.type = "message" /\ p \in DOMAIN s.Text
      /\ Authentic(p, s) /\ s.Text[p].IV \notin usedIVs[p]
  BY DEF ReceiveMessage, Accepts
<1>2. /\ Plaintext(p, s) = m /\ m \in Msgs
      /\ TagMatches(p, s) /\ s.Text[p].IV = NewIV(m, p)
  BY <1>1, AuthenticDecrypts DEF IInv
<1>3. /\ usedIVs' = [usedIVs EXCEPT ![p] = @ \union {NewIV(m, p)}]
      /\ received' = [received EXCEPT ![p][m] = @ + 1]
      /\ UNCHANGED <<publicKey, buddies, blacklist, sending, net>>
  BY <1>2 DEF ReceiveMessage
<1> HIDE DEF m
<1>4. TypeOK'
  <2>1. usedIVs' \in [Names -> SUBSET IVs]
    BY <1>2, <1>3 DEF IInv, TypeOK, NewIV, IVs
  <2>2. received' \in [Names -> [Msgs -> Nat]]
    BY <1>2, <1>3 DEF IInv, TypeOK
  <2> QED BY <1>3, <2>1, <2>2 DEF IInv, TypeOK
<1>5. BuddyKeys' /\ RecipientsKnown' /\ Sealed'
  BY <1>3 DEF IInv, BuddyKeys, RecipientsKnown, Sealed
<1>6. DeliveredOnce'
  <2> SUFFICES ASSUME NEW q \in Names, NEW n \in Msgs
               PROVE  received'[q][n] = IF NewIV(n, q) \in usedIVs'[q] THEN 1 ELSE 0
    BY DEF DeliveredOnce
  <2>1. received[q][n] = IF NewIV(n, q) \in usedIVs[q] THEN 1 ELSE 0
    BY DEF IInv, DeliveredOnce
  <2>2. CASE q = p /\ n = m
    <3>1. received[q][n] = 0
      BY <1>1, <1>2, <2>1, <2>2
    <3>2. received'[q][n] = received[q][n] + 1 /\ NewIV(n, q) \in usedIVs'[q]
      BY <1>3, <2>2 DEF IInv, TypeOK
    <3> QED BY <3>1, <3>2
  <2>3. CASE ~(q = p /\ n = m)
    <3>1. received'[q][n] = received[q][n]
      BY <1>3, <2>3 DEF IInv, TypeOK
    <3>2. (NewIV(n, q) \in usedIVs'[q]) = (NewIV(n, q) \in usedIVs[q])
      BY <1>3, <2>3 DEF IInv, TypeOK, NewIV
    <3> QED BY <2>1, <3>1, <3>2
  <2> QED BY <2>2, <2>3
<1> QED BY <1>4, <1>5, <1>6 DEF IInv

LEMMA DestroyUserStep ==
    ASSUME IInv, NEW p \in Names, NEW n \in Names, DestroyUser(p, n)
    PROVE  IInv'
<1> USE DEF DestroyUser
<1>1. TypeOK'
  BY DEF IInv, TypeOK
<1>2. \A q, r \in Names : buddies'[q][r] # NoBuddy => buddies'[q][r] = buddies[q][r]
  BY DEF IInv, TypeOK
<1>3. BuddyKeys'
  BY <1>2 DEF IInv, BuddyKeys
<1>4. RecipientsKnown'
  <2> SUFFICES ASSUME NEW q \in Names, sending'[q] # Idle, NEW v \in sending'[q].to
               PROVE  buddies'[q][v] # NoBuddy /\ buddies'[q][v].MpSecretKey # NoSecret
    BY DEF RecipientsKnown
  <2>1. q # p /\ buddies'[q] = buddies[q]
    BY DEF IInv, TypeOK
  <2> QED BY <2>1 DEF IInv, RecipientsKnown
<1>5. Sealed' /\ DeliveredOnce'
  BY DEF IInv, Sealed, DeliveredOnce
<1> QED BY <1>1, <1>3, <1>4, <1>5 DEF IInv

LEMMA NextIInv == IInv /\ [Next]_vars => IInv'
<1> SUFFICES ASSUME IInv, [Next]_vars PROVE IInv'
  OBVIOUS
<1>1. CASE UNCHANGED vars
  BY <1>1 DEF vars, IInv, TypeOK, BuddyKeys, RecipientsKnown, Sealed, DeliveredOnce
<1>2. ASSUME NEW p \in Names, Handle(p) PROVE IInv'
  <2>1. ASSUME NEW s \in net, ReceivePublicKey(p, s) PROVE IInv'
    BY <2>1, ReceivePublicKeyStep
  <2>2. ASSUME NEW s \in net, ReceiveRequest(p, s) PROVE IInv'
    <3>1. PublicKeyStanza(p) \in KeyStanzas
      BY DEF IInv, TypeOK, PublicKeyStanza, KeyStanzas
    <3> QED BY <2>2, <3>1, KeyStanzaStep DEF ReceiveRequest, SendPublicKey
  <2>3. ASSUME NEW s \in net, ReceiveMessage(p, s) PROVE IInv'
    BY <2>3, ReceiveMessageStep
  <2> QED BY <1>2, <2>1, <2>2, <2>3 DEF Handle
<1>3. ASSUME NEW p \in Names, Call(p) PROVE IInv'
  <2>1. ASSUME NEW k \in Keys, NewMe(p, k) PROVE IInv'
    BY <2>1, NewMeStep
  <2>2. CASE SendPublicKey(p)
    <3>1. PublicKeyStanza(p) \in KeyStanzas
      BY DEF IInv, TypeOK, PublicKeyStanza, KeyStanzas
    <3> QED BY <2>2, <3>1, KeyStanzaStep DEF SendPublicKey
  <2>3. ASSUME NEW t \in Targets, RequestPublicKey(p, t) PROVE IInv'
    <3>1. RequestStanza(p, t) \in RequestStanzas
      BY DEF RequestStanza, RequestStanzas
    <3> QED BY <2>3, <3>1, KeyStanzaStep DEF RequestPublicKey
  <2>4. ASSUME NEW m \in Msgs, ChooseRecipients(p, m) PROVE IInv'
    BY <2>4, ChooseRecipientsStep
  <2>5. CASE EncryptAndSend(p)
    BY <2>5, EncryptAndSendStep
  <2>6. ASSUME NEW n \in Names, DestroyUser(p, n) PROVE IInv'
    BY <2>6, DestroyUserStep
  <2>7. ASSUME NEW n \in Moderated, BlacklistUser(p, n) \/ UnblacklistUser(p, n)
        PROVE  IInv'
    <3>1. n \in Names /\ blacklist[p] \in SUBSET Names
      BY KeyAssumption DEF IInv, TypeOK
    <3>2. CASE BlacklistUser(p, n)
      <4>1. blacklist' \in [Names -> SUBSET Names]
        BY <3>1, <3>2 DEF IInv, TypeOK, BlacklistUser
      <4> QED BY <3>2, <4>1, BlacklistStep DEF BlacklistUser
    <3>3. CASE UnblacklistUser(p, n)
      <4>1. blacklist' \in [Names -> SUBSET Names]
        BY <3>1, <3>3 DEF IInv, TypeOK, UnblacklistUser
      <4> QED BY <3>3, <4>1, BlacklistStep DEF UnblacklistUser
    <3> QED BY <2>7, <3>2, <3>3
  <2>8. CASE ClearBlacklist(p)
    <3>1. blacklist' \in [Names -> SUBSET Names]
      BY <2>8 DEF IInv, TypeOK, ClearBlacklist
    <3> QED BY <2>8, <3>1, BlacklistStep DEF ClearBlacklist
  <2> QED BY <1>3, <2>1, <2>2, <2>3, <2>4, <2>5, <2>6, <2>7, <2>8 DEF Call
<1> QED BY <1>1, <1>2, <1>3 DEF Next

(* The invariant of the protocol, under every order, loss and replay.       *)
THEOREM Invariance == Spec => []IInv
<1>1. IInv /\ UNCHANGED vars => IInv'
  BY NextIInv
<1> QED BY InitIInv, NextIInv, PTL DEF Spec

(* Types of the state of every Me (multiparty.go:55-69).                    *)
THEOREM TypeCorrect == Spec => []TypeOK
BY Invariance, PTL DEF IInv

(* Every buddy's secret is the one shared with the buddy's current key      *)
(* (multiparty.go:254-263).                                                 *)
THEOREM SecretsFollowKeys == Spec => []BuddyKeys
BY Invariance, PTL DEF IInv

(* sendMessage never dereferences a recipient that has gone                 *)
(* (multiparty.go:163-193): DestroyUser and receiveMessage wait for it.     *)
THEOREM NoNilRecipient == Spec => []RecipientsKnown
BY Invariance, PTL DEF IInv

(* Each message is returned at most once to a session, and no IV is spent   *)
(* by a message that is not returned (multiparty.go:333-359).               *)
THEOREM AtMostOnce == Spec => []DeliveredOnce
BY Invariance, PTL DEF IInv

LEMMA IInvHonestAccepted == IInv => HonestAccepted
<1> SUFFICES ASSUME IInv, NEW p \in Names, NEW s \in net,
                    s.type = "message", s.from # p,
                    p \in DOMAIN s.Text,
                    buddies[p][s.from] # NoBuddy,
                    buddies[p][s.from].PublicKey = s.as,
                    s.Text[p].Message.key = Secret(s.as, publicKey[p]),
                    s.Text[p].IV \notin usedIVs[p],
                    s.Text[p].Message.plain \notin BigMsgs
             PROVE  Accepts(p, s) /\ TagMatches(p, s)
  BY DEF HonestAccepted
<1>1. SealedStanza(s) /\ IsMessageStanza(s)
  BY DEF IInv, Sealed, TypeOK, IsStanza, KeyStanzas, RequestStanzas
<1>2. buddies[p][s.from].MpSecretKey = Secret(s.as, publicKey[p])
  BY <1>1, SecretSymmetric DEF IInv, BuddyKeys, IsMessageStanza
<1>3. s.Text[p].HMAC.key = Secret(s.as, publicKey[p])
  <2>1. s.Text[p].Message = [key |-> s.Text[p].HMAC.key, iv |-> s.Text[p].IV,
                             plain |-> s.Tag.plain]
    BY <1>1 DEF SealedStanza, encryptAES
  <2> QED BY <2>1
<1>4. BuddyHmacInput(p, s) = HmacInput(s.Text, DOMAIN s.Text)
  <2>1. DOMAIN s.Text \ MissingRecipients(p, s) = DOMAIN s.Text
    BY DEF MissingRecipients
  <2> QED BY <2>1 DEF BuddyHmacInput
<1>5. s.Text[p].HMAC = [over |-> s.Text[p].HMAC.over, key |-> s.Text[p].HMAC.key]
  <2>1. s.Text[p] \in TextAnswers
    BY <1>1 DEF IsMessageStanza
  <2>2. s.Text[p].HMAC \in HMACs
    BY <2>1 DEF TextAnswers
  <2> QED BY <2>2 DEF HMACs
<1>6. Authentic(p, s)
  BY <1>1, <1>2, <1>3, <1>4, <1>5 DEF Authentic, SealedStanza, HMAC
<1> QED BY <1>6, AuthenticDecrypts DEF IInv, Accepts, FitsMaximum

(* A message between two parties that know each other's keys is accepted,   *)
(* whoever else is in either buddy list (multiparty.go:290-331).            *)
THEOREM HonestDelivery == Spec => []HonestAccepted
BY Invariance, IInvHonestAccepted, PTL

(* The key learned for a nickname stays until the nickname leaves           *)
(* (multiparty.go:240-248).                                                 *)
THEOREM TrustOnFirstUse == Spec => KeyPinned
<1> DEFINE Pinned ==
      \A p, n \in Names : buddies[p][n] # NoBuddy /\ buddies'[p][n] # NoBuddy
                          => buddies'[p][n].PublicKey = buddies[p][n].PublicKey
<1>1. IInv /\ [Next]_vars => [Pinned]_vars
  <2> SUFFICES ASSUME IInv, Next, NEW p \in Names, NEW n \in Names,
                      buddies[p][n] # NoBuddy, buddies'[p][n] # NoBuddy
               PROVE  buddies'[p][n].PublicKey = buddies[p][n].PublicKey
    OBVIOUS
  <2>1. PICK q \in Names : Handle(q) \/ Call(q)
    BY DEF Next
  <2>2. CASE UNCHANGED buddies
    BY <2>2
  <2>3. CASE \E s \in net : ReceivePublicKey(q, s)
    <3>1. PICK s \in net : ReceivePublicKey(q, s)
      BY <2>3
    <3>2. ~ (p = q /\ n = s.from)
      BY <3>1 DEF IInv, BuddyKeys, ReceivePublicKey, HasKey
    <3>3. buddies'[p][n] = buddies[p][n]
      BY <3>1, <3>2 DEF IInv, TypeOK, ReceivePublicKey
    <3> QED BY <3>3
  <2>4. CASE \E k \in Keys : NewMe(q, k)
    BY <2>4 DEF IInv, TypeOK, NewMe
  <2>5. CASE \E r \in Names : DestroyUser(q, r)
    BY <2>5 DEF IInv, TypeOK, DestroyUser
  <2> QED BY <2>1, <2>2, <2>3, <2>4, <2>5
          DEF Handle, Call, ReceiveRequest, ReceiveMessage, SendPublicKey,
              RequestPublicKey, ChooseRecipients, EncryptAndSend,
              BlacklistUser, UnblacklistUser, ClearBlacklist
<1> QED BY <1>1, Invariance, PTL DEF Spec, KeyPinned

-----------------------------------------------------------------------------
(* Multiparty implements GroupChat *)

\* A key is announced, used and learned under its owner's nickname only, and
\* a message is encrypted under secrets of its author's key.
OwnedStanza(s) ==
    /\ s.type = "public_key" => KeyOwner[s.key] = s.from
    /\ s.type = "message" =>
         /\ KeyOwner[s.as] = s.from
         /\ \A v \in DOMAIN s.Text :
              \E k \in Keys : s.Text[v].Message.key = Secret(s.as, k)

Owned ==
    /\ \A p \in Names : KeyOwner[publicKey[p]] = p
    /\ \A p, n \in Names :
         buddies[p][n] # NoBuddy => KeyOwner[buddies[p][n].PublicKey] = n
    /\ \A s \in net : OwnedStanza(s)

\* A message that is being sent was never sent and is sent by nobody else.
Unsent ==
    \A p \in Names : sending[p] # Idle =>
        /\ \A s \in net : s.type = "message" => s.Tag.plain # sending[p].msg
        /\ \A q \in Names : q # p /\ sending[q] # Idle
                            => sending[q].msg # sending[p].msg

RInv == IInv /\ Owned /\ Unsent

-----------------------------------------------------------------------------
LEMMA InitRInv == Init => RInv
<1> SUFFICES ASSUME Init PROVE RInv
  OBVIOUS
<1>1. Owned
  BY DEF Init, Owned
<1>2. Unsent
  BY DEF Init, Unsent
<1> QED BY <1>1, <1>2, InitIInv DEF RInv

LEMMA SecretInjective ==
    ASSUME NEW k, NEW k1, NEW k2, Secret(k, k1) = Secret(k, k2)
    PROVE  k1 = k2
BY DEF Secret

\* What the stanza of EncryptAndSend(p) says about its sender and readers.
LEMMA StanzaReaders ==
    ASSUME RInv, NEW p \in Names, sending[p] # Idle
    PROVE  LET s == MessageStanza(p, sending[p].msg, sending[p].to)
           IN  /\ s.type = "message" /\ s.from = p /\ s.as = publicKey[p]
               /\ s.Tag.plain = sending[p].msg
               /\ DOMAIN s.Text = sending[p].to
               /\ \A v \in sending[p].to :
                    /\ v \in Names /\ buddies[p][v] # NoBuddy
                    /\ buddies[p][v].PublicKey \in Keys
                    /\ s.Text[v].Message.key = Secret(s.as, buddies[p][v].PublicKey)
<1> DEFINE s == MessageStanza(p, sending[p].msg, sending[p].to)
<1>1. s.type = "message" /\ s.from = p /\ s.as = publicKey[p]
  BY DEF MessageStanza
<1>2. s.Tag.plain = sending[p].msg
  BY DEF MessageStanza, MessageTag
<1>3. DOMAIN s.Text = sending[p].to
  BY DEF MessageStanza
<1>4. ASSUME NEW v \in sending[p].to
      PROVE  /\ v \in Names /\ buddies[p][v] # NoBuddy
             /\ buddies[p][v].PublicKey \in Keys
             /\ s.Text[v].Message.key = Secret(s.as, buddies[p][v].PublicKey)
  <2>1. v \in Names /\ buddies[p][v] # NoBuddy
    BY DEF RInv, IInv, RecipientsKnown, TypeOK
  <2>2. buddies[p][v] \in Buddy
    BY <2>1 DEF RInv, IInv, TypeOK
  <2>3. s.Text[v].Message.key = buddies[p][v].MpSecretKey
    BY DEF MessageStanza, encryptAES
  <2>4. buddies[p][v].MpSecretKey = Secret(publicKey[p], buddies[p][v].PublicKey)
    BY <2>1 DEF RInv, IInv, BuddyKeys
  <2> QED BY <1>1, <2>1, <2>2, <2>3, <2>4 DEF Buddy
<1> QED BY <1>1, <1>2, <1>3, <1>4

LEMMA NextOwned ==
    ASSUME RInv, Next
    PROVE  Owned'
<1> USE DEF RInv
<1>1. PICK p \in Names : Handle(p) \/ Call(p)
  BY DEF Next
<1>2. ASSUME NEW s \in net, ReceivePublicKey(p, s) PROVE Owned'
  <2>1. KeyOwner[s.key] = s.from
    BY <1>2 DEF Owned, OwnedStanza, ReceivePublicKey
  <2>2. \A q, n \in Names : buddies'[q][n] = buddies[q][n]
          \/ (n = s.from /\ buddies'[q][n].PublicKey = s.key)
    BY <1>2 DEF IInv, TypeOK, ReceivePublicKey
  <2>3. UNCHANGED <<publicKey, net>>
    BY <1>2 DEF ReceivePublicKey
  <2> QED BY <2>1, <2>2, <2>3 DEF Owned, OwnedStanza
<1>3. CASE net' = net \union {PublicKeyStanza(p)} /\ UNCHANGED <<publicKey, buddies>>
  <2>1. OwnedStanza(PublicKeyStanza(p))
    BY DEF Owned, OwnedStanza, PublicKeyStanza
  <2>2. \A s \in net' : OwnedStanza(s)
    BY <1>3, <2>1 DEF Owned
  <2> QED BY <1>3, <2>2 DEF Owned, OwnedStanza
<1>4. ASSUME NEW t \in Targets, RequestPublicKey(p, t) PROVE Owned'
  <2>1. OwnedStanza(RequestStanza(p, t))
    BY DEF OwnedStanza, RequestStanza
  <2>2. \A s \in net' : OwnedStanza(s)
    BY <1>4, <2>1 DEF Owned, RequestPublicKey
  <2> QED BY <1>4, <2>2 DEF Owned, OwnedStanza, RequestPublicKey
<1>5. CASE EncryptAndSend(p)
  <2> DEFINE s == MessageStanza(p, sending[p].msg, sending[p].to)
  <2>1. OwnedStanza(s)
    <3>1. s.type = "message" /\ KeyOwner[s.as] = s.from
      BY <1>5, StanzaReaders DEF EncryptAndSend, Owned
    <3>2. \A v \in DOMAIN s.Text : \E k \in Keys : s.Text[v].Message.key = Secret(s.as, k)
      BY <1>5, StanzaReaders DEF EncryptAndSend
    <3> QED BY <3>1, <3>2 DEF OwnedStanza
  <2>2. net' = net \union {s} /\ UNCHANGED <<publicKey, buddies>>
    BY <1>5 DEF EncryptAndSend
  <2> HIDE DEF s
  <2>3. \A t \in net' : OwnedStanza(t)
    BY <2>1, <2>2 DEF Owned
  <2> QED BY <2>2, <2>3 DEF Owned, OwnedStanza
<1>6. ASSUME NEW k \in Keys, NewMe(p, k) PROVE Owned'
  <2>1. \A q \in Names : KeyOwner[publicKey'[q]] = q
    BY <1>6 DEF IInv, TypeOK, Owned, NewMe
  <2>2. \A q, n \in Names : buddies'[q][n] # NoBuddy => buddies'[q][n] = buddies[q][n]
    BY <1>6 DEF IInv, TypeOK, NewMe
  <2> QED BY <1>6, <2>1, <2>2 DEF Owned, OwnedStanza, NewMe
<1>7. ASSUME NEW n \in Names, DestroyUser(p, n) PROVE Owned'
  <2>1. \A q, r \in Names : buddies'[q][r] # NoBuddy => buddies'[q][r] = buddies[q][r]
    BY <1>7 DEF IInv, TypeOK, DestroyUser
  <2> QED BY <1>7, <2>1 DEF Owned, OwnedStanza, DestroyUser
<1>8. CASE UNCHANGED <<publicKey, buddies, net>>
  BY <1>8 DEF Owned, OwnedStanza
<1> QED BY <1>1, <1>2, <1>3, <1>4, <1>5, <1>6, <1>7, <1>8
        DEF Handle, Call, ReceiveRequest, ReceiveMessage, SendPublicKey,
            ChooseRecipients, BlacklistUser, UnblacklistUser, ClearBlacklist

LEMMA NextUnsent ==
    ASSUME RInv, Next
    PROVE  Unsent'
<1> USE DEF RInv
<1>1. PICK p \in Names : Handle(p) \/ Call(p)
  BY DEF Next
<1>2. ASSUME NEW m \in Msgs, ChooseRecipients(p, m) PROVE Unsent'
  <2>1. \A q \in Names : q # p => sending'[q] = sending[q]
    BY <1>2 DEF IInv, TypeOK, ChooseRecipients
  <2>2. sending'[p].msg = m /\ net' = net
    BY <1>2 DEF IInv, TypeOK, ChooseRecipients
  <2>3. \A s \in net : s.type = "message" => s.Tag.plain # m
    BY <1>2 DEF ChooseRecipients
  <2>4. \A q \in Names : sending[q] # Idle => sending[q].msg # m
    BY <1>2 DEF ChooseRecipients
  <2> QED BY <2>1, <2>2, <2>3, <2>4 DEF Unsent
<1>3. CASE EncryptAndSend(p)
  <2> DEFINE s == MessageStanza(p, sending[p].msg, sending[p].to)
  <2>1. s.Tag.plain = sending[p].msg
    BY <1>3, StanzaReaders DEF EncryptAndSend
  <2>2. net' = net \union {s} /\ sending[p] # Idle
    BY <1>3 DEF EncryptAndSend
  <2>3. sending'[p] = Idle /\ \A q \in Names : q # p => sending'[q] = sending[q]
    BY <1>3 DEF IInv, TypeOK, EncryptAndSend
  <2> HIDE DEF s
  <2> QED BY <2>1, <2>2, <2>3 DEF Unsent
<1>4. ASSUME NEW k \in Keys, NewMe(p, k) PROVE Unsent'
  <2>1. sending'[p] = Idle /\ \A q \in Names : q # p => sending'[q] = sending[q]
    BY <1>4 DEF IInv, TypeOK, NewMe
  <2> QED BY <1>4, <2>1 DEF Unsent, NewMe
<1>5. CASE net' = net \union {PublicKeyStanza(p)} /\ UNCHANGED sending
  BY <1>5 DEF Unsent, PublicKeyStanza
<1>6. ASSUME NEW t \in Targets, RequestPublicKey(p, t) PROVE Unsent'
  BY <1>6 DEF Unsent, RequestPublicKey, RequestStanza
<1>7. CASE UNCHANGED <<sending, net>>
  BY <1>7 DEF Unsent
<1> QED BY <1>1, <1>2, <1>3, <1>4, <1>5, <1>6, <1>7
        DEF Handle, Call, ReceivePublicKey, ReceiveRequest, ReceiveMessage,
            SendPublicKey, DestroyUser, BlacklistUser, UnblacklistUser, ClearBlacklist

LEMMA NextRInv == RInv /\ [Next]_vars => RInv'
<1>1. RInv /\ Next => RInv'
  BY NextIInv, NextOwned, NextUnsent DEF RInv
<1>2. RInv /\ UNCHANGED vars => RInv'
  BY NextIInv DEF RInv, vars, Owned, OwnedStanza, Unsent
<1> QED BY <1>1, <1>2

-----------------------------------------------------------------------------
\* Both ends of a secret are determined by it and one of them.
LEMMA SecretEnds ==
    ASSUME NEW a, NEW x, NEW me, NEW b, Secret(a, x) = Secret(me, b), a # me
    PROVE  b = a /\ x = me
BY DEF Secret

\* A nickname is trusted under its buddy's key, or not at all.
LEMMA TrustedIs ==
    ASSUME NEW p \in Names, NEW n \in Names
    PROVE  trusted[p][n] = TrustedKey(p, n)
BY DEF trusted

LEMMA InitRefines == Init => Chat!Init
<1> SUFFICES ASSUME Init PROVE Chat!Init
  OBVIOUS
<1>1. trusted = [p \in Names |-> [n \in Names |-> Nobody]]
  BY DEF Init, trusted, TrustedKey
<1>2. posted = {}
  BY DEF Init, posted
<1> QED BY <1>1, <1>2 DEF Init, Chat!Init

\* A step that leaves the group messages alone leaves the posts alone.
LEMMA SamePosts ==
    ASSUME {t \in net' : t.type = "message"} = {t \in net : t.type = "message"}
    PROVE  posted' = posted
BY DEF posted, PostOf, Addressed

LEMMA SameTrust ==
    ASSUME buddies' = buddies
    PROVE  trusted' = trusted
BY DEF trusted, TrustedKey

LEMMA OneTrustChanges ==
    ASSUME NEW p \in Names, NEW n \in Names, NEW k,
           \A q, r \in Names :
             trusted'[q][r] = IF q = p /\ r = n THEN k ELSE trusted[q][r]
    PROVE  trusted' = [trusted EXCEPT ![p][n] = k]
<1>1. trusted' = [q \in Names |-> [r \in Names |-> trusted'[q][r]]]
  BY DEF trusted
<1>2. trusted = [q \in Names |-> [r \in Names |-> trusted[q][r]]]
  BY DEF trusted
<1> QED BY <1>1, <1>2

LEMMA NewMeRefines ==
    ASSUME RInv, NEW p \in Names, NEW k \in Keys, NewMe(p, k)
    PROVE  Chat!NewSession(p, k)
<1>1. trusted' = [trusted EXCEPT ![p] = [n \in Names |-> Nobody]]
  BY DEF RInv, IInv, TypeOK, NewMe, trusted, TrustedKey
<1>2. posted' = posted
  BY SamePosts DEF NewMe
<1> QED BY <1>1, <1>2 DEF NewMe, Chat!NewSession

LEMMA LearnRefines ==
    ASSUME RInv, NEW p \in Names, NEW s \in net, ReceivePublicKey(p, s)
    PROVE  s.from \in Names /\ s.key \in Keys /\ Chat!Trust(p, s.from, s.key)
<1> DEFINE n == s.from
<1>1. s.type = "public_key" /\ n # p
  BY DEF ReceivePublicKey
<1>2. n \in Names /\ s.key \in Keys
  <2>1. ~ IsMessageStanza(s)
    BY <1>1 DEF IsMessageStanza
  <2> QED BY <1>1, <2>1
          DEF RInv, IInv, TypeOK, IsStanza, KeyStanzas, RequestStanzas
<1>3. KeyOwner[s.key] = n
  BY <1>1 DEF RInv, Owned, OwnedStanza
<1>4. buddies[p][n] = NoBuddy
  BY <1>2 DEF RInv, IInv, BuddyKeys, ReceivePublicKey, HasKey
<1> DEFINE new == [CryptoEnabled |-> TRUE, PublicKey |-> s.key,
                   MpSecretKey |-> Secret(publicKey[p], s.key)]
<1>5. buddies' = [buddies EXCEPT ![p][n] = new]
  BY <1>4 DEF ReceivePublicKey
<1>6. new # NoBuddy
  <2>1. new \in Buddy
    BY <1>2 DEF RInv, IInv, TypeOK, Buddy, Secrets, Secret
  <2> QED BY <2>1, BuddyNotNil
<1>7. \A q, r \in Names :
        trusted'[q][r] = IF q = p /\ r = n THEN s.key ELSE trusted[q][r]
  <2> TAKE q \in Names, r \in Names
  <2>1. trusted'[q][r] = IF buddies'[q][r] = NoBuddy THEN Nobody
                         ELSE buddies'[q][r].PublicKey
    BY DEF trusted, TrustedKey
  <2>2. trusted[q][r] = IF buddies[q][r] = NoBuddy THEN Nobody
                        ELSE buddies[q][r].PublicKey
    BY DEF trusted, TrustedKey
  <2>3. buddies'[q][r] = IF q = p /\ r = n THEN new ELSE buddies[q][r]
    BY <1>2, <1>5 DEF RInv, IInv, TypeOK
  <2> QED BY <1>6, <2>1, <2>2, <2>3
<1>8. trusted' = [trusted EXCEPT ![p][n] = s.key]
  <2> DEFINE k == s.key
  <2> HIDE DEF n, k
  <2>1. \A q, r \in Names :
          trusted'[q][r] = IF q = p /\ r = n THEN k ELSE trusted[q][r]
    BY <1>7 DEF k
  <2>2. trusted' = [trusted EXCEPT ![p][n] = k]
    BY <1>2, <2>1, OneTrustChanges
  <2> QED BY <2>2 DEF k
<1>9. trusted[p][n] = Nobody
  BY <1>2, <1>4 DEF trusted, TrustedKey
<1>10. UNCHANGED <<publicKey, received, posted>>
  BY SamePosts DEF ReceivePublicKey
<1> QED BY <1>1, <1>2, <1>3, <1>8, <1>9, <1>10 DEF Chat!Trust

LEMMA ForgetRefines ==
    ASSUME RInv, NEW p \in Names, NEW n \in Names, DestroyUser(p, n)
    PROVE  Chat!Forget(p, n)
<1>1. \A q, r \in Names :
        buddies'[q][r] = IF q = p /\ r = n THEN NoBuddy ELSE buddies[q][r]
  BY DEF RInv, IInv, TypeOK, DestroyUser
<1>2. trusted' = [trusted EXCEPT ![p][n] = Nobody]
  <2>1. \A q, r \in Names :
          trusted'[q][r] = IF q = p /\ r = n THEN Nobody ELSE trusted[q][r]
    BY <1>1 DEF trusted, TrustedKey
  <2> QED BY <2>1, OneTrustChanges
<1>3. UNCHANGED <<publicKey, received, posted>>
  BY SamePosts DEF DestroyUser
<1> QED BY <1>2, <1>3 DEF Chat!Forget

LEMMA SendRefines ==
    ASSUME RInv, NEW p \in Names, EncryptAndSend(p)
    PROVE  \E m \in Msgs, to \in SUBSET Keys : Chat!Post(p, m, to)
<1> DEFINE m == sending[p].msg
           s == MessageStanza(p, m, sending[p].to)
<1>1. /\ sending[p] # Idle /\ m \in Msgs
      /\ net' = net \union {s}
      /\ UNCHANGED <<publicKey, buddies, received>>
  BY DEF RInv, IInv, TypeOK, EncryptAndSend
<1>2. /\ s.type = "message" /\ s.from = p /\ s.as = publicKey[p]
      /\ s.Tag.plain = m
      /\ DOMAIN s.Text = sending[p].to
      /\ \A v \in sending[p].to :
           /\ v \in Names /\ buddies[p][v] # NoBuddy
           /\ buddies[p][v].PublicKey \in Keys
           /\ s.Text[v].Message.key = Secret(s.as, buddies[p][v].PublicKey)
  BY <1>1, StanzaReaders
<1> DEFINE to == Addressed(s)
<1>3. to \subseteq {trusted[p][n] : n \in Names} \ {Nobody}
  <2> SUFFICES ASSUME NEW k \in to
               PROVE  k # Nobody /\ \E n \in Names : k = trusted[p][n]
    OBVIOUS
  <2>1. k \in Keys
    BY DEF Addressed
  <2>2. PICK v \in DOMAIN s.Text : s.Text[v].Message.key = Secret(s.as, k)
    BY DEF Addressed
  <2>3. k = buddies[p][v].PublicKey
    BY <1>2, <2>2, SecretInjective
  <2>4. v \in Names /\ trusted[p][v] = k
    BY <1>2, <2>3 DEF trusted, TrustedKey
  <2> QED BY <2>1, <2>4, NobodyAssumption
<1>4. \A q \in posted : q.msg # m
  BY <1>1 DEF RInv, Unsent, posted, PostOf
<1>5. posted' = posted \union {PostOf(s)}
  <2>1. {t \in net' : t.type = "message"} = {t \in net : t.type = "message"} \union {s}
    BY <1>1, <1>2
  <2> HIDE DEF s
  <2> QED BY <2>1 DEF posted, PostOf, Addressed
<1>6. PostOf(s) = [msg |-> m, by |-> p, as |-> publicKey[p], to |-> to]
  BY <1>2 DEF PostOf
<1>7. to \in SUBSET Keys
  BY DEF Addressed
<1> HIDE DEF s, to
<1>8. Chat!Post(p, m, to)
  BY <1>1, <1>3, <1>4, <1>5, <1>6, SameTrust DEF Chat!Post
<1> QED BY <1>1, <1>7, <1>8

LEMMA ShowRefines ==
    ASSUME RInv, NEW p \in Names, NEW s \in net, ReceiveMessage(p, s)
    PROVE  \E q \in posted : Chat!Show(p, q)
<1> DEFINE m == s.Tag.plain
           n == s.from
<1>1. /\ s.type = "message" /\ n # p /\ p \in DOMAIN s.Text
      /\ Authentic(p, s) /\ s.Text[p].IV \notin usedIVs[p]
  BY DEF ReceiveMessage, Accepts
<1>2. /\ Plaintext(p, s) = m /\ m \in Msgs
      /\ TagMatches(p, s) /\ s.Text[p].IV = NewIV(m, p)
  BY <1>1, AuthenticDecrypts DEF RInv, IInv
<1>3. received' = [received EXCEPT ![p][m] = @ + 1]
  BY <1>2 DEF ReceiveMessage
<1>4. UNCHANGED <<publicKey, buddies, net>>
  BY DEF ReceiveMessage
<1>5. received[p][m] = 0
  BY <1>1, <1>2 DEF RInv, IInv, DeliveredOnce
<1>6. received' = [received EXCEPT ![p][m] = 1]
  BY <1>3, <1>5
<1>7. n \in Names /\ s.as \in Keys /\ publicKey[p] \in Keys
  <2>1. IsMessageStanza(s)
    BY <1>1 DEF RInv, IInv, TypeOK, IsStanza, KeyStanzas, RequestStanzas
  <2> QED BY <2>1 DEF RInv, IInv, TypeOK, IsMessageStanza
<1>8. buddies[p][n] # NoBuddy
  BY <1>1 DEF Authentic
<1>9. s.Text[p].Message.key = Secret(publicKey[p], buddies[p][n].PublicKey)
  <2>1. s.Text[p].Message = [key |-> s.Text[p].HMAC.key, iv |-> s.Text[p].IV,
                             plain |-> m]
    BY <1>1 DEF RInv, IInv, Sealed, SealedStanza, encryptAES
  <2>2. s.Text[p].HMAC.key = buddies[p][n].MpSecretKey
    BY <1>1 DEF Authentic, HMAC
  <2>3. buddies[p][n].MpSecretKey = Secret(publicKey[p], buddies[p][n].PublicKey)
    BY <1>7, <1>8 DEF RInv, IInv, BuddyKeys
  <2> QED BY <2>1, <2>2, <2>3
<1>10. PICK x \in Keys : s.Text[p].Message.key = Secret(s.as, x)
  BY <1>1 DEF RInv, Owned, OwnedStanza
<1>11. s.as # publicKey[p]
  BY <1>1 DEF RInv, Owned, OwnedStanza
<1>12. buddies[p][n].PublicKey = s.as /\ x = publicKey[p]
  BY <1>9, <1>10, <1>11, SecretEnds
<1> DEFINE q == PostOf(s)
<1>13. q \in posted
  BY <1>1 DEF posted
<1>14. q.by = n /\ q.as = s.as /\ q.msg = m /\ q.to = Addressed(s)
  BY DEF PostOf
<1>15. publicKey[p] \in Addressed(s)
  BY <1>1, <1>7, <1>10, <1>12 DEF Addressed
<1>16. trusted[p][n] = s.as
  BY <1>7, <1>8, <1>12 DEF trusted, TrustedKey
<1>17. trusted' = trusted /\ posted' = posted
  BY <1>4, SamePosts, SameTrust
<1> HIDE DEF q, m, n
<1>18. Chat!Show(p, q)
  BY <1>1, <1>4, <1>5, <1>6, <1>14, <1>15, <1>16, <1>17 DEF Chat!Show
<1> QED BY <1>13, <1>18

LEMMA NextRefines == RInv /\ [Next]_vars => [Chat!Next]_(Chat!vars)
<1> SUFFICES ASSUME RInv, [Next]_vars PROVE Chat!Next \/ UNCHANGED Chat!vars
  OBVIOUS
<1>1. CASE /\ UNCHANGED <<publicKey, buddies, received>>
           /\ {t \in net' : t.type = "message"} = {t \in net : t.type = "message"}
  BY <1>1, SamePosts, SameTrust DEF Chat!vars
<1>2. CASE UNCHANGED vars
  BY <1>1, <1>2 DEF vars
<1>3. CASE Next
  <2>1. PICK p \in Names : Handle(p) \/ Call(p)
    BY <1>3 DEF Next
  <2>2. ASSUME NEW s \in net, ReceivePublicKey(p, s) PROVE Chat!Next
    BY <2>2, LearnRefines DEF Chat!Next
  <2>3. ASSUME NEW s \in net, ReceiveMessage(p, s) PROVE Chat!Next
    BY <2>3, ShowRefines DEF Chat!Next
  <2>4. ASSUME NEW k \in Keys, NewMe(p, k) PROVE Chat!Next
    BY <2>4, NewMeRefines DEF Chat!Next
  <2>5. ASSUME NEW n \in Names, DestroyUser(p, n) PROVE Chat!Next
    BY <2>5, ForgetRefines DEF Chat!Next
  <2>6. CASE EncryptAndSend(p)
    BY <2>6, SendRefines DEF Chat!Next
  <2>7. CASE SendPublicKey(p)
    <3>1. PublicKeyStanza(p).type = "public_key"
      BY DEF PublicKeyStanza
    <3> QED BY <1>1, <2>7, <3>1 DEF SendPublicKey
  <2>8. ASSUME NEW t \in Targets, RequestPublicKey(p, t)
        PROVE  Chat!Next \/ UNCHANGED Chat!vars
    <3>1. RequestStanza(p, t).type = "public_key_request"
      BY DEF RequestStanza
    <3> QED BY <1>1, <2>8, <3>1 DEF RequestPublicKey
  <2>9. CASE UNCHANGED <<publicKey, buddies, received, net>>
    BY <1>1, <2>9
  <2> QED BY <2>1, <2>2, <2>3, <2>4, <2>5, <2>6, <2>7, <2>8, <2>9
          DEF Handle, Call, ReceiveRequest, ChooseRecipients,
              BlacklistUser, UnblacklistUser, ClearBlacklist
<1> QED BY <1>2, <1>3

(* The group protocol implements GroupChat: first key trusted and held, a   *)
(* message shown at most once, to the key it was addressed to, and under    *)
(* the key trusted for its author (multiparty.go:213-363).                  *)
THEOREM Refinement == Spec => ImplementsGroupChat
<1>1. Spec => []RInv
  BY InitRInv, NextRInv, PTL DEF Spec
<1> QED BY <1>1, InitRefines, NextRefines, PTL DEF Spec, ImplementsGroupChat, Chat!Spec
=============================================================================
