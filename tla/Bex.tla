-------------------------------- MODULE Bex ---------------------------------
(***************************************************************************)
(* The binary extensions (src/dog/dog_bex.go): a packet of submessages is  *)
(* encoded field by field, decoded the same way by the receiver, and only  *)
(* then handled, by the handler of group or that of private messages.      *)
(*                                                                         *)
(* On the wire a field is a token <<field, value>>; numbers, strings, keys *)
(* and UUIDs are left abstract, except the three bytes of a colour.  The   *)
(* decoder reads bytes and sees no tokens: when it stands at one that is   *)
(* no header it takes what it finds for one (Misread).                     *)
(***************************************************************************)
EXTENDS Naturals, SequencesExt

CONSTANTS
    Packets,        \* what SendBEXGroup and SendBEXPrivate are given
    MaxSubmessages, \* DecodeBEX refuses more (8)
    MaxTable,       \* a longer moderation table is not read (512)
    MyName,         \* the receiver's nickname
    FromMod         \* IsMod of the sender

ASSUME BexAssumption ==
    MaxSubmessages \in Nat /\ MaxTable \in Nat /\ FromMod \in BOOLEAN

VARIABLES
    sent,     \* the packet the sender encoded
    private,  \* it was sent in a private conversation
    wire,     \* its tokens that were not read yet
    length,   \* submessages announced
    b,        \* submessages decoded
    pc,       \* "decode", "handle" or "done"
    handled,  \* how many of b were handled
    effects   \* what handling them did

vars == <<sent, private, wire, length, b, pc, handled, effects>>

-----------------------------------------------------------------------------
(* Colours: a sequence of hexadecimal digits after the "#" *)

ValidColor(c) == Len(c) = 6 /\ \A i \in 1..6 : c[i] \in 0..15

\* hex.DecodeString of the six digits, or three zero bytes.
ColorBytes(c) ==
    IF ValidColor(c) THEN <<16 * c[1] + c[2], 16 * c[3] + c[4], 16 * c[5] + c[6]>>
                     ELSE <<0, 0, 0>>

\* "%X" of one byte: no leading zero.
Hex(byte) == IF byte < 16 THEN <<byte>> ELSE <<byte \div 16, byte % 16>>

\* "#%X%X%X".
ColorOf(bytes) == Hex(bytes[1]) \o Hex(bytes[2]) \o Hex(bytes[3])

-----------------------------------------------------------------------------
(* Which fields a header writes, and which it reads *)

Plain == {"BEX_COMPOSING", "BEX_PAUSED", "FLAG_ME_AS_BOT", "STATUS_AWAY",
          "STATUS_ONLINE", "REMOVE_DEAD_USERS"}

\* Headers neither switch knows: no body is written, none is read.
Unknown == {"NOT_VALID", "PING", "PONG", "RTC_SIGNAL_CAPABILITY", "RTC_SIGNAL_DISABLED"}

FileFields == <<"PrefixSize", "FileKey", "FileNonce", "FileMIME", "FileUUID">>

\* A definition named X_Y is X with one plausible mistake.  It is used in no
\* specification; the property it breaks is named beside it.

\* Breaks RoundTrip: the two fields of a candidate are exchanged.
Writes_Swapped(h) ==
    CASE h = "ICE_CANDIDATE"       -> <<"Target", "ICECandidate", "SDPMid", "SDPMLineIndex">>
      [] h = "FILE_ATTACHMENT"     -> FileFields
      [] h = "TEXT_MESSAGE"        -> <<"MessageType", "Message">>
      [] h \in {"RTC_OFFER", "RTC_ANSWER"} -> <<"Target", "SDPData">>
      [] h = "SET_LOCKDOWN_LEVEL"  -> <<"Level">>
      [] h \in {"MOD_ELECTED", "WHITELIST_USER"} -> <<"Target">>
      [] h = "SET_MODERATION_TABLE" -> <<"TableKey">>
      [] h \in Plain \union Unknown \union {"SET_COLOR"} -> <<>>

Writes(h) ==
    CASE h = "FILE_ATTACHMENT"     -> FileFields
      [] h = "TEXT_MESSAGE"        -> <<"MessageType", "Message">>
      [] h \in {"RTC_OFFER", "RTC_ANSWER"} -> <<"Target", "SDPData">>
      [] h = "ICE_CANDIDATE"       -> <<"Target", "ICECandidate", "SDPMLineIndex", "SDPMid">>
      [] h = "SET_LOCKDOWN_LEVEL"  -> <<"Level">>
      [] h = "SET_MODERATION_TABLE" -> <<"TableKey">>
      [] h = "MOD_ELECTED"         -> <<"Target">>
      [] h = "WHITELIST_USER"      -> <<"Target">>
      [] h \in Plain \union Unknown \union {"SET_COLOR"} -> <<>>

Reads(h) ==
    CASE h = "FILE_ATTACHMENT"     -> FileFields
      [] h = "TEXT_MESSAGE"        -> <<"MessageType", "Message">>
      [] h \in {"RTC_OFFER", "RTC_ANSWER"} -> <<"Target", "SDPData">>
      [] h = "ICE_CANDIDATE"       -> <<"Target", "ICECandidate", "SDPMLineIndex", "SDPMid">>
      [] h = "WHITELIST_USER"      -> <<"Target">>
      [] h = "SET_LOCKDOWN_LEVEL"  -> <<"Level">>
      [] h = "SET_MODERATION_TABLE" -> <<"TableKey">>
      [] h = "MOD_ELECTED"         -> <<"Target">>
      [] h \in Plain \union Unknown \union {"SET_COLOR"} -> <<>>

\* Every submessage has a Header and a function `val' of its fields; a colour
\* and a moderation table, whose bodies vary in length, are fields of their own.
EncodeFields(bx) ==
    [i \in 1..Len(Writes(bx.Header)) |->
       <<Writes(bx.Header)[i], bx.val[Writes(bx.Header)[i]]>>]

EncodeBody(bx) ==
    CASE bx.Header = "SET_COLOR" ->
           [i \in 1..3 |-> <<"byte", ColorBytes(bx.val.Color)[i]>>]
      [] bx.Header = "SET_MODERATION_TABLE" ->
           <<<<"count", Len(bx.val.Table)>>>> \o
           [i \in 1..Len(bx.val.Table) |-> <<"entry", bx.val.Table[i]>>]
      [] OTHER -> <<>>

EncodeOne(bx) == <<<<"Header", bx.Header>>>> \o EncodeFields(bx) \o EncodeBody(bx)

\* A submessage of the type BEX: the fields its header calls for, the varying
\* ones a string and a slice.
Headers ==
    Plain \union Unknown \union
    {"SET_COLOR", "FILE_ATTACHMENT", "TEXT_MESSAGE", "RTC_OFFER", "RTC_ANSWER",
     "ICE_CANDIDATE", "SET_LOCKDOWN_LEVEL", "SET_MODERATION_TABLE", "MOD_ELECTED",
     "WHITELIST_USER"}

Varying(h) ==
    CASE h = "SET_COLOR" -> {"Color"}
      [] h = "SET_MODERATION_TABLE" -> {"Table"}
      [] OTHER -> {}

Submessage(bx) ==
    /\ bx.Header \in Headers
    /\ DOMAIN bx.val = ToSet(Writes(bx.Header)) \union Varying(bx.Header)
    /\ \A f \in Varying(bx.Header) : bx.val[f] \in Seq(ToSet(bx.val[f]))

TooLong(bx) == bx.Header = "SET_MODERATION_TABLE" /\ Len(bx.val.Table) > MaxTable

\* A packet is any sequence of submessages, as EncodeBEX takes it.
ASSUME PacketsAssumption ==
    \A bs \in Packets : bs \in Seq(ToSet(bs)) /\ \A i \in 1..Len(bs) : Submessage(bs[i])

EncodeBEX(bs) == FlattenSeq([i \in 1..Len(bs) |-> EncodeOne(bs[i])])

Init ==
    /\ sent \in Packets /\ private \in BOOLEAN
    /\ wire = EncodeBEX(sent) /\ length = Len(sent)
    /\ b = <<>> /\ pc = "decode" /\ handled = 0 /\ effects = <<>>

-----------------------------------------------------------------------------
TooMany ==
    /\ pc = "decode" /\ b = <<>> /\ length > MaxSubmessages
    /\ pc' = "done"
    /\ UNCHANGED <<sent, private, wire, length, b, handled, effects>>

\* A field is read as what it is written as: a token of another field means
\* that writer and reader disagree, and its value is lost.
ReadField(field, token) == IF token[1] = field THEN token[2] ELSE "garbled"

\* How many tokens follow the header and fixed fields of a submessage.
BodyLength(h, n) ==
    CASE h = "SET_COLOR" -> 3
      [] h = "SET_MODERATION_TABLE" -> 1 + (IF wire[n + 1][2] > MaxTable THEN 0 ELSE wire[n + 1][2])
      [] OTHER -> 0

Body(h, n) ==
    CASE h = "SET_COLOR" -> [Color |-> ColorOf([i \in 1..3 |-> wire[n + i][2]])]
      [] h = "SET_MODERATION_TABLE" ->
           [Table |-> [i \in 1..(BodyLength(h, n) - 1) |-> wire[n + 1 + i][2]]]
      [] OTHER -> <<>>

\* The submessage that the unread tokens begin with, and how many it takes.
ReadOne ==
    LET h     == wire[1][2]
        names == Reads(h)
        fixed == [f \in ToSet(names) |->
                    LET i == CHOOSE i \in 1..Len(names) : names[i] = f
                    IN  ReadField(f, wire[i + 1])]
        body  == Body(h, Len(names) + 1)
    IN  [Header |-> h,
         val    |-> [f \in DOMAIN fixed \union DOMAIN body |->
                       IF f \in DOMAIN body THEN body[f] ELSE fixed[f]]]

ReadLength ==
    LET h == wire[1][2]
        n == Len(Reads(h)) + 1
    IN  n + BodyLength(h, n)

AtHeader == wire # <<>> /\ wire[1][1] = "Header"

\* One round of DecodeBEX's loop.
DecodeOne ==
    /\ pc = "decode" /\ length <= MaxSubmessages /\ Len(b) < length /\ AtHeader
    /\ b' = Append(b, ReadOne)
    /\ wire' = SubSeq(wire, ReadLength + 1, Len(wire))
    /\ UNCHANGED <<sent, private, length, pc, handled, effects>>

\* What fields that were never written as such may hold: anything, perhaps
\* the receiver's own name.
Garbled(h, target) ==
    [f \in ToSet(Reads(h)) \union Varying(h) |->
       IF f = "Target" THEN target ELSE IF f \in Varying(h) THEN <<"garbled">> ELSE "garbled"]

\* The same round where no header is next: the unread bytes are over, and the
\* zeros that are read for them make a NOT_VALID; or the reader stands at an
\* entry of a table it left unread (DecodeOne), whose first byte, the length of
\* a string, is taken for a header.  Which header, and how far its fields go,
\* depends on the bytes: here on nothing.
Misread ==
    /\ pc = "decode" /\ length <= MaxSubmessages /\ Len(b) < length /\ ~ AtHeader
    /\ \E h \in IF wire = <<>> THEN {"NOT_VALID"} ELSE Headers,
          target \in {"garbled", MyName}, read \in 0..Len(wire) :
         /\ b' = Append(b, [Header |-> h, val |-> Garbled(h, target)])
         /\ wire' = SubSeq(wire, read + 1, Len(wire))
    /\ UNCHANGED <<sent, private, length, pc, handled, effects>>

EndDecode ==
    /\ pc = "decode" /\ length <= MaxSubmessages /\ Len(b) = length
    /\ pc' = "handle"
    /\ UNCHANGED <<sent, private, wire, length, b, handled, effects>>

-----------------------------------------------------------------------------
\* Submessages the group handler acts on: events, a flag, a moderation table.
HandlesGroup ==
    {"FILE_ATTACHMENT", "BEX_COMPOSING", "BEX_PAUSED", "SET_COLOR", "RTC_ANSWER",
     "RTC_OFFER", "ICE_CANDIDATE", "RTC_SIGNAL_CAPABILITY", "MOD_ELECTED",
     "FLAG_ME_AS_BOT", "SET_MODERATION_TABLE"}

HandlesPrivate == {"FILE_ATTACHMENT", "BEX_COMPOSING", "BEX_PAUSED"}

Concerns(bx) ==
    /\ bx.Header \in IF private THEN HandlesPrivate ELSE HandlesGroup
    /\ bx.Header \in {"RTC_ANSWER", "RTC_OFFER", "ICE_CANDIDATE"} => bx.val.Target = MyName
    /\ bx.Header = "SET_MODERATION_TABLE" => FromMod

\* One round of the loop of handleGroupBEXPacket or handlePrivateBEXPacket.
HandleOne ==
    /\ pc = "handle" /\ handled < Len(b)
    /\ handled' = handled + 1
    /\ effects' = IF Concerns(b[handled + 1]) THEN Append(effects, b[handled + 1])
                                              ELSE effects
    /\ UNCHANGED <<sent, private, wire, length, b, pc>>

EndHandle ==
    /\ pc = "handle" /\ handled = Len(b)
    /\ pc' = "done"
    /\ UNCHANGED <<sent, private, wire, length, b, handled, effects>>

Next == TooMany \/ DecodeOne \/ Misread \/ EndDecode \/ HandleOne \/ EndHandle

Spec == Init /\ [][Next]_vars

-----------------------------------------------------------------------------
\* What a receiver gets of a submessage: the header and every field as they
\* were sent, but a colour only if each of its bytes has two digits (any other
\* text comes as black), and no entry of a table that is over the limit.
Same(in, out) ==
    /\ out.Header = in.Header /\ DOMAIN out.val = DOMAIN in.val
    /\ \A f \in DOMAIN in.val :
         CASE f = "Color" ->
                IF ValidColor(in.val.Color)
                THEN out.val.Color = in.val.Color <=> \A i \in {1, 3, 5} : in.val.Color[i] # 0
                ELSE out.val.Color = <<0, 0, 0>>
           [] f = "Table" ->
                out.val.Table = IF Len(in.val.Table) > MaxTable THEN <<>>
                                ELSE in.val.Table
           [] OTHER -> out.val[f] = in.val[f]

Decoded == pc # "decode" /\ length <= MaxSubmessages

(* Encoding and decoding agree field by field, in whatever order the        *)
(* submessages of a packet come, up to the first table that is over the     *)
(* limit: each is read as it was written, to its last token, so that it     *)
(* does not shift the next one.  The table itself still comes, without its  *)
(* entries; those behind it are not promised anything (dog_bex.go:138-188   *)
(* and 198-242).                                                            *)
RoundTrip ==
    Decoded =>
        /\ Len(b) = length
        /\ \A i \in 1..length :
             (\A j \in 1..(i - 1) : ~ TooLong(sent[j])) => Same(sent[i], b[i])

(* The receiver acts on nothing that was not sent.  Violated: DecodeBEX     *)
(* leaves the entries of a table over the limit unread and goes on, so that *)
(* they are taken for the submessages that follow (dog_bex.go:172-174),     *)
(* where it refuses a packet over its other limit (134-136).                *)
NothingInvented ==
    \A i \in 1..Len(effects) : \E j \in 1..Len(sent) : Same(sent[j], effects[i])
=============================================================================
