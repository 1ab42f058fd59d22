-------------------------------- MODULE Otr --------------------------------
(***************************************************************************)
(* A private conversation between two clients of the library, and the      *)
(* question by which they verify each other (src/dog/dog_room.go: DM,      *)
(* initOtr, Ask, Answer, prepareAnswer; dog_conn.go: the "chat" messages   *)
(* of processMessage).  Every stanza is handled by a goroutine of its own  *)
(* and every call of the program runs in one: they interleave wherever the *)
(* Member, which has no lock, is read and written.  What a goroutine does  *)
(* with the conversation it has read is one step, at that read: should     *)
(* initOtr replace the conversation meanwhile, nobody looks at the old one *)
(* again.  The event it raises on the Member takes steps of its own.       *)
(*                                                                         *)
(* otr3 is external.  Its key exchange is a query, a commitment and a      *)
(* signature here (the real one has two more messages before the last),    *)
(* and how it resolves two exchanges at once is left open; its SMP has its *)
(* four messages.  The texts of private messages are left out, answers are *)
(* already normalised, and the conversation ends when somebody leaves.     *)
(***************************************************************************)
EXTENDS Naturals, FiniteSets

CONSTANTS
    A, B,       \* the two ends; each has the Multiparty key of its name
    Stranger,   \* a key that belongs to neither of them
    Trust,      \* the keys they may trust for each other: functions on {A, B}
    Words,      \* normalised answers
    MaxCalls,   \* calls of Ask and DM, numbered as they are made
    None        \* no key, nothing in hand

Ends == {A, B}
Peer(e) == IF e = A THEN B ELSE A
Keys == Ends \union {Stranger}

ASSUME OtrAssumption ==
    /\ A # B /\ Stranger \notin Ends /\ None \notin Keys
    /\ Trust \subseteq [Ends -> Keys \union {None}]
    /\ None \notin {"success", "failure"}
    /\ MaxCalls \in Nat

VARIABLES
    fp,        \* the Multiparty key an end trusts for the other, None if none
    otr,       \* Member.otr: "nil", "plain" or "secure"
    session,   \* the exchange whose keys it uses, 0 if none
    offered,   \* the exchange it has committed to, 0 if none
    onInit,    \* Member.onInit: the call of Ask whose question it is, 0 if nil
    tasks,     \* what the goroutines of an end still have to do (two that have the
               \* same left to do, in the same place, are one)
    smp,       \* where the conversation's SMP stands
    mine,      \* the secret an end put into it
    theirs,    \* the secret the other end put into it
    (* history and bounds *)
    given,     \* the words an end has put into a secret
    result,    \* the last of SMPSuccess and SMPFailure emitted
    calls,     \* the number of calls of Ask and DM made so far
    asks,      \* those of them that are an end's Ask
    questions, \* how often the question of each has been sent
    raced,     \* Ask set onInit when the conversation had become secure
    replaced,  \* another Ask wrote over its question in onInit
    created,   \* the conversations initOtr has made for an end
    begun,     \* exchanges begun
    together,  \* two goroutines were between their reads of onInit and its reset
    crashed    \* a nil function was started: the process is gone

member  == <<otr, session, offered>>
proof   == <<smp, mine, theirs>>
mishaps == <<together, crashed>>
history == <<calls, asks, raced, replaced, created, begun>>
vars    == <<fp, member, onInit, tasks, proof, given, result, questions, history, mishaps>>

-----------------------------------------------------------------------------
(* Messages and goroutines *)

Calls == 1..MaxCalls
Sessions == Calls         \* each call opens one exchange at most

Secrets == {<<w>> : w \in Words} \union (Words \X Keys \X Keys)

Query(n)          == [type |-> "query", call |-> n]
Exchange(type, s) == [type |-> type, session |-> s]
Question(n, s, x, again) ==
    [type |-> "question", call |-> n, session |-> s, secret |-> x, again |-> again]
Reply(s, x)       == [type |-> "reply", session |-> s, secret |-> x]

Messages ==
    [type : {"query"}, call : Calls] \union
    [type : {"commit", "signature", "proof", "last", "abort"}, session : Sessions] \union
    [type : {"question"}, call : Calls, session : Sessions, secret : Secrets, again : BOOLEAN] \union
    [type : {"reply"}, session : Sessions, secret : Secrets]

\* A goroutine is in Ask before initOtr ("set"), has initOtr's nil check before
\* it ("init") or has found nil ("create").  "doAsk" is past all that.  "gone" is
\* in HandleSecurityEvent, before its check of onInit, its read or its reset of
\* it, with the question it has read and the signature still to be sent, if any.
Tasks ==
    [do : {"ask"}, at : {"set", "init", "create"}, call : Calls] \union
    [do : {"dm"}, at : {"init", "create"}, call : Calls] \union
    [do : {"doAsk"}, at : {"init"}, call : Calls] \union
    [do : {"receive"}, at : {"init", "create"}, msg : Messages] \union
    [do : {"gone"}, at : {"check", "read", "reset"}, call : Calls \union {0},
     session : Sessions, sign : BOOLEAN]

Received(m) == [do |-> "receive", at |-> "init", msg |-> m]

\* One goroutine of e leaves its task for those in `own'; messages go out.
\* Goroutines of the receiver run in any order, so the wire needs none.
Step(e, done, own, out) ==
    tasks' = [tasks EXCEPT
        ![e] = (@ \ done) \union own,
        ![Peer(e)] = @ \union {Received(m) : m \in out}]

Init ==
    /\ fp \in Trust
    /\ otr = [e \in Ends |-> "nil"]
    /\ session = [e \in Ends |-> 0] /\ offered = [e \in Ends |-> 0]
    /\ onInit = [e \in Ends |-> 0]
    /\ tasks = [e \in Ends |-> {}]
    /\ smp = [e \in Ends |-> "idle"]
    /\ mine = [e \in Ends |-> None] /\ theirs = [e \in Ends |-> None]
    /\ given = [e \in Ends |-> {}] /\ result = [e \in Ends |-> None]
    /\ calls = 0 /\ asks = [e \in Ends |-> {}]
    /\ questions = [n \in Calls |-> 0]
    /\ raced = {} /\ replaced = {}
    /\ created = [e \in Ends |-> 0] /\ begun = 0
    /\ together = [e \in Ends |-> FALSE] /\ crashed = [e \in Ends |-> FALSE]

-----------------------------------------------------------------------------
(* The program calls DM, Ask and Answer                                     *)
(*                                                                          *)
(* A definition named X_Y is X with one plausible mistake: it is used in no *)
(* specification, and the property it breaks is named beside it.            *)

Call(e, what, at) ==
    /\ calls < MaxCalls
    /\ calls' = calls + 1
    /\ Step(e, {}, {[do |-> what, at |-> at, call |-> calls + 1]}, {})
    /\ UNCHANGED <<fp, member, onInit, proof, given, result, questions,
                   raced, replaced, created, begun, mishaps>>

DM(e) == Call(e, "dm", "init") /\ UNCHANGED asks

AskCall(e) == asks' = [asks EXCEPT ![e] = @ \union {calls + 1}]

\* Breaks AskNotForgotten: any conversation will do.
Ask_WhenNotNil(e) ==
    /\ AskCall(e)
    /\ \/ otr[e] # "nil" /\ Call(e, "doAsk", "init")
       \/ otr[e] = "nil" /\ Call(e, "ask", "set")

\* Ask looks at the conversation once, and either asks or leaves the question
\* to GoneSecure.
Ask(e) ==
    /\ AskCall(e)
    /\ \/ otr[e] = "secure" /\ Call(e, "doAsk", "init")
       \/ otr[e] # "secure" /\ Call(e, "ask", "set")

\* A question that waits there is lost.
SetOnInit(e, t) ==
    /\ t.at = "set"
    /\ onInit' = [onInit EXCEPT ![e] = t.call]
    /\ replaced' = replaced \union ({onInit[e]} \ {0})
    /\ raced' = IF otr[e] = "secure" THEN raced \union {t.call} ELSE raced
    /\ Step(e, {t}, {[t EXCEPT !.at = "init"]}, {})
    /\ UNCHANGED <<fp, member, proof, given, result, questions,
                   calls, asks, created, begun, mishaps>>

\* Breaks VerifiedMeansTrusted: the fingerprints are left out.
prepareAnswer_WordOnly(e, answer, ask) == <<answer>>

\* Breaks HonestVerified: both ends put their own fingerprint first.
prepareAnswer_MineFirst(e, answer, ask) ==
    IF fp[e] = None THEN <<answer>> ELSE <<answer, e, fp[e]>>

\* The fingerprint of who asks comes first.
prepareAnswer(e, answer, ask) ==
    IF fp[e] = None THEN <<answer>>
    ELSE IF ask     THEN <<answer, e, fp[e]>>
    ELSE                 <<answer, fp[e], e>>

\* StartAuthenticate: an error without a secure conversation.  A proof in
\* progress is aborted, and the question says so.  The answer given to Ask is
\* chosen here, where it is used.
doAsk(e, t) ==
    /\ t.do = "doAsk"
    /\ \/ /\ otr[e] = "secure"
          /\ \E answer \in Words :
               LET x == prepareAnswer(e, answer, TRUE)
               IN  /\ Step(e, {t}, {}, {Question(t.call, session[e], x, smp[e] # "idle")})
                   /\ mine' = [mine EXCEPT ![e] = x]
                   /\ given' = [given EXCEPT ![e] = @ \union {answer}]
          /\ smp' = [smp EXCEPT ![e] = "asked"]
          /\ theirs' = [theirs EXCEPT ![e] = None]
          /\ questions' = [questions EXCEPT ![t.call] = @ + 1]
       \/ /\ otr[e] # "secure"
          /\ Step(e, {t}, {}, {})
          /\ UNCHANGED <<proof, given, questions>>
    /\ UNCHANGED <<fp, member, onInit, result, history, mishaps>>

\* Answer, at any time: an error unless a question waits for it.
Answer(e, answer) ==
    /\ smp[e] = "heard"
    /\ LET x == prepareAnswer(e, answer, FALSE)
       IN  /\ Step(e, {}, {}, {Reply(session[e], x)})
           /\ mine' = [mine EXCEPT ![e] = x]
    /\ smp' = [smp EXCEPT ![e] = "answered"]
    /\ given' = [given EXCEPT ![e] = @ \union {answer}]
    /\ UNCHANGED <<fp, member, onInit, theirs, result, questions, history, mishaps>>

-----------------------------------------------------------------------------
(* initOtr, on the way of DM, Ask and every message received *)

initOtr(e, t) ==
    /\ t.do \in {"ask", "dm", "receive"} /\ t.at = "init" /\ otr[e] = "nil"
    /\ Step(e, {t}, {[t EXCEPT !.at = "create"]}, {})
    /\ UNCHANGED <<fp, member, onInit, proof, given, result, questions, history, mishaps>>

\* The proof is over, or the conversation is new.
Idle(e) ==
    /\ smp' = [smp EXCEPT ![e] = "idle"]
    /\ mine' = [mine EXCEPT ![e] = None] /\ theirs' = [theirs EXCEPT ![e] = None]

\* The nil seen before may be gone: whatever is there is replaced.
create(e, t) ==
    /\ t.at = "create"
    /\ otr' = [otr EXCEPT ![e] = "plain"]
    /\ session' = [session EXCEPT ![e] = 0] /\ offered' = [offered EXCEPT ![e] = 0]
    /\ Idle(e)
    /\ created' = [created EXCEPT ![e] = @ + 1]
    /\ Step(e, {t}, {[t EXCEPT !.at = "init"]}, {})
    /\ UNCHANGED <<fp, onInit, given, result, questions,
                   calls, asks, raced, replaced, begun, mishaps>>

Ready(e, t) == t.at = "init" /\ otr[e] # "nil"

\* Send: with RequireEncryption, a plain conversation answers a text with the
\* query that opens an exchange; a secure one sends the text, left out here.
Send(e, t) ==
    /\ t.do \in {"dm", "ask"} /\ Ready(e, t)
    /\ Step(e, {t}, {}, IF otr[e] = "plain" THEN {Query(t.call)} ELSE {})
    /\ UNCHANGED <<fp, member, onInit, proof, given, result, questions, history, mishaps>>

-----------------------------------------------------------------------------
(* Receive, one action per kind of message *)

Receiving(e, t, type) == t.do = "receive" /\ Ready(e, t) /\ t.msg.type = type

ReceiveQuery(e, t) ==
    /\ Receiving(e, t, "query")
    /\ begun' = begun + 1
    /\ offered' = [offered EXCEPT ![e] = begun + 1]
    /\ Step(e, {t}, {}, {Exchange("commit", begun + 1)})
    /\ UNCHANGED <<fp, otr, session, onInit, proof, given, result, questions,
                   calls, asks, raced, replaced, created, mishaps>>

Signature(s, sign) == IF sign THEN {Exchange("signature", s)} ELSE {}

\* Inside Receive, before its answer is sent.
Handler(at, n, s, sign) == [do |-> "gone", at |-> at, call |-> n, session |-> s, sign |-> sign]

\* Breaks OneHandler: StillSecure is handled like GoneSecure.
GoneSecure_StillSecure(e, t, s, sign) ==
    /\ otr' = [otr EXCEPT ![e] = "secure"]
    /\ session' = [session EXCEPT ![e] = s]
    /\ offered' = [offered EXCEPT ![e] = 0]
    /\ Step(e, {t}, {Handler("check", 0, s, sign)}, {})

\* The keys are agreed upon.  A renewed exchange is not GoneSecure.
GoneSecure(e, t, s, sign) ==
    /\ otr' = [otr EXCEPT ![e] = "secure"]
    /\ session' = [session EXCEPT ![e] = s]
    /\ offered' = [offered EXCEPT ![e] = 0]
    /\ \/ otr[e] # "secure" /\ Step(e, {t}, {Handler("check", 0, s, sign)}, {})
       \/ otr[e] = "secure" /\ Step(e, {t}, {}, Signature(s, sign))

Ignored(e, t) == Step(e, {t}, {}, {}) /\ UNCHANGED member

\* With another exchange begun, otr3 may drop this one.
ReceiveCommit(e, t) ==
    /\ Receiving(e, t, "commit")
    /\ \/ GoneSecure(e, t, t.msg.session, TRUE)
       \/ begun > 1 /\ Ignored(e, t)
    /\ UNCHANGED <<fp, onInit, proof, given, result, questions, history, mishaps>>

ReceiveSignature(e, t) ==
    /\ Receiving(e, t, "signature")
    /\ \/ offered[e] = t.msg.session /\ GoneSecure(e, t, t.msg.session, FALSE)
       \/ offered[e] # t.msg.session /\ Ignored(e, t)
    /\ UNCHANGED <<fp, onInit, proof, given, result, questions, history, mishaps>>

HandleSecurityEvent(e, t) == t.do = "gone" /\ UNCHANGED <<fp, member, proof, given, result, questions, history>>

Handling(e) == {u \in tasks[e] : u.do = "gone" /\ u.at # "check"}

CheckOnInit(e, t) ==
    /\ HandleSecurityEvent(e, t) /\ t.at = "check"
    /\ \/ /\ onInit[e] = 0
          /\ Step(e, {t}, {}, Signature(t.session, t.sign))
          /\ UNCHANGED together
       \/ /\ onInit[e] # 0
          /\ Step(e, {t}, {Handler("read", 0, t.session, t.sign)}, {})
          /\ together' = [together EXCEPT ![e] = @ \/ Handling(e) # {}]
    /\ UNCHANGED <<onInit, crashed>>

\* It may have been reset since.
ReadOnInit(e, t) ==
    /\ HandleSecurityEvent(e, t) /\ t.at = "read"
    /\ Step(e, {t}, {Handler("reset", onInit[e], t.session, t.sign)}, {})
    /\ UNCHANGED <<onInit, mishaps>>

Start(e, t) ==
    \/ t.call # 0 /\ UNCHANGED crashed
       /\ Step(e, {t}, {[do |-> "doAsk", at |-> "init", call |-> t.call]},
               Signature(t.session, t.sign))
    \/ t.call = 0 /\ crashed' = [crashed EXCEPT ![e] = TRUE] /\ UNCHANGED tasks

\* Breaks AskedOnce: onInit keeps its question.
ResetOnInit_Keeps(e, t) ==
    /\ HandleSecurityEvent(e, t) /\ t.at = "reset"
    /\ Start(e, t)
    /\ UNCHANGED <<onInit, together>>

\* go fn(), which ends the process when fn is nil.
ResetOnInit(e, t) ==
    /\ HandleSecurityEvent(e, t) /\ t.at = "reset"
    /\ onInit' = [onInit EXCEPT ![e] = 0]
    /\ Start(e, t)
    /\ UNCHANGED together

Readable(e, m) == otr[e] = "secure" /\ session[e] = m.session

\* HandleSMPEvent: SMPQuestion is emitted and waits for Answer.  A question
\* that crosses another one aborts both.
ReceiveQuestion(e, t) ==
    /\ Receiving(e, t, "question") /\ Readable(e, t.msg)
    /\ \/ /\ smp[e] = "idle" \/ t.msg.again
          /\ smp' = [smp EXCEPT ![e] = "heard"]
          /\ theirs' = [theirs EXCEPT ![e] = t.msg.secret]
          /\ mine' = [mine EXCEPT ![e] = None]
          /\ Step(e, {t}, {}, {})
       \/ /\ smp[e] # "idle" /\ ~ t.msg.again
          /\ Idle(e)
          /\ Step(e, {t}, {}, {Exchange("abort", session[e])})
    /\ UNCHANGED <<fp, member, onInit, given, result, questions, history, mishaps>>

ReceiveReply(e, t) ==
    /\ Receiving(e, t, "reply") /\ Readable(e, t.msg)
    /\ smp[e] = "asked"
    /\ theirs' = [theirs EXCEPT ![e] = t.msg.secret]
    /\ smp' = [smp EXCEPT ![e] = "proved"]
    /\ Step(e, {t}, {}, {Exchange("proof", session[e])})
    /\ UNCHANGED <<fp, member, onInit, mine, given, result, questions, history, mishaps>>

\* Breaks Concluded: the messages Receive returns are dropped.
ReceiveProof_Mute(e, t) ==
    /\ Receiving(e, t, "proof") /\ Readable(e, t.msg)
    /\ smp[e] = "answered"
    /\ result' = [result EXCEPT ![e] = IF mine[e] = theirs[e] THEN "success" ELSE "failure"]
    /\ Idle(e)
    /\ Step(e, {t}, {}, {})
    /\ UNCHANGED <<fp, member, onInit, given, questions, history, mishaps>>

\* SMPSuccess or SMPFailure: first for the end that answered.
ReceiveProof(e, t) ==
    /\ Receiving(e, t, "proof") /\ Readable(e, t.msg)
    /\ smp[e] = "answered"
    /\ result' = [result EXCEPT ![e] = IF mine[e] = theirs[e] THEN "success" ELSE "failure"]
    /\ Idle(e)
    /\ Step(e, {t}, {}, {Exchange("last", session[e])})
    /\ UNCHANGED <<fp, member, onInit, given, questions, history, mishaps>>

ReceiveLast(e, t) ==
    /\ Receiving(e, t, "last") /\ Readable(e, t.msg)
    /\ smp[e] = "proved"
    /\ result' = [result EXCEPT ![e] = IF mine[e] = theirs[e] THEN "success" ELSE "failure"]
    /\ Idle(e)
    /\ Step(e, {t}, {}, {})
    /\ UNCHANGED <<fp, member, onInit, given, questions, history, mishaps>>

OutOfTurn(e, m) ==
    \/ m.type = "reply" /\ smp[e] # "asked"
    \/ m.type = "proof" /\ smp[e] # "answered"
    \/ m.type = "last"  /\ smp[e] # "proved"

\* An abort, or a message out of turn, which aborts as well: no event.
ReceiveAbort(e, t) ==
    /\ \E type \in {"abort", "reply", "proof", "last"} : Receiving(e, t, type)
    /\ Readable(e, t.msg)
    /\ t.msg.type = "abort" \/ OutOfTurn(e, t.msg)
    /\ Idle(e)
    /\ Step(e, {t}, {}, IF t.msg.type = "abort" THEN {} ELSE {Exchange("abort", session[e])})
    /\ UNCHANGED <<fp, member, onInit, given, result, questions, history, mishaps>>

\* Breaks TypeOK: whatever cannot be read opens a new exchange.
ReceiveUnreadable_Queries(e, t) ==
    /\ t.do = "receive" /\ Ready(e, t)
    /\ t.msg.type \notin {"query", "commit", "signature"}
    /\ ~ Readable(e, t.msg)
    /\ Step(e, {t}, {}, {Query(1)})
    /\ UNCHANGED <<fp, member, onInit, proof, given, result, questions, history, mishaps>>

\* Encrypted under keys the conversation does not have yet, or no longer has.
ReceiveUnreadable(e, t) ==
    /\ t.do = "receive" /\ Ready(e, t)
    /\ t.msg.type \notin {"query", "commit", "signature"}
    /\ ~ Readable(e, t.msg)
    /\ Step(e, {t}, {}, {})
    /\ UNCHANGED <<fp, member, onInit, proof, given, result, questions, history, mishaps>>

Receive(e, t) ==
    \/ ReceiveQuery(e, t) \/ ReceiveCommit(e, t) \/ ReceiveSignature(e, t)
    \/ ReceiveQuestion(e, t) \/ ReceiveReply(e, t) \/ ReceiveProof(e, t) \/ ReceiveLast(e, t)
    \/ ReceiveAbort(e, t) \/ ReceiveUnreadable(e, t)

Goroutine(e, t) ==
    \/ SetOnInit(e, t) \/ doAsk(e, t)
    \/ initOtr(e, t) \/ create(e, t) \/ Send(e, t) \/ Receive(e, t)
    \/ CheckOnInit(e, t) \/ ReadOnInit(e, t) \/ ResetOnInit(e, t)

Next ==
    \E e \in Ends : ~ crashed[e] /\
        (\/ DM(e) \/ Ask(e)
        \/ \E answer \in Words : Answer(e, answer)
        \/ \E t \in tasks[e] : Goroutine(e, t))

Spec == Init /\ [][Next]_vars

-----------------------------------------------------------------------------
(* The types of the conversation's state; no more exchanges are begun than  *)
(* there were calls.                                                        *)
TypeOK ==
    /\ fp \in Trust
    /\ otr \in [Ends -> {"nil", "plain", "secure"}]
    /\ session \in [Ends -> Sessions \union {0}] /\ offered \in [Ends -> Sessions \union {0}]
    /\ onInit \in [Ends -> Calls \union {0}]
    /\ tasks \in [Ends -> SUBSET Tasks]
    /\ smp \in [Ends -> {"idle", "asked", "heard", "answered", "proved"}]
    /\ mine \in [Ends -> Secrets \union {None}] /\ theirs \in [Ends -> Secrets \union {None}]
    /\ given \in [Ends -> SUBSET Words]
    /\ result \in [Ends -> {"success", "failure", None}]
    /\ calls \in 0..MaxCalls /\ asks \in [Ends -> SUBSET Calls]
    /\ questions \in [Calls -> Nat]
    /\ raced \subseteq Calls /\ replaced \subseteq Calls
    /\ created \in [Ends -> Nat] /\ begun \in 0..MaxCalls
    /\ together \in [Ends -> BOOLEAN] /\ crashed \in [Ends -> BOOLEAN]

TrustEachOther == \A e \in Ends : fp[e] = Peer(e)

(* SMPSuccess means that both ends have given the same answer and trust     *)
(* each other's real Multiparty key - or that neither trusts any, the case  *)
(* in which prepareAnswer leaves the fingerprints out (dog_room.go:249-262) *)
(* and success says nothing of the group's keys.                            *)
VerifiedMeansTrusted ==
    \A e \in Ends : result[e] = "success" =>
        /\ given[e] \intersect given[Peer(e)] # {}
        /\ TrustEachOther \/ \A f \in Ends : fp[f] = None

(* Ends that trust each other's real keys and have never given different    *)
(* answers are not told of a failure, whoever asks and however questions    *)
(* cross or are interrupted (dog_room.go:236-265).                          *)
HonestVerified ==
    \A e \in Ends : result[e] = "failure" =>
        \/ ~ TrustEachOther
        \/ \E w \in given[e], v \in given[Peer(e)] : w # v

(* Only goroutines of two conversations, of which initOtr replaced one, are *)
(* ever in HandleSecurityEvent together, where both see the same onInit and *)
(* where one may start the nil that the other has left: a Member with one   *)
(* conversation never does (dog_room.go:131-146 and 179-187).               *)
OneHandler == \A e \in Ends : together[e] \/ crashed[e] => created[e] > 1

(* A question is sent more than once only if two goroutines were between    *)
(* their checks of onInit and its reset at once: however often the          *)
(* conversation is made anew and becomes secure, and whatever other         *)
(* questions are asked, one that was taken is not taken again               *)
(* (dog_room.go:179-187 and 282-301).                                       *)
AskedOnce == \A e \in Ends : \A n \in asks[e] : questions[n] > 1 => together[e]

Quiet == \A e \in Ends : tasks[e] = {}
Smooth == begun <= 1 /\ \A e \in Ends : created[e] <= 1

(* When all goroutines are done, and neither exchanges crossed nor initOtr  *)
(* replaced a conversation, the question of every Ask has been sent once -  *)
(* but for those that another Ask of the same end wrote over in onInit, and *)
(* those put there when the conversation had already become secure, since   *)
(* Ask looked at it (dog_room.go:284-288).                                  *)
AskNotForgotten ==
    Quiet /\ Smooth =>
        \A e \in Ends : \A n \in asks[e] \ (raced \union replaced) : questions[n] = 1

(* When all goroutines are done, no end that answered a question, or had    *)
(* its own answered, is left without a verdict or an abort, unless          *)
(* exchanges crossed or initOtr threw a conversation away: only a question  *)
(* can overtake the signature that makes it readable (dog_conn.go:343-356). *)
Concluded ==
    Quiet /\ Smooth => \A e \in Ends : smp[e] \in {"idle", "asked", "heard"}
=============================================================================
