----------------------------- MODULE Otr_proofs -----------------------------
(***************************************************************************)
(* Proofs about Otr, for any answers, any trust and any number of calls:   *)
(* what a verdict of the SMP means, when handlers of GoneSecure can meet,  *)
(* that a question is asked once, and that neither a question nor a proof  *)
(* is left waiting.                                                        *)
(*                                                                         *)
(* The types need that no more exchanges are begun than calls were made:   *)
(* the right of a call to open one is with one goroutine or one query at   *)
(* a time (OneCarrier), and is used up where the exchange begins (TInv).   *)
(*                                                                         *)
(* A verdict compares two secrets an end holds.  VInv says where every     *)
(* secret comes from, in the hands of an end (Held) and on the way to one  *)
(* (Carried): who asks has put its own fingerprint first, who answers the  *)
(* other's.                                                                *)
(*                                                                         *)
(* As long as initOtr made one conversation, GoneSecure was raised once    *)
(* and has one handler (HInv).  As long as handlers did not meet, the      *)
(* right to send a question is in one place at a time: with Ask, in        *)
(* onInit, with the handler that read it, with doAsk, or used (RInv).      *)
(*                                                                         *)
(* That nothing is left waiting needs to know what it waits for (EInv):    *)
(* the one exchange for a commitment, a signature or the handler that      *)
(* holds it back (Proceeds), a question for a goroutine, a handler or the  *)
(* conversation (Remembered), a proof for a message that is under way to   *)
(* an end that can read it (Proving).                                      *)
(***************************************************************************)
EXTENDS Otr, FiniteSetTheorems, TLAPS

-----------------------------------------------------------------------------
(* The right to open an exchange *)

AskTask(n)   == [do |-> "ask", at |-> "set", call |-> n]
doAskTask(n) == [do |-> "doAsk", at |-> "init", call |-> n]

\* A task that call n of Ask or DM has come to, up to its query.
Carries(t, n) ==
    \/ t.do \in {"ask", "dm"} /\ t.call = n
    \/ t.do = "receive" /\ t.msg.type = "query" /\ t.msg.call = n

Due(n) == \E f \in Ends : \E t \in tasks[f] : Carries(t, n)

OneCarrier ==
    \A n \in Calls, f, g \in Ends : \A t \in tasks[f], u \in tasks[g] :
        Carries(t, n) /\ Carries(u, n) => f = g /\ t = u /\ n <= calls

\* Calls that cannot open an exchange any more.
Spent == {n \in 1..calls : ~ Due(n)}

\* Of the first b exchanges.
Timely(t, b) ==
    /\ t.do = "receive" /\ t.msg.type # "query" => t.msg.session <= b
    /\ t.do = "gone" => t.session <= b

\* Nothing is of an exchange that has not begun, and only in a conversation that
\* is secure is there a proof in progress.
Dated ==
    \A e \in Ends :
        /\ session[e] <= begun /\ offered[e] <= begun
        /\ otr[e] = "secure" => session[e] # 0
        /\ smp[e] # "idle" => otr[e] = "secure"
        /\ \A t \in tasks[e] : Timely(t, begun)

TInv == TypeOK /\ Dated /\ OneCarrier /\ begun <= Cardinality(Spent)

LEMMA Peers == \A e \in Ends : Peer(e) \in Ends /\ Peer(Peer(e)) = e /\ Peer(e) # e
BY OtrAssumption DEF Peer, Ends

LEMMA TaskKinds ==
    ASSUME NEW t \in Tasks
    PROVE  /\ t.do \in {"ask", "dm", "doAsk", "receive", "gone"}
           /\ t.do = "receive" =>
                t.msg \in Messages /\ t = [do |-> "receive", at |-> t.at, msg |-> t.msg]
           /\ t.do \in {"ask", "dm", "doAsk"} =>
                t.call \in Calls /\ t = [do |-> t.do, at |-> t.at, call |-> t.call]
           /\ t.do = "doAsk" => t = doAskTask(t.call)
           /\ t.at = "set" => t = AskTask(t.call) /\ t.do = "ask" /\ t.call \in Calls
           /\ t.at = "create" => t.do \in {"ask", "dm", "receive"}
           /\ t.do \in {"ask", "dm", "receive"} =>
                [t EXCEPT !.at = "init"] \in Tasks /\ [t EXCEPT !.at = "create"] \in Tasks
BY DEF Tasks, AskTask, doAskTask

LEMMA HandlerKinds ==
    ASSUME NEW t \in Tasks, t.do = "gone"
    PROVE  /\ t.session \in Sessions /\ t.sign \in BOOLEAN /\ t.call \in Calls \union {0}
           /\ t.at \in {"check", "read", "reset"}
           /\ t = [do |-> "gone", at |-> t.at, call |-> t.call,
                   session |-> t.session, sign |-> t.sign]
BY DEF Tasks

LEMMA HandlerTask ==
    ASSUME NEW s \in Sessions, NEW sign \in BOOLEAN, NEW n \in Calls \union {0},
           NEW at \in {"check", "read", "reset"}
    PROVE  /\ Handler(at, n, s, sign) \in Tasks
           /\ Handler(at, n, s, sign).do = "gone" /\ Handler(at, n, s, sign).at = at
           /\ Handler(at, n, s, sign).call = n /\ Handler(at, n, s, sign).session = s
           /\ Handler(at, n, s, sign).sign = sign
BY DEF Tasks, Handler

LEMMA MessageKinds ==
    ASSUME NEW m \in Messages
    PROVE  /\ m.type = "query" => m.call \in Calls
           /\ m.type # "query" => m.session \in Sessions
           /\ m.type \in {"question", "reply"} => m.secret \in Secrets
           /\ Received(m) \in Tasks
BY DEF Messages, Received, Tasks

LEMMA TasksAfter ==
    ASSUME TypeOK, NEW e \in Ends, NEW done, NEW own, NEW out, Step(e, done, own, out)
    PROVE  /\ tasks'[e] = (tasks[e] \ done) \union own
           /\ tasks'[Peer(e)] = tasks[Peer(e)] \union {Received(m) : m \in out}
           /\ Peer(e) \in Ends /\ Peer(e) # e /\ Peer(Peer(e)) = e
           /\ \A f \in Ends : f = e \/ f = Peer(e)
           /\ own \subseteq Tasks /\ out \subseteq Messages => tasks' \in [Ends -> SUBSET Tasks]
           /\ tasks' = [f \in Ends |-> tasks'[f]]
<1>1. Peer(e) \in Ends /\ Peer(e) # e /\ Peer(Peer(e)) = e /\ \A f \in Ends : f = e \/ f = Peer(e)
  BY Peers, OtrAssumption DEF Peer, Ends
<1>2. /\ tasks'[e] = (tasks[e] \ done) \union own
      /\ tasks'[Peer(e)] = tasks[Peer(e)] \union {Received(m) : m \in out}
      /\ tasks' = [f \in Ends |-> tasks'[f]]
  BY <1>1 DEF Step, TypeOK
<1>3. ASSUME own \subseteq Tasks, out \subseteq Messages PROVE tasks' \in [Ends -> SUBSET Tasks]
  <2>1. {Received(m) : m \in out} \subseteq Tasks
    BY <1>3, MessageKinds
  <2>2. tasks'[e] \subseteq Tasks /\ tasks'[Peer(e)] \subseteq Tasks
    BY <1>1, <1>2, <1>3, <2>1 DEF TypeOK
  <2> QED BY <1>1, <1>2, <2>2
<1> QED BY <1>1, <1>2, <1>3

LEMMA CountedCalls ==
    ASSUME TypeOK
    PROVE  calls \in Nat /\ calls <= MaxCalls /\ MaxCalls \in Nat /\ begun \in Nat
BY OtrAssumption DEF TypeOK

LEMMA FiniteSpent ==
    ASSUME NEW c \in Nat, NEW S \in SUBSET (1..c)
    PROVE  IsFiniteSet(S) /\ Cardinality(S) \in Nat /\ Cardinality(S) <= c
<1>1. IsFiniteSet(1..c) /\ Cardinality(1..c) = IF 1 > c THEN 0 ELSE c - 1 + 1
  BY FS_Interval
<1>2. IsFiniteSet(S) /\ Cardinality(S) \in Nat /\ Cardinality(S) <= Cardinality(1..c)
  BY <1>1, FS_Subset, FS_CardinalityType
<1> QED BY <1>1, <1>2

\* A goroutine hands the right it has on to one task at most: u at g.
HandsOn(e, t, own, out, g, u) ==
    \A n \in Calls :
        /\ Carries(u, n) => Carries(t, n)
        /\ \A s \in own : Carries(s, n) => g = e /\ u = s
        /\ \A m \in out : Carries(Received(m), n) => g = Peer(e) /\ u = Received(m)

LEMMA HandedOn ==
    ASSUME TypeOK, OneCarrier, NEW e \in Ends, NEW t \in tasks[e], NEW own, NEW out,
           Step(e, {t}, own, out), calls' = calls, NEW g \in Ends, NEW u,
           HandsOn(e, t, own, out, g, u)
    PROVE  OneCarrier' /\ Spent \subseteq Spent'
<1>1. ASSUME NEW f \in Ends, NEW s \in tasks'[f], NEW n \in Calls, Carries(s, n)
      PROVE  \/ s \in tasks[f] /\ <<f, s>> # <<e, t>>
             \/ f = g /\ s = u /\ Carries(t, n)
  <2>1. /\ tasks'[e] = (tasks[e] \ {t}) \union own
        /\ tasks'[Peer(e)] = tasks[Peer(e)] \union {Received(m) : m \in out}
        /\ Peer(e) # e /\ (f = e \/ f = Peer(e))
    BY TasksAfter
  <2>2. CASE f = e
    BY <1>1, <2>1, <2>2 DEF HandsOn
  <2>3. CASE f = Peer(e)
    BY <1>1, <2>1, <2>3 DEF HandsOn
  <2> QED BY <2>1, <2>2, <2>3
<1>2. OneCarrier'
  <2> SUFFICES ASSUME NEW n \in Calls, NEW f1 \in Ends, NEW f2 \in Ends,
                      NEW s1 \in tasks'[f1], NEW s2 \in tasks'[f2],
                      Carries(s1, n), Carries(s2, n)
               PROVE  f1 = f2 /\ s1 = s2 /\ n <= calls
    BY DEF OneCarrier, Carries
  <2>1. \/ s1 \in tasks[f1] /\ <<f1, s1>> # <<e, t>>
        \/ f1 = g /\ s1 = u /\ Carries(t, n)
    BY <1>1
  <2>2. \/ s2 \in tasks[f2] /\ <<f2, s2>> # <<e, t>>
        \/ f2 = g /\ s2 = u /\ Carries(t, n)
    BY <1>1
  <2>3. \A f, k \in Ends : \A s \in tasks[f], v \in tasks[k] :
          Carries(s, n) /\ Carries(v, n) => f = k /\ s = v /\ n <= calls
    BY DEF OneCarrier
  <2> QED BY <2>1, <2>2, <2>3
<1>3. Spent \subseteq Spent'
  <2> SUFFICES ASSUME NEW n \in 1..calls, Due(n)' PROVE Due(n)
    BY DEF Spent
  <2>0. n \in Calls
    BY CountedCalls DEF Calls
  <2>1. PICK f \in Ends : \E s \in tasks'[f] : Carries(s, n)
    BY DEF Due, Carries
  <2>2. PICK s \in tasks'[f] : Carries(s, n)
    BY <2>1
  <2> QED BY <1>1, <2>0, <2>2 DEF Due
<1> QED BY <1>2, <1>3

\* A goroutine that answers a query uses the right up.
LEMMA UsedUp ==
    ASSUME TypeOK, OneCarrier, NEW e \in Ends, NEW t \in tasks[e], NEW out,
           Step(e, {t}, {}, out), NEW n \in Calls, Carries(t, n),
           \A m \in out : ~ Carries(Received(m), n)
    PROVE  n <= calls /\ Due(n) /\ ~ Due(n)'
<1>1. n <= calls /\ Due(n)
  BY DEF OneCarrier, Due
<1>2. ASSUME NEW f \in Ends, NEW s \in tasks'[f], Carries(s, n) PROVE FALSE
  <2>1. /\ tasks'[e] = (tasks[e] \ {t}) \union {}
        /\ tasks'[Peer(e)] = tasks[Peer(e)] \union {Received(m) : m \in out}
        /\ Peer(e) # e /\ (f = e \/ f = Peer(e))
    BY TasksAfter
  <2>2. s \in tasks[f] /\ <<f, s>> # <<e, t>>
    BY <1>2, <2>1
  <2> QED BY <1>2, <2>2 DEF OneCarrier
<1> QED BY <1>1, <1>2 DEF Due, Carries

\* Messages stay of their time.
LEMMA DatedMessages ==
    ASSUME TypeOK, Dated, NEW e \in Ends, NEW done, NEW own \in SUBSET Tasks, NEW out,
           Step(e, done, own, out), begun \in Nat, begun' \in Nat, begun <= begun',
           \A s \in own : Timely(s, begun),
           \A m \in out : m.type # "query" => m.session <= begun'
    PROVE  \A f \in Ends : \A s \in tasks'[f] : Timely(s, begun')
<1> SUFFICES ASSUME NEW f \in Ends, NEW s \in tasks'[f] PROVE Timely(s, begun')
  OBVIOUS
<1>1. /\ tasks'[e] = (tasks[e] \ done) \union own
      /\ tasks'[Peer(e)] = tasks[Peer(e)] \union {Received(m) : m \in out}
      /\ (f = e \/ f = Peer(e))
  BY TasksAfter
<1>2. ASSUME s \in Tasks, Timely(s, begun) PROVE Timely(s, begun')
  <2>1. Sessions \subseteq Nat
    BY OtrAssumption DEF Sessions, Calls
  <2>2. s.do = "receive" /\ s.msg.type # "query" => s.msg.session \in Nat
    BY <1>2, <2>1, TaskKinds, MessageKinds
  <2>3. s.do = "gone" => s.session \in Nat
    BY <1>2, <2>1, HandlerKinds
  <2> QED BY <1>2, <2>2, <2>3 DEF Timely
<1>3. CASE s \in tasks[f]
  <2>1. s \in Tasks /\ Timely(s, begun)
    BY <1>3 DEF TypeOK, Dated
  <2> QED BY <1>2, <2>1
<1>4. CASE s \in own
  BY <1>2, <1>4
<1>5. ASSUME NEW m \in out, s = Received(m) PROVE Timely(s, begun')
  <2>1. s.msg = m /\ s.do = "receive"
    BY <1>5 DEF Received
  <2> QED BY <2>1 DEF Timely
<1> QED BY <1>1, <1>3, <1>4, <1>5

\* A step that hands no right on.
LEMMA NoneNew ==
    ASSUME TypeOK, OneCarrier, NEW e \in Ends, NEW done, NEW own, NEW out,
           Step(e, done, own, out), calls' = calls,
           \A s \in own : s.do \notin {"ask", "dm", "receive"},
           \A m \in out : m.type # "query"
    PROVE  OneCarrier' /\ Spent \subseteq Spent'
<1>1. ASSUME NEW f \in Ends, NEW s \in tasks'[f], NEW n \in Calls, Carries(s, n)
      PROVE  s \in tasks[f]
  <2>1. /\ tasks'[e] = (tasks[e] \ done) \union own
        /\ tasks'[Peer(e)] = tasks[Peer(e)] \union {Received(m) : m \in out}
        /\ Peer(e) # e /\ (f = e \/ f = Peer(e))
    BY TasksAfter
  <2>2. s.do \in {"ask", "dm"} \/ (s.do = "receive" /\ s.msg.type = "query")
    BY <1>1 DEF Carries
  <2>3. \A m \in out : s # Received(m)
    BY <2>2 DEF Received
  <2> QED BY <2>1, <2>2, <2>3
<1>2. OneCarrier'
  <2> SUFFICES ASSUME NEW n \in Calls, NEW f1 \in Ends, NEW f2 \in Ends,
                      NEW s1 \in tasks'[f1], NEW s2 \in tasks'[f2],
                      Carries(s1, n), Carries(s2, n)
               PROVE  f1 = f2 /\ s1 = s2 /\ n <= calls
    BY DEF OneCarrier, Carries
  <2> QED BY <1>1 DEF OneCarrier
<1>3. Spent \subseteq Spent'
  <2> SUFFICES ASSUME NEW n \in 1..calls, Due(n)' PROVE Due(n)
    BY DEF Spent
  <2>0. n \in Calls
    BY CountedCalls DEF Calls
  <2>1. PICK f \in Ends : \E s \in tasks'[f] : Carries(s, n)
    BY DEF Due, Carries
  <2> QED BY <1>1, <2>0, <2>1 DEF Due
<1> QED BY <1>2, <1>3

LEMMA SpentLasts ==
    ASSUME TInv, TypeOK', Dated', OneCarrier', Spent \subseteq Spent', UNCHANGED begun
    PROVE  TInv'
<1>1. Cardinality(Spent) <= Cardinality(Spent') /\ Cardinality(Spent) \in Nat
      /\ Cardinality(Spent') \in Nat
  <2>1. IsFiniteSet(Spent') /\ Cardinality(Spent') \in Nat
    <3>1. calls' \in Nat /\ Spent' \subseteq 1..calls'
      BY OtrAssumption DEF TypeOK, Spent
    <3> QED BY <3>1, FiniteSpent
  <2> QED BY <2>1, FS_Subset, FS_CardinalityType
<1>2. begun \in Nat
  BY CountedCalls DEF TInv
<1> QED BY <1>1, <1>2 DEF TInv
-----------------------------------------------------------------------------
(* Steps by what they hand on *)

MemberOK ==
    /\ otr \in [Ends -> {"nil", "plain", "secure"}]
    /\ session \in [Ends -> Sessions \union {0}] /\ offered \in [Ends -> Sessions \union {0}]
    /\ onInit \in [Ends -> Calls \union {0}]
    /\ \A e \in Ends : /\ session[e] <= begun /\ offered[e] <= begun
                       /\ otr[e] = "secure" => session[e] # 0
                       /\ smp[e] # "idle" => otr[e] = "secure"

ProofOK ==
    /\ smp \in [Ends -> {"idle", "asked", "heard", "answered", "proved"}]
    /\ mine \in [Ends -> Secrets \union {None}] /\ theirs \in [Ends -> Secrets \union {None}]
    /\ given \in [Ends -> SUBSET Words]
    /\ result \in [Ends -> {"success", "failure", None}]
    /\ questions \in [Calls -> Nat]

HistoryOK ==
    /\ asks \in [Ends -> SUBSET Calls] /\ raced \subseteq Calls /\ replaced \subseteq Calls
    /\ created \in [Ends -> Nat]
    /\ together \in [Ends -> BOOLEAN] /\ crashed \in [Ends -> BOOLEAN]

LEMMA Parts == TInv => MemberOK /\ ProofOK /\ HistoryOK
BY DEF TInv, TypeOK, Dated, MemberOK, ProofOK, HistoryOK

LEMMA PartsTyped ==
    ASSUME TInv, MemberOK', ProofOK', HistoryOK', tasks' \in [Ends -> SUBSET Tasks],
           UNCHANGED <<fp, calls, begun>>
    PROVE  TypeOK'
BY DEF TInv, TypeOK, MemberOK, ProofOK, HistoryOK

LEMMA Spoken ==
    ASSUME TInv, NEW e \in Ends, NEW done, NEW own \in SUBSET Tasks,
           NEW out \in SUBSET Messages, Step(e, done, own, out),
           \A s \in own : s.do \in {"doAsk", "gone"} /\ Timely(s, begun),
           \A m \in out : m.type # "query" /\ m.session <= begun,
           UNCHANGED <<fp, calls, begun>>, MemberOK', ProofOK', HistoryOK'
    PROVE  TInv'
<1>1. tasks' \in [Ends -> SUBSET Tasks]
  BY TasksAfter DEF TInv
<1>2. TypeOK'
  BY <1>1, PartsTyped
<1>3. begun \in Nat
  BY CountedCalls DEF TInv
<1>4. Dated'
  <2>1. /\ TypeOK /\ Dated /\ begun' \in Nat /\ begun <= begun'
        /\ \A s \in own : Timely(s, begun)
        /\ \A m \in out : m.type # "query" => m.session <= begun'
    BY <1>3 DEF TInv
  <2>2. \A f \in Ends : \A s \in tasks'[f] : Timely(s, begun')
    BY <1>3, <2>1, DatedMessages
  <2> QED BY <2>2 DEF MemberOK, Dated, Timely
<1>5. OneCarrier' /\ Spent \subseteq Spent'
  BY NoneNew DEF TInv
<1> QED BY <1>2, <1>4, <1>5, SpentLasts

\* A goroutine that goes on with the same task.
LEMMA WentOn ==
    ASSUME TInv, NEW e \in Ends, NEW t \in tasks[e], NEW at \in {"init", "create"},
           t.do \in {"ask", "dm", "receive"}, Step(e, {t}, {[t EXCEPT !.at = at]}, {}),
           UNCHANGED <<fp, calls, begun>>, MemberOK', ProofOK', HistoryOK'
    PROVE  TInv'
<1> DEFINE s == [t EXCEPT !.at = at]
<1>1. t \in Tasks /\ s \in Tasks
  BY TaskKinds DEF TInv, TypeOK
<1>2. /\ s.do = t.do /\ (t.do = "receive" => s.msg = t.msg)
      /\ t.do \in {"ask", "dm"} => s.call = t.call
  BY <1>1, TaskKinds
<1> HIDE DEF s
<1>3. PICK own, out : own = {s} /\ out = {} /\ Step(e, {t}, own, out)
  BY DEF s
<1>4. tasks' \in [Ends -> SUBSET Tasks]
  BY <1>1, <1>3, TasksAfter DEF TInv
<1>5. TypeOK'
  BY <1>4, PartsTyped
<1>6. begun \in Nat
  BY CountedCalls DEF TInv
<1>7. Dated'
  <2>1. \A r \in own : Timely(r, begun)
    BY <1>2, <1>3 DEF TInv, Dated, Timely
  <2>2. \A f \in Ends : \A r \in tasks'[f] : Timely(r, begun')
    <3>1. /\ TypeOK /\ Dated /\ begun' \in Nat /\ begun <= begun' /\ own \in SUBSET Tasks
          /\ \A m \in out : m.type # "query" => m.session <= begun'
      BY <1>1, <1>3, <1>6 DEF TInv
    <3> QED BY <1>3, <1>6, <2>1, <3>1, DatedMessages
  <2> QED BY <2>2 DEF MemberOK, Dated, Timely
<1>8. OneCarrier' /\ Spent \subseteq Spent'
  <2>1. \A n \in Calls : Carries(s, n) => Carries(t, n)
    BY <1>2 DEF Carries
  <2>2. HandsOn(e, t, own, out, e, s)
    BY <1>3, <2>1 DEF HandsOn
  <2>3. TypeOK /\ OneCarrier /\ calls' = calls
    BY DEF TInv
  <2> QED BY <1>3, <2>2, <2>3, HandedOn
<1> QED BY <1>5, <1>7, <1>8, SpentLasts

-----------------------------------------------------------------------------
(* The types, action by action *)

LEMMA SecretTyped ==
    ASSUME TypeOK, NEW e \in Ends, NEW answer \in Words, NEW ask \in BOOLEAN
    PROVE  prepareAnswer(e, answer, ask) \in Secrets
<1>1. fp[e] \in Keys \union {None} /\ e \in Keys
  BY OtrAssumption DEF TypeOK, Keys
<1>2. <<answer>> \in Secrets
  BY DEF Secrets
<1>3. fp[e] # None => <<answer, e, fp[e]>> \in Secrets /\ <<answer, fp[e], e>> \in Secrets
  BY <1>1 DEF Secrets
<1> QED BY <1>2, <1>3 DEF prepareAnswer

LEMMA ExchangeTyped ==
    ASSUME NEW s \in Sessions,
           NEW type \in {"commit", "signature", "proof", "last", "abort"}
    PROVE  /\ Exchange(type, s) \in Messages
           /\ Exchange(type, s).type = type /\ Exchange(type, s).session = s
BY DEF Messages, Exchange

LEMMA QuestionTyped ==
    ASSUME NEW n \in Calls, NEW s \in Sessions, NEW x \in Secrets, NEW again \in BOOLEAN
    PROVE  /\ Question(n, s, x, again) \in Messages
           /\ Question(n, s, x, again).type = "question" /\ Question(n, s, x, again).session = s
BY DEF Messages, Question

LEMMA ReplyTyped ==
    ASSUME NEW s \in Sessions, NEW x \in Secrets
    PROVE  /\ Reply(s, x) \in Messages
           /\ Reply(s, x).type = "reply" /\ Reply(s, x).session = s
BY DEF Messages, Reply

LEMMA QueriesTyped ==
    ASSUME NEW n \in Calls
    PROVE  /\ Query(n) \in Messages /\ Query(n).type = "query" /\ Query(n).call = n
           /\ Received(Query(n)).do = "receive" /\ Received(Query(n)).msg = Query(n)
BY DEF Messages, Query, Received

\* The session of a conversation that is secure, or of one that was.
LEMMA SecureSession ==
    ASSUME TInv, NEW e \in Ends, otr[e] = "secure"
    PROVE  session[e] \in Sessions /\ session[e] <= begun
BY DEF TInv, TypeOK, Dated

LEMMA SetOnInitTyped ==
    ASSUME TInv, NEW e \in Ends, NEW t \in tasks[e], SetOnInit(e, t)
    PROVE  TInv'
<1>1. /\ t.at = "set" /\ Step(e, {t}, {[t EXCEPT !.at = "init"]}, {})
      /\ onInit' = [onInit EXCEPT ![e] = t.call]
      /\ replaced' = replaced \union ({onInit[e]} \ {0})
      /\ raced' = IF otr[e] = "secure" THEN raced \union {t.call} ELSE raced
      /\ UNCHANGED <<fp, otr, session, offered, smp, mine, theirs, given, result, questions,
                     calls, asks, created, begun, together, crashed>>
  BY DEF SetOnInit, member, proof, mishaps
<1>2. t.do = "ask" /\ t.call \in Calls
  BY <1>1, TaskKinds DEF TInv, TypeOK
<1>3. MemberOK'
  BY <1>1, <1>2, Parts DEF MemberOK
<1>4. ProofOK'
  BY <1>1, Parts DEF ProofOK
<1>5. HistoryOK'
  BY <1>1, <1>2, Parts DEF HistoryOK, MemberOK
<1> QED BY <1>1, <1>2, <1>3, <1>4, <1>5, WentOn

LEMMA InitOtrTyped ==
    ASSUME TInv, NEW e \in Ends, NEW t \in tasks[e], initOtr(e, t)
    PROVE  TInv'
<1>1. /\ t.do \in {"ask", "dm", "receive"} /\ Step(e, {t}, {[t EXCEPT !.at = "create"]}, {})
      /\ UNCHANGED <<fp, otr, session, offered, onInit, smp, mine, theirs, given, result,
                     questions, calls, asks, raced, replaced, created, begun, together, crashed>>
  BY DEF initOtr, member, proof, history, mishaps
<1>2. MemberOK' /\ ProofOK' /\ HistoryOK'
  BY <1>1, Parts DEF MemberOK, ProofOK, HistoryOK
<1> QED BY <1>1, <1>2, WentOn

LEMMA IdleTyped ==
    ASSUME ProofOK, NEW e \in Ends, Idle(e)
    PROVE  /\ smp' \in [Ends -> {"idle", "asked", "heard", "answered", "proved"}]
           /\ mine' \in [Ends -> Secrets \union {None}]
           /\ theirs' \in [Ends -> Secrets \union {None}]
BY DEF ProofOK, Idle

LEMMA CreateTyped ==
    ASSUME TInv, NEW e \in Ends, NEW t \in tasks[e], create(e, t)
    PROVE  TInv'
<1>1. /\ t.at = "create" /\ Step(e, {t}, {[t EXCEPT !.at = "init"]}, {})
      /\ otr' = [otr EXCEPT ![e] = "plain"]
      /\ session' = [session EXCEPT ![e] = 0] /\ offered' = [offered EXCEPT ![e] = 0]
      /\ created' = [created EXCEPT ![e] = @ + 1]
      /\ UNCHANGED <<fp, onInit, given, result, questions, calls, asks, raced, replaced, begun,
                     together, crashed>>
      /\ Idle(e)
  BY DEF create, mishaps
<1>2. t.do \in {"ask", "dm", "receive"}
  BY <1>1, TaskKinds DEF TInv, TypeOK
<1>3. HistoryOK'
  BY <1>1, Parts DEF HistoryOK
<1>4. ProofOK'
  BY <1>1, IdleTyped, Parts DEF ProofOK
<1>5. MemberOK'
  <2>1. MemberOK /\ begun \in Nat
    BY Parts, CountedCalls DEF TInv
  <2>2. \A f \in Ends : smp'[f] = IF f = e THEN "idle" ELSE smp[f]
    BY <1>1 DEF Idle, TInv, TypeOK
  <2> QED BY <1>1, <2>1, <2>2 DEF MemberOK
<1> QED BY <1>1, <1>2, <1>3, <1>4, <1>5, WentOn

LEMMA SendTyped ==
    ASSUME TInv, NEW e \in Ends, NEW t \in tasks[e], Send(e, t)
    PROVE  TInv'
<1>1. /\ t.do \in {"ask", "dm"} /\ t.call \in Calls
      /\ UNCHANGED <<fp, otr, session, offered, onInit, smp, mine, theirs, given, result,
                     questions, calls, asks, raced, replaced, created, begun, together, crashed>>
  BY TaskKinds DEF Send, member, proof, history, mishaps, TInv, TypeOK
<1>2. MemberOK' /\ ProofOK' /\ HistoryOK'
  BY <1>1, Parts DEF MemberOK, ProofOK, HistoryOK
<1>3. CASE otr[e] # "plain"
  <2>1. PICK own, out : own = {} /\ out = {} /\ Step(e, {t}, own, out)
    BY <1>3 DEF Send
  <2> QED BY <1>1, <1>2, <2>1, Spoken
<1>4. CASE otr[e] = "plain"
  <2>1. PICK own, out, m : own = {} /\ m = Query(t.call) /\ out = {m} /\ Step(e, {t}, own, out)
    BY <1>4 DEF Send
  <2>2. m \in Messages /\ m.type = "query" /\ m.call = t.call /\ Received(m).do = "receive"
        /\ Received(m).msg = m
    BY <1>1, <2>1, QueriesTyped
  <2>3. Peer(e) \in Ends
    BY Peers
  <2>4. HandsOn(e, t, own, out, Peer(e), Received(m))
    BY <1>1, <2>1, <2>2 DEF HandsOn, Carries
  <2>5. OneCarrier' /\ Spent \subseteq Spent'
    BY <1>1, <2>1, <2>3, <2>4, HandedOn DEF TInv
  <2>6. tasks' \in [Ends -> SUBSET Tasks]
    BY <2>1, <2>2, TasksAfter DEF TInv
  <2>7. TypeOK'
    BY <1>1, <1>2, <2>6, PartsTyped
  <2>8. /\ TypeOK /\ Dated /\ own \in SUBSET Tasks
        /\ begun \in Nat /\ begun' \in Nat /\ begun <= begun'
    BY <1>1, <2>1, CountedCalls DEF TInv
  <2>9. /\ \A s \in own : Timely(s, begun)
        /\ \A n \in out : n.type # "query" => n.session <= begun'
    BY <2>1, <2>2
  <2>10. \A f \in Ends : \A s \in tasks'[f] : Timely(s, begun')
    BY <2>1, <2>8, <2>9, DatedMessages
  <2>11. Dated'
    BY <1>2, <2>10 DEF MemberOK, Dated, Timely
  <2> QED BY <1>1, <2>5, <2>7, <2>11, SpentLasts
<1> QED BY <1>3, <1>4

\* The exchange that begins is covered by the call whose query it answers.
LEMMA ReceiveQueryTyped ==
    ASSUME TInv, NEW e \in Ends, NEW t \in tasks[e], ReceiveQuery(e, t)
    PROVE  TInv'
<1> DEFINE c == t.msg.call
<1>1. /\ t.do = "receive" /\ t.msg.type = "query" /\ begun' = begun + 1
      /\ offered' = [offered EXCEPT ![e] = begun + 1]
      /\ Step(e, {t}, {}, {Exchange("commit", begun + 1)})
      /\ UNCHANGED <<fp, otr, session, onInit, smp, mine, theirs, given, result, questions,
                     calls, asks, raced, replaced, created, together, crashed>>
  BY DEF ReceiveQuery, Receiving, proof, mishaps
<1>2. PICK own, out, m : /\ own = {} /\ m = Exchange("commit", begun + 1) /\ out = {m}
                         /\ Step(e, {t}, own, out)
  BY <1>1
<1>3. m.type = "commit" /\ m.session = begun + 1 /\ Received(m).do = "receive" /\ Received(m).msg = m
  BY <1>2 DEF Exchange, Received
<1>4. c \in Calls
  BY <1>1, TaskKinds, MessageKinds DEF TInv, TypeOK
<1>5. Carries(t, c) /\ \A n \in out : ~ Carries(Received(n), c)
  BY <1>1, <1>2, <1>3, <1>4 DEF Carries
<1>6. c <= calls /\ Due(c) /\ ~ Due(c)'
  BY <1>2, <1>4, <1>5, UsedUp DEF TInv
<1>7. OneCarrier' /\ Spent \subseteq Spent'
  BY <1>1, <1>2, <1>3, NoneNew DEF TInv
<1>8. calls \in Nat /\ calls <= MaxCalls /\ MaxCalls \in Nat /\ begun \in Nat
  BY CountedCalls DEF TInv
<1>9. c \in Spent' /\ c \notin Spent /\ Spent \subseteq 1..calls /\ Spent' \subseteq 1..calls
  BY <1>1, <1>4, <1>6, <1>8 DEF Spent, Calls
<1> HIDE DEF c
<1>10. begun + 1 <= Cardinality(Spent') /\ Cardinality(Spent') \in Nat
       /\ Cardinality(Spent') <= calls
  <2>1. /\ IsFiniteSet(Spent') /\ Cardinality(Spent') \in Nat /\ Cardinality(Spent') <= calls
        /\ IsFiniteSet(Spent) /\ Cardinality(Spent) \in Nat
    BY <1>8, <1>9, FiniteSpent
  <2>2. Cardinality(Spent) <= Cardinality(Spent') /\ Cardinality(Spent) # Cardinality(Spent')
    BY <1>7, <1>9, <2>1, FS_Subset
  <2>3. begun <= Cardinality(Spent)
    BY DEF TInv
  <2> QED BY <1>8, <2>1, <2>2, <2>3
<1>11. begun + 1 \in Sessions /\ begun + 1 \in 0..MaxCalls
  BY <1>8, <1>10 DEF Sessions, Calls
<1>12. m \in Messages
  BY <1>2, <1>11, ExchangeTyped
<1>13. tasks' \in [Ends -> SUBSET Tasks]
  BY <1>2, <1>12, TasksAfter DEF TInv
<1>14. TypeOK'
  <2>1. offered' \in [Ends -> Sessions \union {0}] /\ begun' \in 0..MaxCalls
    BY <1>1, <1>11 DEF TInv, TypeOK
  <2> QED BY <1>1, <1>13, <2>1 DEF TInv, TypeOK
<1>15. Dated'
  <2>1. /\ begun' \in Nat /\ begun <= begun' /\ own \in SUBSET Tasks
        /\ \A s \in own : Timely(s, begun)
        /\ \A n \in out : n.type # "query" => n.session <= begun'
    BY <1>1, <1>2, <1>3, <1>8
  <2>2. \A f \in Ends : \A s \in tasks'[f] : Timely(s, begun')
    BY <1>2, <1>8, <2>1, DatedMessages DEF TInv
  <2>3. \A f \in Ends : /\ session'[f] <= begun' /\ offered'[f] <= begun'
                        /\ otr'[f] = "secure" => session'[f] # 0
                        /\ smp'[f] # "idle" => otr'[f] = "secure"
    <3>1. \A f \in Ends : /\ session[f] \in Nat /\ offered[f] \in Nat
                          /\ session[f] <= begun /\ offered[f] <= begun
                          /\ otr[f] = "secure" => session[f] # 0
                          /\ smp[f] # "idle" => otr[f] = "secure"
      BY OtrAssumption DEF TInv, TypeOK, Dated, Sessions, Calls
    <3>2. \A f \in Ends : offered'[f] = offered[f] \/ offered'[f] = begun + 1
      BY <1>1 DEF TInv, TypeOK
    <3>3. begun' = begun + 1 /\ UNCHANGED <<otr, session, smp>> /\ begun \in Nat
      BY <1>1, <1>8
    <3> QED BY <3>1, <3>2, <3>3
  <2> QED BY <2>2, <2>3 DEF Dated, Timely
<1> QED BY <1>1, <1>7, <1>10, <1>14, <1>15 DEF TInv

LEMMA doAskTyped ==
    ASSUME TInv, NEW e \in Ends, NEW t \in tasks[e], doAsk(e, t)
    PROVE  TInv'
<1>1. /\ UNCHANGED <<fp, otr, session, offered, onInit, result, calls, asks, raced, replaced,
                     created, begun, together, crashed>>
      /\ t.call \in Calls
  BY TaskKinds DEF doAsk, member, history, mishaps, TInv, TypeOK
<1>0. HistoryOK'
  BY <1>1, Parts DEF HistoryOK
<1>2. MemberOK'
  <2>1. ASSUME NEW f \in Ends, smp'[f] # "idle" PROVE otr'[f] = "secure"
    <3>1. smp'[f] = smp[f] \/ otr[f] = "secure"
      BY DEF doAsk, proof, TInv, TypeOK
    <3> QED BY <1>1, <2>1, <3>1 DEF TInv, Dated
  <2> QED BY <1>1, <2>1, Parts DEF MemberOK
<1>3. CASE otr[e] = "secure"
  <2>1. PICK answer, x, again, own, m :
           /\ answer \in Words /\ x = prepareAnswer(e, answer, TRUE) /\ again = (smp[e] # "idle")
           /\ m = Question(t.call, session[e], x, again) /\ own = {}
           /\ Step(e, {t}, own, {m})
           /\ mine' = [mine EXCEPT ![e] = x]
           /\ given' = [given EXCEPT ![e] = @ \union {answer}]
           /\ smp' = [smp EXCEPT ![e] = "asked"]
           /\ theirs' = [theirs EXCEPT ![e] = None]
           /\ questions' = [questions EXCEPT ![t.call] = @ + 1]
    BY <1>3 DEF doAsk
  <2>2. x \in Secrets /\ again \in BOOLEAN /\ session[e] \in Sessions /\ session[e] <= begun
    BY <1>3, <2>1, SecretTyped, SecureSession, Zenon DEF TInv
  <2>3. m \in Messages /\ m.type = "question" /\ m.session = session[e]
    <3>1. PICK n : n = t.call
      OBVIOUS
    <3>2. n \in Calls /\ m = Question(n, session[e], x, again)
      BY <1>1, <2>1, <3>1
    <3> QED BY <2>2, <3>2, QuestionTyped
  <2>4. PICK out : /\ out \in SUBSET Messages /\ Step(e, {t}, own, out)
                   /\ \A n \in out : n.type # "query" /\ n.session <= begun
    <3>1. PICK out : out = {m} /\ Step(e, {t}, own, out)
      BY <2>1
    <3>2. m \in Messages /\ m.type # "query" /\ m.session <= begun
      BY <2>2, <2>3
    <3>3. out \in SUBSET Messages /\ \A n \in out : n.type # "query" /\ n.session <= begun
      BY <3>1, <3>2
    <3> QED BY <3>1, <3>3
  <2>6. /\ own \in SUBSET Tasks /\ \A s \in own : s.do \in {"doAsk", "gone"} /\ Timely(s, begun)
        /\ UNCHANGED <<fp, calls, begun>>
    BY <1>1, <2>1
  <2>5. ProofOK'
    <3>1. ProofOK
      BY Parts
    <3>2. result' = result
      BY <1>1
    <3>3. /\ smp' \in [Ends -> {"idle", "asked", "heard", "answered", "proved"}]
          /\ mine' \in [Ends -> Secrets \union {None}]
          /\ theirs' \in [Ends -> Secrets \union {None}]
      BY <2>1, <2>2, <3>1 DEF ProofOK
    <3>4. given' \in [Ends -> SUBSET Words] /\ questions' \in [Calls -> Nat]
      BY <1>1, <2>1, <3>1 DEF ProofOK
    <3> QED BY <3>1, <3>2, <3>3, <3>4 DEF ProofOK
  <2> QED BY <1>0, <1>2, <2>4, <2>5, <2>6, Spoken
<1>4. CASE otr[e] # "secure"
  <2>1. PICK own, out : own = {} /\ out = {} /\ Step(e, {t}, own, out)
    BY <1>4 DEF doAsk
  <2>2. ProofOK'
    BY <1>1, <1>4, Parts DEF doAsk, proof, ProofOK
  <2> QED BY <1>0, <1>1, <1>2, <2>1, <2>2, Spoken
<1> QED BY <1>3, <1>4

LEMMA AnswerTyped ==
    ASSUME TInv, NEW e \in Ends, NEW answer \in Words, Answer(e, answer)
    PROVE  TInv'
<1>1. PICK x, own, out :
         /\ x = prepareAnswer(e, answer, FALSE) /\ own = {}
         /\ out = {Reply(session[e], x)} /\ Step(e, {}, own, out)
         /\ mine' = [mine EXCEPT ![e] = x]
  BY DEF Answer
<1>2. /\ smp' = [smp EXCEPT ![e] = "answered"] /\ smp[e] = "heard"
      /\ given' = [given EXCEPT ![e] = @ \union {answer}]
      /\ UNCHANGED <<fp, otr, session, offered, onInit, theirs, result, questions,
                     calls, asks, raced, replaced, created, begun, together, crashed>>
  BY DEF Answer, member, history, mishaps
<1>3. x \in Secrets /\ session[e] \in Sessions /\ session[e] <= begun
  BY <1>1, <1>2, SecretTyped, SecureSession DEF TInv, Dated
<1>4. out \in SUBSET Messages /\ \A n \in out : n.type # "query" /\ n.session <= begun
  <2>1. PICK m : m = Reply(session[e], x)
    OBVIOUS
  <2>2. m \in Messages /\ m.type = "reply" /\ m.session = session[e]
    BY <1>3, <2>1, ReplyTyped
  <2>3. out = {m}
    BY <1>1, <2>1
  <2> QED BY <1>3, <2>2, <2>3
<1>5. ProofOK'
  BY <1>1, <1>2, <1>3, Parts DEF ProofOK
<1>6. MemberOK'
  <2>1. \A f \in Ends : smp'[f] # "idle" => smp[f] # "idle"
    BY <1>2 DEF TInv, TypeOK
  <2> QED BY <1>2, <2>1, Parts DEF MemberOK
<1>7. HistoryOK'
  BY <1>2, Parts DEF HistoryOK
<1>8. /\ own \in SUBSET Tasks /\ \A s \in own : s.do \in {"doAsk", "gone"} /\ Timely(s, begun)
      /\ UNCHANGED <<fp, calls, begun>> /\ Step(e, {}, own, out)
  BY <1>1, <1>2
<1> QED BY <1>4, <1>5, <1>6, <1>7, <1>8, Spoken

LEMMA SignatureTyped ==
    ASSUME NEW s \in Sessions, NEW sign \in BOOLEAN, s <= begun
    PROVE  /\ Signature(s, sign) \subseteq Messages
           /\ \A m \in Signature(s, sign) : m.type = "signature" /\ m.session <= begun
<1>1. PICK m : m = Exchange("signature", s)
  OBVIOUS
<1>2. m \in Messages /\ m.type = "signature" /\ m.session = s
  BY <1>1, ExchangeTyped
<1> QED BY <1>1, <1>2 DEF Signature

LEMMA GoneSecureTyped ==
    ASSUME TInv, NEW e \in Ends, NEW t \in tasks[e], NEW s \in Sessions, s <= begun,
           NEW sign \in BOOLEAN, GoneSecure(e, t, s, sign),
           UNCHANGED <<fp, onInit, proof, given, result, questions, history, mishaps>>
    PROVE  TInv'
<1>1. /\ otr' = [otr EXCEPT ![e] = "secure"] /\ session' = [session EXCEPT ![e] = s]
      /\ offered' = [offered EXCEPT ![e] = 0]
      /\ UNCHANGED <<fp, onInit, smp, mine, theirs, given, result, questions, calls, asks, raced,
                     replaced, created, begun, together, crashed>>
  BY DEF GoneSecure, proof, history, mishaps
<1>2. PICK h : h = Handler("check", 0, s, sign)
  OBVIOUS
<1>3. h \in Tasks /\ h.do = "gone" /\ Timely(h, begun)
  BY <1>2, HandlerTask DEF Timely
<1>4. PICK own, out :
         /\ Step(e, {t}, own, out)
         /\ own \in SUBSET {h} /\ out \in SUBSET Signature(s, sign)
  BY <1>2 DEF GoneSecure
<1>5. /\ own \in SUBSET Tasks /\ out \in SUBSET Messages
      /\ \A r \in own : r.do \in {"doAsk", "gone"} /\ Timely(r, begun)
      /\ \A m \in out : m.type # "query" /\ m.session <= begun
  BY <1>3, <1>4, SignatureTyped
<1>6. ProofOK' /\ HistoryOK'
  BY <1>1, Parts DEF ProofOK, HistoryOK
<1>7. MemberOK'
  <2>1. MemberOK /\ begun \in Nat /\ s # 0
    BY Parts, CountedCalls, OtrAssumption DEF TInv, Sessions, Calls
  <2> QED BY <1>1, <2>1 DEF MemberOK
<1> QED BY <1>1, <1>4, <1>5, <1>6, <1>7, Spoken

LEMMA HandlersTyped ==
    ASSUME TInv, NEW e \in Ends, NEW t \in tasks[e],
           CheckOnInit(e, t) \/ ReadOnInit(e, t) \/ ResetOnInit(e, t)
    PROVE  TInv'
<1>1. /\ t.do = "gone"
      /\ UNCHANGED <<fp, otr, session, offered, smp, mine, theirs, given, result, questions,
                     calls, asks, raced, replaced, created, begun>>
  BY DEF CheckOnInit, ReadOnInit, ResetOnInit, HandleSecurityEvent, member, proof, history
<1>2. t \in Tasks /\ t.session \in Sessions /\ t.sign \in BOOLEAN /\ t.session <= begun
  BY <1>1, HandlerKinds DEF TInv, TypeOK, Dated, Timely
<1>3. ProofOK'
  BY <1>1, Parts DEF ProofOK
<1>4. MemberOK' /\ HistoryOK'
  <2>1. MemberOK /\ HistoryOK
    BY Parts
  <2>2. onInit' = onInit \/ onInit' = [onInit EXCEPT ![e] = 0]
    BY DEF CheckOnInit, ReadOnInit, ResetOnInit
  <2>3. together' \in [Ends -> BOOLEAN]
    <3>1. \/ together' = together
          \/ together' = [together EXCEPT ![e] = together[e] \/ Handling(e) # {}]
      BY DEF CheckOnInit, ReadOnInit, ResetOnInit, mishaps
    <3>2. (together[e] \/ Handling(e) # {}) \in BOOLEAN
      BY Zenon
    <3> QED BY <2>1, <3>1, <3>2 DEF HistoryOK
  <2>4. crashed' \in [Ends -> BOOLEAN]
    BY <2>1 DEF CheckOnInit, ReadOnInit, ResetOnInit, Start, mishaps, HistoryOK
  <2> QED BY <1>1, <2>1, <2>2, <2>3, <2>4 DEF MemberOK, HistoryOK
<1>5. CASE tasks' = tasks
  <2>1. TypeOK'
    BY <1>1, <1>3, <1>4, <1>5, PartsTyped DEF TInv, TypeOK
  <2>2. Dated' /\ OneCarrier' /\ Spent' = Spent
    BY <1>1, <1>5 DEF TInv, Dated, OneCarrier, Carries, Spent, Due, Timely
  <2> QED BY <1>1, <2>1, <2>2, SpentLasts
<1>6. CASE tasks' # tasks
  <2>1. PICK own, out :
           /\ Step(e, {t}, own, out) /\ out \in SUBSET Signature(t.session, t.sign)
           /\ own \in SUBSET Tasks
           /\ \A s \in own : s.do \in {"doAsk", "gone"} /\ Timely(s, begun)
    <3>1. CASE CheckOnInit(e, t)
      <4>1. PICK s : s = Handler("read", 0, t.session, t.sign)
        OBVIOUS
      <4>2. s \in Tasks /\ s.do = "gone" /\ s.session = t.session
        BY <1>2, <4>1, HandlerTask
      <4>3. Timely(s, begun)
        BY <1>2, <4>2 DEF Timely
      <4>4. Step(e, {t}, {}, Signature(t.session, t.sign)) \/ Step(e, {t}, {s}, {})
        BY <3>1, <4>1 DEF CheckOnInit
      <4> QED BY <4>2, <4>3, <4>4
    <3>2. CASE ReadOnInit(e, t)
      <4>1. PICK s : s = Handler("reset", onInit[e], t.session, t.sign)
        OBVIOUS
      <4>2. s \in Tasks /\ s.do = "gone" /\ s.session = t.session
        BY <1>2, <4>1, HandlerTask DEF TInv, TypeOK
      <4>3. Timely(s, begun)
        BY <1>2, <4>2 DEF Timely
      <4>4. Step(e, {t}, {s}, {})
        BY <3>2, <4>1 DEF ReadOnInit
      <4> QED BY <4>2, <4>3, <4>4
    <3>3. CASE ResetOnInit(e, t)
      <4>1. PICK s : s = doAskTask(t.call)
        OBVIOUS
      <4>2. t.call # 0 /\ Step(e, {t}, {s}, Signature(t.session, t.sign))
        BY <1>6, <3>3, <4>1 DEF ResetOnInit, Start, doAskTask
      <4>3. s \in Tasks /\ s.do = "doAsk"
        BY <1>1, <1>2, <4>1, <4>2, HandlerKinds DEF doAskTask, Tasks
      <4>4. Timely(s, begun)
        BY <4>3 DEF Timely
      <4> QED BY <4>2, <4>3, <4>4
    <3> QED BY <3>1, <3>2, <3>3
  <2>2. out \in SUBSET Messages /\ \A m \in out : m.type # "query" /\ m.session <= begun
    BY <1>2, <2>1, SignatureTyped
  <2> QED BY <1>1, <1>3, <1>4, <2>1, <2>2, Spoken
<1> QED BY <1>5, <1>6

\* What a received message is.
LEMMA ReceivedTyped ==
    ASSUME TInv, NEW e \in Ends, NEW t \in tasks[e], t.do = "receive", t.msg.type # "query"
    PROVE  /\ t.msg.session \in Sessions /\ t.msg.session <= begun
           /\ t.msg.type \in {"question", "reply"} => t.msg.secret \in Secrets
BY TaskKinds, MessageKinds DEF TInv, TypeOK, Dated, Timely

LEMMA ExchangeSteps ==
    ASSUME TInv, NEW e \in Ends, NEW t \in tasks[e],
           ReceiveCommit(e, t) \/ ReceiveSignature(e, t)
    PROVE  TInv'
<1>1. /\ t.do = "receive" /\ t.msg.type # "query"
      /\ UNCHANGED <<fp, onInit, proof, given, result, questions, history, mishaps>>
  BY DEF ReceiveCommit, ReceiveSignature, Receiving
<1>2. t.msg.session \in Sessions /\ t.msg.session <= begun
  BY <1>1, ReceivedTyped
<1>3. CASE \E sign \in BOOLEAN : GoneSecure(e, t, t.msg.session, sign)
  BY <1>1, <1>2, <1>3, GoneSecureTyped
<1>4. CASE Ignored(e, t)
  <2>1. PICK own, out : own = {} /\ out = {} /\ Step(e, {t}, own, out)
    BY <1>4 DEF Ignored
  <2>2. /\ UNCHANGED <<otr, session, offered, onInit, smp, mine, theirs, given, result, questions,
                       fp, calls, asks, raced, replaced, created, begun, together, crashed>>
    BY <1>1, <1>4 DEF Ignored, member, proof, history, mishaps
  <2>3. MemberOK' /\ ProofOK' /\ HistoryOK'
    BY <2>2, Parts DEF MemberOK, ProofOK, HistoryOK
  <2> QED BY <2>1, <2>2, <2>3, Spoken
<1> QED BY <1>3, <1>4 DEF ReceiveCommit, ReceiveSignature

\* The steps of the SMP: one message at most, of the conversation's session.
LEMMA ProofSteps ==
    ASSUME TInv, NEW e \in Ends, NEW t \in tasks[e],
           \/ ReceiveQuestion(e, t) \/ ReceiveReply(e, t) \/ ReceiveProof(e, t)
           \/ ReceiveLast(e, t) \/ ReceiveAbort(e, t) \/ ReceiveUnreadable(e, t)
    PROVE  TInv'
<1>1. /\ UNCHANGED <<fp, otr, session, offered, onInit, given, questions, calls, asks, raced,
                     replaced, created, begun, together, crashed>>
      /\ t.do = "receive" /\ t.msg.type # "query"
  BY DEF ReceiveQuestion, ReceiveReply, ReceiveProof, ReceiveLast, ReceiveAbort,
         ReceiveUnreadable, Receiving, member, history, mishaps
<1>2. t.msg.type \in {"question", "reply"} => t.msg.secret \in Secrets
  BY <1>1, ReceivedTyped
<1>3. \/ Step(e, {t}, {}, {})
      \/ otr[e] = "secure" /\ \E type \in {"abort", "proof", "last"} :
           Step(e, {t}, {}, {Exchange(type, session[e])})
  BY DEF ReceiveQuestion, ReceiveReply, ReceiveProof, ReceiveLast, ReceiveAbort,
         ReceiveUnreadable, Readable
<1>4. PICK own, out :
         /\ own = {} /\ Step(e, {t}, own, out) /\ out \in SUBSET Messages
         /\ \A m \in out : m.type # "query" /\ m.session <= begun
  <2>1. CASE Step(e, {t}, {}, {})
    BY <2>1
  <2>2. ASSUME NEW type \in {"abort", "proof", "last"}, otr[e] = "secure",
               Step(e, {t}, {}, {Exchange(type, session[e])})
        PROVE  \E out : /\ Step(e, {t}, {}, out) /\ out \in SUBSET Messages
                        /\ \A m \in out : m.type # "query" /\ m.session <= begun
    <3>1. session[e] \in Sessions /\ session[e] <= begun
      BY <2>2, SecureSession
    <3>2. PICK m, out : m = Exchange(type, session[e]) /\ out = {m} /\ Step(e, {t}, {}, out)
      BY <2>2
    <3>3. m \in Messages /\ m.type = type /\ m.session = session[e]
      BY <3>1, <3>2, ExchangeTyped
    <3>4. out \in SUBSET Messages /\ \A n \in out : n.type # "query" /\ n.session <= begun
      BY <3>1, <3>2, <3>3
    <3> QED BY <3>2, <3>4
  <2> QED BY <1>3, <2>1, <2>2
<1>5. \/ UNCHANGED <<smp, mine, theirs, result>>
      \/ Idle(e) /\ \E verdict \in {"success", "failure", result[e]} :
           result' = [result EXCEPT ![e] = verdict]
      \/ /\ otr[e] = "secure" /\ result' = result
         /\ smp' = [smp EXCEPT ![e] = "heard"] /\ mine' = [mine EXCEPT ![e] = None]
         /\ theirs' = [theirs EXCEPT ![e] = t.msg.secret] /\ t.msg.type = "question"
      \/ /\ otr[e] = "secure" /\ result' = result
         /\ smp' = [smp EXCEPT ![e] = "proved"] /\ mine' = mine
         /\ theirs' = [theirs EXCEPT ![e] = t.msg.secret] /\ t.msg.type = "reply"
  <2>1. CASE ReceiveQuestion(e, t)
    <3>1. result' = [result EXCEPT ![e] = result[e]] /\ result' = result
      BY <2>1 DEF ReceiveQuestion, TInv, TypeOK
    <3> QED BY <2>1, <3>1 DEF ReceiveQuestion, Receiving, Readable
  <2>2. CASE ReceiveReply(e, t)
    BY <2>2 DEF ReceiveReply, Receiving, Readable
  <2>3. CASE ReceiveProof(e, t) \/ ReceiveLast(e, t)
    BY <2>3 DEF ReceiveProof, ReceiveLast
  <2>4. CASE ReceiveAbort(e, t)
    <3>1. result' = [result EXCEPT ![e] = result[e]]
      BY <2>4 DEF ReceiveAbort, TInv, TypeOK
    <3> QED BY <2>4, <3>1 DEF ReceiveAbort
  <2>5. CASE ReceiveUnreadable(e, t)
    BY <2>5 DEF ReceiveUnreadable, proof
  <2> QED BY <2>1, <2>2, <2>3, <2>4, <2>5
<1>6. ProofOK'
  <2>1. ProofOK /\ given' = given /\ questions' = questions
    BY <1>1, Parts
  <2>2. CASE UNCHANGED <<smp, mine, theirs, result>>
    BY <2>1, <2>2 DEF ProofOK
  <2>3. ASSUME Idle(e), NEW verdict \in {"success", "failure", result[e]},
               result' = [result EXCEPT ![e] = verdict]
        PROVE  ProofOK'
    BY <2>1, <2>3, IdleTyped DEF ProofOK
  <2>4. CASE /\ result' = result
             /\ smp' = [smp EXCEPT ![e] = "heard"] /\ mine' = [mine EXCEPT ![e] = None]
             /\ theirs' = [theirs EXCEPT ![e] = t.msg.secret] /\ t.msg.type = "question"
    BY <1>2, <2>1, <2>4 DEF ProofOK
  <2>5. CASE /\ result' = result
             /\ smp' = [smp EXCEPT ![e] = "proved"] /\ mine' = mine
             /\ theirs' = [theirs EXCEPT ![e] = t.msg.secret] /\ t.msg.type = "reply"
    BY <1>2, <2>1, <2>5 DEF ProofOK
  <2> QED BY <1>5, <2>2, <2>3, <2>4, <2>5
<1>7. MemberOK'
  <2>1. \A f \in Ends : smp'[f] \in {smp[f], "idle"} \/ (f = e /\ otr[e] = "secure")
    BY <1>5 DEF Idle, TInv, TypeOK
  <2>2. MemberOK
    BY Parts
  <2> QED BY <1>1, <2>1, <2>2 DEF MemberOK
<1>8. HistoryOK'
  BY <1>1, Parts DEF HistoryOK
<1> QED BY <1>1, <1>4, <1>6, <1>7, <1>8, Spoken

LEMMA CallSteps ==
    ASSUME TInv, NEW e \in Ends, DM(e) \/ Ask(e)
    PROVE  TInv'
<1>1. PICK s, own :
         /\ own = {s} /\ Step(e, {}, own, {}) /\ s.call = calls + 1 /\ s.do \in {"ask", "dm", "doAsk"}
         /\ calls + 1 \in Calls => s \in Tasks
  <2>1. PICK what, at :
           /\ Call(e, what, at)
           /\ <<what, at>> \in {<<"dm", "init">>, <<"doAsk", "init">>, <<"ask", "set">>}
    BY DEF DM, Ask
  <2>2. PICK s : s = [do |-> what, at |-> at, call |-> calls + 1]
    OBVIOUS
  <2>3. Step(e, {}, {s}, {})
    BY <2>1, <2>2 DEF Call
  <2>4. s.call = calls + 1 /\ s.do \in {"ask", "dm", "doAsk"}
    BY <2>1, <2>2
  <2>5. calls + 1 \in Calls => s \in Tasks
    BY <2>1, <2>2 DEF Tasks
  <2> QED BY <2>3, <2>4, <2>5
<1>2. /\ calls < MaxCalls /\ calls' = calls + 1
      /\ asks' = asks \/ asks' = [asks EXCEPT ![e] = @ \union {calls + 1}]
      /\ UNCHANGED <<fp, otr, session, offered, onInit, smp, mine, theirs, given, result,
                     questions, raced, replaced, created, begun, together, crashed>>
  BY DEF DM, Ask, AskCall, Call, member, proof, mishaps
<1>3. calls \in Nat /\ MaxCalls \in Nat /\ calls + 1 \in Calls /\ begun \in Nat
  BY <1>2, CountedCalls DEF TInv, Calls
<1>4. s \in Tasks /\ own \subseteq Tasks /\ Timely(s, begun)
  BY <1>1, <1>3 DEF Timely
<1>5. /\ tasks'[e] = tasks[e] \union own
      /\ \A f \in Ends : f # e => tasks'[f] = tasks[f]
      /\ tasks' \in [Ends -> SUBSET Tasks]
  <2>1. PICK out : out = {} /\ Step(e, {}, own, out)
    BY <1>1
  <2>2. TypeOK
    BY DEF TInv
  <2>3. /\ tasks'[e] = (tasks[e] \ {}) \union own
        /\ tasks'[Peer(e)] = tasks[Peer(e)] \union {Received(m) : m \in out}
        /\ \A f \in Ends : f = e \/ f = Peer(e)
        /\ tasks' \in [Ends -> SUBSET Tasks]
    BY <1>4, <2>1, <2>2, TasksAfter
  <2> QED BY <2>1, <2>3
<1>6. TypeOK'
  <2>1. calls' \in 0..MaxCalls /\ asks' \in [Ends -> SUBSET Calls]
    BY <1>2, <1>3 DEF TInv, TypeOK
  <2> QED BY <1>2, <1>5, <2>1 DEF TInv, TypeOK
<1>7. Dated'
  BY <1>1, <1>2, <1>4, <1>5 DEF TInv, Dated, Timely
<1>8. ASSUME NEW f \in Ends, NEW r \in tasks'[f], NEW n \in Calls, Carries(r, n)
      PROVE  r \in tasks[f] \/ (f = e /\ r = s /\ n = calls + 1)
  BY <1>1, <1>5, <1>8 DEF Carries
<1>9. OneCarrier'
  <2> SUFFICES ASSUME NEW n \in Calls, NEW f1 \in Ends, NEW f2 \in Ends,
                      NEW s1 \in tasks'[f1], NEW s2 \in tasks'[f2],
                      Carries(s1, n), Carries(s2, n)
               PROVE  f1 = f2 /\ s1 = s2 /\ n <= calls'
    BY DEF OneCarrier, Carries
  <2>1. s1 \in tasks[f1] \/ (f1 = e /\ s1 = s /\ n = calls + 1)
    BY <1>8
  <2>2. s2 \in tasks[f2] \/ (f2 = e /\ s2 = s /\ n = calls + 1)
    BY <1>8
  <2>3. \A f, k \in Ends : \A r \in tasks[f], v \in tasks[k] :
          Carries(r, n) /\ Carries(v, n) => f = k /\ r = v /\ n <= calls
    BY DEF TInv, OneCarrier
  <2>4. n \in Nat
    BY <1>3 DEF Calls
  <2> QED BY <1>2, <1>3, <2>1, <2>2, <2>3, <2>4
<1>10. Spent \subseteq Spent'
  <2> SUFFICES ASSUME NEW n \in 1..calls, Due(n)' PROVE Due(n)
    BY <1>2, <1>3 DEF Spent
  <2>1. n \in Calls /\ n # calls + 1
    BY <1>3 DEF Calls
  <2>2. PICK f \in Ends : \E r \in tasks'[f] : Carries(r, n)
    BY DEF Due, Carries
  <2> QED BY <1>8, <2>1, <2>2 DEF Due
<1> QED BY <1>2, <1>6, <1>7, <1>9, <1>10, SpentLasts

LEMMA InitTInv == Init => TInv
<1> SUFFICES ASSUME Init PROVE TInv
  OBVIOUS
<1>1. /\ onInit = [e \in Ends |-> 0] /\ asks = [e \in Ends |-> {}] /\ questions = [n \in Calls |-> 0]
      /\ raced = {} /\ replaced = {} /\ created = [e \in Ends |-> 0] /\ calls = 0 /\ begun = 0
  BY DEF Init
<1>2. /\ onInit \in [Ends -> Calls \union {0}] /\ asks \in [Ends -> SUBSET Calls]
      /\ questions \in [Calls -> Nat] /\ created \in [Ends -> Nat]
      /\ raced \subseteq Calls /\ replaced \subseteq Calls
      /\ calls \in 0..MaxCalls /\ begun \in 0..MaxCalls
  BY <1>1, OtrAssumption
<1>3. together \in [Ends -> BOOLEAN] /\ crashed \in [Ends -> BOOLEAN]
  BY Zenon DEF Init
<1>4. TypeOK
  BY <1>2, <1>3, OtrAssumption DEF Init, TypeOK
<1>5. Dated /\ OneCarrier
  BY DEF Init, Dated, OneCarrier
<1>6. Spent = {}
  BY <1>1 DEF Spent
<1> QED BY <1>1, <1>4, <1>5, <1>6, FS_EmptySet DEF TInv

LEMMA NextTInv == TInv /\ [Next]_vars => TInv'
<1> SUFFICES ASSUME TInv, [Next]_vars PROVE TInv'
  OBVIOUS
<1>1. ASSUME NEW e \in Ends, NEW t \in tasks[e], Goroutine(e, t) PROVE TInv'
  BY <1>1, SetOnInitTyped, doAskTyped, InitOtrTyped, CreateTyped, SendTyped, ReceiveQueryTyped,
     ExchangeSteps, HandlersTyped, ProofSteps DEF Goroutine, Receive
<1>2. ASSUME NEW e \in Ends, NEW answer \in Words, Answer(e, answer) PROVE TInv'
  BY <1>2, AnswerTyped
<1>3. ASSUME NEW e \in Ends, DM(e) \/ Ask(e) PROVE TInv'
  BY <1>3, CallSteps
<1>4. CASE UNCHANGED vars
  BY <1>4 DEF vars, member, proof, history, mishaps, TInv, TypeOK, Dated, OneCarrier, Carries,
            Timely, Spent, Due
<1> QED BY <1>1, <1>2, <1>3, <1>4 DEF Next

-----------------------------------------------------------------------------
(* What the secrets are made of *)

AskSecret(e, x)    == \E w \in given[e] : x = prepareAnswer(e, w, TRUE)
AnswerSecret(e, x) == \E w \in given[e] : x = prepareAnswer(e, w, FALSE)

\* A message e has sent.
Fair(e, m) ==
    /\ m.type = "question" => AskSecret(e, m.secret)
    /\ m.type = "reply"    => AnswerSecret(e, m.secret)

Honest(e, t) == t.do = "receive" => Fair(Peer(e), t.msg)

Carried == \A e \in Ends : \A t \in tasks[e] : Honest(e, t)

Held ==
    \A e \in Ends :
        /\ smp[e] \in {"asked", "proved"}   => AskSecret(e, mine[e])
        /\ smp[e] = "proved"                => AnswerSecret(Peer(e), theirs[e])
        /\ smp[e] \in {"heard", "answered"} => AskSecret(Peer(e), theirs[e])
        /\ smp[e] = "answered"              => AnswerSecret(e, mine[e])

VInv == Carried /\ Held /\ VerifiedMeansTrusted /\ HonestVerified

\* Equal secrets: equal answers, and fingerprints that match or are left out.
LEMMA EqualSecrets ==
    ASSUME NEW e \in Ends, NEW w, NEW v,
           prepareAnswer(e, w, FALSE) = prepareAnswer(Peer(e), v, TRUE)
    PROVE  /\ w = v
           /\ TrustEachOther \/ \A f \in Ends : fp[f] = None
<1> DEFINE p == Peer(e)
<1>1. p \in Ends /\ Peer(p) = e /\ \A f \in Ends : f = e \/ f = p
  BY Peers, OtrAssumption DEF Peer, Ends
<1>2. CASE fp[e] = None
  <2>1. fp[p] = None
    <3> SUFFICES ASSUME fp[p] # None PROVE FALSE
      OBVIOUS
    <3>1. <<w>> = <<v, p, fp[p]>>
      BY <1>2 DEF prepareAnswer
    <3> QED BY <3>1
  <2>2. <<w>> = <<v>>
    BY <1>2, <2>1 DEF prepareAnswer
  <2> QED BY <1>1, <1>2, <2>1, <2>2
<1>3. CASE fp[e] # None
  <2>1. fp[p] # None
    <3> SUFFICES ASSUME fp[p] = None PROVE FALSE
      OBVIOUS
    <3>1. <<w, fp[e], e>> = <<v>>
      BY <1>3 DEF prepareAnswer
    <3> QED BY <3>1
  <2>2. <<w, fp[e], e>> = <<v, p, fp[p]>>
    BY <1>3, <2>1 DEF prepareAnswer
  <2>3. w = v /\ fp[e] = p /\ fp[p] = e
    BY <2>2
  <2> QED BY <1>1, <2>3 DEF TrustEachOther
<1> QED BY <1>2, <1>3

LEMMA TrustedSecrets ==
    ASSUME TrustEachOther, NEW e \in Ends, NEW w
    PROVE  prepareAnswer(e, w, FALSE) = prepareAnswer(Peer(e), w, TRUE)
<1>1. /\ Peer(e) \in Ends /\ Peer(Peer(e)) = e
      /\ Peer(e) # None /\ e # None
  BY Peers, OtrAssumption DEF Keys
<1>2. fp[e] = Peer(e) /\ fp[Peer(e)] = e
  BY <1>1 DEF TrustEachOther
<1> QED BY <1>1, <1>2 DEF prepareAnswer

-----------------------------------------------------------------------------
(* No step takes back a word given or changes whom an end trusts *)

Grows == fp' = fp /\ \A e \in Ends : given[e] \subseteq given'[e]

LEMMA SecretsLast ==
    ASSUME Grows, NEW e \in Ends, NEW x
    PROVE  /\ AskSecret(e, x) => AskSecret(e, x)'
           /\ AnswerSecret(e, x) => AnswerSecret(e, x)'
BY DEF Grows, AskSecret, AnswerSecret, prepareAnswer

LEMMA StepCarries ==
    ASSUME TypeOK, Carried, Grows, NEW e \in Ends, NEW done, NEW own, NEW out,
           Step(e, done, own, out),
           \A t \in own : Honest(e, t)', \A m \in out : Fair(e, m)'
    PROVE  Carried'
<1>1. /\ tasks'[e] = (tasks[e] \ done) \union own
      /\ tasks'[Peer(e)] = tasks[Peer(e)] \union {Received(m) : m \in out}
      /\ Peer(e) # e /\ \A f \in Ends : f = e \/ f = Peer(e)
  BY TasksAfter
<1>3. ASSUME NEW f \in Ends, NEW t \in tasks[f] PROVE Honest(f, t)'
  <2>1. Honest(f, t) /\ Peer(f) \in Ends
    BY Peers DEF Carried
  <2>2. Fair(Peer(f), t.msg) => Fair(Peer(f), t.msg)'
    BY <2>1, SecretsLast DEF Fair
  <2> QED BY <2>1, <2>2 DEF Honest
<1>4. ASSUME NEW m \in out PROVE Honest(Peer(e), Received(m))'
  <2>1. Fair(e, m)' /\ Peer(Peer(e)) = e
    BY Peers
  <2>2. Received(m).msg = m
    BY DEF Received
  <2> QED BY <2>1, <2>2 DEF Honest
<1> QED BY <1>1, <1>3, <1>4 DEF Carried

\* A step that says nothing new about answers: no question, no reply.
LEMMA PlainStep ==
    ASSUME TypeOK, Carried, Grows, NEW e \in Ends, NEW t \in tasks[e], NEW own, NEW out,
           Step(e, {t}, own, out),
           \A s \in own : s.do # "receive",
           \A m \in out : m.type \notin {"question", "reply"}
    PROVE  Carried'
<1>1. \A s \in own : Honest(e, s)'
  BY DEF Honest
<1>2. \A m \in out : Fair(e, m)'
  BY DEF Fair
<1> QED BY <1>1, <1>2, StepCarries

\* initOtr moves a goroutine on.
LEMMA MovedStep ==
    ASSUME TypeOK, Carried, Grows, NEW e \in Ends, NEW t \in tasks[e], NEW at,
           Step(e, {t}, {[t EXCEPT !.at = at]}, {})
    PROVE  Carried'
<1> DEFINE s == [t EXCEPT !.at = at]
<1>1. s.do = t.do /\ (t.do = "receive" => s.msg = t.msg)
  BY TaskKinds DEF TypeOK
<1> HIDE DEF s
<1>2. Honest(e, t) /\ Peer(e) \in Ends
  BY Peers DEF Carried
<1>3. t.do = "receive" => Fair(Peer(e), t.msg)'
  BY <1>2, SecretsLast DEF Honest, Fair
<1>4. Honest(e, s)'
  BY <1>1, <1>3 DEF Honest
<1>5. PICK own, out : own = {s} /\ out = {} /\ Step(e, {t}, own, out)
  BY DEF s
<1> QED BY <1>4, <1>5, StepCarries

\* What is held stays in order where the proof stays or ends.
LEMMA HeldLasts ==
    ASSUME TypeOK, Held, Grows, NEW e \in Ends,
           UNCHANGED proof \/ Idle(e)
    PROVE  Held'
<1>1. ASSUME NEW f \in Ends
      PROVE  \/ smp'[f] = "idle"
             \/ smp'[f] = smp[f] /\ mine'[f] = mine[f] /\ theirs'[f] = theirs[f]
  BY DEF TypeOK, Idle, proof
<1> QED BY <1>1, SecretsLast, Peers DEF Held

\* A verdict stays true while no new one is given.
LEMMA VerdictsLast ==
    ASSUME VerifiedMeansTrusted, HonestVerified, Grows, NEW e \in Ends, result'[e] = result[e]
    PROVE  /\ result'[e] = "success" =>
                /\ given'[e] \intersect given'[Peer(e)] # {}
                /\ TrustEachOther' \/ \A f \in Ends : fp'[f] = None
           /\ result'[e] = "failure" =>
                \/ ~ TrustEachOther'
                \/ \E w \in given'[e], v \in given'[Peer(e)] : w # v
<1>1. Peer(e) \in Ends /\ (TrustEachOther <=> TrustEachOther')
  BY Peers DEF Grows, TrustEachOther
<1> QED BY <1>1 DEF VerifiedMeansTrusted, HonestVerified, Grows

\* A verdict on secrets that came from where they should.
LEMMA NewVerdict ==
    ASSUME NEW e \in Ends, NEW x, NEW y,
           \/ AnswerSecret(e, x) /\ AskSecret(Peer(e), y)
           \/ AnswerSecret(Peer(e), x) /\ AskSecret(e, y)
    PROVE  /\ x = y =>
                /\ given[e] \intersect given[Peer(e)] # {}
                /\ TrustEachOther \/ \A f \in Ends : fp[f] = None
           /\ x # y =>
                \/ ~ TrustEachOther
                \/ \E w \in given[e], v \in given[Peer(e)] : w # v
<1>1. CASE AnswerSecret(e, x) /\ AskSecret(Peer(e), y)
  <2>1. PICK w \in given[e] : x = prepareAnswer(e, w, FALSE)
    BY <1>1 DEF AnswerSecret
  <2>2. PICK v \in given[Peer(e)] : y = prepareAnswer(Peer(e), v, TRUE)
    BY <1>1 DEF AskSecret
  <2>3. x = y => w = v /\ (TrustEachOther \/ \A f \in Ends : fp[f] = None)
    BY <2>1, <2>2, EqualSecrets
  <2>4. TrustEachOther /\ w = v => x = y
    BY <2>1, <2>2, TrustedSecrets
  <2> QED BY <2>1, <2>2, <2>3, <2>4
<1>2. CASE AnswerSecret(Peer(e), x) /\ AskSecret(e, y)
  <2>1. Peer(e) \in Ends /\ Peer(Peer(e)) = e
    BY Peers
  <2>2. PICK w \in given[Peer(e)] : x = prepareAnswer(Peer(e), w, FALSE)
    BY <1>2 DEF AnswerSecret
  <2>3. PICK v \in given[e] : y = prepareAnswer(Peer(Peer(e)), v, TRUE)
    BY <1>2, <2>1 DEF AskSecret
  <2>4. x = y => w = v /\ (TrustEachOther \/ \A f \in Ends : fp[f] = None)
    BY <2>1, <2>2, <2>3, EqualSecrets
  <2>5. TrustEachOther /\ w = v => x = y
    BY <2>1, <2>2, <2>3, TrustedSecrets
  <2> QED BY <2>1, <2>2, <2>3, <2>4, <2>5
<1> QED BY <1>1, <1>2

LEMMA SameVerdicts ==
    ASSUME VerifiedMeansTrusted, HonestVerified, Grows, result' = result
    PROVE  VerifiedMeansTrusted' /\ HonestVerified'
BY VerdictsLast DEF VerifiedMeansTrusted, HonestVerified

LEMMA Verdict ==
    ASSUME TypeOK, VInv, Grows, given' = given, NEW e \in Ends,
           \/ smp[e] = "answered" \/ smp[e] = "proved",
           result' = [result EXCEPT ![e] = IF mine[e] = theirs[e] THEN "success" ELSE "failure"]
    PROVE  VerifiedMeansTrusted' /\ HonestVerified'
<1>1. \/ AnswerSecret(e, mine[e]) /\ AskSecret(Peer(e), theirs[e])
      \/ AnswerSecret(Peer(e), theirs[e]) /\ AskSecret(e, mine[e])
  BY DEF VInv, Held
<1>2. /\ mine[e] = theirs[e] =>
           /\ given[e] \intersect given[Peer(e)] # {}
           /\ TrustEachOther \/ \A f \in Ends : fp[f] = None
      /\ mine[e] # theirs[e] =>
           \/ ~ TrustEachOther
           \/ \E w \in given[e], v \in given[Peer(e)] : w # v
  BY <1>1, NewVerdict DEF VInv
<1>3. /\ result'[e] = IF mine[e] = theirs[e] THEN "success" ELSE "failure"
      /\ \A f \in Ends \ {e} : result'[f] = result[f]
  BY DEF TypeOK
<1>4. TrustEachOther' <=> TrustEachOther
  BY DEF Grows, TrustEachOther
<1>5. \A f \in Ends \ {e} :
           /\ result'[f] = "success" =>
                /\ given'[f] \intersect given'[Peer(f)] # {}
                /\ TrustEachOther' \/ \A g \in Ends : fp'[g] = None
           /\ result'[f] = "failure" =>
                \/ ~ TrustEachOther'
                \/ \E w \in given'[f], v \in given'[Peer(f)] : w # v
  BY <1>3, VerdictsLast DEF VInv
<1>6. VerifiedMeansTrusted'
  BY <1>2, <1>3, <1>4, <1>5 DEF VerifiedMeansTrusted, Grows
<1>7. HonestVerified'
  BY <1>2, <1>3, <1>4, <1>5 DEF HonestVerified, Grows
<1> QED BY <1>6, <1>7
-----------------------------------------------------------------------------
(* The actions *)

LEMMA InitVInv == Init => VInv
<1> SUFFICES ASSUME Init PROVE VInv
  OBVIOUS
<1>2. Carried /\ Held
  BY DEF Init, Carried, Held
<1>3. VerifiedMeansTrusted /\ HonestVerified
  BY OtrAssumption DEF Init, VerifiedMeansTrusted, HonestVerified
<1> QED BY <1>2, <1>3 DEF VInv

\* All that gives no verdict and no word: what is left to show of a step.
LEMMA Quietly ==
    ASSUME TypeOK, VInv, UNCHANGED <<fp, given, result>>, NEW e \in Ends,
           UNCHANGED proof \/ Idle(e),
           Carried'
    PROVE  VInv'
<1>1. Grows
  BY DEF Grows
<1>2. Held'
  BY <1>1, HeldLasts DEF VInv
<1>3. VerifiedMeansTrusted' /\ HonestVerified'
  BY <1>1, SameVerdicts DEF VInv
<1> QED BY <1>2, <1>3 DEF VInv

LEMMA GivenGrows ==
    ASSUME TypeOK, VInv, NEW e \in Ends, NEW answer \in Words, fp' = fp,
           given' = [given EXCEPT ![e] = @ \union {answer}]
    PROVE  Grows /\ answer \in given'[e]
BY DEF TypeOK, Grows

LEMMA CallsKeep ==
    ASSUME TypeOK, VInv, NEW e \in Ends, DM(e) \/ Ask(e)
    PROVE  VInv'
<1>1. PICK own, out : Step(e, {}, own, out) /\ out = {} /\ \A s \in own : s.do # "receive"
  BY DEF DM, Ask, Call
<1>2. UNCHANGED <<fp, given, result>> /\ UNCHANGED proof /\ Grows
  BY DEF DM, Ask, Call, Grows
<1>3. \A s \in own : Honest(e, s)'
  BY <1>1 DEF Honest
<1>4. Carried'
  BY <1>1, <1>2, <1>3, StepCarries DEF VInv
<1> QED BY <1>2, <1>4, Quietly

LEMMA SetOnInitKeeps ==
    ASSUME TypeOK, VInv, NEW e \in Ends, NEW t \in tasks[e], SetOnInit(e, t)
    PROVE  VInv'
<1>1. UNCHANGED <<fp, given, result>> /\ UNCHANGED proof /\ Grows
      /\ Step(e, {t}, {[t EXCEPT !.at = "init"]}, {})
  BY DEF SetOnInit, Grows
<1>2. Carried'
  BY <1>1, MovedStep DEF VInv
<1> QED BY <1>1, <1>2, Quietly

LEMMA InitOtrKeeps ==
    ASSUME TypeOK, VInv, NEW e \in Ends, NEW t \in tasks[e], initOtr(e, t) \/ create(e, t)
    PROVE  VInv'
<1>1. PICK at : Step(e, {t}, {[t EXCEPT !.at = at]}, {})
  BY DEF initOtr, create
<1>2. UNCHANGED <<fp, given, result>> /\ Grows
  BY DEF initOtr, create, Grows
<1>3. UNCHANGED proof \/ Idle(e)
  BY DEF initOtr, create
<1>4. Carried'
  BY <1>1, <1>2, MovedStep DEF VInv
<1> QED BY <1>2, <1>3, <1>4, Quietly

LEMMA doAskKeeps ==
    ASSUME TypeOK, VInv, NEW e \in Ends, NEW t \in tasks[e], doAsk(e, t)
    PROVE  VInv'
<1>1. CASE otr[e] = "secure"
  <2>1. PICK answer, x, m :
           /\ answer \in Words
           /\ x = prepareAnswer(e, answer, TRUE)
           /\ m = Question(t.call, session[e], x, smp[e] # "idle")
           /\ Step(e, {t}, {}, {m})
           /\ mine' = [mine EXCEPT ![e] = x]
           /\ given' = [given EXCEPT ![e] = @ \union {answer}]
    BY <1>1 DEF doAsk
  <2>2. /\ smp' = [smp EXCEPT ![e] = "asked"] /\ theirs' = [theirs EXCEPT ![e] = None]
        /\ fp' = fp /\ result' = result
    BY <1>1 DEF doAsk
  <2>3. Grows /\ answer \in given'[e]
    BY <2>1, <2>2, GivenGrows
  <2>4. AskSecret(e, x)'
    <3>1. x = prepareAnswer(e, answer, TRUE)'
      BY <2>1, <2>2 DEF prepareAnswer
    <3> QED BY <2>3, <3>1 DEF AskSecret
  <2>5. m.type = "question" /\ m.secret = x
    BY <2>1 DEF Question
  <2>6. Carried'
    <3>1. Fair(e, m)'
      BY <2>4, <2>5 DEF Fair
    <3>2. PICK own, out : Step(e, {t}, own, out) /\ own = {} /\ out = {m}
      BY <2>1
    <3>3. (\A s \in own : Honest(e, s)') /\ \A n \in out : Fair(e, n)'
      BY <3>1, <3>2
    <3> QED BY <2>3, <3>2, <3>3, StepCarries DEF VInv
  <2>7. /\ smp'[e] = "asked" /\ mine'[e] = x
        /\ \A f \in Ends \ {e} :
              smp'[f] = smp[f] /\ mine'[f] = mine[f] /\ theirs'[f] = theirs[f]
    BY <2>1, <2>2 DEF TypeOK
  <2>8. Held'
    BY <2>3, <2>4, <2>7, SecretsLast, Peers DEF VInv, Held
  <2>9. VerifiedMeansTrusted' /\ HonestVerified'
    BY <2>2, <2>3, SameVerdicts DEF VInv
  <2> QED BY <2>6, <2>8, <2>9 DEF VInv
<1>2. CASE otr[e] # "secure"
  <2>1. UNCHANGED <<fp, given, result>> /\ UNCHANGED proof /\ Grows /\ Step(e, {t}, {}, {})
    BY <1>2 DEF doAsk, Grows
  <2>2. Carried'
    <3>1. PICK own, out :
             /\ Step(e, {t}, own, out)
             /\ \A s \in own : s.do # "receive"
             /\ \A m \in out : m.type \notin {"question", "reply"}
      BY <2>1
    <3> QED BY <2>1, <3>1, PlainStep DEF VInv
  <2> QED BY <2>1, <2>2, Quietly
<1> QED BY <1>1, <1>2

LEMMA AnswerKeeps ==
    ASSUME TypeOK, VInv, NEW e \in Ends, NEW answer \in Words, Answer(e, answer)
    PROVE  VInv'
<1>1. PICK x, m :
      /\ x = prepareAnswer(e, answer, FALSE) /\ m = Reply(session[e], x)
      /\ Step(e, {}, {}, {m}) /\ mine' = [mine EXCEPT ![e] = x]
      /\ smp[e] = "heard" /\ smp' = [smp EXCEPT ![e] = "answered"]
      /\ given' = [given EXCEPT ![e] = @ \union {answer}]
      /\ UNCHANGED <<fp, theirs, result>>
  BY DEF Answer
<1>2. Grows /\ answer \in given'[e]
  BY <1>1, GivenGrows
<1>3. AnswerSecret(e, x)'
  <2>1. x = prepareAnswer(e, answer, FALSE)'
    BY <1>1 DEF prepareAnswer
  <2> QED BY <1>2, <2>1 DEF AnswerSecret
<1>4. m.type = "reply" /\ m.secret = x
  BY <1>1 DEF Reply
<1>5. Carried'
  <2>1. Fair(e, m)'
    BY <1>3, <1>4 DEF Fair
  <2>2. PICK own, out : Step(e, {}, own, out) /\ own = {} /\ out = {m}
    BY <1>1
  <2>3. (\A s \in own : Honest(e, s)') /\ \A n \in out : Fair(e, n)'
    BY <2>1, <2>2
  <2> QED BY <1>2, <2>2, <2>3, StepCarries DEF VInv
<1>6. /\ smp'[e] = "answered" /\ mine'[e] = x /\ theirs'[e] = theirs[e]
      /\ \A f \in Ends \ {e} :
            smp'[f] = smp[f] /\ mine'[f] = mine[f] /\ theirs'[f] = theirs[f]
  BY <1>1 DEF TypeOK
<1>7. AskSecret(Peer(e), theirs[e])'
  BY <1>1, <1>2, SecretsLast, Peers DEF VInv, Held
<1>8. Held'
  BY <1>1, <1>2, <1>3, <1>6, <1>7, SecretsLast, Peers DEF VInv, Held
<1>9. VerifiedMeansTrusted' /\ HonestVerified'
  BY <1>1, <1>2, SameVerdicts DEF VInv
<1> QED BY <1>5, <1>8, <1>9 DEF VInv

\* What is sent or received without a secret in it.
LEMMA PlainKeeps ==
    ASSUME TypeOK, VInv, NEW e \in Ends, NEW t \in tasks[e],
           \/ Send(e, t) \/ ReceiveQuery(e, t) \/ ReceiveCommit(e, t)
           \/ ReceiveSignature(e, t) \/ ReceiveAbort(e, t) \/ ReceiveUnreadable(e, t)
    PROVE  VInv'
<1>1. UNCHANGED <<fp, given, result>> /\ Grows
  BY DEF Send, ReceiveQuery, ReceiveCommit, ReceiveSignature, ReceiveAbort,
         ReceiveUnreadable, Grows
<1>2. UNCHANGED proof \/ Idle(e)
  BY DEF Send, ReceiveQuery, ReceiveCommit, ReceiveSignature, ReceiveAbort, ReceiveUnreadable
<1>3. PICK own, out :
         /\ Step(e, {t}, own, out)
         /\ \A s \in own : s.do # "receive"
         /\ \A m \in out : m.type \notin {"question", "reply"}
  <2>1. CASE Send(e, t)
    BY <2>1 DEF Send, Query
  <2>2. CASE ReceiveQuery(e, t)
    BY <2>2 DEF ReceiveQuery, Exchange
  <2>3. CASE ReceiveCommit(e, t)
    BY <2>3 DEF ReceiveCommit, GoneSecure, Signature, Handler, Ignored, Exchange
  <2>4. CASE ReceiveSignature(e, t)
    BY <2>4 DEF ReceiveSignature, GoneSecure, Signature, Handler, Ignored, Exchange
  <2>5. CASE ReceiveAbort(e, t)
    BY <2>5 DEF ReceiveAbort, Exchange
  <2>6. CASE ReceiveUnreadable(e, t)
    BY <2>6 DEF ReceiveUnreadable
  <2> QED BY <2>1, <2>2, <2>3, <2>4, <2>5, <2>6
<1>4. Carried'
  BY <1>1, <1>3, PlainStep DEF VInv
<1> QED BY <1>1, <1>2, <1>4, Quietly

\* What a goroutine has received came from the other end.
LEMMA ReceivedFair ==
    ASSUME TypeOK, VInv, NEW e \in Ends, NEW t \in tasks[e], t.do = "receive"
    PROVE  Fair(Peer(e), t.msg)
BY DEF VInv, Carried, Honest

LEMMA ReceiveQuestionKeeps ==
    ASSUME TypeOK, VInv, NEW e \in Ends, NEW t \in tasks[e], ReceiveQuestion(e, t)
    PROVE  VInv'
<1>1. UNCHANGED <<fp, given, result>> /\ Grows
  BY DEF ReceiveQuestion, Grows
<1>2. CASE /\ smp' = [smp EXCEPT ![e] = "heard"]
           /\ theirs' = [theirs EXCEPT ![e] = t.msg.secret]
           /\ mine' = [mine EXCEPT ![e] = None]
           /\ Step(e, {t}, {}, {})
  <2>1. AskSecret(Peer(e), t.msg.secret)'
    BY <1>1, ReceivedFair, SecretsLast, Peers DEF ReceiveQuestion, Receiving, Fair
  <2>2. Carried'
    <3>1. PICK own, out :
             /\ Step(e, {t}, own, out)
             /\ \A s \in own : s.do # "receive"
             /\ \A m \in out : m.type \notin {"question", "reply"}
      BY <1>2
    <3> QED BY <1>1, <3>1, PlainStep DEF VInv
  <2>3. /\ smp'[e] = "heard" /\ theirs'[e] = t.msg.secret
        /\ \A f \in Ends \ {e} :
              smp'[f] = smp[f] /\ mine'[f] = mine[f] /\ theirs'[f] = theirs[f]
    BY <1>2 DEF TypeOK
  <2>4. Held'
    BY <1>1, <2>1, <2>3, SecretsLast, Peers DEF VInv, Held
  <2>5. VerifiedMeansTrusted' /\ HonestVerified'
    BY <1>1, SameVerdicts DEF VInv
  <2> QED BY <2>2, <2>4, <2>5 DEF VInv
<1>3. CASE Idle(e) /\ Step(e, {t}, {}, {Exchange("abort", session[e])})
  <2>1. Carried'
    <3>1. PICK out : Step(e, {t}, {}, out) /\ \A m \in out : m.type \notin {"question", "reply"}
      BY <1>3 DEF Exchange
    <3> QED BY <1>1, <3>1, PlainStep DEF VInv
  <2> QED BY <1>1, <1>3, <2>1, Quietly
<1> QED BY <1>2, <1>3 DEF ReceiveQuestion

LEMMA ReceiveReplyKeeps ==
    ASSUME TypeOK, VInv, NEW e \in Ends, NEW t \in tasks[e], ReceiveReply(e, t)
    PROVE  VInv'
<1>1. UNCHANGED <<fp, given, result, mine>> /\ Grows
      /\ smp[e] = "asked" /\ smp' = [smp EXCEPT ![e] = "proved"]
      /\ theirs' = [theirs EXCEPT ![e] = t.msg.secret]
      /\ Step(e, {t}, {}, {Exchange("proof", session[e])})
  BY DEF ReceiveReply, Grows
<1>2. AnswerSecret(Peer(e), t.msg.secret)'
  BY <1>1, ReceivedFair, SecretsLast, Peers DEF ReceiveReply, Receiving, Fair
<1>3. Carried'
  <2>1. PICK out : Step(e, {t}, {}, out) /\ \A m \in out : m.type \notin {"question", "reply"}
    BY <1>1 DEF Exchange
  <2> QED BY <1>1, <2>1, PlainStep DEF VInv
<1>4. /\ smp'[e] = "proved" /\ theirs'[e] = t.msg.secret /\ mine'[e] = mine[e]
      /\ \A f \in Ends \ {e} :
            smp'[f] = smp[f] /\ mine'[f] = mine[f] /\ theirs'[f] = theirs[f]
  BY <1>1 DEF TypeOK
<1>5. Held'
  BY <1>1, <1>2, <1>4, SecretsLast, Peers DEF VInv, Held
<1>6. VerifiedMeansTrusted' /\ HonestVerified'
  BY <1>1, SameVerdicts DEF VInv
<1> QED BY <1>3, <1>5, <1>6 DEF VInv

\* The two ends of a proof: a verdict, and nothing is held any longer.
LEMMA VerdictKeeps ==
    ASSUME TypeOK, VInv, NEW e \in Ends, NEW t \in tasks[e], ReceiveProof(e, t) \/ ReceiveLast(e, t)
    PROVE  VInv'
<1>1. /\ UNCHANGED <<fp, given>> /\ Grows /\ Idle(e)
      /\ smp[e] = "answered" \/ smp[e] = "proved"
      /\ result' = [result EXCEPT ![e] = IF mine[e] = theirs[e] THEN "success" ELSE "failure"]
  BY DEF ReceiveProof, ReceiveLast, Grows
<1>2. PICK own, out :
         /\ Step(e, {t}, own, out)
         /\ \A s \in own : s.do # "receive"
         /\ \A m \in out : m.type \notin {"question", "reply"}
  BY DEF ReceiveProof, ReceiveLast, Exchange
<1>3. Carried'
  BY <1>1, <1>2, PlainStep DEF VInv
<1>4. VerifiedMeansTrusted' /\ HonestVerified'
  BY <1>1, Verdict
<1>5. Held'
  BY <1>1, HeldLasts DEF VInv
<1> QED BY <1>3, <1>4, <1>5 DEF VInv

\* HandleSecurityEvent: the signature, at most, is sent.
LEMMA HandlersKeep ==
    ASSUME TypeOK, VInv, NEW e \in Ends, NEW t \in tasks[e],
           CheckOnInit(e, t) \/ ReadOnInit(e, t) \/ ResetOnInit(e, t)
    PROVE  VInv'
<1>1. UNCHANGED <<fp, given, result>> /\ UNCHANGED proof /\ Grows
  BY DEF CheckOnInit, ReadOnInit, ResetOnInit, HandleSecurityEvent, Grows
<1>2. CASE tasks' = tasks
  <2>1. Carried'
    BY <1>1, <1>2, SecretsLast, Peers DEF VInv, Carried, Honest, Fair
  <2> QED BY <1>1, <2>1, Quietly
<1>3. CASE tasks' # tasks
  <2>1. PICK own, out :
           /\ Step(e, {t}, own, out) /\ out \subseteq Signature(t.session, t.sign)
           /\ \A s \in own : s.do # "receive"
    BY <1>3 DEF CheckOnInit, ReadOnInit, ResetOnInit, Start, Handler
  <2>2. \A m \in out : m.type \notin {"question", "reply"}
    BY <2>1 DEF Signature, Exchange
  <2>3. Carried'
    BY <1>1, <2>1, <2>2, PlainStep DEF VInv
  <2> QED BY <1>1, <2>3, Quietly
<1> QED BY <1>2, <1>3

LEMMA NextVInv == TypeOK /\ VInv /\ [Next]_vars => VInv'
<1> SUFFICES ASSUME TypeOK, VInv, [Next]_vars PROVE VInv'
  OBVIOUS
<1>1. CASE Next
  <2>1. PICK e \in Ends :
           \/ DM(e) \/ Ask(e)
           \/ \E answer \in Words : Answer(e, answer)
           \/ \E t \in tasks[e] : Goroutine(e, t)
    BY <1>1 DEF Next
  <2>2. CASE DM(e) \/ Ask(e)
    BY <2>2, CallsKeep
  <2>3. CASE \E answer \in Words : Answer(e, answer)
    BY <2>3, AnswerKeeps
  <2>4. ASSUME NEW t \in tasks[e], Goroutine(e, t) PROVE VInv'
    BY <2>4, SetOnInitKeeps, doAskKeeps, InitOtrKeeps, PlainKeeps, ReceiveQuestionKeeps,
       ReceiveReplyKeeps, VerdictKeeps, HandlersKeep DEF Goroutine, Receive
  <2> QED BY <2>1, <2>2, <2>3, <2>4
<1>2. CASE UNCHANGED vars
  <2>1. /\ UNCHANGED <<fp, given, result>> /\ UNCHANGED proof /\ UNCHANGED tasks /\ Grows
    BY <1>2 DEF vars, Grows
  <2>2. Carried'
    BY <2>1, SecretsLast, Peers DEF VInv, Carried, Honest, Fair
  <2>3. A \in Ends
    BY DEF Ends
  <2> QED BY <2>1, <2>2, <2>3, Quietly
<1> QED BY <1>1, <1>2
-----------------------------------------------------------------------------
(* Handlers: one conversation has one *)

Gone(t) == t.do = "gone"

\* As long as initOtr has made one conversation at most.
OneGone(e) ==
    /\ otr[e] # "secure" => \A t \in tasks[e] : ~ Gone(t)
    /\ \A t, u \in tasks[e] : Gone(t) /\ Gone(u) => t = u
    /\ \A t \in tasks[e] : Gone(t) /\ t.at = "read" => onInit[e] # 0
    /\ \A t \in tasks[e] : Gone(t) /\ t.at = "reset" => t.call # 0
    /\ ~ together[e] /\ ~ crashed[e]

HInv ==
    \A e \in Ends :
        /\ otr[e] = "nil" <=> created[e] = 0
        /\ created[e] <= 1 => OneGone(e)

LEMMA InitHInv == Init => HInv
BY Zenon DEF Init, HInv, OneGone

\* What is not a message comes from the goroutine itself.
LEMMA OwnTasks ==
    ASSUME TypeOK, NEW e \in Ends, NEW done, NEW own, NEW out, Step(e, done, own, out),
           NEW f \in Ends, NEW t \in tasks'[f], t.do # "receive"
    PROVE  \/ t \in tasks[f] /\ (f = e => t \notin done)
           \/ f = e /\ t \in own
<1>1. /\ tasks'[e] = (tasks[e] \ done) \union own
      /\ tasks'[Peer(e)] = tasks[Peer(e)] \union {Received(m) : m \in out}
      /\ Peer(e) # e /\ (f = e \/ f = Peer(e))
  BY TasksAfter
<1>2. \A m \in out : t # Received(m)
  BY DEF Received
<1> QED BY <1>1, <1>2

\* A goroutine that goes on has the same task.
LEMMA SameTask ==
    ASSUME NEW t \in Tasks, t.do \in {"ask", "dm", "receive"}, NEW at
    PROVE  /\ [t EXCEPT !.at = at].do = t.do /\ [t EXCEPT !.at = at].at = at
           /\ t.do # "receive" => [t EXCEPT !.at = at].call = t.call
           /\ t.do = "receive" => [t EXCEPT !.at = at].msg = t.msg
BY TaskKinds

\* Goroutines that end with what they say.
LEMMA Ended ==
    ASSUME NEW e \in Ends, NEW t,
           \/ doAsk(e, t) \/ Send(e, t) \/ ReceiveQuery(e, t)
           \/ ReceiveQuestion(e, t) \/ ReceiveReply(e, t) \/ ReceiveProof(e, t)
           \/ ReceiveLast(e, t) \/ ReceiveAbort(e, t) \/ ReceiveUnreadable(e, t)
    PROVE  \E own, out : own = {} /\ Step(e, {t}, own, out)
<1>1. CASE doAsk(e, t)
  BY <1>1 DEF doAsk
<1>2. CASE Send(e, t)
  BY <1>2 DEF Send
<1>3. CASE ReceiveQuery(e, t)
  BY <1>3 DEF ReceiveQuery
<1>4. CASE ReceiveQuestion(e, t)
  BY <1>4 DEF ReceiveQuestion
<1>5. CASE ReceiveReply(e, t) \/ ReceiveProof(e, t) \/ ReceiveLast(e, t)
  BY <1>5 DEF ReceiveReply, ReceiveProof, ReceiveLast
<1>6. CASE ReceiveAbort(e, t)
  BY <1>6 DEF ReceiveAbort
<1>7. CASE ReceiveUnreadable(e, t)
  BY <1>7 DEF ReceiveUnreadable
<1> QED BY <1>1, <1>2, <1>3, <1>4, <1>5, <1>6, <1>7

\* A step that is none of a handler's and none that makes a conversation secure.
LEMMA HandlersLast ==
    ASSUME TypeOK, HInv, NEW e \in Ends, NEW done, NEW own, NEW out, Step(e, done, own, out),
           \A s \in own : ~ Gone(s), UNCHANGED <<created, together, crashed, otr>>,
           \A f \in Ends : onInit'[f] = onInit[f] \/ onInit'[f] # 0
    PROVE  HInv'
<1> SUFFICES ASSUME NEW f \in Ends, created[f] <= 1 PROVE OneGone(f)'
  BY DEF HInv
<1>1. OneGone(f)
  BY DEF HInv
<1>2. \A t \in tasks'[f] : Gone(t) => t \in tasks[f]
  BY OwnTasks DEF Gone
<1> QED BY <1>1, <1>2 DEF OneGone, Gone

LEMMA CreateApart ==
    ASSUME TypeOK, HInv, NEW e \in Ends, NEW t \in tasks[e], create(e, t)
    PROVE  HInv'
<1>1. /\ otr' = [otr EXCEPT ![e] = "plain"] /\ created' = [created EXCEPT ![e] = @ + 1]
      /\ UNCHANGED <<onInit, together, crashed>> /\ t.at = "create"
      /\ Step(e, {t}, {[t EXCEPT !.at = "init"]}, {})
  BY DEF create, mishaps
<1>2. PICK done, own, out : Step(e, done, own, out) /\ \A s \in own : ~ Gone(s)
  <2>1. PICK s : s = [t EXCEPT !.at = "init"]
    OBVIOUS
  <2>2. ~ Gone(s)
    <3>1. t \in Tasks
      BY DEF TypeOK
    <3>2. t.do \in {"ask", "dm", "receive"}
      BY <1>1, <3>1, TaskKinds
    <3> QED BY <2>1, <3>1, <3>2, SameTask DEF Gone
  <2> QED BY <1>1, <2>1, <2>2
<1>3. \A f \in Ends : \A s \in tasks'[f] : Gone(s) => s \in tasks[f]
  BY <1>2, OwnTasks DEF Gone
<1>4. \A f \in Ends : created[f] \in Nat
  BY DEF TypeOK
<1>5. ASSUME NEW f \in Ends, f # e
      PROVE  (otr[f] = "nil" <=> created[f] = 0)' /\ (created'[f] <= 1 => OneGone(f)')
  <2>1. otr'[f] = otr[f] /\ created'[f] = created[f]
    BY <1>1, <1>5 DEF TypeOK
  <2> QED BY <1>1, <1>3, <2>1 DEF HInv, OneGone, Gone
<1>6. otr'[e] = "plain" /\ created'[e] = created[e] + 1
  BY <1>1 DEF TypeOK
<1>7. created'[e] <= 1 => OneGone(e)'
  <2> SUFFICES ASSUME created'[e] <= 1 PROVE OneGone(e)'
    OBVIOUS
  <2>1. created[e] = 0
    BY <1>4, <1>6
  <2>2. otr[e] = "nil" /\ OneGone(e)
    BY <2>1 DEF HInv
  <2>3. \A s \in tasks'[e] : ~ Gone(s)
    BY <1>3, <2>2 DEF OneGone
  <2>4. ~ together'[e] /\ ~ crashed'[e]
    BY <1>1, <2>2 DEF OneGone
  <2> QED BY <2>3, <2>4 DEF OneGone, Gone
<1>8. created'[e] # 0
  BY <1>4, <1>6
<1> QED BY <1>5, <1>6, <1>7, <1>8 DEF HInv

LEMMA GoneSecureApart ==
    ASSUME TypeOK, HInv, NEW e \in Ends, NEW t \in tasks[e], NEW s, NEW sign,
           GoneSecure(e, t, s, sign), otr[e] # "nil",
           UNCHANGED <<onInit, created, together, crashed>>
    PROVE  HInv'
<1>1. otr'[e] = "secure" /\ \A f \in Ends : f # e => otr'[f] = otr[f]
  BY DEF GoneSecure, TypeOK
<1>2. PICK own, out :
         /\ Step(e, {t}, own, out)
         /\ own = {} \/ (otr[e] # "secure" /\ own = {Handler("check", 0, s, sign)})
  BY DEF GoneSecure
<1>3. \A f \in Ends : \A r \in tasks'[f] : Gone(r) => r \in tasks[f] \/ (f = e /\ r \in own)
  BY <1>2, OwnTasks DEF Gone
<1>4. Handler("check", 0, s, sign).at = "check"
  BY DEF Handler
<1>5. ASSUME NEW f \in Ends, created[f] <= 1 PROVE OneGone(f)'
  <2>1. OneGone(f)
    BY <1>5 DEF HInv
  <2>2. CASE f # e \/ own = {}
    BY <1>1, <1>3, <2>1, <2>2 DEF OneGone, Gone
  <2>3. CASE f = e /\ otr[e] # "secure" /\ own = {Handler("check", 0, s, sign)}
    <3>1. \A r \in tasks'[f] : Gone(r) => r = Handler("check", 0, s, sign)
      BY <1>3, <2>1, <2>3 DEF OneGone
    <3> QED BY <1>1, <1>4, <2>1, <2>3, <3>1 DEF OneGone, Gone
  <2> QED BY <1>2, <2>2, <2>3
<1> QED BY <1>1, <1>5 DEF HInv

\* What a handler does is its own conversation's business.
LEMMA HandlersMoveOn ==
    ASSUME TypeOK, HInv, NEW e \in Ends, NEW t \in tasks[e],
           CheckOnInit(e, t) \/ ReadOnInit(e, t) \/ ResetOnInit(e, t)
    PROVE  HInv'
<1>1. /\ Gone(t) /\ t \in Tasks /\ UNCHANGED <<otr, created>>
      /\ \A f \in Ends : f # e =>
           /\ together'[f] = together[f] /\ crashed'[f] = crashed[f] /\ onInit'[f] = onInit[f]
  BY DEF CheckOnInit, ReadOnInit, ResetOnInit, Start, HandleSecurityEvent, TypeOK, Gone,
         member, history, mishaps
<1>2. \A f \in Ends : \A s \in tasks'[f] : Gone(s) =>
         \/ s \in tasks[f]
         \/ f = e /\ t.at = "check" /\ s = Handler("read", 0, t.session, t.sign) /\ onInit[e] # 0
         \/ f = e /\ t.at = "read" /\ s = Handler("reset", onInit[e], t.session, t.sign)
  <2>1. CASE tasks' = tasks
    BY <2>1
  <2>2. CASE tasks' # tasks
    <3>1. PICK own, out :
             /\ Step(e, {t}, own, out)
             /\ \A s \in own : Gone(s) =>
                  \/ t.at = "check" /\ s = Handler("read", 0, t.session, t.sign) /\ onInit[e] # 0
                  \/ t.at = "read" /\ s = Handler("reset", onInit[e], t.session, t.sign)
      BY <2>2 DEF CheckOnInit, ReadOnInit, ResetOnInit, Start, Gone
    <3> QED BY <3>1, OwnTasks DEF Gone
  <2> QED BY <2>1, <2>2
<1>3. ASSUME NEW f \in Ends, f # e, OneGone(f) PROVE OneGone(f)'
  BY <1>1, <1>2, <1>3 DEF OneGone, Gone
<1>4. ASSUME OneGone(e) PROVE OneGone(e)'
  <2>1. \A s \in tasks[e] : Gone(s) => s = t
    BY <1>1, <1>4 DEF OneGone
  <2>2. otr'[e] = "secure"
    BY <1>1, <1>4 DEF OneGone
  <2>3. t.session \in Sessions /\ t.sign \in BOOLEAN /\ onInit[e] \in Calls \union {0}
    BY <1>1, HandlerKinds DEF Gone, TypeOK
  <2>4. CASE CheckOnInit(e, t)
    <3>1. t.at = "check" /\ UNCHANGED <<onInit, crashed>>
      BY <2>4 DEF CheckOnInit
    <3>2. Handling(e) = {}
      BY <2>1, <3>1 DEF Handling, Gone
    <3>3. ~ together'[e] /\ ~ crashed'[e]
      BY <1>4, <2>4, <3>2 DEF CheckOnInit, OneGone, TypeOK
    <3>4. PICK h : h = Handler("read", 0, t.session, t.sign)
      OBVIOUS
    <3>5. h.at = "read"
      BY <3>4 DEF Handler
    <3>6. \/ Step(e, {t}, {}, Signature(t.session, t.sign))
          \/ Step(e, {t}, {h}, {}) /\ onInit[e] # 0
      BY <2>4, <3>4 DEF CheckOnInit
    <3>7. \A s \in tasks'[e] : Gone(s) => s = h /\ onInit[e] # 0
      <4>1. PICK done, own, out : /\ Step(e, done, own, out) /\ done = {t}
                                  /\ own = {} \/ (own = {h} /\ onInit[e] # 0)
        BY <3>6
      <4> QED BY <2>1, <4>1, OwnTasks DEF Gone
    <3> QED BY <2>2, <3>1, <3>3, <3>5, <3>7 DEF OneGone
  <2>5. CASE ReadOnInit(e, t)
    <3>1. t.at = "read" /\ UNCHANGED <<onInit, together, crashed>> /\ onInit[e] # 0
      BY <1>1, <1>4, <2>5 DEF ReadOnInit, mishaps, OneGone
    <3>2. PICK h : h = Handler("reset", onInit[e], t.session, t.sign)
      OBVIOUS
    <3>3. h.at = "reset" /\ h.call = onInit[e]
      BY <3>2 DEF Handler
    <3>4. \A s \in tasks'[e] : Gone(s) => s = h
      <4>1. PICK done, own, out : Step(e, done, own, out) /\ done = {t} /\ own = {h}
        BY <2>5, <3>2 DEF ReadOnInit
      <4> QED BY <2>1, <4>1, OwnTasks DEF Gone
    <3> QED BY <1>4, <2>2, <3>1, <3>3, <3>4 DEF OneGone
  <2>6. CASE ResetOnInit(e, t)
    <3>1. t.at = "reset" /\ t.call # 0 /\ UNCHANGED <<together, crashed>>
      BY <1>1, <1>4, <2>6 DEF ResetOnInit, Start, OneGone
    <3>2. \A s \in tasks'[e] : ~ Gone(s)
      <4>1. PICK done, own, out : /\ Step(e, done, own, out) /\ done = {t}
                                  /\ \A s \in own : ~ Gone(s)
        BY <2>6, <3>1 DEF ResetOnInit, Start, Gone
      <4> QED BY <2>1, <4>1, OwnTasks DEF Gone
    <3> QED BY <1>4, <2>2, <3>1, <3>2 DEF OneGone
  <2> QED BY <2>4, <2>5, <2>6
<1> QED BY <1>1, <1>3, <1>4 DEF HInv

LEMMA NextHInv == TypeOK /\ HInv /\ [Next]_vars => HInv'
<1> SUFFICES ASSUME TypeOK, HInv, [Next]_vars PROVE HInv'
  OBVIOUS
<1>1. ASSUME NEW e \in Ends, DM(e) \/ Ask(e) \/ \E answer \in Words : Answer(e, answer)
      PROVE  HInv'
  <2>1. PICK done, own, out : Step(e, done, own, out) /\ \A s \in own : ~ Gone(s)
    <3>1. CASE \E answer \in Words : Answer(e, answer)
      BY <3>1 DEF Answer
    <3>2. ASSUME NEW what \in {"dm", "ask", "doAsk"}, NEW at, Call(e, what, at)
          PROVE  \E done, own, out : Step(e, done, own, out) /\ \A s \in own : ~ Gone(s)
      <4>1. PICK s : s = [do |-> what, at |-> at, call |-> calls + 1]
        OBVIOUS
      <4>2. ~ Gone(s)
        BY <4>1 DEF Gone
      <4> QED BY <3>2, <4>1, <4>2 DEF Call
    <3> QED BY <1>1, <3>1, <3>2 DEF DM, Ask
  <2>2. UNCHANGED <<created, together, crashed, otr, onInit>>
    BY <1>1 DEF DM, Ask, Call, Answer, member, history, mishaps
  <2> QED BY <2>1, <2>2, HandlersLast
<1>2. ASSUME NEW e \in Ends, NEW t \in tasks[e], SetOnInit(e, t) PROVE HInv'
  <2>1. t \in Tasks /\ t.call \in Calls /\ t.do = "ask"
    BY <1>2, TaskKinds DEF SetOnInit, TypeOK
  <2>2. PICK done, own, out : Step(e, done, own, out) /\ \A s \in own : ~ Gone(s)
    <3>1. PICK s : s = [t EXCEPT !.at = "init"]
      OBVIOUS
    <3>2. ~ Gone(s)
      BY <2>1, <3>1, SameTask DEF Gone
    <3> QED BY <1>2, <3>1, <3>2 DEF SetOnInit
  <2>3. /\ UNCHANGED <<created, together, crashed, otr>> /\ onInit' = [onInit EXCEPT ![e] = t.call]
    BY <1>2 DEF SetOnInit, member, mishaps
  <2>4. t.call # 0
    BY <2>1, OtrAssumption DEF Calls
  <2>5. \A f \in Ends : onInit'[f] = onInit[f] \/ onInit'[f] # 0
    BY <2>3, <2>4 DEF TypeOK
  <2> QED BY <2>2, <2>3, <2>5, HandlersLast
<1>3. ASSUME NEW e \in Ends, NEW t \in tasks[e],
             \/ doAsk(e, t) \/ initOtr(e, t) \/ Send(e, t) \/ ReceiveQuery(e, t)
             \/ ReceiveQuestion(e, t) \/ ReceiveReply(e, t) \/ ReceiveProof(e, t)
             \/ ReceiveLast(e, t) \/ ReceiveAbort(e, t) \/ ReceiveUnreadable(e, t)
      PROVE  HInv'
  <2>1. UNCHANGED <<created, together, crashed, otr, onInit>>
    BY <1>3 DEF doAsk, initOtr, Send, ReceiveQuery, ReceiveQuestion, ReceiveReply, ReceiveProof,
         ReceiveLast, ReceiveAbort, ReceiveUnreadable, member, history, mishaps
  <2>2. PICK done, own, out : Step(e, done, own, out) /\ \A s \in own : ~ Gone(s)
    <3>1. CASE initOtr(e, t)
      <4>1. PICK s : s = [t EXCEPT !.at = "create"]
        OBVIOUS
      <4>2. ~ Gone(s)
        BY <3>1, <4>1, SameTask DEF initOtr, TypeOK, Gone
      <4> QED BY <3>1, <4>1, <4>2 DEF initOtr
    <3>2. CASE ~ initOtr(e, t)
      BY <1>3, <3>2, Ended
    <3> QED BY <3>1, <3>2
  <2> QED BY <2>1, <2>2, HandlersLast
<1>4. ASSUME NEW e \in Ends, NEW t \in tasks[e], ReceiveCommit(e, t) \/ ReceiveSignature(e, t)
      PROVE  HInv'
  <2>1. UNCHANGED <<onInit, created, together, crashed>> /\ otr[e] # "nil"
    BY <1>4 DEF ReceiveCommit, ReceiveSignature, Receiving, Ready, history, mishaps
  <2>2. CASE Ignored(e, t)
    <3>1. PICK done, own, out : Step(e, done, own, out) /\ own = {}
      BY <2>2 DEF Ignored
    <3> QED BY <2>1, <2>2, <3>1, HandlersLast DEF Ignored, member
  <2> QED BY <1>4, <2>1, <2>2, GoneSecureApart DEF ReceiveCommit, ReceiveSignature
<1>5. CASE UNCHANGED vars
  BY <1>5 DEF vars, member, history, mishaps, HInv, OneGone, Gone
<1> QED BY <1>1, <1>2, <1>3, <1>4, <1>5, CreateApart, HandlersMoveOn DEF Next, Goroutine, Receive
-----------------------------------------------------------------------------
(* The right to send a question *)

\* A handler of e has read call n's question.
Holds(e, n) == \E t \in tasks[e] : Gone(t) /\ t.at = "reset" /\ t.call = n

\* Whatever has to do with a question is of an Ask of the end it is at.
Owned ==
    /\ \A e \in Ends :
         /\ asks[e] \subseteq 1..calls /\ onInit[e] \in asks[e] \union {0}
         /\ \A n \in Calls :
              AskTask(n) \in tasks[e] \/ Holds(e, n) \/ doAskTask(n) \in tasks[e] => n \in asks[e]
    /\ \A e, f \in Ends : \A n \in asks[e] : n \in asks[f] => e = f
    /\ \A n \in Calls : n > calls => questions[n] = 0

\* As long as handlers never were together, the question of a call of e is in
\* one place of these, which it leaves for the next: with Ask, in onInit or
\* read from there, on its way, sent.
OneRight(e) ==
    /\ \A t, u \in Handling(e) : t = u
    /\ \A n \in asks[e] :
         /\ AskTask(n) \in tasks[e] => onInit[e] # n /\ ~ Holds(e, n)
         /\ AskTask(n) \in tasks[e] \/ onInit[e] = n \/ Holds(e, n) => doAskTask(n) \notin tasks[e]
         /\ AskTask(n) \in tasks[e] \/ onInit[e] = n \/ Holds(e, n) \/ doAskTask(n) \in tasks[e] =>
              questions[n] = 0
         /\ questions[n] \in {0, 1}

RInv == Owned /\ \A e \in Ends : ~ together[e] => OneRight(e)

LEMMA Distinct ==
    /\ \A n, m : AskTask(n) # doAskTask(m) /\ (n # m => AskTask(n) # AskTask(m) /\ doAskTask(n) # doAskTask(m))
    /\ \A n : AskTask(n).do = "ask" /\ AskTask(n).at = "set" /\ AskTask(n).call = n
    /\ \A n : doAskTask(n).do = "doAsk" /\ doAskTask(n).at = "init" /\ doAskTask(n).call = n
<1>1. /\ \A n : AskTask(n).do = "ask" /\ AskTask(n).at = "set" /\ AskTask(n).call = n
      /\ \A n : doAskTask(n).do = "doAsk" /\ doAskTask(n).at = "init" /\ doAskTask(n).call = n
  BY DEF AskTask, doAskTask
<1>2. \A n, m : AskTask(n) # doAskTask(m)
  BY <1>1
<1>3. ASSUME NEW n, NEW m, n # m PROVE AskTask(n) # AskTask(m) /\ doAskTask(n) # doAskTask(m)
  BY <1>1, <1>3
<1> QED BY <1>1, <1>2, <1>3

LEMMA InitRInv == Init => RInv
<1> SUFFICES ASSUME Init PROVE RInv
  OBVIOUS
<1>1. \A e \in Ends : tasks[e] = {} /\ asks[e] = {} /\ onInit[e] = 0
  BY DEF Init
<1>2. calls = 0 /\ \A n \in Calls : questions[n] = 0
  BY DEF Init
<1> QED BY <1>1, <1>2 DEF RInv, Owned, OneRight, Handling, Holds

\* What a step leaves of the places.
Places(e, own) ==
    \A f \in Ends, n \in Calls :
        /\ AskTask(n) \in tasks'[f] => AskTask(n) \in tasks[f] \/ (f = e /\ AskTask(n) \in own)
        /\ doAskTask(n) \in tasks'[f] => doAskTask(n) \in tasks[f] \/ (f = e /\ doAskTask(n) \in own)
        /\ Holds(f, n)' => \/ Holds(f, n)
                           \/ f = e /\ \E s \in own : Gone(s) /\ s.at = "reset" /\ s.call = n

LEMMA StepPlaces ==
    ASSUME TypeOK, NEW e \in Ends, NEW done, NEW own, NEW out, Step(e, done, own, out)
    PROVE  Places(e, own)
<1> SUFFICES ASSUME NEW f \in Ends, NEW n \in Calls
             PROVE  /\ AskTask(n) \in tasks'[f] => AskTask(n) \in tasks[f] \/ (f = e /\ AskTask(n) \in own)
                    /\ doAskTask(n) \in tasks'[f] => doAskTask(n) \in tasks[f] \/ (f = e /\ doAskTask(n) \in own)
                    /\ Holds(f, n)' => \/ Holds(f, n)
                                       \/ f = e /\ \E s \in own : Gone(s) /\ s.at = "reset" /\ s.call = n
  BY DEF Places
<1>1. AskTask(n) \in tasks'[f] => AskTask(n) \in tasks[f] \/ (f = e /\ AskTask(n) \in own)
  BY Distinct, OwnTasks
<1>2. doAskTask(n) \in tasks'[f] => doAskTask(n) \in tasks[f] \/ (f = e /\ doAskTask(n) \in own)
  BY Distinct, OwnTasks
<1>3. ASSUME Holds(f, n)'
      PROVE  Holds(f, n) \/ (f = e /\ \E s \in own : Gone(s) /\ s.at = "reset" /\ s.call = n)
  <2>1. PICK s \in tasks'[f] : Gone(s) /\ s.at = "reset" /\ s.call = n
    BY <1>3 DEF Holds, Gone
  <2>2. s \in tasks[f] \/ (f = e /\ s \in own)
    BY <2>1, OwnTasks DEF Gone
  <2> QED BY <2>1, <2>2 DEF Holds
<1> QED BY <1>1, <1>2, <1>3

\* A step that moves no question.
LEMMA RightsLast ==
    ASSUME TypeOK, TypeOK', RInv, NEW e \in Ends, NEW done, NEW own, NEW out, Step(e, done, own, out),
           \A s \in own : s.at # "set" /\ s.do # "doAsk" /\ (Gone(s) => s.at = "check"),
           UNCHANGED <<onInit, questions, asks, together>>, calls <= calls'
    PROVE  RInv'
<1>1. Places(e, own)
  BY StepPlaces
<1>2. \A f \in Ends, n \in Calls : /\ AskTask(n) \in tasks'[f] => AskTask(n) \in tasks[f]
                                   /\ doAskTask(n) \in tasks'[f] => doAskTask(n) \in tasks[f]
                                   /\ Holds(f, n)' => Holds(f, n)
  BY <1>1, Distinct DEF Places
<1>3. calls \in Nat /\ calls' \in Nat /\ Calls \subseteq Nat /\ \A f \in Ends : asks[f] \subseteq Calls
  BY OtrAssumption DEF TypeOK, Calls
<1>4. Owned'
  <2>1. \A f \in Ends : asks'[f] \subseteq 1..calls' /\ onInit'[f] \in asks'[f] \union {0}
    BY <1>3 DEF RInv, Owned
  <2>2. \A n \in Calls : n > calls' => questions'[n] = 0
    BY <1>3 DEF RInv, Owned
  <2>3. \A f \in Ends, n \in Calls :
          AskTask(n) \in tasks'[f] \/ Holds(f, n)' \/ doAskTask(n) \in tasks'[f] => n \in asks'[f]
    BY <1>2 DEF RInv, Owned
  <2>4. \A g, f \in Ends : \A n \in asks'[g] : n \in asks'[f] => g = f
    BY DEF RInv, Owned
  <2> QED BY <2>1, <2>2, <2>3, <2>4 DEF Owned, AskTask, doAskTask
<1>5. ASSUME NEW f \in Ends, ~ together'[f] PROVE OneRight(f)'
  <2>1. OneRight(f)
    BY <1>5 DEF RInv
  <2>2. Handling(f)' \subseteq Handling(f)
    <3> SUFFICES ASSUME NEW t \in tasks'[f], t.do = "gone", t.at # "check" PROVE t \in tasks[f]
      BY DEF Handling
    <3> QED BY OwnTasks DEF Gone
  <2>3. \A t, u \in Handling(f)' : t = u
    BY <2>1, <2>2 DEF OneRight
  <2>4. ASSUME NEW n \in asks'[f]
        PROVE  /\ AskTask(n) \in tasks'[f] => onInit'[f] # n /\ ~ Holds(f, n)'
               /\ AskTask(n) \in tasks'[f] \/ onInit'[f] = n \/ Holds(f, n)' => doAskTask(n) \notin tasks'[f]
               /\ AskTask(n) \in tasks'[f] \/ onInit'[f] = n \/ Holds(f, n)' \/ doAskTask(n) \in tasks'[f] =>
                    questions'[n] = 0
               /\ questions'[n] \in {0, 1}
    BY <1>2, <1>3, <2>1, <2>4 DEF OneRight
  <2> QED BY <2>3, <2>4 DEF OneRight, AskTask, doAskTask
<1> QED BY <1>4, <1>5 DEF RInv

\* The other end's questions are its own.
LEMMA OtherRights ==
    ASSUME TypeOK, RInv, NEW e \in Ends, NEW done, NEW own, NEW out, Step(e, done, own, out),
           NEW f \in Ends, f # e, onInit'[f] = onInit[f], asks'[f] = asks[f],
           together'[f] = together[f], \A n \in asks[f] : questions'[n] = questions[n]
    PROVE  ~ together'[f] => OneRight(f)'
<1> SUFFICES ASSUME ~ together'[f] PROVE OneRight(f)'
  OBVIOUS
<1>1. Places(e, own) /\ asks[f] \subseteq Calls /\ OneRight(f)
  BY StepPlaces DEF TypeOK, RInv
<1>2. \A n \in Calls : /\ AskTask(n) \in tasks'[f] => AskTask(n) \in tasks[f]
                       /\ doAskTask(n) \in tasks'[f] => doAskTask(n) \in tasks[f]
                       /\ Holds(f, n)' => Holds(f, n)
  BY <1>1 DEF Places
<1>3. Handling(f)' \subseteq Handling(f)
  <2> SUFFICES ASSUME NEW t \in tasks'[f], t.do = "gone", t.at # "check" PROVE t \in tasks[f]
    BY DEF Handling
  <2> QED BY OwnTasks
<1>4. \A t, u \in Handling(f)' : t = u
  BY <1>1, <1>3 DEF OneRight
<1>5. ASSUME NEW n \in asks'[f]
      PROVE  /\ AskTask(n) \in tasks'[f] => onInit'[f] # n /\ ~ Holds(f, n)'
             /\ AskTask(n) \in tasks'[f] \/ onInit'[f] = n \/ Holds(f, n)' => doAskTask(n) \notin tasks'[f]
             /\ AskTask(n) \in tasks'[f] \/ onInit'[f] = n \/ Holds(f, n)' \/ doAskTask(n) \in tasks'[f] =>
                  questions'[n] = 0
             /\ questions'[n] \in {0, 1}
  BY <1>1, <1>2, <1>5 DEF OneRight
<1> QED BY <1>4, <1>5 DEF OneRight, AskTask, doAskTask

LEMMA AskRights ==
    ASSUME TypeOK, RInv, NEW e \in Ends, Ask(e)
    PROVE  RInv'
<1>1. PICK n : n = calls + 1
  OBVIOUS
<1>2. /\ calls' = n /\ asks' = [asks EXCEPT ![e] = @ \union {n}] /\ UNCHANGED <<onInit, questions, together>>
      /\ calls < MaxCalls
  BY <1>1 DEF Ask, AskCall, Call, mishaps
<1>3. /\ n \in Calls /\ n > calls /\ n # 0 /\ calls \in Nat /\ Calls \subseteq Nat \ {0}
      /\ \A f \in Ends : asks[f] \subseteq Calls
  BY <1>1, <1>2, OtrAssumption DEF TypeOK, Calls
<1>4. PICK done, own, out :
         Step(e, done, own, out) /\ done = {} /\ (own = {AskTask(n)} \/ own = {doAskTask(n)})
  BY <1>1 DEF Ask, Call, AskTask, doAskTask
<1>5. \A m \in Calls, f \in Ends :
         /\ AskTask(m) \in tasks'[f] => AskTask(m) \in tasks[f] \/ (f = e /\ m = n /\ own = {AskTask(n)})
         /\ doAskTask(m) \in tasks'[f] => doAskTask(m) \in tasks[f] \/ (f = e /\ m = n /\ own = {doAskTask(n)})
         /\ Holds(f, m)' => Holds(f, m)
  <2>1. Places(e, own)
    BY <1>4, StepPlaces
  <2>2. \A s \in own : ~ Gone(s)
    BY <1>4, Distinct DEF Gone
  <2> QED BY <1>4, <2>1, <2>2, Distinct DEF Places
<1>6. /\ asks'[e] = asks[e] \union {n} /\ \A f \in Ends : f # e => asks'[f] = asks[f]
      /\ \A f \in Ends : n \notin asks[f]
  <2>1. \A f \in Ends : asks[f] \subseteq 1..calls
    BY DEF RInv, Owned
  <2>2. \A f \in Ends : n \notin asks[f]
    BY <1>3, <2>1
  <2> QED BY <1>2, <2>2 DEF TypeOK
<1>7. /\ questions[n] = 0 /\ \A f \in Ends : onInit[f] # n
      /\ \A f \in Ends : AskTask(n) \notin tasks[f] /\ ~ Holds(f, n) /\ doAskTask(n) \notin tasks[f]
  BY <1>3, <1>6 DEF RInv, Owned
<1>8. Owned'
  <2>1. \A f \in Ends : asks'[f] \subseteq 1..calls'
    BY <1>1, <1>2, <1>3, <1>6 DEF RInv, Owned
  <2>2. \A f \in Ends : onInit'[f] \in asks'[f] \union {0}
    BY <1>2, <1>6 DEF RInv, Owned
  <2>3. \A f \in Ends, m \in Calls :
          AskTask(m) \in tasks'[f] \/ Holds(f, m)' \/ doAskTask(m) \in tasks'[f] => m \in asks'[f]
    BY <1>5, <1>6 DEF RInv, Owned
  <2>4. \A g, f \in Ends : \A m \in asks'[g] : m \in asks'[f] => g = f
    BY <1>6 DEF RInv, Owned
  <2>5. \A m \in Calls : m > calls' => questions'[m] = 0
    <3>1. \A m \in Calls : m > calls => questions[m] = 0
      BY DEF RInv, Owned
    <3> QED BY <1>1, <1>2, <1>3, <3>1
  <2> QED BY <2>1, <2>2, <2>3, <2>4, <2>5 DEF Owned, AskTask, doAskTask
<1>9. ASSUME NEW f \in Ends, f # e PROVE ~ together'[f] => OneRight(f)'
  BY <1>2, <1>4, <1>6, <1>9, OtherRights
<1>10. ASSUME ~ together'[e] PROVE OneRight(e)'
  <2>1. OneRight(e)
    BY <1>2, <1>10 DEF RInv
  <2>2. Handling(e)' \subseteq Handling(e)
    <3> SUFFICES ASSUME NEW t \in tasks'[e], t.do = "gone", t.at # "check" PROVE t \in tasks[e]
      BY DEF Handling
    <3>1. t \in tasks[e] \/ t \in own
      BY <1>4, OwnTasks
    <3> QED BY <1>4, <3>1, Distinct
  <2>3. \A t, u \in Handling(e)' : t = u
    BY <2>1, <2>2 DEF OneRight
  <2>4. ASSUME NEW m \in asks'[e]
        PROVE  /\ AskTask(m) \in tasks'[e] => onInit'[e] # m /\ ~ Holds(e, m)'
               /\ AskTask(m) \in tasks'[e] \/ onInit'[e] = m \/ Holds(e, m)' => doAskTask(m) \notin tasks'[e]
               /\ AskTask(m) \in tasks'[e] \/ onInit'[e] = m \/ Holds(e, m)' \/ doAskTask(m) \in tasks'[e] =>
                    questions'[m] = 0
               /\ questions'[m] \in {0, 1}
    <3>1. m \in Calls
      BY <1>3, <1>6, <2>4
    <3>2. CASE m = n
      <4>1. AskTask(n) \in tasks'[e] => doAskTask(n) \notin tasks'[e]
        BY <1>3, <1>5, <1>7, Distinct
      <4> QED BY <1>2, <1>3, <1>5, <1>7, <3>2, <4>1
    <3>3. CASE m # n
      BY <1>2, <1>5, <1>6, <2>1, <2>4, <3>1, <3>3 DEF OneRight
    <3> QED BY <3>2, <3>3
  <2> QED BY <2>3, <2>4 DEF OneRight, AskTask, doAskTask
<1> QED BY <1>8, <1>9, <1>10 DEF RInv

LEMMA SetOnInitRights ==
    ASSUME TypeOK, RInv, NEW e \in Ends, NEW t \in tasks[e], SetOnInit(e, t)
    PROVE  RInv'
<1>1. PICK n : n = t.call
  OBVIOUS
<1>2. t = AskTask(n) /\ n \in Calls /\ n # 0
  <2>1. t \in Tasks /\ t.at = "set"
    BY DEF SetOnInit, TypeOK
  <2>2. t = AskTask(n) /\ n \in Calls
    BY <1>1, <2>1, TaskKinds
  <2> QED BY <2>2, OtrAssumption DEF Calls
<1>3. onInit' = [onInit EXCEPT ![e] = n] /\ UNCHANGED <<questions, calls, asks, together>>
  BY <1>1 DEF SetOnInit, mishaps
<1>4. PICK s, done, own, out :
         /\ Step(e, done, own, out) /\ done = {t} /\ own = {s}
         /\ s.do = "ask" /\ s.at = "init"
  <2>1. PICK s : s = [t EXCEPT !.at = "init"]
    OBVIOUS
  <2>2. s.do = "ask" /\ s.at = "init"
    BY <1>2, <2>1 DEF AskTask
  <2> QED BY <2>1, <2>2 DEF SetOnInit
<1>5. \A m \in Calls, f \in Ends :
         /\ AskTask(m) \in tasks'[f] => AskTask(m) \in tasks[f]
         /\ doAskTask(m) \in tasks'[f] => doAskTask(m) \in tasks[f]
         /\ Holds(f, m)' => Holds(f, m)
  <2>1. Places(e, own)
    BY <1>4, StepPlaces
  <2>2. \A m : AskTask(m) \notin own /\ doAskTask(m) \notin own
    BY <1>4, Distinct
  <2>3. \A r \in own : ~ Gone(r)
    BY <1>4 DEF Gone
  <2> QED BY <2>1, <2>2, <2>3 DEF Places
<1>6. AskTask(n) \notin tasks'[e]
  BY <1>2, <1>4, OwnTasks, Distinct
<1>7. onInit'[e] = n /\ \A f \in Ends : f # e => onInit'[f] = onInit[f]
  BY <1>3 DEF TypeOK
<1>8. n \in asks[e] /\ \A f \in Ends : asks[f] \subseteq Calls
  BY <1>2 DEF RInv, Owned, TypeOK
<1>9. Owned'
  <2>1. \A f \in Ends : asks'[f] \subseteq 1..calls' /\ onInit'[f] \in asks'[f] \union {0}
    BY <1>3, <1>7, <1>8 DEF RInv, Owned
  <2>2. \A f \in Ends, m \in Calls :
          AskTask(m) \in tasks'[f] \/ Holds(f, m)' \/ doAskTask(m) \in tasks'[f] => m \in asks'[f]
    BY <1>3, <1>5 DEF RInv, Owned
  <2>3. \A g, f \in Ends : \A m \in asks'[g] : m \in asks'[f] => g = f
    BY <1>3 DEF RInv, Owned
  <2>4. \A m \in Calls : m > calls' => questions'[m] = 0
    BY <1>3 DEF RInv, Owned
  <2> QED BY <2>1, <2>2, <2>3, <2>4 DEF Owned, AskTask, doAskTask
<1>10. ASSUME NEW f \in Ends, f # e PROVE ~ together'[f] => OneRight(f)'
  BY <1>3, <1>4, <1>7, <1>10, OtherRights
<1>11. ASSUME ~ together'[e] PROVE OneRight(e)'
  <2>1. OneRight(e)
    BY <1>3, <1>11 DEF RInv
  <2>2. Handling(e)' \subseteq Handling(e)
    <3> SUFFICES ASSUME NEW r \in tasks'[e], r.do = "gone", r.at # "check" PROVE r \in tasks[e]
      BY DEF Handling
    <3>1. r \in tasks[e] \/ r \in own
      BY <1>4, OwnTasks
    <3> QED BY <1>4, <3>1
  <2>3. \A r, u \in Handling(e)' : r = u
    BY <2>1, <2>2 DEF OneRight
  <2>4. /\ onInit[e] # n /\ ~ Holds(e, n) /\ doAskTask(n) \notin tasks[e] /\ questions[n] = 0
    BY <1>2, <1>8, <2>1 DEF OneRight
  <2>5. ASSUME NEW m \in asks'[e]
        PROVE  /\ AskTask(m) \in tasks'[e] => onInit'[e] # m /\ ~ Holds(e, m)'
               /\ AskTask(m) \in tasks'[e] \/ onInit'[e] = m \/ Holds(e, m)' => doAskTask(m) \notin tasks'[e]
               /\ AskTask(m) \in tasks'[e] \/ onInit'[e] = m \/ Holds(e, m)' \/ doAskTask(m) \in tasks'[e] =>
                    questions'[m] = 0
               /\ questions'[m] \in {0, 1}
    <3>1. CASE m = n
      BY <1>2, <1>3, <1>5, <1>6, <2>4, <3>1
    <3>2. CASE m # n
      BY <1>3, <1>5, <1>7, <1>8, <2>1, <2>5, <3>2 DEF OneRight
    <3> QED BY <3>1, <3>2
  <2> QED BY <2>3, <2>5 DEF OneRight, AskTask, doAskTask
<1> QED BY <1>9, <1>10, <1>11 DEF RInv

LEMMA doAskRights ==
    ASSUME TypeOK, RInv, NEW e \in Ends, NEW t \in tasks[e], doAsk(e, t)
    PROVE  RInv'
<1>1. PICK n : n = t.call
  OBVIOUS
<1>2. t = doAskTask(n) /\ n \in Calls
  BY <1>1, TaskKinds DEF doAsk, TypeOK
<1>3. /\ UNCHANGED <<onInit, calls, asks, together>>
      /\ questions' = questions \/ questions' = [questions EXCEPT ![n] = @ + 1]
  BY <1>1 DEF doAsk, history, mishaps
<1>4. PICK done, own, out : Step(e, done, own, out) /\ done = {t} /\ own = {}
  BY Ended
<1>5. \A m \in Calls, f \in Ends :
         /\ AskTask(m) \in tasks'[f] => AskTask(m) \in tasks[f]
         /\ doAskTask(m) \in tasks'[f] => doAskTask(m) \in tasks[f]
         /\ Holds(f, m)' => Holds(f, m)
  BY <1>4, StepPlaces DEF Places
<1>6. doAskTask(n) \notin tasks'[e]
  BY <1>2, <1>4, OwnTasks, Distinct
<1>7. \A m \in Calls : questions'[m] = questions[m] \/ (m = n /\ questions'[m] = questions[m] + 1)
  BY <1>3 DEF TypeOK
<1>8. n \in asks[e] /\ \A f \in Ends : asks[f] \subseteq Calls /\ (f # e => n \notin asks[f])
  BY <1>2 DEF RInv, Owned, TypeOK
<1>9. Owned'
  <2>1. \A f \in Ends : asks'[f] \subseteq 1..calls' /\ onInit'[f] \in asks'[f] \union {0}
    BY <1>3 DEF RInv, Owned
  <2>2. \A f \in Ends, m \in Calls :
          AskTask(m) \in tasks'[f] \/ Holds(f, m)' \/ doAskTask(m) \in tasks'[f] => m \in asks'[f]
    BY <1>3, <1>5 DEF RInv, Owned
  <2>3. \A g, f \in Ends : \A m \in asks'[g] : m \in asks'[f] => g = f
    BY <1>3 DEF RInv, Owned
  <2>4. \A m \in Calls : m > calls' => questions'[m] = 0
    <3>1. n <= calls /\ n \in Nat /\ calls \in Nat
      BY <1>2, <1>8, OtrAssumption DEF RInv, Owned, TypeOK, Calls
    <3>2. \A m \in Calls : m > calls => questions[m] = 0 /\ m # n
      BY <3>1 DEF RInv, Owned
    <3> QED BY <1>3, <1>7, <3>2
  <2> QED BY <2>1, <2>2, <2>3, <2>4 DEF Owned, AskTask, doAskTask
<1>10. ASSUME NEW f \in Ends, f # e PROVE ~ together'[f] => OneRight(f)'
  <2>1. \A m \in asks[f] : questions'[m] = questions[m]
    BY <1>7, <1>8, <1>10
  <2> QED BY <1>3, <1>4, <1>10, <2>1, OtherRights
<1>11. ASSUME ~ together'[e] PROVE OneRight(e)'
  <2>1. OneRight(e)
    BY <1>3, <1>11 DEF RInv
  <2>2. Handling(e)' \subseteq Handling(e)
    <3> SUFFICES ASSUME NEW r \in tasks'[e], r.do = "gone", r.at # "check" PROVE r \in tasks[e]
      BY DEF Handling
    <3> QED BY <1>4, OwnTasks
  <2>3. \A r, u \in Handling(e)' : r = u
    BY <2>1, <2>2 DEF OneRight
  <2>4. /\ AskTask(n) \notin tasks[e] /\ onInit[e] # n /\ ~ Holds(e, n) /\ questions[n] = 0
    BY <1>2, <1>8, <2>1 DEF OneRight
  <2>5. ASSUME NEW m \in asks'[e]
        PROVE  /\ AskTask(m) \in tasks'[e] => onInit'[e] # m /\ ~ Holds(e, m)'
               /\ AskTask(m) \in tasks'[e] \/ onInit'[e] = m \/ Holds(e, m)' => doAskTask(m) \notin tasks'[e]
               /\ AskTask(m) \in tasks'[e] \/ onInit'[e] = m \/ Holds(e, m)' \/ doAskTask(m) \in tasks'[e] =>
                    questions'[m] = 0
               /\ questions'[m] \in {0, 1}
    <3>1. CASE m = n
      BY <1>2, <1>3, <1>5, <1>6, <1>7, <2>4, <3>1
    <3>2. CASE m # n
      BY <1>3, <1>5, <1>7, <1>8, <2>1, <2>5, <3>2 DEF OneRight
    <3> QED BY <3>1, <3>2
  <2> QED BY <2>3, <2>5 DEF OneRight, AskTask, doAskTask
<1> QED BY <1>9, <1>10, <1>11 DEF RInv

\* A handler that reads onInit takes its question on, and the reset leaves it
\* nowhere else: but for another handler that was there meanwhile.
LEMMA HandlersRights ==
    ASSUME TypeOK, RInv, NEW e \in Ends, NEW t \in tasks[e],
           CheckOnInit(e, t) \/ ReadOnInit(e, t) \/ ResetOnInit(e, t)
    PROVE  RInv'
<1>1. /\ Gone(t) /\ t \in Tasks /\ t.session \in Sessions /\ t.sign \in BOOLEAN
      /\ t.call \in Calls \union {0} /\ onInit[e] \in Calls \union {0}
      /\ t.at \in {"check", "read", "reset"}
      /\ UNCHANGED <<questions, calls, asks>>
      /\ Calls \subseteq Nat \ {0} /\ \A f \in Ends : asks[f] \subseteq Calls
  <2>1. t.do = "gone" /\ t \in Tasks /\ UNCHANGED <<questions, calls, asks>>
    BY DEF CheckOnInit, ReadOnInit, ResetOnInit, HandleSecurityEvent, history, TypeOK
  <2> QED BY <2>1, HandlerKinds, OtrAssumption DEF Gone, TypeOK, Calls
<1>2. /\ \A f \in Ends : f # e => onInit'[f] = onInit[f] /\ together'[f] = together[f]
      /\ onInit'[e] = onInit[e] \/ (onInit'[e] = 0 /\ t.at = "reset")
      /\ together[e] => together'[e]
  BY DEF CheckOnInit, ReadOnInit, ResetOnInit, mishaps, TypeOK
<1>3. PICK h, k, d :
         /\ h = Handler("read", 0, t.session, t.sign)
         /\ k = Handler("reset", onInit[e], t.session, t.sign) /\ d = doAskTask(t.call)
  OBVIOUS
<1>4. /\ h.do = "gone" /\ h.at = "read" /\ k.do = "gone" /\ k.at = "reset" /\ k.call = onInit[e]
      /\ d.do = "doAsk"
  BY <1>3, Distinct DEF Handler
\* What is new where e's handler was.
<1>5. PICK own :
         /\ \A s \in own : \/ s = h /\ t.at = "check" /\ (~ together'[e] => Handling(e) = {})
                           \/ s = k /\ t.at = "read"
                           \/ s = d /\ t.at = "reset" /\ t.call # 0
         /\ \/ tasks' = tasks /\ own = {} /\ (t.at = "reset" => t.call = 0)
            \/ \E out : Step(e, {t}, own, out)
  <2>1. CASE CheckOnInit(e, t)
    <3>1. ASSUME onInit[e] # 0, Handling(e) # {} PROVE together'[e]
      <4>1. PICK c : c = (together[e] \/ Handling(e) # {})
        OBVIOUS
      <4>2. together' = [together EXCEPT ![e] = c]
        BY <2>1, <3>1, <4>1 DEF CheckOnInit
      <4>3. together'[e] = c
        BY <4>2 DEF TypeOK
      <4> QED BY <3>1, <4>1, <4>3, Zenon
    <3> QED BY <1>3, <2>1, <3>1 DEF CheckOnInit
  <2>2. CASE ReadOnInit(e, t)
    BY <1>3, <2>2 DEF ReadOnInit
  <2>3. CASE ResetOnInit(e, t)
    BY <1>3, <2>3 DEF ResetOnInit, Start, doAskTask
  <2> QED BY <2>1, <2>2, <2>3
<1>6. \A f \in Ends : \A s \in tasks'[f] : s.do # "receive" =>
         \/ s \in tasks[f] /\ (f = e /\ s = t => tasks' = tasks /\ (t.at = "reset" => t.call = 0))
         \/ f = e /\ s \in own
  <2>1. CASE tasks' = tasks /\ (t.at = "reset" => t.call = 0)
    BY <2>1
  <2>2. CASE \E out : Step(e, {t}, own, out)
    <3>1. PICK done, out : done = {t} /\ Step(e, done, own, out)
      BY <2>2
    <3> QED BY <3>1, OwnTasks
  <2> QED BY <1>5, <2>1, <2>2
<1>7. \A m \in Calls, f \in Ends :
         /\ AskTask(m) \in tasks'[f] => AskTask(m) \in tasks[f]
         /\ doAskTask(m) \in tasks'[f] =>
              doAskTask(m) \in tasks[f] \/ (f = e /\ t.at = "reset" /\ t.call = m)
         /\ Holds(f, m)' => Holds(f, m) \/ (f = e /\ t.at = "read" /\ onInit[e] = m)
  <2> SUFFICES ASSUME NEW m \in Calls, NEW f \in Ends
               PROVE  /\ AskTask(m) \in tasks'[f] => AskTask(m) \in tasks[f]
                      /\ doAskTask(m) \in tasks'[f] =>
                           doAskTask(m) \in tasks[f] \/ (f = e /\ t.at = "reset" /\ t.call = m)
                      /\ Holds(f, m)' => Holds(f, m) \/ (f = e /\ t.at = "read" /\ onInit[e] = m)
    OBVIOUS
  <2>1. AskTask(m) \in tasks'[f] => AskTask(m) \in tasks[f]
    BY <1>4, <1>5, <1>6, Distinct
  <2>2. doAskTask(m) \in tasks'[f] =>
          doAskTask(m) \in tasks[f] \/ (f = e /\ t.at = "reset" /\ t.call = m)
    BY <1>3, <1>4, <1>5, <1>6, Distinct
  <2>3. ASSUME Holds(f, m)' PROVE Holds(f, m) \/ (f = e /\ t.at = "read" /\ onInit[e] = m)
    <3>1. PICK s \in tasks'[f] : s.do = "gone" /\ s.at = "reset" /\ s.call = m
      BY <2>3 DEF Holds, Gone
    <3>2. s \in tasks[f] \/ (f = e /\ s \in own)
      BY <1>6, <3>1
    <3> QED BY <1>4, <1>5, <3>1, <3>2 DEF Holds, Gone
  <2> QED BY <2>1, <2>2, <2>3
<1>8. t.at = "reset" /\ t.call # 0 => t.call \in Calls /\ Holds(e, t.call) /\ t.call \in asks[e]
  BY <1>1 DEF Holds, RInv, Owned
<1>9. Owned'
  <2>1. \A f \in Ends : asks'[f] \subseteq 1..calls' /\ onInit'[f] \in asks'[f] \union {0}
    BY <1>1, <1>2 DEF RInv, Owned
  <2>2. \A f \in Ends, m \in Calls :
          AskTask(m) \in tasks'[f] \/ Holds(f, m)' \/ doAskTask(m) \in tasks'[f] => m \in asks'[f]
    <3> SUFFICES ASSUME NEW f \in Ends, NEW m \in Calls,
                        AskTask(m) \in tasks'[f] \/ Holds(f, m)' \/ doAskTask(m) \in tasks'[f]
                 PROVE  m \in asks[f]
      BY <1>1
    <3>1. \/ AskTask(m) \in tasks[f] \/ Holds(f, m) \/ doAskTask(m) \in tasks[f]
          \/ f = e /\ m \in {t.call, onInit[e]}
      BY <1>7
    <3>2. AskTask(m) \in tasks[f] \/ Holds(f, m) \/ doAskTask(m) \in tasks[f] => m \in asks[f]
      BY DEF RInv, Owned
    <3>3. onInit[e] = m => m \in asks[e]
      BY <1>1 DEF RInv, Owned
    <3>4. f = e /\ doAskTask(m) \in tasks'[f] => m \in asks[f]
      BY <1>1, <1>7, <1>8, <3>2
    <3> QED BY <1>7, <3>2, <3>3, <3>4
  <2>3. \A g, f \in Ends : \A m \in asks'[g] : m \in asks'[f] => g = f
    BY <1>1 DEF RInv, Owned
  <2>4. \A m \in Calls : m > calls' => questions'[m] = 0
    BY <1>1 DEF RInv, Owned
  <2> QED BY <2>1, <2>2, <2>3, <2>4 DEF Owned, AskTask, doAskTask
<1>10. ASSUME NEW f \in Ends, f # e, ~ together'[f] PROVE OneRight(f)'
  <2>1. OneRight(f)
    BY <1>2, <1>10 DEF RInv
  <2>2. Handling(f)' \subseteq Handling(f)
    BY <1>6, <1>10 DEF Handling
  <2>3. \A r, u \in Handling(f)' : r = u
    BY <2>1, <2>2 DEF OneRight
  <2>4. ASSUME NEW m \in asks'[f]
        PROVE  /\ AskTask(m) \in tasks'[f] => onInit'[f] # m /\ ~ Holds(f, m)'
               /\ AskTask(m) \in tasks'[f] \/ onInit'[f] = m \/ Holds(f, m)' => doAskTask(m) \notin tasks'[f]
               /\ AskTask(m) \in tasks'[f] \/ onInit'[f] = m \/ Holds(f, m)' \/ doAskTask(m) \in tasks'[f] =>
                    questions'[m] = 0
               /\ questions'[m] \in {0, 1}
    <3>1. /\ m \in asks[f] /\ m \in Calls /\ onInit'[f] = onInit[f] /\ questions'[m] = questions[m]
          /\ AskTask(m) \in tasks'[f] => AskTask(m) \in tasks[f]
          /\ doAskTask(m) \in tasks'[f] => doAskTask(m) \in tasks[f]
          /\ Holds(f, m)' => Holds(f, m)
      BY <1>1, <1>2, <1>7, <1>10, <2>4
    <3> QED BY <2>1, <3>1 DEF OneRight
  <2> QED BY <2>3, <2>4 DEF OneRight, AskTask, doAskTask
<1>11. ASSUME ~ together'[e] PROVE OneRight(e)'
  <2>1. OneRight(e)
    BY <1>2, <1>11 DEF RInv
  <2>2. \A r, u \in Handling(e)' : r = u
    <3> SUFFICES ASSUME NEW r \in Handling(e)', NEW u \in Handling(e)' PROVE r = u
      OBVIOUS
    <3>1. /\ r \in tasks'[e] /\ r.do = "gone" /\ r.at # "check"
          /\ u \in tasks'[e] /\ u.do = "gone" /\ u.at # "check"
      BY DEF Handling
    <3>2. r \in Handling(e) \/ r \in own
      BY <1>6, <3>1 DEF Handling
    <3>3. u \in Handling(e) \/ u \in own
      BY <1>6, <3>1 DEF Handling
    <3>4. CASE t.at = "check"
      <4>1. \A s \in own : s = h /\ Handling(e) = {}
        BY <1>5, <1>11, <3>4
      <4> QED BY <2>1, <3>2, <3>3, <4>1 DEF OneRight
    <3>5. CASE t.at # "check"
      <4>1. t \in Handling(e) /\ \A s \in Handling(e) : s = t
        BY <1>1, <2>1, <3>5 DEF Handling, Gone, OneRight
      <4>2. \A s \in own : s.do = "gone" => s = k /\ t.at = "read"
        BY <1>4, <1>5, <3>5
      <4>3. own # {} => t \notin tasks'[e] \/ t \in own
        <5> SUFFICES ASSUME own # {} PROVE t \notin tasks'[e] \/ t \in own
          OBVIOUS
        <5>1. PICK done, out : done = {t} /\ Step(e, done, own, out)
          BY <1>5
        <5>2. tasks'[e] = (tasks[e] \ done) \union own
          BY <5>1, TasksAfter
        <5> QED BY <5>1, <5>2
      <4> QED BY <3>1, <3>2, <3>3, <4>1, <4>2, <4>3
    <3> QED BY <3>4, <3>5
  <2>3. t.at # "check" => \A s \in Handling(e) : s = t
    BY <1>1, <2>1 DEF Handling, Gone, OneRight
  <2>4. ASSUME NEW m \in asks'[e]
        PROVE  /\ AskTask(m) \in tasks'[e] => onInit'[e] # m /\ ~ Holds(e, m)'
               /\ AskTask(m) \in tasks'[e] \/ onInit'[e] = m \/ Holds(e, m)' => doAskTask(m) \notin tasks'[e]
               /\ AskTask(m) \in tasks'[e] \/ onInit'[e] = m \/ Holds(e, m)' \/ doAskTask(m) \in tasks'[e] =>
                    questions'[m] = 0
               /\ questions'[m] \in {0, 1}
    <3>1. m \in asks[e] /\ m \in Calls /\ m # 0 /\ questions'[m] = questions[m]
      BY <1>1, <2>4
    <3>2. onInit'[e] = m => onInit[e] = m /\ onInit'[e] = onInit[e]
      BY <1>2, <3>1
    <3>3. CASE t.at = "reset" /\ t.call = m
      <4>1. Holds(e, m)
        BY <1>1, <3>3 DEF Holds
      <4>2. AskTask(m) \notin tasks'[e] /\ doAskTask(m) \notin tasks[e] /\ questions[m] = 0
        BY <1>7, <2>1, <3>1, <4>1 DEF OneRight
      <4>3. onInit'[e] = 0
        <5>1. ResetOnInit(e, t)
          BY <3>3 DEF CheckOnInit, ReadOnInit
        <5> QED BY <5>1 DEF ResetOnInit, TypeOK
      <4>4. ~ Holds(e, m)'
        <5> SUFFICES ASSUME NEW s \in tasks'[e], s.do = "gone", s.at = "reset", s.call = m PROVE FALSE
          BY DEF Holds, Gone
        <5>1. s \in tasks[e] /\ s # t
          BY <1>4, <1>5, <1>6, <3>1, <3>3
        <5>2. s \in Handling(e)
          BY <5>1 DEF Handling
        <5> QED BY <2>3, <3>3, <5>1, <5>2
      <4> QED BY <3>1, <4>2, <4>3, <4>4
    <3>4. CASE ~ (t.at = "reset" /\ t.call = m)
      <4>1. /\ AskTask(m) \in tasks'[e] => AskTask(m) \in tasks[e]
            /\ doAskTask(m) \in tasks'[e] => doAskTask(m) \in tasks[e]
            /\ Holds(e, m)' => Holds(e, m) \/ onInit[e] = m
        BY <1>7, <3>1, <3>4
      <4> QED BY <2>1, <3>1, <3>2, <4>1 DEF OneRight
    <3> QED BY <3>3, <3>4
  <2> QED BY <2>2, <2>4 DEF OneRight, AskTask, doAskTask
<1> QED BY <1>9, <1>10, <1>11 DEF RInv

LEMMA NextRInv == TypeOK /\ TypeOK' /\ RInv /\ [Next]_vars => RInv'
<1> SUFFICES ASSUME TypeOK, TypeOK', RInv, [Next]_vars PROVE RInv'
  OBVIOUS
<1>0. calls \in Nat
  BY CountedCalls
<1>1. ASSUME NEW e \in Ends, DM(e) PROVE RInv'
  <2>1. PICK s, done, own, out : /\ Step(e, done, own, out) /\ own = {s}
                                 /\ s.do = "dm" /\ s.at = "init"
    <3>1. PICK s : s = [do |-> "dm", at |-> "init", call |-> calls + 1]
      OBVIOUS
    <3>2. s.do = "dm" /\ s.at = "init"
      BY <3>1
    <3> QED BY <1>1, <3>1, <3>2 DEF DM, Call
  <2>2. UNCHANGED <<onInit, questions, asks, together>> /\ calls <= calls'
    BY <1>0, <1>1 DEF DM, Call, mishaps
  <2>3. \A r \in own : r.at # "set" /\ r.do # "doAsk" /\ (Gone(r) => r.at = "check")
    BY <2>1 DEF Gone
  <2> QED BY <2>1, <2>2, <2>3, RightsLast
<1>2. ASSUME NEW e \in Ends, NEW answer \in Words, Answer(e, answer) PROVE RInv'
  <2>1. PICK done, own, out : Step(e, done, own, out) /\ own = {}
    BY <1>2 DEF Answer
  <2>2. UNCHANGED <<onInit, questions, asks, together>> /\ calls <= calls'
    BY <1>0, <1>2 DEF Answer, history, mishaps
  <2> QED BY <2>1, <2>2, RightsLast
<1>3. ASSUME NEW e \in Ends, NEW t \in tasks[e], initOtr(e, t) \/ create(e, t) PROVE RInv'
  <2>1. t \in Tasks /\ t.do \in {"ask", "dm", "receive"}
    BY <1>3, TaskKinds DEF initOtr, create, TypeOK
  <2>2. PICK s, done, own, out : /\ Step(e, done, own, out) /\ own = {s}
                                 /\ s.do = t.do /\ s.at \in {"init", "create"}
    <3>1. PICK at : at \in {"init", "create"} /\ Step(e, {t}, {[t EXCEPT !.at = at]}, {})
      BY <1>3 DEF initOtr, create
    <3>2. PICK s : s = [t EXCEPT !.at = at]
      OBVIOUS
    <3>3. s.do = t.do /\ s.at = at
      BY <2>1, <3>2, SameTask
    <3> QED BY <3>1, <3>2, <3>3
  <2>3. UNCHANGED <<onInit, questions, asks, together>> /\ calls <= calls'
    BY <1>0, <1>3 DEF initOtr, create, history, mishaps
  <2>4. \A r \in own : r.at # "set" /\ r.do # "doAsk" /\ (Gone(r) => r.at = "check")
    BY <2>1, <2>2 DEF Gone
  <2> QED BY <2>2, <2>3, <2>4, RightsLast
<1>4. ASSUME NEW e \in Ends, NEW t \in tasks[e],
             \/ Send(e, t) \/ ReceiveQuery(e, t)
             \/ ReceiveQuestion(e, t) \/ ReceiveReply(e, t) \/ ReceiveProof(e, t)
             \/ ReceiveLast(e, t) \/ ReceiveAbort(e, t) \/ ReceiveUnreadable(e, t)
      PROVE  RInv'
  <2>1. PICK done, own, out : Step(e, done, own, out) /\ own = {}
    BY <1>4, Ended
  <2>2. UNCHANGED <<onInit, questions, asks, together>> /\ calls <= calls'
    <3>1. UNCHANGED <<onInit, questions, asks, together, calls>>
      BY <1>4 DEF Send, ReceiveQuery, ReceiveQuestion, ReceiveReply, ReceiveProof,
         ReceiveLast, ReceiveAbort, ReceiveUnreadable, history, mishaps
    <3> QED BY <1>0, <3>1
  <2> QED BY <2>1, <2>2, RightsLast
<1>5. ASSUME NEW e \in Ends, NEW t \in tasks[e], ReceiveCommit(e, t) \/ ReceiveSignature(e, t)
      PROVE  RInv'
  <2>1. PICK s, sign, done, own, out :
           Step(e, done, own, out) /\ (own = {} \/ own = {Handler("check", 0, s, sign)})
    BY <1>5 DEF ReceiveCommit, ReceiveSignature, GoneSecure, Ignored
  <2>2. UNCHANGED <<onInit, questions, asks, together>> /\ calls <= calls'
    <3>1. UNCHANGED <<onInit, questions, asks, together, calls>>
      BY <1>5 DEF ReceiveCommit, ReceiveSignature, history, mishaps
    <3> QED BY <1>0, <3>1
  <2>3. \A r \in own : r.at # "set" /\ r.do # "doAsk" /\ (Gone(r) => r.at = "check")
    BY <2>1 DEF Handler
  <2> QED BY <2>1, <2>2, <2>3, RightsLast
<1>6. CASE UNCHANGED vars
  BY <1>6 DEF vars, history, mishaps, RInv, Owned, OneRight, AskTask, doAskTask, Holds, Gone, Handling
<1> QED BY <1>1, <1>2, <1>3, <1>4, <1>5, <1>6, AskRights, SetOnInitRights, doAskRights, HandlersRights
    DEF Next, Goroutine, Receive
-----------------------------------------------------------------------------
(* What a conversation waits for *)

On(e, type) == \E t \in tasks[e] : t.do = "receive" /\ t.msg.type = type

\* A handler of e has the signature still to be sent.
Signing(e) == \E t \in tasks[e] : Gone(t) /\ t.sign = TRUE

Secure == \A e \in Ends : otr[e] = "secure"

\* The one exchange there was has made both ends secure, or goes on.
Proceeds ==
    begun = 1 =>
        \/ Secure
        \/ \E e \in Ends :
             /\ otr[e] = "plain" /\ offered[e] = 1
             /\ \/ /\ otr[Peer(e)] # "secure" /\ On(Peer(e), "commit")
                   /\ ~ On(e, "commit") /\ \A f \in Ends : ~ On(f, "signature")
                \/ otr[Peer(e)] = "secure" /\ (On(e, "signature") \/ Signing(Peer(e)))

\* A question has been sent, or is on its way, or waits: for a handler, or for
\* the conversation.
Remembers(e, n) ==
    \/ questions[n] = 1
    \/ AskTask(n) \in tasks[e]
    \/ doAskTask(n) \in tasks[e] /\ otr[e] = "secure"
    \/ Holds(e, n)
    \/ onInit[e] = n /\ \E t \in tasks[e] : Gone(t) /\ t.at \in {"check", "read"}
    \/ onInit[e] = n /\ otr[e] # "secure" /\ (begun = 0 => Due(n))

Kindly(e, n) == n \in asks[e] /\ n \notin raced /\ n \notin replaced

Remembered == \A e \in Ends, n \in Calls : Kindly(e, n) => Remembers(e, n)

\* A proof that goes on waits for a message, which the other end can read.
Proving ==
    \A e \in Ends :
        /\ smp[e] # "idle" => otr[e] = "secure"
        /\ smp[e] \in {"heard", "answered", "proved"} \/ On(e, "question") => otr[Peer(e)] = "secure"
        /\ On(e, "reply") \/ On(e, "proof") \/ On(e, "last") \/ On(e, "abort") => Secure
        /\ smp[e] = "answered" => On(Peer(e), "reply") \/ On(e, "proof") \/ On(e, "abort")
        /\ smp[e] = "proved" => On(Peer(e), "proof") \/ On(e, "last") \/ On(e, "abort")

EInv == Smooth => Proceeds /\ Remembered /\ Proving

-----------------------------------------------------------------------------
(* What a step does to the messages under way *)

Types == {"query", "commit", "signature", "question", "reply", "proof", "last", "abort"}

\* A message of type `gone' may have left e, and those of types `sent' have come
\* to the other end.
OnMoves(e, gone, sent) ==
    \A f \in Ends, type \in Types :
        /\ On(f, type)' => On(f, type) \/ (f = Peer(e) /\ type \in sent)
        /\ On(f, type) => On(f, type)' \/ (f = e /\ type = gone)
        /\ f = Peer(e) /\ type \in sent => On(f, type)'

LEMMA StepMoves ==
    ASSUME TypeOK, NEW e \in Ends, NEW done, NEW own, NEW out, Step(e, done, own, out), NEW gone,
           \A s \in own : s.do # "receive",
           \A t \in done : t.do = "receive" => t.msg.type = gone
    PROVE  OnMoves(e, gone, {m.type : m \in out})
<1>1. /\ tasks'[e] = (tasks[e] \ done) \union own
      /\ tasks'[Peer(e)] = tasks[Peer(e)] \union {Received(m) : m \in out}
      /\ Peer(e) # e /\ \A f \in Ends : f = e \/ f = Peer(e)
  BY TasksAfter
<1>3. \A m : Received(m).do = "receive" /\ Received(m).msg = m
  BY DEF Received
<1> SUFFICES ASSUME NEW f \in Ends, NEW type \in Types
             PROVE  /\ On(f, type)' => On(f, type) \/ (f = Peer(e) /\ type \in {m.type : m \in out})
                    /\ On(f, type) => On(f, type)' \/ (f = e /\ type = gone)
                    /\ f = Peer(e) /\ type \in {m.type : m \in out} => On(f, type)'
  BY DEF OnMoves
<1>4. On(f, type)' => On(f, type) \/ (f = Peer(e) /\ type \in {m.type : m \in out})
  <2> SUFFICES ASSUME NEW s \in tasks'[f], s.do = "receive", s.msg.type = type
               PROVE  On(f, type) \/ (f = Peer(e) /\ type \in {m.type : m \in out})
    BY DEF On
  <2>1. s \in tasks[f] \/ (f = Peer(e) /\ \E m \in out : s = Received(m))
    BY <1>1
  <2> QED BY <1>3, <2>1 DEF On
<1>5. On(f, type) => On(f, type)' \/ (f = e /\ type = gone)
  <2> SUFFICES ASSUME NEW s \in tasks[f], s.do = "receive", s.msg.type = type
               PROVE  On(f, type)' \/ (f = e /\ type = gone)
    BY DEF On
  <2>1. s \in tasks'[f] \/ (f = e /\ s \in done)
    BY <1>1
  <2> QED BY <2>1 DEF On
<1>6. f = Peer(e) /\ type \in {m.type : m \in out} => On(f, type)'
  <2> SUFFICES ASSUME f = Peer(e), NEW m \in out, type = m.type PROVE On(f, type)'
    OBVIOUS
  <2>1. Received(m) \in tasks'[f]
    BY <1>1
  <2> QED BY <1>3, <2>1 DEF On
<1> QED BY <1>4, <1>5, <1>6

GoesOn(e, t, at) ==
    t.do \in {"ask", "dm", "receive"} /\ Step(e, {t}, {[t EXCEPT !.at = at]}, {})

\* A goroutine that goes on takes its message along.
LEMMA StayMoves ==
    ASSUME TypeOK, NEW e \in Ends, NEW t \in tasks[e], NEW at, GoesOn(e, t, at)
    PROVE  OnMoves(e, "none", {})
<1>0. t \in Tasks
  BY DEF TypeOK
<1>9. t.do \in {"ask", "dm", "receive"} /\ Step(e, {t}, {[t EXCEPT !.at = at]}, {})
  BY DEF GoesOn
<1>1. PICK s, own, out : /\ s.do = t.do /\ (t.do = "receive" => s.msg = t.msg)
                         /\ own = {s} /\ out = {} /\ Step(e, {t}, own, out)
  <2>1. PICK s : s = [t EXCEPT !.at = at]
    OBVIOUS
  <2>2. s.do = t.do /\ (t.do = "receive" => s.msg = t.msg)
    BY <1>0, <1>9, <2>1, SameTask
  <2> QED BY <1>9, <2>1, <2>2
<1>3. /\ tasks'[e] = (tasks[e] \ {t}) \union {s}
      /\ tasks'[Peer(e)] = tasks[Peer(e)]
      /\ \A f \in Ends : f = e \/ f = Peer(e)
  <2>1. /\ tasks'[e] = (tasks[e] \ {t}) \union own
        /\ tasks'[Peer(e)] = tasks[Peer(e)] \union {Received(m) : m \in out}
        /\ \A f \in Ends : f = e \/ f = Peer(e)
    BY <1>1, TasksAfter
  <2>2. {Received(m) : m \in out} = {}
    BY <1>1
  <2> QED BY <1>1, <2>1, <2>2
<1> SUFFICES ASSUME NEW f \in Ends, NEW type \in Types
             PROVE  On(f, type)' <=> On(f, type)
  BY DEF OnMoves
<1>4. ASSUME On(f, type)' PROVE On(f, type)
  <2>1. PICK r \in tasks'[f] : r.do = "receive" /\ r.msg.type = type
    BY <1>4 DEF On
  <2> QED BY <1>1, <1>3, <2>1 DEF On
<1>5. ASSUME On(f, type) PROVE On(f, type)'
  <2>1. PICK r \in tasks[f] : r.do = "receive" /\ r.msg.type = type
    BY <1>5 DEF On
  <2> QED BY <1>1, <1>3, <2>1 DEF On
<1> QED BY <1>4, <1>5

\* A right that was there still is, unless it was with a goroutine that is done.
LEMMA DueStays ==
    ASSUME TypeOK, NEW e \in Ends, NEW done, NEW own, NEW out, Step(e, done, own, out),
           NEW n, Due(n)
    PROVE  Due(n)' \/ \E t \in done : Carries(t, n)
<1>1. /\ tasks'[e] = (tasks[e] \ done) \union own
      /\ tasks'[Peer(e)] = tasks[Peer(e)] \union {Received(m) : m \in out}
      /\ \A f \in Ends : f = e \/ f = Peer(e)
  BY TasksAfter
<1>2. PICK f \in Ends : \E t \in tasks[f] : Carries(t, n)
  BY DEF Due
<1>3. PICK t \in tasks[f] : Carries(t, n)
  BY <1>2
<1>4. t \in tasks'[f] \/ (f = e /\ t \in done)
  BY <1>1
<1> QED BY <1>3, <1>4 DEF Due, Carries

LEMMA DueGoesOn ==
    ASSUME TypeOK, NEW e \in Ends, NEW t \in tasks[e], NEW at, GoesOn(e, t, at), NEW n, Due(n)
    PROVE  Due(n)'
<1>0. t \in Tasks
  BY DEF TypeOK
<1>9. t.do \in {"ask", "dm", "receive"} /\ Step(e, {t}, {[t EXCEPT !.at = at]}, {})
  BY DEF GoesOn
<1>1. PICK s : s = [t EXCEPT !.at = at]
  OBVIOUS
<1>2. Carries(t, n) => Carries(s, n)
  BY <1>0, <1>1, <1>9, SameTask DEF Carries
<1>3. PICK done, own, out : done = {t} /\ own = {s} /\ Step(e, done, own, out)
  BY <1>1, <1>9
<1>4. s \in tasks'[e]
  BY <1>3, TasksAfter
<1>5. Due(n)' \/ Carries(t, n)
  BY <1>3, DueStays
<1> QED BY <1>2, <1>4, <1>5 DEF Due, Carries

-----------------------------------------------------------------------------
(* The three parts, by what a step does *)

\* A step of a goroutine that is no handler.
NoHandler(e, done, own, out) == Step(e, done, own, out) /\ \A t \in done : ~ Gone(t)

LEMMA HandlersStay ==
    ASSUME TypeOK, NEW e \in Ends, NEW done, NEW own, NEW out, NoHandler(e, done, own, out),
           NEW f \in Ends, NEW t \in tasks[f], Gone(t)
    PROVE  t \in tasks'[f]
<1>1. /\ tasks'[e] = (tasks[e] \ done) \union own
      /\ tasks'[Peer(e)] = tasks[Peer(e)] \union {Received(m) : m \in out}
      /\ f = e \/ f = Peer(e)
  BY TasksAfter DEF NoHandler
<1> QED BY <1>1 DEF NoHandler

\* An exchange that nothing is done to.
LEMMA ProceedsLasts ==
    ASSUME TypeOK, Proceeds, NEW e \in Ends, NEW done, NEW own, NEW out, NoHandler(e, done, own, out),
           NEW gone, NEW sent, OnMoves(e, gone, sent),
           gone \notin {"commit", "signature"}, "commit" \notin sent, "signature" \notin sent,
           UNCHANGED <<otr, offered, begun>>
    PROVE  Proceeds'
<1>1. \A f \in Ends, type \in {"commit", "signature"} : On(f, type)' <=> On(f, type)
  BY DEF OnMoves, Types
<1>2. \A f \in Ends : Signing(f) => Signing(f)'
  BY HandlersStay DEF Signing, Gone
<1> QED BY <1>1, <1>2, Peers DEF Proceeds, Secure

\* A proof that nothing is done to.
LEMMA ProvingLasts ==
    ASSUME Proving, NEW e \in Ends, NEW gone, NEW sent, OnMoves(e, gone, sent),
           gone \notin {"reply", "proof", "last", "abort"},
           sent \subseteq {"query", "commit", "signature"}, smp' = smp,
           \A f \in Ends : otr[f] = "secure" => otr'[f] = "secure"
    PROVE  Proving'
<1>1. \A f \in Ends, type \in {"reply", "proof", "last", "abort"} : On(f, type)' <=> On(f, type)
  BY DEF OnMoves, Types
<1>2. \A f \in Ends : On(f, "question")' => On(f, "question")
  BY DEF OnMoves, Types
<1>3. Secure => Secure'
  BY DEF Secure
<1> QED BY <1>1, <1>2, <1>3, Peers DEF Proving

\* A question that nothing is done to.
LEMMA StillRemembers ==
    ASSUME TypeOK, NEW f \in Ends, NEW n \in Calls, Remembers(f, n),
           NEW e \in Ends, NEW done, NEW own, NEW out, NoHandler(e, done, own, out),
           f = e => AskTask(n) \notin done /\ (doAskTask(n) \in done => otr[e] # "secure"),
           questions'[n] = questions[n], onInit[f] = n => onInit'[f] = n,
           otr'[f] = "secure" <=> otr[f] = "secure",
           begun' = 0 => begun = 0 /\ (Due(n) => Due(n)')
    PROVE  Remembers(f, n)'
<1>1. /\ tasks'[e] = (tasks[e] \ done) \union own
      /\ tasks'[Peer(e)] = tasks[Peer(e)] \union {Received(m) : m \in out}
      /\ f = e \/ f = Peer(e)
  BY TasksAfter DEF NoHandler
<1>2. /\ AskTask(n) \in tasks[f] => AskTask(n) \in tasks'[f]
      /\ doAskTask(n) \in tasks[f] /\ otr[f] = "secure" => doAskTask(n) \in tasks'[f]
  BY <1>1
<1>3. \A t \in tasks[f] : Gone(t) => t \in tasks'[f]
  BY HandlersStay
<1>4. Holds(f, n) => Holds(f, n)'
  BY <1>3 DEF Holds, Gone
<1>5. (\E t \in tasks[f] : Gone(t) /\ t.at \in {"check", "read"}) =>
         \E t \in tasks'[f] : Gone(t) /\ t.at \in {"check", "read"}
  BY <1>3
<1> QED BY <1>2, <1>4, <1>5 DEF Remembers, AskTask, doAskTask, Gone

-----------------------------------------------------------------------------
(* What goes on, action by action *)

SInv == TInv /\ HInv /\ RInv /\ Smooth /\ Proceeds /\ Remembered /\ Proving

Kept == Proceeds' /\ Remembered' /\ Proving'

\* There has been one exchange, if any: what is secure is of it.
LEMMA OneSession ==
    ASSUME TInv, Smooth, NEW e \in Ends
    PROVE  /\ begun \in {0, 1}
           /\ otr[e] = "secure" => begun = 1 /\ session[e] = 1
           /\ \A t \in tasks[e] : t.do = "receive" /\ t.msg.type # "query" =>
                  begun = 1 /\ t.msg.session = 1
<1>1. begun \in Nat /\ begun <= 1
  BY OtrAssumption DEF TInv, TypeOK, Smooth
<1>2. \A s \in Sessions : s \in Nat /\ s # 0
  BY OtrAssumption DEF Sessions, Calls
<1>3. otr[e] = "secure" => session[e] \in Sessions /\ session[e] <= begun
  BY SecureSession
<1>4. \A t \in tasks[e] : t.do = "receive" /\ t.msg.type # "query" =>
         t.msg.session \in Sessions /\ t.msg.session <= begun
  BY ReceivedTyped
<1>5. begun \in {0, 1}
  BY <1>1
<1>6. \A s \in Sessions : s <= begun => begun = 1 /\ s = 1
  BY <1>2, <1>5
<1> QED BY <1>3, <1>4, <1>5, <1>6

\* There has been one conversation at either end, if any, with one handler.
LEMMA OneConversation ==
    ASSUME SInv, NEW e \in Ends
    PROVE  TypeOK /\ OneGone(e) /\ OneRight(e)
<1>1. OneGone(e)
  BY DEF SInv, HInv, Smooth
<1> QED BY <1>1 DEF SInv, TInv, RInv, OneGone

\* Steps that leave the exchange, the proof and the question as they are.
LEMMA NothingDone ==
    ASSUME SInv, NEW e \in Ends, NEW done, NEW own, NEW out, NoHandler(e, done, own, out),
           \A n \in Calls : AskTask(n) \notin done /\ (doAskTask(n) \in done => otr[e] # "secure"),
           UNCHANGED <<otr, offered, smp, questions, onInit, asks, raced, replaced, begun>>,
           NEW gone, NEW sent, OnMoves(e, gone, sent),
           gone \notin {"commit", "signature", "reply", "proof", "last", "abort"},
           sent \subseteq {"query"},
           \A n \in Calls : begun = 0 /\ Due(n) => Due(n)'
    PROVE  Kept
<1>0. TypeOK
  BY DEF SInv, TInv
<1>1. Proceeds'
  BY <1>0, ProceedsLasts DEF SInv
<1>2. Proving'
  BY ProvingLasts DEF SInv
<1>3. ASSUME NEW f \in Ends, NEW n \in Calls, Remembers(f, n) PROVE Remembers(f, n)'
  BY <1>0, <1>3, StillRemembers
<1>4. \A f \in Ends, n \in Calls : Kindly(f, n)' <=> Kindly(f, n)
  BY DEF Kindly
<1>5. \A f \in Ends, n \in Calls : Kindly(f, n)' => Remembers(f, n)'
  BY <1>3, <1>4 DEF SInv, Remembered
<1> QED BY <1>1, <1>2, <1>5 DEF Kept, Remembered, Kindly, Remembers, AskTask, doAskTask, Holds, Gone,
   Due, Carries

LEMMA DMKeeps ==
    ASSUME SInv, NEW e \in Ends, DM(e)
    PROVE  Kept
<1>1. PICK done, own, out :
         /\ done = {} /\ own = {[do |-> "dm", at |-> "init", call |-> calls + 1]} /\ out = {}
         /\ Step(e, done, own, out)
  BY DEF DM, Call
<1>2. UNCHANGED <<otr, offered, smp, questions, onInit, asks, raced, replaced, begun>>
  BY DEF DM, Call, member, proof
<1>3. TypeOK /\ NoHandler(e, done, own, out)
  BY <1>1 DEF SInv, TInv, NoHandler
<1>4. OnMoves(e, "none", {m.type : m \in out})
  BY <1>1, <1>3, StepMoves
<1>5. {m.type : m \in out} = {}
  BY <1>1
<1>6. \A n \in Calls : Due(n) => Due(n)'
  BY <1>1, <1>3, DueStays
<1>7. \A n \in Calls : AskTask(n) \notin done /\ doAskTask(n) \notin done
  BY <1>1
<1> QED BY <1>2, <1>3, <1>4, <1>5, <1>6, <1>7, NothingDone

LEMMA AskKeeps ==
    ASSUME SInv, NEW e \in Ends, Ask(e)
    PROVE  Kept
<1>1. PICK done, own, out :
         /\ done = {} /\ out = {} /\ Step(e, done, own, out)
         /\ own = {IF otr[e] = "secure" THEN doAskTask(calls + 1) ELSE AskTask(calls + 1)}
  BY DEF Ask, Call, AskTask, doAskTask
<1>2. /\ UNCHANGED <<otr, offered, smp, questions, onInit, raced, replaced, begun>>
      /\ asks' = [asks EXCEPT ![e] = @ \union {calls + 1}]
  BY DEF Ask, AskCall, Call, member, proof
<1>3. TypeOK /\ NoHandler(e, done, own, out)
  BY <1>1 DEF SInv, TInv, NoHandler
<1>4. OnMoves(e, "none", {})
  <2>1. OnMoves(e, "none", {m.type : m \in out})
    BY <1>1, <1>3, StepMoves DEF AskTask, doAskTask
  <2>2. {m.type : m \in out} = {}
    BY <1>1
  <2> QED BY <2>1, <2>2
<1>5. Proceeds'
  BY <1>2, <1>3, <1>4, ProceedsLasts DEF SInv
<1>6. Proving'
  BY <1>2, <1>4, ProvingLasts DEF SInv
<1>7. ASSUME NEW f \in Ends, NEW n \in Calls, Kindly(f, n)' PROVE Remembers(f, n)'
  <2>1. CASE Kindly(f, n)
    <3>1. Remembers(f, n) /\ (Due(n) => Due(n)')
      BY <1>1, <1>3, <2>1, DueStays DEF SInv, Remembered
    <3> QED BY <1>1, <1>2, <1>3, <3>1, StillRemembers
  <2>2. CASE ~ Kindly(f, n)
    <3>1. f = e /\ n = calls + 1
      BY <1>2, <1>3, <1>7, <2>2 DEF Kindly, TypeOK
    <3>2. own \subseteq tasks'[e]
      BY <1>1, <1>3, TasksAfter
    <3> QED BY <1>1, <1>2, <3>1, <3>2 DEF Remembers, AskTask, doAskTask
  <2> QED BY <2>1, <2>2
<1> QED BY <1>5, <1>6, <1>7 DEF Kept, Remembered

LEMMA SetOnInitGoesOn ==
    ASSUME SInv, NEW e \in Ends, NEW t \in tasks[e], SetOnInit(e, t)
    PROVE  Kept
<1>1. TypeOK /\ OneRight(e) /\ OneGone(e) /\ t \in Tasks
  BY OneConversation DEF TypeOK
<1>2. t = AskTask(t.call) /\ t.do = "ask" /\ t.call \in Calls
  BY <1>1, TaskKinds DEF SetOnInit
<1>3. /\ UNCHANGED <<otr, offered, smp, questions, asks, begun>>
      /\ onInit' = [onInit EXCEPT ![e] = t.call]
      /\ replaced' = replaced \union ({onInit[e]} \ {0})
      /\ raced' = IF otr[e] = "secure" THEN raced \union {t.call} ELSE raced
      /\ Step(e, {t}, {[t EXCEPT !.at = "init"]}, {})
  BY DEF SetOnInit, member, proof
<1>4. Step(e, {t}, {[t EXCEPT !.at = "init"]}, {})
  BY <1>3
<1>10. GoesOn(e, t, "init")
  BY <1>2, <1>4 DEF GoesOn
<1>9. OnMoves(e, "none", {})
  BY <1>1, <1>10, StayMoves
<1>5. PICK done, own, out, s :
         /\ done = {t} /\ own = {s} /\ out = {} /\ s = [t EXCEPT !.at = "init"]
         /\ NoHandler(e, done, own, out)
  <2>1. ~ Gone(t)
    BY <1>2 DEF Gone
  <2>2. PICK s : s = [t EXCEPT !.at = "init"]
    OBVIOUS
  <2>3. PICK done, own, out : done = {t} /\ own = {s} /\ out = {} /\ Step(e, done, own, out)
    BY <1>4, <2>2
  <2> QED BY <2>1, <2>2, <2>3 DEF NoHandler
<1>6. Proceeds'
  BY <1>1, <1>3, <1>5, <1>9, ProceedsLasts DEF SInv
<1>7. Proving'
  BY <1>3, <1>9, ProvingLasts DEF SInv
<1>8. ASSUME NEW f \in Ends, NEW n \in Calls, Kindly(f, n)' PROVE Remembers(f, n)'
  <2>1. Kindly(f, n) /\ Remembers(f, n)
    BY <1>3, <1>8 DEF Kindly, SInv, Remembered
  <2>2. Due(n) => Due(n)'
    BY <1>1, <1>10, DueGoesOn
  <2>3. CASE f # e \/ (n # t.call /\ onInit[e] # n)
    <3>1. onInit'[f] = n <=> onInit[f] = n
      BY <1>1, <1>3, <2>3 DEF TypeOK
    <3>2. f = e => AskTask(n) \notin done /\ doAskTask(n) \notin done
      BY <1>2, <1>5, <2>3, Distinct
    <3>3. UNCHANGED <<otr, questions, begun>>
      BY <1>3
    <3> QED BY <1>1, <1>5, <2>1, <2>2, <3>1, <3>2, <3>3, StillRemembers
  <2>4. CASE f = e /\ onInit[e] = n /\ n # t.call
    <3>1. n # 0
      BY OtrAssumption DEF Calls
    <3> QED BY <1>3, <1>8, <2>4, <3>1 DEF Kindly
  <2>5. CASE f = e /\ n = t.call
    <3>1. onInit'[e] = n
      BY <1>1, <1>3, <2>5 DEF TypeOK
    <3>2. s \in tasks'[e] /\ Carries(s, n)
      BY <1>1, <1>2, <1>5, <2>5, SameTask, TasksAfter DEF Carries, NoHandler
    <3>3. Due(n)'
      BY <3>2 DEF Due, Carries
    <3>4. otr'[e] # "secure"
      BY <1>3, <1>8, <2>5 DEF Kindly
    <3> QED BY <2>5, <3>1, <3>3, <3>4 DEF Remembers
  <2> QED BY <2>3, <2>4, <2>5
<1> QED BY <1>6, <1>7, <1>8 DEF Kept, Remembered

LEMMA doAskGoesOn ==
    ASSUME SInv, NEW e \in Ends, NEW t \in tasks[e], doAsk(e, t)
    PROVE  Kept
<1>1. TypeOK /\ OneRight(e) /\ Owned /\ t \in Tasks
  BY OneConversation DEF TypeOK, SInv, RInv
<1>2. PICK n \in Calls : t = doAskTask(n) /\ n = t.call
  BY <1>1, TaskKinds DEF doAsk
<1>3. UNCHANGED <<otr, offered, onInit, asks, raced, replaced, begun>>
  BY DEF doAsk, member, history
<1>4. t.do = "doAsk" /\ ~ Gone(t) /\ \A m : ~ Carries(t, m)
  BY <1>2, Distinct DEF Gone, Carries
<1>5. PICK done, own, out, sent :
         /\ done = {t} /\ own = {} /\ NoHandler(e, done, own, out) /\ OnMoves(e, "none", sent)
         /\ \/ sent = {} /\ otr[e] # "secure" /\ UNCHANGED <<smp, questions>>
            \/ /\ sent = {"question"} /\ otr[e] = "secure"
               /\ smp' = [smp EXCEPT ![e] = "asked"]
               /\ questions' = [questions EXCEPT ![t.call] = @ + 1]
  <2>1. PICK done, own, out, sent :
           /\ done = {t} /\ own = {} /\ Step(e, done, own, out) /\ sent = {m.type : m \in out}
           /\ \/ sent = {} /\ otr[e] # "secure" /\ UNCHANGED <<smp, questions>>
              \/ /\ sent = {"question"} /\ otr[e] = "secure"
                 /\ smp' = [smp EXCEPT ![e] = "asked"]
                 /\ questions' = [questions EXCEPT ![t.call] = @ + 1]
    <3>1. CASE otr[e] # "secure"
      <4>1. PICK done, own, out : done = {t} /\ own = {} /\ out = {} /\ Step(e, done, own, out)
        BY <3>1 DEF doAsk
      <4>2. {m.type : m \in out} = {} /\ UNCHANGED <<smp, questions>>
        BY <3>1, <4>1 DEF doAsk, proof
      <4> QED BY <3>1, <4>1, <4>2
    <3>2. CASE otr[e] = "secure"
      <4>1. PICK x : Step(e, {t}, {}, {Question(t.call, session[e], x, smp[e] # "idle")})
        BY <3>2 DEF doAsk
      <4>2. PICK m : m = Question(t.call, session[e], x, smp[e] # "idle")
        OBVIOUS
      <4>3. m.type = "question"
        BY <4>2 DEF Question
      <4>4. PICK done, own, out : done = {t} /\ own = {} /\ out = {m} /\ Step(e, done, own, out)
        BY <4>1, <4>2
      <4>5. {k.type : k \in out} = {"question"}
        BY <4>3, <4>4
      <4>6. /\ smp' = [smp EXCEPT ![e] = "asked"]
            /\ questions' = [questions EXCEPT ![t.call] = @ + 1]
        BY <3>2 DEF doAsk
      <4> QED BY <3>2, <4>4, <4>5, <4>6
    <3> QED BY <3>1, <3>2
  <2>2. \A s \in done : s.do = "receive" => s.msg.type = "none"
    BY <1>4, <2>1
  <2>3. OnMoves(e, "none", {m.type : m \in out})
    BY <1>1, <2>1, <2>2, StepMoves
  <2>4. NoHandler(e, done, own, out)
    BY <1>4, <2>1 DEF NoHandler
  <2> QED BY <2>1, <2>3, <2>4
<1>6. \A m \in Calls : Due(m) => Due(m)'
  BY <1>1, <1>4, <1>5, DueStays DEF NoHandler
<1>7. \A m \in Calls : AskTask(m) \notin done /\ (m # n => doAskTask(m) \notin done)
  BY <1>2, <1>5, Distinct
<1>8. CASE otr[e] # "secure"
  BY <1>3, <1>5, <1>6, <1>7, <1>8, NothingDone
<1>9. CASE otr[e] = "secure"
  <2>1. /\ sent = {"question"} /\ smp' = [smp EXCEPT ![e] = "asked"]
        /\ questions' = [questions EXCEPT ![n] = @ + 1]
    BY <1>2, <1>5, <1>9
  <2>2. Proceeds'
    BY <1>1, <1>3, <1>5, <2>1, ProceedsLasts DEF SInv
  <2>3. Proving'
    <3>1. \A f \in Ends, type \in {"reply", "proof", "last", "abort"} : On(f, type)' <=> On(f, type)
      BY <1>5, <2>1 DEF OnMoves, Types
    <3>2. \A f \in Ends : On(f, "question")' => On(f, "question") \/ f = Peer(e)
      BY <1>5, <2>1 DEF OnMoves, Types
    <3>3. smp'[e] = "asked" /\ \A f \in Ends : f # e => smp'[f] = smp[f]
      BY <1>1, <2>1 DEF TypeOK
    <3>4. otr' = otr /\ (Secure' <=> Secure)
      BY <1>3 DEF Secure
    <3> QED BY <1>9, <3>1, <3>2, <3>3, <3>4, Peers DEF SInv, Proving
  <2>4. ASSUME NEW f \in Ends, NEW m \in Calls, Kindly(f, m)' PROVE Remembers(f, m)'
    <3>1. Remembers(f, m)
      BY <1>3, <2>4 DEF Kindly, SInv, Remembered
    <3>2. CASE m # n
      <4>1. questions'[m] = questions[m]
        BY <1>1, <2>1, <3>2 DEF TypeOK
      <4> QED BY <1>1, <1>3, <1>5, <1>6, <1>7, <3>1, <3>2, <4>1, StillRemembers
    <3>3. CASE m = n
      <4>1. n \in asks[e]
        BY <1>1, <1>2 DEF Owned
      <4>2. questions[n] = 0
        BY <1>1, <1>2, <4>1 DEF OneRight
      <4>3. questions'[n] = 1
        BY <1>1, <2>1, <4>2 DEF TypeOK
      <4> QED BY <3>3, <4>3 DEF Remembers
    <3> QED BY <3>2, <3>3
  <2> QED BY <2>2, <2>3, <2>4 DEF Kept, Remembered
<1> QED BY <1>8, <1>9

LEMMA AnswerGoesOn ==
    ASSUME SInv, NEW e \in Ends, NEW answer \in Words, Answer(e, answer)
    PROVE  Kept
<1>1. PICK done, own, out, m :
         /\ done = {} /\ own = {} /\ out = {m} /\ Step(e, done, own, out) /\ m.type = "reply"
  <2>1. PICK x : Step(e, {}, {}, {Reply(session[e], x)})
    BY DEF Answer
  <2>2. PICK m : m = Reply(session[e], x)
    OBVIOUS
  <2>3. m.type = "reply"
    BY <2>2 DEF Reply
  <2> QED BY <2>1, <2>2, <2>3
<1>2. /\ smp[e] = "heard" /\ smp' = [smp EXCEPT ![e] = "answered"]
      /\ UNCHANGED <<otr, offered, onInit, questions, asks, raced, replaced, begun>>
  BY DEF Answer, member, history
<1>3. TypeOK /\ NoHandler(e, done, own, out)
  BY <1>1 DEF SInv, TInv, NoHandler
<1>4. OnMoves(e, "none", {"reply"})
  <2>1. OnMoves(e, "none", {n.type : n \in out})
    BY <1>1, <1>3, StepMoves
  <2>2. {n.type : n \in out} = {"reply"}
    BY <1>1
  <2> QED BY <2>1, <2>2
<1>5. Proceeds'
  BY <1>2, <1>3, <1>4, ProceedsLasts DEF SInv
<1>6. Proving'
  <2>1. Secure /\ Secure'
    BY <1>2, Peers, TasksAfter, <1>1, <1>3 DEF SInv, Proving, Secure
  <2>2. \A f \in Ends, type \in {"reply", "proof", "last", "abort"} : On(f, type) => On(f, type)'
    BY <1>4 DEF OnMoves, Types
  <2>3. On(Peer(e), "reply")'
    BY <1>4, Peers DEF OnMoves, Types
  <2>4. smp'[e] = "answered" /\ \A f \in Ends : f # e => smp'[f] = smp[f]
    BY <1>2, <1>3 DEF TypeOK
  <2> QED BY <2>1, <2>2, <2>3, <2>4, Peers DEF SInv, Proving, Secure
<1>7. ASSUME NEW f \in Ends, NEW n \in Calls, Kindly(f, n)' PROVE Remembers(f, n)'
  <2>1. Remembers(f, n) /\ (Due(n) => Due(n)')
    BY <1>1, <1>2, <1>3, <1>7, DueStays DEF Kindly, SInv, Remembered
  <2> QED BY <1>1, <1>2, <1>3, <2>1, StillRemembers
<1> QED BY <1>5, <1>6, <1>7 DEF Kept, Remembered

LEMMA InitOtrGoesOn ==
    ASSUME SInv, NEW e \in Ends, NEW t \in tasks[e], initOtr(e, t)
    PROVE  Kept
<1>1. /\ t.do # "doAsk" /\ t.at = "init" /\ ~ Gone(t)
      /\ UNCHANGED <<otr, offered, smp, onInit, questions, asks, raced, replaced, begun>>
  BY DEF initOtr, member, proof, history, Gone
<1>2. TypeOK /\ GoesOn(e, t, "create")
  BY DEF initOtr, SInv, TInv, GoesOn
<1>3. OnMoves(e, "none", {})
  BY <1>2, StayMoves
<1>4. \A n \in Calls : Due(n) => Due(n)'
  BY <1>2, DueGoesOn
<1>5. PICK done, own, out : done = {t} /\ NoHandler(e, done, own, out)
  BY <1>1, <1>2 DEF NoHandler, GoesOn
<1>6. \A n \in Calls : AskTask(n) \notin done /\ doAskTask(n) \notin done
  BY <1>1, <1>5, Distinct
<1> QED BY <1>1, <1>3, <1>4, <1>5, <1>6, NothingDone

\* No conversation is thrown away: there was none.
LEMMA CreateGoesOn ==
    ASSUME SInv, NEW e \in Ends, NEW t \in tasks[e], create(e, t), created'[e] <= 1
    PROVE  Kept
<1>1. /\ TypeOK /\ Step(e, {t}, {[t EXCEPT !.at = "init"]}, {}) /\ t.at = "create"
      /\ otr' = [otr EXCEPT ![e] = "plain"]
      /\ offered' = [offered EXCEPT ![e] = 0] /\ smp' = [smp EXCEPT ![e] = "idle"]
      /\ created' = [created EXCEPT ![e] = @ + 1]
      /\ UNCHANGED <<onInit, questions, asks, raced, replaced, begun>>
  BY DEF create, Idle, SInv, TInv
<1>2. otr[e] = "nil"
  <2>1. created[e] \in Nat /\ created'[e] = created[e] + 1
    BY <1>1 DEF TypeOK
  <2>2. created[e] = 0
    BY <2>1
  <2> QED BY <2>2 DEF SInv, HInv
<1>3. smp' = smp
  <2>1. smp[e] = "idle"
    BY <1>2 DEF SInv, TInv, Dated
  <2> QED BY <1>1, <2>1 DEF TypeOK
<1>4. otr'[e] = "plain" /\ offered'[e] = 0
      /\ \A f \in Ends : f # e => otr'[f] = otr[f] /\ offered'[f] = offered[f]
  BY <1>1 DEF TypeOK
<1>11. t.do \in {"ask", "dm", "receive"}
  <2>1. t \in Tasks
    BY <1>1 DEF TypeOK
  <2> QED BY <1>1, <2>1, TaskKinds
<1>12. GoesOn(e, t, "init")
  BY <1>1, <1>11 DEF GoesOn
<1>5. OnMoves(e, "none", {})
  BY <1>1, <1>12, StayMoves
<1>8. PICK done, own, out : done = {t} /\ NoHandler(e, done, own, out)
  BY <1>11, <1>12 DEF NoHandler, GoesOn, Gone
<1>6. Proceeds'
  <2>1. \A f \in Ends, type \in {"commit", "signature"} : On(f, type)' <=> On(f, type)
    BY <1>5 DEF OnMoves, Types
  <2>2. \A f \in Ends : Signing(f) => Signing(f)'
    BY <1>1, <1>8, HandlersStay DEF Signing, Gone
  <2> QED BY <1>1, <1>2, <1>4, <2>1, <2>2, Peers DEF SInv, Proceeds, Secure
<1>7. Proving'
  BY <1>2, <1>3, <1>4, <1>5, ProvingLasts DEF SInv
<1>9. \A n \in Calls : AskTask(n) \notin done /\ doAskTask(n) \notin done
  BY <1>1, <1>8, <1>11, Distinct
<1>10. ASSUME NEW f \in Ends, NEW n \in Calls, Kindly(f, n)' PROVE Remembers(f, n)'
  <2>1. Remembers(f, n) /\ (Due(n) => Due(n)')
    BY <1>1, <1>10, <1>12, DueGoesOn DEF Kindly, SInv, Remembered
  <2>2. otr'[f] = "secure" <=> otr[f] = "secure"
    BY <1>2, <1>4
  <2>3. UNCHANGED <<onInit, questions, begun>>
    BY <1>1
  <2> QED BY <1>1, <1>8, <1>9, <2>1, <2>2, <2>3, StillRemembers
<1> QED BY <1>6, <1>7, <1>10 DEF Kept, Remembered

LEMMA SendGoesOn ==
    ASSUME SInv, NEW e \in Ends, NEW t \in tasks[e], Send(e, t)
    PROVE  Kept
<1>1. /\ TypeOK /\ t.do \in {"dm", "ask"} /\ t.at = "init" /\ otr[e] # "nil" /\ ~ Gone(t)
      /\ UNCHANGED <<otr, offered, smp, onInit, questions, asks, raced, replaced, begun>>
  BY DEF Send, Ready, member, proof, history, SInv, TInv, Gone
<1>2. PICK done, own, out :
         /\ done = {t} /\ own = {} /\ NoHandler(e, done, own, out)
         /\ out = IF otr[e] = "plain" THEN {Query(t.call)} ELSE {}
  BY <1>1 DEF Send, NoHandler
<1>3. PICK sent : sent = {m.type : m \in out} /\ sent \subseteq {"query"} /\ OnMoves(e, "none", sent)
  <2>1. \A s \in done : s.do = "receive" => s.msg.type = "none"
    BY <1>1, <1>2
  <2>2. OnMoves(e, "none", {m.type : m \in out})
    BY <1>1, <1>2, <2>1, StepMoves DEF NoHandler
  <2>3. \A m \in out : m.type = "query"
    BY <1>2 DEF Query
  <2> QED BY <2>2, <2>3
<1>4. \A n \in Calls : AskTask(n) \notin done /\ doAskTask(n) \notin done
  BY <1>1, <1>2, Distinct
<1>5. ASSUME NEW n \in Calls, begun = 0, Due(n) PROVE Due(n)'
  <2>1. CASE ~ Carries(t, n)
    BY <1>1, <1>2, <1>5, <2>1, DueStays DEF NoHandler
  <2>2. CASE Carries(t, n)
    <3>1. t.call = n
      BY <1>1, <2>2 DEF Carries
    <3>2. otr[e] = "plain"
      BY <1>1, <1>5, OneSession DEF SInv, TypeOK
    <3>3. PICK m : m = Query(n)
      OBVIOUS
    <3>4. m.type = "query" /\ m.call = n
      BY <3>3 DEF Query
    <3>5. Received(m) \in tasks'[Peer(e)] /\ Peer(e) \in Ends
      BY <1>1, <1>2, <3>1, <3>2, <3>3, TasksAfter DEF NoHandler
    <3>6. Received(m).do = "receive" /\ Received(m).msg = m
      BY DEF Received
    <3>7. Carries(Received(m), n)
      BY <3>4, <3>6 DEF Carries
    <3> QED BY <3>5, <3>7 DEF Due, Carries
  <2> QED BY <2>1, <2>2
<1> QED BY <1>1, <1>2, <1>3, <1>4, <1>5, NothingDone

LEMMA ReceiveQueryGoesOn ==
    ASSUME SInv, NEW e \in Ends, NEW t \in tasks[e], ReceiveQuery(e, t), begun' <= 1
    PROVE  Kept
<1>1. /\ TypeOK /\ t.do = "receive" /\ t.msg.type = "query" /\ otr[e] # "nil" /\ ~ Gone(t)
      /\ begun' = begun + 1 /\ offered' = [offered EXCEPT ![e] = begun + 1]
      /\ UNCHANGED <<otr, smp, onInit, questions, asks, raced, replaced>>
  BY DEF ReceiveQuery, Receiving, Ready, proof, SInv, TInv, Gone
<1>2. begun = 0 /\ begun' = 1 /\ offered'[e] = 1
  <2>1. begun \in {0, 1}
    BY OneSession DEF SInv
  <2> QED BY <1>1, <2>1 DEF TypeOK
<1>3. \A f \in Ends : otr[f] # "secure" /\ \A type \in Types \ {"query"} : ~ On(f, type)
  BY <1>2, OneSession DEF SInv, On, Types
<1>4. PICK done, own, out, m :
         /\ done = {t} /\ own = {} /\ out = {m} /\ NoHandler(e, done, own, out) /\ m.type = "commit"
  <2>1. PICK m : m = Exchange("commit", begun + 1)
    OBVIOUS
  <2>2. m.type = "commit"
    BY <2>1 DEF Exchange
  <2>3. Step(e, {t}, {}, {m})
    BY <2>1 DEF ReceiveQuery
  <2> QED BY <1>1, <2>2, <2>3 DEF NoHandler
<1>5. OnMoves(e, "query", {"commit"})
  <2>1. OnMoves(e, "query", {n.type : n \in out})
    BY <1>1, <1>4, StepMoves DEF NoHandler
  <2>2. {n.type : n \in out} = {"commit"}
    BY <1>4
  <2> QED BY <2>1, <2>2
<1>6. Proceeds'
  <2>1. /\ On(Peer(e), "commit")' /\ ~ On(e, "commit")' /\ \A f \in Ends : ~ On(f, "signature")'
    BY <1>3, <1>5, Peers DEF OnMoves, Types
  <2>2. otr'[e] = "plain" /\ otr'[Peer(e)] # "secure"
    BY <1>1, <1>3, Peers DEF TypeOK
  <2> QED BY <1>2, <2>1, <2>2 DEF Proceeds
<1>7. Proving'
  BY <1>1, <1>5, ProvingLasts DEF SInv
<1>8. \A n \in Calls : AskTask(n) \notin done /\ doAskTask(n) \notin done
  BY <1>1, <1>4, Distinct
<1>9. ASSUME NEW f \in Ends, NEW n \in Calls, Kindly(f, n)' PROVE Remembers(f, n)'
  <2>1. Remembers(f, n) /\ begun' # 0
    BY <1>1, <1>2, <1>9 DEF Kindly, SInv, Remembered
  <2> QED BY <1>1, <1>4, <1>8, <2>1, StillRemembers
<1> QED BY <1>6, <1>7, <1>9 DEF Kept, Remembered

\* What GoneSecure does to the tasks: a handler holds the signature back, unless
\* the conversation was secure.
SecureStep(e, t, s, sign, done, own, out, sent) ==
    /\ done = {t} /\ NoHandler(e, done, own, out) /\ OnMoves(e, t.msg.type, sent)
    /\ \/ otr[e] # "secure" /\ own = {Handler("check", 0, s, sign)} /\ sent = {}
       \/ otr[e] = "secure" /\ own = {} /\ sent = {m.type : m \in Signature(s, sign)}

LEMMA GoneSecureSteps ==
    ASSUME TypeOK, NEW e \in Ends, NEW t \in tasks[e], NEW s, NEW sign, GoneSecure(e, t, s, sign),
           t.do = "receive"
    PROVE  /\ otr'[e] = "secure" /\ \A f \in Ends : f # e => otr'[f] = otr[f] /\ offered'[f] = offered[f]
           /\ \E done, own, out, sent : SecureStep(e, t, s, sign, done, own, out, sent)
<1>1. /\ otr' = [otr EXCEPT ![e] = "secure"] /\ offered' = [offered EXCEPT ![e] = 0]
      /\ ~ Gone(t)
  BY DEF GoneSecure, Gone
<1>2. PICK done, own, out, sent :
         /\ done = {t} /\ Step(e, done, own, out) /\ sent = {m.type : m \in out}
         /\ \/ otr[e] # "secure" /\ own = {Handler("check", 0, s, sign)} /\ sent = {}
            \/ otr[e] = "secure" /\ own = {} /\ sent = {m.type : m \in Signature(s, sign)}
  <2>1. CASE otr[e] # "secure"
    <3>1. PICK done, own, out : /\ done = {t} /\ own = {Handler("check", 0, s, sign)} /\ out = {}
                                /\ Step(e, done, own, out)
      BY <2>1 DEF GoneSecure
    <3>2. {m.type : m \in out} = {}
      BY <3>1
    <3> QED BY <2>1, <3>1, <3>2
  <2>2. CASE otr[e] = "secure"
    <3>1. PICK done, own, out : /\ done = {t} /\ own = {} /\ out = Signature(s, sign)
                                /\ Step(e, done, own, out)
      BY <2>2 DEF GoneSecure
    <3> QED BY <2>2, <3>1
  <2> QED BY <2>1, <2>2
<1>3. \A r \in own : r.do # "receive"
  BY <1>2 DEF Handler
<1>4. PICK gone : gone = t.msg.type
  OBVIOUS
<1>5. \A r \in done : r.do = "receive" => r.msg.type = gone
  BY <1>2, <1>4
<1>6. OnMoves(e, gone, {m.type : m \in out})
  BY <1>2, <1>3, <1>5, StepMoves
<1>7. NoHandler(e, done, own, out)
  BY <1>1, <1>2 DEF NoHandler
<1>8. SecureStep(e, t, s, sign, done, own, out, sent)
  BY <1>2, <1>4, <1>6, <1>7 DEF SecureStep
<1>9. otr'[e] = "secure" /\ \A f \in Ends : f # e => otr'[f] = otr[f] /\ offered'[f] = offered[f]
  BY <1>1 DEF TypeOK
<1> QED BY <1>8, <1>9

\* A question that waits in onInit is left to the handler.
LEMMA GoneSecureRemembers ==
    ASSUME SInv, NEW e \in Ends, NEW t \in tasks[e], NEW s, NEW sign, GoneSecure(e, t, s, sign),
           t.do = "receive", begun = 1, UNCHANGED <<onInit, questions, history>>
    PROVE  Remembered'
<1>1. TypeOK /\ UNCHANGED <<onInit, questions, asks, raced, replaced, begun>>
  BY DEF history, SInv, TInv
<1>2. otr'[e] = "secure" /\ \A f \in Ends : f # e => otr'[f] = otr[f]
  BY <1>1, GoneSecureSteps
<1>8. PICK done, own, out, sent : SecureStep(e, t, s, sign, done, own, out, sent)
  BY <1>1, GoneSecureSteps
<1>3. /\ done = {t} /\ NoHandler(e, done, own, out)
      /\ otr[e] # "secure" => own = {Handler("check", 0, s, sign)}
  BY <1>8 DEF SecureStep
<1>4. \A n \in Calls : AskTask(n) \notin done /\ doAskTask(n) \notin done
  BY <1>3, Distinct
<1> SUFFICES ASSUME NEW f \in Ends, NEW n \in Calls, Kindly(f, n)' PROVE Remembers(f, n)'
  BY DEF Remembered
<1>5. Remembers(f, n) /\ begun' # 0
  BY <1>1 DEF Kindly, SInv, Remembered
<1>6. CASE f # e \/ otr[e] = "secure"
  <2>1. otr'[f] = "secure" <=> otr[f] = "secure"
    BY <1>2, <1>6
  <2> QED BY <1>1, <1>3, <1>4, <1>5, <2>1, StillRemembers
<1>7. CASE f = e /\ otr[e] # "secure"
  <2>1. /\ tasks'[e] = (tasks[e] \ done) \union own
    BY <1>1, <1>3, TasksAfter DEF NoHandler
  <2>2. AskTask(n) \in tasks[e] => AskTask(n) \in tasks'[e]
    BY <1>4, <2>1
  <2>3. Holds(e, n) => Holds(e, n)'
    BY <1>1, <1>3, HandlersStay DEF Holds, Gone
  <2>4. PICK h \in tasks'[e] : Gone(h) /\ h.at = "check"
    <3>1. Handler("check", 0, s, sign).do = "gone" /\ Handler("check", 0, s, sign).at = "check"
      BY DEF Handler
    <3> QED BY <1>3, <1>7, <2>1, <3>1 DEF Gone
  <2>5. \/ questions[n] = 1 \/ AskTask(n) \in tasks[e] \/ Holds(e, n) \/ onInit[e] = n
    BY <1>5, <1>7 DEF Remembers
  <2>6. \/ questions'[n] = 1 \/ AskTask(n) \in tasks'[e] \/ Holds(e, n)'
        \/ onInit'[e] = n /\ \E h1 \in tasks'[e] : Gone(h1) /\ h1.at \in {"check", "read"}
    BY <1>1, <2>2, <2>3, <2>4, <2>5
  <2> QED BY <1>7, <2>6 DEF Remembers, AskTask, Gone
<1> QED BY <1>6, <1>7

LEMMA Signatures ==
    \A s : /\ {m.type : m \in Signature(s, TRUE)} = {"signature"}
           /\ {m.type : m \in Signature(s, FALSE)} = {}
<1> TAKE s
<1>1. PICK m : m = Exchange("signature", s)
  OBVIOUS
<1>2. m.type = "signature"
  BY <1>1 DEF Exchange
<1>3. Signature(s, TRUE) = {m} /\ Signature(s, FALSE) = {}
  BY <1>1, Zenon DEF Signature
<1>4. \A S : S = {m} => {k.type : k \in S} = {"signature"}
  BY <1>2
<1>5. \A S : S = {} => {k.type : k \in S} = {}
  OBVIOUS
<1> QED BY <1>3, <1>4, <1>5, Zenon

LEMMA ReceiveCommitGoesOn ==
    ASSUME SInv, NEW e \in Ends, NEW t \in tasks[e], ReceiveCommit(e, t)
    PROVE  Kept
<1>1. /\ TypeOK /\ t.do = "receive" /\ t.msg.type = "commit"
      /\ UNCHANGED <<fp, onInit, proof, given, result, questions, history, mishaps>>
  BY DEF ReceiveCommit, Receiving, SInv, TInv
<1>2. begun = 1 /\ begun' = 1 /\ smp' = smp
  BY <1>1, OneSession DEF SInv, proof, history
<1>3. GoneSecure(e, t, t.msg.session, TRUE)
  <2>1. ~ (begun > 1)
    BY <1>2
  <2> QED BY <2>1, Zenon DEF ReceiveCommit
<1>4. PICK s : s = t.msg.session
  OBVIOUS
<1>11. PICK done, own, out, sent : SecureStep(e, t, s, TRUE, done, own, out, sent)
  BY <1>1, <1>3, <1>4, GoneSecureSteps, Zenon
<1>5. /\ done = {t} /\ NoHandler(e, done, own, out) /\ OnMoves(e, "commit", sent)
      /\ \/ otr[e] # "secure" /\ own = {Handler("check", 0, s, TRUE)} /\ sent = {}
         \/ otr[e] = "secure" /\ own = {} /\ sent = {"signature"}
  BY <1>1, <1>11, Signatures, Zenon DEF SecureStep
<1>6. otr'[e] = "secure" /\ \A f \in Ends : f # e => otr'[f] = otr[f] /\ offered'[f] = offered[f]
  BY <1>1, <1>3, GoneSecureSteps
<1>7. otr[e] # "secure" => Signing(e)'
  <2>1. ASSUME otr[e] # "secure" PROVE Signing(e)'
    <3>1. PICK h : h = Handler("check", 0, s, TRUE)
      OBVIOUS
    <3>2. own = {h}
      BY <1>5, <2>1, <3>1, Zenon
    <3>3. h \in tasks'[e]
      BY <1>1, <1>5, <3>2, TasksAfter DEF NoHandler
    <3>4. h.do = "gone" /\ h.sign = TRUE
      BY <3>1 DEF Handler
    <3> QED BY <3>3, <3>4 DEF Signing, Gone
  <2> QED BY <2>1
<1>8. Proceeds'
  <2>1. CASE Secure
    BY <1>6, <2>1 DEF Secure, Proceeds
  <2>2. ASSUME NEW f \in Ends, otr[f] = "plain", offered[f] = 1,
               \/ /\ otr[Peer(f)] # "secure" /\ On(Peer(f), "commit")
                  /\ ~ On(f, "commit") /\ \A g \in Ends : ~ On(g, "signature")
               \/ otr[Peer(f)] = "secure" /\ (On(f, "signature") \/ Signing(Peer(f)))
        PROVE  Proceeds'
    <3>1. \A g \in Ends : g = f \/ g = Peer(f)
      BY Peers, OtrAssumption DEF Peer, Ends
    <3>2. CASE e = f
      <4>1. On(e, "commit")
        BY <1>1 DEF On
      <4>2. otr[Peer(f)] = "secure"
        BY <2>2, <3>2, <4>1
      <4> QED BY <1>6, <3>1, <3>2, <4>2, Peers DEF Secure, Proceeds
    <3>3. CASE e = Peer(f)
      <4>1. On(f, "signature")' \/ Signing(Peer(f))'
        BY <1>5, <1>7, <3>3, Peers DEF OnMoves, Types
      <4>2. otr'[f] = "plain" /\ offered'[f] = 1 /\ otr'[Peer(f)] = "secure"
        BY <1>6, <2>2, <3>3, Peers
      <4> QED BY <4>1, <4>2 DEF Proceeds
    <3> QED BY <3>1, <3>2, <3>3
  <2> QED BY <1>2, <2>1, <2>2 DEF SInv, Proceeds
<1>9. Proving'
  BY <1>2, <1>5, <1>6, ProvingLasts DEF SInv
<1>10. Remembered'
  BY <1>1, <1>2, <1>3, GoneSecureRemembers
<1> QED BY <1>8, <1>9, <1>10 DEF Kept

LEMMA ReceiveSignatureGoesOn ==
    ASSUME SInv, NEW e \in Ends, NEW t \in tasks[e], ReceiveSignature(e, t)
    PROVE  Kept
<1>1. /\ TypeOK /\ t.do = "receive" /\ t.msg.type = "signature"
      /\ UNCHANGED <<fp, onInit, proof, given, result, questions, history, mishaps>>
  BY DEF ReceiveSignature, Receiving, SInv, TInv
<1>2. begun = 1 /\ begun' = 1 /\ smp' = smp /\ t.msg.session = 1
  BY <1>1, OneSession DEF SInv, proof, history
<1>3. On(e, "signature")
  BY <1>1 DEF On
<1>4. PICK done, own, out, sent :
         /\ done = {t} /\ NoHandler(e, done, own, out) /\ OnMoves(e, "signature", sent) /\ sent = {}
  <2>1. CASE GoneSecure(e, t, t.msg.session, FALSE)
    <3>1. PICK s, done, own, out, sent : SecureStep(e, t, s, FALSE, done, own, out, sent)
      BY <1>1, <2>1, GoneSecureSteps, Zenon
    <3>2. done = {t} /\ NoHandler(e, done, own, out) /\ OnMoves(e, "signature", sent) /\ sent = {}
      BY <1>1, <3>1, Signatures, Zenon DEF SecureStep
    <3> QED BY <3>2
  <2>2. CASE Ignored(e, t)
    <3>1. PICK done, own, out : done = {t} /\ own = {} /\ out = {} /\ Step(e, done, own, out)
      BY <2>2 DEF Ignored
    <3>2. NoHandler(e, done, own, out)
      BY <1>1, <3>1 DEF NoHandler, Gone
    <3>3. OnMoves(e, "signature", {m.type : m \in out})
      BY <1>1, <3>1, StepMoves
    <3>4. {m.type : m \in out} = {}
      BY <3>1
    <3> QED BY <3>1, <3>2, <3>3, <3>4
  <2> QED BY <2>1, <2>2 DEF ReceiveSignature
<1>6. /\ \A f \in Ends : otr[f] = "secure" => otr'[f] = "secure"
      /\ \A f \in Ends : f # e => otr'[f] = otr[f] /\ offered'[f] = offered[f]
      /\ offered[e] = 1 => otr'[e] = "secure"
  BY <1>1, <1>2 DEF ReceiveSignature, GoneSecure, Ignored, member, TypeOK
<1>7. Proceeds'
  <2>1. CASE Secure
    BY <1>6, <2>1 DEF Secure, Proceeds
  <2>2. ASSUME NEW f \in Ends, otr[f] = "plain", offered[f] = 1,
               otr[Peer(f)] = "secure", On(f, "signature") \/ Signing(Peer(f))
        PROVE  Proceeds'
    <3>1. \A g \in Ends : g = f \/ g = Peer(f)
      BY Peers, OtrAssumption DEF Peer, Ends
    <3>2. CASE e = f
      BY <1>6, <2>2, <3>1, <3>2, Peers DEF Secure, Proceeds
    <3>3. CASE e # f
      <4>1. On(f, "signature") => On(f, "signature")'
        BY <1>4, <3>3 DEF OnMoves, Types
      <4>2. Signing(Peer(f)) => Signing(Peer(f))'
        BY <1>1, <1>4, HandlersStay, Peers DEF Signing, Gone
      <4>3. otr'[f] = "plain" /\ offered'[f] = 1 /\ otr'[Peer(f)] = "secure"
        BY <1>6, <2>2, <3>3, Peers
      <4> QED BY <2>2, <4>1, <4>2, <4>3 DEF Proceeds
    <3> QED BY <3>2, <3>3
  <2> QED BY <1>2, <1>3, <2>1, <2>2 DEF SInv, Proceeds
<1>8. Proving'
  BY <1>2, <1>4, <1>6, ProvingLasts DEF SInv
<1>9. Remembered'
  <2>1. CASE GoneSecure(e, t, t.msg.session, FALSE)
    BY <1>1, <1>2, <2>1, GoneSecureRemembers
  <2>2. CASE Ignored(e, t)
    <3>1. UNCHANGED <<otr, onInit, questions, asks, raced, replaced, begun>>
      BY <1>1, <2>2 DEF Ignored, member, history
    <3>2. \A n \in Calls : AskTask(n) \notin done /\ doAskTask(n) \notin done
      BY <1>1, <1>4, Distinct
    <3>3. ASSUME NEW f \in Ends, NEW n \in Calls, Kindly(f, n)' PROVE Remembers(f, n)'
      <4>1. Remembers(f, n) /\ begun' # 0
        BY <1>2, <3>1, <3>3 DEF Kindly, SInv, Remembered
      <4> QED BY <1>1, <1>4, <3>1, <3>2, <4>1, StillRemembers
    <3> QED BY <3>3 DEF Remembered
  <2> QED BY <2>1, <2>2 DEF ReceiveSignature
<1> QED BY <1>7, <1>8, <1>9 DEF Kept

\* A step of the proof, between ends that are both secure.
LEMMA ProofGoesOn ==
    ASSUME SInv, NEW e \in Ends, NEW t \in tasks[e], t.do = "receive", t.msg.type # "query",
           Secure, NEW out, Step(e, {t}, {}, out), NEW gone, NEW sent, OnMoves(e, gone, sent),
           gone \notin {"commit", "signature"}, "commit" \notin sent, "signature" \notin sent,
           NEW now, smp' = [smp EXCEPT ![e] = now],
           UNCHANGED <<otr, offered, onInit, questions, asks, raced, replaced, begun>>,
           now \notin {"answered", "proved"} \/ (now = "proved" /\ "proof" \in sent),
           gone = "reply" => {"proof", "abort"} \intersect sent # {},
           gone = "proof" => {"last", "abort"} \intersect sent # {}
    PROVE  Kept
<1>1. TypeOK /\ Secure'
  BY DEF SInv, TInv, Secure
<1>5. PICK done, own : done = {t} /\ own = {} /\ NoHandler(e, done, own, out)
  BY DEF NoHandler, Gone
<1>2. Proceeds'
  BY <1>1, <1>5, ProceedsLasts DEF SInv
<1>3. ASSUME NEW f \in Ends, NEW n \in Calls, Kindly(f, n)' PROVE Remembers(f, n)'
  <2>1. \A m \in Calls : AskTask(m) \notin done /\ doAskTask(m) \notin done
    BY <1>5, Distinct
  <2>2. begun' # 0 /\ Remembers(f, n)
    BY <1>3, OneSession DEF SInv, Remembered, Kindly
  <2> QED BY <1>1, <1>5, <2>1, <2>2, StillRemembers
<1>4. Proving'
  <2>1. smp'[e] = now /\ \A f \in Ends : f # e => smp'[f] = smp[f]
    BY <1>1 DEF TypeOK
  <2>2. \A f \in Ends, type \in {"reply", "proof", "last", "abort"} :
          /\ On(f, type) => On(f, type)' \/ (f = e /\ type = gone)
          /\ f = Peer(e) /\ type \in sent => On(f, type)'
    BY DEF OnMoves, Types
  <2>3. \A f \in Ends : f = e \/ f = Peer(e)
    BY Peers, OtrAssumption DEF Peer, Ends
  <2>4. smp[Peer(e)] = "answered" =>
           \/ On(e, "reply") \/ On(Peer(e), "proof") \/ On(Peer(e), "abort")
    BY Peers DEF SInv, Proving
  <2>5. smp[Peer(e)] = "proved" =>
           \/ On(e, "proof") \/ On(Peer(e), "last") \/ On(Peer(e), "abort")
    BY Peers DEF SInv, Proving
  <2>6. smp'[Peer(e)] = "answered" =>
           \/ On(e, "reply")' \/ On(Peer(e), "proof")' \/ On(Peer(e), "abort")'
    BY <2>1, <2>2, <2>4, Peers
  <2>7. smp'[Peer(e)] = "proved" =>
           \/ On(e, "proof")' \/ On(Peer(e), "last")' \/ On(Peer(e), "abort")'
    BY <2>1, <2>2, <2>5, Peers
  <2>8. smp'[e] # "answered" /\ (smp'[e] = "proved" => On(Peer(e), "proof")')
    BY <2>1, <2>2, Peers
  <2> QED BY <1>1, <2>3, <2>6, <2>7, <2>8, Peers DEF Proving, Secure
<1> QED BY <1>2, <1>3, <1>4 DEF Kept, Remembered

\* Receiving a message of the proof under the session's keys.
LEMMA ProofStepsGoOn ==
    ASSUME SInv, NEW e \in Ends, NEW t \in tasks[e],
           \/ ReceiveQuestion(e, t) \/ ReceiveReply(e, t) \/ ReceiveProof(e, t)
           \/ ReceiveLast(e, t) \/ ReceiveAbort(e, t)
    PROVE  Kept
<1>1. /\ TypeOK /\ t.do = "receive" /\ otr[e] = "secure"
      /\ t.msg.type \in {"question", "reply", "proof", "last", "abort"}
      /\ UNCHANGED <<otr, offered, onInit, questions, asks, raced, replaced, begun>>
  BY DEF ReceiveQuestion, ReceiveReply, ReceiveProof, ReceiveLast, ReceiveAbort,
         Receiving, Readable, member, history, SInv, TInv
<1>2. On(e, t.msg.type)
  BY <1>1 DEF On
<1>3. Secure
  <2>1. otr[Peer(e)] = "secure"
    BY <1>1, <1>2, Peers DEF SInv, Proving, Secure
  <2>2. \A f \in Ends : f = e \/ f = Peer(e)
    BY Peers, OtrAssumption DEF Peer, Ends
  <2> QED BY <1>1, <2>1, <2>2 DEF Secure
<1>4. PICK sent, now :
         /\ smp' = [smp EXCEPT ![e] = now]
         /\ now = "proved" => sent = {"proof"}
         /\ now \in {"idle", "heard", "proved"}
         /\ \/ sent = {} /\ Step(e, {t}, {}, {})
            \/ \E type \in {"proof", "last", "abort"} :
                 sent = {type} /\ Step(e, {t}, {}, {Exchange(type, session[e])})
         /\ t.msg.type = "reply" => sent \in {{"proof"}, {"abort"}}
         /\ t.msg.type = "proof" => sent \in {{"last"}, {"abort"}}
  <2>1. CASE ReceiveQuestion(e, t)
    BY <2>1 DEF ReceiveQuestion, Receiving, Idle
  <2>2. CASE ReceiveReply(e, t)
    BY <2>2 DEF ReceiveReply, Receiving
  <2>3. CASE ReceiveProof(e, t)
    BY <2>3 DEF ReceiveProof, Receiving, Idle
  <2>4. CASE ReceiveLast(e, t)
    BY <2>4 DEF ReceiveLast, Receiving, Idle
  <2>5. CASE ReceiveAbort(e, t)
    BY <2>5 DEF ReceiveAbort, Receiving, Idle
  <2> QED BY <2>1, <2>2, <2>3, <2>4, <2>5
<1>5. PICK out : Step(e, {t}, {}, out) /\ {m.type : m \in out} = sent
  <2>1. CASE sent = {} /\ Step(e, {t}, {}, {})
    <3>1. PICK out : out = {} /\ Step(e, {t}, {}, out)
      BY <2>1
    <3>2. {m.type : m \in out} = {}
      BY <3>1
    <3> QED BY <2>1, <3>1, <3>2
  <2>2. ASSUME NEW type, sent = {type}, Step(e, {t}, {}, {Exchange(type, session[e])})
        PROVE  \E out : Step(e, {t}, {}, out) /\ {m.type : m \in out} = sent
    <3>1. PICK m, out : m = Exchange(type, session[e]) /\ out = {m} /\ Step(e, {t}, {}, out)
      BY <2>2
    <3>2. m.type = type
      BY <3>1 DEF Exchange
    <3>3. {n.type : n \in out} = {type}
      BY <3>1, <3>2
    <3> QED BY <2>2, <3>1, <3>3
  <2> QED BY <1>4, <2>1, <2>2
<1>6. PICK done, own : done = {t} /\ own = {} /\ Step(e, done, own, out)
  BY <1>5
<1>7. PICK gone : gone = t.msg.type
  OBVIOUS
<1>8. OnMoves(e, gone, sent)
  <2>1. \A s \in done : s.do = "receive" => s.msg.type = gone
    BY <1>6, <1>7
  <2>2. OnMoves(e, gone, {m.type : m \in out})
    BY <1>1, <1>6, <2>1, StepMoves
  <2> QED BY <1>5, <2>2
<1>9. /\ "commit" \notin sent /\ "signature" \notin sent /\ gone \notin {"commit", "signature"}
      /\ now \notin {"answered", "proved"} \/ (now = "proved" /\ "proof" \in sent)
      /\ gone = "reply" => {"proof", "abort"} \intersect sent # {}
      /\ gone = "proof" => {"last", "abort"} \intersect sent # {}
      /\ t.msg.type # "query"
  BY <1>1, <1>4, <1>7
<1> QED BY <1>1, <1>3, <1>4, <1>5, <1>8, <1>9, ProofGoesOn

\* Only a question can be unreadable.
LEMMA UnreadableGoesOn ==
    ASSUME SInv, NEW e \in Ends, NEW t \in tasks[e], ReceiveUnreadable(e, t)
    PROVE  Kept
<1>1. /\ TypeOK /\ t.do = "receive" /\ t.msg.type \notin {"query", "commit", "signature"}
      /\ ~ Readable(e, t.msg)
      /\ UNCHANGED <<otr, offered, smp, onInit, questions, asks, raced, replaced, begun>>
  BY DEF ReceiveUnreadable, member, proof, history, SInv, TInv
<1>2. otr[e] # "secure"
  BY <1>1, OneSession DEF SInv, Readable
<1>3. t.msg.type = "question"
  <2>1. t.msg \in Messages
    <3>1. t \in Tasks
      BY <1>1 DEF TypeOK
    <3> QED BY <1>1, <3>1, TaskKinds
  <2>2. t.msg.type \in Types
    BY <2>1 DEF Messages, Types
  <2>3. On(e, t.msg.type)
    BY <1>1 DEF On
  <2>4. t.msg.type \notin {"reply", "proof", "last", "abort"}
    BY <1>2, <2>3 DEF SInv, Proving, Secure
  <2> QED BY <1>1, <2>2, <2>4 DEF Types
<1>4. PICK done, own, out : done = {t} /\ own = {} /\ out = {} /\ Step(e, done, own, out)
  BY DEF ReceiveUnreadable
<1>8. NoHandler(e, done, own, out)
  BY <1>1, <1>4 DEF NoHandler, Gone
<1>5. OnMoves(e, "question", {})
  <2>1. \A s \in done : s.do = "receive" => s.msg.type = "question"
    BY <1>3, <1>4
  <2>2. OnMoves(e, "question", {m.type : m \in out})
    BY <1>1, <1>4, <2>1, StepMoves
  <2>3. {m.type : m \in out} = {}
    BY <1>4
  <2> QED BY <2>2, <2>3
<1>6. \A n \in Calls : AskTask(n) \notin done /\ doAskTask(n) \notin done
  BY <1>1, <1>4, Distinct
<1>7. \A n \in Calls : Due(n) => Due(n)'
  <2>1. \A n \in Calls : ~ Carries(t, n)
    BY <1>1, <1>3 DEF Carries
  <2> QED BY <1>1, <1>4, <2>1, DueStays
<1> QED BY <1>1, <1>5, <1>6, <1>7, <1>8, NothingDone

\* The handlers of a conversation that is secure: there is one at an end.
LEMMA HandlersGoOn ==
    ASSUME SInv, NEW e \in Ends, NEW t \in tasks[e],
           CheckOnInit(e, t) \/ ReadOnInit(e, t) \/ ResetOnInit(e, t)
    PROVE  Kept
<1>1. TypeOK /\ OneGone(e) /\ t \in Tasks
  BY OneConversation DEF TypeOK
<1>2. /\ Gone(t) /\ t.do = "gone"
      /\ UNCHANGED <<otr, offered, smp, questions, asks, raced, replaced, begun>>
      /\ \A f \in Ends : f # e => onInit'[f] = onInit[f]
      /\ t.at # "reset" => onInit' = onInit
  BY <1>1 DEF CheckOnInit, ReadOnInit, ResetOnInit, HandleSecurityEvent, member, proof, history,
     Gone, TypeOK
<1>3. /\ otr[e] = "secure" /\ \A u \in tasks[e] : Gone(u) => u = t
      /\ t.at = "reset" => t.call # 0
  BY <1>1, <1>2 DEF OneGone
<1>4. begun = 1 /\ begun' = 1
  BY <1>2, <1>3, OneSession DEF SInv
<1>5. PICK h, done, own, out, sent :
         /\ done = {t} /\ Step(e, done, own, out) /\ OnMoves(e, "none", sent)
         /\ sent \subseteq {"signature"} /\ own \subseteq {h}
         /\ t.sign = TRUE => "signature" \in sent \/ (own = {h} /\ Gone(h) /\ h.sign = TRUE)
         /\ t.at = "check" /\ onInit[e] # 0 => own = {h} /\ Gone(h) /\ h.at = "read"
         /\ t.at = "read" => own = {h} /\ Gone(h) /\ h.at = "reset" /\ h.call = onInit[e]
         /\ t.at = "reset" => own = {h} /\ h = doAskTask(t.call)
         /\ t.at \in {"check", "read", "reset"}
  <2>1. PICK h, own, out :
           /\ Step(e, {t}, own, out) /\ own \subseteq {h} /\ h.do # "receive"
           /\ \/ out = Signature(t.session, t.sign)
              \/ out = {} /\ own = {h} /\ Gone(h) /\ h.sign = t.sign
           /\ t.at = "check" /\ onInit[e] # 0 => own = {h} /\ Gone(h) /\ h.at = "read"
           /\ t.at = "read" => own = {h} /\ Gone(h) /\ h.at = "reset" /\ h.call = onInit[e]
           /\ t.at = "reset" => own = {h} /\ h = doAskTask(t.call)
           /\ t.at \in {"check", "read", "reset"}
    <3>1. CASE CheckOnInit(e, t)
      <4>1. PICK h : h = Handler("read", 0, t.session, t.sign)
        OBVIOUS
      <4>2. h.do = "gone" /\ h.at = "read" /\ h.sign = t.sign
        BY <4>1 DEF Handler
      <4>3. t.at = "check"
        BY <3>1 DEF CheckOnInit
      <4>4. CASE onInit[e] = 0
        <5>1. PICK own, out : own = {} /\ out = Signature(t.session, t.sign) /\ Step(e, {t}, own, out)
          BY <3>1, <4>4 DEF CheckOnInit
        <5> QED BY <4>2, <4>3, <4>4, <5>1
      <4>5. CASE onInit[e] # 0
        <5>1. PICK own, out : own = {h} /\ out = {} /\ Step(e, {t}, own, out)
          BY <3>1, <4>1, <4>5 DEF CheckOnInit
        <5> QED BY <4>2, <4>3, <5>1 DEF Gone
      <4> QED BY <4>4, <4>5
    <3>2. CASE ReadOnInit(e, t)
      <4>1. PICK h : h = Handler("reset", onInit[e], t.session, t.sign)
        OBVIOUS
      <4>2. h.do = "gone" /\ h.at = "reset" /\ h.sign = t.sign /\ h.call = onInit[e]
        BY <4>1 DEF Handler
      <4>3. PICK own, out : own = {h} /\ out = {} /\ Step(e, {t}, own, out) /\ t.at = "read"
        BY <3>2, <4>1 DEF ReadOnInit
      <4> QED BY <4>2, <4>3 DEF Gone
    <3>3. CASE ResetOnInit(e, t)
      <4>1. PICK h : h = doAskTask(t.call)
        OBVIOUS
      <4>2. h.do = "doAsk"
        BY <4>1, Distinct
      <4>3. t.at = "reset"
        BY <3>3 DEF ResetOnInit
      <4>4. Step(e, {t}, {[do |-> "doAsk", at |-> "init", call |-> t.call]}, Signature(t.session, t.sign))
        BY <1>3, <3>3, <4>3 DEF ResetOnInit, Start
      <4>5. Step(e, {t}, {h}, Signature(t.session, t.sign))
        BY <4>1, <4>4 DEF doAskTask
      <4>6. PICK own, out : own = {h} /\ out = Signature(t.session, t.sign) /\ Step(e, {t}, own, out)
        BY <4>5
      <4> QED BY <4>1, <4>2, <4>3, <4>6
    <3> QED BY <3>1, <3>2, <3>3
  <2>2. PICK done, sent : done = {t} /\ Step(e, done, own, out) /\ sent = {m.type : m \in out}
    BY <2>1
  <2>3. t.sign = TRUE \/ t.sign = FALSE
    BY <1>1, <1>2, HandlerKinds, Zenon
  <2>4. /\ out = Signature(t.session, t.sign) /\ t.sign = TRUE => sent = {"signature"}
        /\ out = Signature(t.session, t.sign) /\ t.sign = FALSE => sent = {}
    BY <2>2, Signatures, Zenon
  <2>5. out = {} => sent = {}
    BY <2>2
  <2>6. /\ sent \subseteq {"signature"}
        /\ t.sign = TRUE => "signature" \in sent \/ (own = {h} /\ Gone(h) /\ h.sign = TRUE)
    BY <2>1, <2>3, <2>4, <2>5
  <2>7. \A s \in done : s.do = "receive" => s.msg.type = "none"
    BY <1>2, <2>2
  <2>8. OnMoves(e, "none", {m.type : m \in out})
    BY <1>1, <2>1, <2>2, <2>7, StepMoves
  <2> QED BY <2>1, <2>2, <2>6, <2>8
<1>6. /\ tasks'[e] = (tasks[e] \ done) \union own
      /\ \A f \in Ends : f # e => tasks[f] \subseteq tasks'[f]
  BY <1>1, <1>5, TasksAfter
<1>7. Proceeds'
  <2>1. CASE Secure
    BY <1>2, <2>1 DEF Secure, Proceeds
  <2>2. ASSUME NEW f \in Ends, otr[f] = "plain", offered[f] = 1,
               \/ otr[Peer(f)] # "secure"
               \/ otr[Peer(f)] = "secure" /\ (On(f, "signature") \/ Signing(Peer(f)))
        PROVE  Proceeds'
    <3>1. e = Peer(f)
      BY <1>3, <2>2, Peers, OtrAssumption DEF Peer, Ends
    <3>2. On(f, "signature") => On(f, "signature")'
      BY <1>5 DEF OnMoves, Types
    <3>3. "signature" \in sent => On(f, "signature")'
      BY <1>5, <3>1, Peers DEF OnMoves, Types
    <3>4. Signing(e) => t.sign = TRUE
      BY <1>3 DEF Signing
    <3>5. own = {h} /\ Gone(h) /\ h.sign = TRUE => Signing(e)'
      BY <1>6 DEF Signing, Gone
    <3>6. On(f, "signature")' \/ Signing(Peer(f))'
      BY <1>3, <1>5, <2>2, <3>1, <3>2, <3>3, <3>4, <3>5
    <3> QED BY <1>2, <1>3, <2>2, <3>1, <3>6 DEF Proceeds
  <2> QED BY <1>4, <2>1, <2>2 DEF SInv, Proceeds
<1>8. Proving'
  BY <1>2, <1>5, ProvingLasts DEF SInv
<1>9. ASSUME NEW f \in Ends, NEW n \in Calls, Kindly(f, n)' PROVE Remembers(f, n)'
  <2>1. Remembers(f, n)
    BY <1>2, <1>9 DEF Kindly, SInv, Remembered
  <2>2. CASE f # e
    <3>1. UNCHANGED <<otr, questions>> /\ onInit'[f] = onInit[f] /\ tasks[f] \subseteq tasks'[f]
      BY <1>2, <1>6, <2>2
    <3> QED BY <1>4, <2>1, <3>1 DEF Remembers, AskTask, doAskTask, Holds, Gone
  <2>3. CASE f = e
    <3>1. AskTask(n) # t /\ doAskTask(n) # t
      BY <1>2, Distinct
    <3>2. /\ AskTask(n) \in tasks[e] => AskTask(n) \in tasks'[e]
          /\ doAskTask(n) \in tasks[e] => doAskTask(n) \in tasks'[e]
      BY <1>5, <1>6, <3>1
    <3>3. Holds(e, n) => doAskTask(n) \in tasks'[e]
      BY <1>3, <1>5, <1>6 DEF Holds
    <3>4. CASE onInit[e] = n /\ t.at = "check"
      <4>1. n # 0
        BY OtrAssumption DEF Calls
      <4>2. h \in tasks'[e] /\ Gone(h) /\ h.at = "read" /\ onInit'[e] = n
        BY <1>2, <1>5, <1>6, <3>4, <4>1
      <4> QED BY <2>3, <4>2 DEF Remembers, Gone
    <3>5. CASE onInit[e] = n /\ t.at = "read"
      <4>1. h \in tasks'[e] /\ Gone(h) /\ h.at = "reset" /\ h.call = n
        BY <1>5, <1>6, <3>5
      <4>2. Holds(e, n)'
        BY <4>1 DEF Holds, Gone
      <4> QED BY <2>3, <4>2 DEF Remembers
    <3>6. \/ questions[n] = 1 \/ AskTask(n) \in tasks[e] \/ doAskTask(n) \in tasks[e] \/ Holds(e, n)
          \/ onInit[e] = n /\ t.at \in {"check", "read"}
      BY <1>3, <2>1, <2>3 DEF Remembers
    <3>7. CASE \/ questions'[n] = 1 \/ AskTask(n) \in tasks'[e] \/ doAskTask(n) \in tasks'[e]
      BY <1>2, <1>3, <2>3, <3>7 DEF Remembers, AskTask, doAskTask
    <3> QED BY <1>2, <3>2, <3>3, <3>4, <3>5, <3>6, <3>7
  <2> QED BY <2>2, <2>3
<1> QED BY <1>7, <1>8, <1>9 DEF Kept, Remembered

LEMMA InitEInv == Init => EInv
<1> SUFFICES ASSUME Init PROVE EInv
  OBVIOUS
<1>1. \A e \in Ends : smp[e] = "idle" /\ tasks[e] = {} /\ asks[e] = {}
  BY DEF Init
<1>2. Proving
  BY <1>1, Zenon DEF Proving, On
<1>3. Proceeds
  BY DEF Init, Proceeds
<1>4. Remembered
  BY <1>1 DEF Remembered, Kindly
<1> QED BY <1>2, <1>3, <1>4 DEF EInv

\* What was not smooth does not become so again.
LEMMA RoughStaysRough ==
    ASSUME TInv, [Next]_vars, Smooth' PROVE Smooth
<1>1. \/ UNCHANGED <<created, begun>>
      \/ created' = created /\ begun' = begun + 1
      \/ \E e \in Ends : begun' = begun /\ created' = [created EXCEPT ![e] = @ + 1]
  <2>1. ASSUME NEW e \in Ends, NEW t \in tasks[e], Receive(e, t), ~ ReceiveQuery(e, t)
        PROVE  UNCHANGED <<created, begun>>
    BY <2>1 DEF Receive, ReceiveCommit, ReceiveSignature, ReceiveQuestion, ReceiveReply,
       ReceiveProof, ReceiveLast, ReceiveAbort, ReceiveUnreadable, history
  <2>2. ASSUME NEW e \in Ends, NEW t \in tasks[e], ReceiveQuery(e, t)
        PROVE  created' = created /\ begun' = begun + 1
    BY <2>2 DEF ReceiveQuery
  <2>3. ASSUME NEW e \in Ends, NEW t \in tasks[e], create(e, t)
        PROVE  begun' = begun /\ created' = [created EXCEPT ![e] = @ + 1]
    BY <2>3 DEF create
  <2>4. ASSUME NEW e \in Ends, NEW t \in tasks[e],
               \/ SetOnInit(e, t) \/ doAsk(e, t) \/ initOtr(e, t) \/ Send(e, t)
               \/ CheckOnInit(e, t) \/ ReadOnInit(e, t) \/ ResetOnInit(e, t)
        PROVE  UNCHANGED <<created, begun>>
    BY <2>4 DEF SetOnInit, doAsk, initOtr, Send, CheckOnInit, ReadOnInit, ResetOnInit,
       HandleSecurityEvent, history
  <2>5. ASSUME NEW e \in Ends, DM(e) \/ Ask(e) \/ \E answer \in Words : Answer(e, answer)
        PROVE  UNCHANGED <<created, begun>>
    BY <2>5 DEF DM, Ask, Call, Answer, history
  <2>6. CASE UNCHANGED vars
    BY <2>6 DEF vars, history
  <2> QED BY <2>1, <2>2, <2>3, <2>4, <2>5, <2>6 DEF Next, Goroutine
<1>2. begun \in Nat /\ created \in [Ends -> Nat]
  BY OtrAssumption DEF TInv, TypeOK
<1>3. begun <= begun' /\ begun' \in Nat
  BY <1>1, <1>2
<1>4. ASSUME NEW f \in Ends PROVE created[f] <= created'[f] /\ created'[f] \in Nat
  BY <1>1, <1>2
<1>5. begun' <= 1 /\ \A f \in Ends : created'[f] <= 1
  BY DEF Smooth
<1>6. begun <= 1
  BY <1>2, <1>3, <1>5
<1>7. \A f \in Ends : created[f] <= 1
  BY <1>2, <1>4, <1>5
<1> QED BY <1>6, <1>7 DEF Smooth

LEMMA NextEInv == TInv /\ HInv /\ RInv /\ EInv /\ [Next]_vars => EInv'
<1> SUFFICES ASSUME TInv, HInv, RInv, EInv, [Next]_vars, Smooth' PROVE Kept
  BY DEF EInv, Kept
<1>1. SInv
  BY RoughStaysRough DEF EInv, SInv
<1>2. ASSUME NEW e \in Ends, NEW t \in tasks[e], Goroutine(e, t) PROVE Kept
  <2>1. CASE create(e, t)
    BY <1>1, <2>1, CreateGoesOn DEF Smooth
  <2>2. CASE ReceiveQuery(e, t)
    BY <1>1, <2>2, ReceiveQueryGoesOn DEF Smooth
  <2>3. CASE CheckOnInit(e, t) \/ ReadOnInit(e, t) \/ ResetOnInit(e, t)
    BY <1>1, <2>3, HandlersGoOn
  <2> QED BY <1>1, <1>2, <2>1, <2>2, <2>3, SetOnInitGoesOn, doAskGoesOn, InitOtrGoesOn, SendGoesOn,
         ReceiveCommitGoesOn, ReceiveSignatureGoesOn, ProofStepsGoOn, UnreadableGoesOn
         DEF Goroutine, Receive
<1>3. ASSUME NEW e \in Ends, NEW answer \in Words, Answer(e, answer) PROVE Kept
  BY <1>1, <1>3, AnswerGoesOn
<1>4. ASSUME NEW e \in Ends, DM(e) \/ Ask(e) PROVE Kept
  BY <1>1, <1>4, DMKeeps, AskKeeps
<1>5. CASE UNCHANGED vars
  BY <1>1, <1>5 DEF SInv, Kept, vars, member, proof, history, Proceeds, Remembered, Remembers,
     Kindly, Holds, Proving, On, Signing, Gone, Secure, Due, Carries, AskTask, doAskTask
<1> QED BY <1>2, <1>3, <1>4, <1>5 DEF Next

-----------------------------------------------------------------------------
(* The theorems *)

LEMMA Invariants == Spec => [](TInv /\ VInv /\ HInv /\ RInv /\ EInv)
<1> DEFINE Inv == TInv /\ VInv /\ HInv /\ RInv /\ EInv
<1>1. Init => Inv
  BY InitTInv, InitVInv, InitHInv, InitRInv, InitEInv
<1>2. Inv /\ [Next]_vars => Inv'
  <2> SUFFICES ASSUME Inv, [Next]_vars PROVE Inv'
    OBVIOUS
  <2>1. TInv' /\ TypeOK /\ TypeOK'
    BY NextTInv DEF TInv
  <2>2. VInv' /\ HInv'
    BY <2>1, NextVInv, NextHInv
  <2>3. RInv' /\ EInv'
    BY <2>1, NextRInv, NextEInv
  <2> QED BY <2>1, <2>2, <2>3
<1> QED BY <1>1, <1>2, PTL DEF Spec

(* SMPSuccess means the same answer and, unless neither end trusts any key, *)
(* trust in each other's real ones: whatever the calls and their timing     *)
(* (dog_room.go:236-265, 195-219).                                          *)
THEOREM SuccessIsMutual == Spec => []VerifiedMeansTrusted
<1>1. VInv => VerifiedMeansTrusted
  BY DEF VInv
<1> QED BY Invariants, <1>1, PTL

(* SMPFailure is never told to two ends that trust each other's real keys   *)
(* and have given no two different answers (dog_room.go:236-265).           *)
THEOREM HonestEndsAreVerified == Spec => []HonestVerified
<1>1. VInv => HonestVerified
  BY DEF VInv
<1> QED BY Invariants, <1>1, PTL

(* However many calls and messages there are, the handlers of GoneSecure    *)
(* are together at an end, or start a nil function there, only when initOtr *)
(* has made a second conversation for it (dog_room.go:131-146, 179-187).    *)
THEOREM HandlersApart == Spec => []OneHandler
<1>1. TInv /\ HInv => OneHandler
  <2> SUFFICES ASSUME TInv, HInv, NEW e \in Ends, together[e] \/ crashed[e]
               PROVE  created[e] > 1
    BY DEF OneHandler
  <2>1. ~ (created[e] <= 1)
    BY DEF HInv, OneGone
  <2>2. created[e] \in Nat
    BY DEF TInv, TypeOK
  <2> QED BY <2>1, <2>2
<1> QED BY Invariants, <1>1, PTL

(* However often the conversation is replaced and becomes secure, and       *)
(* however many calls of Ask there are, the question of each is sent at     *)
(* most once, unless two handlers were between their checks of onInit and   *)
(* its reset at once (dog_room.go:179-187, 282-301).                        *)
THEOREM QuestionAskedOnce == Spec => []AskedOnce
<1>1. RInv => AskedOnce
  <2> SUFFICES ASSUME RInv, NEW e \in Ends, NEW n \in asks[e], ~ together[e]
               PROVE  ~ (questions[n] > 1)
    BY DEF AskedOnce
  <2>1. questions[n] \in {0, 1}
    BY DEF RInv, OneRight
  <2> QED BY <2>1
<1> QED BY Invariants, <1>1, PTL

(* The types; in particular every exchange has used up the right of a call  *)
(* to open one, so that no more are begun than calls of Ask and DM were     *)
(* made (dog_room.go:193-233, 282-301).                                     *)
THEOREM TypeCorrect == Spec => []TypeOK
<1>1. TInv => TypeOK
  BY DEF TInv
<1> QED BY Invariants, <1>1, PTL

(* When all goroutines are done and neither exchanges crossed nor initOtr   *)
(* threw a conversation away, every call of Ask has sent its question, but  *)
(* for one that another call wrote over while it waited in onInit, and one  *)
(* put there when the conversation had become secure since Ask looked       *)
(* (dog_room.go:284-288).                                                   *)
THEOREM QuestionNotForgotten == Spec => []AskNotForgotten
<1>1. TInv /\ RInv /\ EInv => AskNotForgotten
  <2> SUFFICES ASSUME TInv, RInv, EInv, Quiet, Smooth, NEW e \in Ends,
                      NEW n \in asks[e] \ (raced \union replaced)
               PROVE  questions[n] = 1
    BY DEF AskNotForgotten
  <2>0. n \in Calls
    BY DEF TInv, TypeOK
  <2>1. Proceeds /\ Remembers(e, n)
    BY <2>0 DEF EInv, Remembered, Kindly
  <2>2. ~ Due(n) /\ ~ Holds(e, n) /\ tasks[e] = {}
    BY DEF Quiet, Due, Holds
  <2>3. \A f \in Ends : ~ Signing(f) /\ \A type \in Types : ~ On(f, type)
    BY DEF Quiet, On, Signing
  <2>4. begun = 1 => Secure
    BY <2>1, <2>3, Peers DEF Proceeds, Types
  <2>5. begun = 0 \/ begun = 1
    BY OneSession
  <2> QED BY <2>1, <2>2, <2>4, <2>5 DEF Remembers, Secure
<1> QED BY Invariants, <1>1, PTL

(* When all goroutines are done and neither exchanges crossed nor initOtr   *)
(* threw a conversation away, no end waits for a message of a proof it has  *)
(* joined: it has a verdict or an abort (dog_conn.go:343-356).              *)
THEOREM ProofsConclude == Spec => []Concluded
<1>1. TInv /\ EInv => Concluded
  <2> SUFFICES ASSUME TInv, EInv, Quiet, Smooth, NEW e \in Ends
               PROVE  smp[e] \in {"idle", "asked", "heard"}
    BY DEF Concluded
  <2>1. Proving /\ smp[e] \in {"idle", "asked", "heard", "answered", "proved"}
    BY DEF EInv, TInv, TypeOK
  <2>2. \A f \in Ends, type \in Types : ~ On(f, type)
    BY DEF Quiet, On
  <2> QED BY <2>1, <2>2, Peers DEF Proving, Types
<1> QED BY Invariants, <1>1, PTL
=============================================================================
