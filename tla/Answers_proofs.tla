--------------------------- MODULE Answers_proofs ---------------------------
(***************************************************************************)
(* What a client is answered, whatever it asks: by the srvsvc pipe (Pipe), *)
(* to the requests of one message, which may be signed (Chain), and of     *)
(* what it has open (FileInfo).                                            *)
(***************************************************************************)
EXTENDS Pipe, Chain, FileInfo, Ordered_proofs

-----------------------------------------------------------------------------
(* Pipe: the pieces of an answer.                                          *)

\* Min finds the least element.
LEMMA MinOf ==
  ASSUME NEW W \in SUBSET Nat, W # {}
  PROVE  Min(W) \in W /\ \A v \in W : Min(W) <= v
BY LeastOf DEF Min

\* The first n of a sequence and those after them make it up.
LEMMA FirstAndAfter ==
  ASSUME NEW S, NEW s \in Seq(S), NEW n \in Nat
  PROVE  /\ FirstOf(s, n) \in Seq(S) /\ AfterFirst(s, n) \in Seq(S)
         /\ Cat(FirstOf(s, n), AfterFirst(s, n)) = s
         /\ AfterFirst(s, n) # <<>> <=> Len(s) > n
<1>1. Len(s) \in Nat
  BY LenProperties
<1>2. CASE n < Len(s)
  <2> DEFINE a == SubSeq(s, 1, n)
             b == SubSeq(s, n + 1, Len(s))
  <2>1. /\ a \in Seq(S) /\ b \in Seq(S) /\ Len(b) = Len(s) - n /\ Cat(a, b) = s
    <3>1. n \in 0 .. Len(s)
      BY <1>1, <1>2
    <3>2. /\ a \in Seq(S) /\ b \in Seq(S) /\ Len(b) = Len(s) - n
          /\ Cat(a, b) = s
      BY <3>1, CutAfter, Zenon
    <3> QED
      BY <3>2
  <2>2. FirstOf(s, n) = a /\ AfterFirst(s, n) = b
    BY <1>2 DEF FirstOf, AfterFirst
  <2> HIDE DEF a, b
  <2>3. b # <<>>
    BY <1>1, <1>2, <2>1, EmptySeq
  <2> QED
    BY <1>2, <2>1, <2>2, <2>3
<1>3. CASE ~ (n < Len(s))
  BY <1>1, <1>3, CatEmpty, EmptySeq DEF FirstOf, AfterFirst
<1> QED
  BY <1>2, <1>3

-----------------------------------------------------------------------------
(* Pipe: what dispatch answers.                                            *)

\* How many contexts of a bind are looked at.
Declared(q) == IF q.declared < Len(q.contexts) THEN q.declared ELSE Len(q.contexts)

LEMMA DeclaredType ==
  ASSUME NEW q \in Requests
  PROVE  /\ q.declared \in Nat /\ Len(q.contexts) \in Nat /\ Declared(q) \in Nat
         /\ DOMAIN q.contexts = 1 .. Len(q.contexts)
         /\ \A i \in DOMAIN q.contexts : q.contexts[i] \in Seq(STRING)
<1>1. q.declared \in Nat /\ q.contexts \in Seq(Seq(STRING))
  BY RequestAssumption
<1>2. Len(q.contexts) \in Nat /\ DOMAIN q.contexts = 1 .. Len(q.contexts)
  BY <1>1, LenProperties
<1>3. \A i \in DOMAIN q.contexts : q.contexts[i] \in Seq(STRING)
  BY <1>1, <1>2, ElementOfSeq
<1> QED
  BY <1>1, <1>2, <1>3 DEF Declared

\* There is a context, and a result for it.
LEMMA ContextsOf ==
  ASSUME NEW q \in Requests
  PROVE  \E n \in Nat \ {0} :
           /\ DOMAIN PresentedContexts(q) = 1 .. n
           /\ DOMAIN BindResults(PresentedContexts(q)) = 1 .. n
           /\ Len(BindResults(PresentedContexts(q))) = n
<1> DEFINE p == PresentedContexts(q)
<1>1. \E n \in Nat \ {0} : DOMAIN p = 1 .. n
  <2> DEFINE n == Declared(q)
  <2>1. n \in Nat
    BY DeclaredType
  <2> HIDE DEF n
  <2>2. CASE n = 0
    <3>1. p = <<"ndr32">>
      BY <2>2 DEF PresentedContexts, n, Declared
    <3>2. DOMAIN p = 1 .. 1
      BY <3>1
    <3> QED
      BY <3>2
  <2>3. CASE n # 0
    <3>1. p = [i \in 1 .. n |-> Presented(q.contexts[i])]
      BY <2>3 DEF PresentedContexts, n, Declared
    <3>2. DOMAIN p = 1 .. n
      BY <3>1
    <3> QED
      BY <2>1, <2>3, <3>2
  <2> QED
    BY <2>2, <2>3
<1> HIDE DEF p
<1>2. PICK n \in Nat \ {0} : DOMAIN p = 1 .. n
  BY <1>1
<1>3. BindResults(p) \in [1 .. n -> {"acceptance", "negotiate_ack", "rejection"}]
  BY <1>2 DEF BindResults
<1>4. Len(BindResults(p)) = n /\ DOMAIN BindResults(p) = 1 .. n
  BY <1>3, SeqFrom
<1> QED
  BY <1>2, <1>4 DEF p

LEMMA DispatchType ==
  ASSUME NEW q \in Requests, NEW id \in 1 .. MaxCall
  PROVE  Dispatch(q, id).call \in 0 .. MaxCall /\ Dispatch(q, id).length \in Nat
<1>1. MaxCall \in Nat /\ 0 \in 0 .. MaxCall /\ id \in 0 .. MaxCall
  BY PipeAssumption
<1>2. 2 + Len(BindResults(PresentedContexts(q))) \in Nat
  BY ContextsOf
<1> QED
  BY <1>1, <1>2 DEF Dispatch, Fault, BindAck, NetShareEnum

\* The units of an answer.
Unit == (0 .. MaxCall) \X Nat

LEMMA UnitsType ==
  ASSUME NEW a, a.call \in 0 .. MaxCall, a.length \in Nat
  PROVE  Units(a) \in Seq(Unit) /\ Len(Units(a)) = a.length
<1>1. Units(a) \in [1 .. a.length -> Unit]
  BY DEF Units, Unit
<1> QED
  BY <1>1, SeqFrom

LEMMA NextCallType == ASSUME callId \in 1 .. MaxCall PROVE NextCall \in 1 .. MaxCall
<1>1. callId \in Nat /\ MaxCall \in Nat /\ MaxCall > 0
  BY PipeAssumption
<1>2. callId % MaxCall \in 0 .. MaxCall - 1
  BY <1>1
<1> QED
  BY <1>1, <1>2 DEF NextCall

\* The pipe takes a context for NDR32 if nothing it knows comes before it.
LEMMA PresentedMeans ==
  ASSUME NEW c \in Seq(STRING)
  PROVE  Presented(c) = "ndr32" <=>
           \E k \in DOMAIN c : /\ c[k] = "ndr32"
                              /\ \A l \in 1 .. k - 1 : c[l] # "feature"
<1> DEFINE known == {k \in DOMAIN c : c[k] \in {"ndr32", "feature"}}
<1>1. Len(c) \in Nat /\ DOMAIN c = 1 .. Len(c)
  BY LenProperties
<1>2. CASE known = {}
  BY <1>2 DEF Presented
<1>3. CASE known # {}
  <2>1. known \in SUBSET Nat
    BY <1>1
  <2>2. PICK m : m = Min(known)
    OBVIOUS
  <2>3. m \in known /\ \A k \in known : m <= k
    <3> HIDE DEF known
    <3> QED
      BY <1>3, <2>1, <2>2, MinOf
  <2>4. Presented(c) = c[m]
    BY <1>3, <2>2 DEF Presented
  <2>5. ASSUME c[m] = "ndr32"
        PROVE  \A l \in 1 .. m - 1 : c[l] # "feature"
    BY <1>1, <2>3
  <2>6. ASSUME NEW k \in DOMAIN c, c[k] = "ndr32", \A l \in 1 .. k - 1 : c[l] # "feature"
        PROVE  c[m] = "ndr32"
    <3>1. m \in Nat /\ k \in Nat /\ 1 <= m /\ m <= k
      BY <1>1, <2>3, <2>6
    <3>2. CASE m = k
      BY <2>6, <3>2
    <3>3. CASE m < k
      BY <2>3, <2>6, <3>1, <3>3
    <3> QED
      BY <3>1, <3>2, <3>3
  <2> QED
    BY <2>3, <2>4, <2>5, <2>6
<1> QED
  BY <1>2, <1>3

\* The contexts that are taken for it are those that offer it.
LEMMA OfferedMeans ==
  ASSUME NEW q \in Requests, Declared(q) # 0
  PROVE  \A i \in Nat : i \in Offered(q) <=>
           i \in DOMAIN PresentedContexts(q) /\ PresentedContexts(q)[i] = "ndr32"
<1> DEFINE n == Declared(q)
<1>1. /\ q.declared \in Nat /\ Len(q.contexts) \in Nat /\ n \in Nat
      /\ DOMAIN q.contexts = 1 .. Len(q.contexts)
      /\ \A i \in DOMAIN q.contexts : q.contexts[i] \in Seq(STRING)
  BY DeclaredType
<1>2. PresentedContexts(q) = [i \in 1 .. n |-> Presented(q.contexts[i])]
  BY DEF PresentedContexts, Declared
<1>3. \A i \in Nat : i \in 1 .. n <=> i \in DOMAIN q.contexts /\ i <= q.declared
  BY <1>1 DEF Declared
<1>4. ASSUME NEW i \in Nat, i \in 1 .. n
      PROVE  i \in Offered(q) <=> PresentedContexts(q)[i] = "ndr32"
  <2>1. PresentedContexts(q)[i] = Presented(q.contexts[i])
    BY <1>2, <1>4
  <2>2. i \in DOMAIN q.contexts /\ i <= q.declared /\ q.contexts[i] \in Seq(STRING)
    BY <1>1, <1>3, <1>4
  <2>3. Presented(q.contexts[i]) = "ndr32" <=>
          \E k \in DOMAIN q.contexts[i] :
             /\ q.contexts[i][k] = "ndr32"
             /\ \A l \in 1 .. k - 1 : q.contexts[i][l] # "feature"
    BY <2>2, PresentedMeans
  <2> QED
    BY <2>1, <2>2, <2>3, Zenon DEF Offered
<1>5. \A i \in Offered(q) : i \in Nat /\ i \in 1 .. n
  BY <1>1, <1>3 DEF Offered
<1>6. DOMAIN PresentedContexts(q) = 1 .. n
  BY <1>2
<1> QED
  BY <1>4, <1>5, <1>6, Zenon

\* Of one context at most is it said that it was accepted, the first that is
\* taken for NDR32, and of one if there is any.
LEMMA AcceptedMeans ==
  ASSUME NEW n \in Nat, NEW p, DOMAIN p = 1 .. n
  PROVE  /\ Accepted(BindResults(p)) =
              {i \in 1 .. n : p[i] = "ndr32" /\ \A j \in 1 .. i - 1 : p[j] # "ndr32"}
         /\ Cardinality(Accepted(BindResults(p))) <= 1
         /\ \A i \in 1 .. n : p[i] = "ndr32" =>
              \E j \in Accepted(BindResults(p)) : j <= i
<1> DEFINE A == Accepted(BindResults(p))
<1>1. A = {i \in 1 .. n : p[i] = "ndr32" /\ \A j \in 1 .. i - 1 : p[j] # "ndr32"}
  BY DEF Accepted, BindResults
<1> HIDE DEF A
<1>2. \A i, j \in A : i = j
  BY <1>1
<1>3. Cardinality(A) <= 1
  <2>1. CASE A = {}
    BY <2>1, FS_EmptySet
  <2>2. CASE A # {}
    <3>1. PICK i \in A : TRUE
      BY <2>2
    <3>2. A = {i}
      BY <1>2
    <3>3. Cardinality({i}) = 1
      BY FS_Singleton
    <3> QED
      BY <3>2, <3>3
  <2> QED
    BY <2>1, <2>2
<1>4. ASSUME NEW i \in 1 .. n, p[i] = "ndr32"
      PROVE  \E j \in A : j <= i
  <2> DEFINE W == {j \in 1 .. n : p[j] = "ndr32"}
  <2>1. PICK j \in W : \A k \in W : j <= k
    <3>1. W \in SUBSET Nat /\ W # {}
      BY <1>4
    <3> HIDE DEF W
    <3> QED
      BY <3>1, LeastOf
  <2>2. j \in A
    BY <1>1, <2>1
  <2> QED
    BY <1>4, <2>1, <2>2
<1> QED
  BY <1>1, <1>3, <1>4 DEF A

LEMMA BindIsAnswered ==
  ASSUME NEW q \in Requests, NEW results, results = BindResults(PresentedContexts(q))
  PROVE  /\ \A i \in Accepted(results) :
              q.declared > 0 /\ q.contexts # <<>> => i \in Offered(q)
         /\ Cardinality(Accepted(results)) <= 1
         /\ \A i \in Offered(q) : \E j \in Accepted(results) : j <= i
<1> DEFINE p == PresentedContexts(q)
<1>1. PICK n \in Nat \ {0} : DOMAIN p = 1 .. n
  BY ContextsOf
<1>2. /\ q.declared \in Nat /\ Len(q.contexts) \in Nat
      /\ DOMAIN q.contexts = 1 .. Len(q.contexts)
  BY DeclaredType
<1>3. /\ Accepted(results) =
           {i \in 1 .. n : p[i] = "ndr32" /\ \A j \in 1 .. i - 1 : p[j] # "ndr32"}
      /\ Cardinality(Accepted(results)) <= 1
      /\ \A i \in 1 .. n : p[i] = "ndr32" => \E j \in Accepted(results) : j <= i
  <2> HIDE DEF p
  <2> QED
    BY <1>1, AcceptedMeans DEF p
<1>4. CASE Declared(q) # 0
  <2>1. \A i \in Nat : i \in Offered(q) <=> i \in 1 .. n /\ p[i] = "ndr32"
    <3> HIDE DEF p
    <3> QED
      BY <1>1, <1>4, OfferedMeans, Zenon DEF p
  <2>2. \A i \in Offered(q) : i \in Nat
    BY <1>2 DEF Offered
  <2> HIDE DEF p
  <2>3. \A i \in Accepted(results) : i \in Nat /\ i \in 1 .. n /\ p[i] = "ndr32"
    BY <1>3
  <2> QED
    BY <1>3, <2>1, <2>2, <2>3, Zenon
<1>5. CASE Declared(q) = 0
  <2>1. Offered(q) = {}
    BY <1>2, <1>5 DEF Offered, Declared
  <2>2. ~ (q.declared > 0 /\ q.contexts # <<>>)
    <3>1. q.contexts \in Seq(Seq(STRING))
      BY RequestAssumption
    <3> QED
      BY <1>2, <1>5, <3>1, EmptySeq DEF Declared
  <2> QED
    BY <1>3, <2>1, <2>2
<1> QED
  BY <1>4, <1>5

\* The level is read where the client's encoder put it.
LEMMA LevelIsFound ==
  ASSUME NEW q \in Requests
  PROVE  RequestedLevel(q.stub) = q.wants
<1> DEFINE s == q.stub
<1>1. /\ s \in Seq(Nat)
      /\ q.wants = IF LevelAt(s) <= Len(s) THEN s[LevelAt(s)] ELSE 1
  BY RequestAssumption
<1> HIDE DEF s
<1>2. /\ Len(s) \in Nat /\ \A i \in 1 .. Len(s) : s[i] \in Nat
      /\ s = <<>> <=> Len(s) = 0
  BY <1>1, LenProperties, ElementOfSeq, EmptySeq
<1>3. \A n \in Nat : NoAnswer # n
  BY PipeAssumption
<1>4. \A k \in Nat : OrOne(Word(s, 4 * k)) = IF k < Len(s) THEN s[k + 1] ELSE 1
  <2> SUFFICES ASSUME NEW k \in Nat
               PROVE  OrOne(Word(s, 4 * k)) = IF k < Len(s) THEN s[k + 1] ELSE 1
    OBVIOUS
  <2>1. (4 * k) \div 4 = k
    OBVIOUS
  <2>2. CASE k < Len(s)
    <3>1. s[k + 1] \in Nat
      BY <1>2, <2>2
    <3> QED
      BY <1>3, <2>1, <2>2, <3>1 DEF OrOne, Word
  <2>3. CASE ~ (k < Len(s))
    BY <2>1, <2>3 DEF OrOne, Word
  <2> QED
    BY <2>2, <2>3
<1>5. /\ Word(s, 0) = IF 0 < Len(s) THEN s[1] ELSE NoAnswer
      /\ Word(s, 12) = IF 3 < Len(s) THEN s[4] ELSE NoAnswer
      /\ OrOne(Word(s, 4)) = IF 1 < Len(s) THEN s[2] ELSE 1
  <2>1. 0 \div 4 = 0 /\ 12 \div 4 = 3 /\ 4 = 4 * 1
    OBVIOUS
  <2> QED
    BY <1>4, <2>1 DEF Word
<1>6. \A n \in Nat : 16 + ((n * 2 + 3) \div 4) * 4 = 4 * (4 + (n + 1) \div 2)
  OBVIOUS
<1>7. CASE Len(s) < 1
  <2>1. s = <<>> /\ RequestedLevel(s) = 1
    BY <1>2, <1>5, <1>7 DEF RequestedLevel
  <2>2. LevelAt(s) = 5
    BY <1>7, <2>1 DEF LevelAt
  <2> QED
    BY <1>1, <1>2, <1>7, <2>1, <2>2 DEF s
<1>8. CASE Len(s) >= 1 /\ s[1] = 0
  <2>1. s # <<>> /\ Word(s, 0) = 0 /\ Word(s, 0) # NoAnswer
    BY <1>2, <1>3, <1>5, <1>8
  <2>2. LevelAt(s) = 2 /\ RequestedLevel(s) = OrOne(Word(s, 4))
    BY <1>8, <2>1 DEF LevelAt, RequestedLevel
  <2> QED
    BY <1>1, <1>2, <1>5, <2>2 DEF s
<1>9. CASE Len(s) >= 1 /\ s[1] # 0
  <2>1. Word(s, 0) # 0 /\ Word(s, 0) # NoAnswer
    BY <1>2, <1>3, <1>5, <1>9
  <2>2. CASE Len(s) < 4
    <3>1. LevelAt(s) = 5 /\ RequestedLevel(s) = 1
      BY <1>2, <1>5, <1>9, <2>1, <2>2 DEF LevelAt, RequestedLevel
    <3> QED
      BY <1>1, <1>2, <2>2, <3>1 DEF s
  <2>3. CASE Len(s) >= 4
    <3> DEFINE k == 4 + (s[4] + 1) \div 2
    <3>1. s[4] \in Nat /\ k \in Nat /\ s[4] # NoAnswer /\ Word(s, 12) = s[4]
      BY <1>2, <1>3, <1>5, <2>3
    <3>2. 16 + ((s[4] * 2 + 3) \div 4) * 4 = 4 * k
      BY <1>6, <3>1
    <3>3. LevelAt(s) = k + 1
      BY <1>2, <1>9, <2>3, <3>1 DEF LevelAt
    <3>4. RequestedLevel(s) = OrOne(Word(s, 4 * k))
      BY <2>1, <3>1, <3>2 DEF RequestedLevel
    <3> HIDE DEF k
    <3>5. k < Len(s) <=> LevelAt(s) <= Len(s)
      BY <1>2, <3>1, <3>3
    <3> QED
      BY <1>1, <1>4, <3>1, <3>3, <3>4, <3>5 DEF s
  <2> QED
    BY <1>2, <2>2, <2>3
<1> QED
  BY <1>2, <1>7, <1>8, <1>9

-----------------------------------------------------------------------------
(* Pipe: the inductive invariant.                                          *)

\* What is asked for is answered by what dispatch makes of it.
AnsweredBy ==
  asked # NoAnswer =>
    asked \in Requests /\ \E id \in 1 .. MaxCall : answer = Dispatch(asked, id)

PipeInv == /\ PipeTypeOK
           /\ got \in Seq(Unit)
           /\ asked = NoAnswer <=> answer = NoAnswer
           /\ AnsweredBy
           /\ AnswerWhole

\* What an answer is worth follows from how dispatch makes it.
LEMMA AnsweredWell == PipeInv => BindAnswered /\ LevelFound
<1> SUFFICES ASSUME PipeInv, asked # NoAnswer
             PROVE  BindAnswered /\ LevelFound
  BY Zenon DEF BindAnswered, LevelFound
<1>1. asked \in Requests
  BY DEF PipeInv, AnsweredBy
<1>2. PICK id \in 1 .. MaxCall : answer = Dispatch(asked, id)
  BY DEF PipeInv, AnsweredBy
<1>3. BindAnswered
  <2> SUFFICES ASSUME asked.whole, asked.ptype \in {"bind", "alter_context"}
               PROVE  /\ \A i \in Accepted(answer.results) :
                           asked.declared > 0 /\ asked.contexts # <<>> => i \in Offered(asked)
                      /\ Cardinality(Accepted(answer.results)) <= 1
                      /\ \A i \in Offered(asked) : \E j \in Accepted(answer.results) : j <= i
    BY Zenon DEF BindAnswered
  <2>1. answer.results = BindResults(PresentedContexts(asked))
    BY <1>2 DEF Dispatch, BindAck
  <2> QED
    BY <1>1, <2>1, BindIsAnswered
<1>4. LevelFound
  <2> SUFFICES ASSUME asked.whole, asked.ptype = "request", asked.opnum = "net_share_enum"
               PROVE  answer.level = asked.wants
    BY Zenon DEF LevelFound
  <2>1. answer = NetShareEnum(id, RequestedLevel(asked.stub))
    BY <1>2 DEF Dispatch
  <2>2. answer.level = RequestedLevel(asked.stub)
    BY <2>1 DEF NetShareEnum
  <2> QED
    BY <1>1, <2>2, LevelIsFound
<1> QED
  BY <1>3, <1>4

LEMMA InitPipe == PipeInit => PipeInv
<1>1. MaxCall \in 1 .. MaxCall
  BY PipeAssumption
<1> SUFFICES ASSUME PipeInit PROVE PipeInv
  OBVIOUS
<1>2. PipeTypeOK
  <2>1. pending \in Seq(Unit)
    BY DEF PipeInit
  <2> QED
    BY <1>1, <2>1 DEF PipeInit, PipeTypeOK, Unit
<1>3. AnswerWhole /\ AnsweredBy
  BY Zenon DEF PipeInit, AnswerWhole, AnsweredBy
<1> QED
  BY <1>2, <1>3 DEF PipeInit, PipeInv

\* A request is answered anew, whatever was left of the last answer: n units of
\* the new one are handed over at once.
LEMMA AskedAnew ==
  ASSUME PipeInv, NEW q \in Requests, NEW n \in Nat, opened,
         callId' = NextCall, asked' = q, answer' = Dispatch(q, NextCall),
         UNCHANGED <<tree, opened>>,
         pending' = AfterFirst(Units(answer'), n), got' = FirstOf(Units(answer'), n),
         reply'.more = (pending' # <<>>)
  PROVE  PipeInv'
<1> DEFINE a == Dispatch(q, NextCall)
<1>1. NextCall \in 1 .. MaxCall
  BY NextCallType DEF PipeInv, PipeTypeOK
<1>2. a.call \in 0 .. MaxCall /\ a.length \in Nat /\ a # NoAnswer
  BY <1>1, DispatchType, AnswerAssumption
<1>3. answer' = a /\ q # NoAnswer
  BY PipeAssumption
<1>4. AnsweredBy'
  BY <1>1 DEF AnsweredBy
<1> HIDE DEF a
<1>5. /\ pending' \in Seq(Unit) /\ got' \in Seq(Unit)
      /\ Cat(got', pending') = Units(answer')
  <2>1. Units(a) \in Seq(Unit)
    BY <1>2, UnitsType
  <2> QED
    BY <1>3, <2>1, FirstAndAfter
<1>6. got' \o pending' = Units(answer')
  BY <1>5, Zenon DEF Cat
<1>7. AnswerWhole'
  BY <1>2, <1>3, <1>6, Zenon DEF AnswerWhole
<1>8. PipeTypeOK'
  BY <1>1, <1>3, <1>5 DEF PipeInv, PipeTypeOK, Unit
<1> QED
  BY <1>2, <1>3, <1>4, <1>5, <1>7, <1>8 DEF PipeInv

\* What a request that is refused leaves.
LEMMA RefusedKeeps ==
  ASSUME PipeInv, tree' \in {"Disk", "Ipc", "none"}, reply'.more = reply.more,
         UNCHANGED <<opened, pending, callId, asked, answer, got>>
  PROVE  PipeInv'
BY DEF PipeInv, PipeTypeOK, AnsweredBy, AnswerWhole

LEMMA RefuseKeeps ==
  ASSUME PipeInv, NEW status, Refuse(status)
  PROVE  PipeInv'
<1>1. reply'.more = reply.more
  BY DEF Refuse, Answered
<1>2. tree' \in {"Disk", "Ipc", "none"}
  BY DEF PipeInv, PipeTypeOK, Refuse
<1> QED
  BY <1>1, <1>2, RefusedKeeps DEF Refuse

LEMMA GoneKeeps ==
  ASSUME PipeInv, opened' \in BOOLEAN, pending' = <<>>, asked' = NoAnswer,
         answer' = NoAnswer, got' = <<>>, reply'.more = FALSE, UNCHANGED <<tree, callId>>
  PROVE  PipeInv'
<1>1. PipeTypeOK'
  BY DEF PipeInv, PipeTypeOK
<1>2. reply'.more = (pending' # <<>>)
  OBVIOUS
<1>3. AnswerWhole' /\ AnsweredBy'
  BY <1>2, Zenon DEF AnswerWhole, AnsweredBy
<1> QED
  BY <1>1, <1>3 DEF PipeInv

\* read: the piece moves from what is pending to what was handed over.
LEMMA ReadKeeps ==
  ASSUME PipeInv, NEW n \in ReadSizes, ReadPipe(n)
  PROVE  PipeInv'
<1>1. CASE n = 0 \/ pending = <<>>
  <2>1. Refuse("INVALID_PARAMETER") \/ Refuse("END_OF_FILE")
    BY <1>1, Zenon DEF ReadPipe
  <2> QED
    BY <2>1, RefuseKeeps
<1>2. CASE ~ (n = 0 \/ pending = <<>>)
  <2>1. /\ opened /\ pending' = AfterFirst(pending, n) /\ got' = got \o FirstOf(pending, n)
        /\ reply'.more = (pending' # <<>>)
        /\ UNCHANGED <<tree, opened, callId, asked, answer>>
    <3>1. /\ opened /\ pending' = AfterFirst(pending, n)
          /\ got' = got \o FirstOf(pending, n)
          /\ Answered("SUCCESS", pending' # <<>>)
          /\ UNCHANGED <<tree, opened, callId, asked, answer>>
      BY <1>2, Zenon DEF ReadPipe
    <3>2. reply'.more = (pending' # <<>>)
      BY <3>1 DEF Answered
    <3> QED
      BY <3>1, <3>2, Zenon
  <2>2. n \in Nat /\ pending \in Seq(Unit) /\ got \in Seq(Unit)
    BY PipeAssumption DEF PipeInv, PipeTypeOK, Unit
  <2>3. /\ FirstOf(pending, n) \in Seq(Unit) /\ AfterFirst(pending, n) \in Seq(Unit)
        /\ Cat(FirstOf(pending, n), AfterFirst(pending, n)) = pending
    BY <2>2, FirstAndAfter
  <2>4. got' = Cat(got, FirstOf(pending, n))
    BY <2>1, Zenon DEF Cat
  <2>5. Cat(got', pending') = Cat(got, pending) /\ got' \in Seq(Unit)
    BY <2>1, <2>2, <2>3, <2>4, CatAssoc, CatType
  <2>6. answer # NoAnswer /\ got \o pending = Units(answer)
    BY <1>2 DEF PipeInv, AnswerWhole
  <2>7. got' \o pending' = Units(answer')
    BY <2>1, <2>5, <2>6, Zenon DEF Cat
  <2>8. AnswerWhole'
    BY <2>1, <2>6, <2>7, Zenon DEF AnswerWhole
  <2>9. PipeTypeOK' /\ AnsweredBy'
    BY <2>1, <2>3 DEF PipeInv, PipeTypeOK, AnsweredBy, Unit
  <2> QED
    BY <2>1, <2>5, <2>8, <2>9 DEF PipeInv
<1> QED
  BY <1>1, <1>2

\* transceive, and write, which hands nothing over yet.
LEMMA TransceiveKeeps ==
  ASSUME PipeInv, NEW q \in Requests, NEW max \in ReadSizes, Transceive(q, max)
  PROVE  PipeInv'
<1> DEFINE a == Dispatch(q, NextCall)
<1>1. max \in Nat /\ NextCall \in 1 .. MaxCall
  BY PipeAssumption, NextCallType DEF PipeInv, PipeTypeOK
<1>2. a.call \in 0 .. MaxCall /\ a.length \in Nat
  BY <1>1, DispatchType
<1>3. /\ opened /\ callId' = NextCall /\ asked' = q /\ answer' = a
      /\ pending' = AfterFirst(Units(a), max) /\ got' = FirstOf(Units(a), max)
      /\ reply'.more = (a.length > max) /\ UNCHANGED <<tree, opened>>
  BY DEF Transceive, Answered
<1> HIDE DEF a
<1>4. AfterFirst(Units(a), max) # <<>> <=> a.length > max
  BY <1>1, <1>2, UnitsType, FirstAndAfter
<1> QED
  BY <1>1, <1>3, <1>4, AskedAnew DEF a

LEMMA WriteKeeps ==
  ASSUME PipeInv, NEW q \in Requests, WritePipe(q)
  PROVE  PipeInv'
<1> DEFINE a == Dispatch(q, NextCall)
<1>1. NextCall \in 1 .. MaxCall
  BY NextCallType DEF PipeInv, PipeTypeOK
<1>2. a.call \in 0 .. MaxCall /\ a.length \in Nat
  BY <1>1, DispatchType
<1>3. /\ opened /\ callId' = NextCall /\ asked' = q /\ answer' = a
      /\ pending' = Units(a) /\ got' = <<>>
      /\ reply'.more = TRUE /\ UNCHANGED <<tree, opened>>
  BY DEF WritePipe, Answered
<1>4. a.length > 0
  BY ContextsOf DEF Dispatch, Fault, BindAck, NetShareEnum
<1> HIDE DEF a
<1>5. Units(a) \in Seq(Unit) /\ Len(Units(a)) = a.length
  BY <1>2, UnitsType
<1>6. /\ AfterFirst(Units(a), 0) = Units(a) /\ FirstOf(Units(a), 0) = <<>>
      /\ Units(a) # <<>>
  <2>1. /\ Cat(FirstOf(Units(a), 0), AfterFirst(Units(a), 0)) = Units(a)
        /\ AfterFirst(Units(a), 0) # <<>> /\ AfterFirst(Units(a), 0) \in Seq(Unit)
    BY <1>4, <1>5, FirstAndAfter
  <2>2. FirstOf(Units(a), 0) = SubSeq(Units(a), 1, 0)
    BY <1>4, <1>5 DEF FirstOf
  <2>3. FirstOf(Units(a), 0) = <<>>
    BY <1>5, <2>2
  <2> QED
    BY <2>1, <2>3, CatEmpty
<1> QED
  BY <1>3, <1>6, AskedAnew DEF a

LEMMA PipeStep == ASSUME PipeInv, [PipeNext]_pipeVars PROVE PipeInv'
<1>1. ASSUME NEW k \in {"Disk", "Ipc", "none"}, TurnTo(k) PROVE PipeInv'
  BY <1>1, RefusedKeeps DEF TurnTo
<1>2. CASE Refused
  <2>1. \E status : Refuse(status)
    BY <1>2, Zenon DEF Refused
  <2> QED
    BY <2>1, RefuseKeeps
<1>3. CASE CreatePipe
  BY <1>3, GoneKeeps DEF CreatePipe, Answered
<1>4. CASE ClosePipe \/ ReleasePipe
  <2>1. Gone /\ reply'.more = FALSE
    BY <1>4 DEF ClosePipe, ReleasePipe, Answered
  <2> QED
    BY <2>1, GoneKeeps DEF Gone
<1>5. CASE UNCHANGED pipeVars
  BY <1>5, RefusedKeeps DEF pipeVars, PipeInv, PipeTypeOK
<1> QED
  BY <1>1, <1>2, <1>3, <1>4, <1>5, ReadKeeps, TransceiveKeeps, WriteKeeps DEF PipeNext

LEMMA PipeInvariant == PipeSpec => []PipeInv
BY InitPipe, PipeStep, PTL DEF PipeSpec

\* The pipe's variables have their types, and it holds nothing while closed.
THEOREM PipeTypeCorrect == PipeSpec => []PipeTypeOK
<1>1. PipeInv => PipeTypeOK
  BY DEF PipeInv
<1> QED
  BY <1>1, PipeInvariant, PTL

\* transceive, read, dispatch: however a client cuts the answer up, it has been
\* handed all that is not pending, in order and once; it is told there is more
\* exactly if there is; a bind accepts the first context that offers NDR32 and
\* no other; and the level of a call is found behind a name of any length.
THEOREM ClientIsAnswered == PipeSpec => []PipeAnswers
<1>1. PipeInv => PipeAnswers
  BY AnsweredWell DEF PipeInv, PipeAnswers
<1> QED
  BY <1>1, PipeInvariant, PTL

-----------------------------------------------------------------------------
(* Chain: the walk of the signatures.                                      *)

IsBuffer(buf) ==
  buf.len \in Nat /\ \A o \in DOMAIN buf.at : o \in Nat /\ buf.at[o].next \in Nat

Extents(buf) == [from : 0 .. buf.len, to : 0 .. buf.len]

Extent(buf, o) == [from |-> o, to |-> PduEnd(buf, o)]

\* One step of the recursion in pdu_extents.
WalkedBy(buf, f) ==
  [o \in 0 .. buf.len |->
     IF ~HeaderAt(buf, o) THEN <<>>
     ELSE IF PduEnd(buf, o) = buf.len THEN <<Extent(buf, o)>>
          ELSE Cat(<<Extent(buf, o)>>, f[PduEnd(buf, o)])]

LEMMA Lengths ==
  /\ HeaderLen \in Nat /\ HeaderLen > 0
  /\ ResponseAlign \in Nat /\ ResponseAlign > 0
  /\ MAX_COMPOUND_RESPONSE \in Nat
  /\ \A body \in Bodies : body \in Nat
BY ChainAssumption

LEMMA EndIs ==
  ASSUME NEW buf, IsBuffer(buf), NEW o \in Nat, HeaderAt(buf, o)
  PROVE  PduEnd(buf, o) \in Nat /\ o < PduEnd(buf, o) /\ PduEnd(buf, o) <= buf.len
BY Lengths DEF IsBuffer, HeaderAt, PduEnd

\* The recursion is well founded: a PDU ends behind its beginning.
LEMMA WalkExists ==
  ASSUME NEW buf, IsBuffer(buf)
  PROVE  \E f : f = WalkedBy(buf, f)
<1> DEFINE n == buf.len
           Behind(f, k) == \A o \in 0 .. n : n < o + k => f[o] = WalkedBy(buf, f)[o]
           W == {k \in Nat : ~ \E f : f = [o \in 0 .. n |-> f[o]] /\ Behind(f, k)}
<1>0. n \in Nat
  BY DEF IsBuffer
<1>1. CASE n + 1 \notin W
  <2>1. PICK f : f = [o \in 0 .. n |-> f[o]] /\ Behind(f, n + 1)
    BY <1>0, <1>1
  <2>2. \A o \in 0 .. n : f[o] = WalkedBy(buf, f)[o]
    BY <1>0, <2>1
  <2>3. f = WalkedBy(buf, f)
    BY <2>1, <2>2, Zenon DEF WalkedBy
  <2> QED
    BY <2>3
<1>2. CASE W # {}
  <2>1. PICK k \in W : \A v \in W : k <= v
    BY <1>2, LeastOf
  <2>2. k # 0
    <3> DEFINE f == [o \in 0 .. n |-> 0]
    <3>1. f = [o \in 0 .. n |-> f[o]] /\ Behind(f, 0)
      BY <1>0
    <3> QED
      BY <3>1
  <2>3. k \in Nat /\ k - 1 \in Nat /\ k - 1 \notin W
    BY <2>1, <2>2
  <2>4. PICK f : f = [o \in 0 .. n |-> f[o]] /\ Behind(f, k - 1)
    BY <2>3
  <2> DEFINE g == [o \in 0 .. n |-> IF n < o + k THEN WalkedBy(buf, f)[o] ELSE 0]
  <2>5. g = [o \in 0 .. n |-> g[o]]
    OBVIOUS
  <2>6. ASSUME NEW o \in 0 .. n, n < o + k
        PROVE  g[o] = WalkedBy(buf, g)[o]
    <3>1. g[o] = WalkedBy(buf, f)[o]
      BY <2>6
    <3>2. CASE ~HeaderAt(buf, o) \/ PduEnd(buf, o) = n
      BY <3>1, <3>2, Zenon DEF WalkedBy
    <3>3. CASE HeaderAt(buf, o) /\ PduEnd(buf, o) # n
      <4>1. PduEnd(buf, o) \in 0 .. n /\ n < PduEnd(buf, o) + (k - 1) /\ n < PduEnd(buf, o) + k
        BY <3>3, <2>6, <2>3, <1>0, EndIs
      <4>2. g[PduEnd(buf, o)] = f[PduEnd(buf, o)]
        BY <4>1, <2>4
      <4> QED
        BY <3>1, <3>3, <4>2, Zenon DEF WalkedBy
    <3> QED
      BY <3>2, <3>3
  <2>7. k \notin W
    BY <2>3, <2>5, <2>6
  <2> QED
    BY <2>1, <2>7
<1> QED
  BY <1>1, <1>2

\* What an extent at o and the extents behind it are.
Walked(buf, o, w) ==
  /\ w \in Seq(Extents(buf))
  /\ w = <<>> <=> ~HeaderAt(buf, o)
  /\ w # <<>> => w[1].from = o /\ ~HeaderAt(buf, w[Len(w)].to)
  /\ \A i \in 1 .. Len(w) : /\ o <= w[i].from /\ HeaderAt(buf, w[i].from)
                            /\ w[i].to = PduEnd(buf, w[i].from)
  /\ \A i \in 1 .. Len(w) - 1 : w[i].to = w[i + 1].from
  /\ \A i, j \in 1 .. Len(w) : i < j => w[i].from < w[j].from

LEMMA NothingAtEnd == ASSUME NEW buf, IsBuffer(buf) PROVE Walked(buf, buf.len, <<>>)
BY Lengths, EmptySeq DEF IsBuffer, Walked, HeaderAt

LEMMA OneMore ==
  ASSUME NEW buf, IsBuffer(buf), NEW o \in 0 .. buf.len, HeaderAt(buf, o),
         NEW rest, Walked(buf, PduEnd(buf, o), rest)
  PROVE  Walked(buf, o, Cat(<<Extent(buf, o)>>, rest))
<1> DEFINE e == PduEnd(buf, o)
           x == <<Extent(buf, o)>>
           w == Cat(x, rest)
<1>0. buf.len \in Nat
  BY DEF IsBuffer
<1>1. e \in 0 .. buf.len /\ o < e
  BY <1>0, EndIs
<1>2. Extent(buf, o) \in Extents(buf) /\ Extent(buf, o).from = o /\ Extent(buf, o).to = e
  BY <1>1 DEF Extent, Extents
<1>3. x \in Seq(Extents(buf)) /\ Len(x) = 1 /\ x[1] = Extent(buf, o)
  <2> HIDE DEF e
  <2> QED
    BY <1>2 
<1>4. rest \in Seq(Extents(buf)) /\ Len(rest) \in Nat
  BY LenProperties DEF Walked
<1>5. /\ w \in Seq(Extents(buf)) /\ Len(w) = 1 + Len(rest)
      /\ \A i \in 1 .. 1 + Len(rest) : w[i] = IF i <= 1 THEN x[i] ELSE rest[i - 1]
  <2> DEFINE S == Extents(buf)
  <2>1. x \in Seq(S) /\ rest \in Seq(S)
    BY <1>3, <1>4
  <2> HIDE DEF x, S
  <2>2. /\ Cat(x, rest) \in Seq(S) /\ Len(Cat(x, rest)) = Len(x) + Len(rest)
        /\ \A i \in 1 .. Len(x) + Len(rest) :
             Cat(x, rest)[i] = IF i <= Len(x) THEN x[i] ELSE rest[i - Len(x)]
    BY <2>1, CatAt
  <2> HIDE DEF w
  <2>3. w = Cat(x, rest)
    BY DEF w
  <2> QED
    BY <1>3, <2>2, <2>3 DEF S
<1>6. w[1] = Extent(buf, o) /\ \A i \in 1 .. Len(rest) : w[i + 1] = rest[i]
  <2> HIDE DEF w, x
  <2> QED
    BY <1>3, <1>4, <1>5
<1>7. /\ rest = <<>> <=> ~HeaderAt(buf, e)
      /\ rest # <<>> => rest[1].from = e /\ ~HeaderAt(buf, rest[Len(rest)].to)
      /\ \A i \in 1 .. Len(rest) : /\ e <= rest[i].from /\ HeaderAt(buf, rest[i].from)
                                   /\ rest[i].to = PduEnd(buf, rest[i].from)
                                   /\ rest[i].from \in Nat /\ rest[i].to \in Nat
      /\ \A i \in 1 .. Len(rest) - 1 : rest[i].to = rest[i + 1].from
      /\ \A i, j \in 1 .. Len(rest) : i < j => rest[i].from < rest[j].from
      /\ rest # <<>> <=> Len(rest) > 0
  <2> HIDE DEF x, w
  <2>1. \A i \in 1 .. Len(rest) : rest[i].from \in Nat /\ rest[i].to \in Nat
    <3>1. \A i \in 1 .. Len(rest) : rest[i] \in Extents(buf)
      BY <1>4
    <3>2. \A y \in Extents(buf) : y.from \in Nat /\ y.to \in Nat
      BY <1>0 DEF Extents
    <3> QED
      BY <3>1, <3>2
  <2>2. rest # <<>> <=> Len(rest) > 0
    BY <1>4, EmptySeq
  <2> HIDE DEF e
  <2>3. Walked(buf, e, rest)
    BY DEF e
  <2> QED
    BY <2>1, <2>2, <2>3, Zenon DEF Walked
<1> HIDE DEF w, x, e
<1>8. w # <<>> 
  BY <1>4, <1>5, EmptySeq
<1>9. w[1].from = o /\ ~HeaderAt(buf, w[Len(w)].to)
  <2>1. CASE rest = <<>>
    BY <2>1, <1>2, <1>4, <1>5, <1>6, <1>7
  <2>2. CASE rest # <<>>
    BY <2>2, <1>2, <1>4, <1>5, <1>6, <1>7
  <2> QED
    BY <2>1, <2>2
<1>10. ASSUME NEW i \in 1 .. Len(w)
       PROVE  /\ o <= w[i].from /\ HeaderAt(buf, w[i].from)
              /\ w[i].to = PduEnd(buf, w[i].from)
  <2>1. CASE i = 1
    BY <2>1, <1>2, <1>6 DEF e
  <2>2. CASE i # 1
    <3>1. i - 1 \in 1 .. Len(rest) /\ w[i] = rest[i - 1]
      BY <2>2, <1>4, <1>5
    <3> QED
      BY <3>1, <1>1, <1>7
  <2> QED
    BY <2>1, <2>2
<1>11. ASSUME NEW i \in 1 .. Len(w) - 1
       PROVE  w[i].to = w[i + 1].from
  <2>1. CASE i = 1
    <3>1. 1 \in 1 .. Len(rest) /\ rest # <<>>
      BY <1>4, <1>5, <1>7
    <3> QED
      BY <2>1, <3>1, <1>2, <1>6, <1>7
  <2>2. CASE i # 1
    <3>1. i - 1 \in 1 .. Len(rest) - 1 /\ w[i] = rest[i - 1] /\ w[i + 1] = rest[(i - 1) + 1]
      BY <2>2, <1>4, <1>5
    <3> QED
      BY <3>1, <1>7
  <2> QED
    BY <2>1, <2>2
<1>12. ASSUME NEW i \in 1 .. Len(w), NEW j \in 1 .. Len(w), i < j
       PROVE  w[i].from < w[j].from
  <2>1. j - 1 \in 1 .. Len(rest) /\ w[j] = rest[j - 1]
    BY <1>12, <1>4, <1>5
  <2>2. CASE i = 1
    <3>1. w[i].from = o
      BY <2>2, <1>9
    <3>2. e <= rest[j - 1].from /\ rest[j - 1].from \in Nat
      BY <2>1, <1>7
    <3> QED
      BY <2>1, <3>1, <3>2, <1>1, <1>0
  <2>3. CASE i # 1
    <3>1. i - 1 \in 1 .. Len(rest) /\ w[i] = rest[i - 1] /\ i - 1 < j - 1
      BY <2>3, <1>12, <1>4, <1>5
    <3> QED
      BY <2>1, <3>1, <1>7
  <2> QED
    BY <2>2, <2>3
<1> QED
  BY <1>5, <1>8, <1>9, <1>10, <1>11, <1>12, Zenon DEF Walked, w, x

LEMMA WalkOn ==
  ASSUME NEW buf, IsBuffer(buf), NEW f, f = WalkedBy(buf, f)
  PROVE  \A o \in 0 .. buf.len : Walked(buf, o, f[o])
<1> DEFINE W == {o \in 0 .. buf.len : ~Walked(buf, o, f[o])}
<1>0. buf.len \in Nat
  BY DEF IsBuffer
<1>1. SUFFICES ASSUME W # {} PROVE FALSE
  OBVIOUS
<1>2. PICK o \in W : \A v \in W : o >= v
  <2>1. W \in SUBSET (0 .. buf.len)
    OBVIOUS
  <2> HIDE DEF W
  <2> QED
    BY <2>1, <1>0, <1>1, GreatestOf
<1> DEFINE e == PduEnd(buf, o)
<1>3. o \in 0 .. buf.len /\ f[o] = WalkedBy(buf, f)[o]
  BY Zenon
<1>4. CASE ~HeaderAt(buf, o)
  <2>1. f[o] = <<>>
    BY <1>3, <1>4, Zenon DEF WalkedBy
  <2>2. Walked(buf, o, <<>>)
    BY <1>4, EmptySeq DEF Walked
  <2> QED
    BY <2>1, <2>2
<1>5. CASE HeaderAt(buf, o)
  <2>1. e \in 0 .. buf.len /\ o < e
    BY <1>5, <1>3, <1>0, EndIs
  <2>2. \E rest : Walked(buf, e, rest) /\ f[o] = Cat(<<Extent(buf, o)>>, rest)
    <3>1. CASE e = buf.len
      <4>1. f[o] = <<Extent(buf, o)>>
        BY <3>1, <1>3, <1>5, Zenon DEF WalkedBy
      <4>2. Cat(<<Extent(buf, o)>>, <<>>) = <<Extent(buf, o)>>
        <5>1. <<Extent(buf, o)>> \in Seq({Extent(buf, o)})
          OBVIOUS
        <5> QED
          BY <5>1, CatEmpty
      <4> QED
        BY <3>1, <4>1, <4>2, NothingAtEnd
    <3>2. CASE e # buf.len
      <4>1. f[o] = Cat(<<Extent(buf, o)>>, f[e])
        BY <3>2, <1>3, <1>5, Zenon DEF WalkedBy
      <4>2. e \notin W
        BY <2>1, <1>2, <1>3
      <4> QED
        BY <2>1, <4>1, <4>2
    <3> QED
      BY <3>1, <3>2
  <2> QED
    BY <1>3, <1>5, <2>2, OneMore, Zenon
<1> QED
  BY <1>4, <1>5

LEMMA ExtentsAre == ASSUME NEW buf, IsBuffer(buf) PROVE Walked(buf, 0, pdu_extents(buf))
<1> DEFINE f == CHOOSE g : g = WalkedBy(buf, g)
<1>1. f = WalkedBy(buf, f)
  BY WalkExists
<1>2. pdu_extents(buf) = f[0]
  BY Zenon DEF pdu_extents, WalkedBy, Cat, Extent
<1>3. 0 \in 0 .. buf.len
  BY DEF IsBuffer
<1> HIDE DEF f
<1> QED
  BY <1>1, <1>2, <1>3, WalkOn

\* Where a walk has come to a header it has another extent, the one from there.
LEMMA NextExtent ==
  ASSUME NEW buf, IsBuffer(buf), NEW w, Walked(buf, 0, w), w # <<>>,
         NEW k \in Nat, k <= Len(w),
         NEW o, o = IF k = 0 THEN 0 ELSE w[k].to, HeaderAt(buf, o)
  PROVE  k + 1 <= Len(w) /\ w[k + 1] = Extent(buf, o)
<1>1. w \in Seq(Extents(buf)) /\ Len(w) \in Nat /\ Len(w) > 0
  BY LenProperties, EmptySeq DEF Walked
<1>2. k # Len(w)
  BY <1>1 DEF Walked
<1>3. k + 1 \in 1 .. Len(w)
  BY <1>1, <1>2
<1>4. w[k + 1].from = o
  <2>1. CASE k = 0
    BY <2>1 DEF Walked
  <2>2. CASE k # 0
    <3>1. k \in 1 .. Len(w) - 1
      BY <2>2, <1>1, <1>3
    <3> QED
      BY <2>2, <3>1 DEF Walked
  <2> QED
    BY <2>1, <2>2
<1>5. w[k + 1].to = PduEnd(buf, o)
  BY <1>3, <1>4 DEF Walked
<1>6. w[k + 1] \in Extents(buf)
  BY <1>1, <1>3
<1>7. \A y \in Extents(buf) : y = [from |-> y.from, to |-> y.to]
  BY DEF Extents
<1> QED
  BY <1>3, <1>4, <1>5, <1>6, <1>7 DEF Extent

\* The two walks over the requests agree on where one ends.
LEMMA EndsAgree ==
  ASSUME NEW buf, IsBuffer(buf), NEW o, HeaderAt(buf, o), RequestEnd(buf, o) # 0
  PROVE  RequestEnd(buf, o) = PduEnd(buf, o) /\ RequestEnd(buf, o) \in Nat
BY Lengths DEF IsBuffer, HeaderAt, RequestEnd, PduEnd

-----------------------------------------------------------------------------
(* Chain: the responses.                                                   *)

\* Responses begin at those places of a buffer, and a walk goes from each to the
\* next one or to the end.
Built(buf, starts) ==
  /\ buf = [smb |-> buf.smb, len |-> buf.len, at |-> buf.at]
  /\ IsBuffer(buf) /\ DOMAIN buf.at = starts /\ IsFiniteSet(starts)
  /\ IF starts = {} THEN buf.len = 0 ELSE 0 \in starts
  /\ \A o \in starts : /\ o % ResponseAlign = 0 /\ o + HeaderLen <= buf.len
                       /\ PduEnd(buf, o) \in starts \union {buf.len}
                       /\ \A b \in starts : o < b => PduEnd(buf, o) <= b

\* Each is linked to the one that follows, or will.
Linked(buf) ==
  /\ buf.len % ResponseAlign = 0
  /\ \A o \in DOMAIN buf.at :
       HeaderLen <= buf.at[o].next /\ o + buf.at[o].next <= buf.len

LEMMA Aligned ==
  ASSUME NEW n \in Nat
  PROVE  AlignUp(n) \in Nat /\ n <= AlignUp(n) /\ AlignUp(n) % ResponseAlign = 0
<1> DEFINE q == (n + ResponseAlign - 1) \div ResponseAlign
<1>1. AlignUp(n) \in Nat /\ n <= AlignUp(n)
  BY Lengths, SMTT(30) DEF AlignUp
<1>2. q \in Nat
  BY Lengths
<1>3. \A m \in Nat : (m * ResponseAlign) % ResponseAlign = 0
  BY Lengths, SMTT(30)
<1>4. AlignUp(n) = q * ResponseAlign
  BY DEF AlignUp
<1> HIDE DEF q
<1> QED
  BY <1>1, <1>2, <1>3, <1>4

LEMMA EmptyBuilt == Built(Empty, {}) /\ Linked(Empty) /\ IsBuffer(Empty)
<1>1. DOMAIN Empty.at = {} /\ Empty.len = 0
  BY DEF Empty
<1>2. 0 % ResponseAlign = 0
  BY Lengths
<1>3. Empty = [smb |-> Empty.smb, len |-> Empty.len, at |-> Empty.at]
  BY DEF Empty
<1>4. IsBuffer(Empty) /\ Linked(Empty)
  BY <1>1, <1>2 DEF Linked, IsBuffer
<1> QED
  BY <1>1, <1>3, <1>4, FS_EmptySet, Zenon DEF Built

LEMMA OneResponse ==
  ASSUME NEW buf, NEW starts, Built(buf, starts), Linked(buf), NEW body \in Nat
  PROVE  /\ Built(Append1(buf, body), starts \union {buf.len})
         /\ Append1(buf, body).len > buf.len /\ buf.len \notin starts
         /\ Append1(buf, body).len >= buf.len + HeaderLen
<1> DEFINE one == Append1(buf, body)
           more == starts \union {buf.len}
<1>0. /\ buf.len \in Nat /\ DOMAIN buf.at = starts
      /\ \A o \in starts : o \in Nat /\ buf.at[o].next \in Nat
      /\ \A o \in starts : o + HeaderLen <= buf.len
      /\ \A o \in starts : HeaderLen <= buf.at[o].next /\ o + buf.at[o].next <= buf.len
  BY DEF Built, Linked, IsBuffer
<1>1. /\ one.len = buf.len + HeaderLen + body /\ DOMAIN one.at = more
      /\ one.at[buf.len].next = 0
      /\ \A o \in starts : o # buf.len => one.at[o] = buf.at[o]
  <2>1. /\ one.len = buf.len + HeaderLen + body
        /\ one.at = [o \in DOMAIN buf.at \cup {buf.len} |->
                       IF o = buf.len THEN [next |-> 0, command |-> "response", covers |-> 0]
                       ELSE buf.at[o]]
    BY DEF Append1
  <2> HIDE DEF one
  <2> QED
    BY <2>1, <1>0
<1> HIDE DEF one
<1>2. buf.len \notin starts
  BY <1>0, Lengths
<1>3. one.len \in Nat /\ one.len > buf.len /\ one.len >= buf.len + HeaderLen
  BY <1>0, <1>1, Lengths
<1>4. IsBuffer(one)
  <2>1. \A o \in more : o \in Nat /\ one.at[o].next \in Nat
    BY <1>0, <1>1, <1>2
  <2> QED
    BY <2>1, <1>1, <1>3 DEF IsBuffer
<1>5. \A o \in starts : PduEnd(one, o) = PduEnd(buf, o) /\ PduEnd(buf, o) <= buf.len
  <2> TAKE o \in starts
  <2>1. one.at[o].next = buf.at[o].next
    BY <1>1, <1>2
  <2> QED
    BY <2>1, <1>0, <1>1, Lengths DEF PduEnd
<1>6. PduEnd(one, buf.len) = one.len
  BY <1>1 DEF PduEnd
<1>7. ASSUME NEW o \in more
      PROVE  /\ o % ResponseAlign = 0 /\ o + HeaderLen <= one.len
             /\ PduEnd(one, o) \in more \union {one.len}
             /\ \A b \in more : o < b => PduEnd(one, o) <= b
  <2>1. CASE o = buf.len
    <3>1. \A b \in more : ~(o < b)
      BY <2>1, <1>0, Lengths
    <3> QED
      BY <2>1, <3>1, <1>3, <1>6 DEF Linked
  <2>2. CASE o \in starts
    <3>1. PduEnd(one, o) \in more
      BY <2>2, <1>5 DEF Built
    <3>2. \A b \in more : o < b => PduEnd(one, o) <= b
      BY <2>2, <1>5 DEF Built
    <3>3. o + HeaderLen <= one.len
      BY <2>2, <1>0, <1>3, Lengths
    <3> QED
      BY <2>2, <3>1, <3>2, <3>3 DEF Built
  <2> QED
    BY <2>1, <2>2
<1>8. IsFiniteSet(more) /\ 0 \in more
  BY FS_AddElement DEF Built
<1>9. one = [smb |-> one.smb, len |-> one.len, at |-> one.at]
  <2>1. buf = [smb |-> buf.smb, len |-> buf.len, at |-> buf.at]
    BY DEF Built
  <2> DEFINE at == [o \in DOMAIN buf.at \cup {buf.len} |->
                     IF o = buf.len THEN [next |-> 0, command |-> "response", covers |-> 0]
                     ELSE buf.at[o]]
  <2>2. one = [buf EXCEPT !.len = buf.len + HeaderLen + body, !.at = at]
    BY DEF one, Append1
  <2> HIDE DEF at, one
  <2>3. one = [smb |-> buf.smb, len |-> buf.len + HeaderLen + body, at |-> at]
    BY <2>1, <2>2
  <2> QED
    BY <2>3
<1> QED
  BY <1>1, <1>2, <1>3, <1>4, <1>7, <1>8, <1>9 DEF Built, one

LEMMA LinkedOn ==
  ASSUME NEW buf, NEW starts, Built(buf, starts), Linked(buf), NEW body \in Nat,
         NEW linked, linked = Link(Append1(buf, body), buf.len)
  PROVE  Built(linked, starts \union {buf.len}) /\ Linked(linked)
<1> DEFINE one == Append1(buf, body)
           more == starts \union {buf.len}
           p == buf.len
<1>0. /\ p \in Nat /\ DOMAIN buf.at = starts
      /\ \A o \in starts : o \in Nat /\ buf.at[o].next \in Nat
      /\ \A o \in starts : HeaderLen <= buf.at[o].next /\ o + buf.at[o].next <= p
  BY DEF Built, Linked, IsBuffer
<1>1. Built(one, more) /\ one.len > p /\ p \notin starts /\ one.len >= p + HeaderLen
  BY OneResponse
<1>2. \A o \in starts : one.at[o] = buf.at[o]
  BY <1>0, <1>1 DEF Append1
<1>3. linked.len = AlignUp(one.len) /\ linked.at = [one.at EXCEPT ![p].next = AlignUp(one.len) - p]
  BY DEF Link
<1>4. one.len \in Nat /\ IsBuffer(one) /\ DOMAIN one.at = more
  BY <1>1 DEF Built, IsBuffer
<1> HIDE DEF one
<1> DEFINE e == AlignUp(one.len)
<1>5. e \in Nat /\ one.len <= e /\ e % ResponseAlign = 0
  BY <1>4, Aligned
<1> HIDE DEF e
<1>6. /\ DOMAIN linked.at = more /\ linked.len = e /\ linked.at[p].next = e - p
      /\ \A o \in starts : linked.at[o] = buf.at[o]
  <2>1. linked.len = e /\ linked.at = [one.at EXCEPT ![p].next = e - p]
    BY <1>3 DEF e
  <2> QED
    BY <2>1, <1>1, <1>2, <1>4
<1>7. e - p \in Nat /\ HeaderLen <= e - p /\ p + (e - p) = e
  BY <1>0, <1>1, <1>4, <1>5, Lengths
<1>8. IsBuffer(linked)
  <2>1. \A o \in more : o \in Nat /\ linked.at[o].next \in Nat
    BY <1>0, <1>6, <1>7
  <2> QED
    BY <2>1, <1>5, <1>6 DEF IsBuffer
<1>9. Linked(linked)
  <2>1. \A o \in starts : HeaderLen <= linked.at[o].next /\ o + linked.at[o].next <= e
    <3> TAKE o \in starts
    <3>1. linked.at[o].next = buf.at[o].next
      BY <1>6
    <3> QED
      BY <3>1, <1>0, <1>1, <1>4, <1>5
  <2> QED
    BY <2>1, <1>5, <1>6, <1>7 DEF Linked
<1>10. \A o \in starts : PduEnd(linked, o) = PduEnd(buf, o) /\ PduEnd(buf, o) <= p
  <2> TAKE o \in starts
  <2>1. linked.at[o].next = buf.at[o].next
    BY <1>6
  <2>2. p <= e
    BY <1>0, <1>1, <1>4, <1>5
  <2> QED
    BY <2>1, <2>2, <1>0, <1>5, <1>6, Lengths DEF PduEnd
<1>11. PduEnd(linked, p) = e
  BY <1>0, <1>5, <1>6, <1>7, Lengths DEF PduEnd
<1>12. ASSUME NEW o \in more
       PROVE  /\ o % ResponseAlign = 0 /\ o + HeaderLen <= e
              /\ PduEnd(linked, o) \in more \union {e}
              /\ \A b \in more : o < b => PduEnd(linked, o) <= b
  <2>1. \A b \in starts : b + HeaderLen <= p
    BY DEF Built
  <2>2. CASE o = p
    <3>1. \A b \in more : ~(o < b)
      BY <2>1, <2>2, <1>0, Lengths
    <3>2. o + HeaderLen <= e
      BY <2>2, <1>0, <1>5, <1>7, Lengths
    <3> QED
      BY <2>2, <3>1, <3>2, <1>11 DEF Linked
  <2>3. CASE o \in starts
    <3>1. PduEnd(linked, o) \in more
      BY <2>3, <1>10 DEF Built
    <3>2. \A b \in more : o < b => PduEnd(linked, o) <= b
      BY <2>3, <1>10 DEF Built
    <3>3. o + HeaderLen <= e
      BY <2>1, <2>3, <1>0, <1>1, <1>4, <1>5, Lengths
    <3> QED
      BY <2>3, <3>1, <3>2, <3>3 DEF Built
  <2> QED
    BY <2>2, <2>3
<1>13. IsFiniteSet(more) /\ 0 \in more
  BY FS_AddElement DEF Built
<1>14. linked = [smb |-> linked.smb, len |-> linked.len, at |-> linked.at]
  <2>1. /\ one = [smb |-> one.smb, len |-> one.len, at |-> one.at]
        /\ linked = [one EXCEPT !.len = e, !.at[p].next = e - p]
    BY <1>1 DEF Built, Link, e, one
  <2>2. linked = [smb |-> one.smb, len |-> e, at |-> [one.at EXCEPT ![p].next = e - p]]
    BY <2>1
  <2> QED
    BY <2>2
<1> QED
  BY <1>6, <1>8, <1>9, <1>12, <1>13, <1>14 DEF Built

-----------------------------------------------------------------------------
(* Chain: the answer that goes out.                                        *)

\* The signatures of a chain of responses are over its extents.
SignedWhole(buf, starts, w) ==
  /\ {w[i].from : i \in DOMAIN w} = starts
  /\ Len(w) = Cardinality(starts)
  /\ w[1].from = 0 /\ w[Len(w)].to = buf.len
  /\ \A i \in 1 .. Len(w) - 1 : w[i].to = w[i + 1].from

LEMMA AllSigned ==
  ASSUME NEW buf, NEW starts, Built(buf, starts), buf.len > 0
  PROVE  SignedWhole(buf, starts, pdu_extents(buf))
<1> DEFINE w == pdu_extents(buf)
           n == Len(w)
<1>1. IsBuffer(buf) /\ Walked(buf, 0, w)
  BY ExtentsAre DEF Built
<1> HIDE DEF w
<1>2. w \in Seq(Extents(buf)) /\ n \in Nat /\ DOMAIN w = 1 .. n
  BY <1>1, LenProperties DEF Walked
<1>3. /\ buf.len \in Nat /\ 0 \in starts /\ DOMAIN buf.at = starts
      /\ \A o \in starts : o \in Nat /\ o + HeaderLen <= buf.len /\ o < buf.len
  BY Lengths DEF Built, IsBuffer
<1>4. w # <<>> /\ n > 0
  <2>1. HeaderAt(buf, 0)
    BY <1>3 DEF HeaderAt
  <2> QED
    BY <2>1, <1>1, <1>2, EmptySeq DEF Walked
<1>5. /\ w[1].from = 0
      /\ \A i \in 1 .. n : w[i].from \in starts /\ w[i].to = PduEnd(buf, w[i].from)
      /\ \A i \in 1 .. n - 1 : w[i].to = w[i + 1].from
      /\ \A i, j \in 1 .. n : i < j => w[i].from < w[j].from
      /\ ~HeaderAt(buf, w[n].to)
  BY <1>1, <1>3, <1>4 DEF Walked, HeaderAt
<1>6. w[n].to = buf.len
  <2>1. n \in 1 .. n
    BY <1>2, <1>4
  <2>2. w[n].to \in starts \union {buf.len}
    BY <2>1, <1>5 DEF Built
  <2>3. \A o \in starts : HeaderAt(buf, o)
    BY <1>3 DEF HeaderAt
  <2> QED
    BY <2>2, <2>3, <1>5
<1>7. ASSUME NEW b \in starts
      PROVE  \E i \in 1 .. n : w[i].from = b
  <2> DEFINE W == {i \in 1 .. n : w[i].from <= b}
  <2>1. 1 \in W
    BY <1>2, <1>3, <1>4, <1>5
  <2>2. PICK i \in W : \A j \in W : i >= j
    <3>1. W \in SUBSET (0 .. n) /\ W # {}
      BY <1>2, <2>1
    <3> HIDE DEF W
    <3> QED
      BY <3>1, <1>2, GreatestOf
  <2>3. i \in 1 .. n /\ w[i].from <= b /\ w[i].from \in Nat /\ b \in Nat /\ w[i].from \in starts
    BY <1>3, <1>5
  <2>4. SUFFICES ASSUME w[i].from < b PROVE FALSE
    BY <2>3
  <2>5. w[i].to <= b
    BY <2>3, <2>4, <1>5 DEF Built
  <2>6. i # n
    BY <2>5, <2>3, <1>3, <1>6
  <2>7. i \in 1 .. n - 1 /\ i + 1 \in 1 .. n
    BY <2>3, <2>6, <1>2
  <2>8. w[i + 1].from <= b
    BY <2>5, <2>7, <1>5
  <2> QED
    BY <2>2, <2>3, <2>7, <2>8
<1>8. {w[i].from : i \in DOMAIN w} = starts
  BY <1>2, <1>5, <1>7
<1>9. n = Cardinality(starts)
  <2> DEFINE f == [i \in 1 .. n |-> w[i].from]
  <2>1. f \in Surjection(1 .. n, starts)
    BY <1>5, <1>7 DEF Surjection
  <2>2. f \in Injection(1 .. n, starts)
    <3>1. f \in [1 .. n -> starts]
      BY <1>5
    <3>2. \A i, j \in 1 .. n : f[i] = f[j] => i = j
      <4>1. \A i, j \in 1 .. n : w[i].from \in Nat /\ w[j].from \in Nat /\ (i # j => i < j \/ j < i)
        BY <1>2, <1>3, <1>5
      <4>2. \A i, j \in 1 .. n : i < j => w[i].from # w[j].from
        BY <1>3, <1>5
      <4> QED
        BY <4>1, <4>2
    <3> HIDE DEF f
    <3> QED
      BY <3>1, <3>2 DEF Injection, IsInjective
  <2>3. ExistsBijection(1 .. n, starts)
    BY <2>1, <2>2 DEF ExistsBijection, Bijection
  <2> QED
    BY <2>3, <1>2, FS_CountingElements
<1> QED
  BY <1>4, <1>5, <1>6, <1>8, <1>9 DEF SignedWhole, w

-----------------------------------------------------------------------------
(* Chain: the invariant.                                                   *)

Ends == [from : Nat, to : Nat]

\* What was verified is the message at hand, and what has run is the first of it.
RanSoFar ==
  checked # <<>> =>
    /\ checked = pdu_extents(message) /\ verify(message)
    /\ Len(ran) <= Len(checked)
    /\ \A i \in 1 .. Len(ran) : ran[i] = checked[i]

\* Between two requests the walk stands behind the one that has run, and the
\* responses wait for another.
AtRequest ==
  /\ offset = IF ran = <<>> THEN 0 ELSE ran[Len(ran)].to
  /\ ran # <<>> => offset # 0 /\ message.at[0].next # 0
  /\ Linked(out)
  /\ Cardinality(begun) = Len(ran)

\* A message that is a CANCEL and nothing else.
CancelOnly == ran # <<>> /\ message.at[0].command = "cancel" /\ message.at[0].next = 0

ChainInv ==
  /\ IsBuffer(message)
  /\ Built(out, begun)
  /\ ran \in Seq(Ends)
  /\ RanSoFar
  /\ stage = "idle" => /\ offset = 0 /\ out = Empty /\ checked = <<>>
                       /\ ran = <<>> /\ begun = {}
  /\ stage = "verified" => AtRequest
  /\ stage \in {"answered", "sent"} /\ message.smb = "2" =>
       Cardinality(begun) = IF CancelOnly THEN 0 ELSE Len(ran)
  /\ stage = "sent" /\ keyed /\ out.len > 0 => signed = pdu_extents(out)

LEMMA ChainInitInv == ChainInit => ChainInv
<1> SUFFICES ASSUME ChainInit PROVE ChainInv
  OBVIOUS
<1>1. IsBuffer(message) /\ Built(out, begun)
  BY EmptyBuilt DEF ChainInit
<1>2. ran \in Seq(Ends)
  BY EmptySeq DEF ChainInit
<1> QED
  BY <1>1, <1>2 DEF ChainInit, ChainInv, RanSoFar

LEMMA ReceiveKeeps == ASSUME ChainInv, Receive PROVE ChainInv'
<1>1. PICK m \in Messages :
        /\ message' = m
        /\ stage' = IF keyed /\ ~verify(m) THEN "dropped" ELSE "verified"
        /\ checked' = IF keyed /\ verify(m) THEN pdu_extents(m) ELSE <<>>
  BY DEF Receive
<1>2. /\ stage = "idle" /\ keyed' = keyed /\ offset' = offset /\ out' = out /\ ran' = ran
      /\ begun' = begun /\ signed' = signed
  BY DEF Receive
<1>3. /\ offset = 0 /\ out = Empty /\ ran = <<>> /\ begun = {}
  BY <1>2 DEF ChainInv
<1>4. IsBuffer(message')
  BY <1>1, MessagesAssumption DEF IsBuffer
<1>5. Built(out', begun') /\ ran' \in Seq(Ends)
  BY <1>2 DEF ChainInv
<1>6. RanSoFar'
  <2>1. CASE keyed /\ verify(m)
    <3>1. checked' = pdu_extents(message') /\ verify(message')
      BY <1>1, <2>1
    <3>2. pdu_extents(m) \in Seq(Extents(m))
      BY <1>1, <1>4, ExtentsAre DEF Walked
    <3>3. Len(ran') = 0 /\ Len(checked') \in Nat
      BY <1>1, <1>2, <1>3, <3>1, <3>2, LenProperties
    <3> QED
      BY <3>1, <3>3 DEF RanSoFar
  <2>2. CASE ~(keyed /\ verify(m))
    BY <1>1, <2>2 DEF RanSoFar
  <2> QED
    BY <2>1, <2>2
<1>7. AtRequest'
  <2>1. Linked(out') /\ Cardinality(begun') = 0 /\ Len(ran') = 0
    BY <1>2, <1>3, EmptyBuilt, FS_EmptySet
  <2> QED
    BY <2>1, <1>2, <1>3 DEF AtRequest
<1> QED
  BY <1>1, <1>4, <1>5, <1>6, <1>7 DEF ChainInv

LEMMA AnswerOldKeeps == ASSUME ChainInv, AnswerOld PROVE ChainInv'
<1>1. /\ stage = "verified" /\ message.smb # "2" /\ stage' = "answered"
      /\ keyed' = keyed /\ message' = message /\ offset' = offset /\ checked' = checked
      /\ ran' = ran /\ signed' = signed /\ out' = Append1(Empty, 1) /\ begun' = {0}
  BY DEF AnswerOld
<1>2. Built(out', begun')
  <2>1. Built(Append1(Empty, 1), {} \union {Empty.len})
    BY EmptyBuilt, OneResponse
  <2>2. {} \union {Empty.len} = {0}
    BY DEF Empty
  <2> QED
    BY <1>1, <2>1, <2>2
<1>3. RanSoFar'
  BY <1>1 DEF ChainInv, RanSoFar
<1> QED
  BY <1>1, <1>2, <1>3 DEF ChainInv

LEMMA DropKeeps == ASSUME ChainInv, Unparseable PROVE ChainInv'
<1>1. /\ stage' = "dropped"
      /\ keyed' = keyed /\ message' = message /\ offset' = offset /\ out' = out
      /\ checked' = checked /\ ran' = ran /\ begun' = begun /\ signed' = signed
  BY DEF Unparseable, Drop
<1>2. RanSoFar'
  BY <1>1 DEF ChainInv, RanSoFar
<1> QED
  BY <1>1, <1>2 DEF ChainInv

LEMMA SendKeeps == ASSUME ChainInv, Send PROVE ChainInv'
<1>1. /\ stage = "answered" /\ stage' = "sent"
      /\ keyed' = keyed /\ message' = message /\ offset' = offset /\ out' = out
      /\ checked' = checked /\ ran' = ran /\ begun' = begun
      /\ signed' = IF keyed /\ out.len > 0 THEN pdu_extents(out) ELSE <<>>
  BY DEF Send
<1>2. RanSoFar' /\ CancelOnly' = CancelOnly
  BY <1>1 DEF ChainInv, RanSoFar, CancelOnly
<1> QED
  BY <1>1, <1>2 DEF ChainInv

LEMMA NextMessageKeeps == ASSUME ChainInv, NextMessage PROVE ChainInv'
<1>1. /\ stage' = "idle" /\ message' = Empty /\ offset' = 0 /\ out' = Empty
      /\ checked' = <<>> /\ ran' = <<>> /\ begun' = {}
  BY DEF NextMessage
<1>2. IsBuffer(message') /\ Built(out', begun') /\ ran' \in Seq(Ends)
  BY <1>1, EmptyBuilt, EmptySeq
<1>3. RanSoFar'
  BY <1>1 DEF RanSoFar
<1> QED
  BY <1>1, <1>2, <1>3 DEF ChainInv

\* What a request that runs adds to ran is the next of what was verified.
LEMMA RunsTheNext ==
  ASSUME ChainInv, stage = "verified", HeaderAt(message, offset),
         RequestEnd(message, offset) # 0,
         NEW e, e = [from |-> offset, to |-> RequestEnd(message, offset)],
         message' = message, checked' = checked, ran' = Append(ran, e)
  PROVE  /\ ran' \in Seq(Ends) /\ Len(ran') = Len(ran) + 1 /\ ran' # <<>>
         /\ ran'[Len(ran')] = e /\ RanSoFar' /\ Len(ran) \in Nat
         /\ RequestEnd(message, offset) \in Nat
<1>1. /\ RequestEnd(message, offset) = PduEnd(message, offset)
      /\ RequestEnd(message, offset) \in Nat
  BY EndsAgree DEF ChainInv
<1>2. offset \in Nat
  BY DEF ChainInv, IsBuffer, HeaderAt
<1>3. e \in Ends
  BY <1>1, <1>2 DEF Ends
<1>4. ran \in Seq(Ends) /\ Len(ran) \in Nat /\ (ran = <<>> <=> Len(ran) = 0)
  BY LenProperties, EmptySeq DEF ChainInv
<1>5. /\ ran' \in Seq(Ends) /\ Len(ran') = Len(ran) + 1 /\ ran'[Len(ran) + 1] = e
      /\ \A i \in 1 .. Len(ran) : ran'[i] = ran[i]
  BY <1>3, <1>4, AppendProperties
<1>6. ran' # <<>>
  BY <1>4, <1>5, EmptySeq
<1>7. RanSoFar'
  <2> SUFFICES ASSUME checked # <<>>
      PROVE  /\ checked = pdu_extents(message) /\ verify(message)
             /\ Len(ran') <= Len(checked)
             /\ \A i \in 1 .. Len(ran') : ran'[i] = checked[i]
    BY <1>5 DEF RanSoFar
  <2>1. /\ checked = pdu_extents(message) /\ verify(message)
        /\ Len(ran) <= Len(checked)
        /\ \A i \in 1 .. Len(ran) : ran[i] = checked[i]
    BY DEF ChainInv, RanSoFar
  <2>2. Walked(message, 0, checked)
    BY <2>1, ExtentsAre DEF ChainInv
  <2>3. offset = IF Len(ran) = 0 THEN 0 ELSE checked[Len(ran)].to
    BY <2>1, <1>4 DEF ChainInv, AtRequest
  <2>4. Len(ran) + 1 <= Len(checked) /\ checked[Len(ran) + 1] = Extent(message, offset)
    BY <2>1, <2>2, <2>3, <1>4, NextExtent DEF ChainInv
  <2>5. checked[Len(ran) + 1] = e
    BY <2>4, <1>1 DEF Extent
  <2> QED
    BY <2>1, <2>4, <2>5, <1>4, <1>5
<1> QED
  BY <1>1, <1>4, <1>5, <1>6, <1>7

LEMMA RunKeeps == ASSUME ChainInv, RunRequest PROVE ChainInv'
<1> DEFINE header == message.at[offset]
           end == RequestEnd(message, offset)
           only == offset = 0 /\ header.next = 0
           e == [from |-> offset, to |-> end]
<1>1. /\ stage = "verified" /\ message.smb = "2" /\ HeaderAt(message, offset)
      /\ end # 0 /\ ran' = Append(ran, e)
      /\ message' = message /\ checked' = checked /\ signed' = signed
  BY DEF RunRequest
<1>2. PICK body \in Bodies :
        LET one == IF header.command = "cancel" /\ only THEN out ELSE Append1(out, body)
        IN /\ begun' = IF one = out THEN begun ELSE begun \cup {out.len}
           /\ \/ /\ header.next = 0
                 /\ out' = one /\ stage' = "answered" /\ UNCHANGED offset
              \/ /\ header.next # 0 /\ one.len > MAX_COMPOUND_RESPONSE
                 /\ out' = one /\ stage' = "dropped" /\ UNCHANGED offset
              \/ /\ header.next # 0 /\ one.len <= MAX_COMPOUND_RESPONSE
                 /\ out' = Link(one, out.len)
                 /\ offset' = end
                 /\ stage' = IF end >= message.len THEN "answered" ELSE "verified"
  BY DEF RunRequest
<1>3. /\ ran' \in Seq(Ends) /\ Len(ran') = Len(ran) + 1 /\ ran' # <<>>
      /\ ran'[Len(ran')] = e /\ RanSoFar' /\ Len(ran) \in Nat /\ end \in Nat
  BY <1>1, RunsTheNext
<1>4. /\ AtRequest /\ Built(out, begun) /\ Linked(out)
      /\ offset = IF ran = <<>> THEN 0 ELSE ran[Len(ran)].to
      /\ ran # <<>> => offset # 0 /\ message.at[0].next # 0
      /\ Cardinality(begun) = Len(ran)
      /\ ran = <<>> <=> Len(ran) = 0
  BY <1>1, EmptySeq DEF ChainInv, AtRequest
<1>5. IsBuffer(message')
  BY <1>1 DEF ChainInv
<1>6. CASE header.command = "cancel" /\ only
  <2>1. out' = out /\ begun' = begun /\ stage' = "answered"
    BY <1>2, <1>6
  <2>2. ran = <<>> /\ Cardinality(begun) = 0
    BY <1>4, <1>6
  <2>3. CancelOnly'
    BY <1>1, <1>3, <1>6 DEF CancelOnly
  <2> QED
    BY <2>1, <2>2, <2>3, <1>1, <1>3, <1>4, <1>5 DEF ChainInv
<1>7. CASE ~(header.command = "cancel" /\ only)
  <2> DEFINE one == Append1(out, body)
             more == begun \cup {out.len}
             linked == Link(one, out.len)
  <2>1. body \in Nat
    BY Lengths
  <2>2. Built(one, more) /\ one.len > out.len /\ out.len \notin begun
    BY <2>1, <1>4, OneResponse
  <2>3. Built(linked, more) /\ Linked(linked)
    BY <2>1, <1>4, LinkedOn
  <2>4. one # out
    <3>1. out.len \in Nat
      BY <1>4 DEF Built, IsBuffer
    <3> HIDE DEF one
    <3> QED
      BY <2>2, <3>1
  <2>5. /\ begun' = more
        /\ \/ header.next = 0 /\ out' = one /\ stage' = "answered"
           \/ header.next # 0 /\ out' = one /\ stage' = "dropped"
           \/ /\ header.next # 0 /\ out' = linked /\ offset' = end
              /\ stage' = IF end >= message.len THEN "answered" ELSE "verified"
    BY <1>2, <1>7, <2>4
  <2>6. Cardinality(more) = Len(ran')
    BY <2>2, <1>3, <1>4, FS_AddElement DEF Built
  <2>7. ~CancelOnly'
    <3>1. CASE ran = <<>>
      BY <3>1, <1>1, <1>4, <1>7 DEF CancelOnly
    <3>2. CASE ran # <<>>
      BY <3>2, <1>1, <1>4 DEF CancelOnly
    <3> QED
      BY <3>1, <3>2
  <2> HIDE DEF one, more, linked
  <2>8. Built(out', begun')
    BY <2>2, <2>3, <2>5
  <2>9. stage' = "verified" => AtRequest'
    <3> SUFFICES ASSUME stage' = "verified" PROVE AtRequest'
      OBVIOUS
    <3>1. header.next # 0 /\ out' = linked /\ offset' = end
      BY <2>5
    <3>2. message.at[0].next # 0
      BY <3>1, <1>4
    <3>3. offset' = ran'[Len(ran')].to
      BY <3>1, <1>3
    <3> QED
      BY <3>1, <3>2, <3>3, <2>3, <2>5, <2>6, <1>1, <1>3, Zenon DEF AtRequest
  <2>10. stage' # "idle" /\ stage' # "sent"
    BY <2>5
  <2> QED
    BY <2>5, <2>6, <2>7, <2>8, <2>9, <2>10, <1>1, <1>3, <1>5, Zenon DEF ChainInv
<1> QED
  BY <1>6, <1>7

LEMMA ChainStep == ASSUME ChainInv, [ChainNext]_chainVars PROVE ChainInv'
<1>1. CASE UNCHANGED chainVars
  <2>1. /\ stage' = stage /\ keyed' = keyed /\ message' = message /\ offset' = offset
        /\ out' = out /\ checked' = checked /\ ran' = ran /\ begun' = begun
        /\ signed' = signed
    BY <1>1 DEF chainVars
  <2> QED
    BY <2>1, Zenon DEF ChainInv, RanSoFar, AtRequest, CancelOnly
<1> QED
  BY <1>1, ReceiveKeeps, AnswerOldKeeps, DropKeeps, RunKeeps, SendKeeps, NextMessageKeeps
     DEF ChainNext

LEMMA ChainInvariant == ChainSpec => []ChainInv
BY ChainInitInv, ChainStep, PTL DEF ChainSpec

\* What verify passed is signed.
LEMMA RanIsSigned == ChainInv => RanAsVerified
<1> SUFFICES ASSUME ChainInv, checked # <<>>
    PROVE  /\ Len(ran) <= Len(checked)
           /\ \A i \in DOMAIN ran : ran[i] = checked[i] /\ Passes(message, ran[i])
  BY DEF RanAsVerified
<1>1. /\ checked = pdu_extents(message) /\ verify(message)
      /\ Len(ran) <= Len(checked) /\ \A i \in 1 .. Len(ran) : ran[i] = checked[i]
  BY DEF ChainInv, RanSoFar
<1>2. checked \in Seq(Extents(message)) /\ ran \in Seq(Ends)
  BY <1>1, ExtentsAre DEF ChainInv, Walked
<1>3. /\ DOMAIN ran = 1 .. Len(ran) /\ DOMAIN checked = 1 .. Len(checked)
      /\ Len(ran) \in Nat /\ Len(checked) \in Nat
  BY <1>2, LenProperties
<1>4. \A i \in DOMAIN checked : Passes(message, checked[i])
  BY <1>1 DEF verify
<1>5. \A i \in DOMAIN ran : i \in 1 .. Len(ran) /\ i \in DOMAIN checked
  BY <1>1, <1>3
<1> QED
  BY <1>1, <1>4, <1>5

LEMMA AnswerIsWhole == ChainInv => SentAsBuilt
<1> SUFFICES ASSUME ChainInv, stage = "sent"
    PROVE  /\ \A o \in begun : o % ResponseAlign = 0
           /\ message.smb = "2" => Cardinality(begun) = IF CancelOnly THEN 0 ELSE Len(ran)
           /\ keyed /\ out.len > 0 => SignedWhole(out, begun, signed)
  BY DEF SentAsBuilt, CancelOnly, SignedWhole
<1>1. Built(out, begun)
  BY DEF ChainInv
<1>2. keyed /\ out.len > 0 => SignedWhole(out, begun, signed)
  BY <1>1, AllSigned DEF ChainInv
<1> QED
  BY <1>1, <1>2 DEF ChainInv, Built

\* How far the walk is, as a type.
ChainTypes ==
  /\ stage \in {"idle", "verified", "answered", "sent", "dropped"} /\ keyed \in BOOLEAN
  /\ stage = "idle" <=> message = Empty
  /\ offset \in 0 .. message.len

LEMMA ChainTyped == ASSUME ChainInv, ChainTypes, [ChainNext]_chainVars PROVE ChainTypes'
<1> USE DEF ChainTypes
<1>1. Empty.len = 0 /\ \A m \in Messages : m.len \in Nat /\ m # Empty
  BY MessagesAssumption DEF Empty
<1>2. CASE Receive
  <2>1. message' \in Messages /\ stage' \in {"verified", "dropped"}
    BY <1>2 DEF Receive
  <2>2. offset' = 0 /\ keyed' = keyed
    BY <1>2 DEF Receive, ChainInv
  <2>3. message'.len \in Nat /\ message' # Empty
    BY <1>1, <2>1
  <2> QED
    BY <2>1, <2>2, <2>3
<1>3. CASE AnswerOld \/ Unparseable \/ Send \/ UNCHANGED chainVars
  <2>1. /\ message' = message /\ offset' = offset /\ keyed' = keyed
        /\ stage' = stage \/ (stage # "idle" /\ stage' \in {"answered", "dropped", "sent"})
    BY <1>3 DEF AnswerOld, Unparseable, Drop, Send, chainVars
  <2> QED
    BY <2>1
<1>4. CASE RunRequest
  <2> DEFINE end == RequestEnd(message, offset)
  <2>1. /\ message' = message /\ end # 0 /\ offset' \in {offset, end}
        /\ stage = "verified" /\ stage' \in {"verified", "answered", "dropped"}
    BY <1>4 DEF RunRequest
  <2>2. keyed' \in BOOLEAN
    BY <1>4, Zenon DEF RunRequest
  <2>3. end \in 0 .. message.len
    <3>1. HeaderAt(message, offset) /\ IsBuffer(message) /\ HeaderLen \in Nat
      BY <1>4, ChainAssumption DEF RunRequest, ChainInv
    <3>2. offset \in Nat /\ message.len \in Nat /\ message.at[offset].next \in Nat
      BY <3>1 DEF HeaderAt, IsBuffer
    <3> QED
      BY <2>1, <3>2 DEF RequestEnd
  <2> HIDE DEF end
  <2> QED
    BY <2>1, <2>2, <2>3
<1>5. CASE NextMessage
  BY <1>1, <1>5 DEF NextMessage
<1> QED
  BY <1>2, <1>3, <1>4, <1>5 DEF ChainNext

LEMMA ChainTypesHold == ChainSpec => []ChainTypes
<1>1. Empty.len = 0
  BY DEF Empty
<1>2. ASSUME ChainInit PROVE ChainTypes
  <2>1. stage = "idle" /\ keyed = FALSE /\ message = Empty /\ offset = 0
    BY <1>2 DEF ChainInit
  <2>2. offset \in 0 .. message.len
    BY <1>1, <2>1
  <2> QED
    BY <2>1, <2>2 DEF ChainTypes
<1> QED
  BY <1>2, ChainInvariant, ChainTyped, PTL DEF ChainSpec

\* verify, handle_message, sign: for any messages, whatever links they hold, a
\* request that runs after the signatures were checked is one whose own bytes were
\* signed, in its place; and an answer that is signed is signed response by
\* response, from its first byte to its last.
THEOREM ChainsAgree == ChainSpec => []WalksAgree
<1>1. ChainInv /\ ChainTypes => ChainTypeOK
  BY DEF ChainInv, ChainTypes, ChainTypeOK, Built
<1>2. ChainInv /\ ChainTypes => WalksAgree
  BY <1>1, RanIsSigned, AnswerIsWhole DEF WalksAgree
<1> QED
  BY <1>2, ChainInvariant, ChainTypesHold, PTL

-----------------------------------------------------------------------------
(* FileInfo: fields and where they are.                                    *)

\* s is n bytes, and the value of the field at offset o of s is v.
Buffer(s, n) == n \in Nat /\ s \in Seq({s[i] : i \in 1 .. n}) /\ Len(s) = n
Says(s, o, v) == o \in 0 .. Len(s) - 1 /\ s[o + 1][2] = v

\* Whatever the bytes are.
LEMMA BytesAre ==
  /\ \A s, n : Buffer(s, n) => \A S : (\A i \in 1 .. n : s[i] \in S) => s \in Seq(S)
  /\ \A S : \A s \in Seq(S) : Buffer(s, Len(s))
<1>1. ASSUME NEW s, NEW n, Buffer(s, n), NEW S, \A i \in 1 .. n : s[i] \in S
      PROVE  s \in Seq(S)
  <2>1. s \in [1 .. n -> {s[i] : i \in 1 .. n}] /\ n \in Nat
    BY <1>1, LenProperties DEF Buffer
  <2>2. s \in [1 .. n -> S]
    BY <1>1, <2>1
  <2> QED
    BY <2>1, <2>2, SeqFrom
<1>2. ASSUME NEW S, NEW s \in Seq(S)
      PROVE  Buffer(s, Len(s))
  <2>1. s \in [1 .. Len(s) -> S] /\ Len(s) \in Nat
    BY LenProperties
  <2>2. s \in [1 .. Len(s) -> {s[i] : i \in 1 .. Len(s)}]
    BY <2>1
  <2> QED
    BY <2>1, <2>2, SeqFrom DEF Buffer
<1> QED
  BY <1>1, <1>2

LEMMA FromRange == \A S : \A n \in Nat : \A s \in [1 .. n -> S] : Buffer(s, n)
<1> SUFFICES ASSUME NEW S, NEW n \in Nat, NEW s \in [1 .. n -> S] PROVE Buffer(s, n)
  OBVIOUS
<1>1. s \in Seq(S) /\ Len(s) = n
  BY SeqFrom
<1> QED
  BY <1>1, BytesAre

\* A field of that many bytes says its value where it begins.
LEMMA FieldIs ==
  \A name, v : \A w \in Nat \ {0} : Buffer(F(name, v, w), w) /\ Says(F(name, v, w), 0, v)
<1> SUFFICES ASSUME NEW name, NEW v, NEW w \in Nat \ {0}
             PROVE  Buffer(F(name, v, w), w) /\ Says(F(name, v, w), 0, v)
  OBVIOUS
<1> DEFINE S == {<< name, v, i >> : i \in 1 .. w}
<1>1. \A i \in 1 .. w : << name, v, i >> \in S
  OBVIOUS
<1>2. F(name, v, w) \in [1 .. w -> S]
  <2> HIDE DEF S
  <2> QED
    BY <1>1, Zenon DEF F
<1>3. Buffer(F(name, v, w), w)
  BY <1>2, FromRange
<1>4. F(name, v, w)[1] = << name, v, 1 >>
  <2>1. 1 \in 1 .. w
    OBVIOUS
  <2> QED
    BY <2>1, Zenon DEF F
<1>5. F(name, v, w)[0 + 1] = << name, v, 1 >> /\ << name, v, 1 >>[2] = v
  BY <1>4
<1>6. w \in Nat /\ 0 \in 0 .. w - 1
  OBVIOUS
<1> QED
  BY <1>3, <1>5, <1>6, Zenon DEF Buffer, Says

\* A string takes two bytes of each unit.
LEMMA TextIs == \A u \in Nat : Buffer(Text(u), 2 * u)
<1> SUFFICES ASSUME NEW u \in Nat PROVE Buffer(Text(u), 2 * u)
  OBVIOUS
<1> DEFINE T == {Text(u)[i] : i \in 1 .. 2 * u}
<1>1. 2 * u \in Nat
  OBVIOUS
<1>2. \A i \in 1 .. 2 * u : Text(u)[i] \in T
  OBVIOUS
<1>3. Text(u) = [i \in 1 .. 2 * u |-> Text(u)[i]]
  BY Zenon DEF Text
<1>4. Text(u) \in [1 .. 2 * u -> T]
  <2> HIDE DEF T
  <2> QED
    BY <1>2, <1>3
<1> QED
  BY <1>1, <1>4, FromRange

\* What comes behind leaves what is there, and lies behind it.
LEMMA PutBehind ==
  \A s, t, m, n : Buffer(s, m) /\ Buffer(t, n) =>
    /\ Buffer(Cat(s, t), m + n)
    /\ \A o, v : Says(s, o, v) => Says(Cat(s, t), o, v)
    /\ \A o, v : Says(t, o, v) => Says(Cat(s, t), m + o, v)
<1> SUFFICES ASSUME NEW s, NEW t, NEW m, NEW n, Buffer(s, m), Buffer(t, n)
             PROVE  /\ Buffer(Cat(s, t), m + n)
                    /\ \A o, v : Says(s, o, v) => Says(Cat(s, t), o, v)
                    /\ \A o, v : Says(t, o, v) => Says(Cat(s, t), m + o, v)
  OBVIOUS
<1> DEFINE S == {s[i] : i \in 1 .. m} \cup {t[i] : i \in 1 .. n}
<1>1. m \in Nat /\ n \in Nat /\ s \in Seq(S) /\ t \in Seq(S) /\ Len(s) = m /\ Len(t) = n
  <2>1. (\A i \in 1 .. m : s[i] \in S) /\ (\A i \in 1 .. n : t[i] \in S)
    OBVIOUS
  <2>2. s \in Seq(S) /\ t \in Seq(S)
    <3> HIDE DEF S
    <3> QED
      BY <2>1, BytesAre, Zenon
  <2> QED
    BY <2>2 DEF Buffer
<1>2. /\ Cat(s, t) \in Seq(S) /\ Len(Cat(s, t)) = m + n
      /\ \A i \in 1 .. m + n : Cat(s, t)[i] = IF i <= m THEN s[i] ELSE t[i - m]
  <2> HIDE DEF S
  <2> QED
    BY <1>1, CatAt
<1>3. ASSUME NEW o, NEW v, Says(s, o, v) PROVE Says(Cat(s, t), o, v)
  <2>1. o \in 0 .. m - 1 /\ s[o + 1][2] = v
    BY <1>1, <1>3 DEF Says
  <2>2. o \in 0 .. (m + n) - 1 /\ o + 1 \in 1 .. m + n /\ o + 1 <= m
    BY <1>1, <2>1
  <2> QED
    BY <1>2, <2>1, <2>2 DEF Says
<1>4. ASSUME NEW o, NEW v, Says(t, o, v) PROVE Says(Cat(s, t), m + o, v)
  <2>1. o \in 0 .. n - 1 /\ t[o + 1][2] = v
    BY <1>1, <1>4 DEF Says
  <2>2. /\ m + o \in 0 .. (m + n) - 1 /\ (m + o) + 1 \in 1 .. m + n /\ ~((m + o) + 1 <= m)
        /\ ((m + o) + 1) - m = o + 1
    BY <1>1, <2>1
  <2> QED
    BY <1>2, <2>1, <2>2 DEF Says
<1>5. Buffer(Cat(s, t), m + n)
  <2> HIDE DEF S
  <2> QED
    BY <1>2, BytesAre
<1> QED
  BY <1>3, <1>4, <1>5

-----------------------------------------------------------------------------
(* FileInfo: the layouts.                                                  *)

File   == [dir : BOOLEAN, size : 0 .. U64_MAX, path : Nat]
Volume == [label : Nat, total : Nat]

\* What is not measured is 0.
LEMMA UnsetIs == \A name : \A w \in Nat \ {0} : Buffer(Unset(name, w), w)
BY FieldIs, Zenon DEF Unset

\* What a file is told to occupy is a number of 64 bits, and not less than its size.
LEMMA AllocationIs ==
  \A size \in 0 .. U64_MAX : allocation_size(size) \in Nat /\ allocation_size(size) >= size
<1> SUFFICES ASSUME NEW size \in 0 .. U64_MAX
             PROVE  allocation_size(size) \in Nat /\ allocation_size(size) >= size
  OBVIOUS
<1> DEFINE q == CeilDiv(size)
<1>1. CLUSTER_SIZE \in Nat \ {0} /\ U64_MAX \in Nat /\ size \in Nat /\ size <= U64_MAX
  BY InfoAssumption
<1>2. q \in Nat /\ (q * CLUSTER_SIZE) \in Nat /\ (q * CLUSTER_SIZE) >= size
  <2>1. ASSUME NEW c \in Nat \ {0}, NEW k \in Nat
        PROVE  (k + c - 1) \div c \in Nat /\ ((k + c - 1) \div c) * c \in Nat
               /\ ((k + c - 1) \div c) * c >= k
    <3> DEFINE x == k + c - 1
    <3>1. x \in Nat
      OBVIOUS
    <3>2. x \div c \in Int /\ c * (x \div c) <= x /\ x < c * ((x \div c) + 1)
      BY <3>1, SMTT(30)
    <3> QED
      BY <3>1, <3>2, SMTT(30)
  <2> QED
    BY <1>1, <2>1 DEF CeilDiv
<1> QED
  BY <1>1, <1>2 DEF allocation_size

\* The attributes of a file are one field.
LEMMA AttributesIs ==
  \A n \in File : Buffer(Attributes(n), 4) /\ Says(Attributes(n), 0, file_attributes(n.dir))
BY FieldIs DEF Attributes

\* What is one field.
LEMMA SmallAre ==
  /\ Buffer(file_internal, 8) /\ Buffer(file_ea, 4) /\ Buffer(file_position, 8)
  /\ Buffer(file_mode, 4) /\ Buffer(file_alignment, 4)
  /\ \A n \in File : Buffer(file_access(n), 4) /\ Says(file_access(n), 0, read_only(n.dir))
<1>1. Buffer(file_internal, 8)
  BY UnsetIs DEF file_internal
<1>2. Buffer(file_ea, 4)
  BY UnsetIs DEF file_ea
<1>3. Buffer(file_position, 8)
  BY UnsetIs DEF file_position
<1>4. Buffer(file_mode, 4)
  BY UnsetIs DEF file_mode
<1>5. Buffer(file_alignment, 4)
  BY UnsetIs DEF file_alignment
<1>6. \A n \in File : Buffer(file_access(n), 4) /\ Says(file_access(n), 0, read_only(n.dir))
  BY FieldIs DEF file_access
<1> QED
  BY <1>1, <1>2, <1>3, <1>4, <1>5, <1>6

\* Four times.
LEMMA TimesIs == Buffer(Times, 32)
<1> DEFINE p1 == Unset("CreationTime", 8)
           p2 == Unset("LastAccessTime", 8)
           p3 == Unset("LastWriteTime", 8)
           p4 == Unset("ChangeTime", 8)
           q2 == Cat(p1, p2)
           q3 == Cat(q2, p3)
           q4 == Cat(q3, p4)
<1>1. Times = q4
  BY Zenon DEF Cat, Times
<1>2. Buffer(p1, 8) /\ Buffer(p2, 8) /\ Buffer(p3, 8) /\ Buffer(p4, 8)
  BY UnsetIs
<1> HIDE DEF p1, p2, p3, p4, q2, q3, q4
<1>3. Buffer(q2, 8 + 8)
  BY <1>2, PutBehind, Zenon DEF q2
<1>4. Buffer(q3, (8 + 8) + 8)
  BY <1>3, <1>2, PutBehind, Zenon DEF q3
<1>5. Buffer(q4, ((8 + 8) + 8) + 8)
  BY <1>4, <1>2, PutBehind, Zenon DEF q4
<1> QED
  BY <1>1, <1>5

\* Two sizes.
LEMMA SizesIs ==
  \A n \in File :
    /\ Buffer(Sizes(n), 16)
    /\ Says(Sizes(n), 0, allocation_size(n.size))
    /\ Says(Sizes(n), 8, n.size)
<1> TAKE n \in File
<1> DEFINE p1 == F("AllocationSize", allocation_size(n.size), 8)
           p2 == F("EndOfFile", n.size, 8)
           q2 == Cat(p1, p2)
<1>1. Sizes(n) = q2
  BY Zenon DEF Cat, Sizes
<1>2. /\ Buffer(p1, 8) /\ Says(p1, 0, allocation_size(n.size)) /\ Buffer(p2, 8)
         /\ Says(p2, 0, n.size)
  BY FieldIs
<1> HIDE DEF p1, p2, q2
<1>3. Buffer(q2, 8 + 8) /\ Says(q2, 0, allocation_size(n.size)) /\ Says(q2, 8 + 0, n.size)
  BY <1>2, PutBehind, Zenon DEF q2
<1> QED
  BY <1>1, <1>3

\* FileBasicInformation.
LEMMA BasicIs ==
  \A n \in File :
    /\ Buffer(file_basic(n), 40)
    /\ Says(file_basic(n), 32, file_attributes(n.dir))
<1> TAKE n \in File
<1> DEFINE p1 == Times
           p2 == Attributes(n)
           p3 == Unset("Reserved", 4)
           q2 == Cat(p1, p2)
           q3 == Cat(q2, p3)
<1>1. file_basic(n) = q3
  BY Zenon DEF Cat, file_basic
<1>2. Buffer(p1, 32)
  BY TimesIs
<1>3. Buffer(p2, 4) /\ Says(p2, 0, file_attributes(n.dir))
  BY AttributesIs
<1>4. Buffer(p3, 4)
  BY UnsetIs
<1> HIDE DEF p1, p2, p3, q2, q3
<1>5. Buffer(q2, 32 + 4) /\ Says(q2, 32 + 0, file_attributes(n.dir))
  BY <1>2, <1>3, PutBehind, Zenon DEF q2
<1>6. Buffer(q3, (32 + 4) + 4) /\ Says(q3, 32 + 0, file_attributes(n.dir))
  BY <1>5, <1>4, PutBehind, Zenon DEF q3
<1> QED
  BY <1>1, <1>6

\* FileStandardInformation.
LEMMA StandardIs ==
  \A n \in File :
    /\ Buffer(file_standard(n), 24)
    /\ Says(file_standard(n), 0, allocation_size(n.size))
    /\ Says(file_standard(n), 8, n.size)
<1> TAKE n \in File
<1> DEFINE p1 == Sizes(n)
           p2 == F("NumberOfLinks", 1, 4)
           p3 == Unset("DeletePending", 1)
           p4 == F("Directory", n.dir, 1)
           p5 == Unset("Reserved", 2)
           q2 == Cat(p1, p2)
           q3 == Cat(q2, p3)
           q4 == Cat(q3, p4)
           q5 == Cat(q4, p5)
<1>1. file_standard(n) = q5
  BY Zenon DEF Cat, file_standard
<1>2. Buffer(p1, 16) /\ Says(p1, 0, allocation_size(n.size)) /\ Says(p1, 8, n.size)
  BY SizesIs
<1>3. Buffer(p2, 4) /\ Buffer(p4, 1)
  BY FieldIs
<1>4. Buffer(p3, 1) /\ Buffer(p5, 2)
  BY UnsetIs
<1> HIDE DEF p1, p2, p3, p4, p5, q2, q3, q4, q5
<1>5. Buffer(q2, 16 + 4) /\ Says(q2, 0, allocation_size(n.size)) /\ Says(q2, 8, n.size)
  BY <1>2, <1>3, PutBehind, Zenon DEF q2
<1>6. /\ Buffer(q3, (16 + 4) + 1) /\ Says(q3, 0, allocation_size(n.size))
         /\ Says(q3, 8, n.size)
  BY <1>5, <1>4, PutBehind, Zenon DEF q3
<1>7. /\ Buffer(q4, ((16 + 4) + 1) + 1) /\ Says(q4, 0, allocation_size(n.size))
         /\ Says(q4, 8, n.size)
  BY <1>6, <1>3, PutBehind, Zenon DEF q4
<1>8. /\ Buffer(q5, (((16 + 4) + 1) + 1) + 2) /\ Says(q5, 0, allocation_size(n.size))
         /\ Says(q5, 8, n.size)
  BY <1>7, <1>4, PutBehind, Zenon DEF q5
<1> QED
  BY <1>1, <1>8

\* FileNameInformation: the length of the path in front of it.
LEMMA NameIs ==
  \A n \in File :
    /\ Buffer(file_name(n), 4 + 2 * n.path)
    /\ Says(file_name(n), 0, 2 * n.path)
<1> TAKE n \in File
<1> DEFINE p1 == F("length", 2 * n.path, 4)
           p2 == Text(n.path)
           q2 == Cat(p1, p2)
<1>1. file_name(n) = q2
  BY Zenon DEF Cat, file_name
<1>2. Buffer(p1, 4) /\ Says(p1, 0, 2 * n.path)
  BY FieldIs DEF File
<1>3. Buffer(p2, 2 * n.path)
  BY TextIs DEF File
<1> HIDE DEF p1, p2, q2
<1>4. Buffer(q2, 4 + 2 * n.path) /\ Says(q2, 0, 2 * n.path)
  BY <1>2, <1>3, PutBehind, Zenon DEF q2
<1> QED
  BY <1>1, <1>4 DEF File

\* FileAllInformation: all of them, the name last.
LEMMA AllIs ==
  \A n \in File :
    /\ Buffer(file_all(n), 100 + 2 * n.path)
    /\ Says(file_all(n), 32, file_attributes(n.dir))
    /\ Says(file_all(n), 40, allocation_size(n.size))
    /\ Says(file_all(n), 48, n.size)
    /\ Says(file_all(n), 76, read_only(n.dir))
    /\ Says(file_all(n), 96, 2 * n.path)
<1> TAKE n \in File
<1> DEFINE p1 == file_basic(n)
           p2 == file_standard(n)
           p3 == file_internal
           p4 == file_ea
           p5 == file_access(n)
           p6 == file_position
           p7 == file_mode
           p8 == file_alignment
           p9 == file_name(n)
           q2 == Cat(p1, p2)
           q3 == Cat(q2, p3)
           q4 == Cat(q3, p4)
           q5 == Cat(q4, p5)
           q6 == Cat(q5, p6)
           q7 == Cat(q6, p7)
           q8 == Cat(q7, p8)
           q9 == Cat(q8, p9)
<1>1. file_all(n) = q9
  BY Zenon DEF Cat, file_all
<1>2. Buffer(p1, 40) /\ Says(p1, 32, file_attributes(n.dir))
  BY BasicIs
<1>3. Buffer(p2, 24) /\ Says(p2, 0, allocation_size(n.size)) /\ Says(p2, 8, n.size)
  BY StandardIs
<1>4. /\ Buffer(p3, 8) /\ Buffer(p4, 4) /\ Buffer(p5, 4) /\ Says(p5, 0, read_only(n.dir))
         /\ Buffer(p6, 8) /\ Buffer(p7, 4) /\ Buffer(p8, 4)
  BY SmallAre
<1>5. Buffer(p9, 4 + 2 * n.path) /\ Says(p9, 0, 2 * n.path)
  BY NameIs DEF File
<1> HIDE DEF p1, p2, p3, p4, p5, p6, p7, p8, p9, q2, q3, q4, q5, q6, q7, q8, q9
<1>6. /\ Buffer(q2, 40 + 24) /\ Says(q2, 32, file_attributes(n.dir))
         /\ Says(q2, 40 + 0, allocation_size(n.size)) /\ Says(q2, 40 + 8, n.size)
  BY <1>2, <1>3, PutBehind, Zenon DEF q2
<1>7. /\ Buffer(q3, (40 + 24) + 8) /\ Says(q3, 32, file_attributes(n.dir))
         /\ Says(q3, 40 + 0, allocation_size(n.size)) /\ Says(q3, 40 + 8, n.size)
  BY <1>6, <1>4, PutBehind, Zenon DEF q3
<1>8. /\ Buffer(q4, ((40 + 24) + 8) + 4) /\ Says(q4, 32, file_attributes(n.dir))
         /\ Says(q4, 40 + 0, allocation_size(n.size)) /\ Says(q4, 40 + 8, n.size)
  BY <1>7, <1>4, PutBehind, Zenon DEF q4
<1>9. /\ Buffer(q5, (((40 + 24) + 8) + 4) + 4) /\ Says(q5, 32, file_attributes(n.dir))
         /\ Says(q5, 40 + 0, allocation_size(n.size)) /\ Says(q5, 40 + 8, n.size)
         /\ Says(q5, (((40 + 24) + 8) + 4) + 0, read_only(n.dir))
  BY <1>8, <1>4, PutBehind, Zenon DEF q5
<1>10. /\ Buffer(q6, ((((40 + 24) + 8) + 4) + 4) + 8)
          /\ Says(q6, 32, file_attributes(n.dir))
          /\ Says(q6, 40 + 0, allocation_size(n.size)) /\ Says(q6, 40 + 8, n.size)
          /\ Says(q6, (((40 + 24) + 8) + 4) + 0, read_only(n.dir))
  BY <1>9, <1>4, PutBehind, Zenon DEF q6
<1>11. /\ Buffer(q7, (((((40 + 24) + 8) + 4) + 4) + 8) + 4)
          /\ Says(q7, 32, file_attributes(n.dir))
          /\ Says(q7, 40 + 0, allocation_size(n.size)) /\ Says(q7, 40 + 8, n.size)
          /\ Says(q7, (((40 + 24) + 8) + 4) + 0, read_only(n.dir))
  BY <1>10, <1>4, PutBehind, Zenon DEF q7
<1>12. /\ Buffer(q8, ((((((40 + 24) + 8) + 4) + 4) + 8) + 4) + 4)
          /\ Says(q8, 32, file_attributes(n.dir))
          /\ Says(q8, 40 + 0, allocation_size(n.size)) /\ Says(q8, 40 + 8, n.size)
          /\ Says(q8, (((40 + 24) + 8) + 4) + 0, read_only(n.dir))
  BY <1>11, <1>4, PutBehind, Zenon DEF q8
<1>13. /\ Buffer(q9, (((((((40 + 24) + 8) + 4) + 4) + 8) + 4) + 4) + (4 + 2 * n.path))
          /\ Says(q9, 32, file_attributes(n.dir))
          /\ Says(q9, 40 + 0, allocation_size(n.size)) /\ Says(q9, 40 + 8, n.size)
          /\ Says(q9, (((40 + 24) + 8) + 4) + 0, read_only(n.dir))
          /\ Says(q9, (((((((40 + 24) + 8) + 4) + 4) + 8) + 4) + 4) + 0, 2 * n.path)
  BY <1>12, <1>5, PutBehind, Zenon DEF q9
<1> QED
  BY <1>1, <1>13 DEF File

\* FileNetworkOpenInformation.
LEMMA NetworkOpenIs ==
  \A n \in File :
    /\ Buffer(file_network_open(n), 56)
    /\ Says(file_network_open(n), 32, allocation_size(n.size))
    /\ Says(file_network_open(n), 40, n.size)
    /\ Says(file_network_open(n), 48, file_attributes(n.dir))
<1> TAKE n \in File
<1> DEFINE p1 == Times
           p2 == Sizes(n)
           p3 == Attributes(n)
           p4 == Unset("Reserved", 4)
           q2 == Cat(p1, p2)
           q3 == Cat(q2, p3)
           q4 == Cat(q3, p4)
<1>1. file_network_open(n) = q4
  BY Zenon DEF Cat, file_network_open
<1>2. Buffer(p1, 32)
  BY TimesIs
<1>3. Buffer(p2, 16) /\ Says(p2, 0, allocation_size(n.size)) /\ Says(p2, 8, n.size)
  BY SizesIs
<1>4. Buffer(p3, 4) /\ Says(p3, 0, file_attributes(n.dir))
  BY AttributesIs
<1>5. Buffer(p4, 4)
  BY UnsetIs
<1> HIDE DEF p1, p2, p3, p4, q2, q3, q4
<1>6. /\ Buffer(q2, 32 + 16) /\ Says(q2, 32 + 0, allocation_size(n.size))
         /\ Says(q2, 32 + 8, n.size)
  BY <1>2, <1>3, PutBehind, Zenon DEF q2
<1>7. /\ Buffer(q3, (32 + 16) + 4) /\ Says(q3, 32 + 0, allocation_size(n.size))
         /\ Says(q3, 32 + 8, n.size) /\ Says(q3, (32 + 16) + 0, file_attributes(n.dir))
  BY <1>6, <1>4, PutBehind, Zenon DEF q3
<1>8. /\ Buffer(q4, ((32 + 16) + 4) + 4) /\ Says(q4, 32 + 0, allocation_size(n.size))
         /\ Says(q4, 32 + 8, n.size) /\ Says(q4, (32 + 16) + 0, file_attributes(n.dir))
  BY <1>7, <1>5, PutBehind, Zenon DEF q4
<1> QED
  BY <1>1, <1>8

\* FileAttributeTagInformation.
LEMMA TagIs ==
  \A n \in File :
    /\ Buffer(file_attribute_tag(n), 8)
    /\ Says(file_attribute_tag(n), 0, file_attributes(n.dir))
<1> TAKE n \in File
<1> DEFINE p1 == Attributes(n)
           p2 == Unset("ReparseTag", 4)
           q2 == Cat(p1, p2)
<1>1. file_attribute_tag(n) = q2
  BY Zenon DEF Cat, file_attribute_tag
<1>2. Buffer(p1, 4) /\ Says(p1, 0, file_attributes(n.dir))
  BY AttributesIs
<1>3. Buffer(p2, 4)
  BY UnsetIs
<1> HIDE DEF p1, p2, q2
<1>4. Buffer(q2, 4 + 4) /\ Says(q2, 0, file_attributes(n.dir))
  BY <1>2, <1>3, PutBehind, Zenon DEF q2
<1> QED
  BY <1>1, <1>4

\* FileStreamInformation of what is no directory.
LEMMA StreamIs ==
  \A n \in {m \in File : ~m.dir} :
    /\ Buffer(file_stream(n), 38)
    /\ Says(file_stream(n), 8, n.size)
    /\ Says(file_stream(n), 16, allocation_size(n.size))
<1> TAKE n \in {m \in File : ~m.dir}
<1> DEFINE p1 == Unset("NextEntryOffset", 4)
           p2 == F("length", 14, 4)
           p3 == F("EndOfFile", n.size, 8)
           p4 == F("AllocationSize", allocation_size(n.size), 8)
           p5 == Text(7)
           q2 == Cat(p1, p2)
           q3 == Cat(q2, p3)
           q4 == Cat(q3, p4)
           q5 == Cat(q4, p5)
<1>1. file_stream(n) = q5
  BY Zenon DEF Cat, file_stream
<1>2. Buffer(p1, 4)
  BY UnsetIs
<1>3. /\ Buffer(p2, 4) /\ Buffer(p3, 8) /\ Says(p3, 0, n.size) /\ Buffer(p4, 8)
         /\ Says(p4, 0, allocation_size(n.size))
  BY FieldIs
<1>4. Buffer(p5, 14)
  BY TextIs
<1> HIDE DEF p1, p2, p3, p4, p5, q2, q3, q4, q5
<1>5. Buffer(q2, 4 + 4)
  BY <1>2, <1>3, PutBehind, Zenon DEF q2
<1>6. Buffer(q3, (4 + 4) + 8) /\ Says(q3, (4 + 4) + 0, n.size)
  BY <1>5, <1>3, PutBehind, Zenon DEF q3
<1>7. /\ Buffer(q4, ((4 + 4) + 8) + 8) /\ Says(q4, (4 + 4) + 0, n.size)
         /\ Says(q4, ((4 + 4) + 8) + 0, allocation_size(n.size))
  BY <1>6, <1>3, PutBehind, Zenon DEF q4
<1>8. /\ Buffer(q5, (((4 + 4) + 8) + 8) + 14) /\ Says(q5, (4 + 4) + 0, n.size)
         /\ Says(q5, ((4 + 4) + 8) + 0, allocation_size(n.size))
  BY <1>7, <1>4, PutBehind, Zenon DEF q5
<1> QED
  BY <1>1, <1>8

\* FileFsVolumeInformation: the length of the label six bytes in front of it.
LEMMA VolumeIs ==
  \A v \in Volume :
    /\ Buffer(fs_volume(v), 18 + 2 * v.label)
    /\ Says(fs_volume(v), 12, 2 * v.label)
<1> TAKE v \in Volume
<1> DEFINE p1 == Unset("VolumeCreationTime", 8)
           p2 == Unset("VolumeSerialNumber", 4)
           p3 == F("length", 2 * v.label, 4)
           p4 == Unset("SupportsObjects", 1)
           p5 == Unset("Reserved", 1)
           p6 == Text(v.label)
           q2 == Cat(p1, p2)
           q3 == Cat(q2, p3)
           q4 == Cat(q3, p4)
           q5 == Cat(q4, p5)
           q6 == Cat(q5, p6)
<1>1. fs_volume(v) = q6
  BY Zenon DEF Cat, fs_volume
<1>2. Buffer(p1, 8) /\ Buffer(p2, 4) /\ Buffer(p4, 1) /\ Buffer(p5, 1)
  BY UnsetIs
<1>3. Buffer(p3, 4) /\ Says(p3, 0, 2 * v.label)
  BY FieldIs DEF Volume
<1>4. Buffer(p6, 2 * v.label)
  BY TextIs DEF Volume
<1> HIDE DEF p1, p2, p3, p4, p5, p6, q2, q3, q4, q5, q6
<1>5. Buffer(q2, 8 + 4)
  BY <1>2, PutBehind, Zenon DEF q2
<1>6. Buffer(q3, (8 + 4) + 4) /\ Says(q3, (8 + 4) + 0, 2 * v.label)
  BY <1>5, <1>3, PutBehind, Zenon DEF q3
<1>7. Buffer(q4, ((8 + 4) + 4) + 1) /\ Says(q4, (8 + 4) + 0, 2 * v.label)
  BY <1>6, <1>2, PutBehind, Zenon DEF q4
<1>8. Buffer(q5, (((8 + 4) + 4) + 1) + 1) /\ Says(q5, (8 + 4) + 0, 2 * v.label)
  BY <1>7, <1>2, PutBehind, Zenon DEF q5
<1>9. /\ Buffer(q6, ((((8 + 4) + 4) + 1) + 1) + 2 * v.label)
         /\ Says(q6, (8 + 4) + 0, 2 * v.label)
  BY <1>8, <1>4, PutBehind, Zenon DEF q6
<1> QED
  BY <1>1, <1>9 DEF Volume

\* FileFsAttributeInformation: the length of the name in front of it.
LEMMA FsAttributeIs == Buffer(fs_attribute, 34) /\ Says(fs_attribute, 8, 22)
<1> DEFINE p1 == Unset("FileSystemAttributes", 4)
           p2 == F("MaximumComponentNameLength", 255, 4)
           p3 == F("length", 22, 4)
           p4 == Text(11)
           q2 == Cat(p1, p2)
           q3 == Cat(q2, p3)
           q4 == Cat(q3, p4)
<1>1. fs_attribute = q4
  BY Zenon DEF Cat, fs_attribute
<1>2. Buffer(p1, 4)
  BY UnsetIs
<1>3. Buffer(p2, 4) /\ Buffer(p3, 4) /\ Says(p3, 0, 22)
  BY FieldIs
<1>4. Buffer(p4, 22)
  BY TextIs
<1> HIDE DEF p1, p2, p3, p4, q2, q3, q4
<1>5. Buffer(q2, 4 + 4)
  BY <1>2, <1>3, PutBehind, Zenon DEF q2
<1>6. Buffer(q3, (4 + 4) + 4) /\ Says(q3, (4 + 4) + 0, 22)
  BY <1>5, <1>3, PutBehind, Zenon DEF q3
<1>7. Buffer(q4, ((4 + 4) + 4) + 22) /\ Says(q4, (4 + 4) + 0, 22)
  BY <1>6, <1>4, PutBehind, Zenon DEF q4
<1> QED
  BY <1>1, <1>7

\* How large the clusters are.
LEMMA SectorsAre == Buffer(Sectors, 8)
<1> DEFINE p1 == F("SectorsPerAllocationUnit", CLUSTER_SIZE \div 512, 4)
           p2 == F("BytesPerSector", 512, 4)
           q2 == Cat(p1, p2)
<1>1. Sectors = q2
  BY Zenon DEF Cat, Sectors
<1>2. Buffer(p1, 4) /\ Buffer(p2, 4)
  BY FieldIs
<1> HIDE DEF p1, p2, q2
<1>3. Buffer(q2, 4 + 4)
  BY <1>2, PutBehind, Zenon DEF q2
<1> QED
  BY <1>1, <1>3

\* How many there are.
LEMMA UnitsAre == \A v \in Volume : Buffer(AllocationUnits(v), 8)
BY FieldIs DEF AllocationUnits

\* FileFsSizeInformation.
LEMMA FsSizeIs == \A v \in Volume : Buffer(fs_size(v), 24)
<1> TAKE v \in Volume
<1> DEFINE p1 == AllocationUnits(v)
           p2 == Unset("Available", 8)
           p3 == Sectors
           q2 == Cat(p1, p2)
           q3 == Cat(q2, p3)
<1>1. fs_size(v) = q3
  BY Zenon DEF Cat, fs_size
<1>2. Buffer(p1, 8)
  BY UnitsAre
<1>3. Buffer(p2, 8)
  BY UnsetIs
<1>4. Buffer(p3, 8)
  BY SectorsAre
<1> HIDE DEF p1, p2, p3, q2, q3
<1>5. Buffer(q2, 8 + 8)
  BY <1>2, <1>3, PutBehind, Zenon DEF q2
<1>6. Buffer(q3, (8 + 8) + 8)
  BY <1>5, <1>4, PutBehind, Zenon DEF q3
<1> QED
  BY <1>1, <1>6

\* FileFsFullSizeInformation.
LEMMA FullSizeIs == \A v \in Volume : Buffer(fs_full_size(v), 32)
<1> TAKE v \in Volume
<1> DEFINE p1 == AllocationUnits(v)
           p2 == Unset("Available", 8)
           p3 == Unset("Available", 8)
           p4 == Sectors
           q2 == Cat(p1, p2)
           q3 == Cat(q2, p3)
           q4 == Cat(q3, p4)
<1>1. fs_full_size(v) = q4
  BY Zenon DEF Cat, fs_full_size
<1>2. Buffer(p1, 8)
  BY UnitsAre
<1>3. Buffer(p2, 8) /\ Buffer(p3, 8)
  BY UnsetIs
<1>4. Buffer(p4, 8)
  BY SectorsAre
<1> HIDE DEF p1, p2, p3, p4, q2, q3, q4
<1>5. Buffer(q2, 8 + 8)
  BY <1>2, <1>3, PutBehind, Zenon DEF q2
<1>6. Buffer(q3, (8 + 8) + 8)
  BY <1>5, <1>3, PutBehind, Zenon DEF q3
<1>7. Buffer(q4, ((8 + 8) + 8) + 8)
  BY <1>6, <1>4, PutBehind, Zenon DEF q4
<1> QED
  BY <1>1, <1>7

\* FileFsDeviceInformation.
LEMMA DeviceIs == Buffer(fs_device, 8)
<1> DEFINE p1 == Unset("DeviceType", 4)
           p2 == Unset("Characteristics", 4)
           q2 == Cat(p1, p2)
<1>1. fs_device = q2
  BY Zenon DEF Cat, fs_device
<1>2. Buffer(p1, 4) /\ Buffer(p2, 4)
  BY UnsetIs
<1> HIDE DEF p1, p2, q2
<1>3. Buffer(q2, 4 + 4)
  BY <1>2, PutBehind, Zenon DEF q2
<1> QED
  BY <1>1, <1>3

\* FileFsSectorSizeInformation.
LEMMA SectorSizeIs == Buffer(fs_sector_size, 28)
<1> DEFINE p1 == F("LogicalBytes", 512, 4)
           p2 == F("PhysicalBytesForAtomicity", 512, 4)
           p3 == F("PhysicalBytesForPerformance", 512, 4)
           p4 == F("EffectiveBytes", 512, 4)
           p5 == Unset("Flags", 4)
           p6 == Unset("ByteOffset", 4)
           p7 == Unset("ByteOffset", 4)
           q2 == Cat(p1, p2)
           q3 == Cat(q2, p3)
           q4 == Cat(q3, p4)
           q5 == Cat(q4, p5)
           q6 == Cat(q5, p6)
           q7 == Cat(q6, p7)
<1>1. fs_sector_size = q7
  BY Zenon DEF Cat, fs_sector_size
<1>2. Buffer(p1, 4) /\ Buffer(p2, 4) /\ Buffer(p3, 4) /\ Buffer(p4, 4)
  BY FieldIs
<1>3. Buffer(p5, 4) /\ Buffer(p6, 4) /\ Buffer(p7, 4)
  BY UnsetIs
<1> HIDE DEF p1, p2, p3, p4, p5, p6, p7, q2, q3, q4, q5, q6, q7
<1>4. Buffer(q2, 4 + 4)
  BY <1>2, PutBehind, Zenon DEF q2
<1>5. Buffer(q3, (4 + 4) + 4)
  BY <1>4, <1>2, PutBehind, Zenon DEF q3
<1>6. Buffer(q4, ((4 + 4) + 4) + 4)
  BY <1>5, <1>2, PutBehind, Zenon DEF q4
<1>7. Buffer(q5, (((4 + 4) + 4) + 4) + 4)
  BY <1>6, <1>3, PutBehind, Zenon DEF q5
<1>8. Buffer(q6, ((((4 + 4) + 4) + 4) + 4) + 4)
  BY <1>7, <1>3, PutBehind, Zenon DEF q6
<1>9. Buffer(q7, (((((4 + 4) + 4) + 4) + 4) + 4) + 4)
  BY <1>8, <1>3, PutBehind, Zenon DEF q7
<1> QED
  BY <1>1, <1>9

\* The context that says what the client may do.
LEMMA ContextIs ==
  \A n \in File :
    /\ Buffer(max_access_context(n), 32)
    /\ Says(max_access_context(n), 28, read_only(n.dir))
<1> TAKE n \in File
<1> DEFINE p1 == Unset("Next", 4)
           p2 == F("NameOffset", 16, 2)
           p3 == F("NameLength", 4, 2)
           p4 == Unset("Reserved", 2)
           p5 == F("DataOffset", 24, 2)
           p6 == F("DataLength", 8, 4)
           p7 == Unset("MxAc", 4)
           p8 == Unset("padding", 4)
           p9 == Unset("QueryStatus", 4)
           p10 == F("AccessFlags", read_only(n.dir), 4)
           q2 == Cat(p1, p2)
           q3 == Cat(q2, p3)
           q4 == Cat(q3, p4)
           q5 == Cat(q4, p5)
           q6 == Cat(q5, p6)
           q7 == Cat(q6, p7)
           q8 == Cat(q7, p8)
           q9 == Cat(q8, p9)
           q10 == Cat(q9, p10)
<1>1. max_access_context(n) = q10
  BY Zenon DEF Cat, max_access_context
<1>2. Buffer(p1, 4) /\ Buffer(p4, 2) /\ Buffer(p7, 4) /\ Buffer(p8, 4) /\ Buffer(p9, 4)
  BY UnsetIs
<1>3. /\ Buffer(p2, 2) /\ Buffer(p3, 2) /\ Buffer(p5, 2) /\ Buffer(p6, 4) /\ Buffer(p10, 4)
         /\ Says(p10, 0, read_only(n.dir))
  BY FieldIs
<1> HIDE DEF p1, p2, p3, p4, p5, p6, p7, p8, p9, p10, q2, q3, q4, q5, q6, q7, q8, q9, q10
<1>4. Buffer(q2, 4 + 2)
  BY <1>2, <1>3, PutBehind, Zenon DEF q2
<1>5. Buffer(q3, (4 + 2) + 2)
  BY <1>4, <1>3, PutBehind, Zenon DEF q3
<1>6. Buffer(q4, ((4 + 2) + 2) + 2)
  BY <1>5, <1>2, PutBehind, Zenon DEF q4
<1>7. Buffer(q5, (((4 + 2) + 2) + 2) + 2)
  BY <1>6, <1>3, PutBehind, Zenon DEF q5
<1>8. Buffer(q6, ((((4 + 2) + 2) + 2) + 2) + 4)
  BY <1>7, <1>3, PutBehind, Zenon DEF q6
<1>9. Buffer(q7, (((((4 + 2) + 2) + 2) + 2) + 4) + 4)
  BY <1>8, <1>2, PutBehind, Zenon DEF q7
<1>10. Buffer(q8, ((((((4 + 2) + 2) + 2) + 2) + 4) + 4) + 4)
  BY <1>9, <1>2, PutBehind, Zenon DEF q8
<1>11. Buffer(q9, (((((((4 + 2) + 2) + 2) + 2) + 4) + 4) + 4) + 4)
  BY <1>10, <1>2, PutBehind, Zenon DEF q9
<1>12. /\ Buffer(q10, ((((((((4 + 2) + 2) + 2) + 2) + 4) + 4) + 4) + 4) + 4)
          /\ Says(q10, ((((((((4 + 2) + 2) + 2) + 2) + 4) + 4) + 4) + 4) + 0, read_only(n.dir))
  BY <1>11, <1>3, PutBehind, Zenon DEF q10
<1> QED
  BY <1>1, <1>12

\* The parts of a CREATE's answer and of a CLOSE's.
Fixed(n) ==
  F("StructureSize", 89, 2) \o Unset("OplockLevel", 1) \o Unset("Flags", 1)
  \o F("CreateAction", 1, 4) \o Times \o Sizes(n) \o Attributes(n) \o Unset("Reserved", 4)
  \o Unset("Persistent", 8) \o Unset("Volatile", 8)

WithContext(n) ==
  F("ContextsOffset", 88, 4) \o F("ContextsLength", Len(max_access_context(n)), 4)
  \o max_access_context(n)

NoContext == Unset("ContextsOffset", 4) \o Unset("ContextsLength", 4)

Final(n) == Times \o Sizes(n) \o Attributes(n)

\* What a CREATE says of the file.
LEMMA FixedIs ==
  \A n \in File :
    /\ Buffer(Fixed(n), 80)
    /\ Says(Fixed(n), 40, allocation_size(n.size))
    /\ Says(Fixed(n), 48, n.size)
    /\ Says(Fixed(n), 56, file_attributes(n.dir))
<1> TAKE n \in File
<1> DEFINE p1 == F("StructureSize", 89, 2)
           p2 == Unset("OplockLevel", 1)
           p3 == Unset("Flags", 1)
           p4 == F("CreateAction", 1, 4)
           p5 == Times
           p6 == Sizes(n)
           p7 == Attributes(n)
           p8 == Unset("Reserved", 4)
           p9 == Unset("Persistent", 8)
           p10 == Unset("Volatile", 8)
           q2 == Cat(p1, p2)
           q3 == Cat(q2, p3)
           q4 == Cat(q3, p4)
           q5 == Cat(q4, p5)
           q6 == Cat(q5, p6)
           q7 == Cat(q6, p7)
           q8 == Cat(q7, p8)
           q9 == Cat(q8, p9)
           q10 == Cat(q9, p10)
<1>1. Fixed(n) = q10
  BY Zenon DEF Cat, Fixed
<1>2. Buffer(p1, 2) /\ Buffer(p4, 4)
  BY FieldIs
<1>3. Buffer(p2, 1) /\ Buffer(p3, 1) /\ Buffer(p8, 4) /\ Buffer(p9, 8) /\ Buffer(p10, 8)
  BY UnsetIs
<1>4. Buffer(p5, 32)
  BY TimesIs
<1>5. Buffer(p6, 16) /\ Says(p6, 0, allocation_size(n.size)) /\ Says(p6, 8, n.size)
  BY SizesIs
<1>6. Buffer(p7, 4) /\ Says(p7, 0, file_attributes(n.dir))
  BY AttributesIs
<1> HIDE DEF p1, p2, p3, p4, p5, p6, p7, p8, p9, p10, q2, q3, q4, q5, q6, q7, q8, q9, q10
<1>7. Buffer(q2, 2 + 1)
  BY <1>2, <1>3, PutBehind, Zenon DEF q2
<1>8. Buffer(q3, (2 + 1) + 1)
  BY <1>7, <1>3, PutBehind, Zenon DEF q3
<1>9. Buffer(q4, ((2 + 1) + 1) + 4)
  BY <1>8, <1>2, PutBehind, Zenon DEF q4
<1>10. Buffer(q5, (((2 + 1) + 1) + 4) + 32)
  BY <1>9, <1>4, PutBehind, Zenon DEF q5
<1>11. /\ Buffer(q6, ((((2 + 1) + 1) + 4) + 32) + 16)
          /\ Says(q6, ((((2 + 1) + 1) + 4) + 32) + 0, allocation_size(n.size))
          /\ Says(q6, ((((2 + 1) + 1) + 4) + 32) + 8, n.size)
  BY <1>10, <1>5, PutBehind, Zenon DEF q6
<1>12. /\ Buffer(q7, (((((2 + 1) + 1) + 4) + 32) + 16) + 4)
          /\ Says(q7, ((((2 + 1) + 1) + 4) + 32) + 0, allocation_size(n.size))
          /\ Says(q7, ((((2 + 1) + 1) + 4) + 32) + 8, n.size)
          /\ Says(q7, (((((2 + 1) + 1) + 4) + 32) + 16) + 0, file_attributes(n.dir))
  BY <1>11, <1>6, PutBehind, Zenon DEF q7
<1>13. /\ Buffer(q8, ((((((2 + 1) + 1) + 4) + 32) + 16) + 4) + 4)
          /\ Says(q8, ((((2 + 1) + 1) + 4) + 32) + 0, allocation_size(n.size))
          /\ Says(q8, ((((2 + 1) + 1) + 4) + 32) + 8, n.size)
          /\ Says(q8, (((((2 + 1) + 1) + 4) + 32) + 16) + 0, file_attributes(n.dir))
  BY <1>12, <1>3, PutBehind, Zenon DEF q8
<1>14. /\ Buffer(q9, (((((((2 + 1) + 1) + 4) + 32) + 16) + 4) + 4) + 8)
          /\ Says(q9, ((((2 + 1) + 1) + 4) + 32) + 0, allocation_size(n.size))
          /\ Says(q9, ((((2 + 1) + 1) + 4) + 32) + 8, n.size)
          /\ Says(q9, (((((2 + 1) + 1) + 4) + 32) + 16) + 0, file_attributes(n.dir))
  BY <1>13, <1>3, PutBehind, Zenon DEF q9
<1>15. /\ Buffer(q10, ((((((((2 + 1) + 1) + 4) + 32) + 16) + 4) + 4) + 8) + 8)
          /\ Says(q10, ((((2 + 1) + 1) + 4) + 32) + 0, allocation_size(n.size))
          /\ Says(q10, ((((2 + 1) + 1) + 4) + 32) + 8, n.size)
          /\ Says(q10, (((((2 + 1) + 1) + 4) + 32) + 16) + 0, file_attributes(n.dir))
  BY <1>14, <1>3, PutBehind, Zenon DEF q10
<1> QED
  BY <1>1, <1>15

\* The context lies behind its place and its length.
LEMMA WithContextIs ==
  \A n \in File :
    /\ Buffer(WithContext(n), 40)
    /\ Says(WithContext(n), 36, read_only(n.dir))
<1> TAKE n \in File
<1> DEFINE p1 == F("ContextsOffset", 88, 4)
           p2 == F("ContextsLength", Len(max_access_context(n)), 4)
           p3 == max_access_context(n)
           q2 == Cat(p1, p2)
           q3 == Cat(q2, p3)
<1>1. WithContext(n) = q3
  BY Zenon DEF Cat, WithContext
<1>2. Buffer(p1, 4) /\ Buffer(p2, 4)
  BY FieldIs
<1>3. Buffer(p3, 32) /\ Says(p3, 28, read_only(n.dir))
  BY ContextIs
<1> HIDE DEF p1, p2, p3, q2, q3
<1>4. Buffer(q2, 4 + 4)
  BY <1>2, PutBehind, Zenon DEF q2
<1>5. Buffer(q3, (4 + 4) + 32) /\ Says(q3, (4 + 4) + 28, read_only(n.dir))
  BY <1>4, <1>3, PutBehind, Zenon DEF q3
<1> QED
  BY <1>1, <1>5

\* No context.
LEMMA NoContextIs == Buffer(NoContext, 8)
<1> DEFINE p1 == Unset("ContextsOffset", 4)
           p2 == Unset("ContextsLength", 4)
           q2 == Cat(p1, p2)
<1>1. NoContext = q2
  BY Zenon DEF Cat, NoContext
<1>2. Buffer(p1, 4) /\ Buffer(p2, 4)
  BY UnsetIs
<1> HIDE DEF p1, p2, q2
<1>3. Buffer(q2, 4 + 4)
  BY <1>2, PutBehind, Zenon DEF q2
<1> QED
  BY <1>1, <1>3

\* The answer to a CREATE, if it asks for what it may do.
LEMMA CreateReplyIs ==
  \A n \in File :
    /\ Buffer(CreateReply(n, TRUE), 120)
    /\ Says(CreateReply(n, TRUE), 40, allocation_size(n.size))
    /\ Says(CreateReply(n, TRUE), 48, n.size)
    /\ Says(CreateReply(n, TRUE), 56, file_attributes(n.dir))
    /\ Says(CreateReply(n, TRUE), 116, read_only(n.dir))
<1> TAKE n \in File
<1> DEFINE p1 == Fixed(n)
           p2 == WithContext(n)
           q2 == Cat(p1, p2)
<1>1. CreateReply(n, TRUE) = q2
  BY Zenon DEF Cat, CreateReply, Fixed, WithContext
<1>2. /\ Buffer(p1, 80) /\ Says(p1, 40, allocation_size(n.size)) /\ Says(p1, 48, n.size)
         /\ Says(p1, 56, file_attributes(n.dir))
  BY FixedIs
<1>3. Buffer(p2, 40) /\ Says(p2, 36, read_only(n.dir))
  BY WithContextIs
<1> HIDE DEF p1, p2, q2
<1>4. /\ Buffer(q2, 80 + 40) /\ Says(q2, 40, allocation_size(n.size))
         /\ Says(q2, 48, n.size) /\ Says(q2, 56, file_attributes(n.dir))
         /\ Says(q2, 80 + 36, read_only(n.dir))
  BY <1>2, <1>3, PutBehind, Zenon DEF q2
<1>5. /\ Buffer(q2, 120) /\ Says(q2, 40, allocation_size(n.size)) /\ Says(q2, 48, n.size)
         /\ Says(q2, 56, file_attributes(n.dir)) /\ Says(q2, 116, read_only(n.dir))
  BY <1>4
<1> QED
  BY <1>1, <1>5, Zenon

\* The answer to a CREATE, if it does not.
LEMMA PlainReplyIs ==
  \A n \in File :
    /\ Buffer(CreateReply(n, FALSE), 88)
    /\ Says(CreateReply(n, FALSE), 40, allocation_size(n.size))
    /\ Says(CreateReply(n, FALSE), 48, n.size)
    /\ Says(CreateReply(n, FALSE), 56, file_attributes(n.dir))
<1> TAKE n \in File
<1> DEFINE p1 == Fixed(n)
           p2 == NoContext
           q2 == Cat(p1, p2)
<1>1. CreateReply(n, FALSE) = q2
  BY Zenon DEF Cat, CreateReply, Fixed, NoContext
<1>2. /\ Buffer(p1, 80) /\ Says(p1, 40, allocation_size(n.size)) /\ Says(p1, 48, n.size)
         /\ Says(p1, 56, file_attributes(n.dir))
  BY FixedIs
<1>3. Buffer(p2, 8)
  BY NoContextIs
<1> HIDE DEF p1, p2, q2
<1>4. /\ Buffer(q2, 80 + 8) /\ Says(q2, 40, allocation_size(n.size)) /\ Says(q2, 48, n.size)
         /\ Says(q2, 56, file_attributes(n.dir))
  BY <1>2, <1>3, PutBehind, Zenon DEF q2
<1>5. /\ Buffer(q2, 88) /\ Says(q2, 40, allocation_size(n.size)) /\ Says(q2, 48, n.size)
         /\ Says(q2, 56, file_attributes(n.dir))
  BY <1>4
<1> QED
  BY <1>1, <1>5, Zenon

\* The final attributes.
LEMMA FinalIs ==
  \A n \in File :
    /\ Buffer(Final(n), 52)
    /\ Says(Final(n), 32, allocation_size(n.size))
    /\ Says(Final(n), 40, n.size)
    /\ Says(Final(n), 48, file_attributes(n.dir))
<1> TAKE n \in File
<1> DEFINE p1 == Times
           p2 == Sizes(n)
           p3 == Attributes(n)
           q2 == Cat(p1, p2)
           q3 == Cat(q2, p3)
<1>1. Final(n) = q3
  BY Zenon DEF Cat, Final
<1>2. Buffer(p1, 32)
  BY TimesIs
<1>3. Buffer(p2, 16) /\ Says(p2, 0, allocation_size(n.size)) /\ Says(p2, 8, n.size)
  BY SizesIs
<1>4. Buffer(p3, 4) /\ Says(p3, 0, file_attributes(n.dir))
  BY AttributesIs
<1> HIDE DEF p1, p2, p3, q2, q3
<1>5. /\ Buffer(q2, 32 + 16) /\ Says(q2, 32 + 0, allocation_size(n.size))
         /\ Says(q2, 32 + 8, n.size)
  BY <1>2, <1>3, PutBehind, Zenon DEF q2
<1>6. /\ Buffer(q3, (32 + 16) + 4) /\ Says(q3, 32 + 0, allocation_size(n.size))
         /\ Says(q3, 32 + 8, n.size) /\ Says(q3, (32 + 16) + 0, file_attributes(n.dir))
  BY <1>5, <1>4, PutBehind, Zenon DEF q3
<1> QED
  BY <1>1, <1>6

\* The answer to a CLOSE that asks for them.
LEMMA CloseReplyIs ==
  \A n \in File :
    /\ Buffer(CloseReply(n, TRUE), 60)
    /\ Says(CloseReply(n, TRUE), 40, allocation_size(n.size))
    /\ Says(CloseReply(n, TRUE), 48, n.size)
    /\ Says(CloseReply(n, TRUE), 56, file_attributes(n.dir))
<1> TAKE n \in File
<1> DEFINE p1 == F("StructureSize", 60, 2)
           p2 == F("Flags", IF TRUE THEN 1 ELSE 0, 2)
           p3 == Unset("Reserved", 4)
           p4 == Final(n)
           q2 == Cat(p1, p2)
           q3 == Cat(q2, p3)
           q4 == Cat(q3, p4)
<1>1. CloseReply(n, TRUE) = q4
  BY Zenon DEF Cat, CloseReply, Final
<1>2. Buffer(p1, 2) /\ Buffer(p2, 2)
  BY FieldIs
<1>3. Buffer(p3, 4)
  BY UnsetIs
<1>4. /\ Buffer(p4, 52) /\ Says(p4, 32, allocation_size(n.size)) /\ Says(p4, 40, n.size)
         /\ Says(p4, 48, file_attributes(n.dir))
  BY FinalIs
<1> HIDE DEF p1, p2, p3, p4, q2, q3, q4
<1>5. Buffer(q2, 2 + 2)
  BY <1>2, PutBehind, Zenon DEF q2
<1>6. Buffer(q3, (2 + 2) + 4)
  BY <1>5, <1>3, PutBehind, Zenon DEF q3
<1>7. /\ Buffer(q4, ((2 + 2) + 4) + 52)
         /\ Says(q4, ((2 + 2) + 4) + 32, allocation_size(n.size))
         /\ Says(q4, ((2 + 2) + 4) + 40, n.size)
         /\ Says(q4, ((2 + 2) + 4) + 48, file_attributes(n.dir))
  BY <1>6, <1>4, PutBehind, Zenon DEF q4
<1>8. /\ Buffer(q4, 60) /\ Says(q4, 40, allocation_size(n.size)) /\ Says(q4, 48, n.size)
         /\ Says(q4, 56, file_attributes(n.dir))
  BY <1>7
<1> QED
  BY <1>1, <1>8, Zenon


-----------------------------------------------------------------------------
(* FileInfo: what the classes tell.                                        *)

\* The tables, looked up.
LEMMA Tables ==
  /\ DOMAIN Strings = { "NAME", "ALL", "VOLUME", "ATTRIBUTE" }
  /\ Strings["NAME"][1] = 8 /\ Strings["NAME"][2] = 4
  /\ Strings["ALL"][1] = 104 /\ Strings["ALL"][2] = 100
  /\ Strings["VOLUME"][1] = 24 /\ Strings["VOLUME"][2] = 18
  /\ Strings["ATTRIBUTE"][1] = 16 /\ Strings["ATTRIBUTE"][2] = 12
BY DEF Strings

LEMMA Places ==
  /\ DOMAIN SizesAt = { "CREATE", "CLOSE", "STANDARD", "ALL", "NETWORK_OPEN" }
  /\ SizesAt["CREATE"] = 40 /\ SizesAt["CLOSE"] = 40 /\ SizesAt["STANDARD"] = 0
  /\ SizesAt["ALL"] = 40 /\ SizesAt["NETWORK_OPEN"] = 32
  /\ DOMAIN AttributesAt = { "CREATE", "CLOSE", "BASIC", "ALL", "NETWORK_OPEN", "ATTRIBUTE_TAG" }
  /\ AttributesAt["CREATE"] = 56 /\ AttributesAt["CLOSE"] = 56 /\ AttributesAt["BASIC"] = 32
  /\ AttributesAt["ALL"] = 32 /\ AttributesAt["NETWORK_OPEN"] = 48
  /\ AttributesAt["ATTRIBUTE_TAG"] = 0
  /\ DOMAIN AccessAt = { "CREATE", "ACCESS", "ALL" }
  /\ AccessAt["CREATE"] = 116 /\ AccessAt["ACCESS"] = 0 /\ AccessAt["ALL"] = 76
BY DEF SizesAt, AttributesAt, AccessAt

\* Where a class that ends in a string has the string's length.
ToldAt(class) == IF class = "VOLUME" THEN 12 ELSE Strings[class][2] - 4

\* s is an answer of that class: it is as long as its string says.
Whole(class, s) ==
  \E len \in Nat :
    /\ Buffer(s, len)
    /\ class \in DOMAIN Strings => Says(s, ToldAt(class), len - Strings[class][2])

\* s says of a file what there is to say, and what may be done with it if m.
SaysRight(k, s, n, m) ==
  /\ k \in DOMAIN SizesAt => /\ Says(s, SizesAt[k], allocation_size(n.size))
                             /\ Says(s, SizesAt[k] + 8, n.size)
  /\ k = "STREAM" => Says(s, 8, n.size) /\ Says(s, 16, allocation_size(n.size))
  /\ k \in DOMAIN AttributesAt => Says(s, AttributesAt[k], file_attributes(n.dir))
  /\ k \in DOMAIN AccessAt /\ m => Says(s, AccessAt[k], read_only(n.dir))

LEMMA FileClassIs ==
  \A n \in File : \A class \in DOMAIN FileClasses(n) :
    /\ Whole(class, FileClasses(n)[class])
    /\ FileClasses(n)[class] # <<>> => SaysRight(class, FileClasses(n)[class], n, TRUE)
<1> SUFFICES ASSUME NEW n \in File, NEW class \in DOMAIN FileClasses(n)
             PROVE  /\ Whole(class, FileClasses(n)[class])
                    /\ FileClasses(n)[class] # <<>> =>
                         SaysRight(class, FileClasses(n)[class], n, TRUE)
  OBVIOUS
<1> USE Tables, Places
<1>1. CASE class = "BASIC"
  <2> DEFINE s == file_basic(n)
  <2>1. FileClasses(n)[class] = s
    BY <1>1, Zenon DEF FileClasses
  <2>2. Whole(class, s)
    BY <1>1, BasicIs DEF Whole, ToldAt, File
  <2>3. SaysRight(class, s, n, TRUE)
    BY <1>1, BasicIs DEF SaysRight
  <2> QED
    BY <2>1, <2>2, <2>3
<1>2. CASE class = "STANDARD"
  <2> DEFINE s == file_standard(n)
  <2>1. FileClasses(n)[class] = s
    BY <1>2, Zenon DEF FileClasses
  <2>2. Whole(class, s)
    BY <1>2, StandardIs DEF Whole, ToldAt, File
  <2>3. SaysRight(class, s, n, TRUE)
    BY <1>2, StandardIs DEF SaysRight
  <2> QED
    BY <2>1, <2>2, <2>3
<1>3. CASE class = "INTERNAL"
  <2> DEFINE s == file_internal
  <2>1. FileClasses(n)[class] = s
    BY <1>3, Zenon DEF FileClasses
  <2>2. Whole(class, s)
    BY <1>3, SmallAre DEF Whole, ToldAt, File
  <2>3. SaysRight(class, s, n, TRUE)
    BY <1>3, SmallAre DEF SaysRight
  <2> QED
    BY <2>1, <2>2, <2>3
<1>4. CASE class = "EA"
  <2> DEFINE s == file_ea
  <2>1. FileClasses(n)[class] = s
    BY <1>4, Zenon DEF FileClasses
  <2>2. Whole(class, s)
    BY <1>4, SmallAre DEF Whole, ToldAt, File
  <2>3. SaysRight(class, s, n, TRUE)
    BY <1>4, SmallAre DEF SaysRight
  <2> QED
    BY <2>1, <2>2, <2>3
<1>5. CASE class = "ACCESS"
  <2> DEFINE s == file_access(n)
  <2>1. FileClasses(n)[class] = s
    BY <1>5, Zenon DEF FileClasses
  <2>2. Whole(class, s)
    BY <1>5, SmallAre DEF Whole, ToldAt, File
  <2>3. SaysRight(class, s, n, TRUE)
    BY <1>5, SmallAre DEF SaysRight
  <2> QED
    BY <2>1, <2>2, <2>3
<1>6. CASE class = "NAME"
  <2> DEFINE s == file_name(n)
  <2>1. FileClasses(n)[class] = s
    BY <1>6, Zenon DEF FileClasses
  <2>2. Whole(class, s)
    BY <1>6, NameIs DEF Whole, ToldAt, File
  <2>3. SaysRight(class, s, n, TRUE)
    BY <1>6, NameIs DEF SaysRight
  <2> QED
    BY <2>1, <2>2, <2>3
<1>7. CASE class = "POSITION"
  <2> DEFINE s == file_position
  <2>1. FileClasses(n)[class] = s
    BY <1>7, Zenon DEF FileClasses
  <2>2. Whole(class, s)
    BY <1>7, SmallAre DEF Whole, ToldAt, File
  <2>3. SaysRight(class, s, n, TRUE)
    BY <1>7, SmallAre DEF SaysRight
  <2> QED
    BY <2>1, <2>2, <2>3
<1>8. CASE class = "MODE"
  <2> DEFINE s == file_mode
  <2>1. FileClasses(n)[class] = s
    BY <1>8, Zenon DEF FileClasses
  <2>2. Whole(class, s)
    BY <1>8, SmallAre DEF Whole, ToldAt, File
  <2>3. SaysRight(class, s, n, TRUE)
    BY <1>8, SmallAre DEF SaysRight
  <2> QED
    BY <2>1, <2>2, <2>3
<1>9. CASE class = "ALIGNMENT"
  <2> DEFINE s == file_alignment
  <2>1. FileClasses(n)[class] = s
    BY <1>9, Zenon DEF FileClasses
  <2>2. Whole(class, s)
    BY <1>9, SmallAre DEF Whole, ToldAt, File
  <2>3. SaysRight(class, s, n, TRUE)
    BY <1>9, SmallAre DEF SaysRight
  <2> QED
    BY <2>1, <2>2, <2>3
<1>10. CASE class = "ALL"
  <2> DEFINE s == file_all(n)
  <2>1. FileClasses(n)[class] = s
    BY <1>10, Zenon DEF FileClasses
  <2>2. Whole(class, s)
    BY <1>10, AllIs DEF Whole, ToldAt, File
  <2>3. SaysRight(class, s, n, TRUE)
    BY <1>10, AllIs DEF SaysRight
  <2> QED
    BY <2>1, <2>2, <2>3
<1>11. CASE class = "NETWORK_OPEN"
  <2> DEFINE s == file_network_open(n)
  <2>1. FileClasses(n)[class] = s
    BY <1>11, Zenon DEF FileClasses
  <2>2. Whole(class, s)
    BY <1>11, NetworkOpenIs DEF Whole, ToldAt, File
  <2>3. SaysRight(class, s, n, TRUE)
    BY <1>11, NetworkOpenIs DEF SaysRight
  <2> QED
    BY <2>1, <2>2, <2>3
<1>12. CASE class = "ATTRIBUTE_TAG"
  <2> DEFINE s == file_attribute_tag(n)
  <2>1. FileClasses(n)[class] = s
    BY <1>12, Zenon DEF FileClasses
  <2>2. Whole(class, s)
    BY <1>12, TagIs DEF Whole, ToldAt, File
  <2>3. SaysRight(class, s, n, TRUE)
    BY <1>12, TagIs DEF SaysRight
  <2> QED
    BY <2>1, <2>2, <2>3
<1>13. CASE class = "STREAM"
  <2>1. FileClasses(n)[class] = file_stream(n)
    BY <1>13, Zenon DEF FileClasses
  <2>2. CASE n.dir
    <3>1. file_stream(n) = <<>> /\ Buffer(<<>>, 0)
      BY <2>2 DEF file_stream, Buffer
    <3> QED
      BY <1>13, <2>1, <3>1 DEF Whole
  <2>3. CASE ~n.dir
    <3>1. Whole(class, file_stream(n))
      BY <1>13, <2>3, StreamIs DEF Whole
    <3>2. SaysRight(class, file_stream(n), n, TRUE)
      BY <1>13, <2>3, StreamIs DEF SaysRight
    <3> QED
      BY <2>1, <3>1, <3>2
  <2> QED
    BY <2>2, <2>3 DEF File
<1> QED
  BY <1>1, <1>2, <1>3, <1>4, <1>5, <1>6, <1>7, <1>8, <1>9, <1>10, <1>11, <1>12, <1>13
  DEF FileClasses

LEMMA FsClassIs ==
  \A v \in Volume : \A class \in DOMAIN FsClasses(v) :
    /\ Whole(class, FsClasses(v)[class])
    /\ class \notin DOMAIN SizesAt \cup DOMAIN AttributesAt \cup DOMAIN AccessAt \cup { "STREAM" }
<1> SUFFICES ASSUME NEW v \in Volume, NEW class \in DOMAIN FsClasses(v)
             PROVE  Whole(class, FsClasses(v)[class])
  BY Places DEF FsClasses
<1> USE Tables
<1>1. CASE class = "VOLUME"
  <2>1. FsClasses(v)[class] = fs_volume(v)
    BY <1>1, Zenon DEF FsClasses
  <2> QED
    BY <1>1, <2>1, VolumeIs DEF Whole, ToldAt, Volume
<1>2. CASE class = "SIZE"
  <2>1. FsClasses(v)[class] = fs_size(v)
    BY <1>2, Zenon DEF FsClasses
  <2> QED
    BY <1>2, <2>1, FsSizeIs DEF Whole
<1>3. CASE class = "FULL_SIZE"
  <2>1. FsClasses(v)[class] = fs_full_size(v)
    BY <1>3, Zenon DEF FsClasses
  <2> QED
    BY <1>3, <2>1, FullSizeIs DEF Whole
<1>4. CASE class = "DEVICE"
  <2>1. FsClasses(v)[class] = fs_device
    BY <1>4, Zenon DEF FsClasses
  <2> QED
    BY <1>4, <2>1, DeviceIs DEF Whole
<1>5. CASE class = "ATTRIBUTE"
  <2>1. FsClasses(v)[class] = fs_attribute
    BY <1>5, Zenon DEF FsClasses
  <2> QED
    BY <1>5, <2>1, FsAttributeIs DEF Whole, ToldAt
<1>6. CASE class = "SECTOR_SIZE"
  <2>1. FsClasses(v)[class] = fs_sector_size
    BY <1>6, Zenon DEF FsClasses
  <2> QED
    BY <1>6, <2>1, SectorSizeIs DEF Whole
<1> QED
  BY <1>1, <1>2, <1>3, <1>4, <1>5, <1>6 DEF FsClasses

-----------------------------------------------------------------------------
(* FileInfo: an answer fitted to the client's buffer.                      *)

\* The cut is within the buffer, not before the string, between two units, and
\* as near to the buffer's end as that allows.
LEMMA CutIs ==
  \A off \in Nat : \A n \in Nat : off <= n =>
    /\ CutAt(off, n) \in Nat /\ off <= CutAt(off, n) /\ CutAt(off, n) <= n
    /\ (CutAt(off, n) - off) % 2 = 0 /\ CutAt(off, n) + 1 >= n
<1> SUFFICES ASSUME NEW off \in Nat, NEW n \in Nat, off <= n
             PROVE  /\ CutAt(off, n) \in Nat /\ off <= CutAt(off, n) /\ CutAt(off, n) <= n
                    /\ (CutAt(off, n) - off) % 2 = 0 /\ CutAt(off, n) + 1 >= n
  OBVIOUS
<1> DEFINE q == (n - off) \div 2
<1>1. q \in Nat /\ 2 * q <= n - off /\ n - off <= 2 * q + 1
  <2>1. n - off \in Nat
    OBVIOUS
  <2> QED
    BY <2>1, SMTT(30)
<1>2. CutAt(off, n) = off + q * 2
  BY DEF CutAt
<1> HIDE DEF q
<1>3. (q * 2) % 2 = 0
  BY <1>1, SMTT(30)
<1>4. (off + q * 2) - off = q * 2
  BY <1>1
<1> QED
  BY <1>1, <1>2, <1>3, <1>4

\* A cut answer is the beginning of the whole one, and says what that says there.
LEMMA CutSays ==
  \A s, len : \A c \in Nat : Buffer(s, len) /\ c <= len =>
    /\ Len(SubSeq(s, 1, c)) = c /\ IsPrefix(SubSeq(s, 1, c), s)
    /\ \A o, v : Says(s, o, v) /\ o < c => Says(SubSeq(s, 1, c), o, v)
<1> SUFFICES ASSUME NEW s, NEW len, NEW c \in Nat, Buffer(s, len), c <= len
             PROVE  /\ Len(SubSeq(s, 1, c)) = c /\ IsPrefix(SubSeq(s, 1, c), s)
                    /\ \A o, v : Says(s, o, v) /\ o < c => Says(SubSeq(s, 1, c), o, v)
  OBVIOUS
<1> DEFINE S == {s[i] : i \in 1 .. len}
           t == SubSeq(s, 1, c)
<1>1. s \in Seq(S) /\ Len(s) = len /\ len \in Nat /\ c \in 0 .. len
  BY DEF Buffer
<1>2. t \in Seq(S) /\ Len(t) = c /\ \A i \in 1 .. c : t[i] = s[i]
  <2> HIDE DEF S
  <2> QED
    BY <1>1, CutAfter
<1>3. SubSeq(t, 1, c) = t
  <2> HIDE DEF S, t
  <2>1. c \in 0 .. Len(t) /\ c \in Nat
    BY <1>2
  <2>2. Len(SubSeq(t, 1, c)) = c /\ \A i \in 1 .. c : SubSeq(t, 1, c)[i] = t[i]
        /\ SubSeq(t, 1, c) \in Seq(S)
    BY <1>2, <2>1, CutAfter
  <2> QED
    BY <1>2, <2>2, SeqEqual
<1>4. IsPrefix(t, s)
  <2>1. SubSeq(t, 1, c) = SubSeq(s, 1, c)
    BY <1>3
  <2> HIDE DEF t
  <2> QED
    BY <1>1, <1>2, <2>1, Zenon DEF IsPrefix
<1>5. ASSUME NEW o, NEW v, Says(s, o, v), o < c
      PROVE  Says(t, o, v)
  <2> HIDE DEF t
  <2>1. o \in 0 .. c - 1 /\ o + 1 \in 1 .. c /\ s[o + 1][2] = v
    BY <1>1, <1>5 DEF Says
  <2> QED
    BY <1>2, <2>1 DEF Says
<1> QED
  BY <1>2, <1>4, <1>5


\* What is fitted to a buffer of n bytes of an answer s of that class: no more than
\* fits; if it is cut it says so and with what length it would not be.
FitsAs(class, s, n) ==
  LET r     == Fitted(class, s, n)
      off   == Strings[class][2]
      told  == off + r.buf[ToldAt(class) + 1][2]
      again == Fitted(class, s, told)
  IN /\ Len(r.buf) <= n
     /\ r.status = "BUFFER_OVERFLOW" =>
          /\ class \in DOMAIN Strings
          /\ Len(r.buf) >= off /\ (Len(r.buf) - off) % 2 = 0 /\ Len(r.buf) + 1 >= n
          /\ again.status = "SUCCESS" /\ Len(again.buf) = told
          /\ IsPrefix(r.buf, again.buf)

LEMMA FittedIs ==
  \A class, s : \A n \in Nat : Whole(class, s) =>
    /\ FitsAs(class, s, n)
    /\ Fitted(class, s, n).buf # <<>> =>
         \A o, v : Says(s, o, v) /\ (class \in DOMAIN Strings => o < Strings[class][2]) =>
                     Says(Fitted(class, s, n).buf, o, v)
<1> SUFFICES ASSUME NEW class, NEW s, NEW n \in Nat, Whole(class, s)
             PROVE  /\ FitsAs(class, s, n)
                    /\ Fitted(class, s, n).buf # <<>> =>
                         \A o, v : Says(s, o, v)
                                   /\ (class \in DOMAIN Strings => o < Strings[class][2]) =>
                                     Says(Fitted(class, s, n).buf, o, v)
  OBVIOUS
<1>1. PICK len \in Nat :
        /\ Buffer(s, len)
        /\ class \in DOMAIN Strings => Says(s, ToldAt(class), len - Strings[class][2])
  BY DEF Whole
<1>2. Len(s) = len
  BY <1>1 DEF Buffer
<1> DEFINE least == IF class \in DOMAIN Strings THEN Strings[class][1] ELSE len
           off   == Strings[class][2]
<1>3. class \in DOMAIN Strings =>
        least \in Nat /\ off \in Nat /\ ToldAt(class) \in Nat /\ ToldAt(class) < off
        /\ off <= least
  BY Tables DEF ToldAt
<1>4. CASE n < least
  <2>1. Fitted(class, s, n) = Refusal("INFO_LENGTH_MISMATCH")
    BY <1>2, <1>4 DEF Fitted
  <2>2. Fitted(class, s, n).status = "INFO_LENGTH_MISMATCH" /\ Fitted(class, s, n).buf = <<>>
    BY <2>1 DEF Refusal
  <2>3. Len(<<>>) = 0
    OBVIOUS
  <2> QED
    BY <2>2, <2>3 DEF FitsAs
<1>5. CASE ~(n < least) /\ len <= n
  <2>1. Fitted(class, s, n) = [status |-> "SUCCESS", buf |-> s]
    BY <1>2, <1>5 DEF Fitted
  <2>2. Fitted(class, s, n).status = "SUCCESS" /\ Fitted(class, s, n).buf = s
    BY <2>1
  <2> QED
    BY <1>2, <1>5, <2>2 DEF FitsAs
<1>6. CASE ~(n < least) /\ ~(len <= n)
  <2>1. class \in DOMAIN Strings
    BY <1>6
  <2> DEFINE c == CutAt(off, n)
             t == SubSeq(s, 1, c)
  <2>2. Fitted(class, s, n) = [status |-> "BUFFER_OVERFLOW", buf |-> t]
    BY <1>2, <1>6, Zenon DEF Fitted
  <2> HIDE DEF t
  <2>3. Fitted(class, s, n).status = "BUFFER_OVERFLOW" /\ Fitted(class, s, n).buf = t
    BY <2>2
  <2>4. off \in Nat /\ least \in Nat /\ off <= n
    BY <1>3, <1>6, <2>1
  <2>5. c \in Nat /\ off <= c /\ c <= n /\ (c - off) % 2 = 0 /\ c + 1 >= n
    BY <2>4, CutIs
  <2>6. c <= len
    BY <1>6, <2>5
  <2> HIDE DEF c
  <2>7. Len(t) = c /\ IsPrefix(t, s) /\ \A o, v : Says(s, o, v) /\ o < c => Says(t, o, v)
    BY <1>1, <2>5, <2>6, CutSays, Zenon DEF t
  <2>8. Says(t, ToldAt(class), len - off)
    <3>1. ToldAt(class) < c
      BY <1>3, <2>1, <2>5
    <3> QED
      BY <1>1, <2>1, <2>7, <3>1
  <2>9. off + t[ToldAt(class) + 1][2] = len
    BY <2>4, <2>8 DEF Says
  <2>10. Fitted(class, s, len) = [status |-> "SUCCESS", buf |-> s]
    <3>1. ~(len < least)
      BY <1>6, <2>4
    <3> QED
      BY <1>2, <3>1 DEF Fitted
  <2>11. FitsAs(class, s, n)
    <3>1. Fitted(class, s, len).status = "SUCCESS" /\ Fitted(class, s, len).buf = s
      BY <2>10
    <3> QED
      BY <1>2, <2>1, <2>3, <2>5, <2>7, <2>9, <3>1, Zenon DEF FitsAs
  <2>12. ASSUME NEW o, NEW v, Says(s, o, v), o < off PROVE Says(t, o, v)
    <3>1. o \in Int /\ o < c
      BY <2>4, <2>5, <2>12, <1>2 DEF Says
    <3> QED
      BY <2>7, <2>12, <3>1
  <2> QED
    BY <2>1, <2>3, <2>11, <2>12
<1> QED
  BY <1>4, <1>5, <1>6


-----------------------------------------------------------------------------
(* FileInfo: what the response in hand answers.                            *)

\* A CREATE, of a file that is there if it succeeded.
ToCreate ==
  \E q \in CreateRequests :
    response = [kind |-> "CREATE", asked |-> q, status |-> Verdict(q),
                buf |-> IF Verdict(q) = "SUCCESS" THEN CreateReply(q.node, q.max_access) ELSE <<>>]

\* A QUERY_INFO, of what is still open and of the volume that is still shared.
ToQuery ==
  \E type \in DOMAIN Classes : \E class \in Classes[type], n \in OutputLengths :
    response = [kind |-> class, asked |-> [type |-> type, output_len |-> n],
                status |-> query_info(handle, volume, type, class, n).status,
                buf |-> query_info(handle, volume, type, class, n).buf]

\* A CLOSE.
ToClose ==
  \E node \in Nodes, postquery \in BOOLEAN :
    response = [kind |-> "CLOSE", asked |-> [node |-> node, postquery |-> postquery],
                status |-> "SUCCESS", buf |-> CloseReply(node, postquery)]

InfoInv ==
  /\ volume \in Volumes
  /\ handle # Nothing => handle.node \in Nodes /\ handle.valid \in BOOLEAN
  /\ response # Nothing => ToCreate \/ ToQuery \/ ToClose

\* What succeeds is a file that is there.
LEMMA VerdictMeans ==
  \A q \in CreateRequests :
    Verdict(q) \in InfoStatuses /\ (Verdict(q) = "SUCCESS" => q.node \in Nodes)
<1> SUFFICES ASSUME NEW q \in CreateRequests
             PROVE  Verdict(q) \in InfoStatuses /\ (Verdict(q) = "SUCCESS" => q.node \in Nodes)
  OBVIOUS
<1>1. Verdict(q) \in InfoStatuses
  BY Zenon DEF Verdict, InfoStatuses
<1>2. q.node \in Nodes \cup { Missing }
  BY DEF CreateRequests
<1>3. q.node = Missing => Verdict(q) # "SUCCESS"
  BY DEF Verdict
<1> QED
  BY <1>1, <1>2, <1>3

LEMMA InitInfo == InfoInit => InfoInv
BY DEF InfoInit, InfoInv

\* The status and the bytes of a response.
LEMMA RefusalIs == \A st : Refusal(st).status = st /\ Refusal(st).buf = <<>>
BY DEF Refusal

LEMMA CreateKeeps ==
  ASSUME InfoInv, NEW q \in CreateRequests, Create(q)
  PROVE  InfoInv'
<1>1. volume' = volume /\ volume \in Volumes
  BY DEF Create, Replies, InfoInv
<1>2. ToCreate'
  <2>1. CASE Verdict(q) = "SUCCESS"
    <3>1. response' = [kind |-> "CREATE", asked |-> q, status |-> Verdict(q),
                       buf |-> CreateReply(q.node, q.max_access)]
      BY <2>1, Zenon DEF Create, Replies
    <3> QED
      BY <2>1, <3>1, Zenon DEF ToCreate
  <2>2. CASE Verdict(q) # "SUCCESS"
    <3>1. response' = [kind |-> "CREATE", asked |-> q, status |-> Verdict(q), buf |-> <<>>]
      BY <2>2, RefusalIs, Zenon DEF Create, Replies
    <3> QED
      BY <2>2, <3>1, Zenon DEF ToCreate
  <2> QED
    BY <2>1, <2>2
<1>3. handle' # Nothing => handle'.node \in Nodes /\ handle'.valid \in BOOLEAN
  <2>1. CASE Verdict(q) = "SUCCESS"
    <3>1. handle' = [node |-> q.node, valid |-> TRUE]
      BY <2>1 DEF Create
    <3> QED
      BY <2>1, <3>1, VerdictMeans
  <2>2. CASE Verdict(q) # "SUCCESS"
    BY <2>2 DEF Create
  <2> QED
    BY <2>1, <2>2
<1> QED
  BY <1>1, <1>2, <1>3 DEF InfoInv

LEMMA QueryKeeps ==
  ASSUME InfoInv, NEW type \in DOMAIN Classes, NEW class \in Classes[type], NEW n \in OutputLengths,
         QueryClass(type, class, n)
  PROVE  InfoInv'
<1>1. volume' = volume /\ handle' = handle
  BY DEF QueryClass, Replies
<1>2. response' = [kind |-> class, asked |-> [type |-> type, output_len |-> n],
                   status |-> query_info(handle, volume, type, class, n).status,
                   buf |-> query_info(handle, volume, type, class, n).buf]
  BY Zenon DEF QueryClass, Replies
<1>3. ToQuery'
  BY <1>1, <1>2, Zenon DEF ToQuery
<1> QED
  BY <1>1, <1>3 DEF InfoInv

LEMMA CloseKeeps ==
  ASSUME InfoInv, NEW postquery \in BOOLEAN, CloseHandle(postquery)
  PROVE  InfoInv'
<1>1. volume' = volume /\ handle' = Nothing /\ handle.node \in Nodes
  BY DEF CloseHandle, Replies, InfoInv
<1>2. response' = [kind |-> "CLOSE", asked |-> [node |-> handle.node, postquery |-> postquery],
                   status |-> "SUCCESS", buf |-> CloseReply(handle.node, postquery)]
  BY Zenon DEF CloseHandle, Replies
<1>3. ToClose'
  BY <1>1, <1>2, Zenon DEF ToClose
<1> QED
  BY <1>1, <1>3 DEF InfoInv

LEMMA LoadedKeeps == ASSUME InfoInv, Loaded PROVE InfoInv'
<1>1. volume' \in Volumes /\ response' = Nothing
  BY DEF Loaded
<1>2. handle' # Nothing => handle'.node \in Nodes /\ handle'.valid \in BOOLEAN
  <2>1. CASE handle = Nothing
    BY <2>1 DEF Loaded
  <2>2. CASE handle # Nothing
    <3>1. handle' = [handle EXCEPT !.valid = FALSE]
      BY <2>2 DEF Loaded
    <3> QED
      BY <2>2, <3>1 DEF InfoInv
  <2> QED
    BY <2>1, <2>2
<1> QED
  BY <1>1, <1>2 DEF InfoInv

LEMMA InfoStep == ASSUME InfoInv, [InfoNext]_infoVars PROVE InfoInv'
<1>1. CASE \E q \in CreateRequests : Create(q)
  BY <1>1, CreateKeeps
<1>2. CASE \E type \in DOMAIN Classes : \E class \in Classes[type], n \in OutputLengths :
             QueryClass(type, class, n)
  BY <1>2, QueryKeeps
<1>3. CASE \E postquery \in BOOLEAN : CloseHandle(postquery)
  BY <1>3, CloseKeeps
<1>4. CASE Loaded
  BY <1>4, LoadedKeeps
<1>5. CASE Taken
  BY <1>5 DEF Taken, InfoInv
<1>6. CASE UNCHANGED infoVars
  BY <1>6 DEF infoVars, InfoInv, ToCreate, ToQuery, ToClose
<1> QED
  BY <1>1, <1>2, <1>3, <1>4, <1>5, <1>6 DEF InfoNext

LEMMA InfoInvariant == InfoSpec => []InfoInv
BY InitInfo, InfoStep, PTL DEF InfoSpec


-----------------------------------------------------------------------------
(* FileInfo: what the response tells is right.                             *)

\* The value of a field that says v is v.
LEMMA AtSays == \A o, v : Says(response.buf, o, v) => At(o) = v
BY DEF Says, At

\* The rights that are told leave no way to write, and directories are told apart.
LEMMA RightsAre ==
  /\ \A dir : read_only(dir) \cap WRITE_BITS = {}
  /\ \A dir \in BOOLEAN : ("DIRECTORY" \in file_attributes(dir)) = dir
BY DEF read_only, READ_ONLY_FILE, WRITE_BITS, file_attributes

\* What says of a file what there is to say is what SaysSame asks for.
LEMMA RightIsSame ==
  ASSUME NEW n \in File, NEW k, NEW m, SaysRight(k, response.buf, n, m)
  PROVE  /\ k \in DOMAIN SizesAt => /\ At(SizesAt[k]) >= At(SizesAt[k] + 8)
                                    /\ At(SizesAt[k] + 8) = n.size
         /\ k = "STREAM" => At(8) = n.size /\ At(16) >= n.size
         /\ k \in DOMAIN AttributesAt => ("DIRECTORY" \in At(AttributesAt[k])) = n.dir
         /\ k \in DOMAIN AccessAt /\ m => At(AccessAt[k]) \cap WRITE_BITS = {}
<1>1. n.size \in 0 .. U64_MAX /\ n.dir \in BOOLEAN
  BY DEF File
<1>2. allocation_size(n.size) >= n.size
  BY <1>1, AllocationIs
<1>3. k \in DOMAIN SizesAt =>
        At(SizesAt[k]) = allocation_size(n.size) /\ At(SizesAt[k] + 8) = n.size
  BY AtSays, Zenon DEF SaysRight
<1>4. k = "STREAM" => At(8) = n.size /\ At(16) = allocation_size(n.size)
  BY AtSays, Zenon DEF SaysRight
<1>5. k \in DOMAIN AttributesAt => At(AttributesAt[k]) = file_attributes(n.dir)
  BY AtSays, Zenon DEF SaysRight
<1>6. k \in DOMAIN AccessAt /\ m => At(AccessAt[k]) = read_only(n.dir)
  BY AtSays, Zenon DEF SaysRight
<1>7. k \in DOMAIN AttributesAt => ("DIRECTORY" \in At(AttributesAt[k])) = n.dir
  BY <1>1, <1>5, RightsAre, Zenon
<1>8. k \in DOMAIN AccessAt /\ m => At(AccessAt[k]) \cap WRITE_BITS = {}
  BY <1>6, RightsAre, Zenon
<1>9. k \in DOMAIN SizesAt => At(SizesAt[k]) >= At(SizesAt[k] + 8) /\ At(SizesAt[k] + 8) = n.size
  BY <1>2, <1>3
<1>10. k = "STREAM" => At(8) = n.size /\ At(16) >= n.size
  BY <1>2, <1>4
<1> QED
  BY <1>7, <1>8, <1>9, <1>10

LEMMA FilesAre ==
  /\ Nodes \subseteq File /\ Volumes \subseteq Volume /\ OutputLengths \subseteq Nat
BY InfoAssumption DEF File, Volume

LEMMA CreateAnswers == ASSUME InfoInv, ToCreate PROVE FitsBuffer /\ SaysSame /\ WriteAsked
<1>1. PICK q \in CreateRequests :
        response = [kind |-> "CREATE", asked |-> q, status |-> Verdict(q),
                    buf |-> IF Verdict(q) = "SUCCESS" THEN CreateReply(q.node, q.max_access)
                            ELSE <<>>]
  BY Zenon DEF ToCreate
<1> DEFINE b == IF Verdict(q) = "SUCCESS" THEN CreateReply(q.node, q.max_access) ELSE <<>>
<1>2. /\ response.kind = "CREATE" /\ response.asked = q /\ response.status = Verdict(q)
      /\ response.buf = b
  <2> HIDE DEF b
  <2>1. response = [kind |-> "CREATE", asked |-> q, status |-> Verdict(q), buf |-> b]
    BY <1>1, Zenon DEF b
  <2> QED
    BY <2>1
<1> HIDE DEF b
<1>3. FitsBuffer
  BY <1>2, Zenon DEF FitsBuffer
<1>4. SaysSame
  <2>1. CASE Verdict(q) = "SUCCESS"
    <3>1. q.node \in File /\ q.max_access \in BOOLEAN
      BY <2>1, VerdictMeans, FilesAre DEF CreateRequests
    <3>2. CASE q.max_access = TRUE
      <4>1. response.buf = CreateReply(q.node, TRUE)
        BY <1>2, <2>1, <3>2, Zenon DEF b
      <4>2. SaysRight("CREATE", response.buf, q.node, TRUE)
        <5>1. /\ Says(response.buf, 40, allocation_size(q.node.size))
              /\ Says(response.buf, 48, q.node.size)
              /\ Says(response.buf, 56, file_attributes(q.node.dir))
              /\ Says(response.buf, 116, read_only(q.node.dir))
          BY <3>1, <4>1, CreateReplyIs, Zenon
        <5> QED
          BY <5>1, Places DEF SaysRight
      <4> QED
        BY <1>2, <3>1, <3>2, <4>2, RightIsSame, Zenon DEF SaysSame
    <3>3. CASE q.max_access = FALSE
      <4>1. response.buf = CreateReply(q.node, FALSE)
        BY <1>2, <2>1, <3>3, Zenon DEF b
      <4>2. SaysRight("CREATE", response.buf, q.node, FALSE)
        <5>1. /\ Says(response.buf, 40, allocation_size(q.node.size))
              /\ Says(response.buf, 48, q.node.size)
              /\ Says(response.buf, 56, file_attributes(q.node.dir))
          BY <3>1, <4>1, PlainReplyIs, Zenon
        <5> QED
          BY <5>1, Places DEF SaysRight
      <4>3. /\ At(SizesAt["CREATE"]) >= At(SizesAt["CREATE"] + 8)
            /\ At(SizesAt["CREATE"] + 8) = q.node.size
            /\ ("DIRECTORY" \in At(AttributesAt["CREATE"])) = q.node.dir
        <5>1. "CREATE" \in DOMAIN SizesAt /\ "CREATE" \in DOMAIN AttributesAt
          BY Places
        <5>2. \A m : SaysRight("CREATE", response.buf, q.node, m) =>
                /\ At(SizesAt["CREATE"]) >= At(SizesAt["CREATE"] + 8)
                /\ At(SizesAt["CREATE"] + 8) = q.node.size
                /\ ("DIRECTORY" \in At(AttributesAt["CREATE"])) = q.node.dir
          BY <3>1, <5>1, RightIsSame, Zenon
        <5> QED
          BY <4>2, <5>2, Zenon
      <4>4. ~response.asked.max_access /\ response.kind # "STREAM"
        BY <1>2, <3>3
      <4> QED
        BY <1>2, <4>3, <4>4, Zenon DEF SaysSame
    <3> QED
      BY <3>1, <3>2, <3>3, Zenon
  <2>2. CASE Verdict(q) # "SUCCESS"
    <3>1. response.buf = <<>>
      BY <1>2, <2>2, Zenon DEF b
    <3> QED
      BY <3>1, Zenon DEF SaysSame
  <2> QED
    BY <2>1, <2>2
<1>5. WriteAsked
  <2>1. ASSUME q.desired \cap WRITE_BITS # {}, NEW n \in Nodes \cup { Missing }
        PROVE  Verdict([q EXCEPT !.node = n]) = Verdict(q)
    <3>1. [q EXCEPT !.node = n].desired = q.desired
      BY DEF CreateRequests
    <3>2. ASSUME NEW x, x.desired \cap WRITE_BITS # {} PROVE Verdict(x) = "ACCESS_DENIED"
      BY <3>2 DEF Verdict
    <3> QED
      BY <2>1, <3>1, <3>2
  <2> QED
    BY <1>2, <2>1, Zenon DEF WriteAsked
<1> QED
  BY <1>3, <1>4, <1>5


\* What a cut answer keeps of a file is what there is to say of it.
LEMMA RightWhenCut ==
  ASSUME NEW class, NEW s, NEW t, NEW n, SaysRight(class, s, n, TRUE),
         \A o, v : Says(s, o, v) /\ (class \in DOMAIN Strings => o < Strings[class][2]) =>
                     Says(t, o, v)
  PROVE  SaysRight(class, t, n, TRUE)
<1>1. class \in DOMAIN SizesAt /\ class \in DOMAIN Strings =>
        SizesAt[class] < Strings[class][2] /\ SizesAt[class] + 8 < Strings[class][2]
  BY Tables, Places
<1>2. class \in DOMAIN AttributesAt /\ class \in DOMAIN Strings =>
        AttributesAt[class] < Strings[class][2]
  BY Tables, Places
<1>3. class \in DOMAIN AccessAt /\ class \in DOMAIN Strings => AccessAt[class] < Strings[class][2]
  BY Tables, Places
<1>4. class = "STREAM" => class \notin DOMAIN Strings
  BY Tables
<1> QED
  BY <1>1, <1>2, <1>3, <1>4, Zenon DEF SaysRight

\* What a buffer has room for of no answer at all.
LEMMA NothingFitted ==
  \A class : \A n \in Nat : Whole(class, <<>>) => Fitted(class, <<>>, n).buf = <<>>
<1> SUFFICES ASSUME NEW class, NEW n \in Nat, Whole(class, <<>>)
             PROVE  Fitted(class, <<>>, n).buf = <<>>
  OBVIOUS
<1>1. Len(<<>>) = 0
  OBVIOUS
<1>2. class \notin DOMAIN Strings
  <2>1. \A o, v : ~Says(<<>>, o, v)
    BY <1>1 DEF Says
  <2> QED
    BY <2>1, Zenon DEF Whole
<1>3. Fitted(class, <<>>, n) = [status |-> "SUCCESS", buf |-> <<>>]
  BY <1>1, <1>2 DEF Fitted
<1> QED
  BY <1>3

LEMMA ClassNames ==
  \A type \in DOMAIN Classes : \A class \in Classes[type] :
    type \in { "FILE", "FILESYSTEM", "SECURITY", "NO_TYPE" }
    /\ class \notin { "CREATE", "CLOSE" }
BY DEF Classes, FileClasses, FsClasses

\* A query that is served is answered with what fits of s.
LEMMA ServedFits ==
  ASSUME NEW type, NEW class, NEW n \in Nat, NEW s, Whole(class, s),
         class \notin { "CREATE", "CLOSE" },
         \A m : query_info(handle, volume, type, class, m) = Fitted(class, s, m),
         response.kind = class, response.asked = [type |-> type, output_len |-> n],
         response.status = Fitted(class, s, n).status, response.buf = Fitted(class, s, n).buf
  PROVE  FitsBuffer
<1>1. FitsAs(class, s, n)
  BY FittedIs
<1>2. response.asked.type = type /\ response.asked.output_len = n
  OBVIOUS
<1> DEFINE told == Strings[class][2] + response.buf[ToldAt(class) + 1][2]
<1>3. /\ Len(response.buf) <= n
      /\ response.status = "BUFFER_OVERFLOW" =>
           /\ class \in DOMAIN Strings
           /\ Len(response.buf) >= Strings[class][2]
           /\ (Len(response.buf) - Strings[class][2]) % 2 = 0 /\ Len(response.buf) + 1 >= n
           /\ Fitted(class, s, told).status = "SUCCESS" /\ Len(Fitted(class, s, told).buf) = told
           /\ IsPrefix(response.buf, Fitted(class, s, told).buf)
  BY <1>1, Zenon DEF FitsAs
<1>4. told = Strings[class][2] + At(IF class = "VOLUME" THEN 12 ELSE Strings[class][2] - 4)
  BY Zenon DEF ToldAt, At
<1> HIDE DEF told
<1>5. query_info(handle, volume, type, class, told) = Fitted(class, s, told)
  OBVIOUS
<1> QED
  BY <1>2, <1>3, <1>4, <1>5, Zenon DEF FitsBuffer

LEMMA QueryAnswers == ASSUME InfoInv, ToQuery PROVE FitsBuffer /\ SaysSame /\ WriteAsked
<1>0. PICK type \in DOMAIN Classes :
        \E class \in Classes[type], n \in OutputLengths :
          response = [kind |-> class, asked |-> [type |-> type, output_len |-> n],
                      status |-> query_info(handle, volume, type, class, n).status,
                      buf |-> query_info(handle, volume, type, class, n).buf]
  BY Zenon DEF ToQuery
<1>1. PICK class \in Classes[type], n \in OutputLengths :
        response = [kind |-> class, asked |-> [type |-> type, output_len |-> n],
                    status |-> query_info(handle, volume, type, class, n).status,
                    buf |-> query_info(handle, volume, type, class, n).buf]
  BY <1>0, Zenon
<1> DEFINE OfFile == /\ handle # Nothing /\ handle.valid /\ type = "FILE"
                     /\ class \in DOMAIN FileClasses(handle.node)
           OfVolume == /\ handle # Nothing /\ handle.valid /\ type = "FILESYSTEM"
                       /\ class \in DOMAIN FsClasses(volume)
           NotServed == \E st \in InfoStatuses \ { "BUFFER_OVERFLOW" } :
                          query_info(handle, volume, type, class, n) = Refusal(st)
<1>2. /\ response.kind = class /\ response.asked = [type |-> type, output_len |-> n]
      /\ response.status = query_info(handle, volume, type, class, n).status
      /\ response.buf = query_info(handle, volume, type, class, n).buf
  BY <1>1, Zenon
<1>3. class \notin { "CREATE", "CLOSE" } /\ n \in Nat /\ volume \in Volume
  BY ClassNames, FilesAre DEF InfoInv
<1>4. WriteAsked
  BY <1>2, <1>3 DEF WriteAsked
<1>5. CASE OfFile
  <2> DEFINE s == FileClasses(handle.node)[class]
  <2>1. handle.node \in File
    BY <1>5, FilesAre DEF InfoInv
  <2>2. class # "FULL_EA"
    BY <1>5 DEF FileClasses
  <2>3. \A m : query_info(handle, volume, type, class, m) = Fitted(class, s, m)
    BY <1>5, <2>2, Zenon DEF query_info
  <2>4. Whole(class, s) /\ (s # <<>> => SaysRight(class, s, handle.node, TRUE))
    BY <1>5, <2>1, FileClassIs, Zenon
  <2> HIDE DEF s
  <2>5. response.status = Fitted(class, s, n).status /\ response.buf = Fitted(class, s, n).buf
    BY <1>2, <2>3, Zenon
  <2>6. FitsBuffer
    BY <1>2, <1>3, <2>3, <2>4, <2>5, ServedFits, Zenon
  <2>7. SaysSame
    <3>1. CASE response.buf = <<>>
      BY <3>1, Zenon DEF SaysSame
    <3>2. CASE response.buf # <<>>
      <4>1. s # <<>>
        BY <1>3, <2>4, <2>5, <3>2, NothingFitted, Zenon
      <4>2. SaysRight(class, response.buf, handle.node, TRUE)
        <5>1. \A o, v : Says(s, o, v) /\ (class \in DOMAIN Strings => o < Strings[class][2]) =>
                          Says(response.buf, o, v)
          BY <1>3, <2>4, <2>5, <3>2, FittedIs, Zenon
        <5> QED
          BY <2>4, <4>1, <5>1, RightWhenCut, Zenon
      <4>3. response.kind \notin { "CREATE", "CLOSE" }
        BY <1>2, <1>3
      <4>4. /\ class \in DOMAIN SizesAt => /\ At(SizesAt[class]) >= At(SizesAt[class] + 8)
                                           /\ At(SizesAt[class] + 8) = handle.node.size
            /\ class = "STREAM" => At(8) = handle.node.size /\ At(16) >= handle.node.size
            /\ class \in DOMAIN AttributesAt =>
                 ("DIRECTORY" \in At(AttributesAt[class])) = handle.node.dir
            /\ class \in DOMAIN AccessAt => At(AccessAt[class]) \cap WRITE_BITS = {}
        BY <2>1, <4>2, RightIsSame, Zenon
      <4> QED
        BY <1>2, <4>3, <4>4, Zenon DEF SaysSame
    <3> QED
      BY <3>1, <3>2
  <2> QED
    BY <1>4, <2>6, <2>7
<1>6. CASE OfVolume
  <2> DEFINE s == FsClasses(volume)[class]
  <2>1. \A m : query_info(handle, volume, type, class, m) = Fitted(class, s, m)
    BY <1>6 DEF query_info
  <2>2. /\ Whole(class, s)
        /\ class \notin DOMAIN SizesAt \cup DOMAIN AttributesAt \cup DOMAIN AccessAt
                        \cup { "STREAM" }
    BY <1>3, <1>6, FsClassIs, Zenon
  <2> HIDE DEF s
  <2>3. response.status = Fitted(class, s, n).status /\ response.buf = Fitted(class, s, n).buf
    BY <1>2, <2>1, Zenon
  <2>4. FitsBuffer
    BY <1>2, <1>3, <2>1, <2>2, <2>3, ServedFits, Zenon
  <2>5. SaysSame
    BY <1>2, <2>2, Zenon DEF SaysSame
  <2> QED
    BY <1>4, <2>4, <2>5
<1>7. CASE NotServed
  <2>1. response.buf = <<>> /\ response.status # "BUFFER_OVERFLOW"
    BY <1>2, <1>7, RefusalIs
  <2>2. Len(response.buf) <= response.asked.output_len
    BY <1>2, <1>3, <2>1
  <2>3. FitsBuffer
    BY <2>1, <2>2, Zenon DEF FitsBuffer
  <2>4. SaysSame
    BY <2>1, Zenon DEF SaysSame
  <2> QED
    BY <1>4, <2>3, <2>4
<1>8. OfFile \/ OfVolume \/ NotServed
  <2>1. ASSUME ~OfFile, ~OfVolume
        PROVE  \E st \in { "FILE_CLOSED", "NOT_SUPPORTED", "INVALID_PARAMETER", "NO_EAS_ON_FILE" } :
                 query_info(handle, volume, type, class, n) = Refusal(st)
    BY <2>1 DEF query_info
  <2>2. { "FILE_CLOSED", "NOT_SUPPORTED", "INVALID_PARAMETER", "NO_EAS_ON_FILE" }
          \subseteq InfoStatuses \ { "BUFFER_OVERFLOW" }
    BY DEF InfoStatuses
  <2> QED
    BY <2>1, <2>2
<1> QED
  BY <1>5, <1>6, <1>7, <1>8


LEMMA CloseAnswers == ASSUME InfoInv, ToClose PROVE FitsBuffer /\ SaysSame /\ WriteAsked
<1>1. PICK node \in Nodes, postquery \in BOOLEAN :
        response = [kind |-> "CLOSE", asked |-> [node |-> node, postquery |-> postquery],
                    status |-> "SUCCESS", buf |-> CloseReply(node, postquery)]
  BY Zenon DEF ToClose
<1>2. /\ response.kind = "CLOSE" /\ response.buf = CloseReply(node, postquery)
      /\ response.asked.node = node /\ response.asked.postquery = postquery
  BY <1>1, Zenon
<1>3. node \in File
  BY FilesAre
<1>4. FitsBuffer /\ WriteAsked
  BY <1>2, Zenon DEF FitsBuffer, WriteAsked
<1>5. CASE postquery = TRUE
  <2>1. response.buf = CloseReply(node, TRUE)
    BY <1>2, <1>5, Zenon
  <2>2. /\ Says(response.buf, 40, allocation_size(node.size))
        /\ Says(response.buf, 48, node.size)
        /\ Says(response.buf, 56, file_attributes(node.dir))
    BY <1>3, <2>1, CloseReplyIs, Zenon
  <2>3. SaysRight("CLOSE", response.buf, node, TRUE)
    BY <2>2, Places DEF SaysRight
  <2>4. /\ "CLOSE" \notin DOMAIN AccessAt /\ "CLOSE" # "STREAM"
        /\ "CLOSE" \in DOMAIN SizesAt /\ "CLOSE" \in DOMAIN AttributesAt
    BY Places
  <2>5. \A m : SaysRight("CLOSE", response.buf, node, m) =>
          /\ At(SizesAt["CLOSE"]) >= At(SizesAt["CLOSE"] + 8)
          /\ At(SizesAt["CLOSE"] + 8) = node.size
          /\ ("DIRECTORY" \in At(AttributesAt["CLOSE"])) = node.dir
    BY <1>3, <2>4, RightIsSame, Zenon
  <2>6. /\ At(SizesAt["CLOSE"]) >= At(SizesAt["CLOSE"] + 8)
        /\ At(SizesAt["CLOSE"] + 8) = node.size
        /\ ("DIRECTORY" \in At(AttributesAt["CLOSE"])) = node.dir
    BY <2>3, <2>5, Zenon
  <2> QED
    BY <1>2, <1>4, <2>4, <2>6, Zenon DEF SaysSame
<1>6. CASE postquery = FALSE
  <2>1. ~response.asked.postquery
    BY <1>2, <1>6
  <2> QED
    BY <1>2, <1>4, <2>1, Zenon DEF SaysSame
<1> QED
  BY <1>5, <1>6

\* The types are part of what is kept.
LEMMA InfoTyped == InfoInv => InfoTypeOK
<1> SUFFICES ASSUME InfoInv PROVE InfoTypeOK
  OBVIOUS
<1>1. ASSUME ToCreate PROVE response.status \in InfoStatuses
  <2>1. PICK q \in CreateRequests : response.status = Verdict(q)
    BY <1>1 DEF ToCreate
  <2> QED
    BY <2>1, VerdictMeans
<1>2. ASSUME ToClose PROVE response.status \in InfoStatuses
  BY <1>2 DEF ToClose, InfoStatuses
<1>3. ASSUME ToQuery PROVE response.status \in InfoStatuses
  <2>1. \A class, s, n : Fitted(class, s, n).status \in InfoStatuses
    BY RefusalIs DEF Fitted, InfoStatuses
  <2>2. \A type, class, n : query_info(handle, volume, type, class, n).status \in InfoStatuses
    <3>1. { "FILE_CLOSED", "NOT_SUPPORTED", "INVALID_PARAMETER", "NO_EAS_ON_FILE" }
            \subseteq InfoStatuses
      BY DEF InfoStatuses
    <3> QED
      BY <2>1, <3>1, RefusalIs DEF query_info
  <2>3. PICK type, class, n : response.status = query_info(handle, volume, type, class, n).status
    BY <1>3 DEF ToQuery
  <2> QED
    BY <2>2, <2>3
<1> QED
  BY <1>1, <1>2, <1>3 DEF InfoInv, InfoTypeOK

\* CREATE, QUERY_INFO, CLOSE: the state keeps its types.
THEOREM InfoTypeCorrect == InfoSpec => []InfoTypeOK
BY InfoInvariant, InfoTyped, PTL

\* create, query_info, close: whatever is shared, asked and loaded meanwhile, an
\* answer fits the client's buffer or says with which it would, ways to ask of one
\* file agree, and who may not write learns nothing of what is there.
THEOREM AnswersOfInfo == InfoSpec => []InfoAnswers
<1>1. InfoInv => InfoAnswers
  BY InfoTyped, CreateAnswers, QueryAnswers, CloseAnswers DEF InfoInv, InfoAnswers
<1> QED
  BY <1>1, InfoInvariant, PTL
=============================================================================
