--------------------------- MODULE MCThreads_proofs ---------------------------
(* Proofs about the threads that answer to each other, which module          *)
(* MCThreads puts side by side: the bridges of the tunnel, for any numbers   *)
(* of connections and units and any buffers, and the readers of a compressed *)
(* archive, for any number of readers and any files.                         *)
EXTENDS MCThreads, Ordered_proofs

-----------------------------------------------------------------------------
(* Bridge: the bridges of the tunnel.  First, sequences.                   *)

\* Append under a name of its own, as Cat is concatenation.
Then(s, e) == Append(s, e)

LEMMA CatAppend ==
  ASSUME NEW S, NEW x \in Seq(S), NEW e \in S
  PROVE  <<e>> \in Seq(S) /\ Then(x, e) = Cat(x, <<e>>)
<1>1. Append(x, e) = x \o <<e>>
  BY AppendIsConcat, Zenon
<1>2. <<e>> \in Seq(S)
  OBVIOUS
<1> QED
  BY <1>1, <1>2, Zenon DEF Cat, Then

\* What is taken of a sequence and what is dropped make it up.
LEMMA TakeDrop ==
  ASSUME NEW S, NEW s \in Seq(S), NEW n \in Nat
  PROVE  /\ Take(s, n) \in Seq(S) /\ Drop(s, n) \in Seq(S)
         /\ Len(Take(s, n)) = Least2(n, Len(s))
         /\ Len(Drop(s, n)) = Len(s) - Least2(n, Len(s))
         /\ Take(s, n) \o Drop(s, n) = s
<1> DEFINE m == Least2(n, Len(s))
<1>1. Len(s) \in Nat /\ m \in Nat /\ m <= Len(s)
  BY LenProperties DEF Least2
<1>2. \A i \in 1 .. Len(s) : s[i] \in S
  BY ElementOfSeq
<1> HIDE DEF m
<1>3. /\ SubSeq(s, 1, m) \in Seq(S)
      /\ Len(SubSeq(s, 1, m)) = m
      /\ \A i \in 1 .. m : SubSeq(s, 1, m)[i] = s[i]
  <2>1. \A i \in 1 .. m : s[i] \in S
    BY <1>1, <1>2
  <2>2. /\ SubSeq(s, 1, m) \in Seq(S)
        /\ Len(SubSeq(s, 1, m)) = IF 1 <= m THEN m - 1 + 1 ELSE 0
        /\ \A i \in 1 .. m - 1 + 1 : SubSeq(s, 1, m)[i] = s[1 + i - 1]
    BY <1>1, <2>1, SubSeqProperties
  <2> QED
    BY <1>1, <2>2
<1>4. /\ SubSeq(s, m + 1, Len(s)) \in Seq(S)
      /\ Len(SubSeq(s, m + 1, Len(s))) = Len(s) - m
      /\ \A i \in 1 .. Len(s) - m : SubSeq(s, m + 1, Len(s))[i] = s[m + i]
  <2>1. \A i \in m + 1 .. Len(s) : s[i] \in S
    BY <1>1, <1>2
  <2>2. m + 1 \in Int /\ Len(s) \in Int
    BY <1>1
  <2>3. /\ SubSeq(s, m + 1, Len(s)) \in Seq(S)
        /\ Len(SubSeq(s, m + 1, Len(s))) =
             IF m + 1 <= Len(s) THEN Len(s) - (m + 1) + 1 ELSE 0
        /\ \A i \in 1 .. Len(s) - (m + 1) + 1 :
             SubSeq(s, m + 1, Len(s))[i] = s[(m + 1) + i - 1]
    BY <2>1, <2>2, SubSeqProperties
  <2> QED
    BY <1>1, <2>3
<1>5. SubSeq(s, 1, m) \o SubSeq(s, m + 1, Len(s)) = s
  <2> DEFINE a == SubSeq(s, 1, m)
             b == SubSeq(s, m + 1, Len(s))
  <2>1. /\ a \in Seq(S) /\ b \in Seq(S) /\ Len(a) = m /\ Len(b) = Len(s) - m
        /\ \A i \in 1 .. m : a[i] = s[i]
        /\ \A i \in 1 .. Len(s) - m : b[i] = s[m + i]
    BY <1>3, <1>4
  <2> HIDE DEF a, b
  <2>2. /\ a \o b \in Seq(S) /\ Len(a \o b) = Len(s)
        /\ \A i \in 1 .. Len(s) : (a \o b)[i] = IF i <= m THEN a[i] ELSE b[i - m]
    BY <1>1, <2>1, ConcatProperties
  <2>3. \A i \in 1 .. Len(s) : (a \o b)[i] = s[i]
    BY <1>1, <2>1, <2>2
  <2>4. a \o b = s
    BY <2>2, <2>3, SeqEqual
  <2> QED
    BY <2>4 DEF a, b
<1> QED
  BY <1>3, <1>4, <1>5 DEF Take, Drop, m

\* One unit more at the end of the last of four.
LEMMA AppendLast ==
  ASSUME NEW S, NEW a \in Seq(S), NEW b \in Seq(S), NEW c \in Seq(S), NEW d \in Seq(S),
         NEW e \in S
  PROVE  /\ Then(d, e) \in Seq(S) /\ Len(Then(d, e)) = Len(d) + 1
         /\ Cat(Cat(Cat(a, b), c), Then(d, e)) = Then(Cat(Cat(Cat(a, b), c), d), e)
<1> DEFINE x == Cat(Cat(a, b), c)
<1>1. x \in Seq(S) /\ Cat(x, d) \in Seq(S)
  BY CatType, Zenon
<1> HIDE DEF x
<1>2. <<e>> \in Seq(S) /\ Then(d, e) = Cat(d, <<e>>) /\ Then(Cat(x, d), e) = Cat(Cat(x, d), <<e>>)
  BY <1>1, CatAppend, Zenon
<1> DEFINE u == <<e>>
<1> HIDE DEF u
<1>5. u \in Seq(S)
  BY <1>2 DEF u
<1>6. Cat(Cat(x, d), u) = Cat(x, Cat(d, u))
  BY <1>1, <1>5, CatAssoc
<1>3. Cat(x, Then(d, e)) = Then(Cat(x, d), e)
  BY <1>2, <1>6, Zenon DEF u
<1>4. Then(d, e) \in Seq(S) /\ Len(Then(d, e)) = Len(d) + 1
  BY AppendProperties DEF Then
<1> QED
  BY <1>3, <1>4, Zenon DEF x

\* One unit from the front of a buffer to the end of what is before it.
LEMMA HandOver ==
  ASSUME NEW S, NEW a \in Seq(S), NEW b \in Seq(S), b # <<>>
  PROVE  /\ Append(a, Head(b)) \in Seq(S) /\ Len(Append(a, Head(b))) = Len(a) + 1
         /\ Tail(b) \in Seq(S) /\ Len(Tail(b)) = Len(b) - 1
         /\ Append(a, Head(b)) \o Tail(b) = a \o b
<1>1. Head(b) \in S /\ Tail(b) \in Seq(S) /\ Len(Tail(b)) = Len(b) - 1
  BY HeadTailProperties, Zenon
<1>2. b = Cat(<<Head(b)>>, Tail(b))
  <2>1. 1 \in 1 .. Len(b) /\ Len(b) \in 1 .. Len(b) /\ Head(b) = b[1] /\ 1 + 1 = 2
    BY EmptySeq
  <2>2. SubSeq(b, 1, Len(b)) = <<b[1]>> \o SubSeq(b, 1 + 1, Len(b))
    BY <2>1, SubSeqRecursiveFirst, Zenon
  <2>3. SubSeq(b, 1, Len(b)) = b /\ Tail(b) = SubSeq(b, 2, Len(b))
    BY SubSeqFull, TailIsSubSeq, Zenon
  <2> QED
    BY <2>1, <2>2, <2>3, Zenon DEF Cat
<1>3. <<Head(b)>> \in Seq(S) /\ Then(a, Head(b)) = Cat(a, <<Head(b)>>)
  BY <1>1, CatAppend, Zenon
<1> DEFINE u == <<Head(b)>>
           t == Tail(b)
<1>4. Cat(Then(a, Head(b)), Tail(b)) = Cat(a, b)
  <2>1. u \in Seq(S) /\ t \in Seq(S)
    BY <1>1, <1>3, Zenon
  <2> HIDE DEF u, t
  <2>2. Cat(Cat(a, u), t) = Cat(a, Cat(u, t))
    BY <2>1, CatAssoc
  <2> QED
    BY <1>2, <1>3, <2>2, Zenon DEF u, t
<1>5. Then(a, Head(b)) \in Seq(S) /\ Len(Then(a, Head(b))) = Len(a) + 1
  BY <1>1, AppendProperties DEF Then
<1> QED
  BY <1>1, <1>4, <1>5, Zenon DEF Cat, Then

-----------------------------------------------------------------------------
(* The invariant.                                                           *)

\* A unit as it is named.
Unit == Nat \X Nat

BridgeTypes ==
  /\ step \in {"poll", "connect", "up", "down", "finish", "stopped"}
  /\ state \in {"Listen", "SynReceived", "Established", "CloseWait", "FinWait1", "FinWait2",
                "Closing", "LastAck", "TimeWait", "Closed"}
  /\ {rx, tx, to_upstream, to_client, received, served, in, out} \subseteq Seq(Unit)
  /\ {rst_owed, upstream, upstream_eof, upstream_write_closed, listening, lost} \subseteq BOOLEAN
  /\ {conn, sent, replied} \subseteq Nat
  /\ told \in {"open", "fin", "rst"}
  /\ server \in {"open", "closed", "reset"}

\* A socket without a stream has had nothing but what the client began with; it
\* has a stream while the thread pumps and once it has sent its end.
SlotStates ==
  /\ step \in {"up", "down", "finish"} => upstream
  /\ state \in {"FinWait1", "FinWait2", "Closing", "LastAck", "TimeWait"} =>
       upstream /\ upstream_eof /\ to_client = <<>>
  /\ state = "Listen" => ~upstream /\ rx = <<>> /\ tx = <<>>
  /\ state = "SynReceived" => ~upstream /\ rx = <<>> /\ sent = 0
  /\ ~upstream =>
       /\ to_upstream = <<>> /\ to_client = <<>>
       /\ ~upstream_eof /\ ~upstream_write_closed
       /\ server # "open"
       /\ state \in {"SynReceived", "Established", "CloseWait"} =>
            rx = Units(conn, sent) /\ tx = <<>> /\ received = <<>>
  /\ upstream_eof => server # "open" /\ out = <<>>

\* What the client knows goes with the state of the socket; a reset that is owed
\* is sent before the socket listens again.
ToldOfState ==
  /\ told = "fin" => /\ server # "open" /\ tx = <<>>
                     /\ state \in {"FinWait2", "TimeWait", "Closed", "Listen"}
  /\ told = "rst" => state \in {"Closed", "Listen"}
  /\ state \in {"FinWait2", "TimeWait"} => told = "fin"
  /\ rst_owed => step = "poll" /\ state = "Closed" /\ tx = <<>> /\ ~upstream
  /\ state = "Closed" => told # "open" \/ rst_owed \/ step = "stopped"
  /\ step = "stopped" => state = "Closed"

BridgeInv == /\ BridgeTypes /\ SlotStates /\ ToldOfState
             /\ WholeStreams /\ EndsLast /\ ClientTold /\ HighWater

\* The units of a stream are a sequence, and one more goes at its end.
LEMMA UnitsSeq ==
  ASSUME NEW c \in Nat, NEW n \in Nat
  PROVE  /\ Units(c, n) \in Seq(Unit) /\ Len(Units(c, n)) = n
         /\ Units(c, 0) = <<>>
         /\ Units(c, n + 1) = Append(Units(c, n), <<c, n + 1>>)
         /\ <<c, n + 1>> \in Unit
<1>1. Units(c, n) \in Seq(Unit) /\ Len(Units(c, n)) = n /\ Units(c, 0) = <<>>
  BY DEF Units, Unit
<1>2. <<c, n + 1>> \in Unit
  BY DEF Unit
<1>3. Units(c, n + 1) \in Seq(Unit) /\ Len(Units(c, n + 1)) = n + 1
  BY DEF Units, Unit
<1> DEFINE s == Append(Units(c, n), <<c, n + 1>>)
<1>4. /\ s \in Seq(Unit) /\ Len(s) = n + 1
      /\ \A i \in 1 .. n : s[i] = Units(c, n)[i]
      /\ s[n + 1] = <<c, n + 1>>
  BY <1>1, <1>2, AppendProperties
<1> HIDE DEF s
<1>5. ASSUME NEW i \in 1 .. n + 1 PROVE s[i] = Units(c, n + 1)[i]
  <2>1. Units(c, n + 1)[i] = <<c, i>>
    BY DEF Units
  <2>2. CASE i \in 1 .. n
    <3>1. Units(c, n)[i] = <<c, i>>
      BY <2>2 DEF Units
    <3> QED
      BY <1>4, <2>1, <2>2, <3>1, Zenon
  <2>3. CASE i = n + 1
    BY <1>4, <2>1, <2>3, Zenon
  <2> QED
    BY <2>2, <2>3
<1>6. s = Units(c, n + 1)
  <2>1. Len(s) = Len(Units(c, n + 1)) /\ \A i \in 1 .. Len(s) : s[i] = Units(c, n + 1)[i]
    BY <1>3, <1>4, <1>5
  <2> QED
    BY <1>3, <1>4, <2>1, SeqEqual, Zenon
<1> QED
  BY <1>1, <1>2, <1>6, Zenon DEF s

-----------------------------------------------------------------------------
(* The packets of the client.                                               *)

LEMMA InitBridgeInv == BridgeInit => BridgeInv
<1> SUFFICES ASSUME BridgeInit PROVE BridgeInv
  OBVIOUS
<1> USE DEF BridgeInit
<1>1. BridgeTypes
  <2>1. <<>> \in Seq(Unit)
    BY EmptySeq
  <2>2. {rx, tx, to_upstream, to_client, received, served, in, out} \subseteq Seq(Unit)
    BY <2>1
  <2>3. {rst_owed, upstream, upstream_eof, upstream_write_closed, listening, lost} \subseteq BOOLEAN
    OBVIOUS
  <2>4. {conn, sent, replied} \subseteq Nat
    OBVIOUS
  <2>5. step = "poll" /\ state = "Listen" /\ told = "open" /\ server = "closed"
    OBVIOUS
  <2> HIDE DEF BridgeInit
  <2> QED
    BY <2>2, <2>3, <2>4, <2>5, Zenon DEF BridgeTypes
<1>2. SlotStates /\ ToldOfState /\ WholeStreams /\ EndsLast /\ ClientTold
  BY DEF SlotStates, ToldOfState, WholeStreams, EndsLast, ClientTold
<1>3. HighWater
  BY BridgeAssumption, EmptySeq DEF HighWater
<1> QED
  BY <1>1, <1>2, <1>3 DEF BridgeInv

\* What leaves every buffer alone leaves the streams alone.
LEMMA BuffersKept ==
  ASSUME UNCHANGED <<rx, tx, to_upstream, to_client, received, served, in, out>>
  PROVE  /\ UNCHANGED <<Upwards, Downwards>>
         /\ HighWater => HighWater'
BY DEF Upwards, Downwards, HighWater

LEMMA SynKeeps == ASSUME BridgeInv, Syn PROVE BridgeInv'
<1> USE DEF BridgeInv, Syn, Polled, bridgeVars, serverVars
<1>1. BridgeTypes'
  BY DEF BridgeTypes
<1>2. Units(conn', 0) = <<>>
  BY <1>1, UnitsSeq DEF BridgeTypes
<1>3. SlotStates'
  BY <1>2 DEF SlotStates
<1>4. ToldOfState'
  BY DEF ToldOfState
<1>5. WholeStreams' /\ EndsLast' /\ ClientTold'
  BY DEF SlotStates, WholeStreams, EndsLast, ClientTold
<1>6. HighWater'
  BY DEF HighWater
<1> QED
  BY <1>1, <1>3, <1>4, <1>5, <1>6

LEMMA HandshakeAckKeeps == ASSUME BridgeInv, HandshakeAck PROVE BridgeInv'
<1> USE DEF BridgeInv, HandshakeAck, Polled, bridgeVars, serverVars, clientVars
<1>1. BridgeTypes'
  BY DEF BridgeTypes
<1>2. SlotStates' /\ ToldOfState'
  BY DEF SlotStates, ToldOfState
<1>3. WholeStreams' /\ EndsLast' /\ ClientTold'
  BY DEF SlotStates, WholeStreams, EndsLast, ClientTold
<1>4. HighWater'
  BY BuffersKept
<1> QED
  BY <1>1, <1>2, <1>3, <1>4

\* What is sent goes at the end of the stream.
LEMMA DataKeeps == ASSUME BridgeInv, Data PROVE BridgeInv'
<1> DEFINE e == <<conn, sent + 1>>
<1>1. /\ conn \in Nat /\ sent \in Nat /\ rx \in Seq(Unit) /\ served \in Seq(Unit)
      /\ in \in Seq(Unit) /\ to_upstream \in Seq(Unit)
  BY DEF BridgeInv, BridgeTypes
<1>2. e \in Unit /\ Units(conn, sent + 1) = Append(Units(conn, sent), e)
  BY <1>1, UnitsSeq
<1> HIDE DEF e
<1>3. /\ rx' \in Seq(Unit) /\ Len(rx') = Len(rx) + 1
      /\ Upwards' = Append(Upwards, e)
  <2>1. rx' = Then(rx, e)
    BY DEF Data, e, Then
  <2>2. e \in Unit
    BY <1>2
  <2>3. /\ Then(rx, e) \in Seq(Unit) /\ Len(Then(rx, e)) = Len(rx) + 1
        /\ Cat(Cat(Cat(served, in), to_upstream), Then(rx, e)) =
             Then(Cat(Cat(Cat(served, in), to_upstream), rx), e)
    BY <1>1, <2>2, AppendLast
  <2> QED
    BY <2>1, <2>3, Zenon DEF Upwards, Cat, Then, Data, Polled, bridgeVars, serverVars
<1> USE DEF BridgeInv, Data, Polled, bridgeVars, serverVars
<1>4. BridgeTypes'
  BY <1>3 DEF BridgeTypes
<1>5. SlotStates'
  BY <1>2 DEF SlotStates, e
<1>6. ToldOfState'
  BY DEF ToldOfState
<1>7. Downwards' = Downwards
  BY DEF Downwards
<1>8. WholeStreams'
  BY <1>2, <1>3, <1>7 DEF WholeStreams
<1>9. EndsLast' /\ ClientTold'
  BY DEF EndsLast, ClientTold
<1>10. HighWater'
  BY <1>1, <1>3, BridgeAssumption, LenProperties DEF HighWater
<1> QED
  BY <1>4, <1>5, <1>6, <1>8, <1>9, <1>10

LEMMA FinKeeps == ASSUME BridgeInv, Fin PROVE BridgeInv'
<1> USE DEF BridgeInv, Fin, Polled, bridgeVars, serverVars, clientVars
<1>1. BridgeTypes'
  BY DEF BridgeTypes
<1>2. SlotStates'
  BY DEF SlotStates
<1>3. ToldOfState'
  BY DEF ToldOfState
<1>4. WholeStreams' /\ EndsLast' /\ ClientTold' /\ HighWater'
  BY BuffersKept DEF WholeStreams, EndsLast, ClientTold
<1> QED
  BY <1>1, <1>2, <1>3, <1>4

LEMMA RstKeeps == ASSUME BridgeInv, Rst PROVE BridgeInv'
<1> USE DEF BridgeInv, Rst, Polled, bridgeVars, serverVars
<1>1. BridgeTypes'
  BY DEF BridgeTypes
<1>2. SlotStates'
  BY DEF SlotStates
<1>3. ToldOfState'
  BY DEF ToldOfState
<1>4. Upwards' = Upwards
  BY DEF Upwards
<1>5. WholeStreams' /\ EndsLast' /\ ClientTold'
  BY <1>4 DEF WholeStreams, EndsLast, ClientTold
<1>6. HighWater'
  BY BridgeAssumption, EmptySeq DEF HighWater
<1> QED
  BY <1>1, <1>2, <1>3, <1>5, <1>6

LEMMA DeliverKeeps == ASSUME BridgeInv, Deliver PROVE BridgeInv'
<1> USE DEF BridgeInv, Deliver, Polled, bridgeVars, serverVars
<1>1. /\ received \in Seq(Unit) /\ tx \in Seq(Unit)
  BY DEF BridgeTypes
<1>2. /\ received' \in Seq(Unit) /\ tx' \in Seq(Unit)
      /\ Len(tx') = Len(tx) - 1
      /\ received' \o tx' = received \o tx
  <2>1. tx # <<>> /\ received' = Append(received, Head(tx)) /\ tx' = Tail(tx)
    OBVIOUS
  <2>2. /\ Append(received, Head(tx)) \in Seq(Unit) /\ Tail(tx) \in Seq(Unit)
        /\ Len(Tail(tx)) = Len(tx) - 1
        /\ Append(received, Head(tx)) \o Tail(tx) = received \o tx
    BY <1>1, <2>1, HandOver
  <2> QED
    BY <2>1, <2>2, Zenon
<1>3. Upwards' = Upwards /\ Downwards' = Downwards
  BY <1>2, Zenon DEF Upwards, Downwards
<1>4. BridgeTypes'
  BY <1>2 DEF BridgeTypes
<1>5. SlotStates'
  BY DEF SlotStates
<1>6. ToldOfState'
  BY DEF ToldOfState
<1>7. WholeStreams' /\ ClientTold'
  BY <1>3 DEF WholeStreams, ClientTold
<1>8. EndsLast'
  BY DEF EndsLast, ToldOfState
<1>9. HighWater'
  BY <1>1, <1>2, LenProperties, BridgeAssumption DEF HighWater
<1> QED
  BY <1>4, <1>5, <1>6, <1>7, <1>8, <1>9

\* The client learns of the end when nothing is left to reach it.
LEMMA FinAckedKeeps == ASSUME BridgeInv, FinAcked PROVE BridgeInv'
<1> USE DEF BridgeInv, FinAcked, Polled, bridgeVars, serverVars
<1>1. BridgeTypes'
  BY DEF BridgeTypes
<1>2. upstream /\ tx = <<>> /\ to_client = <<>> /\ out = <<>> /\ server # "open" /\ told # "rst"
  BY DEF SlotStates, ToldOfState
<1>3. Downwards = received
  <2>1. received \in Seq(Unit)
    BY DEF BridgeTypes
  <2>2. Downwards = received \o <<>> \o <<>> \o <<>>
    BY <1>2 DEF Downwards
  <2> QED
    BY <2>1, <2>2, ConcatEmptySeq, Zenon
<1>4. SlotStates' /\ ToldOfState'
  BY <1>2 DEF SlotStates, ToldOfState
<1>5. UNCHANGED <<Upwards, Downwards>> /\ HighWater'
  BY BuffersKept
<1>7. WholeStreams' /\ ClientTold'
  BY <1>2, <1>5 DEF WholeStreams, ClientTold
<1>6. EndsLast'
  BY <1>2, <1>3 DEF EndsLast, WholeStreams
<1> QED
  BY <1>1, <1>4, <1>5, <1>6, <1>7

LEMMA EndPollKeeps == ASSUME BridgeInv, EndPoll PROVE BridgeInv'
<1> USE DEF BridgeInv, EndPoll, SendRst, bridgeVars, serverVars
<1>1. BridgeTypes'
  BY DEF BridgeTypes
<1>2. SlotStates' /\ ToldOfState'
  BY DEF SlotStates, ToldOfState
<1>3. WholeStreams' /\ EndsLast' /\ ClientTold' /\ HighWater'
  BY BuffersKept DEF WholeStreams, EndsLast, ClientTold, ToldOfState
<1> QED
  BY <1>1, <1>2, <1>3

-----------------------------------------------------------------------------
(* The thread.                                                              *)

\* A socket that listens anew has lost what there was, and nobody is owed it.
LEMMA RecycleKeeps ==
  ASSUME BridgeInv, Recycle, step # "stopped", step' = "poll", ~rst_owed, state \in {"Closed", "TimeWait"},
         UNCHANGED <<clientVars, listening, served, replied, in, out, lost>>
  PROVE  BridgeInv'
<1> USE DEF BridgeInv, Recycle, Reset, clientVars
<1>1. told # "open"
  BY DEF ToldOfState
<1>2. BridgeTypes'
  <2>1. <<>> \in Seq(Unit)
    BY EmptySeq
  <2> QED
    BY <2>1 DEF BridgeTypes
<1>3. SlotStates' /\ WholeStreams'
  BY DEF BridgeTypes, SlotStates, WholeStreams
<1>4. ToldOfState' /\ ClientTold'
  BY <1>1 DEF ToldOfState, ClientTold, BridgeTypes, SlotStates
<1>5. EndsLast'
  BY DEF EndsLast
<1>6. HighWater'
  BY BridgeAssumption, EmptySeq DEF HighWater
<1> QED
  BY <1>2, <1>3, <1>4, <1>5, <1>6

LEMMA ConnectKeeps == ASSUME BridgeInv, Connect PROVE BridgeInv'
<1>1. CASE UNCHANGED <<socketVars, bridgeVars, serverVars>> /\ (upstream \/ step' = "poll")
  <2> USE <1>1 DEF BridgeInv, Connect, socketVars, bridgeVars, serverVars, clientVars
  <2>1. BridgeTypes'
    BY DEF BridgeTypes
  <2>2. SlotStates' /\ ToldOfState'
    BY DEF SlotStates, ToldOfState
  <2>3. WholeStreams' /\ EndsLast' /\ ClientTold' /\ HighWater'
    BY BuffersKept DEF WholeStreams, EndsLast, ClientTold
  <2> QED
    BY <2>1, <2>2, <2>3
\* A new stream: the client may have sent already, and nothing has been replied.
<1>2. CASE ~upstream /\ state \in {"Established", "CloseWait"} /\ listening
  <2> USE <1>2 DEF BridgeInv, Connect, socketVars, clientVars
  <2>1. <<>> \in Seq(Unit) /\ Len(<<>>) = 0
    BY EmptySeq
  <2>2. BridgeTypes'
    <3>1. {rx', tx', to_upstream', to_client', received', served', in', out'} \subseteq Seq(Unit)
      BY <2>1 DEF BridgeTypes
    <3>2. {rst_owed', upstream', upstream_eof', upstream_write_closed', listening', lost'}
            \subseteq BOOLEAN
      BY DEF BridgeTypes
    <3>3. /\ {conn', sent', replied'} \subseteq Nat
          /\ step' = "up" /\ state' = state /\ told' = told /\ server' = "open"
      BY DEF BridgeTypes
    <3> QED
      BY <3>1, <3>2, <3>3 DEF BridgeTypes
  <2>3. SlotStates' /\ ToldOfState'
    BY DEF SlotStates, ToldOfState
  <2>4. rx = Units(conn, sent) /\ tx = <<>> /\ received = <<>> /\ to_upstream = <<>>
        /\ to_client = <<>> /\ ~upstream_write_closed
    BY DEF SlotStates
  <2>5. Upwards' = Units(conn, sent) /\ Downwards' = Units(conn, 0)
    <3>1. Units(conn, 0) = <<>> /\ Units(conn, sent) \in Seq(Unit)
      BY UnitsSeq DEF BridgeTypes
    <3>2. <<>> \o <<>> = <<>> /\ <<>> \o Units(conn, sent) = Units(conn, sent)
      BY <2>1, <3>1, ConcatEmptySeq
    <3>3. Upwards' = <<>> \o <<>> \o <<>> \o Units(conn, sent)
      BY <2>4 DEF Upwards
    <3>4. Downwards' = <<>> \o <<>> \o <<>> \o <<>>
      BY <2>4 DEF Downwards
    <3> QED
      BY <3>1, <3>2, <3>3, <3>4, Zenon
  <2>6. WholeStreams'
    BY <2>5 DEF WholeStreams
  <2>7. EndsLast' /\ ClientTold'
    BY <2>4 DEF EndsLast, ClientTold, ToldOfState
  <2>8. HighWater'
    BY <2>1, BridgeAssumption DEF HighWater
  <2> QED
    BY <2>2, <2>3, <2>6, <2>7, <2>8
<1>3. CASE ~upstream /\ state \in {"Established", "CloseWait"} /\ ~listening
  <2> USE <1>3 DEF BridgeInv, Connect, ConnectFails, Abort, bridgeVars, clientVars
  <2>1. <<>> \in Seq(Unit) /\ Len(<<>>) = 0
    BY EmptySeq
  <2>2. BridgeTypes'
    BY <2>1 DEF BridgeTypes
  <2>3. SlotStates' /\ ToldOfState'
    BY DEF SlotStates, ToldOfState
  <2>4. WholeStreams' /\ EndsLast' /\ ClientTold'
    BY DEF WholeStreams, EndsLast, ClientTold, SlotStates, ToldOfState
  <2>5. HighWater'
    BY <2>1, BridgeAssumption DEF HighWater
  <2> QED
    BY <2>2, <2>3, <2>4, <2>5
<1>4. CASE ~upstream /\ state \notin {"Established", "CloseWait"} /\ ~is_open
  <2>1. ~rst_owed /\ state \in {"Closed", "TimeWait"} /\ step # "stopped"
    BY <1>4 DEF BridgeInv, ToldOfState, Connect, is_open
  <2>2. Recycle /\ step' = "poll"
    BY <1>4 DEF Connect
  <2>3. UNCHANGED <<clientVars, listening, served, replied, in, out, lost>>
    BY <1>4 DEF Connect
  <2> QED
    BY <2>1, <2>2, <2>3, RecycleKeeps
<1>5. CASE upstream \/ (state \notin {"Established", "CloseWait"} /\ is_open)
  BY <1>1, <1>5 DEF Connect, serverVars
<1> QED
  BY <1>2, <1>3, <1>4, <1>5

LEMMA FinishKeeps == ASSUME BridgeInv, Finish PROVE BridgeInv'
<1>1. CASE is_open
  <2> USE <1>1 DEF BridgeInv, Finish, is_open, clientVars
  <2>1. BridgeTypes'
    BY DEF BridgeTypes
  <2>2. upstream /\ told # "rst" /\ ~rst_owed /\ state # "Listen"
    BY DEF SlotStates, ToldOfState
  <2>3. SlotStates'
    BY <2>2 DEF SlotStates, may_send
  <2>4. ToldOfState'
    BY <2>2 DEF ToldOfState, may_send
  <2>5. UNCHANGED <<Upwards, Downwards>> /\ HighWater'
    BY BuffersKept
  <2>6. WholeStreams' /\ ClientTold'
    BY <2>2, <2>5 DEF WholeStreams, ClientTold, may_send
  <2>7. Ended /\ server = "open" => Len(served) + Len(in) = sent
    <3>1. ASSUME Ended, server = "open" PROVE Len(served) + Len(in) = sent
      <4>1. to_upstream = <<>> /\ rx = <<>>
        BY <3>1 DEF Ended, may_recv
      <4>2. served \in Seq(Unit) /\ in \in Seq(Unit) /\ conn \in Nat /\ sent \in Nat
        BY DEF BridgeTypes
      <4>3. Upwards = Cat(Cat(Cat(served, in), <<>>), <<>>)
        BY <4>1, Zenon DEF Upwards, Cat
      <4>4. Cat(served, in) \in Seq(Unit) /\ Len(Cat(served, in)) = Len(served) + Len(in)
        BY <4>2, CatType
      <4>5. Upwards = Cat(served, in)
        BY <4>3, <4>4, CatEmpty
      <4> QED
        BY <2>2, <3>1, <4>2, <4>4, <4>5, UnitsSeq DEF WholeStreams
    <3> QED
      BY <3>1
  <2>8. EndsLast'
    BY <2>2, <2>7 DEF EndsLast, Ended, may_recv, may_send
  <2> QED
    BY <2>1, <2>3, <2>4, <2>5, <2>6, <2>8
<1>2. CASE ~is_open
  <2>1. /\ ~rst_owed /\ state \in {"Closed", "TimeWait"}
        /\ Recycle /\ step # "stopped" /\ step' = "poll"
    BY <1>2 DEF BridgeInv, ToldOfState, Finish, is_open
  <2>2. UNCHANGED <<clientVars, listening, served, replied, in, out, lost>>
    BY DEF Finish
  <2> QED
    BY <2>1, <2>2, RecycleKeeps
<1> QED
  BY <1>1, <1>2

\* Room is what is missing to the size, and no buffer is over its size.
LEMMA RoomLeft ==
  ASSUME NEW s \in Seq(Unit), NEW size \in Nat, Len(s) <= size
  PROVE  Room(s, size) \in Nat /\ Len(s) + Room(s, size) = size
BY LenProperties DEF Room

\* What a pump does with a stream that is at a, b, c and d: it takes up to n from
\* d in at c, and passes up to k on to b.  The stream is the same, and no buffer
\* is over its size.
Pumped(a, b, c, d, n, k) ==
  LET p == Cat(c, Take(d, n))
  IN /\ p \in Seq(Unit) /\ Len(p) = Len(c) + Len(Take(d, n))
     /\ Cat(b, Take(p, k)) \in Seq(Unit) /\ Drop(p, k) \in Seq(Unit) /\ Drop(d, n) \in Seq(Unit)
     /\ Len(Cat(b, Take(p, k))) = Len(b) + Len(Take(p, k))
     /\ Cat(Cat(Cat(a, Cat(b, Take(p, k))), Drop(p, k)), Drop(d, n)) = Cat(Cat(Cat(a, b), c), d)
     /\ Len(Cat(b, Take(p, k))) <= SOCKET_BUF
     /\ Len(Drop(p, k)) <= PROXY_HIGH_WATER
     /\ Len(Drop(d, n)) <= SOCKET_BUF

LEMMA PumpFits ==
  ASSUME NEW a \in Seq(Unit), NEW b \in Seq(Unit), NEW c \in Seq(Unit), NEW d \in Seq(Unit),
         NEW n \in Nat, NEW k \in Nat, Len(c) + n <= PROXY_HIGH_WATER,
         Len(b) + k <= SOCKET_BUF, Len(d) <= SOCKET_BUF
  PROVE  Pumped(a, b, c, d, n, k)
<1> DEFINE v == Take(d, n)
           w == Drop(d, n)
           p == Cat(c, v)
           t == Take(p, k)
           u == Drop(p, k)
           x == Cat(a, b)
           y == Cat(x, c)
<1>0. v \in Seq(Unit) /\ w \in Seq(Unit) /\ Cat(v, w) = d
  BY TakeDrop DEF Cat
<1> HIDE DEF v, w
<1>1. /\ p \in Seq(Unit) /\ Len(p) = Len(c) + Len(v)
  BY <1>0, CatType
<1> HIDE DEF p
<1>10. t \in Seq(Unit) /\ u \in Seq(Unit) /\ Cat(t, u) = p
  BY <1>1, TakeDrop DEF Cat
<1> HIDE DEF t, u
<1>11. Cat(b, t) \in Seq(Unit) /\ Len(Cat(b, t)) = Len(b) + Len(t) /\ x \in Seq(Unit)
  BY <1>10, CatType
<1>12. Cat(a, Cat(b, t)) = Cat(x, t)
  BY <1>10, CatAssoc
<1> HIDE DEF x
<1>13. Cat(Cat(x, t), u) = Cat(x, Cat(t, u))
  <2>1. x \in Seq(Unit) /\ t \in Seq(Unit) /\ u \in Seq(Unit)
    BY <1>10, <1>11, Zenon
  <2> QED
    BY <2>1, CatAssoc
<1>14. y \in Seq(Unit) /\ Cat(x, Cat(c, v)) = Cat(y, v)
  BY <1>0, <1>11, CatType, CatAssoc
<1> HIDE DEF y
<1>15. Cat(Cat(y, v), w) = Cat(y, Cat(v, w))
  BY <1>0, <1>14, CatAssoc
<1>16. Cat(Cat(Cat(a, Cat(b, t)), u), w) = Cat(Cat(Cat(a, b), c), d)
  BY <1>0, <1>10, <1>12, <1>13, <1>14, <1>15, Zenon DEF x, y, p
<1>2. Len(v) = Least2(n, Len(d)) /\ Len(w) = Len(d) - Least2(n, Len(d))
  BY TakeDrop DEF v, w
<1>3. Len(t) = Least2(k, Len(p)) /\ Len(u) = Len(p) - Least2(k, Len(p))
  BY <1>1, TakeDrop DEF t, u
<1>4. /\ Len(b) \in Nat /\ Len(c) \in Nat /\ Len(d) \in Nat /\ Len(p) \in Nat
      /\ PROXY_HIGH_WATER \in Nat /\ SOCKET_BUF \in Nat
  BY <1>1, LenProperties, BridgeAssumption
<1>5. /\ Least2(n, Len(d)) \in Nat /\ Least2(n, Len(d)) <= n
      /\ Least2(k, Len(p)) \in Nat /\ Least2(k, Len(p)) <= k
  BY <1>4 DEF Least2
<1>6. Len(p) <= PROXY_HIGH_WATER
  BY <1>1, <1>2, <1>4, <1>5
<1>7. Len(Cat(b, t)) <= SOCKET_BUF
  BY <1>3, <1>4, <1>5, <1>11
<1>8. Len(u) <= PROXY_HIGH_WATER
  BY <1>3, <1>4, <1>5, <1>6
<1>9. Len(w) <= SOCKET_BUF
  BY <1>2, <1>4, <1>5
<1> QED
  BY <1>0, <1>1, <1>7, <1>8, <1>9, <1>10, <1>11, <1>16, Zenon DEF Pumped, p, t, u, v, w

\* From an empty sequence nothing is taken.
LEMMA TakeNone ==
  ASSUME NEW s \in Seq(Unit), NEW n \in Nat, Len(s) = 0 \/ n = 0
  PROVE  Take(s, n) = <<>> /\ Drop(s, n) = s
<1>1. /\ Take(s, n) \in Seq(Unit) /\ Drop(s, n) \in Seq(Unit)
      /\ Len(Take(s, n)) = Least2(n, Len(s))
      /\ Cat(Take(s, n), Drop(s, n)) = s
  BY TakeDrop DEF Cat
<1>2. Len(Take(s, n)) = 0
  BY <1>1, LenProperties DEF Least2
<1>3. Take(s, n) = <<>>
  BY <1>1, <1>2, EmptySeq
<1> QED
  BY <1>1, <1>3, CatEmpty

LEMMA PumpUpKeeps == ASSUME BridgeInv, PumpUp PROVE BridgeInv'
<1> DEFINE n == Room(to_upstream, PROXY_HIGH_WATER)
           k == Room(in, SOCKET_BUF)
           pending == Cat(to_upstream, Take(rx, n))
<1>1. /\ served \in Seq(Unit) /\ in \in Seq(Unit) /\ to_upstream \in Seq(Unit) /\ rx \in Seq(Unit)
      /\ Len(rx) <= SOCKET_BUF /\ Len(in) <= SOCKET_BUF /\ Len(to_upstream) <= PROXY_HIGH_WATER
      /\ conn \in Nat /\ sent \in Nat
  BY DEF BridgeInv, BridgeTypes, HighWater
<1>2. /\ n \in Nat /\ Len(to_upstream) + n <= PROXY_HIGH_WATER
      /\ k \in Nat /\ Len(in) + k <= SOCKET_BUF
  BY <1>1, RoomLeft, BridgeAssumption
<1> HIDE DEF n, k, pending
<1>3. pending = Cat(to_upstream, Take(rx, n))
  BY DEF pending
<1>4. Pumped(served, in, to_upstream, rx, n, k)
  BY <1>1, <1>2, PumpFits, Zenon
<1>5. /\ pending \in Seq(Unit) /\ Len(pending) = Len(to_upstream) + Len(Take(rx, n))
      /\ Cat(in, Take(pending, k)) \in Seq(Unit) /\ Drop(pending, k) \in Seq(Unit)
      /\ Drop(rx, n) \in Seq(Unit)
      /\ Len(Cat(in, Take(pending, k))) = Len(in) + Len(Take(pending, k))
      /\ Cat(Cat(Cat(served, Cat(in, Take(pending, k))), Drop(pending, k)), Drop(rx, n)) =
           Cat(Cat(Cat(served, in), to_upstream), rx)
      /\ Len(Cat(in, Take(pending, k))) <= SOCKET_BUF
      /\ Len(Drop(pending, k)) <= PROXY_HIGH_WATER /\ Len(Drop(rx, n)) <= SOCKET_BUF
  BY <1>3, <1>4, Zenon DEF Pumped
<1>6. /\ step = "up" /\ step' = "down" /\ rx' = Drop(rx, n)
      /\ UNCHANGED <<state, tx, rst_owed, upstream, to_client, upstream_eof, conn, sent,
                     received, told, listening, served, replied, server, out, lost>>
      /\ \/ /\ server = "open"
            /\ in' = Cat(in, Take(pending, k)) /\ to_upstream' = Drop(pending, k)
            /\ UNCHANGED upstream_write_closed
         \/ /\ server # "open"
            /\ to_upstream' = <<>> /\ UNCHANGED in
            /\ upstream_write_closed' \in BOOLEAN
  BY DEF PumpUp, n, k, pending, Cat, clientVars, BridgeInv, BridgeTypes
<1>7. upstream
  BY <1>6 DEF BridgeInv, SlotStates
<1>8. <<>> \in Seq(Unit) /\ Len(<<>>) = 0
  BY EmptySeq
<1>9. /\ rx' \in Seq(Unit) /\ in' \in Seq(Unit) /\ to_upstream' \in Seq(Unit)
      /\ Len(rx') <= SOCKET_BUF /\ Len(in') <= SOCKET_BUF /\ Len(to_upstream') <= PROXY_HIGH_WATER
  <2>1. CASE server = "open"
    BY <1>5, <1>6, <2>1, Zenon
  <2>2. CASE server # "open"
    <3>1. 0 <= PROXY_HIGH_WATER
      BY BridgeAssumption
    <3> QED
      BY <1>1, <1>5, <1>6, <1>8, <2>2, <3>1, Zenon
  <2> QED
    BY <2>1, <2>2
<1>10. /\ server = "open" => Upwards' = Upwards
       /\ Downwards' = Downwards
  BY <1>5, <1>6, Zenon DEF Upwards, Downwards, Cat
<1>11. BridgeTypes'
  BY <1>6, <1>9 DEF BridgeInv, BridgeTypes
<1>12. SlotStates' /\ ToldOfState'
  BY <1>6, <1>7 DEF BridgeInv, SlotStates, ToldOfState
<1>13. WholeStreams' /\ ClientTold'
  BY <1>6, <1>7, <1>10 DEF BridgeInv, WholeStreams, ClientTold
\* Once the end has been passed on there is nothing left to pass on.
<1>14. EndsLast'
  <2>1. ASSUME upstream_write_closed, server = "open" PROVE Len(in') = Len(in)
    <3>1. Len(served) + Len(in) = sent /\ Len(Upwards) = sent
      BY <1>1, <1>7, <2>1, UnitsSeq DEF BridgeInv, EndsLast, WholeStreams
    <3>2. Len(Upwards) = Len(served) + Len(in) + Len(to_upstream) + Len(rx)
      <4>1. Cat(served, in) \in Seq(Unit) /\ Len(Cat(served, in)) = Len(served) + Len(in)
        BY <1>1, CatType
      <4> DEFINE x == Cat(served, in)
      <4> HIDE DEF x
      <4>2. Cat(x, to_upstream) \in Seq(Unit) /\ Len(Cat(x, to_upstream)) = Len(x) + Len(to_upstream)
        BY <1>1, <4>1, CatType DEF x
      <4> DEFINE y == Cat(x, to_upstream)
      <4> HIDE DEF y
      <4>3. Len(Cat(y, rx)) = Len(y) + Len(rx)
        BY <1>1, <4>2, CatType DEF y
      <4>4. Upwards = Cat(y, rx)
        BY Zenon DEF Upwards, Cat, x, y
      <4> QED
        BY <4>1, <4>2, <4>3, <4>4 DEF x, y
    <3>3. Len(served) \in Nat /\ Len(in) \in Nat /\ Len(to_upstream) \in Nat /\ Len(rx) \in Nat
      BY <1>1, LenProperties
    <3>4. Len(to_upstream) = 0 /\ Len(rx) = 0
      BY <3>1, <3>2, <3>3
    <3>5. Take(rx, n) = <<>> /\ Len(<<>>) = 0
      BY <1>1, <1>2, <3>4, TakeNone
    <3>6. Len(pending) = 0
      BY <1>5, <3>4, <3>5
    <3>7. Take(pending, k) = <<>>
      BY <1>2, <1>5, <3>6, TakeNone
    <3>8. Len(in') = Len(in) + Len(Take(pending, k))
      BY <1>5, <1>6, <2>1, Zenon
    <3> QED
      BY <3>3, <3>5, <3>7, <3>8
  <2> QED
    BY <1>6, <2>1 DEF BridgeInv, EndsLast
<1>15. HighWater'
  BY <1>6, <1>9 DEF BridgeInv, HighWater
<1> QED
  BY <1>11, <1>12, <1>13, <1>14, <1>15 DEF BridgeInv

LEMMA PumpDownKeeps == ASSUME BridgeInv, PumpDown PROVE BridgeInv'
<1> DEFINE n == IF upstream_eof THEN 0 ELSE Room(to_client, PROXY_HIGH_WATER)
           k == IF may_send THEN Room(tx, SOCKET_BUF) ELSE 0
           pending == Cat(to_client, Take(out, n))
<1>1. /\ received \in Seq(Unit) /\ tx \in Seq(Unit) /\ to_client \in Seq(Unit) /\ out \in Seq(Unit)
      /\ Len(out) <= SOCKET_BUF /\ Len(tx) <= SOCKET_BUF /\ Len(to_client) <= PROXY_HIGH_WATER
  BY DEF BridgeInv, BridgeTypes, HighWater
<1>2. /\ n \in Nat /\ Len(to_client) + n <= PROXY_HIGH_WATER
      /\ k \in Nat /\ Len(tx) + k <= SOCKET_BUF
      /\ ~may_send => k = 0
      /\ upstream_eof => n = 0
  BY <1>1, RoomLeft, BridgeAssumption, LenProperties
<1> HIDE DEF n, k, pending
<1>3. pending = Cat(to_client, Take(out, n))
  BY DEF pending
<1>4. Pumped(received, tx, to_client, out, n, k)
  BY <1>1, <1>2, PumpFits, Zenon
<1>5. /\ pending \in Seq(Unit) /\ Len(pending) = Len(to_client) + Len(Take(out, n))
      /\ Cat(tx, Take(pending, k)) \in Seq(Unit) /\ Drop(pending, k) \in Seq(Unit)
      /\ Drop(out, n) \in Seq(Unit)
      /\ Cat(Cat(Cat(received, Cat(tx, Take(pending, k))), Drop(pending, k)), Drop(out, n)) =
           Cat(Cat(Cat(received, tx), to_client), out)
      /\ Len(Cat(tx, Take(pending, k))) <= SOCKET_BUF
      /\ Len(Drop(pending, k)) <= PROXY_HIGH_WATER /\ Len(Drop(out, n)) <= SOCKET_BUF
  BY <1>3, <1>4, Zenon DEF Pumped
<1>6. /\ step = "down" /\ step' = "finish" /\ out' = Drop(out, n)
      /\ tx' = Cat(tx, Take(pending, k)) /\ to_client' = Drop(pending, k)
      /\ upstream_eof' \in BOOLEAN
      /\ upstream_eof' => upstream_eof \/ (server # "open" /\ out' = <<>>)
      /\ upstream_eof => upstream_eof'
      /\ UNCHANGED <<state, rx, rst_owed, upstream, to_upstream, upstream_write_closed, conn,
                     sent, received, told, listening, served, replied, server, in, lost>>
  BY DEF PumpDown, n, k, pending, Cat, clientVars, BridgeInv, BridgeTypes
<1>7. upstream /\ step # "poll" /\ ~rst_owed /\ state \notin {"Listen", "SynReceived"}
  BY <1>6 DEF BridgeInv, SlotStates, ToldOfState
<1>8. Downwards' = Downwards /\ Upwards' = Upwards
  BY <1>5, <1>6, Zenon DEF Upwards, Downwards, Cat
<1>9. BridgeTypes'
  BY <1>5, <1>6 DEF BridgeInv, BridgeTypes
\* With nothing to send it to, nothing more is sent; after its end, nothing is
\* read from the stream, and what there is was all on its way already.
<1>10. ~may_send => tx' = tx
  BY <1>1, <1>2, <1>5, <1>6, TakeNone, CatEmpty
<1>11. upstream_eof /\ to_client = <<>> => to_client' = <<>>
  <2>1. ASSUME upstream_eof, to_client = <<>> PROVE to_client' = <<>>
    <3>1. Take(out, n) = <<>>
      BY <1>1, <1>2, <2>1, TakeNone
    <3>2. pending = <<>> /\ Len(pending) = 0
      BY <1>1, <1>3, <2>1, <3>1, CatEmpty, EmptySeq
    <3>3. Drop(pending, k) = pending
      BY <1>2, <1>5, <3>2, TakeNone
    <3> QED
      BY <1>6, <3>2, <3>3, Zenon
  <2> QED
    BY <2>1
<1>12. upstream_eof /\ out = <<>> => out' = <<>>
  BY <1>1, <1>2, <1>6, TakeNone
<1>13. SlotStates'
  BY <1>6, <1>7, <1>11, <1>12 DEF BridgeInv, SlotStates
<1>14. ToldOfState'
  BY <1>6, <1>7, <1>10 DEF BridgeInv, ToldOfState, may_send
<1>15. WholeStreams' /\ EndsLast' /\ ClientTold'
  BY <1>6, <1>8 DEF BridgeInv, WholeStreams, EndsLast, ClientTold
<1>16. HighWater'
  BY <1>5, <1>6 DEF BridgeInv, HighWater
<1> QED
  BY <1>9, <1>13, <1>14, <1>15, <1>16 DEF BridgeInv

LEMMA StopTunKeeps == ASSUME BridgeInv, StopTun PROVE BridgeInv'
<1> USE DEF BridgeInv, StopTun, bridgeVars, serverVars
<1>1. <<>> \in Seq(Unit) /\ Len(<<>>) = 0
  BY EmptySeq
<1>2. BridgeTypes'
  BY <1>1 DEF BridgeTypes
<1>3. SlotStates' /\ ToldOfState'
  BY DEF SlotStates, ToldOfState
<1>4. upstream /\ told' # "rst" => tx' = tx /\ told' = told
  BY DEF SlotStates, ToldOfState, BridgeTypes
<1>5. upstream /\ told' # "rst" => Downwards' = Downwards
  BY <1>4 DEF Downwards
<1>6. Upwards' = Upwards
  BY DEF Upwards
<1>7. WholeStreams'
  BY <1>4, <1>5, <1>6 DEF WholeStreams
<1>8. EndsLast' /\ ClientTold'
  BY DEF EndsLast, ClientTold
<1>9. HighWater'
  BY <1>1, BridgeAssumption DEF HighWater
<1> QED
  BY <1>2, <1>3, <1>7, <1>8, <1>9

-----------------------------------------------------------------------------
(* The server.                                                              *)

LEMMA ServerReadsKeeps == ASSUME BridgeInv, ServerReads PROVE BridgeInv'
<1>1. served \in Seq(Unit) /\ in \in Seq(Unit) /\ in # <<>>
      /\ served' = Append(served, Head(in)) /\ in' = Tail(in)
  BY DEF BridgeInv, BridgeTypes, ServerReads
<1>2. /\ served' \in Seq(Unit) /\ Len(served') = Len(served) + 1
      /\ in' \in Seq(Unit) /\ Len(in') = Len(in) - 1
      /\ served' \o in' = served \o in
  <2>1. /\ Append(served, Head(in)) \in Seq(Unit)
        /\ Len(Append(served, Head(in))) = Len(served) + 1
        /\ Tail(in) \in Seq(Unit) /\ Len(Tail(in)) = Len(in) - 1
        /\ Append(served, Head(in)) \o Tail(in) = served \o in
    BY <1>1, HandOver
  <2> QED
    BY <1>1, <2>1, Zenon
<1> USE DEF BridgeInv, ServerReads, Served, socketVars, bridgeVars, clientVars
<1>3. Upwards' = Upwards /\ Downwards' = Downwards
  BY <1>2, Zenon DEF Upwards, Downwards
<1>4. BridgeTypes'
  BY <1>2 DEF BridgeTypes
<1>5. SlotStates' /\ ToldOfState'
  BY DEF SlotStates, ToldOfState
<1>6. WholeStreams' /\ ClientTold'
  BY <1>3 DEF WholeStreams, ClientTold
<1>7. Len(served') + Len(in') = Len(served) + Len(in)
  BY <1>1, <1>2, LenProperties
<1>8. EndsLast'
  BY <1>7 DEF EndsLast
<1>9. HighWater'
  BY <1>1, <1>2, LenProperties, BridgeAssumption DEF HighWater
<1> QED
  BY <1>4, <1>5, <1>6, <1>8, <1>9

LEMMA ServerRepliesKeeps == ASSUME BridgeInv, ServerReplies PROVE BridgeInv'
<1> DEFINE e == <<conn, replied + 1>>
<1>1. /\ conn \in Nat /\ replied \in Nat /\ out \in Seq(Unit) /\ received \in Seq(Unit)
      /\ tx \in Seq(Unit) /\ to_client \in Seq(Unit)
  BY DEF BridgeInv, BridgeTypes
<1>2. e \in Unit /\ Units(conn, replied + 1) = Append(Units(conn, replied), e)
  BY <1>1, UnitsSeq
<1> HIDE DEF e
<1>3. /\ out' \in Seq(Unit) /\ Len(out') = Len(out) + 1
      /\ Downwards' = Append(Downwards, e)
  <2>1. out' = Then(out, e)
    BY DEF ServerReplies, e, Then
  <2>2. e \in Unit
    BY <1>2
  <2>3. /\ Then(out, e) \in Seq(Unit) /\ Len(Then(out, e)) = Len(out) + 1
        /\ Cat(Cat(Cat(received, tx), to_client), Then(out, e)) =
             Then(Cat(Cat(Cat(received, tx), to_client), out), e)
    BY <1>1, <2>2, AppendLast
  <2> QED
    BY <2>1, <2>3, Zenon
       DEF Downwards, Cat, Then, ServerReplies, Served, socketVars, bridgeVars, clientVars
<1> USE DEF BridgeInv, ServerReplies, Served, socketVars, bridgeVars, clientVars
<1>4. BridgeTypes'
  BY <1>3 DEF BridgeTypes
<1>5. SlotStates' /\ ToldOfState'
  BY DEF SlotStates, ToldOfState
<1>6. Upwards' = Upwards
  BY DEF Upwards
<1>7. WholeStreams'
  BY <1>2, <1>3, <1>6 DEF WholeStreams
<1>8. EndsLast' /\ ClientTold'
  BY DEF EndsLast, ClientTold, ToldOfState
<1>9. HighWater'
  BY <1>1, <1>3, BridgeAssumption, LenProperties DEF HighWater
<1> QED
  BY <1>4, <1>5, <1>7, <1>8, <1>9

LEMMA ServerEndsKeeps == ASSUME BridgeInv, ServerEnds PROVE BridgeInv'
<1> USE DEF BridgeInv, ServerEnds, Served, socketVars, bridgeVars, clientVars
<1>1. BridgeTypes'
  BY DEF BridgeTypes
<1>2. SlotStates' /\ ToldOfState'
  BY DEF SlotStates, ToldOfState
<1>3. UNCHANGED <<Upwards, Downwards>> /\ HighWater'
  BY BuffersKept
<1>4. WholeStreams' /\ EndsLast' /\ ClientTold'
  BY <1>3 DEF WholeStreams, EndsLast, ClientTold
<1> QED
  BY <1>1, <1>2, <1>3, <1>4

LEMMA ServerClosesKeeps == ASSUME BridgeInv, ServerCloses PROVE BridgeInv'
<1> USE DEF BridgeInv, ServerCloses, Served, socketVars, bridgeVars, clientVars
<1>1. <<>> \in Seq(Unit) /\ Len(<<>>) = 0
  BY EmptySeq
<1>2. BridgeTypes'
  BY <1>1 DEF BridgeTypes
<1>3. SlotStates' /\ ToldOfState'
  BY DEF SlotStates, ToldOfState
<1>4. ~lost' => out' = out /\ ~lost
  BY DEF BridgeTypes
<1>5. ~lost' => Downwards' = Downwards
  BY <1>4 DEF Downwards
<1>6. WholeStreams' /\ EndsLast' /\ ClientTold'
  BY <1>4, <1>5 DEF WholeStreams, EndsLast, ClientTold, ToldOfState
<1>7. HighWater'
  BY <1>1, BridgeAssumption DEF HighWater
<1> QED
  BY <1>2, <1>3, <1>6, <1>7

LEMMA StopListeningKeeps == ASSUME BridgeInv, StopListening PROVE BridgeInv'
<1> USE DEF BridgeInv, StopListening, socketVars, bridgeVars, clientVars
<1>1. BridgeTypes' /\ SlotStates' /\ ToldOfState'
  BY DEF BridgeTypes, SlotStates, ToldOfState
<1>2. WholeStreams' /\ EndsLast' /\ ClientTold' /\ HighWater'
  BY BuffersKept DEF WholeStreams, EndsLast, ClientTold
<1> QED
  BY <1>1, <1>2

LEMMA BridgeStutters == ASSUME BridgeInv, UNCHANGED tunVars PROVE BridgeInv'
<1> USE DEF BridgeInv, tunVars, socketVars, bridgeVars, clientVars, serverVars
<1>1. BridgeTypes' /\ SlotStates' /\ ToldOfState'
  BY DEF BridgeTypes, SlotStates, ToldOfState
<1>2. WholeStreams' /\ EndsLast' /\ ClientTold' /\ HighWater'
  BY BuffersKept DEF WholeStreams, EndsLast, ClientTold
<1> QED
  BY <1>1, <1>2

-----------------------------------------------------------------------------
(* The theorems.                                                            *)

\* The states of the socket, the bridge, the loopback stream and what the client
\* knows go together at every step.
THEOREM BridgeInvariance == BridgeSpec => []BridgeInv
<1>1. BridgeInv /\ [BridgeNext]_tunVars => BridgeInv'
  <2> SUFFICES ASSUME BridgeInv, [BridgeNext]_tunVars PROVE BridgeInv'
    OBVIOUS
  <2>1. CASE Client
    BY <2>1, SynKeeps, HandshakeAckKeeps, DataKeeps, FinKeeps, RstKeeps, DeliverKeeps,
       FinAckedKeeps, Zenon DEF Client
  <2>2. CASE Thread
    BY <2>2, EndPollKeeps, ConnectKeeps, PumpUpKeeps, PumpDownKeeps, FinishKeeps, Zenon DEF Thread
  <2>3. CASE StopTun
    BY <2>3, StopTunKeeps, Zenon
  <2>4. CASE Server
    BY <2>4, ServerReadsKeeps, ServerRepliesKeeps, ServerEndsKeeps, ServerClosesKeeps,
       StopListeningKeeps, Zenon DEF Server
  <2>5. CASE UNCHANGED tunVars
    BY <2>5, BridgeStutters, Zenon
  <2> QED
    BY <2>1, <2>2, <2>3, <2>4, <2>5, Zenon DEF BridgeNext
<1> QED
  BY <1>1, InitBridgeInv, PTL DEF BridgeSpec

\* Whatever the sizes of the buffers, each client gets the server's bytes and the
\* server the client's: in order, none twice, missing or of another connection,
\* the end last, and no buffer over its size; and no client's socket is given to
\* another before it has been told.
THEOREM StreamsAreKept == BridgeSpec => []StreamsKept
<1>1. BridgeInv => StreamsKept
  BY DEF BridgeInv, StreamsKept
<1> QED
  BY <1>1, BridgeInvariance, PTL

-----------------------------------------------------------------------------
(* GzipPool: the readers of a compressed archive.                          *)

\* The streams that have been read from, or are being.
Going == {s \in Streams : \/ stream[s] \in {"routed", "waiting"}
                          \/ stream[s] = "open" /\ pos[s] > 0}

\* Where a READ of the stream will begin once the one under way is answered.
NextAt(s) == FileAt[s] + pos[s] + IF stream[s] = "open" THEN 0 ELSE asked[s]

\* The readers that will be there, and the streams that will.
Ready(x) == {w \in Workers : next_offset[w] = x}
Claims(x) == {s \in Going : NextAt(s) = x}
Hot == \A x \in Nat : Cardinality(Claims(x)) <= Cardinality(Ready(x))

StreamTypes ==
  /\ pos \in [Streams -> Nat] /\ asked \in [Streams -> Nat]
  /\ stream \in [Streams -> {"open", "routed", "waiting", "closed"}]

\* A READ is of what there is of its file, and of something.
ReadsInFile ==
  \A s \in Streams :
    /\ pos[s] <= FileSize[s]
    /\ stream[s] \in {"routed", "waiting"} => asked[s] > 0 /\ pos[s] + asked[s] <= FileSize[s]
    /\ stream[s] = "open" => (asked[s] = 0 <=> pos[s] = 0)

\* The readers are in an order, those that have never been picked at its start.
PickOrder ==
  /\ next_offset \in [Workers -> Nat]
  /\ last_used \in [Workers -> Workers]
  /\ \A v, w \in Workers : last_used[v] = last_used[w] => v = w
  /\ \A k \in Workers : \E w \in Workers : last_used[w] = k
  /\ \A v, w \in Workers : last_used[v] < last_used[w] /\ next_offset[v] # 0 => next_offset[w] # 0

\* A reader is picked for the first time only for the first READ of a stream.
Picked == {w \in Workers : next_offset[w] # 0}
Read == {s \in Streams : asked[s] # 0}
FewPicked == Cardinality(Picked) <= Cardinality(Read)

GzipInv == /\ StreamTypes /\ ReadsInFile /\ PickOrder
           /\ Cardinality(Streams) <= Pool => Hot /\ FewPicked

\* What is counted is finite.
LEMMA Counts ==
  /\ \A W \in SUBSET Workers : IsFiniteSet(W) /\ Cardinality(W) \in Nat
  /\ \A S \in SUBSET Streams : IsFiniteSet(S) /\ Cardinality(S) \in Nat
  /\ Cardinality(Workers) = Pool
<1>1. IsFiniteSet(Workers) /\ Cardinality(Workers) = Pool
  BY PoolAssumption, FS_Interval DEF Workers
<1>2. ASSUME NEW W \in SUBSET Workers PROVE IsFiniteSet(W) /\ Cardinality(W) \in Nat
  BY <1>1, FS_Subset, FS_CardinalityType
<1>3. ASSUME NEW S \in SUBSET Streams PROVE IsFiniteSet(S) /\ Cardinality(S) \in Nat
  BY PoolAssumption, FS_Subset, FS_CardinalityType
<1> QED
  BY <1>1, <1>2, <1>3

\* There is a first reader of several, and one that was picked least recently.
LEMMA EarliestOf ==
  ASSUME NEW W \in SUBSET Workers, W # {}
  PROVE  Earliest(W) \in W
<1>1. \E w \in W : \A v \in W : w <= v
  BY LeastOf, PoolAssumption DEF Workers
<1> QED
  BY <1>1 DEF Earliest

LEMMA LeastRecentOf ==
  ASSUME PickOrder
  PROVE  LeastRecent \in Workers /\ last_used[LeastRecent] = 1
<1>1. PICK w \in Workers : last_used[w] = 1
  BY PoolAssumption DEF PickOrder, Workers
<1>2. \A v \in Workers : last_used[w] <= last_used[v]
  BY <1>1, PoolAssumption DEF PickOrder, Workers
<1>3. LeastRecent \in Workers /\ \A v \in Workers : last_used[LeastRecent] <= last_used[v]
  BY <1>2, Zenon DEF LeastRecent
<1> QED
  BY <1>1, <1>3, PoolAssumption DEF PickOrder, Workers

\* Initially no file has been read, and no reader picked.
LEMMA InitGzipInv == GzipInit => GzipInv
<1> SUFFICES ASSUME GzipInit PROVE GzipInv
  OBVIOUS
<1>1. StreamTypes /\ ReadsInFile
  BY PoolAssumption DEF GzipInit, StreamTypes, ReadsInFile
<1>2. PickOrder
  BY PoolAssumption DEF GzipInit, PickOrder, Workers
<1>3. Going = {} /\ Picked = {}
  BY DEF GzipInit, Going, Picked
<1>4. Hot
  <2>1. ASSUME NEW x \in Nat PROVE Cardinality(Claims(x)) <= Cardinality(Ready(x))
    <3>1. Claims(x) = {} /\ Ready(x) \in SUBSET Workers
      BY <1>3 DEF Claims, Ready
    <3> QED
      BY <3>1, FS_EmptySet, Counts
  <2> QED
    BY <2>1 DEF Hot
<1>5. FewPicked
  <2>1. Read \in SUBSET Streams
    BY DEF Read
  <2> QED
    BY <1>3, <2>1, FS_EmptySet, Counts DEF FewPicked
<1> QED
  BY <1>1, <1>2, <1>4, <1>5 DEF GzipInv

\* What does not concern the router keeps the readers where they will be, as long
\* as it takes no stream from where it will continue to somewhere else.
LEMMA RoutesKept ==
  ASSUME GzipInv, StreamTypes', ReadsInFile', UNCHANGED <<routes, asked>>,
         \A s \in Going' : s \in Going /\ NextAt(s)' = NextAt(s)
  PROVE  GzipInv'
<1>1. PickOrder'
  BY DEF GzipInv, PickOrder, routes
<1>2. ASSUME Hot PROVE Hot'
  <2>1. ASSUME NEW x \in Nat
        PROVE  Cardinality(Claims(x)') <= Cardinality(Ready(x)')
    <3>1. Claims(x)' \subseteq Claims(x) /\ Ready(x)' = Ready(x)
      BY DEF Claims, Ready, routes
    <3>2. Claims(x) \in SUBSET Streams /\ Claims(x)' \in SUBSET Claims(x)
      BY <3>1 DEF Claims, Going
    <3>3. Ready(x) \in SUBSET Workers
      BY DEF Ready
    <3>4. Cardinality(Claims(x)') <= Cardinality(Claims(x))
      BY <3>2, FS_Subset, Counts
    <3>5. /\ Cardinality(Claims(x)') \in Nat /\ Cardinality(Claims(x)) \in Nat
          /\ Cardinality(Ready(x)) \in Nat
      BY <3>2, <3>3, Counts
    <3>6. Cardinality(Claims(x)) <= Cardinality(Ready(x))
      BY <1>2 DEF Hot
    <3> QED
      BY <3>1, <3>4, <3>5, <3>6
  <2> QED
    BY <2>1 DEF Hot
<1>3. FewPicked => FewPicked'
  BY DEF FewPicked, Picked, Read, routes
<1> QED
  BY <1>1, <1>2, <1>3 DEF GzipInv

\* A stream that goes on is somewhere behind the beginning of its file and not at
\* the beginning of another one.
LEMMA NextAtType ==
  ASSUME StreamTypes, ReadsInFile
  PROVE  /\ \A s \in Streams : NextAt(s) \in Nat
         /\ \A s \in Streams, t \in Going : FileAt[s] # NextAt(t) /\ NextAt(t) # 0
<1>1. \A s \in Streams : NextAt(s) \in Nat
  BY PoolAssumption DEF StreamTypes, NextAt
<1>2. ASSUME NEW s \in Streams, NEW t \in Going
      PROVE  FileAt[s] # NextAt(t) /\ NextAt(t) # 0
  <2>1. t \in Streams /\ FileAt[t] < NextAt(t) /\ NextAt(t) <= FileAt[t] + FileSize[t]
    BY PoolAssumption DEF StreamTypes, ReadsInFile, NextAt, Going
  <2>2. /\ FileAt[t] \in Nat /\ FileAt[s] \in Nat
        /\ ~ (FileAt[t] < FileAt[s] /\ FileAt[s] <= FileAt[t] + FileSize[t])
    BY <2>1, PoolAssumption
  <2> QED
    BY <2>1, <2>2, <1>1
<1> QED
  BY <1>1, <1>2

\* What Route does, without the readers' order.
LEMMA RouteEffect ==
  ASSUME GzipInv, NEW s \in Streams, NEW len \in Lengths, Route(s, len)
  PROVE  LET offset == FileAt[s] + pos[s]
             wanted == Least(len, FileSize[s] - pos[s])
             w == Pick(offset)
         IN /\ wanted \in Nat \ {0} /\ pos[s] + wanted <= FileSize[s] /\ offset \in Nat
            /\ w \in Workers
            /\ stream[s] = "open" /\ stream' = [stream EXCEPT ![s] = "routed"]
            /\ pos' = pos /\ asked' = [asked EXCEPT ![s] = wanted]
            /\ next_offset' = [next_offset EXCEPT ![w] = offset + wanted]
            /\ last_used' = PickedLast(w)
<1> DEFINE offset == FileAt[s] + pos[s]
           wanted == Least(len, FileSize[s] - pos[s])
           w == Pick(offset)
<1>1. wanted \in Nat \ {0} /\ pos[s] + wanted <= FileSize[s] /\ offset \in Nat
  <2>1. /\ pos[s] \in Nat /\ FileSize[s] \in Nat /\ FileAt[s] \in Nat /\ len \in Nat \ {0}
        /\ pos[s] < FileSize[s]
    BY PoolAssumption DEF GzipInv, StreamTypes, Route
  <2> QED
    BY <2>1 DEF Least
<1>2. w \in Workers
  <2> DEFINE waiting == {v \in Workers : next_offset[v] = offset}
  <2>1. waiting # {} => Earliest(waiting) \in Workers
    BY EarliestOf
  <2>2. LeastRecent \in Workers
    BY LeastRecentOf DEF GzipInv
  <2> QED
    BY <2>1, <2>2 DEF Pick
<1>3. /\ stream[s] = "open" /\ stream' = [stream EXCEPT ![s] = "routed"]
      /\ pos' = pos /\ asked' = [asked EXCEPT ![s] = wanted]
      /\ next_offset' = [next_offset EXCEPT ![w] = offset + wanted]
      /\ last_used' = PickedLast(w)
  BY DEF Route, StreamGoes
<1> QED
  BY <1>1, <1>2, <1>3

\* The reader that is picked goes to the end of the order.
LEMMA PickOrderKept ==
  ASSUME PickOrder, NEW w \in Workers, NEW x \in Nat \ {0},
         next_offset' = [next_offset EXCEPT ![w] = x], last_used' = PickedLast(w)
  PROVE  PickOrder'
<1> DEFINE place(v) == IF v = w THEN Pool
                       ELSE IF last_used[v] > last_used[w] THEN last_used[v] - 1
                       ELSE last_used[v]
<1>1. /\ next_offset \in [Workers -> Nat]
      /\ \A u, v \in Workers : last_used[u] = last_used[v] => u = v
      /\ \A k \in Workers : \E v \in Workers : last_used[v] = k
      /\ \A u, v \in Workers : last_used[u] < last_used[v] /\ next_offset[u] # 0 => next_offset[v] # 0
  BY DEF PickOrder
<1>2. Pool \in Nat /\ \A k : k \in Workers <=> k \in Nat /\ 1 <= k /\ k <= Pool
  BY PoolAssumption DEF Workers
<1>3. \A v \in Workers : last_used[v] \in Nat /\ 1 <= last_used[v] /\ last_used[v] <= Pool
  BY <1>2 DEF PickOrder
<1>4. last_used' = [v \in Workers |-> place(v)]
  BY DEF PickedLast
<1>5. \A v \in Workers : last_used'[v] = place(v)
  BY <1>4
<1>6. ASSUME NEW v \in Workers, v # w
      PROVE  /\ last_used[v] # last_used[w]
             /\ place(v) \in Nat /\ 1 <= place(v) /\ place(v) < Pool
             /\ \/ last_used[v] > last_used[w] /\ place(v) = last_used[v] - 1
                \/ last_used[v] < last_used[w] /\ place(v) = last_used[v]
  <2>1. last_used[v] # last_used[w]
    BY <1>1, <1>6
  <2> QED
    BY <2>1, <1>6, <1>3, <1>2
<1>7. place(w) = Pool
  OBVIOUS
<1> HIDE DEF place
<1>8. next_offset' \in [Workers -> Nat]
  BY <1>1
<1>9. last_used' \in [Workers -> Workers]
  <2>1. \A v \in Workers : place(v) \in Workers
    BY <1>2, <1>6, <1>7
  <2> QED
    BY <1>4, <2>1
<1>10. ASSUME NEW u \in Workers, NEW v \in Workers, last_used'[u] = last_used'[v]
       PROVE  u = v
  <2>1. place(u) = place(v)
    BY <1>5, <1>10
  <2>2. CASE u = w \/ v = w
    BY <2>1, <2>2, <1>2, <1>6, <1>7
  <2>3. CASE u # w /\ v # w
    <3>1. last_used[u] = last_used[v]
      BY <2>1, <2>3, <1>3, <1>6
    <3> QED
      BY <3>1, <1>1
  <2> QED
    BY <2>2, <2>3
<1>11. ASSUME NEW k \in Workers PROVE \E v \in Workers : last_used'[v] = k
  <2> k \in Nat /\ 1 <= k /\ k <= Pool
    BY <1>2
  <2>1. CASE k = Pool
    BY <2>1, <1>5, <1>7
  <2>2. CASE k < last_used[w]
    <3>1. PICK v \in Workers : last_used[v] = k
      BY <1>1
    <3>2. v # w /\ place(v) = k
      BY <3>1, <2>2, <1>3, <1>6
    <3> QED
      BY <3>2, <1>5
  <2>3. CASE k # Pool /\ ~ (k < last_used[w])
    <3>1. k + 1 \in Workers
      BY <2>3, <1>2
    <3>2. PICK v \in Workers : last_used[v] = k + 1
      BY <3>1, <1>1
    <3>3. v # w /\ place(v) = k
      BY <3>2, <2>3, <1>3, <1>6
    <3> QED
      BY <3>3, <1>5
  <2> QED
    BY <2>1, <2>2, <2>3
<1>12. ASSUME NEW u \in Workers, NEW v \in Workers,
              last_used'[u] < last_used'[v], next_offset'[u] # 0
       PROVE  next_offset'[v] # 0
  <2>1. CASE v = w
    BY <2>1, <1>1
  <2>2. CASE v # w /\ u = w
    BY <2>2, <1>12, <1>2, <1>5, <1>6, <1>7
  <2>3. CASE v # w /\ u # w
    <3>1. last_used[u] < last_used[v]
      <4>1. place(u) < place(v)
        BY <1>5, <1>12
      <4>2. last_used[u] # last_used[v]
        BY <4>1, <1>1, <2>3, <1>6
      <4> QED
        BY <4>1, <4>2, <2>3, <1>3, <1>6
    <3> QED
      BY <3>1, <2>3, <1>1, <1>12
  <2> QED
    BY <2>1, <2>2, <2>3
<1> QED
  BY <1>8, <1>9, <1>10, <1>11, <1>12 DEF PickOrder

\* As long as there are no more streams than readers, the first READ of a stream
\* takes a reader that no stream will come back to, and any other READ takes one that
\* is where its stream is.
LEMMA PickedReader ==
  ASSUME GzipInv, Hot, FewPicked, Cardinality(Streams) <= Pool,
         NEW s \in Streams, stream[s] = "open", pos[s] < FileSize[s]
  PROVE  LET offset == FileAt[s] + pos[s]
             w == Pick(offset)
         IN IF pos[s] = 0
            THEN asked[s] = 0 /\ Claims(next_offset[w]) = {} /\ next_offset[w] <= offset
            ELSE asked[s] # 0 /\ s \in Claims(offset) /\ next_offset[w] = offset /\ offset # 0
<1> DEFINE offset == FileAt[s] + pos[s]
           waiting == Ready(offset)
           w == Pick(offset)
<1>1. /\ pos[s] \in Nat /\ FileAt[s] \in Nat /\ (asked[s] = 0 <=> pos[s] = 0)
  BY PoolAssumption DEF GzipInv, StreamTypes, ReadsInFile
<1>2. /\ w = IF waiting # {} THEN Earliest(waiting) ELSE LeastRecent
      /\ waiting \in SUBSET Workers
  BY DEF Pick, Ready
<1>3. waiting # {} => w \in Workers /\ next_offset[w] = offset
  <2>1. waiting # {} => Earliest(waiting) \in waiting
    BY <1>2, EarliestOf
  <2> QED
    BY <2>1, <1>2 DEF Ready
<1>4. CASE pos[s] = 0
  <2>1. offset = FileAt[s]
    BY <1>1, <1>4
  <2>2. \A t \in Going : NextAt(t) # FileAt[s] /\ NextAt(t) # 0
    BY NextAtType DEF GzipInv
  <2>3. CASE waiting # {}
    BY <2>1, <2>2, <2>3, <1>1, <1>3, <1>4 DEF Claims
  <2>4. CASE waiting = {}
    <3>1. PICK v \in Workers : next_offset[v] = 0
      <4>1. Read \in SUBSET Streams /\ s \in Streams \ Read
        BY <1>1, <1>4 DEF Read
      <4>2. Read # Streams /\ IsFiniteSet(Streams)
        BY <4>1, PoolAssumption
      <4>3. Cardinality(Read) <= Cardinality(Streams) /\ Cardinality(Read) # Cardinality(Streams)
        BY <4>1, <4>2, FS_Subset
      <4>4. Picked \in SUBSET Workers
        BY DEF Picked
      <4>5. /\ Cardinality(Picked) \in Nat /\ Cardinality(Read) \in Nat
            /\ Cardinality(Streams) \in Nat
        BY <4>1, <4>4, Counts
      <4>6. Cardinality(Picked) < Cardinality(Workers)
        BY <4>3, <4>5, Counts, PoolAssumption DEF FewPicked
      <4>7. Picked # Workers
        BY <4>6, <4>5
      <4> QED
        BY <4>4, <4>7 DEF Picked
    <3>2. w = LeastRecent /\ w \in Workers /\ last_used[w] = 1
      BY <1>2, <2>4, LeastRecentOf DEF GzipInv
    <3>3. next_offset[w] = 0
      <4>1. last_used[w] < last_used[v] \/ v = w
        <5>1. last_used[v] \in 1 .. Pool /\ (last_used[v] = last_used[w] => v = w)
          BY <3>1, <3>2 DEF GzipInv, PickOrder, Workers
        <5> QED
          BY <5>1, <3>2, PoolAssumption
      <4> QED
        BY <3>1, <3>2, <4>1 DEF GzipInv, PickOrder
    <3>4. Claims(next_offset[w]) = {}
      BY <3>3, <2>2 DEF Claims
    <3> QED
      BY <3>3, <3>4, <1>1, <1>4
  <2> QED
    BY <2>3, <2>4
<1>5. CASE pos[s] # 0
  <2>1. s \in Claims(offset)
    <3>1. s \in Going /\ NextAt(s) = offset
      BY <1>1, <1>5 DEF Going, NextAt
    <3> QED
      BY <3>1 DEF Claims
  <2>2. offset \in Nat /\ offset # 0
    BY <1>1, <1>5
  <2>3. Cardinality(Claims(offset)) <= Cardinality(waiting)
    BY <2>2 DEF Hot
  <2>4. waiting # {}
    <3>1. Claims(offset) \in SUBSET Streams
      BY DEF Claims, Going
    <3>2. Cardinality(Claims(offset)) # 0 /\ Cardinality(Claims(offset)) \in Nat
      BY <3>1, <2>1, Counts, FS_EmptySet
    <3>3. Cardinality(waiting) # 0
      BY <3>2, <2>3
    <3> QED
      BY <3>3, FS_EmptySet, Zenon
  <2> QED
    BY <2>1, <2>2, <2>4, <1>1, <1>3, <1>5
<1> QED
  BY <1>4, <1>5

\* A READ takes its stream, and the reader picked for it, from one place to another.
LEMMA HotKept ==
  ASSUME StreamTypes, ReadsInFile, PickOrder, Hot, NEW s \in Streams, NEW w \in Workers,
         NEW x \in Nat, next_offset[w] < x,
         next_offset' = [next_offset EXCEPT ![w] = x],
         Going' = Going \union {s}, NextAt(s)' = x,
         \A t \in Streams : t # s => NextAt(t)' = NextAt(t),
         s \in Going => NextAt(s) < x,
         s \in Claims(next_offset[w]) \/ (s \notin Going /\ Claims(next_offset[w]) = {})
  PROVE  Hot'
<1> DEFINE old == next_offset[w]
<1>1. old \in Nat /\ old # x /\ next_offset \in [Workers -> Nat]
  BY DEF PickOrder
<1>2. \A y : Ready(y) \in SUBSET Workers /\ Claims(y) \in SUBSET Streams
  BY DEF Ready, Claims, Going
<1>3. \A y \in Nat : /\ IsFiniteSet(Ready(y)) /\ IsFiniteSet(Claims(y))
                     /\ Cardinality(Ready(y)) \in Nat /\ Cardinality(Claims(y)) \in Nat
  BY <1>2, Counts
<1>4. \A y \in Nat : Cardinality(Claims(y)) <= Cardinality(Ready(y))
  BY DEF Hot
<1>5. ASSUME NEW y \in Nat PROVE Cardinality(Claims(y)') <= Cardinality(Ready(y)')
  <2>1. CASE y = x
    <3>1. Ready(y)' = Ready(y) \union {w} /\ w \notin Ready(y)
      BY <2>1, <1>1 DEF Ready
    <3>2. Claims(y)' = Claims(y) \union {s}
      <4>1. ASSUME NEW t PROVE t \in Claims(y)' <=> t \in Claims(y) \/ t = s
        <5>1. CASE t = s
          BY <5>1, <2>1 DEF Claims
        <5>2. CASE t # s
          BY <5>2 DEF Claims, Going
        <5> QED
          BY <5>1, <5>2
      <4> QED
        BY <4>1
    <3>3. s \notin Claims(y)
      BY <2>1, <1>1, NextAtType DEF Claims
    <3>4. /\ Cardinality(Ready(y)') = Cardinality(Ready(y)) + 1
          /\ Cardinality(Claims(y)') = Cardinality(Claims(y)) + 1
      <4>1. Cardinality(Ready(y) \union {w}) = Cardinality(Ready(y)) + 1
        BY <3>1, <1>3, FS_AddElement
      <4>2. Cardinality(Claims(y) \union {s}) = Cardinality(Claims(y)) + 1
        BY <3>3, <1>3, FS_AddElement
      <4> QED
        BY <3>1, <3>2, <4>1, <4>2
    <3> QED
      BY <3>4, <1>3, <1>4
  <2>2. CASE y # x
    <3>1. Claims(y)' = Claims(y) \ {s}
      <4>1. ASSUME NEW t PROVE t \in Claims(y)' <=> t \in Claims(y) /\ t # s
        <5>1. CASE t = s
          BY <5>1, <2>2 DEF Claims
        <5>2. CASE t # s
          BY <5>2 DEF Claims, Going
        <5> QED
          BY <5>1, <5>2
      <4> QED
        BY <4>1
    <3>2. CASE y = old
      <4>1. Ready(y)' = Ready(y) \ {w} /\ w \in Ready(y)
        BY <2>2, <3>2, <1>1 DEF Ready
      <4>2. Cardinality(Ready(y)') = Cardinality(Ready(y)) - 1
        BY <4>1, <1>3, FS_RemoveElement
      <4>3. CASE s \in Claims(old)
        <5>1. Cardinality(Claims(y)') = Cardinality(Claims(y)) - 1
          BY <3>1, <3>2, <4>3, <1>3, FS_RemoveElement
        <5> QED
          BY <5>1, <4>2, <1>3, <1>4
      <4>4. CASE Claims(old) = {}
        <5>1. Cardinality(Claims(y)') = 0
          BY <3>1, <3>2, <4>4, FS_EmptySet
        <5>2. Cardinality(Ready(y)') \in Nat
          BY <4>1, <1>2, Counts
        <5> QED
          BY <5>1, <5>2
      <4> QED
        BY <4>3, <4>4
    <3>3. CASE y # old
      <4>1. Ready(y)' = Ready(y)
        BY <2>2, <3>3, <1>1 DEF Ready
      <4>2. s \notin Claims(y)
        BY <3>3 DEF Claims
      <4>3. Claims(y)' = Claims(y)
        BY <3>1, <4>2
      <4> QED
        BY <4>1, <4>3, <1>4
    <3> QED
      BY <3>2, <3>3
  <2> QED
    BY <2>1, <2>2
<1> QED
  BY <1>5 DEF Hot

\* A READ picks a reader.
LEMMA RouteKeeps ==
  ASSUME GzipInv, NEW s \in Streams, NEW len \in Lengths, Route(s, len)
  PROVE  GzipInv'
<1> DEFINE offset == FileAt[s] + pos[s]
           wanted == Least(len, FileSize[s] - pos[s])
           w == Pick(offset)
           x == offset + wanted
<1>1. /\ wanted \in Nat \ {0} /\ pos[s] + wanted <= FileSize[s] /\ offset \in Nat
      /\ w \in Workers
      /\ stream[s] = "open" /\ stream' = [stream EXCEPT ![s] = "routed"]
      /\ pos' = pos /\ asked' = [asked EXCEPT ![s] = wanted]
      /\ next_offset' = [next_offset EXCEPT ![w] = offset + wanted]
      /\ last_used' = PickedLast(w)
  BY RouteEffect, Zenon
<1>2. StreamTypes /\ ReadsInFile /\ PickOrder
  BY DEF GzipInv
<1>p. pos[s] < FileSize[s]
  BY DEF Route
<1> HIDE DEF wanted, w
<1>3. x \in Nat \ {0} /\ offset < x
  BY <1>1
<1>4. StreamTypes'
  BY <1>1, <1>2 DEF StreamTypes
<1>5. ReadsInFile'
  BY <1>1, <1>2 DEF StreamTypes, ReadsInFile
<1>6. PickOrder'
  BY <1>1, <1>2, <1>3, PickOrderKept
<1>7. ASSUME Cardinality(Streams) <= Pool, Hot, FewPicked PROVE Hot' /\ FewPicked'
  <2>1. IF pos[s] = 0
        THEN asked[s] = 0 /\ Claims(next_offset[w]) = {} /\ next_offset[w] <= offset
        ELSE asked[s] # 0 /\ s \in Claims(offset) /\ next_offset[w] = offset /\ offset # 0
    BY <1>1, <1>p, <1>7, PickedReader DEF w
  <2>2. next_offset[w] \in Nat /\ next_offset[w] < x
    <3>1. next_offset[w] \in Nat
      BY <1>1, <1>2 DEF PickOrder
    <3> QED
      BY <2>1, <3>1, <1>1, <1>3
  <2>3. Going' = Going \union {s}
    BY <1>1, <1>2 DEF Going, StreamTypes
  <2>4. NextAt(s)' = x
    BY <1>1, <1>2, PoolAssumption DEF NextAt, StreamTypes
  <2>5. ASSUME NEW t \in Streams, t # s PROVE NextAt(t)' = NextAt(t)
    BY <1>1, <1>2, <2>5 DEF NextAt, StreamTypes
  <2>6. s \in Going => NextAt(s) < x
    BY <1>1, <1>2, <1>3, PoolAssumption DEF NextAt, StreamTypes
  <2>7. s \in Claims(next_offset[w]) \/ (s \notin Going /\ Claims(next_offset[w]) = {})
    <3>1. CASE pos[s] = 0
      BY <2>1, <3>1, <1>1 DEF Going
    <3>2. CASE pos[s] # 0
      BY <2>1, <3>2
    <3> QED
      BY <3>1, <3>2
  <2>8. Hot'
    BY <1>1, <1>2, <1>3, <1>7, <2>2, <2>3, <2>4, <2>5, <2>6, <2>7, HotKept
  <2>9. FewPicked'
    <3>1. Picked \in SUBSET Workers /\ Read \in SUBSET Streams
      BY DEF Picked, Read
    <3>2. /\ IsFiniteSet(Picked) /\ Cardinality(Picked) \in Nat
          /\ IsFiniteSet(Read) /\ Cardinality(Read) \in Nat
      BY <3>1, Counts
    <3>3. Picked' = Picked \union {w}
      BY <1>1, <1>2, <1>3 DEF Picked, PickOrder
    <3>4. Read' = Read \union {s}
      BY <1>1, <1>2 DEF Read, StreamTypes
    <3>5. CASE pos[s] = 0
      <4>1. Cardinality(Read') = Cardinality(Read) + 1
        <5>1. s \notin Read
          BY <2>1, <3>5 DEF Read
        <5>2. Cardinality(Read \union {s}) = Cardinality(Read) + 1
          BY <5>1, <3>2, FS_AddElement
        <5> QED
          BY <5>2, <3>4
      <4>2. /\ Cardinality(Picked') = Cardinality(Picked)
            \/ Cardinality(Picked') = Cardinality(Picked) + 1
        <5>1. \/ Cardinality(Picked \union {w}) = Cardinality(Picked)
              \/ Cardinality(Picked \union {w}) = Cardinality(Picked) + 1
          BY <3>2, FS_AddElement
        <5> QED
          BY <5>1, <3>3
      <4> QED
        BY <4>1, <4>2, <3>2, <1>7 DEF FewPicked
    <3>6. CASE pos[s] # 0
      <4>1. w \in Picked /\ s \in Read
        BY <2>1, <3>6, <1>1 DEF Picked, Read
      <4>2. Picked' = Picked /\ Read' = Read
        BY <4>1, <3>3, <3>4
      <4> QED
        BY <4>2, <1>7 DEF FewPicked
    <3> QED
      BY <3>5, <3>6
  <2> QED
    BY <2>8, <2>9
<1> QED
  BY <1>4, <1>5, <1>6, <1>7 DEF GzipInv

\* What becomes of a READ that has been routed.
LEMMA ReadKeeps ==
  ASSUME GzipInv, UNCHANGED <<routes, asked>>,
         \/ \E s \in Streams : Send(s) \/ CloseStream(s)
         \/ \E w \in Workers : Answer(w) \/ Panic(w)
  PROVE  GzipInv'
<1>1. StreamTypes /\ ReadsInFile
  BY DEF GzipInv
<1>2. ASSUME NEW s \in Streams, Send(s) \/ CloseStream(s) PROVE GzipInv'
  <2>1. /\ pos' = pos /\ asked' = asked /\ stream[s] \in {"open", "routed"}
        /\ \/ stream' = [stream EXCEPT ![s] = "closed"]
           \/ stream[s] = "routed" /\ stream' = [stream EXCEPT ![s] = "waiting"]
    BY <1>2 DEF Send, CloseStream, StreamGoes, streams
  <2>2. StreamTypes' /\ ReadsInFile'
    BY <1>1, <2>1 DEF StreamTypes, ReadsInFile
  <2>3. ASSUME NEW t \in Going' PROVE t \in Going /\ NextAt(t)' = NextAt(t)
    BY <1>1, <2>1 DEF StreamTypes, Going, NextAt
  <2> QED
    BY <2>2, <2>3, RoutesKept
<1>3. ASSUME NEW w \in Workers, Panic(w) PROVE GzipInv'
  <2>1. /\ pos' = pos /\ asked' = asked
        /\ stream' = [s \in Streams |-> IF stream[s] = "waiting" /\ chosen[s] = w
                                        THEN "closed" ELSE stream[s]]
    BY <1>3 DEF Panic
  <2>2. StreamTypes' /\ ReadsInFile'
    BY <1>1, <2>1 DEF StreamTypes, ReadsInFile
  <2>3. ASSUME NEW t \in Going' PROVE t \in Going /\ NextAt(t)' = NextAt(t)
    BY <1>1, <2>1 DEF StreamTypes, Going, NextAt
  <2> QED
    BY <2>2, <2>3, RoutesKept
<1>4. ASSUME NEW w \in Workers, Answer(w) PROVE GzipInv'
  <2> DEFINE s == Head(queue[w])
  <2>1. /\ asked' = asked /\ stream[s] = "waiting"
        /\ \/ stream' = [stream EXCEPT ![s] = "open"] /\ pos' = [pos EXCEPT ![s] = @ + asked[s]]
           \/ stream' = [stream EXCEPT ![s] = "closed"] /\ pos' = pos
    BY <1>4 DEF Answer, StreamGoes
  <2> HIDE DEF s
  <2>2. StreamTypes' /\ ReadsInFile'
    BY <1>1, <2>1, PoolAssumption DEF StreamTypes, ReadsInFile
  <2>3. ASSUME NEW t \in Going' PROVE t \in Going /\ NextAt(t)' = NextAt(t)
    BY <1>1, <2>1, PoolAssumption DEF StreamTypes, Going, NextAt
  <2> QED
    BY <2>2, <2>3, RoutesKept
<1> QED
  BY <1>2, <1>3, <1>4

\* The other steps leave the streams and the router alone.
LEMMA OthersKeep ==
  ASSUME GzipInv, UNCHANGED <<routes, streams>>
  PROVE  GzipInv'
<1>1. StreamTypes' /\ ReadsInFile'
  BY DEF GzipInv, StreamTypes, ReadsInFile, streams
<1>2. ASSUME NEW t \in Going' PROVE t \in Going /\ NextAt(t)' = NextAt(t)
  BY <1>1 DEF Going, NextAt, streams
<1> QED
  BY <1>1, <1>2, RoutesKept DEF streams

\* Every step of the pool.
LEMMA GzipInvStep == GzipInv /\ [GzipNext]_gzipVars => GzipInv'
<1> SUFFICES ASSUME GzipInv, [GzipNext]_gzipVars PROVE GzipInv'
  OBVIOUS
<1>1. ASSUME NEW w \in Workers, Starting(w) \/ TakeRead(w) \/ TakeStop(w) \/ Dropping(w)
      PROVE  GzipInv'
  BY <1>1, OthersKeep
     DEF Starting, Spawn, Initialized, StartFails, TakeRead, TakeStop, Dropping, SendStop, Join
<1>2. ASSUME NEW w \in Workers, Answer(w) \/ Panic(w) PROVE GzipInv'
  <2>1. UNCHANGED <<routes, asked>>
    BY <1>2 DEF Answer, Panic
  <2> QED
    BY <1>2, <2>1, ReadKeeps
<1>3. ASSUME NEW s \in Streams, Send(s) \/ CloseStream(s) PROVE GzipInv'
  <2>1. UNCHANGED <<routes, asked>>
    BY <1>3 DEF Send, CloseStream
  <2> QED
    BY <1>3, <2>1, ReadKeeps
<1>4. ASSUME NEW s \in Streams, NEW len \in Lengths, Route(s, len) PROVE GzipInv'
  BY <1>4, RouteKeeps
<1>5. CASE BeginDrop \/ UNCHANGED gzipVars
  BY <1>5, OthersKeep DEF BeginDrop, gzipVars
<1> QED
  BY <1>1, <1>2, <1>3, <1>4, <1>5 DEF GzipNext, Reading

\* The streams that have been answered are among those that go on.
LEMMA HotMeans == GzipInv => StreamsStayHot
<1> SUFFICES ASSUME GzipInv, Cardinality(Streams) <= Pool, NEW s \in Begun
             PROVE  LET here == FileAt[s] + pos[s]
                    IN Cardinality({w \in Workers : next_offset[w] = here})
                         >= Cardinality({t \in Begun : FileAt[t] + pos[t] = here})
  BY DEF StreamsStayHot
<1> DEFINE here == FileAt[s] + pos[s]
           begun == {t \in Begun : FileAt[t] + pos[t] = here}
<1>1. here \in Nat /\ StreamTypes
  BY PoolAssumption DEF GzipInv, StreamTypes, Begun
<1> HIDE DEF here
<1>2. begun \subseteq Claims(here)
  BY <1>1, PoolAssumption DEF Begun, Claims, Going, NextAt, StreamTypes
<1>3. Claims(here) \in SUBSET Streams /\ begun \in SUBSET Streams /\ Ready(here) \in SUBSET Workers
  BY DEF Claims, Going, Begun, Ready
<1>4. Cardinality(begun) <= Cardinality(Claims(here))
  BY <1>2, <1>3, FS_Subset, Counts
<1>5. Cardinality(Claims(here)) <= Cardinality(Ready(here))
  BY <1>1 DEF GzipInv, Hot
<1>6. Cardinality(begun) \in Nat /\ Cardinality(Claims(here)) \in Nat /\ Cardinality(Ready(here)) \in Nat
  BY <1>3, Counts
<1>7. Cardinality(Ready(here)) >= Cardinality(begun)
  BY <1>4, <1>5, <1>6
<1> QED
  BY <1>7 DEF here, Ready

\* However many readers and streams there are, and in whatever order their READs
\* come: a stream that continues never takes the reader of another one.
THEOREM StreamsAreHot == GzipSpec => []StreamsStayHot
BY InitGzipInv, GzipInvStep, HotMeans, PTL DEF GzipSpec
=============================================================================
