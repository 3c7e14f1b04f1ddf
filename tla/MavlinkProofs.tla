----------------------------- MODULE MavlinkProofs -----------------------------
(***************************************************************************)
(* TLAPS proofs about the MAVLink cameras, for any cameras, component ids, *)
(* requests of ground stations and width of the channel.                   *)
(***************************************************************************)
EXTENDS Mavlink, FiniteSetTheorems, SequenceTheorems, TLAPS

\* A camera that has no tasks yet has received nothing and said nothing; one
\* that waits for the manager is being made.
Beginning ==
    /\ \A c \in Cameras : camera[c] \in {"none", "asking"} =>
        /\ heart[c] = "off" /\ due[c] = 0 /\ task[c] = "off" /\ c \notin caught
        /\ inbox[c] = <<>> /\ todo[c] = <<>> /\ said[c] = <<>> /\ hand[c] = 0
        /\ \A n \in 1..MaxReceived : c \notin answerers[n]
    /\ \A c \in mutex : camera[c] = "asking"
    /\ \A c \in Cameras : camera[c] # "none" => id[c] \in Ids

\* Whatever a camera has in its inbox or in its hand has been received.
Numbered ==
    /\ \A c \in Cameras :
        /\ \A i \in 1..Len(inbox[c]) : inbox[c][i] <= Len(received)
        /\ hand[c] <= Len(received)
    /\ \A n \in 1..MaxReceived : n > Len(received) => answerers[n] = {}

\* The camera has answered request n, is about to, or will see it.
Answers(c, n) ==
    \/ c \in answerers[n]
    \/ hand[c] = n /\ todo[c] # <<>>

MayAnswer(c, n) ==
    /\ c \notin caught
    /\ \/ Answers(c, n)
       \/ ~Aborted(c) /\ \E i \in 1..Len(inbox[c]) : inbox[c][i] = n

\* Who answers a request that names a component has that component's id, and of
\* the cameras with one id that were not caught one alone may ever answer it.
Addressed ==
    \A n \in 1..Len(received) : received[n].to # 0 =>
        /\ \A c \in Cameras : Answers(c, n) => id[c] = received[n].to
        /\ \A c, d \in Cameras : MayAnswer(c, n) /\ MayAnswer(d, n) /\ id[c] = id[d] => c = d

\* A messages_loop that the abort did not meet while it ran does not run again.
Stopped ==
    \A c \in Cameras : Aborted(c) /\ c \notin caught => task[c] \notin {"polling", "handling"}

\* Of a burst, as many heartbeats are due as have not been sent.
Silent ==
    \A c \in Cameras :
        /\ heart[c] # "sending" => due[c] = 0
        /\ heart[c] = "sending" => due[c] > 0
        /\ camera[c] # "gone" => staleBeats[c] = 0
        /\ camera[c] = "gone" => staleBeats[c] + due[c] <= Burst

\* The messages about one control.
About(k) == Seq({m \in Messages : m.control = k})

\* What is said and still to be said is an answer to the request in hand.
Fitting ==
    \A c \in Cameras : hand[c] # 0 =>
        LET r == received[hand[c]] IN
        /\ task[c] \notin {"handling", "resting"} => todo[c] = <<>>
        /\ r.kind = "information" =>
            \/ said[c] = <<>> /\ todo[c] \in {<<>>, <<Ack("accepted"), Information>>}
            \/ said[c] = <<Ack("accepted")>> /\ todo[c] = <<Information>>
            \/ said[c] = <<Ack("accepted"), Information>> /\ todo[c] = <<>>
        /\ r.kind \in {"set", "read"} =>
            /\ said[c] \in About(ControlIdOf(r.control))
            /\ todo[c] \in About(ControlIdOf(r.control))

IInv ==
    /\ TypeOK /\ Beginning /\ Numbered /\ IdsMatchCameras
    /\ Addressed /\ Stopped /\ Silent /\ Fitting
------------------------------------------------------------------------------
(* The operators *)

\* A bounded sequence is a sequence that is short enough.
LEMMA SeqOfIsSeq ==
    ASSUME NEW S, NEW n \in Nat, NEW s
    PROVE  s \in SeqOf(S, n) <=> s \in Seq(S) /\ Len(s) <= n
<1>1. ASSUME s \in SeqOf(S, n) PROVE s \in Seq(S) /\ Len(s) <= n
    <2>1. PICK m \in 0..n : s \in [1..m -> S]
        BY <1>1 DEF SeqOf
    <2>2. QED
        BY <2>1
<1>2. ASSUME s \in Seq(S), Len(s) <= n PROVE s \in SeqOf(S, n)
    <2>1. Len(s) \in 0..n /\ s \in [1..Len(s) -> S]
        BY <1>2
    <2>2. QED
        BY <2>1 DEF SeqOf
<1>3. QED
    BY <1>1, <1>2

LEMMA EmptyFits ==
    ASSUME NEW S, NEW n \in Nat
    PROVE  <<>> \in SeqOf(S, n)
<1>1. <<>> \in Seq(S) /\ Len(<<>>) <= n
    OBVIOUS
<1>2. QED
    BY <1>1, SeqOfIsSeq

LEMMA TailFits ==
    ASSUME NEW S, NEW n \in Nat, NEW s \in SeqOf(S, n), s # <<>>
    PROVE  /\ Tail(s) \in SeqOf(S, n) /\ Head(s) \in S /\ Head(s) = s[1]
           /\ s \in Seq(S) /\ 1 \in 1..Len(s) /\ Len(Tail(s)) = Len(s) - 1
           /\ \A i \in 1..Len(Tail(s)) : i + 1 \in 1..Len(s) /\ Tail(s)[i] = s[i + 1]
<1>1. s \in Seq(S) /\ Len(s) <= n
    BY SeqOfIsSeq
<1>2. /\ Tail(s) \in Seq(S) /\ Len(Tail(s)) = Len(s) - 1 /\ Len(s) \in Nat \ {0}
      /\ Len(Tail(s)) <= n /\ Head(s) = s[1] /\ s[1] \in S
    BY <1>1
<1>3. Tail(s) \in SeqOf(S, n)
    BY <1>2, SeqOfIsSeq
<1>4. \A i \in 1..Len(Tail(s)) : i + 1 \in 1..Len(s) /\ Tail(s)[i] = s[i + 1]
    BY <1>1, <1>2
<1>5. QED
    BY <1>1, <1>2, <1>3, <1>4

LEMMA AppendFits ==
    ASSUME NEW S, NEW n \in Nat, NEW s \in SeqOf(S, n), NEW e \in S, Len(s) # n
    PROVE  /\ Append(s, e) \in SeqOf(S, n) /\ s \in Seq(S)
           /\ Len(Append(s, e)) = Len(s) + 1
           /\ \A i \in 1..(Len(s) + 1) :
                Append(s, e)[i] = IF i = Len(s) + 1 THEN e ELSE s[i]
<1>1. s \in Seq(S) /\ Len(s) <= n /\ Len(s) \in Nat
    BY SeqOfIsSeq
<1>2. /\ Append(s, e) \in Seq(S) /\ Len(Append(s, e)) = Len(s) + 1
      /\ Len(Append(s, e)) <= n
    BY <1>1
<1>3. Append(s, e) \in SeqOf(S, n)
    BY <1>2, SeqOfIsSeq
<1>4. \A i \in 1..(Len(s) + 1) : Append(s, e)[i] = IF i = Len(s) + 1 THEN e ELSE s[i]
    BY <1>1
<1>5. QED
    BY <1>1, <1>2, <1>3, <1>4

LEMMA MaxIs ==
    ASSUME NEW S \in SUBSET Int, NEW m \in S, \A y \in S : m >= y
    PROVE  Max(S) = m
<1>1. Max(S) \in S /\ \A y \in S : Max(S) >= y
    BY Zenon DEF Max
<1>2. m \in Int /\ Max(S) \in Int /\ m >= Max(S) /\ Max(S) >= m
    BY <1>1
<1>3. QED
    BY <1>2, SMT

\* Of sixteen digits the first eight are read, of eight or fewer all.
LEMMA ControlIsRead ==
    ASSUME NEW n \in Writable
    PROVE  ControlIdOf(n) \in Nat /\ Names(n, ControlIdOf(n))
<1> DEFINE S == Beginnings(n) \cap Readable
<1>1. n \in Nat
    BY SMT DEF Writable
<1>2. Readable \subseteq Int
    BY SMT DEF Readable
<1>3. S \in SUBSET Int
    BY <1>2, Zenon
<1>4. ASSUME NEW m \in S, \A y \in S : m >= y
      PROVE  ControlIdOf(n) = m
    <2>1. Max(S) = m
        <3> HIDE DEF S
        <3>1. QED
            BY <1>3, <1>4, MaxIs, SMT
    <2>2. QED
        BY <2>1, Zenon DEF ControlIdOf
<1>5. CASE n \in Readable
    <2>1. n \in Beginnings(n) /\ \A y \in Beginnings(n) : n >= y
        BY <1>1, SMT DEF Beginnings
    <2>2. n \in S /\ \A y \in S : n >= y
        BY <1>5, <2>1, Zenon
    <2>3. ControlIdOf(n) = n
        BY <1>4, <2>2, Zenon
    <2>4. Names(n, n)
        BY <1>5, SMT DEF Names
    <2>5. QED
        BY <1>1, <2>3, <2>4, Zenon
<1>6. CASE n \notin Readable
    <2>1. n >= 100000000 /\ n \div 100000000 <= 99999999
        BY <1>1, <1>6, SMT DEF Readable, Writable
    <2>2. \E k \in Beginnings(n) :
            /\ k >= 10000000 /\ k <= 99999999
            /\ \A y \in Beginnings(n) : y <= k \/ y > 99999999
        BY <1>1, <2>1, SMTT(60) DEF Beginnings
    <2>3. PICK k \in Beginnings(n) :
            /\ k >= 10000000 /\ k <= 99999999
            /\ \A y \in Beginnings(n) : y <= k \/ y > 99999999
        BY <2>2, SMT
    <2>4. k \in Nat /\ k \in S /\ \A y \in S : k >= y
        BY <1>1, <2>3, SMT DEF Readable, Beginnings
    <2>5. ControlIdOf(n) = k
        BY <1>4, <2>4, Zenon
    <2>6. Names(n, k)
        BY <1>6, <2>3, SMT DEF Names
    <2>7. QED
        BY <2>4, <2>5, <2>6, Zenon
<1>7. QED
    BY <1>5, <1>6, Zenon

LEMMA MessagesTyped ==
    /\ Information \in Messages /\ Await \in Messages
    /\ \A result \in {"accepted", "denied", "unsupported"} : Ack(result) \in Messages
    /\ \A k \in Nat, result \in {"accepted", "unsupported", "failed"} :
        ParamAck(result, k) \in {m \in Messages : m.control = k}
    /\ \A k \in Nat : Value(k) \in {m \in Messages : m.control = k}
BY DEF Messages, Information, Await, Ack, ParamAck, Value

\* What is said about a control is about that control.
LEMMA ControlReplies ==
    ASSUME NEW r \in Requests,
           NEW replies \in SetReplies(r) \cup ReadReplies(r)
    PROVE  replies \in About(ControlIdOf(r.control))
<1> DEFINE k == ControlIdOf(r.control)
           M == {m \in Messages : m.control = k}
<1>1. r.control \in Writable
    BY MavlinkAssumption, SMT
<1>2. k \in Nat
    BY <1>1, ControlIsRead
<1> HIDE DEF k
<1>3. replies \in {<<>>, <<ParamAck("unsupported", k)>>, <<ParamAck("failed", k)>>,
                  <<ParamAck("accepted", k)>>, <<Value(k)>>}
    BY DEF SetReplies, ReadReplies, k
<1>4. /\ ParamAck("unsupported", k) \in M /\ ParamAck("failed", k) \in M
      /\ ParamAck("accepted", k) \in M /\ Value(k) \in M
    BY <1>2, MessagesTyped
<1> HIDE DEF M
<1>5. replies \in Seq(M)
    <2>1. <<>> \in Seq(M) /\ \A m \in M : <<m>> \in Seq(M)
        OBVIOUS
    <2>2. QED
        BY <1>3, <1>4, <2>1
<1>6. QED
    BY <1>5 DEF About, M, k

LEMMA AboutTyped ==
    ASSUME NEW k, NEW s \in About(k)
    PROVE  s \in Seq(Messages)
<1>1. {m \in Messages : m.control = k} \subseteq Messages
    OBVIOUS
<1>2. QED
    BY <1>1, SeqMonotonic DEF About

\* What is said is a sequence of messages, ...
LEMMA RepliesTyped ==
    ASSUME NEW r \in Requests, NEW replies \in Replies(r)
    PROVE  replies \in Seq(Messages)
<1>3. Controls \subseteq Nat
    BY MavlinkAssumption
<1>4. CASE r.kind = "set"
    BY <1>4, ControlReplies, AboutTyped DEF Replies
<1>5. CASE r.kind = "read"
    BY <1>5, ControlReplies, AboutTyped DEF Replies
<1>10. CASE r.kind = "read_at"
    <2>1. replies = <<>> \/ \E k \in Controls : replies = <<Value(k)>>
        BY <1>10 DEF Replies, ReadAtReplies
    <2>2. \A k \in Controls : Value(k) \in Messages
        BY <1>3, MessagesTyped
    <2>3. \A m \in Messages : <<m>> \in Seq(Messages)
        OBVIOUS
    <2>4. <<>> \in Seq(Messages)
        OBVIOUS
    <2>5. QED
        BY <2>1, <2>2, <2>3, <2>4, Zenon
<1>6. CASE r.kind = "list"
    <2>1. replies \in SeqOf({Value(k) : k \in Controls}, Cardinality(Controls))
        BY <1>6 DEF Replies, ListReplies
    <2>2. {Value(k) : k \in Controls} \subseteq Messages
        BY <1>3, MessagesTyped
    <2>3. PICK m \in 0..Cardinality(Controls) : replies \in [1..m -> {Value(k) : k \in Controls}]
        BY <2>1 DEF SeqOf
    <2>4. m \in Nat
        BY <2>3
    <2>5. replies \in [1..m -> Messages]
        BY <2>2, <2>3
    <2>6. QED
        BY <2>4, <2>5
<1>7. CASE r.kind \in {"capture", "capture_status"}
    <2>1. replies \in {<<>>, <<Ack("accepted"), Information>>, <<Ack("unsupported")>>}
        BY <1>7 DEF Replies, CaptureReplies
    <2>2. <<Ack("accepted"), Information>> \in Seq(Messages)
        BY MessagesTyped
    <2>3. <<Ack("unsupported")>> \in Seq(Messages) /\ <<>> \in Seq(Messages)
        BY MessagesTyped
    <2>4. QED
        BY <2>1, <2>2, <2>3
<1>8. CASE r.kind \notin {"set", "read", "read_at", "list", "capture", "capture_status"}
    <2>1. replies \in CommandReplies(r) \cup MessageReplies(r)
        BY <1>8 DEF Replies
    <2>2. \A result \in {"accepted", "denied"} :
            <<Ack("accepted"), Await, Ack(result)>> \in Seq(Messages)
        BY MessagesTyped
    <2>3. <<Ack("accepted"), Information>> \in Seq(Messages)
        BY MessagesTyped
    <2>4. <<Ack("unsupported")>> \in Seq(Messages) /\ <<Ack("denied")>> \in Seq(Messages)
        BY MessagesTyped
    <2>5. QED
        BY <2>1, <2>2, <2>3, <2>4 DEF CommandReplies, MessageReplies
<1>9. QED
    BY <1>4, <1>5, <1>10, <1>6, <1>7, <1>8

\* ... and answers the request.
LEMMA RepliesFit ==
    ASSUME NEW r \in Requests, NEW replies \in Replies(r)
    PROVE  /\ r.kind = "information" => replies = <<Ack("accepted"), Information>>
           /\ r.kind \in {"set", "read"} => replies \in About(ControlIdOf(r.control))
<1>1. ASSUME r.kind = "information" PROVE replies = <<Ack("accepted"), Information>>
    BY <1>1 DEF Replies, CommandReplies, MessageReplies
<1>2. ASSUME r.kind \in {"set", "read"} PROVE replies \in About(ControlIdOf(r.control))
    BY <1>2, ControlReplies DEF Replies
<1>3. QED
    BY <1>1, <1>2

------------------------------------------------------------------------------
(* Type correctness *)

LEMMA InitIInv == Init => IInv
<1> SUFFICES ASSUME Init PROVE IInv
    OBVIOUS
<1> USE DEF Init
<1>1. LinkTypeOK
    BY LinkAssumption DEF LinkInit, LinkTypeOK, Threads
<1>2. /\ <<>> \in SeqOf(1..MaxReceived, Capacity)
      /\ <<>> \in SeqOf(Requests, MaxReceived)
    BY EmptyFits, LinkAssumption, MavlinkAssumption
<1>3. <<>> \in Seq(Messages) /\ 0 \in 0..MaxReceived /\ Cardinality({}) = 0
    BY MavlinkAssumption, FS_EmptySet
<1>4. TypeOK
    BY <1>1, <1>2, <1>3, MavlinkAssumption DEF TypeOK, TaskStates
<1>5. /\ Beginning /\ Numbered /\ IdsMatchCameras /\ Addressed
      /\ Stopped /\ Silent /\ Fitting
    BY DEF Beginning, Numbered, IdsMatchCameras, HasId, Addressed, Stopped, Silent, Fitting
<1>6. QED
    BY <1>4, <1>5 DEF IInv

\* The threads of the connection keep the types.
LEMMA LinkTyped == LinkTypeOK /\ LinkNext => LinkTypeOK'
<1> SUFFICES ASSUME LinkTypeOK, LinkNext PROVE LinkTypeOK'
    OBVIOUS
<1> USE LinkAssumption DEF LinkTypeOK, Threads, Goto
<1>1. CASE ReceiverEnters
    BY <1>1 DEF ReceiverEnters
<1>2. CASE ReceiveNothing
    BY <1>2 DEF ReceiveNothing
<1>3. CASE ReceiveFails
    BY <1>3 DEF ReceiveFails
<1>4. CASE SenderEnters
    BY <1>4 DEF SenderEnters
<1>5. CASE SenderSends
    BY <1>5 DEF SenderSends
<1>6. CASE \E t \in Threads : StartConnecting(t)
    BY <1>6 DEF StartConnecting
<1>11. CASE \E t \in Threads : AskToWrite(t)
    BY <1>11 DEF AskToWrite
<1>7. CASE \E t \in Threads : ConnectSucceeds(t)
    BY <1>7 DEF ConnectSucceeds
<1>8. CASE NetworkFails
    <2>1. breaks' \in 0..MaxBreaks
        BY <1>8 DEF NetworkFails
    <2>2. network' \in BOOLEAN /\ connection' \in {"none", "fine", "stale"}
        BY <1>8 DEF NetworkFails
    <2>3. QED
        BY <1>8, <2>1, <2>2 DEF NetworkFails
<1>9. CASE NetworkReturns
    BY <1>9 DEF NetworkReturns
<1>10. QED
    BY <1>1, <1>2, <1>3, <1>4, <1>5, <1>6, <1>7, <1>8, <1>9,
       <1>11 DEF LinkNext

LEMMA ToNetworkTyped ==
    ASSUME LinkTypeOK, ToNetwork, UNCHANGED <<network, breaks, connection, pc>>
    PROVE  LinkTypeOK'
BY LinkAssumption DEF LinkTypeOK, ToNetwork

LEMMA LinkStays ==
    ASSUME LinkTypeOK, UNCHANGED linkVars
    PROVE  LinkTypeOK'
BY DEF LinkTypeOK, linkVars

LEMMA AddsAnAnswerer ==
    ASSUME answerers \in [1..MaxReceived -> SUBSET Cameras], NEW c \in Cameras, NEW n
    PROVE  [answerers EXCEPT ![n] = @ \cup {c}] \in [1..MaxReceived -> SUBSET Cameras]
OBVIOUS

LEMMA InboxTyped ==
    ASSUME TypeOK, NEW c \in Cameras, inbox[c] # <<>>
    PROVE  /\ Head(inbox[c]) \in 1..MaxReceived
           /\ Tail(inbox[c]) \in SeqOf(1..MaxReceived, Capacity)
           /\ Head(inbox[c]) = inbox[c][1] /\ 1 \in 1..Len(inbox[c])
<1>1. inbox[c] \in SeqOf(1..MaxReceived, Capacity) /\ Capacity \in Nat
    BY LinkAssumption DEF TypeOK
<1> DEFINE S == 1..MaxReceived
<1> HIDE DEF S
<1>2. inbox[c] \in SeqOf(S, Capacity)
    BY <1>1 DEF S
<1>3. /\ Head(inbox[c]) \in S /\ Tail(inbox[c]) \in SeqOf(S, Capacity)
      /\ Head(inbox[c]) = inbox[c][1] /\ 1 \in 1..Len(inbox[c])
    BY <1>1, <1>2, TailFits
<1>4. QED
    BY <1>3 DEF S

LEMMA TickTyped ==
    ASSUME TypeOK, NEW c \in Cameras, Tick(c)
    PROVE  due' \in [Cameras -> 0..Burst]
<1>1. CASE due' = due
    BY <1>1 DEF TypeOK
<1>2. ASSUME NEW n \in 1..Burst, due' = [due EXCEPT ![c] = n] PROVE due' \in [Cameras -> 0..Burst]
    <2>1. n \in 0..Burst /\ due \in [Cameras -> 0..Burst]
        BY MavlinkAssumption DEF TypeOK
    <2>2. QED
        BY <1>2, <2>1
<1>3. QED
    BY <1>1, <1>2 DEF Tick

LEMMA StepTyped == TypeOK /\ Beginning /\ Numbered /\ Silent /\ [Next]_vars => TypeOK'
<1> SUFFICES ASSUME TypeOK, Beginning, Numbered, Silent, [Next]_vars PROVE TypeOK'
    OBVIOUS
<1> USE LinkAssumption, MavlinkAssumption DEF TypeOK
<1>1. CASE LinkNext /\ UNCHANGED others
    BY <1>1, LinkTyped DEF others, beating, handling
<1>2. ASSUME NEW r \in Requests, Receive(r) PROVE TypeOK'
    <2>1. LinkTypeOK'
        BY <1>2 DEF Receive, LinkTypeOK, Goto, Threads
    <2>2. /\ Append(received, r) \in SeqOf(Requests, MaxReceived)
          /\ Len(received) + 1 \in 1..MaxReceived
        <3>1. received \in Seq(Requests) /\ Len(received) < MaxReceived
            BY <1>2, SeqOfIsSeq DEF Receive
        <3>2. QED
            BY <3>1, AppendFits
    <2>3. \A c \in Cameras : Len(inbox[c]) # Capacity =>
            Append(inbox[c], Len(received) + 1) \in SeqOf(1..MaxReceived, Capacity)
        BY <2>2, AppendFits
    <2>4. <<>> \in SeqOf(1..MaxReceived, Capacity)
        BY EmptyFits
    <2>5. inbox' \in [Cameras -> SeqOf(1..MaxReceived, Capacity)]
        BY <1>2, <2>3, <2>4 DEF Receive
    <2>6. QED
        BY <1>2, <2>1, <2>2, <2>5 DEF Receive, beating
<1>3. ASSUME NEW c \in Cameras, TakeId(c) PROVE TypeOK'
    <2>1. PICK i \in Ids : /\ ids' = [ids EXCEPT ![i] = @ + 1]
                           /\ id' = [id EXCEPT ![c] = i]
        BY <1>3 DEF TakeId
    <2>2. ids' \in [Ids -> Nat] /\ id' \in [Cameras -> Ids \cup {0}]
        BY <2>1
    <2>3. /\ camera' = [camera EXCEPT ![c] = "asking"]
          /\ UNCHANGED <<linkVars, mutex, beating, handling, caught>>
        BY <1>3 DEF TakeId
    <2>4. LinkTypeOK'
        BY <2>3, LinkStays
    <2>5. QED
        BY <2>2, <2>3, <2>4 DEF beating, handling
<1>4. ASSUME NEW c \in Cameras, LockManager(c) PROVE TypeOK'
    <2>1. Cardinality({c}) = 1
        BY FS_Singleton
    <2>2. /\ mutex' = {c}
          /\ UNCHANGED <<linkVars, camera, id, ids, beating, handling, caught>>
        BY <1>4 DEF LockManager
    <2>3. LinkTypeOK'
        BY <2>2, LinkStays
    <2>4. mutex' \subseteq Cameras /\ Cardinality(mutex') <= 1
        BY <2>1, <2>2
    <2>5. QED
        BY <2>2, <2>3, <2>4 DEF beating, handling
<1>5. ASSUME NEW c \in Cameras, GetSender(c) PROVE TypeOK'
    <2>1. Cardinality({}) = 0
        BY FS_EmptySet
    <2>2. /\ mutex' = {}
          /\ camera' = [camera EXCEPT ![c] = "alive"]
          /\ heart' = [heart EXCEPT ![c] = "waiting"]
          /\ task' = [task EXCEPT ![c] = "starting"]
          /\ UNCHANGED <<linkVars, id, ids, due, staleBeats, inbox, hand, todo, said,
                         received, answerers, caught>>
        BY <1>5 DEF GetSender
    <2>3. LinkTypeOK'
        BY <2>2, LinkStays
    <2>4. /\ camera' \in [Cameras -> {"none", "asking", "alive", "dropping", "gone"}]
          /\ heart' \in [Cameras -> {"off", "waiting", "sending"}]
          /\ task' \in [Cameras -> TaskStates]
        BY <2>2 DEF TaskStates
    <2>5. mutex' \subseteq Cameras /\ Cardinality(mutex') <= 1
        BY <2>1, <2>2
    <2>6. QED
        BY <2>2, <2>3, <2>4, <2>5
<1>6. ASSUME NEW c \in Cameras, StartDrop(c) PROVE TypeOK'
    BY <1>6 DEF StartDrop, beating, handling, linkVars, LinkTypeOK
<1>7. ASSUME NEW c \in Cameras, DropId(c) PROVE TypeOK'
    <2>1. id[c] \in Ids /\ ids[id[c]] \in Nat
        BY <1>7 DEF DropId, Beginning
    <2>2. (IF ids[id[c]] = 0 THEN 0 ELSE ids[id[c]] - 1) \in Nat
        BY <2>1
    <2>3. ids' \in [Ids -> Nat]
        BY <1>7, <2>2 DEF DropId
    <2>4. QED
        BY <1>7, <2>3 DEF DropId, beating, handling, linkVars, LinkTypeOK
<1>8. ASSUME NEW c \in Cameras, Tick(c) PROVE TypeOK'
    <2>1. due' \in [Cameras -> 0..Burst]
        BY <1>8, TickTyped
    <2>2. heart' \in [Cameras -> {"off", "waiting", "sending"}]
        BY <1>8 DEF Tick
    <2>3. QED
        BY <1>8, <2>1, <2>2 DEF Tick, handling, linkVars, LinkTypeOK
<1>9. ASSUME NEW c \in Cameras, Beat(c) PROVE TypeOK'
    <2>1. LinkTypeOK'
        BY <1>9, ToNetworkTyped DEF Beat
    <2>2. due' \in [Cameras -> 0..Burst]
        <3>1. due[c] \in 0..Burst /\ due[c] > 0
            BY <1>9 DEF Beat, Silent
        <3>2. due[c] - 1 \in 0..Burst
            BY <3>1
        <3>3. QED
            BY <1>9, <3>2 DEF Beat
    <2>3. staleBeats' \in [Cameras -> 0..(Burst + 1)]
        <3>1. staleBeats[c] \in 0..(Burst + 1)
            OBVIOUS
        <3>2. staleBeats[c] <= Burst => staleBeats[c] + 1 \in 0..(Burst + 1)
            BY <3>1
        <3>3. QED
            BY <1>9, <3>2 DEF Beat
    <2>4. heart' \in [Cameras -> {"off", "waiting", "sending"}]
        BY <1>9 DEF Beat
    <2>5. UNCHANGED <<camera, id, ids, mutex, handling, caught>>
        BY <1>9 DEF Beat
    <2>6. QED
        BY <2>1, <2>2, <2>3, <2>4, <2>5 DEF handling
<1>10. ASSUME NEW c \in Cameras, Overflow(c) PROVE TypeOK'
    <2>1. <<>> \in SeqOf(1..MaxReceived, Capacity)
        BY EmptyFits
    <2>2. QED
        BY <1>10, <2>1 DEF Overflow, beating, linkVars, LinkTypeOK
<1>11. ASSUME NEW c \in Cameras, Subscribe(c) PROVE TypeOK'
    BY <1>11 DEF Subscribe, TaskStates, beating, linkVars, LinkTypeOK
<1>12. ASSUME NEW c \in Cameras, Handle(c) PROVE TypeOK'
    <2>0. inbox[c] # <<>>
        BY <1>12 DEF Handle
    <2>1. /\ Head(inbox[c]) \in 1..MaxReceived
          /\ Tail(inbox[c]) \in SeqOf(1..MaxReceived, Capacity)
          /\ Head(inbox[c]) = inbox[c][1] /\ 1 \in 1..Len(inbox[c])
        BY <2>0, InboxTyped
    <2>2. received[Head(inbox[c])] \in Requests
        <3>1. Head(inbox[c]) <= Len(received)
            BY <2>1 DEF Numbered
        <3>2. received \in Seq(Requests)
            BY SeqOfIsSeq
        <3>3. QED
            BY <2>1, <3>1, <3>2
    <2>3. PICK replies \in Seq(Messages) : todo' = [todo EXCEPT ![c] = replies]
        <3>1. <<>> \in Seq(Messages)
            OBVIOUS
        <3>2. QED
            BY <1>12, <2>2, <3>1, RepliesTyped DEF Handle
    <2>4. <<>> \in Seq(Messages)
        OBVIOUS
    <2>5. /\ UNCHANGED <<linkVars, camera, id, ids, mutex, beating, received, answerers, caught>>
          /\ inbox' = [inbox EXCEPT ![c] = Tail(@)] /\ said' = [said EXCEPT ![c] = <<>>]
          /\ hand' = [hand EXCEPT ![c] = Head(inbox[c])]
          /\ task' = [task EXCEPT ![c] = "handling"]
        BY <1>12 DEF Handle
    <2>6. /\ inbox' \in [Cameras -> SeqOf(1..MaxReceived, Capacity)]
          /\ said' \in [Cameras -> Seq(Messages)] /\ todo' \in [Cameras -> Seq(Messages)]
        BY <2>1, <2>3, <2>4, <2>5
    <2>7. hand' \in [Cameras -> 0..MaxReceived]
        BY <2>1, <2>5
    <2>8. QED
        BY <2>5, <2>6, <2>7 DEF TaskStates, beating, linkVars, LinkTypeOK
<1>13. ASSUME NEW c \in Cameras, Say(c) PROVE TypeOK'
    <2>1. LinkTypeOK'
        BY <1>13, ToNetworkTyped DEF Say
    <2>2. Tail(todo[c]) \in Seq(Messages) /\ Append(said[c], Head(todo[c])) \in Seq(Messages)
        BY <1>13 DEF Say
    <2>3. /\ answerers' = [answerers EXCEPT ![hand[c]] = @ \cup {c}]
          /\ said' = [said EXCEPT ![c] = Append(said[c], Head(todo[c]))]
          /\ todo' = [todo EXCEPT ![c] = Tail(todo[c])]
        BY <1>13 DEF Say
    <2>4. answerers' \in [1..MaxReceived -> SUBSET Cameras]
        BY <2>3, AddsAnAnswerer
    <2>5. said' \in [Cameras -> Seq(Messages)]
        BY <2>2, <2>3
    <2>6. todo' \in [Cameras -> Seq(Messages)]
        BY <2>2, <2>3
    <2>7. UNCHANGED <<camera, id, ids, mutex, beating, task, inbox, hand, received, caught>>
        BY <1>13 DEF Say
    <2>8. QED
        BY <2>1, <2>4, <2>5, <2>6, <2>7 DEF beating
<1>14. ASSUME NEW c \in Cameras, Resume(c) PROVE TypeOK'
    <2>1. todo[c] \in Seq(Messages) /\ todo[c] # <<>>
        BY <1>14 DEF Resume
    <2>2. Tail(todo[c]) \in Seq(Messages)
        BY <2>1
    <2>3. QED
        BY <1>14, <2>2 DEF Resume, beating, linkVars, LinkTypeOK
<1>15. ASSUME NEW c \in Cameras, Handled(c) PROVE TypeOK'
    BY <1>15 DEF Handled, TaskStates, beating, linkVars, LinkTypeOK
<1>16. ASSUME NEW c \in Cameras, EndTask(c) PROVE TypeOK'
    <2>1. <<>> \in SeqOf(1..MaxReceived, Capacity) /\ <<>> \in Seq(Messages)
        BY EmptyFits
    <2>2. /\ task' \in [Cameras -> TaskStates] /\ hand' \in [Cameras -> 0..MaxReceived]
          /\ inbox' \in [Cameras -> SeqOf(1..MaxReceived, Capacity)]
          /\ todo' \in [Cameras -> Seq(Messages)] /\ said' \in [Cameras -> Seq(Messages)]
        BY <1>16, <2>1 DEF EndTask, TaskStates
    <2>3. UNCHANGED <<linkVars, camera, id, ids, mutex, beating, received, answerers, caught>>
        BY <1>16 DEF EndTask
    <2>4. QED
        BY <2>2, <2>3 DEF beating, linkVars, LinkTypeOK
<1>17. ASSUME NEW c \in Cameras, Park(c) \/ Wake(c) PROVE TypeOK'
    <2>1. UNCHANGED <<linkVars, camera, id, ids, mutex, beating, inbox, hand, todo, said,
                      received, answerers, caught>>
        BY <1>17 DEF Park, Wake
    <2>2. task' \in [Cameras -> TaskStates]
        <3>1. PICK t \in TaskStates : task' = [task EXCEPT ![c] = t]
            BY <1>17 DEF Park, Wake, TaskStates
        <3>2. QED
            BY <3>1
    <2>3. QED
        BY <2>1, <2>2 DEF beating, linkVars, LinkTypeOK
<1>18. CASE UNCHANGED vars
    BY <1>18 DEF vars, beating, handling, linkVars, LinkTypeOK
<1> HIDE DEF TypeOK
<1>19. ASSUME NEW c \in Cameras,
              \/ TakeId(c) \/ LockManager(c) \/ GetSender(c) \/ StartDrop(c) \/ DropId(c)
              \/ Tick(c) \/ Beat(c) \/ Overflow(c) \/ Subscribe(c) \/ Park(c) \/ Wake(c)
              \/ Handle(c) \/ Say(c) \/ Resume(c) \/ Handled(c) \/ EndTask(c)
       PROVE  TypeOK'
    BY <1>3, <1>4, <1>5, <1>6, <1>7, <1>8, <1>9, <1>10, <1>11, <1>12, <1>13, <1>14, <1>15,
       <1>16, <1>17, <1>19
<1>20. QED
    BY <1>1, <1>2, <1>18, <1>19 DEF Next, CameraNext

------------------------------------------------------------------------------
(* The life of a camera and its id *)

\* A camera only moves on.
LEMMA StepBeginning == TypeOK /\ Beginning /\ [Next]_vars => Beginning'
<1> SUFFICES ASSUME TypeOK, Beginning, [Next]_vars PROVE Beginning'
    OBVIOUS
<1>0. /\ camera \in [Cameras -> {"none", "asking", "alive", "dropping", "gone"}]
      /\ id \in [Cameras -> Ids \cup {0}]
      /\ heart \in [Cameras -> {"off", "waiting", "sending"}]
      /\ task \in [Cameras -> TaskStates]
      /\ hand \in [Cameras -> 0..MaxReceived] /\ due \in [Cameras -> 0..Burst]
      /\ answerers \in [1..MaxReceived -> SUBSET Cameras]
      /\ DOMAIN todo = Cameras /\ DOMAIN said = Cameras /\ DOMAIN inbox = Cameras
      /\ mutex \subseteq Cameras
    BY DEF TypeOK
<1> USE DEF Beginning
<1>1. CASE LinkNext /\ UNCHANGED others
    BY <1>1 DEF others, beating, handling
<1>2. ASSUME NEW r \in Requests, Receive(r) PROVE Beginning'
    BY <1>0, <1>2 DEF Receive, Listening, beating
<1>3. ASSUME NEW c \in Cameras, TakeId(c) PROVE Beginning'
    BY <1>0, <1>3 DEF TakeId, beating, handling
<1>4. ASSUME NEW c \in Cameras, LockManager(c) PROVE Beginning'
    BY <1>0, <1>4 DEF LockManager, beating, handling
<1>5. ASSUME NEW c \in Cameras, GetSender(c) PROVE Beginning'
    BY <1>0, <1>5 DEF GetSender
<1>6. ASSUME NEW c \in Cameras, StartDrop(c) PROVE Beginning'
    BY <1>0, <1>6 DEF StartDrop, beating, handling
<1>7. ASSUME NEW c \in Cameras, DropId(c) PROVE Beginning'
    BY <1>0, <1>7 DEF DropId, beating, handling
<1>8. ASSUME NEW c \in Cameras, Tick(c) \/ Beat(c) PROVE Beginning'
    <2>1. CASE Tick(c)
        BY <1>0, <2>1 DEF Tick, handling
    <2>2. CASE Beat(c)
        BY <1>0, <2>2 DEF Beat, handling
    <2>3. QED
        BY <1>8, <2>1, <2>2
<1>9. ASSUME NEW c \in Cameras, Overflow(c) \/ Subscribe(c) \/ Park(c) \/ Wake(c)
      PROVE  Beginning'
    <2>1. CASE Overflow(c)
        BY <1>0, <2>1 DEF Overflow, Listening, beating
    <2>2. CASE Subscribe(c)
        BY <1>0, <2>2 DEF Subscribe, beating
    <2>3. CASE Park(c) \/ Wake(c)
        <3>1. /\ task[c] # "off" /\ \A d \in Cameras \ {c} : task'[d] = task[d]
              /\ UNCHANGED <<camera, id, mutex, heart, due, inbox, hand, todo, said, answerers,
                             caught>>
            BY <1>0, <2>3 DEF Park, Wake, beating
        <3>2. QED
            BY <1>0, <3>1
    <2>4. QED
        BY <1>9, <2>1, <2>2, <2>3
<1>10. ASSUME NEW c \in Cameras, Handle(c) PROVE Beginning'
    <2>1. camera[c] \notin {"none", "asking"}
        BY <1>10 DEF Handle, beating
    <2>2. PICK replies : todo' = [todo EXCEPT ![c] = replies]
        BY <1>10 DEF Handle, beating
    <2>3. QED
        BY <1>0, <1>10, <2>1, <2>2 DEF Handle, beating
<1>11. ASSUME NEW c \in Cameras, Say(c) PROVE Beginning'
    <2>1. camera[c] \notin {"none", "asking"}
        BY <1>11 DEF Say, beating
    <2>2. QED
        BY <1>0, <1>11, <2>1 DEF Say, beating
<1>12. ASSUME NEW c \in Cameras, Resume(c) \/ Handled(c) \/ EndTask(c) PROVE Beginning'
    <2>1. camera[c] \notin {"none", "asking"}
        BY <1>12 DEF Resume, Handled, EndTask
    <2>2. CASE Resume(c)
        BY <1>0, <2>1, <2>2 DEF Resume, beating
    <2>3. CASE Handled(c)
        BY <1>0, <2>1, <2>3 DEF Handled, beating
    <2>4. CASE EndTask(c)
        <3>1. UNCHANGED <<camera, id, mutex, heart, due, answerers, caught>>
            BY <2>4 DEF EndTask, beating
        <3>2. /\ \A d \in Cameras \ {c} : /\ task'[d] = task[d] /\ inbox'[d] = inbox[d]
                                          /\ hand'[d] = hand[d] /\ todo'[d] = todo[d]
                                          /\ said'[d] = said[d]
            BY <1>0, <2>4 DEF EndTask
        <3>3. QED
            BY <1>0, <2>1, <3>1, <3>2
    <2>5. QED
        BY <1>12, <2>2, <2>3, <2>4
<1>13. CASE UNCHANGED vars
    BY <1>13 DEF vars, beating, handling
<1>14. QED
    BY <1>1, <1>2, <1>3, <1>4, <1>5, <1>6, <1>7, <1>8, <1>9, <1>10, <1>11, <1>12, <1>13
    DEF Next, CameraNext

\* Only TakeId and DropId touch the ids, and nobody else changes who has one.
LEMMA StepIds == TypeOK /\ Beginning /\ IdsMatchCameras /\ [Next]_vars => IdsMatchCameras'
<1> SUFFICES ASSUME TypeOK, Beginning, IdsMatchCameras, [Next]_vars PROVE IdsMatchCameras'
    OBVIOUS
<1>0. /\ camera \in [Cameras -> {"none", "asking", "alive", "dropping", "gone"}]
      /\ id \in [Cameras -> Ids \cup {0}] /\ ids \in [Ids -> Nat] /\ mutex \subseteq Cameras
    BY DEF TypeOK
<1>1. ASSUME UNCHANGED <<id, ids>>, \A c \in Cameras : HasId(c)' <=> HasId(c)
      PROVE  IdsMatchCameras'
    BY <1>1 DEF IdsMatchCameras
<1>2. ASSUME NEW c \in Cameras, TakeId(c) PROVE IdsMatchCameras'
    <2>1. PICK i \in Ids : /\ ids[i] = 0 /\ ids' = [ids EXCEPT ![i] = ids[i] + 1]
                           /\ id' = [id EXCEPT ![c] = i]
        BY <1>2 DEF TakeId, IsFree
    <2>2. \A d \in Cameras : HasId(d) => id[d] # i
        BY <2>1 DEF IdsMatchCameras
    <2>3. /\ ~HasId(c) /\ HasId(c)'
          /\ \A d \in Cameras \ {c} : HasId(d)' <=> HasId(d)
        BY <1>0, <1>2 DEF TakeId, HasId
    <2>4. ids'[i] = 1 /\ id'[c] = i /\ \A j \in Ids \ {i} : ids'[j] = ids[j]
        BY <1>0, <2>1
    <2>5. \A d \in Cameras \ {c} : id'[d] = id[d]
        BY <1>0, <2>1
    <2>6. QED
        BY <2>2, <2>3, <2>4, <2>5 DEF IdsMatchCameras
<1>3. ASSUME NEW c \in Cameras, DropId(c) PROVE IdsMatchCameras'
    <2>1. /\ HasId(c) /\ ~HasId(c)' /\ id[c] \in Ids
          /\ \A d \in Cameras \ {c} : HasId(d)' <=> HasId(d)
        BY <1>0, <1>3 DEF DropId, HasId, Beginning
    <2>2. ids[id[c]] = 1
        BY <2>1 DEF IdsMatchCameras
    <2>3. /\ ids'[id[c]] = 0 /\ id' = id
          /\ \A j \in Ids \ {id[c]} : ids'[j] = ids[j]
        BY <1>0, <1>3, <2>1, <2>2 DEF DropId
    <2>4. \A d \in Cameras \ {c} : HasId(d) => id[d] # id[c]
        BY <2>1 DEF IdsMatchCameras
    <2>5. QED
        BY <2>1, <2>3, <2>4 DEF IdsMatchCameras
<1>4. ASSUME NEW c \in Cameras, LockManager(c) PROVE IdsMatchCameras'
    BY <1>1, <1>4 DEF LockManager, HasId
<1>5. ASSUME NEW c \in Cameras, GetSender(c) PROVE IdsMatchCameras'
    BY <1>0, <1>1, <1>5 DEF GetSender, HasId, Beginning
<1>6. ASSUME NEW c \in Cameras, StartDrop(c) PROVE IdsMatchCameras'
    BY <1>0, <1>1, <1>6 DEF StartDrop, HasId
<1>7. CASE UNCHANGED <<camera, id, ids>>
    BY <1>1, <1>7 DEF HasId
<1>8. QED
    BY <1>2, <1>3, <1>4, <1>5, <1>6, <1>7
    DEF Next, CameraNext, others, vars, Receive, Tick, Beat, Overflow, Subscribe, Park, Wake,
        Handle, Say, Resume, Handled, EndTask

LEMMA StepSilent == TypeOK /\ Beginning /\ Silent /\ [Next]_vars => Silent'
<1> SUFFICES ASSUME TypeOK, Beginning, Silent, [Next]_vars PROVE Silent'
    OBVIOUS
<1>0. /\ camera \in [Cameras -> {"none", "asking", "alive", "dropping", "gone"}]
      /\ heart \in [Cameras -> {"off", "waiting", "sending"}]
      /\ due \in [Cameras -> 0..Burst] /\ Burst \in Nat
      /\ staleBeats \in [Cameras -> 0..(Burst + 1)] /\ mutex \subseteq Cameras
    BY MavlinkAssumption DEF TypeOK
<1> USE DEF Silent
<1>1. ASSUME NEW c \in Cameras, TakeId(c) PROVE Silent'
    BY <1>0, <1>1 DEF TakeId, beating
<1>2. ASSUME NEW c \in Cameras, GetSender(c) PROVE Silent'
    BY <1>0, <1>2 DEF GetSender, Beginning
<1>3. ASSUME NEW c \in Cameras, StartDrop(c) \/ DropId(c) PROVE Silent'
    BY <1>0, <1>3 DEF StartDrop, DropId, beating
<1>4. ASSUME NEW c \in Cameras, Tick(c) PROVE Silent'
    <2>1. CASE Aborted(c)
        BY <1>0, <1>4, <2>1 DEF Tick
    <2>2. CASE ~Aborted(c)
        <3>1. PICK n \in 1..Burst : due' = [due EXCEPT ![c] = n]
            BY <1>4, <2>2 DEF Tick
        <3>2. /\ heart' = [heart EXCEPT ![c] = "sending"] /\ camera[c] # "gone"
              /\ UNCHANGED <<camera, staleBeats>>
            BY <1>4, <2>2 DEF Tick, Aborted
        <3>3. QED
            BY <1>0, <3>1, <3>2
    <2>3. QED
        BY <2>1, <2>2
<1>5. ASSUME NEW c \in Cameras, Beat(c) PROVE Silent'
    <2>1. /\ heart[c] = "sending" /\ camera' = camera
          /\ due' = [due EXCEPT ![c] = @ - 1]
          /\ heart' = [heart EXCEPT ![c] = IF due[c] = 1 THEN "waiting" ELSE "sending"]
          /\ staleBeats' = [staleBeats EXCEPT ![c] =
                                IF camera[c] = "gone" /\ @ <= Burst THEN @ + 1 ELSE @]
        BY <1>5 DEF Beat
    <2>2. due[c] \in 1..Burst /\ staleBeats[c] \in 0..(Burst + 1)
        BY <1>0, <2>1
    <2>3. /\ due'[c] = due[c] - 1 /\ (heart'[c] = "sending" <=> due[c] # 1)
          /\ camera[c] # "gone" => staleBeats'[c] = staleBeats[c]
          /\ camera[c] = "gone" => staleBeats'[c] <= staleBeats[c] + 1
          /\ staleBeats'[c] \in Nat
        BY <1>0, <2>1, <2>2
    <2>4. \A d \in Cameras \ {c} : /\ due'[d] = due[d] /\ heart'[d] = heart[d]
                                   /\ staleBeats'[d] = staleBeats[d]
        BY <1>0, <2>1
    <2>5. /\ heart'[c] # "sending" => due'[c] = 0
          /\ heart'[c] = "sending" => due'[c] > 0
        BY <2>2, <2>3
    <2>6. camera[c] = "gone" => staleBeats'[c] + due'[c] <= Burst
        BY <1>0, <2>2, <2>3
    <2>7. QED
        BY <2>1, <2>3, <2>4, <2>5, <2>6
<1>6. CASE UNCHANGED <<camera, beating>>
    BY <1>6 DEF beating
<1>7. QED
    BY <1>1, <1>2, <1>3, <1>4, <1>5, <1>6
    DEF Next, CameraNext, others, vars, Receive, LockManager, Overflow, Subscribe, Park, Wake,
        Handle, Say, Resume, Handled, EndTask

\* Only a task that has not been aborted is woken.
LEMMA StepStopped == TypeOK /\ Beginning /\ Stopped /\ [Next]_vars => Stopped'
<1> SUFFICES ASSUME TypeOK, Beginning, Stopped, [Next]_vars PROVE Stopped'
    OBVIOUS
<1>0. /\ camera \in [Cameras -> {"none", "asking", "alive", "dropping", "gone"}]
      /\ task \in [Cameras -> TaskStates] /\ mutex \subseteq Cameras
    BY DEF TypeOK
<1> USE DEF Stopped, Aborted
<1>1. ASSUME NEW c \in Cameras, TakeId(c) PROVE Stopped'
    BY <1>0, <1>1 DEF TakeId, handling
<1>2. ASSUME NEW c \in Cameras, GetSender(c) PROVE Stopped'
    BY <1>0, <1>2 DEF GetSender, Beginning
<1>3. ASSUME NEW c \in Cameras, StartDrop(c) PROVE Stopped'
    BY <1>0, <1>3 DEF StartDrop, handling
<1>4. ASSUME NEW c \in Cameras, DropId(c) PROVE Stopped'
    BY <1>0, <1>4 DEF DropId, handling
<1>5. ASSUME NEW c \in Cameras, Subscribe(c) \/ Park(c) \/ Wake(c) PROVE Stopped'
    <2>1. CASE Subscribe(c)
        BY <1>0, <2>1 DEF Subscribe
    <2>2. CASE Park(c)
        BY <1>0, <2>2 DEF Park
    <2>3. CASE Wake(c)
        BY <1>0, <2>3 DEF Wake
    <2>4. QED
        BY <1>5, <2>1, <2>2, <2>3
<1>6. ASSUME NEW c \in Cameras, Handle(c) \/ Handled(c) \/ EndTask(c) PROVE Stopped'
    <2>1. CASE Handle(c)
        <3>1. /\ task[c] = "polling" /\ task' = [task EXCEPT ![c] = "handling"]
              /\ UNCHANGED <<camera, caught>>
            BY <2>1 DEF Handle
        <3>2. QED
            BY <1>0, <3>1
    <2>2. CASE Handled(c)
        BY <1>0, <2>2 DEF Handled
    <2>3. CASE EndTask(c)
        BY <1>0, <2>3 DEF EndTask
    <2>4. QED
        BY <1>6, <2>1, <2>2, <2>3
<1>7. CASE UNCHANGED <<camera, task, caught>>
    BY <1>7
<1>8. QED
    BY <1>1, <1>2, <1>3, <1>4, <1>5, <1>6, <1>7
    DEF Next, CameraNext, others, handling, vars, Receive, LockManager, Tick, Beat, Overflow,
        Say, Resume

------------------------------------------------------------------------------
(* Who answers a request *)

\* Numbers are given to requests as they are received.
LEMMA StepNumbered == TypeOK /\ Numbered /\ [Next]_vars => Numbered'
<1> SUFFICES ASSUME TypeOK, Numbered, [Next]_vars PROVE Numbered'
    OBVIOUS
<1>0. /\ hand \in [Cameras -> 0..MaxReceived] /\ inbox \in [Cameras -> SeqOf(1..MaxReceived, Capacity)]
      /\ answerers \in [1..MaxReceived -> SUBSET Cameras]
      /\ received \in Seq(Requests) /\ Len(received) \in Nat
      /\ MaxReceived \in Nat /\ Capacity \in Nat
    BY SeqOfIsSeq, LinkAssumption, MavlinkAssumption DEF TypeOK
<1> USE DEF Numbered
<1>1. ASSUME NEW r \in Requests, Receive(r) PROVE Numbered'
    <2>1. /\ received' = Append(received, r) /\ answerers' = answerers /\ hand' = hand
          /\ Len(received) < MaxReceived
        BY <1>1 DEF Receive
    <2>2. Len(received') = Len(received) + 1
        BY <1>0, <2>1
    <2>3. ASSUME NEW c \in Cameras, NEW i \in 1..Len(inbox'[c])
          PROVE  inbox'[c][i] <= Len(received')
        <3>1. \/ inbox'[c] = <<>>
              \/ /\ inbox'[c] = Append(inbox[c], Len(received) + 1)
                 /\ Len(inbox[c]) # Capacity
            BY <1>1 DEF Receive
        <3>2. CASE inbox'[c] = <<>>
            BY <2>3, <3>2
        <3>3. CASE inbox'[c] = Append(inbox[c], Len(received) + 1) /\ Len(inbox[c]) # Capacity
            <4>1. Len(received) + 1 \in 1..MaxReceived
                BY <1>0, <2>1
            <4>2. /\ Len(inbox'[c]) = Len(inbox[c]) + 1 /\ Len(inbox[c]) \in Nat
                  /\ inbox'[c][i] = IF i = Len(inbox[c]) + 1 THEN Len(received) + 1 ELSE inbox[c][i]
                BY <1>0, <2>3, <3>3, <4>1, AppendFits
            <4>3. CASE i = Len(inbox[c]) + 1
                BY <1>0, <2>2, <4>2, <4>3
            <4>4. CASE i # Len(inbox[c]) + 1
                <5>1. i \in 1..Len(inbox[c]) /\ inbox[c] \in Seq(1..MaxReceived)
                    BY <1>0, <2>3, <4>2, <4>4, SeqOfIsSeq
                <5>2. inbox[c][i] \in Nat
                    <6>1. inbox[c][i] \in 1..MaxReceived
                        BY <5>1, ElementOfSeq, Zenon
                    <6>2. QED
                        BY <1>0, <6>1
                <5>3. inbox[c][i] <= Len(received)
                    <6>1. \A j \in 1..Len(inbox[c]) : inbox[c][j] <= Len(received)
                        BY <2>3
                    <6>2. QED
                        BY <5>1, <6>1
                <5>4. QED
                    BY <1>0, <2>2, <4>2, <4>4, <5>2, <5>3
            <4>5. QED
                BY <4>3, <4>4
        <3>4. QED
            BY <3>1, <3>2, <3>3
    <2>4. \A c \in Cameras : hand'[c] <= Len(received')
        BY <1>0, <2>1, <2>2
    <2>5. ASSUME NEW n \in 1..MaxReceived, n > Len(received') PROVE answerers'[n] = {}
        <3>1. n > Len(received)
            BY <1>0, <2>2, <2>5
        <3>2. QED
            BY <2>1, <3>1
    <2>6. QED
        BY <2>3, <2>4, <2>5
<1>2. ASSUME NEW c \in Cameras, Overflow(c) PROVE Numbered'
    BY <1>0, <1>2 DEF Overflow
<1>3. ASSUME NEW c \in Cameras, Handle(c) PROVE Numbered'
    <2>1. inbox[c] # <<>> /\ inbox[c] \in SeqOf(1..MaxReceived, Capacity)
        BY <1>0, <1>3 DEF Handle
    <2>2. /\ Head(inbox[c]) = inbox[c][1] /\ 1 \in 1..Len(inbox[c])
          /\ \A i \in 1..Len(Tail(inbox[c])) :
                i + 1 \in 1..Len(inbox[c]) /\ Tail(inbox[c])[i] = inbox[c][i + 1]
        BY <1>0, <2>1, TailFits
    <2>3. /\ received' = received /\ answerers' = answerers
          /\ hand' = [hand EXCEPT ![c] = Head(inbox[c])]
          /\ inbox' = [inbox EXCEPT ![c] = Tail(@)]
        BY <1>3 DEF Handle
    <2>4. \A i \in 1..Len(inbox'[c]) : inbox'[c][i] <= Len(received)
        BY <1>0, <2>2, <2>3
    <2>5. QED
        BY <1>0, <2>2, <2>3, <2>4
<1>4. ASSUME NEW c \in Cameras, Say(c) PROVE Numbered'
    <2>1. \A n \in 1..MaxReceived : n > Len(received) => hand[c] # n
        BY <1>0
    <2>2. \A n \in 1..MaxReceived : n > Len(received) => answerers'[n] = answerers[n]
        BY <1>0, <1>4, <2>1 DEF Say
    <2>3. QED
        BY <1>4, <2>2 DEF Say
<1>5. ASSUME NEW c \in Cameras, EndTask(c) PROVE Numbered'
    <2>1. /\ hand' = [hand EXCEPT ![c] = 0] /\ inbox' = [inbox EXCEPT ![c] = <<>>]
          /\ received' = received /\ answerers' = answerers
        BY <1>5 DEF EndTask
    <2>2. QED
        BY <1>0, <2>1
<1>6. CASE UNCHANGED <<inbox, hand, received, answerers>>
    BY <1>6
<1>7. QED
    BY <1>1, <1>2, <1>3, <1>4, <1>5, <1>6
    DEF Next, CameraNext, others, handling, vars, TakeId, LockManager, GetSender, StartDrop,
        DropId, Tick, Beat, Subscribe, Park, Wake, Resume, Handled

\* A step after which no more cameras may answer than before, with the same ids.
LEMMA AddressedKept ==
    ASSUME Addressed, received' = received,
           \A c \in Cameras : \A n \in 1..Len(received) :
              /\ MayAnswer(c, n)' => MayAnswer(c, n) /\ id'[c] = id[c]
              /\ Answers(c, n)' => /\ Answers(c, n) \/ received[n].to \in {0, id[c]}
                                   /\ id'[c] = id[c]
    PROVE  Addressed'
<1> SUFFICES ASSUME NEW n \in 1..Len(received), received[n].to # 0
             PROVE  /\ \A c \in Cameras : Answers(c, n)' => id'[c] = received[n].to
                    /\ \A c, d \in Cameras :
                        MayAnswer(c, n)' /\ MayAnswer(d, n)' /\ id'[c] = id'[d] => c = d
    BY DEF Addressed
<1>1. \A c \in Cameras : Answers(c, n) => id[c] = received[n].to
    BY DEF Addressed
<1>2. \A c, d \in Cameras : MayAnswer(c, n) /\ MayAnswer(d, n) /\ id[c] = id[d] => c = d
    BY DEF Addressed
<1>3. QED
    BY <1>1, <1>2

\* A new request: only cameras that are alive will see it.
LEMMA ReceiveAddressed ==
    ASSUME TypeOK, Beginning, Numbered, IdsMatchCameras, Addressed,
           NEW r \in Requests, Receive(r)
    PROVE  Addressed'
<1>0. /\ hand \in [Cameras -> 0..MaxReceived] /\ inbox \in [Cameras -> SeqOf(1..MaxReceived, Capacity)]
      /\ camera \in [Cameras -> {"none", "asking", "alive", "dropping", "gone"}]
      /\ received \in Seq(Requests) /\ Len(received) \in Nat
      /\ MaxReceived \in Nat /\ Capacity \in Nat
    BY SeqOfIsSeq, LinkAssumption, MavlinkAssumption DEF TypeOK
<1>1. /\ received' = Append(received, r) /\ Len(received) < MaxReceived
      /\ UNCHANGED <<camera, id, task, hand, todo, answerers, caught>>
    BY DEF Receive
<1>2. /\ Len(received') = Len(received) + 1
      /\ \A n \in 1..Len(received) : received'[n] = received[n]
    BY <1>0, <1>1
<1>3. \A c \in Cameras, n \in Nat : Answers(c, n)' <=> Answers(c, n)
    BY <1>1 DEF Answers
<1>4. \A c \in Cameras : Aborted(c)' <=> Aborted(c)
    BY <1>1 DEF Aborted
<1>5. ASSUME NEW c \in Cameras, NEW n \in 1..Len(received)
      PROVE  MayAnswer(c, n)' => MayAnswer(c, n)
    <2>1. ASSUME NEW i \in 1..Len(inbox'[c]), inbox'[c][i] = n
          PROVE  \E j \in 1..Len(inbox[c]) : inbox[c][j] = n
        <3>1. /\ inbox'[c] = Append(inbox[c], Len(received) + 1)
              /\ Len(inbox[c]) # Capacity
            BY <2>1 DEF Receive
        <3>2. Len(received) + 1 \in 1..MaxReceived
            BY <1>0, <1>1
        <3>3. /\ Len(inbox'[c]) = Len(inbox[c]) + 1 /\ Len(inbox[c]) \in Nat
              /\ inbox'[c][i] = IF i = Len(inbox[c]) + 1 THEN Len(received) + 1 ELSE inbox[c][i]
            BY <1>0, <2>1, <3>1, <3>2, AppendFits
        <3>4. i # Len(inbox[c]) + 1
            BY <1>0, <2>1, <3>3
        <3>5. QED
            BY <2>1, <3>3, <3>4
    <2>2. QED
        BY <1>1, <1>3, <1>4, <2>1 DEF MayAnswer
<1>6. ASSUME NEW n \in 1..Len(received), received'[n].to # 0
      PROVE  /\ \A c \in Cameras : Answers(c, n)' => id'[c] = received'[n].to
             /\ \A c, d \in Cameras :
                 MayAnswer(c, n)' /\ MayAnswer(d, n)' /\ id'[c] = id'[d] => c = d
    BY <1>1, <1>2, <1>3, <1>5, <1>6 DEF Addressed
<1>7. ASSUME NEW n, n = Len(received) + 1
      PROVE  /\ \A c \in Cameras : ~Answers(c, n)'
             /\ \A c, d \in Cameras :
                 MayAnswer(c, n)' /\ MayAnswer(d, n)' /\ id'[c] = id'[d] => c = d
    <2>1. \A c \in Cameras : ~Answers(c, n)'
        <3>1. n \in 1..MaxReceived /\ n > Len(received)
            BY <1>0, <1>1, <1>7
        <3>2. answerers[n] = {} /\ \A c \in Cameras : hand[c] # n
            BY <1>0, <3>1 DEF Numbered
        <3>3. QED
            BY <1>1, <3>2 DEF Answers
    <2>2. ASSUME NEW c \in Cameras, MayAnswer(c, n)' PROVE HasId(c)
        <3>1. ~Aborted(c) /\ inbox'[c] # <<>>
            BY <1>4, <2>1, <2>2 DEF MayAnswer
        <3>2. task[c] # "off"
            BY <3>1 DEF Receive, Listening
        <3>3. camera[c] \notin {"none", "asking"}
            BY <3>2 DEF Beginning
        <3>4. QED
            BY <1>0, <3>1, <3>3 DEF Aborted, HasId
    <2>3. QED
        BY <1>1, <2>1, <2>2 DEF IdsMatchCameras
<1>8. \A n \in 1..Len(received') : n \in 1..Len(received) \/ n = Len(received) + 1
    BY <1>0, <1>2
<1>9. QED
    BY <1>6, <1>7, <1>8 DEF Addressed

LEMMA StepAddressed ==
    TypeOK /\ Beginning /\ Numbered /\ IdsMatchCameras /\ Addressed /\ Stopped /\ [Next]_vars
        => Addressed'
<1> SUFFICES ASSUME TypeOK, Beginning, Numbered, IdsMatchCameras, Addressed, Stopped, [Next]_vars
             PROVE  Addressed'
    OBVIOUS
<1>0. /\ camera \in [Cameras -> {"none", "asking", "alive", "dropping", "gone"}]
      /\ id \in [Cameras -> Ids \cup {0}] /\ mutex \subseteq Cameras
      /\ hand \in [Cameras -> 0..MaxReceived] /\ inbox \in [Cameras -> SeqOf(1..MaxReceived, Capacity)]
      /\ answerers \in [1..MaxReceived -> SUBSET Cameras] /\ DOMAIN todo = Cameras
      /\ Len(received) \in Nat /\ Len(received) <= MaxReceived
      /\ MaxReceived \in Nat /\ Capacity \in Nat
    BY SeqOfIsSeq, LinkAssumption, MavlinkAssumption DEF TypeOK
<1>1. 1..Len(received) \subseteq 1..MaxReceived /\ 0 \notin 1..Len(received)
    BY <1>0
<1>2. ASSUME NEW r \in Requests, Receive(r) PROVE Addressed'
    BY <1>2, ReceiveAddressed
<1>3. ASSUME NEW c \in Cameras, TakeId(c) PROVE Addressed'
    <2>1. /\ UNCHANGED <<inbox, hand, todo, received, answerers, caught>>
          /\ camera[c] = "none" /\ camera' = [camera EXCEPT ![c] = "asking"]
          /\ \A d \in Cameras \ {c} : id'[d] = id[d]
        BY <1>0, <1>3 DEF TakeId, handling
    <2>2. \A d \in Cameras : Aborted(d)' <=> Aborted(d)
        BY <1>0, <2>1 DEF Aborted
    <2>3. \A d \in Cameras, n \in 1..Len(received) :
            /\ Answers(d, n)' <=> Answers(d, n)
            /\ MayAnswer(d, n)' <=> MayAnswer(d, n)
        BY <2>1, <2>2 DEF Answers, MayAnswer
    <2>4. \A n \in 1..Len(received) : ~MayAnswer(c, n) /\ ~Answers(c, n)
        BY <1>1, <2>1 DEF MayAnswer, Answers, Beginning
    <2>5. QED
        BY <2>1, <2>3, <2>4, AddressedKept
<1>4. ASSUME UNCHANGED <<id, inbox, hand, todo, received, answerers>>, caught \subseteq caught',
             \A c \in Cameras : Aborted(c) => Aborted(c)'
      PROVE  Addressed'
    <2>1. \A d \in Cameras, n \in 1..Len(received) :
            /\ Answers(d, n)' <=> Answers(d, n)
            /\ MayAnswer(d, n)' => MayAnswer(d, n)
        BY <1>4 DEF Answers, MayAnswer
    <2>2. QED
        BY <1>4, <2>1, AddressedKept
<1>5. ASSUME NEW c \in Cameras, GetSender(c) PROVE Addressed'
    <2>1. \A d \in Cameras : Aborted(d) => Aborted(d)'
        BY <1>0, <1>5 DEF GetSender, Aborted, Beginning
    <2>2. QED
        BY <1>4, <1>5, <2>1 DEF GetSender
<1>6. ASSUME NEW c \in Cameras, StartDrop(c) \/ DropId(c) PROVE Addressed'
    <2>1. \A d \in Cameras : Aborted(d) => Aborted(d)'
        BY <1>0, <1>6 DEF StartDrop, DropId, Aborted
    <2>2. QED
        BY <1>4, <1>6, <2>1 DEF StartDrop, DropId, handling
<1>7. CASE UNCHANGED <<camera, id, inbox, hand, todo, received, answerers, caught>>
    BY <1>4, <1>7 DEF Aborted
<1>8. ASSUME NEW c \in Cameras, Overflow(c) PROVE Addressed'
    <2>1. /\ UNCHANGED <<camera, id, hand, todo, received, answerers, caught>>
          /\ inbox' = [inbox EXCEPT ![c] = <<>>]
        BY <1>8 DEF Overflow
    <2>2. \A d \in Cameras : inbox'[d] \in {inbox[d], <<>>}
        BY <1>0, <2>1
    <2>3. \A d \in Cameras, n \in 1..Len(received) :
            /\ Answers(d, n)' <=> Answers(d, n)
            /\ MayAnswer(d, n)' => MayAnswer(d, n)
        BY <2>1, <2>2 DEF Answers, MayAnswer, Aborted
    <2>4. QED
        BY <2>1, <2>3, AddressedKept
<1>9. ASSUME NEW c \in Cameras, Handle(c) PROVE Addressed'
    <2>1. /\ inbox[c] # <<>> /\ (Aborted(c) => c \in caught)
          /\ UNCHANGED <<camera, id, received, answerers, caught>>
          /\ hand' = [hand EXCEPT ![c] = Head(inbox[c])]
          /\ inbox' = [inbox EXCEPT ![c] = Tail(@)]
        BY <1>9 DEF Handle, Stopped
    <2>2. PICK replies \in IF IsAddressedTo(received[Head(inbox[c])], id[c])
                           THEN Replies(received[Head(inbox[c])]) ELSE {<<>>} :
            todo' = [todo EXCEPT ![c] = replies]
        BY <1>9 DEF Handle
    <2>3. /\ Head(inbox[c]) = inbox[c][1] /\ 1 \in 1..Len(inbox[c])
          /\ \A i \in 1..Len(Tail(inbox[c])) :
                i + 1 \in 1..Len(inbox[c]) /\ Tail(inbox[c])[i] = inbox[c][i + 1]
        BY <1>0, <2>1, TailFits
    <2>4. \A d \in Cameras \ {c} : hand'[d] = hand[d] /\ inbox'[d] = inbox[d] /\ todo'[d] = todo[d]
        BY <1>0, <2>1, <2>2
    <2>5. hand'[c] = inbox[c][1] /\ todo'[c] = replies /\ inbox'[c] = Tail(inbox[c])
        BY <1>0, <2>1, <2>2, <2>3
    <2>6. \A d \in Cameras \ {c}, n \in 1..Len(received) :
            /\ Answers(d, n)' <=> Answers(d, n)
            /\ MayAnswer(d, n)' => MayAnswer(d, n)
        BY <2>1, <2>4 DEF Answers, MayAnswer, Aborted
    <2>7. ASSUME NEW n \in 1..Len(received), Answers(c, n)'
          PROVE  /\ Answers(c, n) \/ received[n].to \in {0, id[c]}
                 /\ c \notin caught => MayAnswer(c, n)
        <3>1. CASE c \in answerers'[n]
            BY <2>1, <3>1 DEF Answers, MayAnswer
        <3>2. CASE hand'[c] = n /\ todo'[c] # <<>>
            <4>1. inbox[c][1] = n /\ Head(inbox[c]) = n /\ replies # <<>>
                BY <2>3, <2>5, <3>2
            <4>2. IsAddressedTo(received[n], id[c])
                BY <2>2, <4>1
            <4>3. c \notin caught => MayAnswer(c, n)
                BY <2>1, <2>3, <4>1 DEF MayAnswer
            <4>4. QED
                BY <4>2, <4>3 DEF IsAddressedTo
        <3>3. QED
            BY <2>7, <3>1, <3>2 DEF Answers
    <2>8. ASSUME NEW n \in 1..Len(received), MayAnswer(c, n)' PROVE MayAnswer(c, n)
        <3>0. c \notin caught
            BY <2>1, <2>8 DEF MayAnswer
        <3>1. CASE Answers(c, n)'
            BY <2>7, <3>0, <3>1
        <3>2. CASE \E i \in 1..Len(inbox'[c]) : inbox'[c][i] = n
            <4>1. \E i \in 1..Len(inbox[c]) : inbox[c][i] = n
                BY <2>3, <2>5, <3>2
            <4>2. QED
                BY <2>1, <3>0, <4>1 DEF MayAnswer
        <3>3. QED
            BY <2>8, <3>1, <3>2 DEF MayAnswer
    <2>9. QED
        BY <2>1, <2>6, <2>7, <2>8, AddressedKept
<1>10. ASSUME NEW c \in Cameras, Say(c) PROVE Addressed'
    <2>1. /\ UNCHANGED <<camera, id, inbox, hand, received, caught>> /\ todo[c] # <<>>
          /\ answerers' = [answerers EXCEPT ![hand[c]] = @ \cup {c}]
          /\ todo' = [todo EXCEPT ![c] = Tail(@)]
        BY <1>10 DEF Say
    <2>2. \A d \in Cameras, n \in 1..Len(received) :
            d \in answerers'[n] => d \in answerers[n] \/ (d = c /\ hand[c] = n)
        BY <1>0, <1>1, <2>1
    <2>3. \A d \in Cameras : todo'[d] # <<>> => todo[d] # <<>>
        BY <1>0, <2>1
    <2>4. \A d \in Cameras, n \in 1..Len(received) : Answers(d, n)' => Answers(d, n)
        BY <2>1, <2>2, <2>3 DEF Answers
    <2>5. \A d \in Cameras, n \in 1..Len(received) : MayAnswer(d, n)' => MayAnswer(d, n)
        BY <2>1, <2>4 DEF MayAnswer, Aborted
    <2>6. QED
        BY <2>1, <2>4, <2>5, AddressedKept
<1>11. ASSUME NEW c \in Cameras, Resume(c) PROVE Addressed'
    <2>1. /\ UNCHANGED <<camera, id, inbox, hand, received, answerers, caught>> /\ todo[c] # <<>>
          /\ todo' = [todo EXCEPT ![c] = Tail(@)]
        BY <1>11 DEF Resume
    <2>2. \A d \in Cameras : todo'[d] # <<>> => todo[d] # <<>>
        BY <1>0, <2>1
    <2>3. \A d \in Cameras, n \in 1..Len(received) : Answers(d, n)' => Answers(d, n)
        BY <2>1, <2>2 DEF Answers
    <2>4. \A d \in Cameras, n \in 1..Len(received) : MayAnswer(d, n)' => MayAnswer(d, n)
        BY <2>1, <2>3 DEF MayAnswer, Aborted
    <2>5. QED
        BY <2>1, <2>3, <2>4, AddressedKept
<1>12. ASSUME NEW c \in Cameras, EndTask(c) PROVE Addressed'
    <2>1. /\ UNCHANGED <<camera, id, received, answerers, caught>> /\ hand' = [hand EXCEPT ![c] = 0]
          /\ inbox' = [inbox EXCEPT ![c] = <<>>] /\ todo' = [todo EXCEPT ![c] = <<>>]
        BY <1>12 DEF EndTask
    <2>2. \A d \in Cameras : todo'[d] \in {todo[d], <<>>} /\ inbox'[d] \in {inbox[d], <<>>}
        BY <1>0, <2>1
    <2>3. \A d \in Cameras : hand'[d] = hand[d] \/ hand'[d] = 0
        BY <1>0, <2>1
    <2>4. \A d \in Cameras, n \in 1..Len(received) : Answers(d, n)' => Answers(d, n)
        BY <1>1, <2>1, <2>2, <2>3 DEF Answers
    <2>5. \A d \in Cameras, n \in 1..Len(received) : MayAnswer(d, n)' => MayAnswer(d, n)
        BY <2>1, <2>2, <2>4 DEF MayAnswer, Aborted
    <2>6. QED
        BY <2>1, <2>4, <2>5, AddressedKept
<1>13. QED
    BY <1>2, <1>3, <1>5, <1>6, <1>7, <1>8, <1>9, <1>10, <1>11, <1>12
    DEF Next, CameraNext, others, handling, vars, LockManager, Tick, Beat, Subscribe, Park, Wake,
        Handled

------------------------------------------------------------------------------
(* What is said about a request *)

LEMMA AboutOperations ==
    ASSUME NEW k
    PROVE  /\ <<>> \in About(k)
           /\ \A s \in About(k) : s # <<>> =>
                /\ Tail(s) \in About(k)
                /\ \A t \in About(k) : Append(t, Head(s)) \in About(k)
<1> DEFINE M == {m \in Messages : m.control = k}
<1> HIDE DEF M
<1>1. /\ <<>> \in Seq(M)
      /\ \A s \in Seq(M) : s # <<>> =>
            Tail(s) \in Seq(M) /\ \A t \in Seq(M) : Append(t, Head(s)) \in Seq(M)
    OBVIOUS
<1>2. QED
    BY <1>1 DEF About, M

\* The information follows its acknowledgement.
LEMMA InformationFollows ==
    LET a == Ack("accepted") IN
    /\ Append(<<>>, Head(<<a, Information>>)) = <<a>> /\ Tail(<<a, Information>>) = <<Information>>
    /\ Append(<<a>>, Head(<<Information>>)) = <<a, Information>> /\ Tail(<<Information>>) = <<>>
    /\ Head(<<a, Information>>) # Await /\ Head(<<Information>>) # Await
<1>1. Ack("accepted") # Await /\ Information # Await
    BY DEF Ack, Information, Await
<1>2. \A a, b : Head(<<a, b>>) = a /\ Head(<<b>>) = b
    OBVIOUS
<1>3. ASSUME NEW a, NEW b PROVE Append(<<>>, a) = <<a>> /\ Append(<<a>>, b) = <<a, b>>
    <2>1. <<>> \in Seq({a, b}) /\ <<a>> \in Seq({a, b}) /\ Len(<<a>>) = 1
        OBVIOUS
    <2>2. Append(<<>>, a) = <<a>>
        OBVIOUS
    <2>3. /\ Append(<<a>>, b) \in Seq({a, b}) /\ Len(Append(<<a>>, b)) = 2
          /\ Append(<<a>>, b)[1] = a /\ Append(<<a>>, b)[2] = b
        BY <2>1
    <2>4. Append(<<a>>, b) = <<a, b>>
        <3>1. <<a, b>> \in Seq({a, b}) /\ Len(<<a, b>>) = 2
            OBVIOUS
        <3>2. \A i \in 1..2 : i = 1 \/ i = 2
            OBVIOUS
        <3>3. \A i \in 1..2 : Append(<<a>>, b)[i] = <<a, b>>[i]
            BY <2>3, <3>2
        <3>4. QED
            BY <2>3, <3>1, <3>3, SeqEqual, Zenon
    <2>5. QED
        BY <2>2, <2>4
<1>4. \A a, b : Tail(<<a, b>>) = <<b>>
    OBVIOUS
<1>5. \A b : Tail(<<b>>) = <<>>
    OBVIOUS
<1>6. QED
    BY <1>1, <1>2, <1>3, <1>4, <1>5, Zenon

LEMMA StepFitting == TypeOK /\ Beginning /\ Numbered /\ Fitting /\ [Next]_vars => Fitting'
<1> SUFFICES ASSUME TypeOK, Beginning, Numbered, Fitting, [Next]_vars PROVE Fitting'
    OBVIOUS
<1>0. /\ hand \in [Cameras -> 0..MaxReceived] /\ inbox \in [Cameras -> SeqOf(1..MaxReceived, Capacity)]
      /\ task \in [Cameras -> TaskStates]
      /\ DOMAIN todo = Cameras /\ DOMAIN said = Cameras /\ mutex \subseteq Cameras
      /\ received \in Seq(Requests) /\ Len(received) \in Nat
      /\ MaxReceived \in Nat /\ Capacity \in Nat
    BY SeqOfIsSeq, LinkAssumption, MavlinkAssumption DEF TypeOK
<1> USE DEF Fitting
<1>1. ASSUME NEW r \in Requests, Receive(r) PROVE Fitting'
    <2>1. UNCHANGED <<hand, todo, said, task>> /\ received' = Append(received, r)
        BY <1>1 DEF Receive
    <2>2. \A c \in Cameras : hand[c] # 0 => hand[c] \in 1..Len(received)
        BY <1>0 DEF Numbered
    <2>3. \A c \in Cameras : hand[c] # 0 => received'[hand[c]] = received[hand[c]]
        BY <1>0, <2>1, <2>2
    <2>4. QED
        BY <2>1, <2>3
<1>2. ASSUME NEW c \in Cameras, GetSender(c) PROVE Fitting'
    BY <1>0, <1>2 DEF GetSender, Beginning
<1>3. ASSUME NEW c \in Cameras, Subscribe(c) PROVE Fitting'
    BY <1>0, <1>3 DEF Subscribe
<1>4. ASSUME NEW c \in Cameras, Handle(c) PROVE Fitting'
    <2>1. /\ inbox[c] # <<>> /\ received' = received
          /\ hand' = [hand EXCEPT ![c] = Head(inbox[c])]
          /\ task' = [task EXCEPT ![c] = "handling"] /\ said' = [said EXCEPT ![c] = <<>>]
        BY <1>4 DEF Handle
    <2>2. PICK replies \in IF IsAddressedTo(received[Head(inbox[c])], id[c])
                           THEN Replies(received[Head(inbox[c])]) ELSE {<<>>} :
            todo' = [todo EXCEPT ![c] = replies]
        BY <1>4 DEF Handle
    <2>3. Head(inbox[c]) \in 1..Len(received)
        <3>1. Head(inbox[c]) = inbox[c][1] /\ 1 \in 1..Len(inbox[c]) /\ Head(inbox[c]) \in 1..MaxReceived
            BY <1>0, <2>1, TailFits
        <3>2. Head(inbox[c]) <= Len(received)
            BY <3>1 DEF Numbered
        <3>3. QED
            BY <1>0, <3>1, <3>2
    <2>4. received[Head(inbox[c])] \in Requests
        BY <1>0, <2>3
    <2>5. /\ received[Head(inbox[c])].kind = "information" =>
                replies \in {<<>>, <<Ack("accepted"), Information>>}
          /\ received[Head(inbox[c])].kind \in {"set", "read"} =>
                replies \in About(ControlIdOf(received[Head(inbox[c])].control))
        BY <2>2, <2>4, RepliesFit, AboutOperations
    <2>6. /\ hand'[c] = Head(inbox[c]) /\ task'[c] = "handling" /\ said'[c] = <<>>
          /\ todo'[c] = replies
        BY <1>0, <2>1, <2>2
    <2>7. \A d \in Cameras \ {c} : /\ hand'[d] = hand[d] /\ task'[d] = task[d]
                                   /\ said'[d] = said[d] /\ todo'[d] = todo[d]
        BY <1>0, <2>1, <2>2
    <2>8. QED
        BY <2>1, <2>5, <2>6, <2>7, AboutOperations
<1>5. ASSUME NEW c \in Cameras, Say(c) PROVE Fitting'
    <2>1. /\ UNCHANGED <<hand, received, task>> /\ todo[c] # <<>> /\ task[c] = "handling"
          /\ said' = [said EXCEPT ![c] = Append(@, Head(todo[c]))]
          /\ todo' = [todo EXCEPT ![c] = Tail(@)]
        BY <1>5 DEF Say
    <2>2. said'[c] = Append(said[c], Head(todo[c])) /\ todo'[c] = Tail(todo[c])
        BY <1>0, <2>1
    <2>3. \A d \in Cameras \ {c} : said'[d] = said[d] /\ todo'[d] = todo[d]
        BY <1>0, <2>1
    <2>4. ASSUME hand[c] # 0, received[hand[c]].kind = "information"
          PROVE  \/ said'[c] = <<Ack("accepted")>> /\ todo'[c] = <<Information>>
                 \/ said'[c] = <<Ack("accepted"), Information>> /\ todo'[c] = <<>>
        <3>1. \/ said[c] = <<>> /\ todo[c] = <<Ack("accepted"), Information>>
              \/ said[c] = <<Ack("accepted")>> /\ todo[c] = <<Information>>
            BY <2>1, <2>4
        <3>2. QED
            BY <2>2, <3>1, InformationFollows
    <2>5. ASSUME hand[c] # 0, received[hand[c]].kind \in {"set", "read"}
          PROVE  /\ said'[c] \in About(ControlIdOf(received[hand[c]].control))
                 /\ todo'[c] \in About(ControlIdOf(received[hand[c]].control))
        BY <2>1, <2>2, <2>5, AboutOperations
    <2>6. QED
        BY <2>1, <2>3, <2>4, <2>5
<1>6. ASSUME NEW c \in Cameras, Resume(c) PROVE Fitting'
    <2>1. /\ UNCHANGED <<hand, received, task, said>> /\ todo[c] # <<>> /\ task[c] = "handling"
          /\ Head(todo[c]) = Await /\ todo' = [todo EXCEPT ![c] = Tail(@)]
        BY <1>6 DEF Resume
    <2>2. todo'[c] = Tail(todo[c]) /\ \A d \in Cameras \ {c} : todo'[d] = todo[d]
        BY <1>0, <2>1
    <2>3. hand[c] # 0 => received[hand[c]].kind # "information"
        BY <2>1, InformationFollows
    <2>4. ASSUME hand[c] # 0, received[hand[c]].kind \in {"set", "read"}
          PROVE  todo'[c] \in About(ControlIdOf(received[hand[c]].control))
        BY <2>1, <2>2, <2>4, AboutOperations
    <2>5. QED
        BY <2>1, <2>2, <2>3, <2>4
<1>7. ASSUME NEW c \in Cameras, Handled(c) PROVE Fitting'
    BY <1>0, <1>7 DEF Handled
<1>11. ASSUME NEW c \in Cameras, Park(c) \/ Wake(c) PROVE Fitting'
    <2>1. /\ UNCHANGED <<hand, received, said, todo>>
          /\ \A d \in Cameras \ {c} : task'[d] = task[d]
        BY <1>0, <1>11 DEF Park, Wake
    <2>2. \/ task[c] # "handling"
          \/ task[c] = "handling" /\ Head(todo[c]) = Await /\ todo[c] # <<>>
        BY <1>11 DEF Park, Wake
    <2>3. QED
        BY <1>0, <1>11, <2>1, <2>2 DEF Park, Wake
<1>8. ASSUME NEW c \in Cameras, EndTask(c) PROVE Fitting'
    <2>1. /\ hand'[c] = 0 /\ received' = received
          /\ \A d \in Cameras \ {c} : /\ hand'[d] = hand[d] /\ task'[d] = task[d]
                                       /\ said'[d] = said[d] /\ todo'[d] = todo[d]
        BY <1>0, <1>8 DEF EndTask
    <2>2. QED
        BY <2>1
<1>9. CASE UNCHANGED <<hand, received, task, said, todo>>
    BY <1>9
<1>10. QED
    BY <1>1, <1>2, <1>3, <1>4, <1>5, <1>6, <1>7, <1>8, <1>9, <1>11
    DEF Next, CameraNext, others, handling, vars, TakeId, LockManager, StartDrop, DropId, Tick,
        Beat, Overflow

------------------------------------------------------------------------------
(* The theorems *)

LEMMA IInvAlways == Spec => []IInv
<1>1. Init => IInv
    BY InitIInv
<1>2. IInv /\ [Next]_vars => IInv'
    BY StepTyped, StepBeginning, StepNumbered, StepIds, StepAddressed, StepStopped, StepSilent,
       StepFitting
    DEF IInv
<1>3. QED
    BY <1>1, <1>2, PTL DEF Spec

\* new_component_id and drop_id agree with the cameras: an id that is in use
\* belongs to one camera, and a camera that gave its own back sends no heartbeat
\* beyond those that were due when it was aborted.
THEOREM ComponentsInvAlways == Spec => []ComponentsInv
<1>1. IInv => ComponentsInv
    BY DEF IInv, Silent, ComponentsInv, DroppedFallsSilent
<1>2. QED
    BY <1>1, IInvAlways, PTL

\* handle_message of at most one camera answers a request that names a
\* component, whatever cameras have come and gone with that id, but for cameras
\* that were dropped while their messages_loop was running.
THEOREM OneAnswererAlways == Spec => []OneAnswerer
<1>1. IInv => OneAnswerer
    <2> SUFFICES ASSUME TypeOK, Addressed,
                        NEW n \in 1..Len(received), received[n].to # 0
                 PROVE  Cardinality(answerers[n] \ caught) <= 1
        BY DEF IInv, OneAnswerer
    <2> DEFINE S == answerers[n] \ caught
    <2>1. answerers[n] \subseteq Cameras
        <3>1. received \in Seq(Requests) /\ Len(received) <= MaxReceived
            BY SeqOfIsSeq, MavlinkAssumption DEF TypeOK
        <3>2. n \in 1..MaxReceived
            BY <3>1, MavlinkAssumption
        <3>3. QED
            BY <3>2 DEF TypeOK
    <2>2. \A c, d \in S : c = d
        BY <2>1 DEF Addressed, Answers, MayAnswer
    <2>3. CASE S = {}
        BY <2>3, FS_EmptySet
    <2>4. CASE S # {}
        <3>1. PICK c : S = {c}
            BY <2>2, <2>4
        <3> HIDE DEF S
        <3>2. Cardinality(S) = 1
            BY <3>1, FS_Singleton, Zenon
        <3>3. QED
            BY <3>2 DEF S
    <2>5. QED
        BY <2>3, <2>4
<1>2. QED
    BY <1>1, IInvAlways, PTL

\* A camera that acknowledged a request for information has sent it when it
\* takes up the next, and PARAM_EXT_SET and PARAM_EXT_REQUEST_READ speak of
\* the control that the station named, or that the first eight digits name
\* where it used more, for every id that sixteen digits can name.
THEOREM AnswersFitAlways == Spec => []AnswersFit
<1>1. IInv => AnswersFit
    <2> SUFFICES ASSUME TypeOK, Numbered, Fitting, NEW c \in Cameras, hand[c] # 0
                 PROVE  LET r == received[hand[c]] IN
                        /\ (/\ r.kind = "information" /\ said[c] # <<>>
                            /\ task[c] \in {"polling", "waiting"})
                                => said[c] = <<Ack("accepted"), Information>>
                        /\ r.kind \in {"set", "read"} =>
                            \A i \in DOMAIN said[c] : Names(r.control, said[c][i].control)
        BY DEF IInv, AnswersFit
    <2> DEFINE r == received[hand[c]]
    <2>1. ASSUME r.kind = "information", said[c] # <<>>, task[c] \in {"polling", "waiting"}
          PROVE  said[c] = <<Ack("accepted"), Information>>
        <3>1. todo[c] = <<>> /\ <<Information>> # <<>>
            BY <2>1 DEF Fitting
        <3>2. QED
            BY <2>1, <3>1 DEF Fitting
    <2>2. ASSUME r.kind \in {"set", "read"}, NEW i \in DOMAIN said[c]
          PROVE  Names(r.control, said[c][i].control)
        <3>1. said[c] \in Seq({m \in Messages : m.control = ControlIdOf(r.control)})
            BY <2>2 DEF Fitting, About
        <3>2. said[c][i] \in {m \in Messages : m.control = ControlIdOf(r.control)}
            BY <2>2, <3>1
        <3>3. r \in Requests
            <4>1. received \in Seq(Requests) /\ Len(received) \in Nat
                BY SeqOfIsSeq, MavlinkAssumption DEF TypeOK
            <4>2. hand[c] \in 1..Len(received)
                BY <4>1, MavlinkAssumption DEF TypeOK, Numbered
            <4>3. QED
                BY <4>1, <4>2
        <3>4. r.control \in Writable
            BY <3>3, MavlinkAssumption
        <3>5. QED
            BY <3>2, <3>4, ControlIsRead
    <2>3. QED
        BY <2>1, <2>2
<1>2. QED
    BY <1>1, IInvAlways, PTL
================================================================================
