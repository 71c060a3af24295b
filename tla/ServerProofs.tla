---------------------------- MODULE ServerProofs ----------------------------
(***************************************************************************)
(* Proofs about Server, for any number of clients, any capacity of the     *)
(* buffer and any number of requests.                                      *)
(*                                                                         *)
(* The invariant is about the messages on their way: those in the buffer,  *)
(* at the positions 1 .. Len(buffer), and the one the manager has in its   *)
(* hand, at position 0.                                                    *)
(***************************************************************************)
EXTENDS Server, TLAPS

First == IF managerPc = "handle" THEN 0 ELSE 1
Positions == First .. Len(buffer)
At(i) == IF i = 0 THEN msg ELSE buffer[i]

\* What is on its way still has to be handled.
PendingIsDue ==
  \A i \in Positions :
    IF IsEnd(At(i))
    THEN clientPc[At(i).client] = "done" /\ ~doneFlag[At(i).client]
    ELSE served[At(i).client] < At(i).n /\ At(i).n <= sent[At(i).client]

\* The messages of one client are in the order they were sent, END last.
PendingInOrder ==
  \A i, j \in Positions :
    i < j /\ At(i).client = At(j).client =>
      ~IsEnd(At(i)) /\ (IsEnd(At(j)) \/ At(i).n < At(j).n)

\* What has been sent and not been handled is on its way.
NothingLost ==
  \A c \in Clients :
    /\ \A n \in Nat : served[c] < n /\ n <= sent[c] => \E i \in Positions : At(i) = Message(c, n)
    /\ clientPc[c] = "done" /\ ~doneFlag[c] => \E i \in Positions : At(i) = Message(c, 0)

DoneIsServed ==
  \A c \in Clients :
    /\ served[c] <= sent[c]
    /\ doneFlag[c] => clientPc[c] = "done" /\ served[c] = sent[c]

\* The manager has a message when it handles one.
HandIsFull == managerPc = "handle" => msg \in [client : Clients, n : Nat]

QueueInv == PendingIsDue /\ PendingInOrder /\ NothingLost /\ DoneIsServed /\ HandIsFull

AllDone == \A c \in Clients : doneFlag[c]

\* The order of the shutdown.
PhaseInv ==
  /\ scannerFlag \/ managerPc \in {"signalScanner", "signalManager"} => AllDone
  /\ managerPc = "signalManager" => scannerFlag
  /\ managerPc = "exit" => managerFlag
  /\ managerFlag => scannerFlag
  /\ startPc # "manager" => managerPc = "exit"
  /\ startPc \in {"reporter", "exit"} => scannerPc = "exit"
  /\ startPc = "exit" => reporterPc = "exit"
  /\ mainPc = "print" => startPc = "exit"

Inv == TypeOK /\ QueueInv /\ PhaseInv

-----------------------------------------------------------------------------
(* Types                                                                   *)

LEMMA Appended ==
  ASSUME NEW S, NEW q \in Seq(S), NEW m \in S
  PROVE  /\ Append(q, m) \in Seq(S)
         /\ Len(Append(q, m)) = Len(q) + 1
         /\ \A i \in 1 .. Len(q) : Append(q, m)[i] = q[i]
         /\ Append(q, m)[Len(q) + 1] = m
OBVIOUS

LEMMA Popped ==
  ASSUME NEW S, NEW q \in Seq(S), q # <<>>
  PROVE  /\ Len(q) > 0
         /\ Head(q) = q[1] /\ Head(q) \in S
         /\ Tail(q) \in Seq(S)
         /\ Len(Tail(q)) = Len(q) - 1
         /\ \A i \in 1 .. Len(Tail(q)) : Tail(q)[i] = q[i + 1]
OBVIOUS

LEMMA TypeInductive ==
  ASSUME TypeOK, HandIsFull, [Next]_vars
  PROVE  TypeOK'
<1> USE DEF TypeOK
<1> DEFINE Msgs == [client : Clients, n : Nat]
<1>0. buffer \in Seq(Msgs) /\ Len(buffer) <= BufferSize
  OBVIOUS
<1>1. ASSUME NEW m \in Msgs, Push(m)
      PROVE  buffer' \in Seq(Msgs) /\ Len(buffer') <= BufferSize
  BY <1>1, Appended, ServerAssumption DEF Push, BufferFull
<1>2. ASSUME NEW c \in Clients, Expire(c) PROVE TypeOK'
  BY <1>2 DEF Expire, clientFrame, managerVars, flagVars, joinVars
<1>3. ASSUME NEW c \in Clients, CheckTime(c) PROVE TypeOK'
  <2>1. clientPc' \in [Clients -> {"loop", "push", "end", "done"}]
    BY <1>3 DEF CheckTime
  <2> QED BY <1>3, <2>1 DEF CheckTime, clientFrame, managerVars, flagVars, joinVars
<1>4. ASSUME NEW c \in Clients, PushRequest(c) PROVE TypeOK'
  <2>1. Message(c, sent[c] + 1) \in Msgs BY DEF Message
  <2>2. buffer' \in Seq(Msgs) /\ Len(buffer') <= BufferSize BY <1>1, <1>4, <2>1 DEF PushRequest
  <2> QED BY <1>4, <2>2 DEF PushRequest, clientFrame, managerVars, flagVars, joinVars
<1>5. ASSUME NEW c \in Clients, PushEnd(c) PROVE TypeOK'
  <2>1. Message(c, 0) \in Msgs BY DEF Message
  <2>2. buffer' \in Seq(Msgs) /\ Len(buffer') <= BufferSize BY <1>1, <1>5, <2>1 DEF PushEnd
  <2> QED BY <1>5, <2>2 DEF PushEnd, clientFrame, managerVars, flagVars, joinVars
<1>6. CASE CheckShutdown
  BY <1>6 DEF CheckShutdown, managerFrame, clientVars, flagVars, joinVars
<1>7. CASE Pop
  <2>1. CASE buffer = <<>>
    BY <1>7, <2>1 DEF Pop, managerFrame, clientVars, flagVars, joinVars
  <2>2. CASE buffer # <<>>
    <3>1. Head(buffer) \in Msgs /\ Tail(buffer) \in Seq(Msgs) /\ Len(Tail(buffer)) <= BufferSize
      <4> HIDE DEF Msgs, TypeOK
      <4> QED BY <1>0, <2>2, Popped, ServerAssumption
    <3> QED BY <1>7, <2>2, <3>1 DEF Pop, managerFrame, clientVars, flagVars, joinVars
  <2> QED BY <2>1, <2>2
<1>8. CASE ServeRequest
  BY <1>8 DEF ServeRequest, HandIsFull, managerFrame, clientVars, flagVars, joinVars
<1>9. CASE HandleEnd
  BY <1>9 DEF HandleEnd, HandIsFull, managerFrame, clientVars, flagVars, joinVars
<1>10. CASE SignalScanner \/ SignalManager
  BY <1>10 DEF SignalScanner, SignalManager, managerFrame, clientVars, flagVars, joinVars
<1>11. CASE ScannerLoop \/ ReporterLoop
  BY <1>11 DEF ScannerLoop, ReporterLoop, clientVars, managerVars, flagVars, joinVars
<1>12. CASE StartJoins \/ MainJoins
  BY <1>12 DEF StartJoins, MainJoins, joinFrame, clientVars, managerVars, flagVars
<1>13. CASE UNCHANGED vars
  BY <1>13 DEF vars, clientVars, managerVars, flagVars, joinVars
<1> HIDE DEF TypeOK
<1> QED
  BY <1>2, <1>3, <1>4, <1>5, <1>6, <1>7, <1>8, <1>9, <1>10, <1>11, <1>12, <1>13
  DEF Next, Client, Manager

-----------------------------------------------------------------------------
(* Where the messages are                                                  *)

Msgs == [client : Clients, n : Nat]

LEMMA PendingType ==
  ASSUME TypeOK, HandIsFull
  PROVE  \A i \in Positions : i \in Nat /\ i <= Len(buffer) /\ At(i) \in Msgs
<1>1. buffer \in Seq(Msgs) /\ Len(buffer) \in Nat
  BY DEF TypeOK, Msgs
<1>2. \A i \in 1 .. Len(buffer) : buffer[i] \in Msgs
  BY <1>1
<1>3. managerPc = "handle" => msg \in Msgs
  BY DEF HandIsFull, Msgs
<1> QED BY <1>1, <1>2, <1>3 DEF Positions, First, At

LEMMA SamePositions ==
  ASSUME UNCHANGED <<buffer, msg>>, managerPc = "handle" <=> managerPc' = "handle"
  PROVE  Positions' = Positions /\ \A i : At(i)' = At(i)
BY DEF Positions, First, At

LEMMA PushedPositions ==
  ASSUME TypeOK, NEW m \in Msgs, Push(m), UNCHANGED <<managerPc, msg>>,
         NEW k, k = Len(buffer) + 1
  PROVE  /\ Positions' = Positions \cup {k} /\ k \notin Positions
         /\ \A i \in Positions : i < k /\ At(i)' = At(i)
         /\ At(k)' = m
<1>1. buffer \in Seq(Msgs)
  BY DEF TypeOK, Msgs
<1>2. /\ Len(buffer') = k /\ buffer'[k] = m
      /\ \A i \in 1 .. Len(buffer) : buffer'[i] = buffer[i]
  BY <1>1, Appended DEF Push
<1>3. Len(buffer) \in Nat
  BY <1>1
<1> QED BY <1>2, <1>3 DEF Positions, First, At

LEMMA PoppedPositions ==
  ASSUME TypeOK, Pop, buffer # <<>>
  PROVE  /\ \A i : i \in Positions' <=> i \in Nat /\ i + 1 \in Positions
         /\ \A i \in Positions : i \in Nat /\ i > 0 /\ (i - 1) \in Positions'
         /\ \A i \in Positions' : At(i)' = At(i + 1)
         /\ msg' \in Msgs /\ managerPc' = "handle"
<1>1. buffer \in Seq(Msgs)
  BY DEF TypeOK, Msgs
<1>2. /\ Len(buffer') = Len(buffer) - 1 /\ msg' = buffer[1] /\ msg' \in Msgs
      /\ \A i \in 1 .. Len(buffer') : buffer'[i] = buffer[i + 1]
  BY <1>1, Popped DEF Pop
<1>3. Len(buffer) \in Nat
  BY <1>1
<1> QED BY <1>2, <1>3 DEF Positions, First, At, Pop

LEMMA HandledPositions ==
  ASSUME managerPc = "handle", managerPc' # "handle", UNCHANGED buffer
  PROVE  /\ \A i : i \in Positions' <=> i \in Positions /\ i > 0
         /\ \A i \in Positions' : At(i)' = At(i)
         /\ At(0) = msg
         /\ Len(buffer) \in Nat => 0 \in Positions
BY DEF Positions, First, At

-----------------------------------------------------------------------------
(* The messages on their way                                               *)

LEMMA QueueSame ==
  ASSUME QueueInv, UNCHANGED <<buffer, msg, sent, served, doneFlag>>,
         managerPc = "handle" <=> managerPc' = "handle",
         TypeOK, \A c \in Clients : clientPc'[c] = "done" <=> clientPc[c] = "done"
  PROVE  QueueInv'
<1>1. Positions' = Positions /\ \A i : At(i)' = At(i)
  BY SamePositions
<1>2. \A i \in Positions : At(i).client \in Clients
  BY PendingType DEF QueueInv, Msgs
<1> QED
  BY <1>1, <1>2 DEF QueueInv, PendingIsDue, PendingInOrder, NothingLost, DoneIsServed,
     HandIsFull, IsEnd, Message

\* What pushing a message does to the queue, whichever it is.
LEMMA QueuePush ==
  ASSUME TypeOK, QueueInv, NEW c \in Clients, NEW n \in Nat, Push(Message(c, n)),
         UNCHANGED <<managerPc, msg, served, doneFlag>>, clientPc[c] # "done",
         clientPc' = [clientPc EXCEPT ![c] = IF n = 0 THEN "done" ELSE "loop"],
         sent' = [sent EXCEPT ![c] = IF n = 0 THEN @ ELSE n],
         n # 0 => n = sent[c] + 1
  PROVE  QueueInv'
<1> DEFINE k == Len(buffer) + 1
<1>1. /\ Positions' = Positions \cup {k} /\ k \notin Positions
      /\ \A i \in Positions : i < k /\ At(i)' = At(i)
  <2>1. Message(c, n) \in Msgs BY DEF Message, Msgs
  <2> QED BY <2>1, PushedPositions
<1> DEFINE at(i) == IF i = k THEN Message(c, n) ELSE At(i)
<1>2. \A i \in Positions' : At(i)' = at(i)
  <2>1. Message(c, n) \in Msgs BY DEF Message, Msgs
  <2>2. \A j : j = k => At(j)' = Message(c, n)
    BY <2>1, PushedPositions
  <2> QED BY <1>1, <2>2
<1>3. \A i \in Positions : i \in Nat /\ At(i) \in Msgs /\ at(i) = At(i)
  BY <1>1, PendingType DEF QueueInv
<1>4. k \in Nat /\ at(k) = Message(c, n)
  BY DEF TypeOK
<1>5. sent[c] \in Nat /\ served[c] \in Nat /\ served[c] <= sent[c] /\ ~doneFlag[c]
  BY DEF TypeOK, QueueInv, DoneIsServed
<1>6. /\ \A d \in Clients : d # c => clientPc'[d] = clientPc[d] /\ sent'[d] = sent[d]
      /\ IF n = 0 THEN clientPc'[c] = "done" /\ sent'[c] = sent[c]
                  ELSE clientPc'[c] = "loop" /\ sent'[c] = sent[c] + 1
  BY DEF TypeOK
\* No END message of this client is on its way yet.
<1>7. \A i \in Positions : At(i).client = c => ~IsEnd(At(i)) /\ At(i).n <= sent[c]
  BY DEF QueueInv, PendingIsDue
<1> HIDE DEF k, at
<1>8. PendingIsDue'
  <2> SUFFICES ASSUME NEW i \in Positions'
               PROVE IF at(i).n = 0
                     THEN clientPc'[at(i).client] = "done" /\ ~doneFlag'[at(i).client]
                     ELSE served'[at(i).client] < at(i).n /\ at(i).n <= sent'[at(i).client]
    BY <1>2 DEF PendingIsDue, IsEnd
  <2>1. CASE i = k
    BY <2>1, <1>4, <1>5, <1>6 DEF Message
  <2>2. CASE i \in Positions
    <3>1. at(i) = At(i) /\ At(i) \in Msgs /\ At(i).client \in Clients /\ At(i).n \in Nat
      BY <1>3, <2>2 DEF Msgs
    <3>2. IF At(i).n = 0
          THEN clientPc[At(i).client] = "done" /\ ~doneFlag[At(i).client]
          ELSE served[At(i).client] < At(i).n /\ At(i).n <= sent[At(i).client]
      BY <2>2 DEF QueueInv, PendingIsDue, IsEnd
    <3>3. sent[At(i).client] \in Nat /\ sent'[At(i).client] \in Nat
          /\ sent[At(i).client] <= sent'[At(i).client]
      BY <1>5, <1>6, <3>1 DEF TypeOK
    <3>4. at(i).client = c => at(i).n # 0
      BY <1>7, <2>2, <3>1 DEF IsEnd
    <3>5. served'[At(i).client] = served[At(i).client] /\ served[At(i).client] \in Nat
      BY <3>1 DEF TypeOK
    <3> QED BY <1>6, <3>1, <3>2, <3>3, <3>4, <3>5
  <2> QED BY <1>1, <2>1, <2>2
<1>9. PendingInOrder'
  <2> SUFFICES ASSUME NEW i \in Positions', NEW j \in Positions', i < j,
                      at(i).client = at(j).client
               PROVE at(i).n # 0 /\ (at(j).n = 0 \/ at(i).n < at(j).n)
    BY <1>2 DEF PendingInOrder, IsEnd
  <2>0. i # k
    BY <1>1, <1>3, <1>4
  <2>1. i \in Positions /\ at(i) = At(i) /\ At(i) \in Msgs
    BY <2>0, <1>1, <1>3
  <2>2. CASE j = k
    BY <2>1, <2>2, <1>4, <1>5, <1>7 DEF Message, IsEnd, Msgs
  <2>3. CASE j \in Positions
    BY <2>1, <2>3, <1>3 DEF QueueInv, PendingInOrder, IsEnd
  <2> QED BY <1>1, <2>2, <2>3
<1>10. NothingLost'
  <2>1. ASSUME NEW d \in Clients, NEW p \in Nat, served'[d] < p, p <= sent'[d]
        PROVE  \E i \in Positions' : at(i) = Message(d, p)
    <3>1. CASE d = c /\ p = n
      BY <3>1, <1>1, <1>4
    <3>2. CASE d # c \/ p # n
      <4>1. served[d] < p /\ p <= sent[d]
        BY <2>1, <3>2, <1>5, <1>6
      <4>2. PICK i \in Positions : At(i) = Message(d, p)
        BY <4>1 DEF QueueInv, NothingLost
      <4> QED BY <4>2, <1>1, <1>3
    <3> QED BY <3>1, <3>2
  <2>2. ASSUME NEW d \in Clients, clientPc'[d] = "done", ~doneFlag'[d]
        PROVE  \E i \in Positions' : at(i) = Message(d, 0)
    <3>1. CASE d = c
      BY <2>2, <3>1, <1>1, <1>4, <1>6
    <3>2. CASE d # c
      <4>1. PICK i \in Positions : At(i) = Message(d, 0)
        BY <2>2, <3>2, <1>6 DEF QueueInv, NothingLost
      <4> QED BY <4>1, <1>1, <1>3
    <3> QED BY <3>1, <3>2
  <2> QED BY <2>1, <2>2, <1>2 DEF NothingLost, Message
<1>11. DoneIsServed'
  <2> SUFFICES ASSUME NEW d \in Clients
               PROVE /\ served[d] <= sent'[d]
                     /\ doneFlag[d] => clientPc'[d] = "done" /\ served[d] = sent'[d]
    BY DEF DoneIsServed
  <2>1. CASE d = c
    BY <2>1, <1>5, <1>6
  <2>2. CASE d # c
    BY <2>2, <1>6 DEF QueueInv, DoneIsServed
  <2> QED BY <2>1, <2>2
<1>12. HandIsFull'
  BY DEF QueueInv, HandIsFull
<1> QED BY <1>8, <1>9, <1>10, <1>11, <1>12 DEF QueueInv

\* The oldest message of a client is the next one of that client.
LEMMA HeadIsNext ==
  ASSUME TypeOK, QueueInv, managerPc = "handle"
  PROVE  IF IsEnd(msg) THEN served[msg.client] = sent[msg.client]
                       ELSE msg.n = served[msg.client] + 1
<1> DEFINE c == msg.client
<1>1. msg \in Msgs /\ c \in Clients /\ msg.n \in Nat
  BY DEF QueueInv, HandIsFull, Msgs
<1>2. 0 \in Positions /\ At(0) = msg /\ Len(buffer) \in Nat
  BY DEF TypeOK, Positions, First, At
<1>3. \A i \in Positions : i \in Nat
  BY PendingType DEF QueueInv
<1>4. served[c] \in Nat /\ sent[c] \in Nat /\ served[c] <= sent[c]
  BY <1>1 DEF TypeOK, QueueInv, DoneIsServed
<1>5. ASSUME served[c] < sent[c]
      PROVE  ~IsEnd(msg) /\ msg.n <= served[c] + 1
  <2>1. PICK i \in Positions : At(i) = Message(c, served[c] + 1)
    BY <1>1, <1>4, <1>5 DEF QueueInv, NothingLost
  <2>2. CASE i = 0
    BY <1>2, <1>4, <2>1, <2>2 DEF Message, IsEnd
  <2>3. CASE i # 0
    BY <1>1, <1>2, <1>3, <1>4, <2>1, <2>3 DEF QueueInv, PendingInOrder, Message, IsEnd
  <2> QED BY <2>2, <2>3
<1>6. ~IsEnd(msg) => served[c] < msg.n /\ msg.n <= sent[c]
  BY <1>2 DEF QueueInv, PendingIsDue
<1> QED BY <1>1, <1>4, <1>5, <1>6

LEMMA QueuePop ==
  ASSUME TypeOK, QueueInv, Pop, buffer # <<>>
  PROVE  QueueInv'
<1>1. /\ \A i : i \in Positions' <=> i \in Nat /\ i + 1 \in Positions
      /\ \A i \in Positions : i \in Nat /\ i > 0 /\ (i - 1) \in Positions'
      /\ \A i \in Positions' : At(i)' = At(i + 1)
      /\ msg' \in Msgs /\ managerPc' = "handle"
  BY PoppedPositions
<1>2. UNCHANGED <<clientPc, sent, served, doneFlag>>
  BY DEF Pop, managerFrame, clientVars
<1>3. PendingIsDue'
  BY <1>1, <1>2 DEF QueueInv, PendingIsDue, IsEnd
<1>4. PendingInOrder'
  <2> SUFFICES ASSUME NEW i \in Positions', NEW j \in Positions', i < j,
                      At(i + 1).client = At(j + 1).client
               PROVE  ~IsEnd(At(i + 1)) /\ (IsEnd(At(j + 1)) \/ At(i + 1).n < At(j + 1).n)
    BY <1>1 DEF PendingInOrder, IsEnd
  <2>1. i + 1 \in Positions /\ j + 1 \in Positions /\ i + 1 < j + 1
    BY <1>1
  <2> QED BY <2>1 DEF QueueInv, PendingInOrder
<1>5. NothingLost'
  <2>1. ASSUME NEW m, \E i \in Positions : At(i) = m
        PROVE  \E i \in Positions' : At(i)' = m
    <3>1. PICK i \in Positions : At(i) = m
      BY <2>1
    <3>2. i - 1 \in Positions' /\ (i - 1) + 1 = i
      BY <1>1
    <3> QED BY <1>1, <3>1, <3>2
  <2> QED BY <1>2, <2>1 DEF QueueInv, NothingLost, Message
<1>6. DoneIsServed' /\ HandIsFull'
  BY <1>1, <1>2 DEF QueueInv, DoneIsServed, HandIsFull, Msgs
<1> QED BY <1>3, <1>4, <1>5, <1>6 DEF QueueInv

\* What is left when the manager is through with its message.
LEMMA Handled ==
  ASSUME TypeOK, QueueInv, managerPc = "handle", managerPc' # "handle", UNCHANGED buffer
  PROVE  /\ \A i \in Positions' : i \in Positions /\ i > 0 /\ At(i)' = At(i) /\ At(i) \in Msgs
         /\ \A i \in Positions : i \in Positions' \/ At(i) = msg
         /\ PendingInOrder' /\ HandIsFull'
         /\ \A i \in Positions' :
              At(i).client = msg.client =>
                ~IsEnd(msg) /\ (IsEnd(At(i)) \/ msg.n < At(i).n)
<1>1. /\ \A i : i \in Positions' <=> i \in Positions /\ i > 0
      /\ \A i \in Positions' : At(i)' = At(i)
      /\ At(0) = msg /\ 0 \in Positions
  BY HandledPositions DEF TypeOK
<1>2. \A i \in Positions : i \in Nat /\ At(i) \in Msgs
  BY PendingType DEF QueueInv
<1>3. PendingInOrder'
  BY <1>1 DEF QueueInv, PendingInOrder, IsEnd
<1> QED BY <1>1, <1>2, <1>3 DEF QueueInv, PendingInOrder, HandIsFull

LEMMA QueueServe ==
  ASSUME TypeOK, QueueInv, ServeRequest
  PROVE  QueueInv'
<1> DEFINE c == msg.client
<1>1. /\ \A i \in Positions' : i \in Positions /\ i > 0 /\ At(i)' = At(i) /\ At(i) \in Msgs
      /\ \A i \in Positions : i \in Positions' \/ At(i) = msg
      /\ PendingInOrder' /\ HandIsFull'
      /\ \A i \in Positions' :
           At(i).client = c => IsEnd(At(i)) \/ msg.n < At(i).n
  BY Handled DEF ServeRequest
<1>2. /\ UNCHANGED <<clientPc, sent, doneFlag>>
      /\ served' = [served EXCEPT ![c] = @ + 1] /\ ~IsEnd(msg)
  BY DEF ServeRequest, managerFrame, clientVars
<1>3. c \in Clients /\ msg.n = served[c] + 1 /\ served[c] \in Nat /\ msg \in Msgs
  BY <1>2, HeadIsNext DEF ServeRequest, TypeOK, QueueInv, HandIsFull, Msgs
<1>4. served'[c] = msg.n /\ \A d \in Clients : d # c => served'[d] = served[d]
  BY <1>2, <1>3 DEF TypeOK
<1>5. msg.n <= sent[c] /\ ~doneFlag[c]
  <2>1. 0 \in Positions /\ At(0) = msg
    BY HandledPositions DEF TypeOK, ServeRequest
  <2>2. served[c] < msg.n /\ msg.n <= sent[c]
    BY <1>2, <2>1 DEF QueueInv, PendingIsDue
  <2> QED BY <1>3, <2>2 DEF QueueInv, DoneIsServed, TypeOK
<1>6. PendingIsDue'
  <2> SUFFICES ASSUME NEW i \in Positions'
               PROVE IF IsEnd(At(i)) THEN clientPc[At(i).client] = "done" /\ ~doneFlag[At(i).client]
                     ELSE served'[At(i).client] < At(i).n /\ At(i).n <= sent[At(i).client]
    BY <1>1, <1>2 DEF PendingIsDue, IsEnd
  <2>1. i \in Positions /\ At(i).client \in Clients
    BY <1>1 DEF Msgs
  <2> QED BY <1>1, <1>4, <2>1 DEF QueueInv, PendingIsDue
<1>7. NothingLost'
  <2>1. ASSUME NEW d \in Clients, NEW p \in Nat, served'[d] < p, p <= sent[d]
        PROVE  \E i \in Positions' : At(i)' = Message(d, p)
    <3>1. served[d] < p /\ (d = c => p # msg.n)
      BY <1>3, <1>4, <2>1
    <3>2. PICK i \in Positions : At(i) = Message(d, p)
      BY <2>1, <3>1 DEF QueueInv, NothingLost
    <3>3. At(i) # msg
      BY <3>1, <3>2 DEF Message
    <3> QED BY <1>1, <3>2, <3>3
  <2>2. ASSUME NEW d \in Clients, clientPc[d] = "done", ~doneFlag[d]
        PROVE  \E i \in Positions' : At(i)' = Message(d, 0)
    <3>1. PICK i \in Positions : At(i) = Message(d, 0)
      BY <2>2 DEF QueueInv, NothingLost
    <3>2. At(i) # msg
      BY <1>2, <3>1 DEF Message, IsEnd
    <3> QED BY <1>1, <3>1, <3>2
  <2> QED BY <1>2, <2>1, <2>2 DEF NothingLost, Message
<1>8. DoneIsServed'
  BY <1>2, <1>3, <1>4, <1>5 DEF QueueInv, DoneIsServed
<1> QED BY <1>1, <1>6, <1>7, <1>8 DEF QueueInv

LEMMA QueueEnd ==
  ASSUME TypeOK, QueueInv, HandleEnd
  PROVE  QueueInv'
<1> DEFINE c == msg.client
<1>1. /\ \A i \in Positions' : i \in Positions /\ i > 0 /\ At(i)' = At(i) /\ At(i) \in Msgs
      /\ \A i \in Positions : i \in Positions' \/ At(i) = msg
      /\ PendingInOrder' /\ HandIsFull'
      /\ \A i \in Positions' : At(i).client # c
  BY Handled DEF HandleEnd
<1>2. /\ UNCHANGED <<clientPc, sent, served>>
      /\ doneFlag' = [doneFlag EXCEPT ![c] = TRUE] /\ IsEnd(msg)
  BY DEF HandleEnd, managerFrame, clientVars
<1>3. c \in Clients /\ served[c] = sent[c] /\ clientPc[c] = "done"
  <2>1. 0 \in Positions /\ At(0) = msg
    BY HandledPositions DEF TypeOK, HandleEnd
  <2>2. clientPc[c] = "done"
    BY <1>2, <2>1 DEF QueueInv, PendingIsDue
  <2> QED BY <1>2, <2>2, HeadIsNext DEF HandleEnd, QueueInv, HandIsFull
<1>4. doneFlag'[c] /\ \A d \in Clients : d # c => doneFlag'[d] = doneFlag[d]
  BY <1>2, <1>3 DEF TypeOK
<1>5. PendingIsDue'
  <2> SUFFICES ASSUME NEW i \in Positions'
               PROVE IF IsEnd(At(i)) THEN clientPc[At(i).client] = "done" /\ ~doneFlag'[At(i).client]
                     ELSE served[At(i).client] < At(i).n /\ At(i).n <= sent[At(i).client]
    BY <1>1, <1>2 DEF PendingIsDue, IsEnd
  <2>1. i \in Positions /\ At(i).client \in Clients
    BY <1>1 DEF Msgs
  <2> QED BY <1>1, <1>4, <2>1 DEF QueueInv, PendingIsDue
<1>6. NothingLost'
  <2>1. ASSUME NEW d \in Clients, NEW p \in Nat, served[d] < p, p <= sent[d]
        PROVE  \E i \in Positions' : At(i)' = Message(d, p)
    <3>1. PICK i \in Positions : At(i) = Message(d, p)
      BY <2>1 DEF QueueInv, NothingLost
    <3>2. d # c
      BY <1>3, <2>1 DEF TypeOK
    <3>3. At(i) # msg
      BY <3>1, <3>2 DEF Message
    <3> QED BY <1>1, <3>1, <3>3
  <2>2. ASSUME NEW d \in Clients, clientPc[d] = "done", ~doneFlag'[d]
        PROVE  \E i \in Positions' : At(i)' = Message(d, 0)
    <3>1. d # c /\ ~doneFlag[d]
      BY <1>4, <2>2
    <3>2. PICK i \in Positions : At(i) = Message(d, 0)
      BY <2>2, <3>1 DEF QueueInv, NothingLost
    <3>3. At(i) # msg
      BY <3>1, <3>2 DEF Message
    <3> QED BY <1>1, <3>2, <3>3
  <2> QED BY <1>2, <2>1, <2>2 DEF NothingLost, Message
<1>7. DoneIsServed'
  BY <1>2, <1>3, <1>4 DEF QueueInv, DoneIsServed
<1> QED BY <1>1, <1>5, <1>6, <1>7 DEF QueueInv

LEMMA QueueInductive ==
  ASSUME TypeOK, QueueInv, [Next]_vars
  PROVE  QueueInv'
<1>1. ASSUME NEW c \in Clients, Expire(c) PROVE QueueInv'
  BY <1>1, QueueSame DEF Expire, clientFrame, managerVars
<1>2. ASSUME NEW c \in Clients, CheckTime(c) PROVE QueueInv'
  <2>1. \A d \in Clients : clientPc'[d] = "done" <=> clientPc[d] = "done"
    BY <1>2 DEF CheckTime, TypeOK
  <2> QED BY <1>2, <2>1, QueueSame DEF CheckTime, clientFrame, managerVars
<1>3. ASSUME NEW c \in Clients, PushRequest(c) PROVE QueueInv'
  <2>1. sent[c] + 1 \in Nat /\ sent[c] + 1 # 0
    BY DEF TypeOK
  <2> QED BY <1>3, <2>1, QueuePush DEF PushRequest, clientFrame, managerVars
<1>4. ASSUME NEW c \in Clients, PushEnd(c) PROVE QueueInv'
  <2>1. sent = [sent EXCEPT ![c] = @]
    BY DEF TypeOK
  <2> QED BY <1>4, <2>1, QueuePush DEF PushEnd, clientFrame, managerVars
<1>5. CASE CheckShutdown
  BY <1>5, QueueSame DEF CheckShutdown, managerFrame, clientVars
<1>6. CASE Pop
  <2>1. CASE buffer = <<>>
    BY <1>6, <2>1, QueueSame DEF Pop, managerFrame, clientVars
  <2>2. CASE buffer # <<>>
    BY <1>6, <2>2, QueuePop
  <2> QED BY <2>1, <2>2
<1>7. CASE ServeRequest
  BY <1>7, QueueServe
<1>8. CASE HandleEnd
  BY <1>8, QueueEnd
<1>9. CASE SignalScanner \/ SignalManager
  BY <1>9, QueueSame DEF SignalScanner, SignalManager, managerFrame, clientVars
<1>10. CASE ScannerLoop \/ ReporterLoop
  BY <1>10, QueueSame DEF ScannerLoop, ReporterLoop, clientVars, managerVars
<1>11. CASE StartJoins \/ MainJoins
  BY <1>11, QueueSame DEF StartJoins, MainJoins, joinFrame, clientVars, managerVars
<1>12. CASE UNCHANGED vars
  BY <1>12, QueueSame DEF vars, clientVars, managerVars
<1> QED
  BY <1>1, <1>2, <1>3, <1>4, <1>5, <1>6, <1>7, <1>8, <1>9, <1>10, <1>11, <1>12
  DEF Next, Client, Manager

-----------------------------------------------------------------------------
(* The shutdown                                                            *)

\* When every client is done nothing is on its way.
LEMMA Drained ==
  ASSUME TypeOK, QueueInv, AllDone
  PROVE  /\ managerPc # "handle" /\ buffer = <<>>
         /\ \A c \in Clients : clientPc[c] = "done" /\ served[c] = sent[c]
<1>1. \A c \in Clients : clientPc[c] = "done" /\ served[c] = sent[c]
  BY DEF AllDone, QueueInv, DoneIsServed
<1>2. ASSUME NEW i \in Positions PROVE FALSE
  <2>1. At(i).client \in Clients /\ At(i).n \in Nat
    BY PendingType DEF QueueInv, Msgs
  <2>2. doneFlag[At(i).client] /\ served[At(i).client] = sent[At(i).client]
    BY <1>1, <2>1 DEF AllDone
  <2>3. sent[At(i).client] \in Nat
    BY <2>1 DEF TypeOK
  <2> QED BY <2>1, <2>2, <2>3 DEF QueueInv, PendingIsDue
<1>3. Len(buffer) \in Nat /\ (Len(buffer) = 0 => buffer = <<>>)
  BY DEF TypeOK
<1>4. managerPc # "handle" /\ Len(buffer) = 0
  <2>1. ASSUME managerPc = "handle" PROVE FALSE
    BY <1>2, <1>3, <2>1 DEF Positions, First
  <2>2. ASSUME Len(buffer) # 0 PROVE FALSE
    BY <1>2, <1>3, <2>2 DEF Positions, First
  <2> QED BY <2>1, <2>2
<1> QED BY <1>1, <1>3, <1>4

LEMMA PhaseInductive ==
  ASSUME TypeOK, QueueInv, PhaseInv, [Next]_vars
  PROVE  PhaseInv'
<1> USE DEF PhaseInv, AllDone
<1>1. ASSUME NEW c \in Clients, Expire(c) \/ Client(c) PROVE PhaseInv'
  BY <1>1 DEF Client, Expire, CheckTime, PushRequest, PushEnd, clientFrame, managerVars,
     flagVars, joinVars
<1>2. CASE CheckShutdown
  BY <1>2 DEF CheckShutdown, managerFrame, flagVars, joinVars
<1>3. CASE Pop
  BY <1>3 DEF Pop, managerFrame, flagVars, joinVars
<1>4. CASE ServeRequest
  BY <1>4 DEF ServeRequest, managerFrame, flagVars, joinVars
<1>5. CASE HandleEnd
  <2>1. ~AllDone
    <3> HIDE DEF AllDone
    <3> QED BY <1>5, Drained DEF HandleEnd
  <2> QED BY <1>5, <2>1 DEF HandleEnd, managerFrame, flagVars, joinVars
<1>6. CASE SignalScanner \/ SignalManager
  BY <1>6 DEF SignalScanner, SignalManager, managerFrame, joinVars
<1>7. CASE ScannerLoop \/ ReporterLoop
  BY <1>7 DEF ScannerLoop, ReporterLoop, managerVars, flagVars, joinVars
<1>8. CASE StartJoins \/ MainJoins
  BY <1>8 DEF StartJoins, MainJoins, joinFrame, managerVars, flagVars
<1>9. CASE UNCHANGED vars
  BY <1>9 DEF vars, managerVars, flagVars, joinVars
<1> QED
  BY <1>1, <1>2, <1>3, <1>4, <1>5, <1>6, <1>7, <1>8, <1>9 DEF Next, Manager

-----------------------------------------------------------------------------
(* Theorems                                                                *)

LEMMA InitInv == Init => Inv
<1> SUFFICES ASSUME Init PROVE Inv
  OBVIOUS
<1>1. TypeOK
  <2>1. buffer \in Seq([client : Clients, n : Nat])
    BY DEF Init
  <2>2. Len(buffer) <= BufferSize
    BY ServerAssumption DEF Init
  <2>3. /\ clientPc \in [Clients -> {"loop", "push", "end", "done"}]
        /\ sent \in [Clients -> Nat] /\ served \in [Clients -> Nat]
        /\ doneFlag \in [Clients -> BOOLEAN] /\ expired \subseteq Clients
    BY DEF Init
  <2> QED BY <2>1, <2>2, <2>3 DEF Init, TypeOK
<1>2. Positions = {}
  BY DEF Init, Positions, First
<1>3. QueueInv
  BY <1>2 DEF Init, QueueInv, PendingIsDue, PendingInOrder, NothingLost, DoneIsServed, HandIsFull
<1>4. PhaseInv
  BY DEF Init, PhaseInv, AllDone
<1> QED BY <1>1, <1>3, <1>4 DEF Inv

LEMMA Inductive == Inv /\ [Next]_vars => Inv'
BY TypeInductive, QueueInductive, PhaseInductive DEF Inv, QueueInv

LEMMA Invariance == Spec => []Inv
BY InitInv, Inductive, PTL DEF Spec

\* The state of the threads has its type, and the buffer never holds more than it
\* was built for (RingBuffer.hpp:11-20).
THEOREM TypeCorrect == Spec => []TypeOK
<1>1. Inv => TypeOK
  BY DEF Inv
<1> QED BY <1>1, Invariance, PTL

\* Whatever the number of clients and the capacity of the buffer, the requests of
\* a client are served in order, each once (RingBuffer.hpp:13-32, Server.cpp:42-79).
THEOREM OrderKept == Spec => []ServesInOrder
<1>1. Inv => ServesInOrder
  BY HeadIsNext DEF Inv, ServesInOrder
<1> QED BY <1>1, Invariance, PTL

\* No thread is told to stop before the work of all clients is done
\* (Server.cpp:42-54, 100-104).
THEOREM ShutdownCorrect == Spec => []ShutdownIsDrained
<1>1. Inv => ShutdownIsDrained
  BY Drained DEF Inv, PhaseInv, ShutdownIsDrained
<1> QED BY <1>1, Invariance, PTL

LEMMA PrintedIsFinal ==
  ASSUME Inv, mainPc = "print"
  PROVE  /\ managerPc = "exit" /\ scannerPc = "exit" /\ reporterPc = "exit"
         /\ \A c \in Clients : clientPc[c] = "done" /\ served[c] = sent[c]
BY Drained DEF Inv, PhaseInv

\* The metrics main() prints are those of the whole run (main.cpp:53-68).
THEOREM PrintCorrect == Spec => []PrintsFinalMetrics
<1>1. Inv => PrintsFinalMetrics
  BY PrintedIsFinal DEF PrintsFinalMetrics
<1> QED BY <1>1, Invariance, PTL

-----------------------------------------------------------------------------
(* The refinement                                                          *)

LEMMA Stutters ==
  ASSUME UNCHANGED <<sent, served>>, mainPc' = "print" <=> mainPc = "print",
         \A c \in Clients : clientPc'[c] = "done" <=> clientPc[c] = "done"
  PROVE  UNCHANGED Service!vars
BY DEF Service!vars

LEMMA StepRefines ==
  ASSUME Inv, [Next]_vars
  PROVE  [Service!Next]_(Service!vars)
<1>0. TypeOK /\ QueueInv
  BY DEF Inv
<1>1. ASSUME NEW c \in Clients, Expire(c) PROVE UNCHANGED Service!vars
  BY <1>1, Stutters DEF Expire, clientFrame, managerVars, joinVars
<1>2. ASSUME NEW c \in Clients, CheckTime(c) PROVE UNCHANGED Service!vars
  <2>1. \A d \in Clients : clientPc'[d] = "done" <=> clientPc[d] = "done"
    BY <1>0, <1>2 DEF CheckTime, TypeOK
  <2> QED BY <1>2, <2>1, Stutters DEF CheckTime, clientFrame, managerVars, joinVars
<1>3. ASSUME NEW c \in Clients, PushRequest(c) PROVE Service!Accept(c)
  <2>1. \A d \in Clients : clientPc'[d] = "done" <=> clientPc[d] = "done"
    BY <1>0, <1>3 DEF PushRequest, TypeOK
  <2> QED
    BY <1>3, <2>1 DEF PushRequest, Service!Accept, clientFrame, managerVars, joinVars
<1>4. ASSUME NEW c \in Clients, PushEnd(c) PROVE Service!Close(c)
  <2>1. \A d \in Clients : clientPc'[d] = "done" <=> clientPc[d] = "done" \/ d = c
    BY <1>0, <1>4 DEF PushEnd, TypeOK
  <2> QED
    BY <1>4, <2>1 DEF PushEnd, Service!Close, clientFrame, managerVars, joinVars
<1>5. CASE ServeRequest
  <2>1. msg.client \in Clients /\ served[msg.client] < sent[msg.client]
    <3>1. msg \in Msgs /\ 0 \in Positions /\ At(0) = msg
      BY <1>0, <1>5, HandledPositions DEF ServeRequest, TypeOK, QueueInv, HandIsFull, Msgs
    <3>2. served[msg.client] < msg.n /\ msg.n <= sent[msg.client]
      BY <1>0, <1>5, <3>1 DEF ServeRequest, QueueInv, PendingIsDue
    <3> QED BY <1>0, <3>1, <3>2 DEF TypeOK, Msgs
  <2>2. Service!Serve(msg.client)
    BY <1>5, <2>1 DEF ServeRequest, Service!Serve, managerFrame, clientVars, joinVars
  <2> QED BY <2>1, <2>2 DEF Service!Next
<1>6. CASE CheckShutdown \/ Pop \/ HandleEnd
  BY <1>6, Stutters DEF CheckShutdown, Pop, HandleEnd, managerFrame, clientVars, joinVars
<1>7. CASE SignalScanner \/ SignalManager
  BY <1>7, Stutters DEF SignalScanner, SignalManager, managerFrame, clientVars, joinVars
<1>8. CASE ScannerLoop \/ ReporterLoop
  BY <1>8, Stutters DEF ScannerLoop, ReporterLoop, clientVars, managerVars, joinVars
<1>9. CASE StartJoins
  BY <1>9, Stutters DEF StartJoins, joinFrame, clientVars, managerVars
<1>10. CASE MainJoins
  <2>1. CASE mainPc' = "print"
    <3>1. startPc = "exit" /\ mainPc # "print"
      BY <1>10, <2>1 DEF MainJoins
    <3>2. AllDone
      BY <3>1 DEF Inv, PhaseInv
    <3>3. \A c \in Clients : clientPc[c] = "done" /\ served[c] = sent[c]
      BY <1>0, <3>2, Drained
    <3>4. served = sent
      BY <1>0, <3>3 DEF TypeOK
    <3> QED
      BY <1>10, <2>1, <3>1, <3>3, <3>4
      DEF MainJoins, joinFrame, clientVars, managerVars, Service!Next, Service!Stop
  <2>2. CASE mainPc' # "print"
    <3>1. mainPc # "print"
      BY <1>10 DEF MainJoins
    <3> QED BY <1>10, <2>2, <3>1, Stutters DEF MainJoins, joinFrame, clientVars, managerVars
  <2> QED BY <2>1, <2>2
<1>11. CASE UNCHANGED vars
  BY <1>11, Stutters DEF vars, clientVars, managerVars, joinVars
<1> QED
  BY <1>1, <1>2, <1>3, <1>4, <1>5, <1>6, <1>7, <1>8, <1>9, <1>10, <1>11
  DEF Next, Client, Manager, Service!Next

\* Whatever the number of clients, the capacity and the interleaving, every step of
\* the threads is a step of the abstract service or none (Server.cpp:42-104).
THEOREM Refinement == Spec => Service!Spec
<1>1. Init => Service!Init
  BY DEF Init, Service!Init
<1>2. Inv /\ [Next]_vars => [Service!Next]_(Service!vars)
  BY StepRefines
<1> QED BY <1>1, <1>2, Invariance, PTL DEF Spec, Service!Spec

=============================================================================
