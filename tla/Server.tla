------------------------------- MODULE Server -------------------------------
(***************************************************************************)
(* The threads of the program and their life: clients that send requests   *)
(* through the bounded RingBuffer until their time is up (Client.cpp), the *)
(* manager that serves them one by one (Server.cpp:42-79), the scanner and *)
(* the metrics thread that run beside it, the shutdown that the last END   *)
(* message starts, and main(), which joins the threads and prints.         *)
(*                                                                         *)
(* Requests are told apart by their number; what serving one does to the   *)
(* page table is PageTable's subject.  An action is one critical section   *)
(* of one mutex, or one step of a thread on its own variables.             *)
(***************************************************************************)
EXTENDS Integers, Sequences, FiniteSets

CONSTANTS
  Clients,     \* client ids
  Null,        \* no message
  BufferSize,  \* capacity of the request buffer
  MaxRequests  \* requests of one client, a bound for model checking

ASSUME ServerAssumption ==
  /\ IsFiniteSet(Clients) /\ Clients # {}
  /\ BufferSize \in Nat \ {0}
  /\ MaxRequests \in Nat

VARIABLES
  clientPc,     \* position of each client's thread
  expired,      \* clients whose running time is over
  sent,         \* requests each client has sent
  buffer,       \* buf_ of the RingBuffer
  managerPc, msg,
  doneFlag,     \* client_done_flags_
  served,       \* requests of each client the manager has handled
  scannerFlag,  \* scanner_shutdown_flag_
  managerFlag,  \* manager_shutdown_flag_
  scannerPc, reporterPc,
  startPc,      \* the thread that runs Server::start()
  mainPc

clientVars == <<clientPc, expired, sent>>
managerVars == <<managerPc, msg, doneFlag, served>>
flagVars == <<scannerFlag, managerFlag>>
joinVars == <<startPc, mainPc>>
vars == <<clientVars, buffer, managerVars, flagVars, scannerPc, reporterPc, joinVars>>

\* n is the number of the request, 0 for the END message.
Message(c, n) == [client |-> c, n |-> n]
IsEnd(m) == m.n = 0

Init ==
  /\ clientPc = [c \in Clients |-> "loop"]
  /\ expired = {}
  /\ sent = [c \in Clients |-> 0]
  /\ buffer = <<>>
  /\ managerPc = "check" /\ msg = Null
  /\ doneFlag = [c \in Clients |-> FALSE]
  /\ served = [c \in Clients |-> 0]
  /\ scannerFlag = FALSE /\ managerFlag = FALSE
  /\ scannerPc = "check" /\ reporterPc = "check"
  /\ startPc = "manager" /\ mainPc = "clients"

-----------------------------------------------------------------------------
(* RingBuffer: push() and pop() never wait, they report failure.           *)

\* Mutant: the buffer takes one message more than it has room for.
BufferOverfull == Len(buffer) > BufferSize

BufferFull == Len(buffer) >= BufferSize
Push(m) == ~BufferFull /\ buffer' = Append(buffer, m)

-----------------------------------------------------------------------------
(* Client::run()                                                           *)

clientFrame == <<managerVars, flagVars, scannerPc, reporterPc, joinVars>>

\* running_time_ runs out; the client notices when it next looks at the clock.
Expire(c) ==
  /\ c \notin expired
  /\ expired' = expired \cup {c}
  /\ UNCHANGED <<clientPc, sent, buffer, clientFrame>>

CheckTime(c) ==
  /\ clientPc[c] = "loop"
  /\ \/ c \in expired /\ clientPc' = [clientPc EXCEPT ![c] = "end"]
     \/ c \notin expired /\ sent[c] < MaxRequests
          /\ clientPc' = [clientPc EXCEPT ![c] = "push"]
  /\ UNCHANGED <<expired, sent, buffer, clientFrame>>

\* Mutant: a request that finds the buffer full is dropped.
PushOrDrop(c) ==
  /\ clientPc[c] = "push"
  /\ IF BufferFull THEN UNCHANGED <<sent, buffer>>
     ELSE /\ Push(Message(c, sent[c] + 1))
          /\ sent' = [sent EXCEPT ![c] = @ + 1]
  /\ clientPc' = [clientPc EXCEPT ![c] = "loop"]
  /\ UNCHANGED <<expired, clientFrame>>

\* The push that succeeds; one that fails is repeated, whatever the time.
PushRequest(c) ==
  /\ clientPc[c] = "push"
  /\ Push(Message(c, sent[c] + 1))
  /\ sent' = [sent EXCEPT ![c] = @ + 1]
  /\ clientPc' = [clientPc EXCEPT ![c] = "loop"]
  /\ UNCHANGED <<expired, clientFrame>>

\* Mutant: an END message that finds the buffer full is not repeated.
PushEndOrLeave(c) ==
  /\ clientPc[c] = "end"
  /\ IF BufferFull THEN UNCHANGED buffer ELSE Push(Message(c, 0))
  /\ clientPc' = [clientPc EXCEPT ![c] = "done"]
  /\ UNCHANGED <<expired, sent, clientFrame>>

PushEnd(c) ==
  /\ clientPc[c] = "end"
  /\ Push(Message(c, 0))
  /\ clientPc' = [clientPc EXCEPT ![c] = "done"]
  /\ UNCHANGED <<expired, sent, clientFrame>>

-----------------------------------------------------------------------------
(* Server::_runManagerThread() and handleClientMessage()                   *)

managerFrame == <<clientVars, scannerPc, reporterPc, joinVars>>

CheckShutdown ==
  /\ managerPc = "check"
  /\ managerPc' = IF managerFlag THEN "exit" ELSE "pop"
  /\ UNCHANGED <<msg, doneFlag, served, buffer, flagVars, managerFrame>>

\* Mutant: the message that came last is taken first.
PopBack ==
  /\ managerPc = "pop"
  /\ IF buffer = <<>>
     THEN managerPc' = "check" /\ UNCHANGED <<msg, buffer>>
     ELSE /\ msg' = buffer[Len(buffer)]
          /\ buffer' = SubSeq(buffer, 1, Len(buffer) - 1)
          /\ managerPc' = "handle"
  /\ UNCHANGED <<doneFlag, served, flagVars, managerFrame>>

Pop ==
  /\ managerPc = "pop"
  /\ IF buffer = <<>>
     THEN managerPc' = "check" /\ UNCHANGED <<msg, buffer>>
     ELSE /\ msg' = Head(buffer)
          /\ buffer' = Tail(buffer)
          /\ managerPc' = "handle"
  /\ UNCHANGED <<doneFlag, served, flagVars, managerFrame>>

\* accessPage() for a request.
ServeRequest ==
  /\ managerPc = "handle" /\ ~IsEnd(msg)
  /\ served' = [served EXCEPT ![msg.client] = @ + 1]
  /\ msg' = Null
  /\ managerPc' = "check"
  /\ UNCHANGED <<doneFlag, buffer, flagVars, managerFrame>>

\* Mutant: the first client to end starts the shutdown.
HandleAnyEnd ==
  /\ managerPc = "handle" /\ IsEnd(msg)
  /\ doneFlag' = [doneFlag EXCEPT ![msg.client] = TRUE]
  /\ managerPc' = IF \E c \in Clients : doneFlag'[c] THEN "signalScanner" ELSE "check"
  /\ msg' = Null
  /\ UNCHANGED <<served, buffer, flagVars, managerFrame>>

\* The END message of the last client starts the shutdown.
HandleEnd ==
  /\ managerPc = "handle" /\ IsEnd(msg)
  /\ doneFlag' = [doneFlag EXCEPT ![msg.client] = TRUE]
  /\ managerPc' = IF \A c \in Clients : doneFlag'[c] THEN "signalScanner" ELSE "check"
  /\ msg' = Null
  /\ UNCHANGED <<served, buffer, flagVars, managerFrame>>

\* Mutant: the scanner is not told to stop.
SignalNoScanner ==
  /\ managerPc = "signalScanner"
  /\ managerPc' = "signalManager"
  /\ UNCHANGED <<msg, doneFlag, served, buffer, flagVars, managerFrame>>

\* signalShutdown(): the scanner's flag under its mutex, then the server's own.
SignalScanner ==
  /\ managerPc = "signalScanner"
  /\ scannerFlag' = TRUE
  /\ managerPc' = "signalManager"
  /\ UNCHANGED <<msg, doneFlag, served, buffer, managerFlag, managerFrame>>

SignalManager ==
  /\ managerPc = "signalManager"
  /\ managerFlag' = TRUE
  /\ managerPc' = "check"
  /\ UNCHANGED <<msg, doneFlag, served, buffer, scannerFlag, managerFrame>>

Manager ==
  CheckShutdown \/ Pop \/ ServeRequest \/ HandleEnd \/ SignalScanner \/ SignalManager

-----------------------------------------------------------------------------
(* Scanner::runScanner() and Server::_runPeriodicalMetricsThread(): a page *)
(* or a report at a time, the flag tested in between.                      *)

ScannerLoop ==
  /\ \/ /\ scannerPc = "check"
        /\ scannerPc' = IF scannerFlag THEN "exit" ELSE "scan"
     \/ /\ scannerPc = "scan"
        /\ scannerPc' = "check"
  /\ UNCHANGED <<clientVars, buffer, managerVars, flagVars, reporterPc, joinVars>>

ReporterLoop ==
  /\ \/ /\ reporterPc = "check"
        /\ reporterPc' = IF managerFlag THEN "exit" ELSE "report"
     \/ /\ reporterPc = "report"
        /\ reporterPc' = "check"
  /\ UNCHANGED <<clientVars, buffer, managerVars, flagVars, scannerPc, joinVars>>

-----------------------------------------------------------------------------
(* Server::start() joins its three threads in turn, main() the clients and *)
(* then the thread of start(), and prints.                                 *)

joinFrame == <<clientVars, buffer, managerVars, flagVars, scannerPc, reporterPc>>

\* Mutant: the metrics thread is not joined.
StartJoinsTwo ==
  /\ \/ startPc = "manager" /\ managerPc = "exit" /\ startPc' = "scanner"
     \/ startPc = "scanner" /\ scannerPc = "exit" /\ startPc' = "exit"
  /\ UNCHANGED <<mainPc, joinFrame>>

StartJoins ==
  /\ \/ startPc = "manager" /\ managerPc = "exit" /\ startPc' = "scanner"
     \/ startPc = "scanner" /\ scannerPc = "exit" /\ startPc' = "reporter"
     \/ startPc = "reporter" /\ reporterPc = "exit" /\ startPc' = "exit"
  /\ UNCHANGED <<mainPc, joinFrame>>

MainJoins ==
  /\ \/ mainPc = "clients" /\ (\A c \in Clients : clientPc[c] = "done")
          /\ mainPc' = "server"
     \/ mainPc = "server" /\ startPc = "exit" /\ mainPc' = "print"
  /\ UNCHANGED <<startPc, joinFrame>>

Client(c) == CheckTime(c) \/ PushRequest(c) \/ PushEnd(c)
Next ==
  \/ \E c \in Clients : Expire(c) \/ Client(c)
  \/ Manager \/ ScannerLoop \/ ReporterLoop \/ StartJoins \/ MainJoins

Spec == Init /\ [][Next]_vars

\* Every thread runs when it can, and a client's time runs out.  A client that
\* finds the buffer full is not promised to find room before others do.
FairSpec ==
  /\ Spec
  /\ \A c \in Clients : WF_vars(Expire(c)) /\ WF_vars(Client(c))
  /\ WF_vars(Manager) /\ WF_vars(ScannerLoop) /\ WF_vars(ReporterLoop)
  /\ WF_vars(StartJoins) /\ WF_vars(MainJoins)

-----------------------------------------------------------------------------
(* Properties                                                              *)

\* The type of the threads' state; the buffer never holds more messages than it
\* was built for (RingBuffer.hpp:11-20, Server.hpp:40-56).
TypeOK ==
  /\ clientPc \in [Clients -> {"loop", "push", "end", "done"}]
  /\ expired \subseteq Clients
  /\ sent \in [Clients -> Nat]
  /\ buffer \in Seq([client : Clients, n : Nat]) /\ Len(buffer) <= BufferSize
  /\ managerPc \in {"check", "pop", "handle", "signalScanner", "signalManager", "exit"}
  /\ msg \in [client : Clients, n : Nat] \cup {Null}
  /\ doneFlag \in [Clients -> BOOLEAN]
  /\ served \in [Clients -> Nat]
  /\ scannerFlag \in BOOLEAN /\ managerFlag \in BOOLEAN
  /\ scannerPc \in {"check", "scan", "exit"}
  /\ reporterPc \in {"check", "report", "exit"}
  /\ startPc \in {"manager", "scanner", "reporter", "exit"}
  /\ mainPc \in {"clients", "server", "print"}

\* The manager serves the requests of a client in the order they were sent,
\* none twice and none left out (RingBuffer.hpp:13-32, Server.cpp:42-79).
ServesInOrder ==
  managerPc = "handle" =>
    IF IsEnd(msg) THEN served[msg.client] = sent[msg.client]
                  ELSE msg.n = served[msg.client] + 1

\* The shutdown finds the work done: once a thread has been told to stop, every
\* client has ended, every request has been served and the buffer is empty
\* (Server.cpp:42-54, 100-104).
ShutdownIsDrained ==
  scannerFlag \/ managerPc = "exit" =>
    /\ \A c \in Clients : clientPc[c] = "done" /\ served[c] = sent[c]
    /\ buffer = <<>>

\* main() prints the metrics after every thread that updates them has exited
\* (main.cpp:53-68): the metrics are those of the whole run.
PrintsFinalMetrics ==
  mainPc = "print" =>
    /\ managerPc = "exit" /\ scannerPc = "exit" /\ reporterPc = "exit"
    /\ \A c \in Clients : served[c] = sent[c]

\* The program comes to its end, although no push waits for room and none is
\* first in line.
Terminates == <>(mainPc = "print")

\* A request a client wants to send gets into the buffer and is served.
RequestIsServed ==
  \A c \in Clients : \A n \in 1 .. MaxRequests :
    clientPc[c] = "push" /\ sent[c] + 1 = n ~> served[c] >= n

\* Seen from outside, buffer, threads and flags are a service that serves what it
\* accepted and stops when everybody has left (Server.cpp:42-104, main.cpp:53-68).
Service == INSTANCE RequestService WITH
  accepted <- sent,
  closed <- {c \in Clients : clientPc[c] = "done"},
  stopped <- mainPc = "print"

ImplementsService == Service!FairSpec

=============================================================================
