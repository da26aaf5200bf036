-------------------------- MODULE FileServerProofs --------------------------
(***************************************************************************)
(* Theorems about FileServer (Lab8/server.c and client.c), for any number  *)
(* of clients, any directories and any files and commands of the           *)
(* operators.                                                              *)
(***************************************************************************)
EXTENDS FileServer, FiniteSetTheorems, SequenceTheorems, WellFoundedInduction, TLAPS

-----------------------------------------------------------------------------
(* Types, and which clients the functions that hold texts are about.       *)
Domains ==
  /\ DOMAIN dirPath = Clients /\ DOMAIN listing = Clients /\ DOMAIN path = Clients
  /\ DOMAIN toServer = Clients /\ DOMAIN toClient = Clients
  /\ script \in [Clients -> Seq(Commands)] /\ offScript \in [Clients -> BOOLEAN]
  /\ startDir \in StartDirs

-----------------------------------------------------------------------------
(* Descriptor numbers.                                                     *)

(* A number refers to a connection for which accept has returned it, and   *)
(* the connection that a thread reads from has the thread's own number.    *)
NumbersInv ==
  /\ \A c \in Clients, n \in Fds : fds[n] = c => fd[c] = n
  /\ \A c \in Clients : fd[conn[c]] = fd[c] /\ (fd[c] = 0 => conn[c] = c)

(* Nothing passes between a client and the server before the accept.       *)
Quiet(c) ==
  /\ client[c] = "off" => thread[c] = "none"
  /\ thread[c] \in {"none", "backlog"} =>
       /\ client[c] \in {"off", "greeting", "gone"}
       /\ toServer[c] = <<>> /\ toClient[c] = <<>>

BaseInv == TypeOK /\ Domains /\ NumbersInv /\ \A c \in Clients : Quiet(c)

-----------------------------------------------------------------------------
(* Sessions.                                                               *)
Live == {"info", "loop", "read", "list"}

(* c and its thread have a descriptor number to themselves.                *)
Exclusive(c) == fd[c] # 0 /\ Connection(c) = c /\ Alone(c)

Entry  == Unit("entry", <<>>)
Stream == Seq({Entry, Rest, Done})

(* The first n units of a list are whole entries, in two parts each.       *)
WholeEntries(units, n) ==
  /\ n % 2 = 0
  /\ \A i \in 1 .. n : units[i] = IF i % 2 = 1 THEN Entry ELSE Rest

(* One command at a time: it is on its way to the server, ...              *)
Asked(c, ops) ==
  /\ thread[c] \in {"loop", "read"}
  /\ toClient[c] = <<>>
  /\ \E command \in Commands \cup {Command("cd", "")} :
       toServer[c] = <<command>> /\ command.op \in ops
                                 /\ (Faulting(command) => mishap)

(* ... or its answer is on its way back.                                   *)
Answering(c, unit) ==
  thread[c] \in {"loop", "read"} /\ toServer[c] = <<>> /\ toClient[c] = <<unit>>

(* Where the two ends of a session can be together.                        *)
Together(c) ==
  CASE client[c] = "greeting" ->
         \/ thread[c] = "info" /\ toServer[c] = <<>> /\ toClient[c] = <<>>
         \/ Answering(c, Text)
    [] client[c] = "cdAnswer" -> Asked(c, {"cd"}) \/ Answering(c, Unit("cd", dirPath[c]))
    [] client[c] = "answer" -> Asked(c, {"info", "echo", "bare"}) \/ Answering(c, Text)
    [] client[c] = "fileAnswer" -> Asked(c, {"info", "echo", "bare", "quit"}) \/ Answering(c, Text)
    [] client[c] = "listAnswer" ->
         \/ Asked(c, {"list"})
         \/ /\ thread[c] = "list" /\ listing[c] \in Seq({"entry"})
            /\ toServer[c] = <<>> /\ toClient[c] \in Stream
            /\ WholeEntries(toClient[c], Len(toClient[c]))
         \/ /\ thread[c] \in {"loop", "read"} /\ toServer[c] = <<>>
            /\ toClient[c] \in Stream /\ toClient[c] # <<>>
            /\ WholeEntries(toClient[c], Len(toClient[c]) - 1)
            /\ toClient[c][Len(toClient[c])] = Done
    [] client[c] = "byeAnswer" -> Asked(c, {"quit"})
    [] client[c] = "prompt" ->
         thread[c] \in {"loop", "read"} /\ toServer[c] = <<>> /\ toClient[c] = <<>>
    [] client[c] = "gone" -> TRUE
    [] OTHER -> FALSE

Session(c) ==
  /\ Together(c)
  /\ thread[c] = "read" => conn[c] = c
  /\ client[c] \in {"prompt", "answer", "fileAnswer", "listAnswer", "byeAnswer"}
       => path[c] = dirPath[c]
  /\ \A i \in 1 .. Len(script[c]) :
       script[c][i].op \notin {"cd", "list"} /\ (Faulting(script[c][i]) => mishap)

InSession(c) == server = "up" /\ Exclusive(c) /\ ~offScript[c]

SessionInv == \A c \in Clients : InSession(c) => Session(c)

-----------------------------------------------------------------------------
(* The server's life: it is up, and nothing excuses its end.               *)
Sound ==
  /\ server = "up" /\ ~mishap /\ infoFile /\ Absolute(startDir) /\ Exists(startDir)
  /\ \A c \in Clients : ~offScript[c]

(* An absolute path of a directory, wherever the process is.  What a path  *)
(* is made of is written out: the provers do not take "a" for a string.    *)
PathNames    == STRING \cup CdNames \cup {""}
Directory(p) == p \in Seq(PathNames) /\ Absolute(p) /\ Names(p) \in Dirs

LifeInv ==
  Sound =>
    \A c \in Clients :
      /\ thread[c] \in Live => Exclusive(c)
      /\ client[c] = "gone" => thread[c] \in {"quit", "ended"}
      /\ thread[c] \notin {"none", "backlog"} => Directory(dirPath[c])

-----------------------------------------------------------------------------
(* The lowest free number: accept always finds one.                        *)

LEMMA LeastNatural ==
  ASSUME NEW S \in SUBSET Nat, S # {}
  PROVE  \E x \in S : \A y \in S : x <= y
<1>1. IsWellFoundedOn(OpToRel(<, Nat), Nat)
  BY NatLessThanWellFounded
<1>2. PICK x \in S : \A y \in S : ~(<<y, x>> \in OpToRel(<, Nat))
  BY <1>1, WFMin
<1>3. \A y \in S : ~(y < x)
  BY <1>2 DEF OpToRel
<1> QED BY <1>3

LEMMA FdsFacts ==
  /\ Cardinality(Clients) \in Nat /\ Fds \in SUBSET Nat /\ 0 \notin Fds
  /\ IsFiniteSet(Fds) /\ Cardinality(Fds) = Cardinality(Clients)
<1>1. Cardinality(Clients) \in Nat
  BY FS_CardinalityType, ServerAssumption
<1> QED BY <1>1, FS_Interval DEF Fds

LEMMA FreeNumber ==
  ASSUME TypeOK, NumbersInv, NEW c \in Clients, thread[c] = "backlog"
  PROVE  LET n == Min({m \in Fds : fds[m] = Free}) IN n \in Fds /\ fds[n] = Free
<1> DEFINE S == {m \in Fds : fds[m] = Free}
<1>1. S # {}
  <2> SUFFICES ASSUME S = {} PROVE FALSE
    OBVIOUS
  <2>1. \A n \in Fds : fds[n] \in Clients \ {c}
    <3>1. \A n \in Fds : fds[n] \in Clients
      BY DEF TypeOK
    <3>2. fd[c] = 0
      BY DEF TypeOK
    <3> QED BY <3>1, <3>2, FdsFacts DEF NumbersInv
  <2>2. fds \in Injection(Fds, Clients \ {c})
    <3>1. fds \in [Fds -> Clients \ {c}]
      BY <2>1 DEF TypeOK
    <3>2. \A m, n \in Fds : fds[m] = fds[n] => m = n
      BY <2>1, ServerAssumption DEF TypeOK
    <3> QED BY <3>1, <3>2 DEF Injection, IsInjective
  <2>3. /\ IsFiniteSet(Clients \ {c})
        /\ Cardinality(Clients \ {c}) = Cardinality(Clients) - 1
    BY FS_RemoveElement, ServerAssumption
  <2>4. Cardinality(Fds) <= Cardinality(Clients \ {c})
    BY <2>2, <2>3, FS_Injection
  <2> QED BY <2>3, <2>4, FdsFacts
<1>2. S \in SUBSET Nat
  BY FdsFacts
<1>3. Min(S) \in S
  BY <1>1, <1>2, LeastNatural DEF Min
<1> QED BY <1>3

-----------------------------------------------------------------------------
(* Types.                                                                  *)
LEMMA TypeInit == Init => TypeOK /\ Domains
<1> SUFFICES ASSUME Init PROVE TypeOK /\ Domains
  OBVIOUS
<1>1. infoFile \in BOOLEAN /\ mishap \in BOOLEAN
  BY Zenon DEF Init
<1>2. TypeOK
  BY <1>1, ServerAssumption, FdsFacts DEF Init, TypeOK, Waiting
<1>3. Domains
  BY DEF Init, Domains
<1> QED BY <1>2, <1>3

LEMMA SendTypes ==
  ASSUME TypeOK, Domains, NEW c, NEW units, Send(c, units) \/ Fault
  PROVE  server' \in {"up", "ended"} /\ DOMAIN toClient' = Clients
  BY DEF TypeOK, Domains, Send, Fault

LEMMA InfoTypes ==
  ASSUME TypeOK, Domains, NEW c, SendInfoAboutServer(c)
  PROVE  server' \in {"up", "ended"} /\ DOMAIN toClient' = Clients
  BY SendTypes DEF SendInfoAboutServer

LEMMA ThreadTypes ==
  ASSUME TypeOK, Domains, NumbersInv, NEW c \in Clients, ThreadStep(c)
  PROVE  TypeOK' /\ Domains'
<1> USE DEF TypeOK, Domains
<1>1. CASE Accept(c)
  <2> DEFINE n == Min({m \in Fds : fds[m] = Free})
  <2>1. n \in Fds /\ fds[n] = Free
    <3>1. thread[c] = "backlog"
      BY <1>1 DEF Accept, GoThread, AtThread
    <3> QED BY <3>1, FreeNumber
  <2>2. /\ thread[c] = "backlog" /\ thread' = [thread EXCEPT ![c] = "info"]
        /\ fds' = [fds EXCEPT ![n] = c] /\ fd' = [fd EXCEPT ![c] = n]
        /\ dirPath' = [dirPath EXCEPT ![c] = startDir]
        /\ UNCHANGED <<server, cwd, startDir, infoFile, conn, listing, toServer, toClient, clients, mishap>>
    BY <1>1 DEF Accept, GoThread, AtThread
  <2> HIDE DEF n
  <2>3. fd[c] = 0
    BY <2>2
  <2>4. \A m \in Fds : fds[m] # c
    <3> HIDE DEF TypeOK, Domains
    <3> QED BY <2>3, FdsFacts DEF NumbersInv
  <2>5. \A l, m \in Fds : fds'[l] = fds'[m] /\ l # m => fds'[l] = Free
    BY <2>1, <2>2, <2>4
  <2>6. \A d \in Clients : thread'[d] \in {"none", "backlog"} <=> fd'[d] = 0
    BY <2>1, <2>2, FdsFacts
  <2> QED BY <2>1, <2>2, <2>5, <2>6 DEF clients
<1>2. CASE Greet(c)
  BY <1>2, InfoTypes DEF Greet, GoThread, AtThread, clients
<1>3. CASE WaitMessage(c)
  <2>1. Connection(c) = Free \/ Connection(c) \in Clients
    BY <1>3 DEF WaitMessage, GoThread, AtThread, Connection
  <2> QED BY <1>3, <2>1 DEF WaitMessage, GoThread, AtThread, clients
<1>4. CASE ReadNothing(c)
  BY <1>4 DEF ReadNothing, threads, clients
<1>5. CASE HandleSay(c)
  <2>1. server' \in {"up", "ended"} /\ DOMAIN toClient' = Clients
    BY <1>5, InfoTypes, SendTypes DEF HandleSay, Takes
  <2> QED BY <1>5, <2>1 DEF HandleSay, Takes, GoThread, AtThread, clients
<1>6. CASE HandleCd(c)
  <2>1. server' \in {"up", "ended"} /\ DOMAIN toClient' = Clients
    BY <1>6, SendTypes DEF HandleCd
  <2>2. cwd' \in Dirs /\ DOMAIN dirPath' = Clients
    BY <1>6 DEF HandleCd, Exists
  <2> QED BY <1>6, <2>1, <2>2 DEF HandleCd, Takes, GoThread, AtThread, clients
<1>7. CASE HandleList(c)
  <2>1. server' \in {"up", "ended"} /\ DOMAIN toClient' = Clients
    BY <1>7, SendTypes DEF HandleList
  <2>2. DOMAIN listing' = Clients /\ offScript' \in [Clients -> BOOLEAN]
    BY <1>7 DEF HandleList
  <2> QED BY <1>7, <2>1, <2>2 DEF HandleList, Takes, GoThread, AtThread
<1>8. CASE SendEntry(c) \/ SendDone(c)
  <2>1. server' \in {"up", "ended"} /\ DOMAIN toClient' = Clients
    BY <1>8, SendTypes DEF SendEntry, SendDone
  <2>2. DOMAIN listing' = Clients
    BY <1>8 DEF SendEntry, SendDone
  <2>3. \/ thread' = thread
        \/ thread[c] = "list" /\ thread' = [thread EXCEPT ![c] = "loop"]
    BY <1>8 DEF SendEntry, SendDone, GoThread, AtThread
  <2>4. UNCHANGED <<cwd, startDir, infoFile, fds, fd, conn, dirPath, toServer, clients, mishap>>
    BY <1>8 DEF SendEntry, SendDone
  <2> QED BY <2>1, <2>2, <2>3, <2>4 DEF clients
<1>9. CASE HandleQuit(c)
  <2>1. server' \in {"up", "ended"} /\ DOMAIN toClient' = Clients
    BY <1>9, SendTypes DEF HandleQuit
  <2> QED BY <1>9, <2>1 DEF HandleQuit, Takes, GoThread, AtThread, clients
<1>10. CASE CloseAgain(c)
  BY <1>10 DEF CloseAgain, GoThread, AtThread, clients
<1> QED
  BY <1>1, <1>2, <1>3, <1>4, <1>5, <1>6, <1>7, <1>8, <1>9, <1>10 DEF ThreadStep

LEMMA ClientTypes ==
  ASSUME TypeOK, Domains, NEW c \in Clients, Quiet(c), ClientReads(c) \/ Operator(c)
  PROVE  TypeOK' /\ Domains'
<1> USE DEF TypeOK, Domains, Waiting
<1>0. \A command : DOMAIN toServer' = Clients \/ ~SendCommandToServer(c, command)
  BY DEF SendCommandToServer
<1>e. <<>> \in Seq(Commands)
  OBVIOUS
<1>1. CASE Greeted(c)
  BY <1>1, <1>0 DEF Greeted, GoClient, Reads, process, threads
<1>2. CASE ReadInFile(c)
  <2>1. DOMAIN toServer' = Clients /\ script' \in [Clients -> Seq(Commands)]
    <3>1. script[c] # <<>> => Tail(script[c]) \in Seq(Commands)
      BY ONLY script \in [Clients -> Seq(Commands)], c \in Clients
    <3> QED BY <1>2, <1>0, <3>1 DEF ReadInFile
  <2> QED BY <1>2, <2>1 DEF ReadInFile, GoClient, Reads, process, threads
<1>3. CASE ReadAnswer(c) \/ ServerClosed(c)
  <2>1. \/ script' = script /\ client[c] = "answer"
        \/ script' = [script EXCEPT ![c] = <<>>]
    BY <1>3 DEF ReadAnswer, ServerClosed, Ends, GoClient
  <2>2. script' \in [Clients -> Seq(Commands)] /\ script'[c] = <<>>
    BY <2>1, <1>e
  <2>3. /\ DOMAIN toClient' = Clients /\ DOMAIN path' = Clients
        /\ \/ client' = [client EXCEPT ![c] = "prompt"]
           \/ client' = [client EXCEPT ![c] = "gone"]
    BY <1>3 DEF ReadAnswer, ServerClosed, GoClient, Reads, Ends
  <2>4. UNCHANGED <<process, threads, toServer, offScript, mishap>>
    BY <1>3 DEF ReadAnswer, ServerClosed
  <2>5. \A d \in Clients \ {c} : script'[d] = script[d] /\ client'[d] = client[d]
    BY <2>1, <2>3
  <2>6. \A d \in Clients : script'[d] # <<>> => client'[d] = "fileAnswer"
    BY <2>2, <2>5
  <2>7. client' \in [Clients -> Waiting \cup {"off", "prompt", "gone"}]
    BY <2>3
  <2> QED BY <2>2, <2>3, <2>4, <2>6, <2>7 DEF process, threads
<1>4. CASE ReadCd(c)
  <2>1. script' \in [Clients -> Seq(Commands)] /\ script'[c] = <<>>
    BY <1>4, <1>e DEF ReadCd, Ends, GoClient
  <2> QED BY <1>4, <2>1 DEF ReadCd, GoClient, Reads, Ends, process, threads
<1>5. CASE ReadList(c)
  BY <1>5 DEF ReadList, GoClient, process, threads
<1>6. CASE Connect(c)
  <2>1. thread[c] = "none"
    BY <1>6 DEF Connect, GoClient, Quiet
  <2>2. \/ thread' = thread
        \/ thread' = [thread EXCEPT ![c] = "backlog"]
    BY <1>6 DEF Connect
  <2>3. /\ client[c] = "off" /\ client' \in [Clients -> Waiting \cup {"off", "prompt", "gone"}]
        /\ \A d \in Clients : client[d] = "fileAnswer" => client'[d] = "fileAnswer"
    BY <1>6 DEF Connect, GoClient
  <2>4. UNCHANGED <<server, cwd, startDir, infoFile, fds, fd, conn, dirPath, listing,
                    toServer, toClient, path, script, offScript, mishap>>
    BY <1>6 DEF Connect, process
  <2> QED BY <2>1, <2>2, <2>3, <2>4
<1>7. CASE Type(c)
  <2>1. \A op : AnswerTo(op) \in Waiting
    BY DEF AnswerTo
  <2>2. DOMAIN toServer' = Clients
    BY <1>7, <1>0 DEF Type
  <2>3. mishap' \in BOOLEAN
    BY <1>7, Zenon DEF Type
  <2> QED BY <1>7, <2>1, <2>2, <2>3 DEF Type, GoClient, process, threads
<1>8. CASE TypeFile(c)
  <2>1. DOMAIN toServer' = Clients
    BY <1>8, <1>0 DEF TypeFile
  <2>2. script' \in [Clients -> Seq(Commands)]
    BY <1>8, ScriptsAssumption DEF TypeFile
  <2>3. mishap' \in BOOLEAN
    BY <1>8, Zenon DEF TypeFile
  <2>4. offScript' \in [Clients -> BOOLEAN]
    BY <1>8, Zenon DEF TypeFile
  <2>5. script' = [script EXCEPT ![c] = script'[c]] /\ client'[c] = "fileAnswer"
    BY <1>8 DEF TypeFile, GoClient
  <2>6. /\ client' = [client EXCEPT ![c] = "fileAnswer"]
        /\ UNCHANGED <<server, cwd, startDir, infoFile, fds, thread, fd, conn, dirPath, listing,
                       toClient, path>>
    BY <1>8 DEF TypeFile, GoClient, process, threads
  <2>7. \A d \in Clients : script'[d] # <<>> => client'[d] = "fileAnswer"
    <3>1. \A d \in Clients \ {c} : script'[d] = script[d] /\ client'[d] = client[d]
      BY <2>5, <2>6
    <3> QED BY <2>5, <3>1
  <2>8. client' \in [Clients -> Waiting \cup {"off", "prompt", "gone"}]
    BY <2>6
  <2> QED BY <2>1, <2>2, <2>3, <2>4, <2>6, <2>7, <2>8
<1>9. CASE Leave(c)
  BY <1>9, <1>e DEF Leave, Ends, GoClient, process, threads
<1> QED
  BY <1>1, <1>2, <1>3, <1>4, <1>5, <1>6, <1>7, <1>8, <1>9 DEF ClientReads, Operator

-----------------------------------------------------------------------------
(* What a step leaves alone.                                               *)

(* A thread changes no other thread, and of the clients only what is noted *)
(* about them.                                                             *)
LEMMA ThreadFrame ==
  ASSUME TypeOK, Domains, NEW c \in Clients, ThreadStep(c)
  PROVE  /\ server = "up" /\ UNCHANGED <<startDir, infoFile, client, path, script>>
         /\ \A d \in Clients \ {c} :
              /\ thread'[d] = thread[d] /\ fd'[d] = fd[d] /\ conn'[d] = conn[d]
              /\ dirPath'[d] = dirPath[d] /\ listing'[d] = listing[d]
         /\ \A d \in Clients : offScript[d] => offScript'[d]
         /\ mishap => mishap'
<1> USE DEF ThreadStep, Accept, Greet, WaitMessage, ReadNothing, HandleSay, HandleCd, HandleList,
      SendEntry, SendDone, HandleQuit, CloseAgain, Takes, GoThread, AtThread, clients, threads
<1>1. server = "up"
  OBVIOUS
<1>2. UNCHANGED <<startDir, infoFile, client, path, script>>
  OBVIOUS
<1>3. \A d \in Clients \ {c} : thread'[d] = thread[d] /\ fd'[d] = fd[d] /\ conn'[d] = conn[d]
  BY DEF TypeOK
<1>4. \A d \in Clients \ {c} : dirPath'[d] = dirPath[d] /\ listing'[d] = listing[d]
  BY DEF Domains
<1>5. \A d \in Clients : offScript[d] => offScript'[d]
  <2>1. CASE HandleList(c)
    BY <2>1 DEF Domains, HandleList
  <2>2. CASE ~HandleList(c)
    <3>1. offScript' = offScript
      BY <2>2
    <3> QED BY <3>1
  <2> QED BY <2>1, <2>2
<1>6. mishap => mishap'
  OBVIOUS
<1> QED BY <1>1, <1>2, <1>3, <1>4, <1>5, <1>6

(* A thread reads and writes the streams of clients that have its number.  *)
LEMMA SendFrame ==
  ASSUME TypeOK, Domains, NumbersInv, NEW c \in Clients, fd[c] # 0, NEW units,
         Send(c, units) \/ Fault, NEW d \in Clients, fd[d] # fd[c]
  PROVE  toClient'[d] = toClient[d]
<1>1. Connection(c) # d
  BY DEF Connection, NumbersInv, TypeOK
<1> QED BY <1>1 DEF Send, Fault, Domains

LEMMA StreamFrame ==
  ASSUME TypeOK, Domains, NumbersInv, NEW c \in Clients, ThreadStep(c),
         NEW d \in Clients, fd[d] # fd[c] \/ thread[c] \in {"backlog", "quit"}
  PROVE  toServer'[d] = toServer[d] /\ toClient'[d] = toClient[d]
<1>1. CASE Accept(c) \/ WaitMessage(c) \/ ReadNothing(c) \/ CloseAgain(c)
  BY <1>1 DEF Accept, WaitMessage, ReadNothing, CloseAgain
<1>2. ASSUME ~(Accept(c) \/ WaitMessage(c) \/ ReadNothing(c) \/ CloseAgain(c))
      PROVE  thread[c] \in {"info", "read", "list"}
  BY <1>2 DEF ThreadStep, Greet, HandleSay, HandleCd, HandleList, SendEntry, SendDone, HandleQuit,
       Takes, GoThread, AtThread
<1>3. ASSUME thread[c] \in {"info", "read", "list"}
      PROVE  fd[c] # 0 /\ fd[d] # fd[c]
  BY <1>3 DEF TypeOK
<1>4. CASE Greet(c) \/ SendEntry(c) \/ SendDone(c)
  <2>1. thread[c] \in {"info", "read", "list"}
    BY <1>4 DEF Greet, SendEntry, SendDone, GoThread, AtThread
  <2>2. toServer' = toServer
    BY <1>4 DEF Greet, SendEntry, SendDone
  <2>3. \E units : Send(c, units) \/ Fault
    BY <1>4 DEF Greet, SendEntry, SendDone, SendInfoAboutServer
  <2> QED BY <1>3, <2>1, <2>2, <2>3, SendFrame
<1>5. CASE HandleSay(c) \/ HandleCd(c) \/ HandleList(c) \/ HandleQuit(c)
  <2>1. thread[c] = "read" /\ toServer' = [toServer EXCEPT ![conn[c]] = Tail(@)]
    BY <1>5 DEF HandleSay, HandleCd, HandleList, HandleQuit, Takes, AtThread
  <2>2. conn[c] # d
    BY <1>3, <2>1 DEF NumbersInv
  <2>3. (\E units : Send(c, units) \/ Fault) \/ toClient' = toClient
    <3>1. CASE HandleSay(c)
      BY <3>1 DEF HandleSay, SendInfoAboutServer, Takes
    <3> QED BY <1>5, <3>1 DEF HandleCd, HandleList, HandleQuit
  <2>4. toClient'[d] = toClient[d]
    BY <1>3, <2>1, <2>3, SendFrame
  <2> QED BY <2>1, <2>2, <2>4 DEF Domains
<1> QED BY <1>1, <1>4, <1>5 DEF ThreadStep

(* A client changes nothing of the server but its own way into it, and     *)
(* nothing of other clients.                                               *)
LEMMA ClientFrame ==
  ASSUME TypeOK, Domains, NEW c \in Clients, ClientReads(c) \/ Operator(c)
  PROVE  /\ UNCHANGED <<process, fd, conn, dirPath, listing>>
         /\ mishap => mishap'
         /\ Connect(c) \/ UNCHANGED thread
         /\ \A d \in Clients \ {c} :
              /\ thread'[d] = thread[d] /\ client'[d] = client[d] /\ path'[d] = path[d]
              /\ script'[d] = script[d] /\ toServer'[d] = toServer[d]
              /\ toClient'[d] = toClient[d] /\ offScript'[d] = offScript[d]
         /\ \A d \in Clients : offScript[d] => offScript'[d]
<1> USE DEF ClientReads, Operator, Greeted, ReadInFile, ReadAnswer, ReadCd, ReadList, ServerClosed,
      Connect, Type, TypeFile, Leave, Ends, GoClient, Reads, SendCommandToServer, threads
<1>1. UNCHANGED <<process, fd, conn, dirPath, listing>>
  OBVIOUS
<1>2. mishap => mishap'
  OBVIOUS
<1>3. Connect(c) \/ UNCHANGED thread
  OBVIOUS
<1>4. \A d \in Clients \ {c} : thread'[d] = thread[d] /\ client'[d] = client[d]
  BY DEF TypeOK
<1>5. \A d \in Clients \ {c} : path'[d] = path[d] /\ script'[d] = script[d]
  BY DEF Domains
<1>6. \A d \in Clients \ {c} : toServer'[d] = toServer[d] /\ toClient'[d] = toClient[d]
  BY DEF Domains
<1>7. \A d \in Clients \ {c} : offScript'[d] = offScript[d]
  BY DEF Domains
<1>8. offScript[c] => offScript'[c]
  BY DEF Domains
<1> QED BY <1>1, <1>2, <1>3, <1>4, <1>5, <1>6, <1>7, <1>8

-----------------------------------------------------------------------------
(* Numbers, and what has not been accepted.                                *)
LEMMA BaseInit == Init => BaseInv
<1> SUFFICES ASSUME Init PROVE BaseInv
  OBVIOUS
<1>1. NumbersInv
  BY ServerAssumption DEF Init, NumbersInv
<1>2. \A c \in Clients : Quiet(c)
  BY DEF Init, Quiet
<1> QED BY <1>1, <1>2, TypeInit DEF BaseInv

LEMMA AcceptNumber ==
  ASSUME TypeOK, NumbersInv, NEW c \in Clients, Accept(c)
  PROVE  \E n \in Fds :
           /\ fds[n] = Free /\ fds' = [fds EXCEPT ![n] = c]
           /\ fd[c] = 0 /\ fd' = [fd EXCEPT ![c] = n]
           /\ thread[c] = "backlog" /\ thread' = [thread EXCEPT ![c] = "info"]
           /\ UNCHANGED <<server, conn, mishap>>
<1>1. thread[c] = "backlog" /\ thread' = [thread EXCEPT ![c] = "info"]
  BY DEF Accept, GoThread, AtThread
<1>2. fd[c] = 0
  BY <1>1 DEF TypeOK
<1> QED BY <1>1, <1>2, FreeNumber DEF Accept

LEMMA NumbersStep ==
  ASSUME TypeOK, Domains, NumbersInv, NEW c \in Clients, ThreadStep(c)
  PROVE  NumbersInv'
<1>1. CASE Accept(c)
  <2>1. PICK n \in Fds :
           /\ fds[n] = Free /\ fds' = [fds EXCEPT ![n] = c]
           /\ fd[c] = 0 /\ fd' = [fd EXCEPT ![c] = n]
           /\ thread[c] = "backlog" /\ thread' = [thread EXCEPT ![c] = "info"]
           /\ UNCHANGED <<server, conn, mishap>>
    BY <1>1, AcceptNumber
  <2>2. ASSUME NEW d \in Clients, NEW m \in Fds, fds'[m] = d PROVE fd'[d] = m
    <3>1. CASE m = n
      BY <2>1, <2>2, <3>1 DEF TypeOK
    <3>2. CASE m # n
      <4>1. fds[m] = d
        BY <2>1, <2>2, <3>2 DEF TypeOK
      <4>2. fd[d] = m /\ d # c
        BY <2>1, <4>1, FdsFacts DEF NumbersInv
      <4> QED BY <2>1, <4>2 DEF TypeOK
    <3> QED BY <3>1, <3>2
  <2>3. ASSUME NEW d \in Clients
        PROVE  fd'[conn'[d]] = fd'[d] /\ (fd'[d] = 0 => conn'[d] = d)
    <3>1. fd[conn[d]] = fd[d] /\ (fd[d] = 0 => conn[d] = d)
      BY DEF NumbersInv
    <3> QED BY <2>1, <3>1, FdsFacts DEF TypeOK
  <2> QED BY <2>2, <2>3 DEF NumbersInv
<1>2. CASE ~Accept(c)
  <2> USE DEF ThreadStep, Greet, WaitMessage, ReadNothing, HandleSay, HandleCd, HandleList,
        SendEntry, SendDone, HandleQuit, CloseAgain, Takes, GoThread, AtThread, threads
  <2>1. fd' = fd
    BY <1>2
  <2>2. \A m \in Fds : fds'[m] \in {fds[m], Free}
    <3>1. fds' = fds \/ fds' = [fds EXCEPT ![fd[c]] = Free]
      BY <1>2
    <3> QED BY <3>1 DEF TypeOK
  <2>3. CASE WaitMessage(c)
    <3>1. \/ server' = "ended" /\ conn' = conn
          \/ Connection(c) # Free /\ conn' = [conn EXCEPT ![c] = Connection(c)]
      BY <2>3
    <3>2. fd[c] \in Fds
      BY <2>3 DEF TypeOK
    <3>3. Connection(c) # Free => fd[Connection(c)] = fd[c]
      BY <3>2 DEF Connection, TypeOK, NumbersInv
    <3>4. conn \in [Clients -> Clients] /\ fd[c] # 0 /\ (Connection(c) # Free => Connection(c) \in Clients)
      BY <3>2, FdsFacts DEF Connection, TypeOK
    <3>5. \A d \in Clients : fd[conn[d]] = fd[d] /\ (fd[d] = 0 => conn[d] = d)
      BY DEF NumbersInv
    <3>6. \A d \in Clients : fd[conn'[d]] = fd[d] /\ (fd[d] = 0 => conn'[d] = d)
      BY ONLY <3>1, <3>3, <3>4, <3>5, c \in Clients
    <3>7. \A d \in Clients, m \in Fds : fds[m] = d => fd[d] = m
      BY DEF NumbersInv
    <3>8. \A d \in Clients, m \in Fds : fds'[m] = d => fd[d] = m
      BY ONLY <2>2, <3>7, ServerAssumption
    <3> QED BY ONLY <2>1, <3>6, <3>8 DEF NumbersInv
  <2>4. CASE ~WaitMessage(c)
    <3>1. conn' = conn
      BY <1>2, <2>4
    <3> QED BY <2>1, <2>2, <3>1, ServerAssumption DEF NumbersInv
  <2> QED BY <2>3, <2>4
<1> QED BY <1>1, <1>2

LEMMA QuietThread ==
  ASSUME BaseInv, NEW c \in Clients, ThreadStep(c), NEW d \in Clients
  PROVE  Quiet(d)'
<1>1. thread'[d] \in {"none", "backlog"} => thread[d] = thread'[d]
  <2>1. (thread[c] # "none" /\ thread'[c] \notin {"none", "backlog"}) \/ UNCHANGED thread
    BY DEF ThreadStep, Accept, Greet, WaitMessage, ReadNothing, HandleSay, HandleCd, HandleList,
      SendEntry, SendDone, HandleQuit, CloseAgain, GoThread, AtThread, threads, BaseInv, TypeOK
  <2> QED BY <2>1, ThreadFrame DEF BaseInv
<1>2. client'[d] = client[d]
  BY ThreadFrame DEF BaseInv
<1>3. thread[d] \in {"none", "backlog"} =>
        toServer'[d] = toServer[d] /\ toClient'[d] = toClient[d]
  <2>1. thread[c] # "none" /\ (thread[d] \in {"none", "backlog"} => fd[d] = 0)
    BY DEF ThreadStep, Accept, Greet, WaitMessage, ReadNothing, HandleSay, HandleCd, HandleList,
      SendEntry, SendDone, HandleQuit, CloseAgain, Takes, GoThread, AtThread, BaseInv, TypeOK
  <2>2. thread[c] = "backlog" \/ fd[c] # 0
    BY <2>1 DEF BaseInv, TypeOK
  <2> QED BY <2>1, <2>2, StreamFrame DEF BaseInv
<1>4. client[d] = "off" => thread'[d] = "none"
  <2>1. client[d] = "off" => thread[d] = "none"
    BY DEF BaseInv, Quiet
  <2>2. thread[c] # "none"
    BY DEF ThreadStep, Accept, Greet, WaitMessage, ReadNothing, HandleSay, HandleCd, HandleList,
      SendEntry, SendDone, HandleQuit, CloseAgain, Takes, GoThread, AtThread
  <2> QED BY <2>1, <2>2, ThreadFrame DEF BaseInv
<1> QED BY <1>1, <1>2, <1>3, <1>4 DEF BaseInv, Quiet

LEMMA QuietClient ==
  ASSUME BaseInv, NEW c \in Clients, ClientReads(c) \/ Operator(c), NEW d \in Clients
  PROVE  Quiet(d)'
<1>1. CASE d # c
  BY <1>1, ClientFrame DEF BaseInv, Quiet
<1>2. CASE d = c
  <2>q. Quiet(c)
    BY DEF BaseInv
  <2>1. CASE Connect(c)
    <3>1. /\ client[c] = "off" /\ client'[c] \in {"greeting", "gone"}
          /\ thread'[c] = "backlog" \/ thread' = thread
          /\ UNCHANGED <<toServer, toClient>>
      BY <2>1 DEF Connect, GoClient, BaseInv, TypeOK
    <3> QED BY <1>2, <2>q, <3>1 DEF Quiet
  <2>2. CASE ServerClosed(c) \/ Leave(c)
    <3>1. client'[c] = "gone" /\ toClient'[c] = <<>> /\ UNCHANGED <<thread, toServer>>
      BY <2>2 DEF ServerClosed, Leave, Ends, GoClient, threads, BaseInv, TypeOK, Domains
    <3> QED BY <1>2, <2>q, <3>1 DEF Quiet
  <2>3. CASE ~(Connect(c) \/ ServerClosed(c) \/ Leave(c))
    <3>1. UNCHANGED thread
      BY <2>3, ClientFrame DEF BaseInv
    <3>2. \/ toClient[c] # <<>>
          \/ client[c] = "prompt"
      BY <2>3 DEF ClientReads, Operator, Greeted, ReadInFile, ReadAnswer, ReadCd, ReadList,
        Type, TypeFile, GoClient, Reads
    <3>3. client[c] # "off" /\ client'[c] # "off"
      <4>1. \/ client' = client
            \/ \E to \in Waiting \cup {"prompt", "gone"} : client' = [client EXCEPT ![c] = to]
        <5>1. \A op : AnswerTo(op) \in Waiting
          BY DEF AnswerTo, Waiting
        <5>2. CASE Type(c)
          BY <5>1, <5>2 DEF Type, GoClient
        <5>3. CASE ~Type(c)
          BY <2>3, <5>3 DEF ClientReads, Operator, Greeted, ReadInFile, ReadAnswer, ReadCd,
            ReadList, TypeFile, GoClient, Ends, Waiting
        <5> QED BY <5>2, <5>3
      <4>2. client[c] # "off"
        BY <3>2, <2>q DEF Quiet
      <4> QED BY <4>1, <4>2 DEF Waiting, BaseInv, TypeOK
    <3> QED BY <1>2, <2>q, <3>1, <3>2, <3>3 DEF Quiet
  <2> QED BY <2>1, <2>2, <2>3
<1> QED BY <1>1, <1>2

(* exit(1) after a failed accept leaves no number in use, and no command.  *)
LEMMA FailTypes == BaseInv /\ AcceptFails => BaseInv'
<1> SUFFICES ASSUME BaseInv, AcceptFails PROVE BaseInv'
  OBVIOUS
<1> USE DEF BaseInv, AcceptFails
<1>1. TypeOK'
  BY ServerAssumption DEF TypeOK, clients
<1>2. Domains'
  BY DEF Domains, clients
<1>3. NumbersInv'
  BY ServerAssumption DEF NumbersInv, TypeOK
<1>4. ASSUME NEW c \in Clients PROVE Quiet(c)'
  BY DEF Quiet, TypeOK, clients
<1> QED BY <1>1, <1>2, <1>3, <1>4

LEMMA BaseStep == BaseInv /\ [Next]_vars => BaseInv'
<1> SUFFICES ASSUME BaseInv, [Next]_vars PROVE BaseInv'
  OBVIOUS
<1>0. CASE AcceptFails
  BY <1>0, FailTypes
<1>1. ASSUME NEW c \in Clients, ThreadStep(c) PROVE BaseInv'
  BY <1>1, ThreadTypes, NumbersStep, QuietThread DEF BaseInv
<1>2. ASSUME NEW c \in Clients, ClientReads(c) \/ Operator(c) PROVE BaseInv'
  <2>1. NumbersInv'
    BY <1>2, ClientFrame DEF process, BaseInv, NumbersInv
  <2> QED BY <1>2, <2>1, ClientTypes, QuietClient DEF BaseInv
<1>3. CASE UNCHANGED vars
  BY <1>3 DEF vars, process, threads, clients, BaseInv, TypeOK, Domains, NumbersInv, Quiet
<1> QED BY <1>0, <1>1, <1>2, <1>3 DEF Next

(* Whatever threads and clients do, no two descriptor numbers refer to one *)
(* connection, and accept finds a free one.                                *)
THEOREM TypeCorrect == Spec => []TypeOK
<1>1. BaseInv => TypeOK
  BY DEF BaseInv
<1> QED BY <1>1, BaseInit, BaseStep, PTL DEF Spec

-----------------------------------------------------------------------------
(* A session is over when its number is closed: no step starts it again.   *)

LEMMA ExclusiveThread ==
  ASSUME BaseInv, NEW c \in Clients, ThreadStep(c), ~HandleQuit(c), ~CloseAgain(c),
         NEW d \in Clients, Accept(c) => d # c, Exclusive(d)'
  PROVE  Exclusive(d)
<1>1. CASE Accept(c)
  <2>1. PICK n \in Fds :
           /\ fds[n] = Free /\ fds' = [fds EXCEPT ![n] = c]
           /\ fd[c] = 0 /\ fd' = [fd EXCEPT ![c] = n]
           /\ thread[c] = "backlog" /\ thread' = [thread EXCEPT ![c] = "info"]
           /\ UNCHANGED <<server, conn, mishap>>
    BY <1>1, AcceptNumber DEF BaseInv
  <2>2. d # c /\ fd'[d] = fd[d] /\ fd[d] # 0
    BY <1>1, <2>1 DEF Exclusive, BaseInv, TypeOK
  <2>3. fds[fd[d]] = d
    BY <2>1, <2>2 DEF Exclusive, Connection, BaseInv, TypeOK
  <2>4. Alone(d)
    BY <2>1, <2>2 DEF Exclusive, Alone, BaseInv, TypeOK
  <2> QED BY <2>2, <2>3, <2>4 DEF Exclusive, Connection
<1>2. CASE ~Accept(c)
  <2> USE DEF ThreadStep, Greet, WaitMessage, ReadNothing, HandleSay, HandleCd, HandleList,
        SendEntry, SendDone, Takes, GoThread, AtThread, threads
  <2>1. fd' = fd /\ fds' = fds
    BY <1>2
  <2>2. thread'[c] \notin {"quit", "ended"}
    BY <1>2 DEF BaseInv, TypeOK
  <2>3. \A e \in Clients : thread'[e] \in {"quit", "ended"} => thread[e] \in {"quit", "ended"}
    BY <2>2, ThreadFrame DEF BaseInv
  <2> QED BY <2>1, <2>3 DEF Exclusive, Connection, Alone
<1> QED BY <1>1, <1>2

LEMMA ExclusiveClose ==
  ASSUME BaseInv, NEW c \in Clients, HandleQuit(c) \/ CloseAgain(c),
         NEW d \in Clients, Exclusive(d)'
  PROVE  d # c /\ Exclusive(d)
<1>1. fd' = fd /\ fds' = [fds EXCEPT ![fd[c]] = Free]
  BY DEF HandleQuit, CloseAgain
<1>2. fd[d] \in Fds
  BY <1>1 DEF Exclusive, BaseInv, TypeOK
<1>3. fd[d] # fd[c] /\ fds[fd[d]] = d
  BY <1>1, <1>2, ServerAssumption DEF Exclusive, Connection, BaseInv, TypeOK
<1>4. \A e \in Clients \ {c} : thread'[e] = thread[e]
  BY ThreadFrame DEF BaseInv, ThreadStep
<1>5. Alone(d)
  BY <1>1, <1>3, <1>4 DEF Exclusive, Alone
<1> QED BY <1>1, <1>2, <1>3, <1>5 DEF Exclusive, Connection

LEMMA ExclusiveClient ==
  ASSUME BaseInv, NEW c \in Clients, ClientReads(c) \/ Operator(c),
         NEW d \in Clients, Exclusive(d)'
  PROVE  Exclusive(d) /\ ~Connect(d)
<1>1. fd' = fd /\ fds' = fds
  BY ClientFrame DEF process, BaseInv
<1>2. \A e \in Clients : thread'[e] \in {"quit", "ended"} => thread[e] \in {"quit", "ended"}
  <2>1. Connect(c) => thread' = thread \/ thread' = [thread EXCEPT ![c] = "backlog"]
    BY DEF Connect
  <2> QED BY <2>1, ClientFrame DEF BaseInv, TypeOK
<1>3. Exclusive(d)
  BY <1>1, <1>2 DEF Exclusive, Connection, Alone
<1>4. ~Connect(d)
  BY <1>3 DEF Connect, GoClient, Exclusive, BaseInv, Quiet, TypeOK
<1> QED BY <1>3, <1>4

(* A session goes on as long as nothing of it changes.                     *)
LEMMA SessionFrame ==
  ASSUME NEW d \in Clients, Session(d), mishap => mishap',
         thread'[d] = thread[d], conn'[d] = conn[d], dirPath'[d] = dirPath[d],
         listing'[d] = listing[d], toServer'[d] = toServer[d], toClient'[d] = toClient[d],
         client'[d] = client[d], path'[d] = path[d], script'[d] = script[d]
  PROVE  Session(d)'
<1>1. \A ops : Asked(d, ops) => Asked(d, ops)'
  BY DEF Asked
<1>2. \A unit : Answering(d, unit) => Answering(d, unit)'
  BY DEF Answering
<1>3. Together(d)'
  BY <1>1, <1>2 DEF Session, Together
<1> QED BY <1>3 DEF Session

LEMMA SessionOfOthers ==
  ASSUME BaseInv, SessionInv, NEW c \in Clients, NEW d \in Clients \ {c}, InSession(d)',
         ThreadStep(c) \/ ClientReads(c) \/ Operator(c)
  PROVE  Session(d)'
<1>1. CASE ThreadStep(c)
  <2>1. Exclusive(d)
    BY <1>1, ExclusiveThread, ExclusiveClose DEF InSession
  <2>2. InSession(d)
    BY <1>1, <2>1, ThreadFrame DEF InSession, BaseInv
  <2>3. fd[d] # fd[c] \/ thread[c] \in {"backlog", "quit"}
    <3>1. thread[c] # "ended"
      BY <1>1 DEF ThreadStep, Accept, Greet, WaitMessage, ReadNothing, HandleSay, HandleCd,
        HandleList, SendEntry, SendDone, HandleQuit, CloseAgain, Takes, GoThread, AtThread
    <3> QED BY <2>1, <3>1 DEF Exclusive, Alone
  <2>4. toServer'[d] = toServer[d] /\ toClient'[d] = toClient[d]
    BY <1>1, <2>3, StreamFrame DEF BaseInv
  <2> QED BY <1>1, <2>2, <2>4, ThreadFrame, SessionFrame DEF BaseInv, SessionInv
<1>2. CASE ClientReads(c) \/ Operator(c)
  <2>1. Exclusive(d)
    BY <1>2, ExclusiveClient DEF InSession
  <2>2. InSession(d)
    BY <1>2, <2>1, ClientFrame DEF InSession, BaseInv, process
  <2> QED BY <1>2, <2>2, ClientFrame, SessionFrame DEF BaseInv, SessionInv
<1> QED BY <1>1, <1>2

-----------------------------------------------------------------------------
(* A step of a session's own thread.                                       *)

LEMMA OneUnit ==
  ASSUME NEW x
  PROVE  /\ Head(<<x>>) = x /\ Tail(<<x>>) = <<>>
         /\ Append(<<>>, x) = <<x>> /\ <<>> \o <<x>> = <<x>>
<1>1. Head(<<x>>) = x
  OBVIOUS
<1>2. Tail(<<x>>) = <<>>
  OBVIOUS
<1>3. Append(<<>>, x) = <<x>>
  OBVIOUS
<1>4. <<>> \o <<x>> = <<x>>
  OBVIOUS
<1> QED BY <1>1, <1>2, <1>3, <1>4

LEMMA NoElements ==
  ASSUME NEW S, NEW s \in Seq(S), Len(s) = 0
  PROVE  s = <<>>
  OBVIOUS

LEMMA TailElements ==
  ASSUME NEW S, NEW s \in Seq(S), s # <<>>
  PROVE  /\ Len(s) \in Nat /\ Len(s) >= 1
         /\ Tail(s) \in Seq(S) /\ Len(Tail(s)) = Len(s) - 1
         /\ \A i \in 1 .. Len(s) - 1 : Tail(s)[i] = s[i + 1]
         /\ Len(s) = 1 <=> Tail(s) = <<>>
<1>1. Len(s) \in Nat /\ Len(s) >= 1
  OBVIOUS
<1>2. Tail(s) \in Seq(S)
  OBVIOUS
<1>3. Len(Tail(s)) = Len(s) - 1
  OBVIOUS
<1>4. \A i \in 1 .. Len(s) - 1 : Tail(s)[i] = s[i + 1]
  OBVIOUS
<1>5. ASSUME Len(s) = 1 PROVE Tail(s) = <<>>
  <2>1. Len(Tail(s)) = 0
    BY <1>3, <1>5
  <2> QED BY <1>2, <2>1, NoElements, Zenon
<1>6. ASSUME Tail(s) = <<>> PROVE Len(s) = 1
  <2>1. Len(Tail(s)) = Len(<<>>)
    BY <1>6, Zenon
  <2>2. Len(<<>>) = 0
    OBVIOUS
  <2>3. \A m, n : n \in Nat /\ m = n - 1 /\ m = 0 => n = 1
    OBVIOUS
  <2> QED BY <1>1, <1>3, <2>1, <2>2, <2>3, Zenon
<1>7. Len(s) = 1 <=> Tail(s) = <<>>
  BY <1>5, <1>6, Zenon
<1> QED BY <1>1, <1>2, <1>3, <1>4, <1>7, Zenon

LEMMA OwnSend ==
  ASSUME BaseInv, NEW c \in Clients, Exclusive(c), NEW units,
         Send(c, units) \/ Fault, server' = "up"
  PROVE  \/ client[c] = "gone"
         \/ client[c] # "gone" /\ toClient'[c] = toClient[c] \o units
<1>1. Connection(c) = c /\ c # Free
  BY ServerAssumption DEF Exclusive
<1> QED BY <1>1 DEF Send, Fault, BaseInv, Domains

LEMMA SessionStarts ==
  ASSUME BaseInv, NEW c \in Clients, Accept(c)
  PROVE  Session(c)'
<1>1. /\ thread[c] = "backlog" /\ thread'[c] = "info"
      /\ UNCHANGED <<toServer, toClient, client, path, script>>
  BY DEF Accept, GoThread, AtThread, clients, BaseInv, TypeOK
<1>2. client[c] \in {"greeting", "gone"} /\ toServer[c] = <<>> /\ toClient[c] = <<>>
  BY <1>1 DEF BaseInv, Quiet
<1>3. script[c] = <<>>
  BY <1>2 DEF BaseInv, TypeOK
<1>4. Together(c)'
  BY <1>1, <1>2 DEF Together
<1> QED BY <1>1, <1>2, <1>3, <1>4 DEF Session

LEMMA SessionGreeted ==
  ASSUME BaseInv, NEW c \in Clients, Exclusive(c), Session(c), Greet(c), server' = "up"
  PROVE  Session(c)'
<1>1. /\ thread[c] = "info" /\ thread'[c] = "loop"
      /\ UNCHANGED <<dirPath, toServer, client, path, script, mishap>>
  BY DEF Greet, GoThread, AtThread, clients, BaseInv, TypeOK
<1>2. \/ client[c] = "gone"
      \/ client[c] # "gone" /\ toClient'[c] = toClient[c] \o <<Text>>
  BY OwnSend DEF Greet, SendInfoAboutServer
<1>3. \/ client[c] = "gone"
      \/ client[c] = "greeting" /\ toServer[c] = <<>> /\ toClient[c] = <<>>
  BY <1>1 DEF Session, Together, Asked, Answering
<1>4. <<>> \o <<Text>> = <<Text>>
  BY OneUnit
<1>5. Together(c)'
  BY <1>1, <1>2, <1>3, <1>4 DEF Together, Answering
<1> QED BY <1>1, <1>3, <1>5 DEF Session

LEMMA SessionReads ==
  ASSUME BaseInv, NEW c \in Clients, Exclusive(c), Session(c), WaitMessage(c), server' = "up"
  PROVE  Session(c)'
<1>1. /\ thread[c] = "loop" /\ thread'[c] = "read" /\ conn'[c] = c
      /\ UNCHANGED <<dirPath, toServer, toClient, client, path, script, mishap>>
  BY ServerAssumption
  DEF WaitMessage, GoThread, AtThread, clients, Exclusive, BaseInv, TypeOK
<1>2. \A ops : Asked(c, ops) => Asked(c, ops)'
  BY <1>1 DEF Asked
<1>3. \A unit : Answering(c, unit) => Answering(c, unit)'
  BY <1>1 DEF Answering
<1>4. Together(c)'
  BY <1>1, <1>2, <1>3 DEF Session, Together
<1> QED BY <1>1, <1>4 DEF Session

(* A command that a thread reads is the one that its client waits for.     *)
LEMMA CommandAsked ==
  ASSUME NEW c \in Clients, Session(c), NEW ops, Takes(c, ops), client[c] # "gone"
  PROVE  \/ client[c] = "cdAnswer" /\ Asked(c, {"cd"})
         \/ client[c] = "answer" /\ Asked(c, {"info", "echo", "bare"})
         \/ client[c] = "fileAnswer" /\ Asked(c, {"info", "echo", "bare", "quit"})
         \/ client[c] = "listAnswer" /\ Asked(c, {"list"})
         \/ client[c] = "byeAnswer" /\ Asked(c, {"quit"})
<1>1. thread[c] = "read" /\ toServer[c] # <<>>
  BY DEF Takes, AtThread, Session
<1> QED BY <1>1 DEF Session, Together, Answering

LEMMA CommandKnown ==
  ASSUME NEW c \in Clients, Session(c), NEW ops, Takes(c, ops), client[c] # "gone"
  PROVE  Head(toServer[c]) \in Commands \cup {Command("cd", "")}
<1>1. ASSUME NEW some, Asked(c, some)
      PROVE  Head(toServer[c]) \in Commands \cup {Command("cd", "")}
  <2>1. PICK command \in Commands \cup {Command("cd", "")} : toServer[c] = <<command>>
    BY <1>1 DEF Asked
  <2> QED BY <2>1, OneUnit
<1> QED BY <1>1, CommandAsked

(* What a thread that has read a command knows of its session.             *)
LEMMA CommandTaken ==
  ASSUME BaseInv, NEW c \in Clients, Session(c), NEW ops, Takes(c, ops)
  PROVE  /\ thread[c] = "read" /\ conn[c] = c
         /\ toServer[c] # <<>> /\ Head(toServer[c]).op \in ops
         /\ client[c] # "gone" =>
              /\ toClient[c] = <<>> /\ toServer'[c] = <<>>
              /\ Head(toServer[c]).op = "cd" => client[c] = "cdAnswer"
              /\ Head(toServer[c]).op = "list" => client[c] = "listAnswer"
              /\ Head(toServer[c]).op = "quit" => client[c] \in {"fileAnswer", "byeAnswer"}
              /\ Head(toServer[c]).op \in {"info", "echo", "bare"}
                   => client[c] \in {"answer", "fileAnswer"}
              /\ Faulting(Head(toServer[c])) => mishap
<1>1. thread[c] = "read" /\ conn[c] = c /\ toServer[c] # <<>> /\ Head(toServer[c]).op \in ops
  BY DEF Takes, AtThread, Session
<1>2. toServer'[c] = Tail(toServer[c])
  BY <1>1 DEF Takes, BaseInv, Domains
<1>3. ASSUME client[c] # "gone"
      PROVE  \/ client[c] = "cdAnswer" /\ Asked(c, {"cd"})
             \/ client[c] = "answer" /\ Asked(c, {"info", "echo", "bare"})
             \/ client[c] = "fileAnswer" /\ Asked(c, {"info", "echo", "bare", "quit"})
             \/ client[c] = "listAnswer" /\ Asked(c, {"list"})
             \/ client[c] = "byeAnswer" /\ Asked(c, {"quit"})
  BY <1>3, CommandAsked
<1>4. ASSUME NEW some, Asked(c, some)
      PROVE  /\ toClient[c] = <<>> /\ toServer'[c] = <<>>
             /\ Head(toServer[c]).op \in some /\ (Faulting(Head(toServer[c])) => mishap)
  <2>1. PICK command \in Commands \cup {Command("cd", "")} :
          toServer[c] = <<command>> /\ command.op \in some /\ (Faulting(command) => mishap)
    BY <1>4 DEF Asked
  <2>2. Head(<<command>>) = command /\ Tail(<<command>>) = <<>>
    BY OneUnit
  <2> QED BY <1>2, <1>4, <2>1, <2>2 DEF Asked
<1>5. ASSUME client[c] # "gone"
      PROVE  /\ toClient[c] = <<>> /\ toServer'[c] = <<>>
             /\ Faulting(Head(toServer[c])) => mishap
  BY <1>3, <1>4, <1>5
<1>6. ASSUME client[c] # "gone"
      PROVE  /\ Head(toServer[c]).op = "cd" => client[c] = "cdAnswer"
             /\ Head(toServer[c]).op = "list" => client[c] = "listAnswer"
             /\ Head(toServer[c]).op = "quit" => client[c] \in {"fileAnswer", "byeAnswer"}
             /\ Head(toServer[c]).op \in {"info", "echo", "bare"}
                  => client[c] \in {"answer", "fileAnswer"}
  <2>1. CASE client[c] = "cdAnswer"
    <3>1. Head(toServer[c]).op \in {"cd"}
      BY <1>3, <1>4, <1>6, <2>1
    <3> QED BY <2>1, <3>1
  <2>2. CASE client[c] = "answer"
    <3>1. Head(toServer[c]).op \in {"info", "echo", "bare"}
      BY <1>3, <1>4, <1>6, <2>2
    <3> QED BY <2>2, <3>1
  <2>3. CASE client[c] = "fileAnswer"
    <3>1. Head(toServer[c]).op \in {"info", "echo", "bare", "quit"}
      BY <1>3, <1>4, <1>6, <2>3
    <3> QED BY <2>3, <3>1
  <2>4. CASE client[c] = "listAnswer"
    <3>1. Head(toServer[c]).op \in {"list"}
      BY <1>3, <1>4, <1>6, <2>4
    <3> QED BY <2>4, <3>1
  <2>5. CASE client[c] = "byeAnswer"
    <3>1. Head(toServer[c]).op \in {"quit"}
      BY <1>3, <1>4, <1>6, <2>5
    <3> QED BY <2>5, <3>1
  <2> QED BY <1>3, <1>6, <2>1, <2>2, <2>3, <2>4, <2>5
<1> QED BY <1>1, <1>5, <1>6

LEMMA SessionSays ==
  ASSUME BaseInv, NEW c \in Clients, Exclusive(c), Session(c), HandleSay(c), server' = "up"
  PROVE  Session(c)'
<1>1. /\ thread'[c] = "loop"
      /\ UNCHANGED <<dirPath, client, path, script, mishap>>
  BY DEF HandleSay, GoThread, clients, BaseInv, TypeOK
<1>2. Takes(c, {"info", "echo", "bare"})
  BY DEF HandleSay
<1>3. client[c] # "gone" =>
        client[c] \in {"answer", "fileAnswer"} /\ toClient[c] = <<>> /\ toServer'[c] = <<>>
  BY <1>2, CommandTaken
<1>4. Send(c, <<Text>>) \/ Fault
  BY <1>2 DEF HandleSay, SendInfoAboutServer, Takes
<1>5. client[c] = "gone" \/ toClient'[c] = toClient[c] \o <<Text>>
  BY <1>4, OwnSend
<1>6. client[c] = "gone" \/ Answering(c, Text)'
  BY <1>1, <1>3, <1>5, OneUnit DEF Answering
<1>7. Together(c)'
  BY <1>1, <1>3, <1>6 DEF Together
<1> QED BY <1>1, <1>3, <1>7 DEF Session

LEMMA SessionMoves ==
  ASSUME BaseInv, NEW c \in Clients, Exclusive(c), Session(c), HandleCd(c), server' = "up"
  PROVE  Session(c)'
<1>1. /\ thread'[c] = "loop"
      /\ UNCHANGED <<client, path, script, mishap>>
  BY DEF HandleCd, GoThread, clients, BaseInv, TypeOK
<1>2. Takes(c, {"cd"})
  BY DEF HandleCd
<1>3. client[c] # "gone" =>
        client[c] = "cdAnswer" /\ toClient[c] = <<>> /\ toServer'[c] = <<>>
  BY <1>2, CommandTaken
<1>4. Send(c, <<Unit("cd", dirPath'[c])>>) \/ Fault
  BY DEF HandleCd, BaseInv, Domains
<1>5. client[c] = "gone" \/ toClient'[c] = toClient[c] \o <<Unit("cd", dirPath'[c])>>
  BY <1>4, OwnSend
<1>6. client[c] = "gone" \/ Answering(c, Unit("cd", dirPath[c]))'
  BY <1>1, <1>3, <1>5, OneUnit DEF Answering
<1>7. Together(c)'
  BY <1>1, <1>3, <1>6 DEF Together
<1> QED BY <1>1, <1>3, <1>7 DEF Session

LEMMA SessionLists ==
  ASSUME BaseInv, NEW c \in Clients, Exclusive(c), Session(c), HandleList(c), server' = "up",
         ~offScript'[c]
  PROVE  Session(c)'
<1>1. /\ thread'[c] = "list"
      /\ UNCHANGED <<dirPath, client, path, script, mishap>>
  BY DEF HandleList, GoThread, BaseInv, TypeOK
<1>2. Takes(c, {"list"})
  BY DEF HandleList
<1>3. client[c] # "gone" =>
        client[c] = "listAnswer" /\ toClient[c] = <<>> /\ toServer'[c] = <<>>
  BY <1>2, CommandTaken
<1>4. /\ toClient' = toClient
      /\ \E l \in Listings(Resolve(dirPath[c])) : listing' = [listing EXCEPT ![c] = l]
      /\ offScript' = [offScript EXCEPT ![conn[c]] = @ \/ Resolve(dirPath[c]) \in DoneNamed]
  BY DEF HandleList, Fault
<1>5. Resolve(dirPath[c]) \notin DoneNamed
  BY <1>2, <1>4, CommandTaken DEF BaseInv, Domains
<1>6. listing'[c] = <<"entry", "entry">>
  BY <1>4, <1>5 DEF Listings, BaseInv, Domains
<1>7. listing'[c] \in Seq({"entry"})
  BY <1>6
<1>8. <<>> \in Stream /\ WholeEntries(<<>>, Len(<<>>))
  BY DEF Stream, WholeEntries
<1>9. Together(c)'
  <2>1. client[c] # "gone" =>
          /\ client'[c] = "listAnswer" /\ thread'[c] = "list" /\ listing'[c] \in Seq({"entry"})
          /\ toServer'[c] = <<>> /\ toClient'[c] \in Stream
          /\ WholeEntries(toClient'[c], Len(toClient'[c]))
    BY <1>1, <1>3, <1>4, <1>7, <1>8
  <2>2. Stream' = Stream /\ \A units, n : WholeEntries(units, n)' <=> WholeEntries(units, n)
    BY DEF Stream, WholeEntries
  <2> QED BY <1>1, <2>1, <2>2 DEF Together, WholeEntries
<1> QED BY <1>1, <1>3, <1>9 DEF Session

LEMMA StreamGrows ==
  ASSUME NEW units \in Stream, WholeEntries(units, Len(units))
  PROVE  /\ units \o <<Entry, Rest>> \in Stream
         /\ WholeEntries(units \o <<Entry, Rest>>, Len(units \o <<Entry, Rest>>))
         /\ units \o <<Done>> \in Stream /\ units \o <<Done>> # <<>>
         /\ WholeEntries(units \o <<Done>>, Len(units \o <<Done>>) - 1)
         /\ (units \o <<Done>>)[Len(units \o <<Done>>)] = Done
<1> DEFINE S == {Entry, Rest, Done}
<1>1. units \in Seq(S) /\ <<Entry, Rest>> \in Seq(S) /\ <<Done>> \in Seq(S)
  BY DEF Stream
<1>2. Len(units) \in Nat /\ Len(units) % 2 = 0
  BY <1>1 DEF WholeEntries
<1>3. (Len(units) + 2) % 2 = 0 /\ (Len(units) + 1) % 2 = 1
  BY ONLY <1>2
<1>a. \A i \in 1 .. Len(units) : units[i] = IF i % 2 = 1 THEN Entry ELSE Rest
  BY DEF WholeEntries
<1> HIDE DEF S
<1>4. /\ units \o <<Entry, Rest>> \in Seq(S)
      /\ Len(units \o <<Entry, Rest>>) = Len(units) + 2
      /\ \A i \in 1 .. Len(units) : (units \o <<Entry, Rest>>)[i] = units[i]
      /\ (units \o <<Entry, Rest>>)[Len(units) + 1] = Entry
      /\ (units \o <<Entry, Rest>>)[Len(units) + 2] = Rest
  BY ONLY <1>1, <1>2
<1>5. /\ units \o <<Done>> \in Seq(S)
      /\ Len(units \o <<Done>>) = Len(units) + 1
      /\ \A i \in 1 .. Len(units) : (units \o <<Done>>)[i] = units[i]
      /\ (units \o <<Done>>)[Len(units) + 1] = Done
  BY ONLY <1>1, <1>2
<1>6. units \o <<Done>> # <<>>
  BY <1>2, <1>5
<1>7. \A i \in 1 .. Len(units) + 2 :
        (units \o <<Entry, Rest>>)[i] = IF i % 2 = 1 THEN Entry ELSE Rest
  <2> SUFFICES ASSUME NEW i \in 1 .. Len(units) + 2
               PROVE  (units \o <<Entry, Rest>>)[i] = IF i % 2 = 1 THEN Entry ELSE Rest
    OBVIOUS
  <2>1. i \in 1 .. Len(units) \/ i = Len(units) + 1 \/ i = Len(units) + 2
    BY <1>2
  <2>2. CASE i \in 1 .. Len(units)
    BY <1>a, <1>4, <2>2
  <2>3. CASE i = Len(units) + 1
    BY <1>3, <1>4, <2>3
  <2>4. CASE i = Len(units) + 2
    BY <1>3, <1>4, <2>4
  <2> QED BY <2>1, <2>2, <2>3, <2>4
<1>8. WholeEntries(units \o <<Entry, Rest>>, Len(units \o <<Entry, Rest>>))
  BY <1>3, <1>4, <1>7 DEF WholeEntries
<1>9. WholeEntries(units \o <<Done>>, Len(units \o <<Done>>) - 1)
  <2>1. Len(units \o <<Done>>) - 1 = Len(units)
    BY <1>2, <1>5
  <2> QED BY <1>2, <1>a, <1>5, <2>1 DEF WholeEntries
<1> QED BY <1>4, <1>5, <1>6, <1>8, <1>9 DEF Stream, S

(* Where a session is while its thread sends a list.                       *)
LEMMA ListSession ==
  ASSUME NEW c \in Clients, Session(c), thread[c] = "list", client[c] # "gone"
  PROVE  /\ client[c] = "listAnswer" /\ listing[c] \in Seq({"entry"})
         /\ toServer[c] = <<>> /\ toClient[c] \in Stream
         /\ WholeEntries(toClient[c], Len(toClient[c]))
  BY DEF Session, Together, Asked, Answering

LEMMA SessionSendsEntry ==
  ASSUME BaseInv, NEW c \in Clients, Exclusive(c), Session(c), SendEntry(c), server' = "up"
  PROVE  Session(c)'
<1>1. /\ thread[c] = "list" /\ thread' = thread /\ listing[c] # <<>>
      /\ listing' = [listing EXCEPT ![c] = Tail(@)]
      /\ UNCHANGED <<dirPath, toServer, client, path, script, mishap>>
  BY DEF SendEntry, AtThread, clients
<1>2. \/ client[c] = "gone"
      \/ toClient'[c] = toClient[c] \o <<Unit(Head(listing[c]), <<>>), Rest>>
  BY OwnSend DEF SendEntry
<1>3. ASSUME client[c] # "gone"
      PROVE  /\ client'[c] = "listAnswer" /\ thread'[c] = "list" /\ listing'[c] \in Seq({"entry"})
             /\ toServer'[c] = <<>> /\ toClient'[c] \in Stream
             /\ WholeEntries(toClient'[c], Len(toClient'[c]))
  <2>1. /\ client[c] = "listAnswer" /\ listing[c] \in Seq({"entry"})
        /\ toServer[c] = <<>> /\ toClient[c] \in Stream
        /\ WholeEntries(toClient[c], Len(toClient[c]))
    BY <1>1, <1>3, ListSession
  <2>2. Head(listing[c]) = "entry" /\ Tail(listing[c]) \in Seq({"entry"})
    BY <1>1, <2>1
  <2>3. toClient'[c] = toClient[c] \o <<Entry, Rest>>
    BY <1>2, <1>3, <2>2 DEF Entry
  <2>4. listing'[c] = Tail(listing[c])
    BY <1>1 DEF BaseInv, Domains
  <2> QED BY <1>1, <2>1, <2>2, <2>3, <2>4, StreamGrows
<1>4. Stream' = Stream /\ \A units, n : WholeEntries(units, n)' <=> WholeEntries(units, n)
  BY DEF Stream, WholeEntries
<1>5. Together(c)'
  BY <1>1, <1>3, <1>4 DEF Together, WholeEntries
<1> QED BY <1>1, <1>5 DEF Session

LEMMA SessionSendsDone ==
  ASSUME BaseInv, NEW c \in Clients, Exclusive(c), Session(c), SendDone(c), server' = "up"
  PROVE  Session(c)'
<1>1. /\ thread[c] = "list" /\ thread'[c] = "loop"
      /\ UNCHANGED <<dirPath, toServer, client, path, script, mishap>>
  BY DEF SendDone, GoThread, AtThread, clients, BaseInv, TypeOK
<1>2. client[c] = "gone" \/ toClient'[c] = toClient[c] \o <<Done>>
  BY OwnSend DEF SendDone
<1>3. ASSUME client[c] # "gone"
      PROVE  /\ client'[c] = "listAnswer" /\ thread'[c] \in {"loop", "read"}
             /\ toServer'[c] = <<>> /\ toClient'[c] \in Stream /\ toClient'[c] # <<>>
             /\ WholeEntries(toClient'[c], Len(toClient'[c]) - 1)
             /\ toClient'[c][Len(toClient'[c])] = Done
  <2>1. /\ client[c] = "listAnswer" /\ toServer[c] = <<>> /\ toClient[c] \in Stream
        /\ WholeEntries(toClient[c], Len(toClient[c]))
    BY <1>1, <1>3, ListSession
  <2> QED BY <1>1, <1>2, <1>3, <2>1, StreamGrows
<1>4. Stream' = Stream /\ Done' = Done
  BY DEF Stream
<1>5. Together(c)'
  BY <1>1, <1>3, <1>4 DEF Together, WholeEntries
<1> QED BY <1>1, <1>5 DEF Session

-----------------------------------------------------------------------------
(* A step of a session's own client.                                       *)

LEMMA CommandOps ==
  ASSUME NEW command \in Commands
  PROVE  command.op \in {"cd", "info", "echo", "bare", "list", "quit"}
<1>1. \A op, name : Command(op, name).op = op
  BY DEF Command
<1>2. CASE command \in {Command("cd", name) : name \in CdNames}
  BY <1>1, <1>2, Zenon
<1>3. CASE command \in {Command(op, "") : op \in {"info", "echo", "bare", "list", "quit"}}
  <2>1. PICK op \in {"info", "echo", "bare", "list", "quit"} : command = Command(op, "")
    BY <1>3, Zenon
  <2>2. command.op = op
    BY <1>1, <2>1, Zenon
  <2> QED BY <2>2
<1> QED BY <1>2, <1>3, Zenon DEF Commands

(* What a client that has been sent something knows of its session.        *)
LEMMA AnswerThere ==
  ASSUME NEW c \in Clients, Session(c), toClient[c] # <<>>
  PROVE  \/ client[c] = "greeting" /\ Answering(c, Text)
         \/ client[c] = "cdAnswer" /\ Answering(c, Unit("cd", dirPath[c]))
         \/ client[c] \in {"answer", "fileAnswer"} /\ Answering(c, Text)
         \/ client[c] \in {"listAnswer", "gone"}
  BY DEF Session, Together, Asked

(* A command on its way: the next step of a session at rest.               *)
LEMMA CommandSent ==
  ASSUME BaseInv, NEW c \in Clients, InSession(c), toServer[c] = <<>>,
         NEW command \in Commands \cup {Command("cd", "")}, NEW ops,
         SendCommandToServer(c, command), command.op \in ops, Faulting(command) => mishap',
         UNCHANGED thread, thread[c] \in {"loop", "read"}, toClient'[c] = <<>>
  PROVE  Asked(c, ops)'
<1>1. ~Closed(c)
  <2>1. fd[c] \in Fds /\ fds[fd[c]] = c /\ server = "up"
    BY DEF InSession, Exclusive, Connection, BaseInv, TypeOK
  <2> QED BY <2>1 DEF Closed
<1>2. toServer'[c] = <<command>>
  BY <1>1, OneUnit DEF SendCommandToServer, BaseInv, Domains
<1> QED BY <1>2 DEF Asked

LEMMA SessionAsksFirst ==
  ASSUME BaseInv, NEW c \in Clients, InSession(c), Session(c), Greeted(c)
  PROVE  Session(c)'
<1>1. /\ client[c] = "greeting" /\ client'[c] = "cdAnswer" /\ toClient[c] # <<>>
      /\ toClient'[c] = Tail(toClient[c]) /\ SendCommandToServer(c, Command("cd", ""))
      /\ UNCHANGED <<thread, conn, dirPath, path, script, mishap>>
  BY DEF Greeted, GoClient, Reads, threads, BaseInv, TypeOK, Domains
<1>2. thread[c] \in {"loop", "read"} /\ toServer[c] = <<>> /\ toClient'[c] = <<>>
  BY <1>1, AnswerThere, OneUnit DEF Answering
<1>3. Command("cd", "").op = "cd" /\ ~Faulting(Command("cd", ""))
  BY DEF Command, Faulting
<1>4. Asked(c, {"cd"})'
  BY <1>1, <1>2, <1>3, CommandSent
<1>5. Together(c)'
  BY <1>1, <1>4 DEF Together
<1> QED BY <1>1, <1>5 DEF Session

LEMMA SessionOfFile ==
  ASSUME BaseInv, NEW c \in Clients, InSession(c), Session(c), ReadInFile(c)
  PROVE  Session(c)'
<1>1. /\ client[c] = "fileAnswer" /\ toClient[c] # <<>> /\ toClient'[c] = Tail(toClient[c])
      /\ UNCHANGED <<thread, conn, dirPath, path, mishap>>
  BY DEF ReadInFile, Reads, threads, BaseInv, Domains
<1>2. thread[c] \in {"loop", "read"} /\ toServer[c] = <<>> /\ toClient'[c] = <<>>
  BY <1>1, AnswerThere, OneUnit DEF Answering
<1>3. CASE script[c] = <<>>
  <2>1. client'[c] = "prompt" /\ script' = script /\ toServer' = toServer
    BY <1>3 DEF ReadInFile, GoClient, BaseInv, TypeOK
  <2>2. Together(c)'
    BY <1>1, <1>2, <2>1 DEF Together
  <2> QED BY <1>1, <2>1, <2>2 DEF Session
<1>4. CASE script[c] # <<>>
  <2>1. /\ client' = client /\ SendCommandToServer(c, Head(script[c]))
        /\ script'[c] = Tail(script[c])
    BY <1>4 DEF ReadInFile, BaseInv, Domains
  <2>2. script[c] \in Seq(Commands) /\ Head(script[c]) \in Commands /\ Head(script[c]) = script[c][1]
    BY <1>4 DEF BaseInv, Domains
  <2>3. Len(script[c]) \in Nat /\ 1 <= Len(script[c])
    BY <1>4, <2>2
  <2>4. Head(script[c]).op \notin {"cd", "list"} /\ (Faulting(Head(script[c])) => mishap)
    BY <2>2, <2>3 DEF Session
  <2>5. Head(script[c]).op \in {"info", "echo", "bare", "quit"}
    BY <2>2, <2>4, CommandOps
  <2>6. Asked(c, {"info", "echo", "bare", "quit"})'
    BY <1>1, <1>2, <2>1, <2>2, <2>4, <2>5, CommandSent
  <2>7. \A i \in 1 .. Len(script'[c]) :
          i + 1 \in 1 .. Len(script[c]) /\ script'[c][i] = script[c][i + 1]
    <3>1. /\ Len(script'[c]) = Len(script[c]) - 1
          /\ \A i \in 1 .. Len(script[c]) - 1 : script'[c][i] = script[c][i + 1]
      BY <1>4, <2>1, <2>2, TailElements
    <3> QED BY <2>3, <3>1
  <2>8. Together(c)'
    BY <1>1, <2>1, <2>6 DEF Together
  <2>9. \A i \in 1 .. Len(script'[c]) :
          script'[c][i].op \notin {"cd", "list"} /\ (Faulting(script'[c][i]) => mishap')
    BY <1>1, <2>7 DEF Session
  <2> QED BY <1>1, <2>1, <2>8, <2>9 DEF Session
<1> QED BY <1>3, <1>4

(* A client that ends has no session that could get out of step.           *)
LEMMA SessionEnds ==
  ASSUME BaseInv, NEW c \in Clients, Session(c), UNCHANGED <<thread, conn>>,
         NEW from, Ends(c, from)
  PROVE  Session(c)'
<1>1. client'[c] = "gone" /\ script'[c] = <<>>
  BY DEF Ends, GoClient, BaseInv, TypeOK, Domains
<1> QED BY <1>1 DEF Session, Together

LEMMA SessionAnswered ==
  ASSUME BaseInv, NEW c \in Clients, InSession(c), Session(c), ReadAnswer(c) \/ ReadCd(c)
  PROVE  Session(c)'
<1>1. UNCHANGED <<thread, conn, dirPath, toServer>> /\ toClient[c] # <<>>
  BY DEF ReadAnswer, ReadCd, Reads, threads
<1>2. CASE \E from : Ends(c, from)
  BY <1>1, <1>2, SessionEnds
<1>3. CASE ~ \E from : Ends(c, from)
  <2>1. /\ client'[c] = "prompt" /\ toClient'[c] = Tail(toClient[c]) /\ UNCHANGED <<script, mishap>>
        /\ \/ client[c] = "answer" /\ path' = path
           \/ client[c] = "cdAnswer" /\ path'[c] = Head(toClient[c]).path
    BY <1>3 DEF ReadAnswer, ReadCd, GoClient, Reads, BaseInv, TypeOK, Domains
  <2>2. thread[c] \in {"loop", "read"} /\ toServer[c] = <<>> /\ toClient'[c] = <<>>
    BY <1>1, <2>1, AnswerThere, OneUnit DEF Answering
  <2>3. path'[c] = dirPath[c]
    <3>1. CASE client[c] = "answer"
      BY <2>1, <3>1 DEF Session
    <3>2. CASE client[c] = "cdAnswer"
      <4>1. toClient[c] = <<Unit("cd", dirPath[c])>>
        BY <1>1, <3>2, AnswerThere DEF Answering
      <4> QED BY <2>1, <3>2, <4>1, OneUnit DEF Unit
    <3> QED BY <2>1, <3>1, <3>2
  <2>4. Together(c)'
    BY <1>1, <2>1, <2>2 DEF Together
  <2> QED BY <1>1, <2>1, <2>3, <2>4 DEF Session
<1> QED BY <1>2, <1>3

LEMMA StreamShrinks ==
  ASSUME NEW units \in Stream, units # <<>>
  PROVE  /\ WholeEntries(units, Len(units)) =>
              /\ Len(units) > 1 /\ units[1] = Entry /\ units[2] = Rest
              /\ Tail(Tail(units)) \in Stream
              /\ WholeEntries(Tail(Tail(units)), Len(Tail(Tail(units))))
         /\ WholeEntries(units, Len(units) - 1) /\ units[Len(units)] = Done /\ Len(units) # 1 =>
              /\ Len(units) > 1 /\ units[1] = Entry /\ units[2] = Rest
              /\ Tail(Tail(units)) \in Stream /\ Tail(Tail(units)) # <<>>
              /\ WholeEntries(Tail(Tail(units)), Len(Tail(Tail(units))) - 1)
              /\ Tail(Tail(units))[Len(Tail(Tail(units)))] = Done
         /\ Len(units) = 1 => Tail(units) = <<>>
<1> DEFINE S == {Entry, Rest, Done}
           t == Tail(Tail(units))
<1>1. units \in Seq(S) /\ Len(units) \in Nat /\ Len(units) >= 1
  BY DEF Stream
<1>2. ASSUME Len(units) > 1
      PROVE  /\ t \in Seq(S) /\ Len(t) = Len(units) - 2
             /\ \A i \in 1 .. Len(units) - 2 : t[i] = units[i + 2]
  <2>1. /\ Tail(units) \in Seq(S) /\ Len(Tail(units)) = Len(units) - 1 /\ Tail(units) # <<>>
        /\ \A i \in 1 .. Len(units) - 1 : Tail(units)[i] = units[i + 1]
    <3>1. Len(units) # 1
      BY <1>1, <1>2, \A n \in Nat : n > 1 => n # 1, Zenon
    <3> QED BY <1>1, <3>1, TailElements, Zenon
  <2>2. /\ t \in Seq(S) /\ Len(t) = Len(Tail(units)) - 1
        /\ \A i \in 1 .. Len(Tail(units)) - 1 : t[i] = Tail(units)[i + 1]
    BY <2>1, TailElements
  <2> HIDE DEF t
  <2>3. ASSUME NEW i \in 1 .. Len(units) - 2 PROVE t[i] = units[i + 2]
    <3>1. i + 1 \in 1 .. Len(units) - 1 /\ i \in 1 .. Len(Tail(units)) - 1 /\ i + 1 + 1 = i + 2
      BY <1>1, <2>1
    <3> QED BY <2>1, <2>2, <3>1
  <2> QED BY <1>1, <2>1, <2>2, <2>3
<1>3. Len(units) = 1 => Tail(units) = <<>>
  BY <1>1, TailElements
<1> HIDE DEF S, t
<1>4. ASSUME NEW n \in Nat, n >= 2, n <= Len(units), WholeEntries(units, n)
      PROVE  /\ Len(units) > 1 /\ units[1] = Entry /\ units[2] = Rest
             /\ t \in Seq(S) /\ Len(t) = Len(units) - 2 /\ WholeEntries(t, n - 2)
  <2>1. Len(units) > 1 /\ n % 2 = 0
    BY <1>1, <1>4 DEF WholeEntries
  <2>2. (n - 2) % 2 = 0 /\ 1 % 2 = 1 /\ 2 % 2 = 0
    BY ONLY n \in Nat, n >= 2, <2>1
  <2>3. units[1] = Entry /\ units[2] = Rest
    BY <1>4, <2>2 DEF WholeEntries
  <2>4. ASSUME NEW i \in 1 .. n - 2 PROVE t[i] = IF i % 2 = 1 THEN Entry ELSE Rest
    <3>1. i + 2 \in 1 .. n /\ i \in 1 .. Len(units) - 2
      BY <1>1, <1>4
    <3>2. (i + 2) % 2 = i % 2
      BY ONLY i \in 1 .. n - 2, n \in Nat
    <3>3. units[i + 2] = IF (i + 2) % 2 = 1 THEN Entry ELSE Rest
      BY <1>4, <3>1 DEF WholeEntries
    <3> QED BY <1>2, <2>1, <3>1, <3>2, <3>3
  <2> QED BY <1>2, <2>1, <2>2, <2>3, <2>4 DEF WholeEntries
<1>5. ASSUME WholeEntries(units, Len(units))
      PROVE  /\ Len(units) > 1 /\ units[1] = Entry /\ units[2] = Rest
             /\ t \in Seq(S) /\ WholeEntries(t, Len(t))
  <2>1. Len(units) % 2 = 0
    BY <1>5 DEF WholeEntries
  <2>2. Len(units) >= 2
    BY <1>1, <2>1, \A n \in Nat : n >= 1 /\ n % 2 = 0 => n >= 2
  <2>3. Len(units) <= Len(units)
    BY <1>1
  <2> QED BY <1>1, <1>4, <1>5, <2>2, <2>3
<1>6. ASSUME WholeEntries(units, Len(units) - 1), units[Len(units)] = Done, Len(units) # 1
      PROVE  /\ Len(units) > 1 /\ units[1] = Entry /\ units[2] = Rest
             /\ t \in Seq(S) /\ t # <<>> /\ WholeEntries(t, Len(t) - 1)
             /\ t[Len(t)] = Done
  <2>1. (Len(units) - 1) % 2 = 0
    BY <1>6 DEF WholeEntries
  <2>2. Len(units) - 1 >= 2 /\ Len(units) - 1 \in Nat /\ Len(units) - 1 <= Len(units)
    <3>1. \A n \in Nat : n >= 1 /\ n # 1 /\ (n - 1) % 2 = 0 => n - 1 >= 2 /\ n - 1 \in Nat /\ n - 1 <= n
      OBVIOUS
    <3> QED BY <1>1, <1>6, <2>1, <3>1
  <2>3. /\ Len(units) > 1 /\ units[1] = Entry /\ units[2] = Rest
        /\ t \in Seq(S) /\ Len(t) = Len(units) - 2 /\ WholeEntries(t, Len(units) - 1 - 2)
    BY <1>4, <1>6, <2>2
  <2>4. t[Len(t)] = Done
    <3>1. Len(t) \in 1 .. Len(units) - 2 /\ Len(t) + 2 = Len(units)
      BY <2>2, <2>3
    <3> QED BY <1>2, <1>6, <2>2, <3>1
  <2>5. Len(units) - 1 - 2 = Len(t) - 1 /\ t # <<>>
    BY <1>1, <2>2, <2>3
  <2> QED BY <2>3, <2>4, <2>5
<1> QED BY <1>3, <1>5, <1>6 DEF Stream, S, t

LEMMA SessionReadsList ==
  ASSUME BaseInv, NEW c \in Clients, InSession(c), Session(c), ReadList(c)
  PROVE  Session(c)'
<1> DEFINE units == toClient[c]
           whole == Len(units) > 1 /\ units[2] = Rest
<1>1. /\ client[c] = "listAnswer" /\ units # <<>>
      /\ toClient'[c] = IF whole THEN Tail(Tail(units)) ELSE Tail(units)
      /\ IF Head(units).kind = "done" THEN client'[c] = "prompt" ELSE client' = client
      /\ UNCHANGED <<thread, conn, dirPath, listing, toServer, path, script, mishap>>
  BY DEF ReadList, GoClient, threads, BaseInv, TypeOK, Domains
<1> HIDE DEF units, whole
<1>2. Entry.kind = "entry" /\ Done.kind = "done"
  BY DEF Entry, Done, Unit
<1>3. /\ toServer[c] = <<>> /\ units \in Stream
      /\ \/ /\ thread[c] = "list" /\ listing[c] \in Seq({"entry"})
            /\ WholeEntries(units, Len(units))
         \/ /\ thread[c] \in {"loop", "read"}
            /\ WholeEntries(units, Len(units) - 1) /\ units[Len(units)] = Done
  BY <1>1 DEF Session, Together, Asked, units
<1>4. Head(units) = units[1]
  BY <1>1, <1>3 DEF Stream
<1>5. Stream' = Stream /\ Done' = Done /\ \A s, n : WholeEntries(s, n)' <=> WholeEntries(s, n)
  BY DEF Stream, WholeEntries
<1>6. CASE WholeEntries(units, Len(units)) /\ thread[c] = "list"
  <2>1. /\ Len(units) > 1 /\ units[1] = Entry /\ units[2] = Rest
        /\ Tail(Tail(units)) \in Stream
        /\ WholeEntries(Tail(Tail(units)), Len(Tail(Tail(units))))
    BY <1>1, <1>3, <1>6, StreamShrinks
  <2>2. client'[c] = "listAnswer" /\ toClient'[c] = Tail(Tail(units))
    BY <1>1, <1>2, <1>4, <2>1 DEF whole
  <2>3. Together(c)'
    BY <1>1, <1>3, <1>5, <1>6, <2>1, <2>2 DEF Together, WholeEntries
  <2> QED BY <1>1, <2>2, <2>3 DEF Session
<1>7. CASE /\ WholeEntries(units, Len(units) - 1) /\ units[Len(units)] = Done /\ Len(units) # 1
           /\ thread[c] \in {"loop", "read"}
  <2>1. /\ Len(units) > 1 /\ units[1] = Entry /\ units[2] = Rest
        /\ Tail(Tail(units)) \in Stream /\ Tail(Tail(units)) # <<>>
        /\ WholeEntries(Tail(Tail(units)), Len(Tail(Tail(units))) - 1)
        /\ Tail(Tail(units))[Len(Tail(Tail(units)))] = Done
    BY <1>1, <1>3, <1>7, StreamShrinks
  <2>2. client'[c] = "listAnswer" /\ toClient'[c] = Tail(Tail(units))
    BY <1>1, <1>2, <1>4, <2>1 DEF whole
  <2>3. Together(c)'
    BY <1>1, <1>3, <1>5, <1>7, <2>1, <2>2 DEF Together, WholeEntries
  <2> QED BY <1>1, <2>2, <2>3 DEF Session
<1>8. CASE units[Len(units)] = Done /\ Len(units) = 1 /\ thread[c] \in {"loop", "read"}
  <2>1. Tail(units) = <<>>
    BY <1>1, <1>3, <1>8, StreamShrinks
  <2>2. client'[c] = "prompt" /\ toClient'[c] = <<>>
    BY <1>1, <1>2, <1>4, <1>8, <2>1 DEF whole
  <2>3. Together(c)'
    BY <1>1, <1>3, <1>8, <2>2 DEF Together
  <2> QED BY <1>1, <2>2, <2>3 DEF Session
<1> QED BY <1>3, <1>6, <1>7, <1>8

LEMMA SessionTyped ==
  ASSUME BaseInv, NEW c \in Clients, InSession(c), Session(c), Type(c)
  PROVE  Session(c)'
<1>1. PICK command \in Commands :
        /\ client[c] = "prompt" /\ client'[c] = AnswerTo(command.op)
        /\ SendCommandToServer(c, command) /\ (Faulting(command) => mishap')
  BY DEF Type, GoClient, BaseInv, TypeOK
<1>2. /\ UNCHANGED <<thread, conn, dirPath, toClient, path, script>> /\ (mishap => mishap')
  BY DEF Type, threads
<1>3. thread[c] \in {"loop", "read"} /\ toServer[c] = <<>> /\ toClient[c] = <<>>
  BY <1>1 DEF Session, Together
<1>4. Asked(c, {command.op})'
  BY <1>1, <1>2, <1>3, CommandSent
<1>5. Together(c)'
  <2>1. command.op \in {"cd", "info", "echo", "bare", "list", "quit"}
    BY <1>1, CommandOps
  <2>2. \A ops : command.op \in ops => Asked(c, ops)'
    BY <1>4 DEF Asked
  <2> QED BY <1>1, <2>1, <2>2 DEF Together, AnswerTo
<1>6. path'[c] = dirPath'[c]
  BY <1>1, <1>2 DEF Session
<1>7. \A i \in 1 .. Len(script'[c]) :
        script'[c][i].op \notin {"cd", "list"} /\ (Faulting(script'[c][i]) => mishap')
  BY <1>2 DEF Session
<1>8. thread'[c] = "read" => conn'[c] = c
  BY <1>2 DEF Session
<1> QED BY <1>5, <1>6, <1>7, <1>8 DEF Session

LEMMA SessionTypedFile ==
  ASSUME BaseInv, NEW c \in Clients, InSession(c), Session(c), TypeFile(c), ~offScript'[c]
  PROVE  Session(c)'
<1>1. PICK s \in Scripts :
        /\ SendCommandToServer(c, Head(s))
        /\ script' = [script EXCEPT ![c] = Tail(s)]
        /\ offScript' = [offScript EXCEPT ![c] = @ \/ \E command \in Range(s) : command.op \in {"cd", "list"}]
        /\ mishap' = (mishap \/ \E command \in Range(s) : Faulting(command))
  BY DEF TypeFile
<1>2. /\ client[c] = "prompt" /\ client'[c] = "fileAnswer" /\ script'[c] = Tail(s)
      /\ UNCHANGED <<thread, conn, dirPath, toClient, path>>
  BY <1>1 DEF TypeFile, GoClient, threads, BaseInv, TypeOK, Domains
<1>3. s \in Seq(Commands) /\ s # <<>>
  BY ScriptsAssumption
<1>4. \A command \in Range(s) :
        command.op \notin {"cd", "list"} /\ (Faulting(command) => mishap')
  BY <1>1 DEF BaseInv, Domains
<1>5. /\ Len(s) \in Nat /\ Len(s) >= 1 /\ Len(Tail(s)) = Len(s) - 1
      /\ \A i \in 1 .. Len(s) - 1 : Tail(s)[i] = s[i + 1]
  BY <1>3, TailElements
<1>6. \A i \in 1 .. Len(s) : s[i] \in Range(s) /\ s[i] \in Commands
  BY <1>3 DEF Range
<1>7. Head(s) = s[1]
  BY <1>3
<1>8. thread[c] \in {"loop", "read"} /\ toServer[c] = <<>> /\ toClient[c] = <<>>
  BY <1>2 DEF Session, Together
<1>9. Head(s) \in Range(s) /\ Head(s) \in Commands
  BY <1>5, <1>6, <1>7
<1>10. Head(s).op \in {"info", "echo", "bare", "quit"} /\ (Faulting(Head(s)) => mishap')
  BY <1>4, <1>9, CommandOps
<1>11. Asked(c, {"info", "echo", "bare", "quit"})'
  BY <1>1, <1>2, <1>8, <1>9, <1>10, CommandSent
<1>12. \A i \in 1 .. Len(script'[c]) :
         script'[c][i].op \notin {"cd", "list"} /\ (Faulting(script'[c][i]) => mishap')
  <2> SUFFICES ASSUME NEW i \in 1 .. Len(s) - 1
               PROVE  Tail(s)[i] \in Range(s)
    BY <1>2, <1>4, <1>5
  <2>1. i + 1 \in 1 .. Len(s)
    BY <1>5
  <2> QED BY <1>5, <1>6, <2>1
<1>13. Together(c)'
  BY <1>2, <1>11 DEF Together
<1> QED BY <1>2, <1>12, <1>13 DEF Session

-----------------------------------------------------------------------------
(* Every step keeps every session together.                                *)

LEMMA SessionInit == Init => SessionInv
  BY DEF Init, SessionInv, InSession, Exclusive

LEMMA OwnThreadSession ==
  ASSUME BaseInv, SessionInv, NEW c \in Clients, ThreadStep(c), InSession(c)'
  PROVE  Session(c)'
<1>1. CASE Accept(c)
  BY <1>1, SessionStarts
<1>2. CASE HandleQuit(c) \/ CloseAgain(c)
  BY <1>2, ExclusiveClose DEF InSession
<1>3. CASE ~Accept(c) /\ ~HandleQuit(c) /\ ~CloseAgain(c)
  <2>1. Exclusive(c) /\ server = "up" /\ server' = "up" /\ ~offScript'[c]
    BY <1>3, ExclusiveThread, ThreadFrame DEF InSession, BaseInv
  <2>2. InSession(c)
    BY <2>1, ThreadFrame DEF InSession, BaseInv
  <2>3. Session(c)
    BY <2>2 DEF SessionInv
  <2>4. CASE ReadNothing(c)
    BY <2>1, <2>4 DEF ReadNothing
  <2> QED
    BY <1>3, <2>1, <2>3, <2>4, SessionGreeted, SessionReads, SessionSays, SessionMoves,
       SessionLists, SessionSendsEntry, SessionSendsDone DEF ThreadStep
<1> QED BY <1>1, <1>2, <1>3

LEMMA OwnClientSession ==
  ASSUME BaseInv, SessionInv, NEW c \in Clients, ClientReads(c) \/ Operator(c), InSession(c)'
  PROVE  Session(c)'
<1>1. Exclusive(c) /\ ~Connect(c)
  BY ExclusiveClient DEF InSession
<1>2. InSession(c) /\ ~offScript'[c]
  BY <1>1, ClientFrame DEF InSession, BaseInv, process
<1>3. Session(c)
  BY <1>2 DEF SessionInv
<1>4. CASE ServerClosed(c) \/ Leave(c)
  <2>1. UNCHANGED <<thread, conn>> /\ \E from : Ends(c, from)
    BY <1>4 DEF ServerClosed, Leave, threads
  <2> QED BY <1>3, <2>1, SessionEnds
<1> QED
  BY <1>1, <1>2, <1>3, <1>4, SessionAsksFirst, SessionOfFile, SessionAnswered, SessionReadsList,
     SessionTyped, SessionTypedFile DEF ClientReads, Operator

LEMMA SessionStep == BaseInv /\ SessionInv /\ [Next]_vars => SessionInv'
<1> SUFFICES ASSUME BaseInv, SessionInv, [Next]_vars, NEW d \in Clients, InSession(d)'
             PROVE  Session(d)'
  BY DEF SessionInv
<1>0. CASE AcceptFails
  BY <1>0 DEF AcceptFails, InSession
<1>1. ASSUME NEW c \in Clients, ThreadStep(c) \/ ClientReads(c) \/ Operator(c)
      PROVE  Session(d)'
  <2>1. CASE d = c
    BY <1>1, <2>1, OwnThreadSession, OwnClientSession
  <2>2. CASE d # c
    BY <1>1, <2>2, SessionOfOthers
  <2> QED BY <2>1, <2>2
<1>2. CASE UNCHANGED vars
  <2>1. InSession(d)
    BY <1>2 DEF vars, process, threads, clients, InSession, Exclusive, Connection, Alone
  <2>2. Session(d)
    BY <2>1 DEF SessionInv
  <2> QED BY <1>2, <2>2, SessionFrame DEF vars, process, threads, clients
<1> QED BY <1>0, <1>1, <1>2 DEF Next

(* One command and one answer at a time: a client that is back at its      *)
(* prompt has read everything and shows the directory the server will look *)
(* in, whatever the other clients do, unless its number was closed by the  *)
(* second close of another thread (server.c:246, 265), it ran a file with  *)
(* commands whose answer is not one read, or listed a "done..." name.      *)
THEOREM ClientsInStep == Spec => []InStep
<1>1. BaseInv /\ SessionInv => InStep
  <2> SUFFICES ASSUME BaseInv, SessionInv, NEW c \in Clients,
                      client[c] = "prompt", ~offScript[c], server = "up", Connection(c) = c, Alone(c)
               PROVE  /\ toClient[c] = <<>> /\ toServer[c] = <<>>
                      /\ thread[c] \in {"loop", "read"}
                      /\ path[c] = dirPath[c]
    BY DEF InStep
  <2>1. fd[c] # 0
    BY DEF BaseInv, TypeOK, Quiet
  <2>2. Session(c)
    BY <2>1 DEF SessionInv, InSession, Exclusive
  <2> QED BY <2>2 DEF Session, Together
<1> QED BY <1>1, BaseInit, BaseStep, SessionInit, SessionStep, PTL DEF Spec

-----------------------------------------------------------------------------
(* What keeps the server up.                                               *)

(* Whether an absolute path exists does not depend on where the process is.*)
LEMMA AbsoluteExists ==
  ASSUME NEW p \in Seq(PathNames), Absolute(p)
  PROVE  Exists(p) <=> Directory(p)
<1>1. Len(<<"">>) = 1
  OBVIOUS
<1>2. Len(p) > 1
  BY DEF Absolute
<1>3. ~(1 > 1)
  OBVIOUS
<1>4. p # <<"">>
  BY <1>1, <1>2, <1>3, Zenon
<1> QED BY <1>4 DEF Exists, Resolve, Directory

LEMMA StartNames == BaseInv => startDir \in Seq(PathNames)
<1>1. \A S, T : S \subseteq T => \A s \in Seq(S) : s \in Seq(T)
  OBVIOUS
<1>2. STRING \subseteq PathNames
  BY Zenon DEF PathNames
<1> QED BY <1>1, <1>2, ServerAssumption, Zenon DEF BaseInv, Domains

LEMMA SoundStart ==
  ASSUME BaseInv
  PROVE  Sound <=> /\ server = "up" /\ ~mishap /\ infoFile /\ Directory(startDir)
                   /\ \A c \in Clients : ~offScript[c]
<1>1. startDir \in Seq(PathNames)
  BY StartNames
<1> QED BY <1>1, AbsoluteExists DEF Sound, Directory

(* What excuses the server's end does so from then on.                     *)
LEMMA ExcusesStay ==
  ASSUME BaseInv, NEW c \in Clients, ThreadStep(c) \/ ClientReads(c) \/ Operator(c)
  PROVE  /\ UNCHANGED <<infoFile, startDir>> /\ (mishap => mishap')
         /\ \A d \in Clients : offScript[d] => offScript'[d]
  BY ThreadFrame, ClientFrame DEF BaseInv, process

LEMMA SoundBefore ==
  ASSUME BaseInv, NEW c \in Clients, ThreadStep(c) \/ ClientReads(c) \/ Operator(c), Sound'
  PROVE  Sound
<1>1. /\ UNCHANGED <<infoFile, startDir>> /\ (mishap => mishap')
      /\ \A d \in Clients : offScript[d] => offScript'[d]
  BY ExcusesStay
<1>0. server = "up"
  BY ThreadFrame, ClientFrame DEF BaseInv, process, Sound
<1>2. Absolute(startDir)' /\ Exists(startDir)'
  BY DEF Sound
<1>3. Absolute(startDir)
  BY <1>1, <1>2 DEF Absolute
<1>4. Names(startDir) \in Dirs
  BY <1>1, <1>2, <1>3 DEF Exists, Resolve
<1>5. startDir \in Seq(PathNames)
  BY StartNames
<1> QED BY <1>0, <1>1, <1>3, <1>4, <1>5, SoundStart DEF Sound, Directory

(* What holds of a session while nothing has happened that excuses an end. *)
LEMMA LiveSession ==
  ASSUME BaseInv, SessionInv, LifeInv, Sound, NEW c \in Clients, thread[c] \in Live
  PROVE  /\ server = "up" /\ Exclusive(c) /\ Session(c) /\ client[c] # "gone"
         /\ Connection(c) = c /\ c # Free /\ Directory(dirPath[c])
<1>1. server = "up" /\ Exclusive(c) /\ client[c] # "gone" /\ Directory(dirPath[c])
  BY DEF LifeInv, Live, Sound
<1>2. InSession(c)
  BY <1>1 DEF InSession, Sound
<1> QED BY <1>1, <1>2, ServerAssumption DEF SessionInv, Exclusive

LEMMA LifeUp ==
  ASSUME BaseInv, SessionInv, LifeInv, Sound, NEW c \in Clients, ThreadStep(c)
  PROVE  server' = "up"
<1>1. server = "up"
  BY DEF Sound
<1>2. CASE Accept(c) \/ CloseAgain(c)
  BY <1>1, <1>2 DEF Accept, CloseAgain
<1>3. CASE ~Accept(c) /\ ~CloseAgain(c)
  <2>1. thread[c] \in Live
    BY <1>3 DEF ThreadStep, Greet, WaitMessage, ReadNothing, HandleSay, HandleCd, HandleList,
      SendEntry, SendDone, HandleQuit, Takes, GoThread, AtThread, Live
  <2>2. /\ Session(c) /\ client[c] # "gone" /\ Connection(c) = c /\ c # Free
        /\ Directory(dirPath[c]) /\ infoFile /\ ~mishap
    BY <2>1, LiveSession DEF Sound
  <2>3. ASSUME NEW units, Send(c, units) PROVE server' = "up"
    BY <1>1, <2>2, <2>3 DEF Send
  <2>4. CASE Greet(c)
    BY <2>2, <2>3, <2>4 DEF Greet, SendInfoAboutServer
  <2>5. CASE WaitMessage(c)
    BY <1>1, <2>2, <2>5 DEF WaitMessage
  <2>6. CASE ReadNothing(c)
    BY <2>2, <2>6 DEF ReadNothing, AtThread, Session
  <2>7. CASE HandleSay(c)
    <3>1. Takes(c, {"info", "echo", "bare"})
      BY <2>7 DEF HandleSay
    <3>2. ~Faulting(Head(toServer[c])) /\ conn[c] = c
      BY <2>2, <3>1, CommandTaken
    <3>3. Send(c, <<Text>>)
      BY <2>2, <2>7, <3>1, <3>2 DEF HandleSay, SendInfoAboutServer, Faulting, Takes
    <3> QED BY <2>3, <3>3
  <2>8. CASE HandleCd(c)
    <3>1. Takes(c, {"cd"})
      BY <2>8 DEF HandleCd
    <3>2. ~Faulting(Head(toServer[c])) /\ conn[c] = c
      BY <2>2, <3>1, CommandTaken
    <3>3. \E units : Send(c, units)
      BY <2>8, <3>2 DEF HandleCd, Faulting
    <3> QED BY <2>3, <3>3
  <2>9. CASE HandleList(c)
    <3>1. Exists(dirPath[c])
      BY <2>2, AbsoluteExists DEF Directory
    <3> QED BY <1>1, <2>9, <3>1 DEF HandleList
  <2>10. CASE SendEntry(c) \/ SendDone(c) \/ HandleQuit(c)
    BY <2>3, <2>10 DEF SendEntry, SendDone, HandleQuit
  <2> QED
    BY <1>3, <2>4, <2>5, <2>6, <2>7, <2>8, <2>9, <2>10 DEF ThreadStep
<1> QED BY <1>2, <1>3

LEMMA ExclusiveStays ==
  ASSUME NEW c \in Clients, Exclusive(c),
         fd' = fd, fds'[fd[c]] = fds[fd[c]],
         \A e \in Clients : thread[e] \in {"quit", "ended"} => thread'[e] \in {"quit", "ended"}
  PROVE  Exclusive(c)'
  BY DEF Exclusive, Connection, Alone

(* A thread that has taken "quit" does nothing else but the second close.  *)
LEMMA ThreadQuits ==
  ASSUME BaseInv, NEW c \in Clients, ThreadStep(c) \/ ClientReads(c) \/ Operator(c),
         NEW d \in Clients, thread[d] \in {"quit", "ended"}
  PROVE  thread'[d] \in {"quit", "ended"}
<1>1. CASE ThreadStep(c)
  <2>1. thread[c] \in {"quit", "ended"} => CloseAgain(c)
    BY <1>1 DEF ThreadStep, Accept, Greet, WaitMessage, ReadNothing, HandleSay, HandleCd,
      HandleList, SendEntry, SendDone, HandleQuit, Takes, GoThread, AtThread
  <2>2. CloseAgain(c) => thread'[c] = "ended"
    BY DEF CloseAgain, GoThread, BaseInv, TypeOK
  <2> QED BY <1>1, <2>1, <2>2, ThreadFrame DEF BaseInv
<1>2. CASE ClientReads(c) \/ Operator(c)
  <2>1. Connect(c) => thread[c] = "none"
    BY DEF Connect, GoClient, BaseInv, Quiet
  <2>2. CASE Connect(c)
    BY <1>2, <2>1, <2>2, ClientFrame DEF BaseInv
  <2>3. CASE ~Connect(c)
    BY <1>2, <2>3, ClientFrame DEF BaseInv
  <2> QED BY <2>2, <2>3
<1> QED BY <1>1, <1>2

(* A thread that serves a client keeps a number to itself.                 *)
LEMMA LifeExclusive ==
  ASSUME BaseInv, SessionInv, LifeInv, Sound, Sound', NEW c \in Clients,
         ThreadStep(c) \/ ClientReads(c) \/ Operator(c), NEW d \in Clients, thread'[d] \in Live
  PROVE  Exclusive(d)'
<1>1. \A e \in Clients : thread[e] \in {"quit", "ended"} => thread'[e] \in {"quit", "ended"}
  BY ThreadQuits
<1>2. \A e \in Clients : thread[e] \in Live => Exclusive(e)
  BY LiveSession
<1>3. \A e \in Clients : thread[e] \in Live \/ thread[e] \in {"none", "backlog", "quit", "ended"}
  BY DEF BaseInv, TypeOK, Live
<1>4. CASE Accept(c)
  <2>1. PICK n \in Fds :
           /\ fds[n] = Free /\ fds' = [fds EXCEPT ![n] = c]
           /\ fd[c] = 0 /\ fd' = [fd EXCEPT ![c] = n]
           /\ thread[c] = "backlog" /\ thread' = [thread EXCEPT ![c] = "info"]
           /\ UNCHANGED <<server, conn, mishap>>
    BY <1>4, AcceptNumber DEF BaseInv
  <2>2. \A e \in Clients : thread[e] \in Live => fd[e] # n
    BY <1>2, <2>1, ServerAssumption DEF Exclusive, Connection
  <2>3. \A e \in Clients : thread[e] \in {"none", "backlog"} => fd[e] # n
    BY FdsFacts DEF BaseInv, TypeOK
  <2>4. \A e \in Clients \ {c} : fd'[e] = fd[e] /\ thread'[e] = thread[e]
    BY <2>1 DEF BaseInv, TypeOK
  <2>5. fd'[c] = n /\ fds'[n] = c /\ n # 0
    BY <2>1, FdsFacts DEF BaseInv, TypeOK
  <2>6. CASE d = c
    BY <1>3, <2>2, <2>3, <2>4, <2>5, <2>6 DEF Exclusive, Connection, Alone
  <2>7. CASE d # c
    <3>1. thread[d] \in Live /\ Exclusive(d) /\ fd[d] # n
      BY <1>2, <2>2, <2>4, <2>7
    <3>2. fds'[fd[d]] = d
      BY <2>1, <3>1 DEF Exclusive, Connection, BaseInv, TypeOK
    <3> QED BY <2>4, <2>5, <2>7, <3>1, <3>2 DEF Exclusive, Connection, Alone
  <2> QED BY <2>6, <2>7
<1>5. CASE HandleQuit(c)
  <2>1. /\ thread[c] \in Live /\ thread'[c] = "quit" /\ fd' = fd
        /\ fds' = [fds EXCEPT ![fd[c]] = Free]
    BY <1>5 DEF HandleQuit, GoThread, AtThread, Live, BaseInv, TypeOK
  <2>2. d # c /\ thread[d] \in Live
    BY <1>5, <2>1, ThreadFrame DEF Live, BaseInv, ThreadStep
  <2>3. Exclusive(d) /\ fd[d] # fd[c]
    BY <1>2, <2>1, <2>2 DEF Exclusive, Alone, Live
  <2>4. fds'[fd[d]] = fds[fd[d]]
    BY <2>1, <2>3 DEF Exclusive, BaseInv, TypeOK
  <2> QED BY <1>1, <2>1, <2>3, <2>4, ExclusiveStays
<1>6. CASE ~Accept(c) /\ ~HandleQuit(c)
  <2>1. thread[d] \in Live
    <3>1. CASE ThreadStep(c)
      <4>1. thread[c] \in Live \/ thread'[c] = "ended"
        BY <1>6, <3>1 DEF ThreadStep, Greet, WaitMessage, ReadNothing, HandleSay, HandleCd,
          HandleList, SendEntry, SendDone, CloseAgain, Takes, GoThread, AtThread, Live,
          BaseInv, TypeOK
      <4>2. \A e \in Clients \ {c} : thread'[e] = thread[e]
        BY <3>1, ThreadFrame DEF BaseInv
      <4> QED BY <4>1, <4>2 DEF Live
    <3>2. CASE ClientReads(c) \/ Operator(c)
      <4>1. Connect(c) => thread' = thread \/ thread' = [thread EXCEPT ![c] = "backlog"]
        BY DEF Connect
      <4> QED BY <3>2, <4>1, ClientFrame DEF Live, BaseInv, TypeOK
    <3> QED BY <3>1, <3>2
  <2>2. Exclusive(d)
    BY <1>2, <2>1
  <2>3. fd' = fd /\ fds' = fds
    <3>1. CASE CloseAgain(c)
      <4>1. fds[fd[c]] = Free /\ fds' = [fds EXCEPT ![fd[c]] = Free] /\ fd' = fd
        BY <3>1 DEF CloseAgain, Sound, Connection
      <4>2. fds' = fds
        BY <4>1 DEF BaseInv, TypeOK
      <4> QED BY <4>1, <4>2
    <3>2. CASE ThreadStep(c) /\ ~CloseAgain(c)
      BY <1>6, <3>2 DEF ThreadStep, Greet, WaitMessage, ReadNothing, HandleSay, HandleCd,
        HandleList, SendEntry, SendDone, threads
    <3>3. CASE ClientReads(c) \/ Operator(c)
      BY <3>3, ClientFrame DEF process, BaseInv
    <3> QED BY <3>1, <3>2, <3>3
  <2> QED BY <1>1, <2>2, <2>3, ExclusiveStays
<1> QED BY <1>4, <1>5, <1>6

(* No client ends before the server has read its "quit".                   *)
LEMMA LifeGone ==
  ASSUME BaseInv, SessionInv, LifeInv, Sound, Sound', NEW c \in Clients,
         ThreadStep(c) \/ ClientReads(c) \/ Operator(c), NEW d \in Clients, client'[d] = "gone"
  PROVE  thread'[d] \in {"quit", "ended"}
<1>1. client[d] = "gone" => thread[d] \in {"quit", "ended"}
  BY DEF LifeInv
<1>2. CASE client[d] = "gone"
  BY <1>1, <1>2, ThreadQuits
<1>3. CASE client[d] # "gone"
  <2>1. d = c /\ (ClientReads(c) \/ Operator(c))
    BY <1>3, ThreadFrame, ClientFrame DEF BaseInv
  <2>2. client' # client /\ server = "up" /\ ~mishap'
    BY <1>3 DEF Sound
  <2>3. thread[c] \in Live \/ thread[c] \in {"none", "backlog", "quit", "ended"}
    BY DEF BaseInv, TypeOK, Live
  <2>4. ~Connect(c)
    BY <2>1, <2>2 DEF Connect, GoClient, BaseInv, TypeOK
  <2>5. ~Leave(c) /\ ~Type(c)
    <3>1. \A op : AnswerTo(op) # "gone"
      BY DEF AnswerTo
    <3> QED BY <2>1, <2>2, <3>1 DEF Leave, Type, GoClient, BaseInv, TypeOK
  <2>6. (ReadAnswer(c) /\ client[c] = "byeAnswer" /\ toClient[c] # <<>>) \/ ServerClosed(c)
    BY <2>1, <2>2, <2>4, <2>5 DEF ClientReads, Operator, Greeted, ReadInFile, ReadAnswer, ReadCd,
      ReadList, TypeFile, GoClient, Ends, BaseInv, TypeOK
  <2>7. thread[c] \in {"quit", "ended"}
    <3>1. CASE client[c] = "byeAnswer" /\ toClient[c] # <<>>
      <4>1. thread[c] \notin {"none", "backlog"}
        BY <3>1 DEF BaseInv, Quiet
      <4>2. ASSUME thread[c] \in Live PROVE FALSE
        BY <3>1, <4>2, LiveSession DEF Session, Together, Asked
      <4> QED BY <2>3, <4>1, <4>2
    <3>2. CASE ServerClosed(c)
      <4>1. Closed(c)
        BY <3>2 DEF ServerClosed
      <4>2. thread[c] \notin {"none", "backlog"} /\ \A n \in Fds : fds[n] # c
        BY <2>2, <4>1 DEF Closed
      <4>3. ASSUME thread[c] \in Live PROVE FALSE
        BY <4>2, <4>3, LiveSession DEF Exclusive, Connection, BaseInv, TypeOK
      <4> QED BY <2>3, <4>2, <4>3
    <3> QED BY <2>6, <3>1, <3>2
  <2> QED BY <2>1, <2>7, ThreadQuits
<1> QED BY <1>2, <1>3

LEMMA CutAndAppend ==
  ASSUME NEW S, NEW s \in Seq(S), Len(s) > 1, NEW x \in S
  PROVE  /\ SubSeq(s, 1, Len(s) - 1) \in Seq(S)
         /\ Len(SubSeq(s, 1, Len(s) - 1)) = Len(s) - 1
         /\ SubSeq(s, 1, Len(s) - 1)[1] = s[1]
         /\ Append(s, x) \in Seq(S) /\ Len(Append(s, x)) > 1 /\ Append(s, x)[1] = s[1]
<1>1. SubSeq(s, 1, Len(s) - 1) \in Seq(S)
  OBVIOUS
<1>2. Len(SubSeq(s, 1, Len(s) - 1)) = Len(s) - 1
  OBVIOUS
<1>3. SubSeq(s, 1, Len(s) - 1)[1] = s[1]
  OBVIOUS
<1>4. Append(s, x) \in Seq(S) /\ Len(Append(s, x)) > 1
  OBVIOUS
<1>5. Append(s, x)[1] = s[1]
  OBVIOUS
<1> QED BY <1>1, <1>2, <1>3, <1>4, <1>5

LEMMA OnlyElement ==
  ASSUME NEW S, NEW s \in Seq(S), Len(s) = 1
  PROVE  s = <<s[1]>>
  OBVIOUS

(* changeDirectory leaves the absolute path of a directory behind.         *)
LEMMA TempPathDirectory ==
  ASSUME NEW p, Directory(p), NEW name \in PathNames, Exists(TempPath(p, name))
  PROVE  Directory(TempPath(p, name))
<1>1. p \in Seq(PathNames)
  BY Zenon DEF Directory
<1>2. Len(p) > 1
  BY Zenon DEF Directory, Absolute
<1>3. p[1] = ""
  BY Zenon DEF Directory, Absolute
<1>4. CASE name = ".."
  <2> DEFINE q == SubSeq(p, 1, Len(p) - 1)
  <2>1. TempPath(p, name) = q
    BY <1>2, <1>4, Zenon DEF TempPath
  <2>2. q \in Seq(PathNames) /\ Len(q) = Len(p) - 1 /\ q[1] = ""
    BY <1>1, <1>2, <1>3, CutAndAppend, Zenon
  <2>3. Exists(q)
    BY <2>1, Zenon
  <2> HIDE DEF q
  <2>4. Len(q) # 1
    BY <2>2, <2>3, OnlyElement, Zenon DEF Exists
  <2>5. Len(q) > 1
    <3>1. Len(p) \in Nat
      BY <1>1
    <3>2. \A m, n : m \in Nat /\ m > 1 /\ n = m - 1 /\ n # 1 => n > 1
      OBVIOUS
    <3> QED BY <1>2, <2>2, <2>4, <3>1, <3>2, Zenon
  <2> QED BY <2>1, <2>2, <2>3, <2>5, AbsoluteExists, Zenon DEF Absolute
<1>5. CASE name = "."
  <2>1. TempPath(p, name) = p
    BY <1>5, Zenon DEF TempPath
  <2> QED BY <2>1, Zenon
<1>6. CASE name \notin {"..", "."}
  <2> DEFINE q == Append(p, name)
  <2>1. TempPath(p, name) = q
    BY <1>6, Zenon DEF TempPath
  <2>2. q \in Seq(PathNames) /\ Len(q) > 1 /\ q[1] = ""
    BY <1>1, <1>2, <1>3, CutAndAppend, Zenon
  <2> HIDE DEF q
  <2> QED BY <2>1, <2>2, AbsoluteExists, Zenon DEF Absolute
<1> QED BY <1>4, <1>5, <1>6, Zenon

LEMMA CommandNames ==
  ASSUME NEW command \in Commands \cup {Command("cd", "")}
  PROVE  command.name \in PathNames
<1>1. \A op, name : Command(op, name).name = name
  BY Zenon DEF Command
<1>2. \/ command = Command("cd", "")
      \/ \E name \in CdNames : command = Command("cd", name)
      \/ \E op \in {"info", "echo", "bare", "list", "quit"} : command = Command(op, "")
  BY Zenon DEF Commands
<1>3. CdNames \subseteq PathNames /\ "" \in PathNames
  BY DEF PathNames
<1> QED BY <1>1, <1>2, <1>3, Zenon

LEMMA LifeDirectory ==
  ASSUME BaseInv, SessionInv, LifeInv, Sound, NEW c \in Clients,
         ThreadStep(c) \/ ClientReads(c) \/ Operator(c),
         NEW d \in Clients, thread'[d] \notin {"none", "backlog"}
  PROVE  Directory(dirPath'[d])
<1>1. thread[d] \notin {"none", "backlog"} => Directory(dirPath[d])
  BY DEF LifeInv
<1>2. CASE ThreadStep(c) /\ d = c
  <2>1. CASE Accept(c)
    <3>1. dirPath'[c] = startDir
      BY <2>1 DEF Accept, BaseInv, Domains
    <3> QED BY <1>2, <3>1, SoundStart
  <2>2. CASE ~Accept(c)
    <3>1. thread[c] \notin {"none", "backlog"}
      BY <1>2, <2>2 DEF ThreadStep, Greet, WaitMessage, ReadNothing, HandleSay, HandleCd,
        HandleList, SendEntry, SendDone, HandleQuit, CloseAgain, Takes, GoThread, AtThread
    <3>2. CASE HandleCd(c)
      <4>1. Takes(c, {"cd"}) /\ thread[c] \in Live
        BY <3>2 DEF HandleCd, Takes, AtThread, Live
      <4>2. Session(c) /\ client[c] # "gone" /\ ~mishap
        BY <4>1, LiveSession DEF Sound
      <4>3. ~Faulting(Head(toServer[c])) /\ conn[c] = c
        BY <4>1, <4>2, CommandTaken
      <4>4. Head(toServer[c]).name \in PathNames
        BY <4>1, <4>2, CommandKnown, CommandNames
      <4> DEFINE new == TempPath(dirPath[c], Head(toServer[c]).name)
      <4>5. dirPath'[c] = IF Exists(new) THEN new ELSE dirPath[c]
        BY <3>2, <4>3 DEF HandleCd, Faulting, BaseInv, Domains
      <4> HIDE DEF new
      <4>6. Exists(new) => Directory(new)
        BY <1>1, <1>2, <3>1, <4>4, TempPathDirectory DEF new
      <4> QED BY <1>1, <1>2, <3>1, <4>5, <4>6
    <3>3. CASE ~HandleCd(c)
      <4>1. dirPath' = dirPath
        BY <1>2, <2>2, <3>3 DEF ThreadStep, Greet, WaitMessage, ReadNothing, HandleSay,
          HandleList, SendEntry, SendDone, HandleQuit, CloseAgain, threads
      <4> QED BY <1>1, <1>2, <3>1, <4>1
    <3> QED BY <3>2, <3>3
  <2> QED BY <2>1, <2>2
<1>3. CASE ThreadStep(c) /\ d # c
  BY <1>1, <1>3, ThreadFrame DEF BaseInv
<1>4. CASE ClientReads(c) \/ Operator(c)
  <2>1. thread'[d] = thread[d] /\ dirPath' = dirPath
    <3>1. Connect(c) => thread' = thread \/ thread' = [thread EXCEPT ![c] = "backlog"]
      BY DEF Connect
    <3> QED BY <1>4, <3>1, ClientFrame DEF BaseInv, TypeOK
  <2> QED BY <1>1, <2>1
<1> QED BY <1>2, <1>3, <1>4

LEMMA LifeInit == Init => LifeInv
  BY DEF Init, LifeInv, Live

LEMMA LifeStep == BaseInv /\ SessionInv /\ LifeInv /\ [Next]_vars => LifeInv'
<1> SUFFICES ASSUME BaseInv, SessionInv, LifeInv, [Next]_vars PROVE LifeInv'
  OBVIOUS
<1>1. ASSUME NEW c \in Clients, ThreadStep(c) \/ ClientReads(c) \/ Operator(c), Sound'
      PROVE  \A d \in Clients :
               /\ thread'[d] \in Live => Exclusive(d)'
               /\ client'[d] = "gone" => thread'[d] \in {"quit", "ended"}
               /\ thread'[d] \notin {"none", "backlog"} => Directory(dirPath'[d])
  <2>1. Sound
    BY <1>1, SoundBefore
  <2> QED BY <1>1, <2>1, LifeExclusive, LifeGone, LifeDirectory
<1>2. ASSUME NEW c \in Clients, ThreadStep(c) \/ ClientReads(c) \/ Operator(c)
      PROVE  LifeInv'
  <2>1. Live' = Live /\ \A d \in Clients : Directory(dirPath[d])' <=> Directory(dirPath'[d])
    BY DEF Live, Directory, Absolute
  <2> QED BY <1>1, <1>2, <2>1 DEF LifeInv
<1>3. CASE UNCHANGED vars
  <2>1. UNCHANGED <<server, cwd, startDir, infoFile, fds, thread, fd, dirPath, client, offScript,
                    mishap>>
    BY <1>3 DEF vars, process, threads, clients
  <2>2. Sound' => Sound
    BY <2>1 DEF Sound, Exists, Resolve, Absolute
  <2>3. \A d \in Clients : Exclusive(d) => Exclusive(d)'
    BY <2>1 DEF Exclusive, Connection, Alone
  <2>4. Live' = Live /\ \A d \in Clients : Directory(dirPath[d])' <=> Directory(dirPath[d])
    BY <2>1 DEF Live, Directory, Absolute
  <2> QED BY <2>1, <2>2, <2>3, <2>4 DEF LifeInv
<1>4. CASE AcceptFails
  BY <1>4 DEF AcceptFails, LifeInv, Sound
<1> QED BY <1>2, <1>3, <1>4 DEF Next

(* A step that ends the server while nothing excuses it is a failure of    *)
(* accept or pthread_create.                                               *)
LEMMA StaysUpStep ==
  ASSUME BaseInv, SessionInv, LifeInv, [Next]_vars, server = "up", server' = "ended",
         ~mishap', infoFile, Absolute(startDir), Exists(startDir),
         \A c \in Clients : ~offScript'[c]
  PROVE  AcceptFails
<1>1. ASSUME NEW c \in Clients, ThreadStep(c) \/ ClientReads(c) \/ Operator(c) PROVE FALSE
  <2>1. Sound
    BY <1>1, ExcusesStay DEF Sound
  <2>2. CASE ThreadStep(c)
    BY <2>1, <2>2, LifeUp
  <2>3. CASE ClientReads(c) \/ Operator(c)
    BY <2>3, ClientFrame DEF process, BaseInv
  <2> QED BY <1>1, <2>2, <2>3
<1>2. ~UNCHANGED vars
  BY DEF vars, process
<1> QED BY <1>1, <1>2 DEF Next

(* Started with the absolute path of a directory and with its info.txt,    *)
(* the server is ended by no client that quits, whatever the others do:    *)
(* only by a failure of accept or pthread_create, by a client that leaves  *)
(* otherwise or loses step with it, by a command that faults, or by a      *)
(* second close of a number that is in use again.                          *)
THEOREM QuitsDoNotEndTheServer == Spec => ServerStaysUp
<1>1. BaseInv /\ SessionInv /\ LifeInv /\ [Next]_vars =>
        [server = "up" /\ server' = "ended" =>
           \/ AcceptFails
           \/ mishap' \/ ~infoFile \/ ~(Absolute(startDir) /\ Exists(startDir))
           \/ \E c \in Clients : offScript'[c]]_vars
  BY StaysUpStep
<1> QED
  BY <1>1, BaseInit, BaseStep, SessionInit, SessionStep, LifeInit, LifeStep, PTL
  DEF Spec, ServerStaysUp
=============================================================================
