----------------------------- MODULE FileServer -----------------------------
(***************************************************************************)
(* Lab8: server.c, one thread for each connection of one process, and the  *)
(* client.c processes that talk to it.  What the threads share is what a   *)
(* process has once: its working directory, its descriptor numbers, and    *)
(* its end.  A message of 100 bytes is one unit of the stream; an entry of *)
(* a directory (1024 bytes) is two: what a read of 100 bytes takes of it   *)
(* and the rest.  A send puts its bytes into the stream at once.           *)
(***************************************************************************)
EXTENDS Integers, Sequences, FiniteSetsExt, Functions

CONSTANTS
  Clients,
  Free,          (* a descriptor number that is not in use                 *)
  Dirs,          (* the directories, as sequences of names from the root   *)
  DoneNamed,     (* those that hold a file whose name starts with "done"   *)
  StartDirs,     (* the paths that the server may be started with          *)
  Scripts,       (* the contents of the files that a client may send       *)
  MaxCommands    (* bound: how many commands the operators type           *)

ASSUME ServerAssumption ==
  /\ IsFiniteSet(Clients) /\ Free \notin Clients
  /\ <<>> \in Dirs /\ DoneNamed \subseteq Dirs /\ StartDirs \subseteq Seq(STRING)
  /\ MaxCommands \in Nat

VARIABLES
  server, cwd,          (* the process, and its working directory          *)
  startDir, infoFile,   (* its argument; whether it can open info.txt      *)
  fds,                  (* the connection behind each descriptor number    *)
  thread, fd, conn,     (* each thread: where it is, its number, and the   *)
                        (* connection that its read waits on               *)
  dirPath, listing,     (* its directory; the entries it has yet to send   *)
  toServer, toClient,   (* the two directions of each connection           *)
  client, path, script, (* each client: where it is, its prompt, and the   *)
                        (* lines of a file that it has yet to send         *)
  typed,                (* how many commands operators have given          *)
  offScript,            (* whether it was told to do what its answers are  *)
                        (* not made for                                    *)
  mishap                (* whether a client left without quit, a command   *)
                        (* faulted, or a number in use was closed          *)

process == <<server, cwd, startDir, infoFile, fds>>
threads == <<thread, fd, conn, dirPath, listing>>
clients == <<client, path, script, typed, offScript>>
vars    == <<process, threads, toServer, toClient, clients, mishap>>

Fds == 1 .. Cardinality(Clients)

(* A path is the sequence of what its slashes separate: "/r/" is           *)
(* <<"", "r", "">>, and "" is <<"">>.                                      *)
Names(p)    == SelectSeq(p, LAMBDA name : name # "")
Absolute(p) == Len(p) > 1 /\ p[1] = ""
Resolve(p)  == IF Absolute(p) THEN Names(p) ELSE cwd \o Names(p)
Exists(p)   == p # <<"">> /\ Resolve(p) \in Dirs

Command(op, name) == [op |-> op, name |-> name]
CdNames  == {"a", "nowhere", "..", ".", "/"}
Commands == {Command("cd", name) : name \in CdNames}
            \cup {Command(op, "") : op \in {"info", "echo", "bare", "list", "quit"}}

(* A file with no line sends nothing, and is left out.                     *)
ASSUME ScriptsAssumption == Scripts \subseteq Seq(Commands) \ {<<>>}

(* Units of the stream to a client.                                        *)
Unit(kind, p) == [kind |-> kind, path |-> p]
Text == Unit("text", <<>>)
Rest == Unit("rest", <<>>)
Done == Unit("done", <<>>)

Init ==
  /\ server = "up" /\ cwd = <<>>
  /\ startDir \in StartDirs /\ infoFile \in BOOLEAN
  /\ fds = [n \in Fds |-> Free]
  /\ thread = [c \in Clients |-> "none"]
  /\ fd = [c \in Clients |-> 0] /\ conn = [c \in Clients |-> c]
  /\ dirPath = [c \in Clients |-> <<>>] /\ listing = [c \in Clients |-> <<>>]
  /\ toServer = [c \in Clients |-> <<>>] /\ toClient = [c \in Clients |-> <<>>]
  /\ client = [c \in Clients |-> "off"] /\ path = [c \in Clients |-> <<>>]
  /\ script = [c \in Clients |-> <<>>] /\ typed = 0
  /\ offScript = [c \in Clients |-> FALSE] /\ mishap = FALSE

-----------------------------------------------------------------------------
(* The server.                                                             *)
AtThread(c, from) == server = "up" /\ thread[c] = from
GoThread(c, from, to) == AtThread(c, from) /\ thread' = [thread EXCEPT ![c] = to]

(* accept takes the lowest free number.                                    *)
Accept(c) ==
  /\ GoThread(c, "backlog", "info")
  /\ LET n == Min({m \in Fds : fds[m] = Free})
     IN  fds' = [fds EXCEPT ![n] = c] /\ fd' = [fd EXCEPT ![c] = n]
  /\ dirPath' = [dirPath EXCEPT ![c] = startDir]
  /\ UNCHANGED <<server, cwd, startDir, infoFile, conn, listing, toServer, toClient, clients, mishap>>

(* accept fails, with a client waiting or not (for want of a descriptor,   *)
(* say), or pthread_create does: exit(1) ends the threads of all clients,  *)
(* and what the process kept goes with it.                                 *)
AcceptFails ==
  /\ server = "up" /\ server' = "ended" /\ cwd' = <<>>
  /\ fds' = [n \in Fds |-> Free] /\ conn' = [c \in Clients |-> c]
  /\ thread' = [c \in Clients |-> IF thread[c] \in {"none", "backlog"} THEN thread[c] ELSE "ended"]
  /\ dirPath' = [c \in Clients |-> <<>>] /\ listing' = [c \in Clients |-> <<>>]
  /\ toServer' = [c \in Clients |-> <<>>]
  /\ UNCHANGED <<startDir, infoFile, fd, toClient, clients, mishap>>

Connection(c) == fds[fd[c]]

(* send: a descriptor that is closed ends the process, a peer that is gone *)
(* may do so (SIGPIPE).                                                    *)
Send(c, units) ==
  \/ /\ Connection(c) \in Clients /\ client[Connection(c)] # "gone"
     /\ toClient' = [toClient EXCEPT ![Connection(c)] = @ \o units] /\ UNCHANGED server
  \/ /\ Connection(c) \in Clients /\ client[Connection(c)] = "gone"
     /\ server' \in {"up", "ended"} /\ UNCHANGED toClient
  \/ Connection(c) = Free /\ server' = "ended" /\ UNCHANGED toClient

(* A fault in one thread ends the process: sendMessage of a literal, to    *)
(* which it appends the time, or a copy of the length -1.                  *)
Fault == server' = "ended" /\ UNCHANGED toClient

(* Seeded fault of SendInfoAboutServer: it returns and sends nothing.       *)
SendInfoOrNothing(c) == IF infoFile THEN Send(c, <<Text>>) ELSE UNCHANGED <<server, toClient>>

SendInfoAboutServer(c) == IF infoFile THEN Send(c, <<Text>>) ELSE Fault

Greet(c) ==
  /\ GoThread(c, "info", "loop")
  /\ SendInfoAboutServer(c)
  /\ UNCHANGED <<cwd, startDir, infoFile, fds, fd, conn, dirPath, listing, toServer, clients, mishap>>

(* waitMessage: the read, which keeps the connection it began with ...     *)
WaitMessage(c) ==
  /\ GoThread(c, "loop", "read")
  /\ IF Connection(c) = Free
     THEN server' = "ended" /\ UNCHANGED conn
     ELSE conn' = [conn EXCEPT ![c] = Connection(c)] /\ UNCHANGED server
  /\ UNCHANGED <<cwd, startDir, infoFile, fds, fd, dirPath, listing, toServer, toClient, clients, mishap>>

(* ... and returns nothing when the client is gone, which ends the process.*)
ReadNothing(c) ==
  /\ AtThread(c, "read") /\ toServer[conn[c]] = <<>> /\ client[conn[c]] = "gone"
  /\ server' = "ended"
  /\ UNCHANGED <<cwd, startDir, infoFile, fds, threads, toServer, toClient, clients, mishap>>

(* The read returns a command, which parseCommand tells from the others.   *)
Takes(c, ops) ==
  /\ AtThread(c, "read") /\ toServer[conn[c]] # <<>>
  /\ Head(toServer[conn[c]]).op \in ops
  /\ toServer' = [toServer EXCEPT ![conn[c]] = Tail(@)]

HandleSay(c) ==
  /\ Takes(c, {"info", "echo", "bare"}) /\ GoThread(c, "read", "loop")
  /\ CASE Head(toServer[conn[c]]).op = "info" -> SendInfoAboutServer(c)
       [] Head(toServer[conn[c]]).op = "echo" -> Send(c, <<Text>>)
       [] Head(toServer[conn[c]]).op = "bare" -> Fault
  /\ UNCHANGED <<cwd, startDir, infoFile, fds, fd, conn, dirPath, listing, clients, mishap>>

(* tempPath of changeDirectory: ".." cuts the path at its last slash.      *)
TempPath(p, name) ==
  CASE name = ".." -> IF Len(p) > 1 THEN SubSeq(p, 1, Len(p) - 1) ELSE p
    [] name = "."  -> p
    [] OTHER       -> Append(p, name)

(* Seeded fault of HandleCd: dirPath takes the new path in any case.       *)
HandleCdAnyway(c) ==
  /\ Takes(c, {"cd"}) /\ GoThread(c, "read", "loop")
  /\ LET new == TempPath(dirPath[c], Head(toServer[conn[c]]).name)
     IN  /\ dirPath' = [dirPath EXCEPT ![c] = new]
         /\ cwd' = IF Exists(new) THEN Resolve(new) ELSE cwd
         /\ Send(c, <<Unit("cd", new)>>)
  /\ UNCHANGED <<startDir, infoFile, fds, fd, conn, listing, clients, mishap>>

(* chdir moves the whole process; both outcomes have the same answer.      *)
HandleCd(c) ==
  /\ Takes(c, {"cd"}) /\ GoThread(c, "read", "loop")
  /\ LET name == Head(toServer[conn[c]]).name
         new  == TempPath(dirPath[c], name)
         to   == IF Exists(new) THEN new ELSE dirPath[c]
     IN  IF name = "/" THEN Fault /\ UNCHANGED <<cwd, dirPath>>
         ELSE /\ dirPath' = [dirPath EXCEPT ![c] = to]
              /\ cwd' = IF Exists(new) THEN Resolve(new) ELSE cwd
              /\ Send(c, <<Unit("cd", to)>>)
  /\ UNCHANGED <<startDir, infoFile, fds, fd, conn, listing, clients, mishap>>

(* sendDirectoryListing; two entries stand for any number of them.         *)
Listings(d) ==
  IF d \in DoneNamed THEN {<<"entry", "done">>, <<"done", "entry">>} ELSE {<<"entry", "entry">>}

HandleList(c) ==
  /\ Takes(c, {"list"}) /\ GoThread(c, "read", "list")
  /\ IF Exists(dirPath[c])
     THEN /\ \E l \in Listings(Resolve(dirPath[c])) : listing' = [listing EXCEPT ![c] = l]
          /\ offScript' = [offScript EXCEPT ![conn[c]] = @ \/ Resolve(dirPath[c]) \in DoneNamed]
          /\ UNCHANGED <<server, toClient>>
     ELSE Fault /\ UNCHANGED <<listing, offScript>>
  /\ UNCHANGED <<cwd, startDir, infoFile, fds, fd, conn, dirPath, client, path, script, typed, mishap>>

SendEntry(c) ==
  /\ AtThread(c, "list") /\ listing[c] # <<>>
  /\ listing' = [listing EXCEPT ![c] = Tail(@)]
  /\ Send(c, <<Unit(Head(listing[c]), <<>>), Rest>>)
  /\ UNCHANGED <<cwd, startDir, infoFile, fds, thread, fd, conn, dirPath, toServer, clients, mishap>>

SendDone(c) ==
  /\ GoThread(c, "list", "loop") /\ listing[c] = <<>>
  /\ Send(c, <<Done>>)
  /\ UNCHANGED <<cwd, startDir, infoFile, fds, fd, conn, dirPath, listing, toServer, clients, mishap>>

(* "BYE" and the first close ...                                           *)
HandleQuit(c) ==
  /\ Takes(c, {"quit"}) /\ GoThread(c, "read", "quit")
  /\ Send(c, <<Text>>)
  /\ fds' = [fds EXCEPT ![fd[c]] = Free]
  /\ UNCHANGED <<cwd, startDir, infoFile, fd, conn, dirPath, listing, clients, mishap>>

(* ... and the second one, of a number that may be in use again.           *)
CloseAgain(c) ==
  /\ GoThread(c, "quit", "ended")
  /\ fds' = [fds EXCEPT ![fd[c]] = Free]
  /\ mishap' = (mishap \/ Connection(c) # Free)
  /\ UNCHANGED <<server, cwd, startDir, infoFile, fd, conn, dirPath, listing, toServer, toClient, clients>>

-----------------------------------------------------------------------------
(* The clients.                                                            *)
GoClient(c, from, to) == client[c] \in from /\ client' = [client EXCEPT ![c] = to]
Waiting == {"greeting", "answer", "cdAnswer", "listAnswer", "fileAnswer", "byeAnswer"}

(* A client ends, and what it kept and was sent goes with it.              *)
Ends(c, from) ==
  /\ GoClient(c, from, "gone")
  /\ toClient' = [toClient EXCEPT ![c] = <<>>]
  /\ path' = [path EXCEPT ![c] = <<>>] /\ script' = [script EXCEPT ![c] = <<>>]

(* Nothing of the server refers to the connection any more.                *)
Closed(c) ==
  \/ server = "ended"
  \/ /\ thread[c] \notin {"none", "backlog"}
     /\ \A n \in Fds : fds[n] # c
     /\ \A d \in Clients : ~(thread[d] = "read" /\ conn[d] = c)

Connect(c) ==
  /\ \/ /\ server = "up" /\ GoClient(c, {"off"}, "greeting")
        /\ thread' = [thread EXCEPT ![c] = "backlog"]
     \/ server = "ended" /\ GoClient(c, {"off"}, "gone") /\ UNCHANGED thread
  /\ UNCHANGED <<process, fd, conn, dirPath, listing, toServer, toClient,
                 path, script, typed, offScript, mishap>>

SendCommandToServer(c, command) ==
  toServer' = IF Closed(c) THEN toServer ELSE [toServer EXCEPT ![c] = Append(@, command)]

(* A read of 100 bytes.                                                    *)
Reads(c) == toClient[c] # <<>> /\ toClient' = [toClient EXCEPT ![c] = Tail(@)]

(* The greeting, and the first command: sendCommandToServer takes the last *)
(* character of "cd ." for the end of a line.                              *)
Greeted(c) ==
  /\ GoClient(c, {"greeting"}, "cdAnswer") /\ Reads(c)
  /\ SendCommandToServer(c, Command("cd", ""))
  /\ UNCHANGED <<process, threads, path, script, typed, offScript, mishap>>

AnswerTo(op) ==
  CASE op = "cd" -> "cdAnswer" [] op = "list" -> "listAnswer" [] op = "quit" -> "byeAnswer"
    [] OTHER -> "answer"

Faulting(command) == command.op = "bare" \/ command.name = "/"

(* A command is typed.                                                     *)
Type(c) ==
  /\ typed < MaxCommands /\ typed' = typed + 1
  /\ \E command \in Commands :
       /\ GoClient(c, {"prompt"}, AnswerTo(command.op))
       /\ SendCommandToServer(c, command)
       /\ mishap' = (mishap \/ Faulting(command))
  /\ UNCHANGED <<process, threads, toClient, path, script, offScript>>

(* "@file": each line waits for one answer of 100 bytes.                   *)
TypeFile(c) ==
  /\ typed < MaxCommands /\ typed' = typed + 1
  /\ GoClient(c, {"prompt"}, "fileAnswer")
  /\ \E s \in Scripts :
       /\ SendCommandToServer(c, Head(s))
       /\ script' = [script EXCEPT ![c] = Tail(s)]
       /\ offScript' = [offScript EXCEPT ![c] = @ \/ \E command \in Range(s) : command.op \in {"cd", "list"}]
       /\ mishap' = (mishap \/ \E command \in Range(s) : Faulting(command))
  /\ UNCHANGED <<process, threads, toClient, path>>

(* Seeded fault of ReadInFile: what follows the first line is not sent.    *)
ReadInFileOnce(c) ==
  /\ GoClient(c, {"fileAnswer"}, "prompt") /\ Reads(c)
  /\ UNCHANGED <<process, threads, toServer, path, script, typed, offScript, mishap>>

ReadInFile(c) ==
  /\ client[c] = "fileAnswer" /\ Reads(c)
  /\ IF script[c] = <<>>
     THEN GoClient(c, {"fileAnswer"}, "prompt") /\ UNCHANGED <<toServer, script>>
     ELSE /\ SendCommandToServer(c, Head(script[c]))
          /\ script' = [script EXCEPT ![c] = Tail(@)] /\ UNCHANGED client
  /\ UNCHANGED <<process, threads, path, typed, offScript, mishap>>

ReadAnswer(c) ==
  /\ \/ GoClient(c, {"answer"}, "prompt") /\ Reads(c) /\ UNCHANGED <<path, script>>
     \/ toClient[c] # <<>> /\ Ends(c, {"byeAnswer"})
  /\ UNCHANGED <<process, threads, toServer, typed, offScript, mishap>>

(* Any other text than the answer of a cd makes nonsense of the prompt, or *)
(* a negative length.                                                      *)
ReadCd(c) ==
  /\ \/ /\ GoClient(c, {"cdAnswer"}, "prompt") /\ Reads(c)
        /\ path' = [path EXCEPT ![c] = Head(toClient[c]).path]
        /\ UNCHANGED <<script, mishap>>
     \/ /\ toClient[c] # <<>> /\ Head(toClient[c]).kind # "cd"
        /\ Ends(c, {"cdAnswer"}) /\ mishap' = TRUE
  /\ UNCHANGED <<process, threads, toServer, typed, offScript>>

(* Seeded fault of ReadList: the list ends with any answer.                *)
ReadListOnce(c) ==
  /\ GoClient(c, {"listAnswer"}, "prompt") /\ Reads(c)
  /\ UNCHANGED <<process, threads, toServer, path, script, typed, offScript, mishap>>

(* A read of 1024 bytes takes a whole entry; "done" ends the list.         *)
ReadList(c) ==
  /\ client[c] = "listAnswer" /\ toClient[c] # <<>>
  /\ LET units == toClient[c]
         whole == Len(units) > 1 /\ units[2] = Rest
     IN  /\ toClient' = [toClient EXCEPT ![c] = IF whole THEN Tail(Tail(units)) ELSE Tail(units)]
         /\ IF Head(units).kind = "done" THEN GoClient(c, {"listAnswer"}, "prompt") ELSE UNCHANGED client
  /\ UNCHANGED <<process, threads, toServer, path, script, typed, offScript, mishap>>

(* A read that returns nothing ends the client.                            *)
ServerClosed(c) ==
  /\ Ends(c, Waiting) /\ toClient[c] = <<>> /\ Closed(c)
  /\ UNCHANGED <<process, threads, toServer, typed, offScript, mishap>>

(* The operator ends a client in some other way than by "quit".            *)
Leave(c) ==
  /\ Ends(c, Waiting \cup {"prompt"})
  /\ mishap' = TRUE
  /\ UNCHANGED <<process, threads, toServer, typed, offScript>>

-----------------------------------------------------------------------------
ThreadStep(c) ==
  \/ Accept(c) \/ Greet(c) \/ WaitMessage(c) \/ ReadNothing(c) \/ HandleSay(c) \/ HandleCd(c)
  \/ HandleList(c) \/ SendEntry(c) \/ SendDone(c) \/ HandleQuit(c) \/ CloseAgain(c)

ClientReads(c) ==
  \/ Greeted(c) \/ ReadInFile(c) \/ ReadAnswer(c) \/ ReadCd(c) \/ ReadList(c) \/ ServerClosed(c)

Operator(c) == Connect(c) \/ Type(c) \/ TypeFile(c) \/ Leave(c)

Next ==
  \/ AcceptFails
  \/ \E c \in Clients : ThreadStep(c) \/ ClientReads(c) \/ Operator(c)

(* Threads and clients run; what operators do is up to them, and accept    *)
(* need not fail.                                                          *)
Spec ==
  /\ Init /\ [][Next]_vars
  /\ \A c \in Clients : WF_vars(ThreadStep(c)) /\ WF_vars(ClientReads(c))

-----------------------------------------------------------------------------
(* Properties.                                                             *)

(* Every variable has its type; two numbers never refer to one connection, *)
(* and no thread has a number that accept has not returned.                *)
TypeOK ==
  /\ server \in {"up", "ended"} /\ cwd \in Dirs /\ infoFile \in BOOLEAN
  /\ fds \in [Fds -> Clients \cup {Free}]
  /\ \A m, n \in Fds : fds[m] = fds[n] /\ m # n => fds[m] = Free
  /\ thread \in [Clients -> {"none", "backlog", "info", "loop", "read", "list", "quit", "ended"}]
  /\ fd \in [Clients -> Fds \cup {0}] /\ conn \in [Clients -> Clients]
  /\ \A c \in Clients : thread[c] \in {"none", "backlog"} <=> fd[c] = 0
  /\ client \in [Clients -> Waiting \cup {"off", "prompt", "gone"}]
  /\ \A c \in Clients : script[c] # <<>> => client[c] = "fileAnswer"
  /\ mishap \in BOOLEAN

(* No other thread that still serves a client has the number of c: after a *)
(* second close of a number in use, accept may give it to the next client. *)
Alone(c) ==
  \A d \in Clients \ {c} : fd[d] = fd[c] => thread[d] \in {"quit", "ended"}

(* At its prompt a client has read all that was sent to it, the server has *)
(* read all its commands, and the prompt shows the directory in which the  *)
(* server will look: "Current directory: " (server.c:199, 204).  Not after *)
(* a file that holds cd or list, nor a name that starts with "done", nor   *)
(* if its number was closed, or is also that of another client's thread.   *)
InStep ==
  \A c \in Clients :
    client[c] = "prompt" /\ ~offScript[c] /\ server = "up" /\ Connection(c) = c /\ Alone(c) =>
      /\ toClient[c] = <<>> /\ toServer[c] = <<>>
      /\ thread[c] \in {"loop", "read"}
      /\ path[c] = dirPath[c]

(* No step ends the server, neither a client that quits nor a directory    *)
(* that fails to open, but a failure of accept or pthread_create, if it    *)
(* was given the absolute path of a directory and finds info.txt; or else  *)
(* a client left otherwise or lost step with it, a command faulted, or a   *)
(* number in use was closed.                                               *)
ServerStaysUp ==
  [][server = "up" /\ server' = "ended" =>
       \/ AcceptFails
       \/ mishap' \/ ~infoFile \/ ~(Absolute(startDir) /\ Exists(startDir))
       \/ \E c \in Clients : offScript'[c]]_vars

(* Whatever a client has sent, it comes back to its prompt or ends, also   *)
(* when another client ends the server.                                    *)
Answered == \A c \in Clients : client[c] \in Waiting ~> client[c] \in {"prompt", "gone"}
=============================================================================
