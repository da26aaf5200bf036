----------------------------- MODULE ChildList ------------------------------
(***************************************************************************)
(* Lab3/lab3.c: the parent keeps its children in childPidMas, ends them    *)
(* with SIGTERM and wait, and allows or bans their output with SIGUSR1 and *)
(* SIGUSR2; a handler of SIGALRM and one of SIGINT walk the same array,    *)
(* whatever the parent is doing.  A child is what lab3.c and the handlers  *)
(* of child.c make of it.                                                  *)
(***************************************************************************)
EXTENDS Integers

CONSTANTS
  Kids,        (* the process ids that fork will return                    *)
  Group,       (* 0: a slot never written; kill signals the process group  *)
  Everyone,    (* -1: a fork that failed; kill signals all processes       *)
  Status,      (* what wait stores into a slot: the id of some stranger    *)
  MaxChild     (* MAX_CHILD: the slots of childPidMas                      *)

ASSUME ListAssumption ==
  /\ Kids \cap {Group, Everyone, Status} = {}
  /\ Group # Everyone /\ Group # Status /\ Everyone # Status
  /\ MaxChild \in Nat \ {0}

Slots == 0 .. MaxChild - 1

(* The parent ends: by 'q', or in the handler of SIGINT.                   *)
Ending == {"quit", "handler"}

VARIABLES
  childCount, childPidMas,  (* the list: slots 0 .. childCount             *)
  pc, mode, index, chpid,   (* the parent: where it is, what it destroys   *)
                            (* children for, the slot, what fork returned  *)
  timer,                    (* whether the timer of `p` is running         *)
  kid, number,              (* each child: its life, and its number in the *)
                            (* list                                        *)
  permitted, pending,       (* its flag, and the signals on their way      *)
  asked, raced,             (* what was asked of it last, and whether that *)
                            (* was sent while the contrary was on its way  *)
  forkFailed                (* whether some fork has failed                *)

list   == <<childCount, childPidMas>>
parent == <<pc, mode, index, chpid>>
kids   == <<kid, number, permitted, pending, asked, raced>>
vars   == <<list, parent, timer, kids, forkFailed>>

Live     == {k \in Kids : kid[k] \in {"starting", "ready"}}
Unreaped == {k \in Kids : kid[k] \in {"starting", "ready", "zombie"}}

Init ==
  /\ childCount = -1 /\ childPidMas = [i \in Slots |-> Group]
  /\ pc = "menu" /\ mode = "one" /\ index = 0 /\ chpid = Group
  /\ timer = FALSE
  /\ kid = [k \in Kids |-> "none"] /\ number = [k \in Kids |-> 0]
  /\ permitted = [k \in Kids |-> TRUE] /\ pending = [k \in Kids |-> {}]
  /\ asked = [k \in Kids |-> TRUE] /\ raced = [k \in Kids |-> FALSE]
  /\ forkFailed = FALSE

-----------------------------------------------------------------------------
(* Signals.                                                                *)
Targets(pids) ==
  {k \in Live : k \in pids \/ Group \in pids \/ Everyone \in pids}

Contrary(signal) == IF signal = "allow" THEN "ban" ELSE "allow"

(* kill of each of the pids; the parent itself has no handler for any of   *)
(* these signals.                                                          *)
Kill(pids, signal, to) ==
  /\ pending' = [k \in Kids |-> IF k \in Targets(pids) THEN pending[k] \cup {signal} ELSE pending[k]]
  /\ raced' = [k \in Kids |-> IF k \in Targets(pids) THEN Contrary(signal) \in pending[k] ELSE raced[k]]
  /\ pc' = IF Group \in pids THEN "gone" ELSE to

(* What the operator, or the timer, means: the children with these numbers.*)
Ask(numbers, answer) ==
  asked' = [k \in Kids |-> IF k \in Live /\ number[k] \in numbers THEN answer ELSE asked[k]]

(* Seeded fault of InList: the last child is left out.                     *)
InListShort == 0 .. childCount - 1

InList == 0 .. childCount

-----------------------------------------------------------------------------
(* '+': ++childCount, fork, and the store of what it returned.  (Process   *)
(* ids are interchangeable: fork takes any that was not used; Kids bounds  *)
(* how many there are.)  Nothing compares childCount with MAX_CHILD: once  *)
(* it has left the array, what the parent does is undefined and not        *)
(* followed any further.                                                   *)
Create ==
  /\ pc = "menu" /\ \E k \in Kids : kid[k] = "none"
  /\ childCount' = childCount + 1
  /\ pc' = IF childCount + 1 \in Slots THEN "fork" ELSE "overrun"
  /\ UNCHANGED <<childPidMas, mode, index, chpid, timer, kids, forkFailed>>

Fork ==
  /\ pc = "fork" /\ pc' = "store"
  /\ \/ LET k == CHOOSE k \in Kids : kid[k] = "none"
        IN  /\ kid' = [kid EXCEPT ![k] = "starting"]
            /\ number' = [number EXCEPT ![k] = childCount]
            /\ chpid' = k /\ UNCHANGED forkFailed
     \/ chpid' = Everyone /\ forkFailed' = TRUE /\ UNCHANGED <<kid, number>>
  /\ UNCHANGED <<list, mode, index, timer, permitted, pending, asked, raced>>

Store ==
  /\ pc = "store" /\ pc' = "menu"
  /\ childPidMas' = [childPidMas EXCEPT ![childCount] = chpid] /\ chpid' = Group
  /\ UNCHANGED <<childCount, mode, index, timer, kids, forkFailed>>

(* Seeded fault of Destroy: an empty list is not told from another.        *)
DestroyUnchecked ==
  /\ pc = "menu" /\ childCount = -1
  /\ mode' = "one" /\ pc' = "next" /\ UNCHANGED index
  /\ UNCHANGED <<list, chpid, timer, kids, forkFailed>>

(* '-', 'k' and 'q': the last child, or all of them from the last one.     *)
Destroy ==
  /\ pc = "menu"
  /\ \E m \in {"one", "all", "quit"} :
       /\ mode' = m
       /\ \/ childCount > -1 /\ pc' = "kill" /\ index' = childCount
          \/ childCount = -1 /\ pc' = (IF m = "quit" THEN "reap" ELSE "menu") /\ UNCHANGED index
  /\ UNCHANGED <<list, chpid, timer, kids, forkFailed>>

(* Seeded fault of DestroyKill: the signal is one that the child handles.  *)
DestroyKillBans ==
  /\ pc = "kill" /\ Kill({childPidMas[index]}, "ban", "wait")
  /\ UNCHANGED <<list, mode, index, chpid, timer, kid, number, permitted, asked, forkFailed>>

DestroyKill ==
  /\ pc = "kill" /\ Kill({childPidMas[index]}, "term", "wait")
  /\ UNCHANGED <<list, mode, index, chpid, timer, kid, number, permitted, asked, forkFailed>>

Reap(k) == kid[k] = "zombie" /\ kid' = [kid EXCEPT ![k] = "reaped"]

(* wait takes any child that has ended, and overwrites the slot; without   *)
(* children it returns at once.                                            *)
DestroyWait ==
  /\ pc = "wait" /\ pc' = "next"
  /\ \/ \E k \in Kids : Reap(k) /\ childPidMas' = [childPidMas EXCEPT ![index] = Status]
     \/ Unreaped = {} /\ UNCHANGED <<kid, childPidMas>>
  /\ UNCHANGED <<childCount, mode, index, chpid, timer, number, permitted, pending, asked, raced, forkFailed>>

(* Seeded fault of DestroyNext: '-' leaves childCount as it is.            *)
DestroyNextKeepsCount ==
  /\ pc = "next"
  /\ \/ mode = "one" /\ pc' = "menu" /\ UNCHANGED <<childCount, index>>
     \/ mode # "one" /\ index > 0 /\ index' = index - 1 /\ pc' = "kill" /\ UNCHANGED childCount
     \/ mode = "all" /\ index = 0 /\ childCount' = -1 /\ pc' = "menu" /\ UNCHANGED index
     \/ mode \in Ending /\ index = 0 /\ pc' = "reap" /\ UNCHANGED <<childCount, index>>
  /\ UNCHANGED <<childPidMas, mode, chpid, timer, kids, forkFailed>>

DestroyNext ==
  /\ pc = "next"
  /\ \/ mode = "one" /\ childCount' = childCount - 1 /\ pc' = "menu" /\ UNCHANGED index
     \/ mode # "one" /\ index > 0 /\ index' = index - 1 /\ pc' = "kill" /\ UNCHANGED childCount
     \/ mode = "all" /\ index = 0 /\ childCount' = -1 /\ pc' = "menu" /\ UNCHANGED index
     \/ mode \in Ending /\ index = 0 /\ pc' = "reap" /\ UNCHANGED <<childCount, index>>
  /\ UNCHANGED <<childPidMas, mode, chpid, timer, kids, forkFailed>>

(* while (wait(NULL) > 0), and the end of the parent.                      *)
ReapAll ==
  /\ pc = "reap"
  /\ \/ \E k \in Kids : Reap(k) /\ UNCHANGED pc
     \/ Unreaped = {} /\ pc' = "gone" /\ UNCHANGED kid
  /\ UNCHANGED <<list, mode, index, chpid, timer, number, permitted, pending, asked, raced, forkFailed>>

(* 's' and 'g', of one child or of all of them.                            *)
SetStats ==
  /\ pc = "menu"
  /\ \E signal \in {"allow", "ban"}, numbers \in {{n} : n \in InList} \cup {InList} :
       /\ Kill({childPidMas[i] : i \in numbers}, signal, "menu")
       /\ Ask(numbers, signal = "allow")
  /\ UNCHANGED <<list, mode, index, chpid, timer, kid, number, permitted, forkFailed>>

(* 'p': all are banned, the timer is started, and one is allowed.          *)
ShowOne ==
  /\ pc = "menu"
  /\ \E n \in InList :
       /\ Kill({childPidMas[i] : i \in InList}, "ban", "allow")
       /\ asked' = [k \in Kids |-> IF k \in Live THEN number[k] = n ELSE asked[k]]
       /\ index' = n
  /\ timer' = TRUE
  /\ UNCHANGED <<list, mode, chpid, kid, number, permitted, forkFailed>>

ShowOneAllow ==
  /\ pc = "allow" /\ Kill({childPidMas[index]}, "allow", "menu")
  /\ UNCHANGED <<list, mode, index, chpid, timer, kid, number, permitted, asked, forkFailed>>

-----------------------------------------------------------------------------
(* The handlers of the parent.                                             *)

(* SIGALRM: all children are allowed.                                      *)
AllowAllChildSendStats ==
  /\ timer /\ timer' = FALSE /\ pc \notin {"gone", "overrun"}
  /\ Kill({childPidMas[i] : i \in InList}, "allow", pc)
  /\ Ask(Slots, TRUE)
  /\ UNCHANGED <<list, mode, index, chpid, kid, number, permitted, forkFailed>>

(* SIGINT, which the terminal sends to the children as well: as 'q', and   *)
(* also in the middle of it.                                               *)
HandlerSIGINT ==
  /\ pc \notin {"gone", "overrun"} /\ mode # "handler" /\ mode' = "handler"
  /\ pc' = IF childCount > -1 THEN "kill" ELSE "reap"
  /\ index' = IF childCount > -1 THEN childCount ELSE index
  /\ pending' = [k \in Kids |-> IF k \in Live THEN pending[k] \cup {"term"} ELSE pending[k]]
  /\ UNCHANGED <<list, chpid, timer, kid, number, permitted, asked, raced, forkFailed>>

-----------------------------------------------------------------------------
(* The children.                                                           *)
Dies(k) ==
  /\ kid' = [kid EXCEPT ![k] = "zombie"] /\ pending' = [pending EXCEPT ![k] = {}]
  /\ raced' = [raced EXCEPT ![k] = FALSE] /\ asked' = [asked EXCEPT ![k] = TRUE]
  /\ permitted' = [permitted EXCEPT ![k] = TRUE]

(* execv and the first calls of main set the handlers, or execv fails.     *)
Start(k) ==
  /\ kid[k] = "starting"
  /\ \/ kid' = [kid EXCEPT ![k] = "ready"] /\ UNCHANGED <<permitted, pending, asked, raced>>
     \/ Dies(k)
  /\ UNCHANGED <<list, parent, timer, number, forkFailed>>

(* A signal arrives, in any order.  Before the handlers are set, and for   *)
(* SIGTERM, it ends the child.                                             *)
Deliver(k) ==
  /\ \E signal \in pending[k] :
       IF kid[k] = "starting" \/ signal = "term" THEN Dies(k)
       ELSE /\ pending' = [pending EXCEPT ![k] = @ \ {signal}]
            /\ permitted' = [permitted EXCEPT ![k] = signal = "allow"]
            /\ UNCHANGED <<kid, asked, raced>>
  /\ UNCHANGED <<list, parent, timer, number, forkFailed>>

-----------------------------------------------------------------------------
ParentStep ==
  \/ Fork \/ Store \/ DestroyKill \/ DestroyWait \/ DestroyNext \/ ReapAll \/ ShowOneAllow

Operator == Create \/ Destroy \/ SetStats \/ ShowOne

Next ==
  \/ ParentStep \/ Operator \/ AllowAllChildSendStats \/ HandlerSIGINT
  \/ \E k \in Kids : Start(k) \/ Deliver(k)

(* The parent runs, and signals arrive.                                    *)
Spec ==
  /\ Init /\ [][Next]_vars
  /\ WF_vars(ParentStep) /\ \A k \in Kids : WF_vars(Deliver(k))

-----------------------------------------------------------------------------
(* Properties.                                                             *)

(* Every variable has its type; childCount leaves the array only in '+'    *)
(* (lab3.c:153), with the first child too many; what is on its way is on   *)
(* its way to a child that runs.                                           *)
TypeOK ==
  /\ childCount \in Slots \cup {-1, MaxChild}
  /\ childCount = MaxChild <=> pc = "overrun"
  /\ childPidMas \in [Slots -> Kids \cup {Group, Everyone, Status}]
  /\ pc \in {"menu", "fork", "store", "kill", "wait", "next", "reap", "allow", "gone", "overrun"}
  /\ mode \in {"one", "all"} \cup Ending /\ index \in Slots
  /\ chpid \in Kids \cup {Group, Everyone}
  /\ timer \in BOOLEAN /\ forkFailed \in BOOLEAN
  /\ kid \in [Kids -> {"none", "starting", "ready", "zombie", "reaped"}]
  /\ number \in [Kids -> Slots] /\ permitted \in [Kids -> BOOLEAN]
  /\ pending \in [Kids -> SUBSET {"allow", "ban", "term"}]
  /\ asked \in [Kids -> BOOLEAN] /\ raced \in [Kids -> BOOLEAN]
  /\ \A k \in Kids : pending[k] # {} => k \in Live

(* At the menu, the slots in use hold the children with their numbers, and *)
(* no child that still runs is missing, unless it was told to end.         *)
SlotsAreChildren ==
  pc = "menu" =>
    /\ \A i \in InList : childPidMas[i] = Everyone \/ (childPidMas[i] \in Kids /\ number[childPidMas[i]] = i)
    /\ \A k \in Live : "term" \in pending[k] \/ (number[k] \in InList /\ childPidMas[number[k]] = k)

(* A child has the permission that was asked for it last (by the commands  *)
(* s, g and p and by the timer), when all signals have arrived and none    *)
(* was sent while the contrary was under way.                              *)
PermissionAsAsked ==
  \A k \in Kids :
    kid[k] = "ready" /\ pending[k] = {} /\ ~raced[k] /\ ~forkFailed /\ pc # "allow" =>
      permitted[k] = asked[k]

(* wait returns: when the parent waits, some child has ended or will.      *)
DestroyReturns == pc \in {"wait", "reap"} ~> pc \notin {"wait", "reap"}
=============================================================================
