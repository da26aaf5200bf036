----------------------------- MODULE ChildProofs -----------------------------
(* Lab3.  For any children and any length of the list, whenever the timer  *)
(* and SIGINT come: types, that the list holds the children that run, and  *)
(* that they get the permissions that were asked for them.  At the end of  *)
(* the module, for any MinTimes and any number of alarms at any moment:    *)
(* what ReportIsFull and NoSampleTwice say of the reports of a child.      *)
EXTENDS ChildList, ChildStats, TLAPS

(* The slots that are filled: while a child is made the last one is not    *)
(* yet, and while children are destroyed those from index on no longer.    *)
Upto ==
  IF pc \in {"menu", "allow"} THEN childCount
  ELSE IF pc = "kill" THEN index
  ELSE IF pc \in {"wait", "next"} THEN index - 1
  ELSE childCount - 1

SlotFilled(i) ==
  \/ childPidMas[i] = Everyone
  \/ /\ childPidMas[i] \in Kids
     /\ number[childPidMas[i]] = i /\ kid[childPidMas[i]] # "none"

Listed(k) ==
  "term" \in pending[k] \/ (number[k] \in 0 .. Upto /\ childPidMas[number[k]] = k)

(* The child that was forked last is in chpid, not yet in the list.        *)
Unstored(k) == pc = "store" /\ chpid = k

(* Until the parent begins to end, or has ended.                           *)
ListKept ==
  mode \notin Ending /\ pc # "gone" =>
    /\ \A i \in 0 .. Upto : SlotFilled(i)
    /\ \A k \in Live : Listed(k) \/ Unstored(k)

(* What the places in the code know of childCount, index and chpid; once   *)
(* the parent ends it never comes back to the menu.                        *)
Places ==
  /\ pc \in {"fork", "store"} => childCount \in Slots
  /\ pc = "fork" => \E k \in Kids : kid[k] = "none"
  /\ pc = "store" =>
       \/ chpid = Everyone
       \/ chpid \in Kids /\ kid[chpid] # "none" /\ number[chpid] = childCount
  /\ mode = "one" /\ pc \in {"kill", "wait", "next"} => index = childCount
  /\ mode \in Ending => pc \in {"kill", "wait", "next", "reap", "gone"}
  /\ pc = "reap" => mode \in Ending

ListInv == TypeOK /\ Places /\ ListKept

-----------------------------------------------------------------------------
LEMMA ListInit == Init => ListInv
<1> SUFFICES ASSUME Init PROVE ListInv OBVIOUS
<1> USE ListAssumption DEF Init, Slots, Ending
<1>1. TypeOK
  <2>1. /\ permitted \in [Kids -> BOOLEAN]
        /\ asked \in [Kids -> BOOLEAN] /\ raced \in [Kids -> BOOLEAN]
    BY Zenon
  <2>2. 0 \in Slots /\ childPidMas \in [Slots -> {Group}] OBVIOUS
  <2>3. /\ kid \in [Kids -> {"none"}] /\ number \in [Kids -> {0}]
        /\ pending \in [Kids -> {{}}] /\ \A k \in Kids : pending[k] = {}
    OBVIOUS
  <2>4. childCount # MaxChild /\ pc # "overrun" OBVIOUS
  <2>5. QED BY <2>1, <2>2, <2>3, <2>4 DEF TypeOK
<1>2. Places BY DEF Places
<1>3. ListKept BY DEF ListKept, Upto, Live
<1>4. QED BY <1>1, <1>2, <1>3 DEF ListInv

(* A signal that is sent is of the three, goes to children that run, and   *)
(* takes nothing back.                                                     *)
LEMMA Sent ==
  ASSUME TypeOK, NEW pids, NEW signal \in {"allow", "ban", "term"}, NEW to, Kill(pids, signal, to)
  PROVE  /\ pending' \in [Kids -> SUBSET {"allow", "ban", "term"}]
         /\ raced' \in [Kids -> BOOLEAN]
         /\ \A k \in Kids : pending[k] \subseteq pending'[k]
         /\ \A k \in Kids : pending'[k] # {} => k \in Live
         /\ pc' \in {"gone", to}
<1>1. pending' = [k \in Kids |-> IF k \in Targets(pids) THEN pending[k] \cup {signal} ELSE pending[k]]
  BY DEF Kill
<1>2. raced' = [k \in Kids |-> IF k \in Targets(pids) THEN Contrary(signal) \in pending[k] ELSE raced[k]]
  BY DEF Kill
<1>3. Targets(pids) \subseteq Live BY DEF Targets
<1>4. pending' \in [Kids -> SUBSET {"allow", "ban", "term"}] BY <1>1 DEF TypeOK
<1>5. raced' \in [Kids -> BOOLEAN]
  <2>1. ASSUME NEW k \in Kids
        PROVE  (IF k \in Targets(pids) THEN Contrary(signal) \in pending[k] ELSE raced[k]) \in BOOLEAN
    <3>1. raced[k] \in BOOLEAN BY DEF TypeOK
    <3>2. (Contrary(signal) \in pending[k]) \in BOOLEAN OBVIOUS
    <3>3. QED BY <3>1, <3>2, Zenon
  <2>2. QED BY <1>2, <2>1, Zenon
<1>6. \A k \in Kids : pending[k] \subseteq pending'[k] BY <1>1
<1>7. \A k \in Kids : pending'[k] # {} => k \in Live BY <1>1, <1>3 DEF TypeOK
<1>8. pc' \in {"gone", to} BY DEF Kill
<1>9. QED BY <1>4, <1>5, <1>6, <1>7, <1>8

(* What was asked is a permission.                                         *)
LEMMA AskedType ==
  ASSUME TypeOK, NEW numbers, NEW answer \in BOOLEAN, Ask(numbers, answer)
  PROVE  asked' \in [Kids -> BOOLEAN]
BY DEF TypeOK, Ask

(* A step of children or signals, at a place with the same slots filled:   *)
(* nobody comes to life, nobody is relieved of SIGTERM and lives.          *)
LEMMA ListStays ==
  ASSUME ListKept, UNCHANGED <<childPidMas, number>>,
         mode' = mode \/ pc' = "gone",
         pc' # "gone" => Upto' = Upto /\ pc # "gone" /\ UNCHANGED chpid /\ (pc = "store" => pc' = "store"),
         \A k \in Kids : kid[k] # "none" => kid'[k] # "none",
         Live' \subseteq Live,
         \A k \in Live' : "term" \in pending[k] => "term" \in pending'[k]
  PROVE  ListKept'
<1> SUFFICES ASSUME mode' \notin Ending, pc' # "gone"
             PROVE /\ \A i \in 0 .. Upto' : SlotFilled(i)'
                   /\ \A k \in Live' : Listed(k)' \/ Unstored(k)'
  BY DEF ListKept
<1>1. mode \notin Ending /\ pc # "gone" /\ Upto' = Upto OBVIOUS
<1>2. \A i \in 0 .. Upto : SlotFilled(i) BY <1>1 DEF ListKept
<1>3. \A k \in Live : Listed(k) \/ Unstored(k) BY <1>1 DEF ListKept
<1>4. \A i \in 0 .. Upto' : SlotFilled(i)' BY <1>1, <1>2 DEF SlotFilled
<1>5. \A k \in Live' : Listed(k)' \/ Unstored(k)' BY <1>1, <1>3 DEF Listed, Unstored
<1>6. QED BY <1>4, <1>5

-----------------------------------------------------------------------------
(* Steps of the children.                                                  *)

(* A child that dies gives its variables their first values.               *)
LEMMA ListChild ==
  ASSUME ListInv, NEW k \in Kids, Start(k) \/ Deliver(k)
  PROVE  ListInv'
<1>1. TypeOK /\ Places /\ ListKept BY DEF ListInv
<1>2. UNCHANGED <<list, parent, timer, number, forkFailed>> BY DEF Start, Deliver
<1>3. UNCHANGED <<childCount, childPidMas, pc, mode, index, chpid>> BY <1>2 DEF list, parent
<1>4. CASE Dies(k) /\ kid[k] \in {"starting", "ready"}
  <2>1. kid' = [kid EXCEPT ![k] = "zombie"] /\ pending' = [pending EXCEPT ![k] = {}]
    BY <1>4 DEF Dies
  <2>2. /\ permitted' \in [Kids -> BOOLEAN]
        /\ asked' \in [Kids -> BOOLEAN] /\ raced' \in [Kids -> BOOLEAN]
    BY <1>1, <1>4, Zenon DEF Dies, TypeOK
  <2>3. \A j \in Kids : pending'[j] # {} => j \in Live' BY <1>1, <2>1 DEF TypeOK, Live
  <2>4. TypeOK' BY <1>1, <1>2, <1>3, <2>1, <2>2, <2>3 DEF TypeOK
  <2>5. \A j \in Kids : kid[j] # "none" => kid'[j] # "none" BY <1>1, <2>1 DEF TypeOK
  <2>6. \A j \in Kids : kid[j] = "none" => kid'[j] = "none" BY <1>1, <1>4, <2>1 DEF TypeOK
  <2>7. Places' BY <1>1, <1>2, <1>3, <2>5, <2>6 DEF Places, TypeOK
  <2>8. Live' \subseteq Live \ {k} BY <1>1, <2>1 DEF Live, TypeOK
  <2>9. \A j \in Live' : pending'[j] = pending[j] BY <1>1, <2>1, <2>8 DEF Live, TypeOK
  <2>10. Upto' = Upto BY <1>3 DEF Upto
  <2>11. ListKept' BY <1>1, <1>2, <1>3, <2>5, <2>8, <2>9, <2>10, ListStays
  <2>12. QED BY <2>4, <2>7, <2>11 DEF ListInv
<1>5. CASE kid[k] = "starting" /\ kid' = [kid EXCEPT ![k] = "ready"]
           /\ UNCHANGED <<permitted, pending, asked, raced>>
  <2>1. \A j \in Kids : (kid[j] = "none" <=> kid'[j] = "none") BY <1>1, <1>5 DEF TypeOK
  <2>2. Live' = Live BY <1>1, <1>5 DEF Live, TypeOK
  <2>3. TypeOK' BY <1>1, <1>2, <1>3, <1>5, <2>2 DEF TypeOK
  <2>4. Places' BY <1>1, <1>2, <1>3, <2>1 DEF Places, TypeOK
  <2>5. Upto' = Upto BY <1>3 DEF Upto
  <2>6. ListKept' BY <1>1, <1>2, <1>3, <1>5, <2>1, <2>2, <2>5, ListStays
  <2>7. QED BY <2>3, <2>4, <2>6 DEF ListInv
<1>6. ASSUME NEW signal \in pending[k], signal # "term",
             pending' = [pending EXCEPT ![k] = @ \ {signal}],
             permitted' = [permitted EXCEPT ![k] = signal = "allow"],
             UNCHANGED <<kid, asked, raced>>
      PROVE  ListInv'
  <2>1. \A j \in Kids : pending'[j] \subseteq pending[j] /\ ("term" \in pending[j] => "term" \in pending'[j])
    BY <1>1, <1>6 DEF TypeOK
  <2>2. permitted' \in [Kids -> BOOLEAN] BY <1>1, <1>6, Zenon DEF TypeOK
  <2>3. Live' = Live BY <1>6 DEF Live
  <2>4. pending' \in [Kids -> SUBSET {"allow", "ban", "term"}] BY <1>1, <1>6 DEF TypeOK
  <2>5. TypeOK' BY <1>1, <1>2, <1>3, <1>6, <2>1, <2>2, <2>3, <2>4 DEF TypeOK
  <2>6. Places' BY <1>1, <1>2, <1>3, <1>6 DEF Places
  <2>7. Upto' = Upto BY <1>3 DEF Upto
  <2>8. \A j \in Live : j \in Kids BY DEF Live
  <2>9. ListKept' BY <1>1, <1>2, <1>3, <1>6, <2>1, <2>3, <2>7, <2>8, ListStays
  <2>10. QED BY <2>5, <2>6, <2>9 DEF ListInv
<1>7. CASE Start(k) BY <1>4, <1>5, <1>7 DEF Start
<1>8. CASE Deliver(k)
  <2>1. PICK signal \in pending[k] :
          IF kid[k] = "starting" \/ signal = "term" THEN Dies(k)
          ELSE /\ pending' = [pending EXCEPT ![k] = @ \ {signal}]
               /\ permitted' = [permitted EXCEPT ![k] = signal = "allow"]
               /\ UNCHANGED <<kid, asked, raced>>
    BY <1>8 DEF Deliver
  <2>2. kid[k] \in {"starting", "ready"} BY <1>1, <2>1 DEF TypeOK, Live
  <2>3. QED BY <1>4, <1>6, <2>1, <2>2
<1>9. QED BY <1>7, <1>8

-----------------------------------------------------------------------------
(* Steps that send signals.                                                *)

(* A command or the timer sends signals and leaves the list as it is.      *)
LEMMA ListSent ==
  ASSUME ListInv, NEW pids, NEW signal \in {"allow", "ban", "term"}, NEW to, Kill(pids, signal, to),
         UNCHANGED <<list, chpid, kid, number, forkFailed>>,
         to = pc \/ {pc, to} \subseteq {"menu", "allow"}, pc # "overrun",
         mode' = mode, index' \in Slots, index' = index \/ pc = "menu",
         permitted' \in [Kids -> BOOLEAN], asked' \in [Kids -> BOOLEAN], timer' \in BOOLEAN
  PROVE  ListInv'
<1>1. TypeOK /\ Places /\ ListKept BY DEF ListInv
<1>2. /\ pending' \in [Kids -> SUBSET {"allow", "ban", "term"}] /\ raced' \in [Kids -> BOOLEAN]
      /\ \A k \in Kids : pending[k] \subseteq pending'[k]
      /\ \A k \in Kids : pending'[k] # {} => k \in Live
      /\ pc' \in {"gone", to}
  BY <1>1, Sent
<1>3. UNCHANGED <<childCount, childPidMas>> BY DEF list
<1>4. Live' = Live /\ \A k \in Live : k \in Kids BY DEF Live
<1>5. /\ pc' \in {"menu", "fork", "store", "kill", "wait", "next", "reap", "allow", "gone"}
      /\ pc # "overrun" /\ childCount # MaxChild
  BY <1>1, <1>2 DEF TypeOK
<1>6. TypeOK' BY <1>1, <1>2, <1>3, <1>4, <1>5 DEF TypeOK
<1>7. Places' BY <1>1, <1>2, <1>3 DEF Places
<1>8. pc' # "gone" => Upto' = Upto /\ (pc = "store" => pc' = "store") BY <1>2, <1>3 DEF Upto
<1>9. pc' # "gone" => pc # "gone" BY <1>2
<1>10. ListKept' BY <1>1, <1>2, <1>3, <1>4, <1>8, <1>9, ListStays
<1>11. QED BY <1>6, <1>7, <1>10 DEF ListInv

LEMMA ListCommands ==
  ASSUME ListInv, SetStats \/ ShowOne \/ ShowOneAllow \/ AllowAllChildSendStats
  PROVE  ListInv'
<1>1. TypeOK BY DEF ListInv
<1>2. CASE SetStats
  <2>1. PICK signal \in {"allow", "ban"}, numbers \in {{n} : n \in InList} \cup {InList} :
          Kill({childPidMas[i] : i \in numbers}, signal, "menu") /\ Ask(numbers, signal = "allow")
    BY <1>2 DEF SetStats
  <2>2. (signal = "allow") \in BOOLEAN OBVIOUS
  <2>3. asked' \in [Kids -> BOOLEAN] BY <1>1, <2>1, <2>2, AskedType
  <2>4. pc = "menu" /\ UNCHANGED <<list, chpid, kid, number, forkFailed, mode, index, permitted, timer>>
    BY <1>2 DEF SetStats
  <2>5. index' \in Slots /\ permitted' \in [Kids -> BOOLEAN] /\ timer' \in BOOLEAN
    BY <1>1, <2>4 DEF TypeOK
  <2>6. QED BY <2>1, <2>3, <2>4, <2>5, ListSent
<1>3. CASE ShowOne
  <2>1. PICK n \in InList :
          /\ Kill({childPidMas[i] : i \in InList}, "ban", "allow")
          /\ asked' = [k \in Kids |-> IF k \in Live THEN number[k] = n ELSE asked[k]]
          /\ index' = n
    BY <1>3 DEF ShowOne
  <2>2. asked' \in [Kids -> BOOLEAN] BY <1>1, <2>1, Zenon DEF TypeOK
  <2>3. index' \in Slots BY <1>1, <1>3, <2>1, ListAssumption DEF TypeOK, InList, Slots, ShowOne
  <2>4. pc = "menu" /\ UNCHANGED <<list, chpid, kid, number, forkFailed, mode, permitted>> /\ timer' = TRUE
    BY <1>3 DEF ShowOne
  <2>5. permitted' \in [Kids -> BOOLEAN] BY <1>1, <2>4 DEF TypeOK
  <2>6. QED BY <2>1, <2>2, <2>3, <2>4, <2>5, ListSent
<1>4. CASE ShowOneAllow
  <2>1. /\ pc = "allow" /\ Kill({childPidMas[index]}, "allow", "menu")
        /\ UNCHANGED <<list, chpid, kid, number, forkFailed, mode, index, permitted, timer, asked>>
    BY <1>4 DEF ShowOneAllow
  <2>2. index' \in Slots /\ permitted' \in [Kids -> BOOLEAN] /\ timer' \in BOOLEAN /\ asked' \in [Kids -> BOOLEAN]
    BY <1>1, <2>1 DEF TypeOK
  <2>3. QED BY <2>1, <2>2, ListSent
<1>5. CASE AllowAllChildSendStats
  <2>1. /\ Kill({childPidMas[i] : i \in InList}, "allow", pc) /\ Ask(Slots, TRUE) /\ timer' = FALSE
        /\ pc # "overrun"
        /\ UNCHANGED <<list, chpid, kid, number, forkFailed, mode, index, permitted>>
    BY <1>5 DEF AllowAllChildSendStats
  <2>2. asked' \in [Kids -> BOOLEAN] BY <1>1, <2>1, AskedType
  <2>3. index' \in Slots /\ permitted' \in [Kids -> BOOLEAN] /\ timer' \in BOOLEAN
    BY <1>1, <2>1 DEF TypeOK
  <2>4. QED BY <2>1, <2>2, <2>3, ListSent
<1>6. QED BY <1>2, <1>3, <1>4, <1>5

(* The handler of SIGINT takes the parent to its end.                      *)
LEMMA ListInterrupted ==
  ASSUME ListInv, HandlerSIGINT
  PROVE  ListInv'
<1>1. TypeOK BY DEF ListInv
<1>2. /\ mode' = "handler" /\ pc' \in {"kill", "reap"}
      /\ index' = IF childCount > -1 THEN childCount ELSE index
      /\ pending' = [k \in Kids |-> IF k \in Live THEN pending[k] \cup {"term"} ELSE pending[k]]
      /\ UNCHANGED <<childCount, childPidMas, chpid, timer, kid, number, permitted, asked, raced, forkFailed>>
      /\ childCount # MaxChild
  BY <1>1 DEF HandlerSIGINT, list, TypeOK
<1>3. index' \in Slots BY <1>1, <1>2, ListAssumption DEF TypeOK, Slots
<1>4. Live' = Live BY <1>2 DEF Live
<1>5. pending' \in [Kids -> SUBSET {"allow", "ban", "term"}] /\ \A k \in Kids : pending'[k] # {} => k \in Live
  BY <1>1, <1>2 DEF TypeOK
<1>6. TypeOK' BY <1>1, <1>2, <1>3, <1>4, <1>5 DEF TypeOK, Ending
<1>7. Places' BY <1>2 DEF Places, Ending
<1>8. ListKept' BY <1>2 DEF ListKept, Ending
<1>9. QED BY <1>6, <1>7, <1>8 DEF ListInv

-----------------------------------------------------------------------------
(* Steps that change the list.                                             *)

(* '+', up to the store: childCount is one ahead of the slots.             *)
LEMMA ListCreate ==
  ASSUME ListInv, Create
  PROVE  ListInv'
<1>1. TypeOK /\ Places /\ ListKept BY DEF ListInv
<1>2. /\ pc = "menu" /\ childCount' = childCount + 1
      /\ IF childCount' \in Slots THEN pc' = "fork" ELSE pc' = "overrun"
      /\ \E k \in Kids : kid[k] = "none"
      /\ UNCHANGED <<childPidMas, mode, index, chpid, timer, kids, forkFailed>>
  BY DEF Create
<1>a. childCount \in Slots \cup {-1} BY <1>1, <1>2 DEF TypeOK
<1>b. /\ childCount' \in Slots \cup {-1, MaxChild} /\ childCount' = MaxChild <=> pc' = "overrun"
      /\ pc' \in {"fork", "overrun"}
  BY <1>2, <1>a, ListAssumption DEF Slots
<1>3. UNCHANGED <<kid, number, permitted, pending, asked, raced>> BY <1>2 DEF kids
<1>4. Live' = Live BY <1>3 DEF Live
<1>5. TypeOK' BY <1>1, <1>2, <1>3, <1>4, <1>b DEF TypeOK
<1>6. Places' BY <1>1, <1>2, <1>3, <1>b DEF Places
<1>7. Upto' = Upto BY <1>2, <1>a, <1>b, ListAssumption DEF Upto, Slots
<1>8. ListKept' BY <1>1, <1>2, <1>3, <1>4, <1>7, <1>b, ListStays
<1>9. QED BY <1>5, <1>6, <1>8 DEF ListInv

LEMMA ListFork ==
  ASSUME ListInv, Fork
  PROVE  ListInv'
<1>1. TypeOK /\ Places /\ ListKept BY DEF ListInv
<1>2. /\ pc = "fork" /\ pc' = "store" /\ childCount \in Slots
      /\ UNCHANGED <<childCount, childPidMas, mode, index, timer, permitted, pending, asked, raced>>
  BY <1>1 DEF Fork, list, Places
<1>3. mode \notin Ending BY <1>1, <1>2 DEF Places
<1>4. Upto' = Upto BY <1>2 DEF Upto
<1>5. (\A i \in 0 .. Upto : SlotFilled(i)) /\ (\A k \in Live : Listed(k))
  BY <1>1, <1>2, <1>3 DEF ListKept, Unstored
<1>6. CASE chpid' = Everyone /\ forkFailed' = TRUE /\ UNCHANGED <<kid, number>>
  <2>1. Live' = Live BY <1>6 DEF Live
  <2>2. TypeOK' BY <1>1, <1>2, <1>6, <2>1 DEF TypeOK
  <2>3. Places' BY <1>1, <1>2, <1>3, <1>6 DEF Places
  <2>4. \A i \in 0 .. Upto' : SlotFilled(i)' BY <1>2, <1>4, <1>5, <1>6 DEF SlotFilled
  <2>5. \A k \in Live' : Listed(k)' BY <1>2, <1>4, <1>5, <1>6, <2>1 DEF Listed
  <2>6. ListKept' BY <2>4, <2>5 DEF ListKept
  <2>7. QED BY <2>2, <2>3, <2>6 DEF ListInv
<1>7. ASSUME NEW k \in Kids, kid[k] = "none", kid' = [kid EXCEPT ![k] = "starting"],
             number' = [number EXCEPT ![k] = childCount], chpid' = k, forkFailed' = forkFailed
      PROVE  ListInv'
  <2>1. Live' = Live \cup {k} /\ k \notin Live BY <1>1, <1>7 DEF Live, TypeOK
  <2>2. TypeOK' BY <1>1, <1>2, <1>7, <2>1 DEF TypeOK
  <2>3. Places' BY <1>1, <1>2, <1>3, <1>7 DEF Places, TypeOK
  <2>4. ASSUME NEW i \in 0 .. Upto' PROVE SlotFilled(i)'
    <3>1. SlotFilled(i) BY <1>4, <1>5
    <3>2. childPidMas[i] # k BY <1>7, <3>1, ListAssumption DEF SlotFilled
    <3>3. QED BY <1>1, <1>2, <1>7, <3>1, <3>2 DEF SlotFilled, TypeOK
  <2>5. ASSUME NEW j \in Live' PROVE Listed(j)' \/ Unstored(j)'
    <3>1. CASE j = k BY <1>2, <1>7, <3>1 DEF Unstored
    <3>2. CASE j # k
      <4>1. Listed(j) /\ number'[j] = number[j] BY <1>1, <1>5, <1>7, <2>1, <3>2 DEF TypeOK, Live
      <4>2. QED BY <1>2, <1>4, <4>1 DEF Listed
    <3>3. QED BY <3>1, <3>2
  <2>6. ListKept' BY <2>4, <2>5 DEF ListKept
  <2>7. QED BY <2>2, <2>3, <2>6 DEF ListInv
<1>8. CASE ~(chpid' = Everyone /\ forkFailed' = TRUE /\ UNCHANGED <<kid, number>>)
  <2>1. LET k == CHOOSE k \in Kids : kid[k] = "none"
        IN  /\ kid' = [kid EXCEPT ![k] = "starting"]
            /\ number' = [number EXCEPT ![k] = childCount]
            /\ chpid' = k /\ forkFailed' = forkFailed
    BY <1>8 DEF Fork
  <2>2. \E k \in Kids : kid[k] = "none" BY <1>1, <1>2 DEF Places
  <2>3. QED BY <1>7, <2>1, <2>2
<1>9. QED BY <1>6, <1>8

LEMMA ListStore ==
  ASSUME ListInv, Store
  PROVE  ListInv'
<1>1. TypeOK /\ Places /\ ListKept BY DEF ListInv
<1>2. /\ pc = "store" /\ pc' = "menu" /\ childCount \in Slots
      /\ childPidMas' = [childPidMas EXCEPT ![childCount] = chpid] /\ chpid' = Group
      /\ UNCHANGED <<childCount, mode, index, timer, kid, number, permitted, pending, asked, raced, forkFailed>>
  BY <1>1 DEF Store, kids, Places
<1>3. mode \notin Ending BY <1>1, <1>2 DEF Places
<1>4. Upto = childCount - 1 /\ Upto' = childCount BY <1>2 DEF Upto
<1>5. (\A i \in 0 .. Upto : SlotFilled(i)) /\ (\A k \in Live : Listed(k) \/ chpid = k)
  BY <1>1, <1>2, <1>3 DEF ListKept, Unstored
<1>6. chpid = Everyone \/ (chpid \in Kids /\ kid[chpid] # "none" /\ number[chpid] = childCount)
  BY <1>1, <1>2 DEF Places
<1>7. Live' = Live /\ \A k \in Live : k \in Kids BY <1>2 DEF Live
<1>8. childPidMas' \in [Slots -> Kids \cup {Group, Everyone, Status}] BY <1>1, <1>2 DEF TypeOK
<1>9. TypeOK' BY <1>1, <1>2, <1>7, <1>8 DEF TypeOK
<1>10. Places' BY <1>2, <1>3 DEF Places
<1>11. childCount \in Nat /\ childPidMas'[childCount] = chpid
       /\ \A i \in 0 .. childCount - 1 : childPidMas'[i] = childPidMas[i]
  BY <1>1, <1>2, ListAssumption DEF TypeOK, Slots
<1>12. ASSUME NEW i \in 0 .. Upto' PROVE SlotFilled(i)'
  <2>1. CASE i = childCount BY <1>2, <1>6, <1>11, <2>1 DEF SlotFilled
  <2>2. CASE i # childCount
    <3>1. i \in 0 .. childCount - 1 BY <1>4, <1>11, <2>2
    <3>2. QED BY <1>2, <1>4, <1>5, <1>11, <3>1 DEF SlotFilled
  <2>3. QED BY <2>1, <2>2
<1>13. ASSUME NEW k \in Live' PROVE Listed(k)'
  <2>1. CASE chpid = k
    <3>1. number[k] = childCount BY <1>6, <1>7, <2>1, ListAssumption
    <3>2. QED BY <1>2, <1>4, <1>11, <2>1, <3>1 DEF Listed
  <2>2. CASE Listed(k) BY <1>2, <1>4, <1>11, <2>2 DEF Listed
  <2>3. QED BY <1>5, <1>7, <2>1, <2>2
<1>14. ListKept' BY <1>12, <1>13 DEF ListKept
<1>15. QED BY <1>9, <1>10, <1>14 DEF ListInv

-----------------------------------------------------------------------------
(* Steps that destroy children.                                            *)

LEMMA ListDestroy ==
  ASSUME ListInv, Destroy
  PROVE  ListInv'
<1>1. TypeOK /\ Places /\ ListKept BY DEF ListInv
<1>2. /\ pc = "menu"
      /\ UNCHANGED <<childCount, childPidMas, chpid, timer, kid, number, permitted,
                     pending, asked, raced, forkFailed>>
  BY DEF Destroy, list, kids
<1>3. PICK m \in {"one", "all", "quit"} :
        /\ mode' = m
        /\ \/ childCount > -1 /\ pc' = "kill" /\ index' = childCount
           \/ childCount = -1 /\ pc' = (IF m = "quit" THEN "reap" ELSE "menu") /\ UNCHANGED index
  BY DEF Destroy
<1>4. mode \notin Ending BY <1>1, <1>2 DEF Places
<1>5. Upto' = Upto \/ pc' = "reap" BY <1>2, <1>3 DEF Upto
<1>6. index' \in Slots /\ Live' = Live BY <1>1, <1>2, <1>3, ListAssumption DEF TypeOK, Slots, Live
<1>7. TypeOK' BY <1>1, <1>2, <1>3, <1>6 DEF TypeOK, Ending
<1>8. Places' BY <1>2, <1>3 DEF Places, Ending
<1>9. ListKept'
  <2>1. (\A i \in 0 .. Upto : SlotFilled(i)) /\ (\A k \in Live : Listed(k))
    BY <1>1, <1>2, <1>4 DEF ListKept, Unstored
  <2>2. CASE pc' = "reap" BY <1>3, <2>2 DEF ListKept, Ending
  <2>3. CASE Upto' = Upto
    <3>1. \A i \in 0 .. Upto' : SlotFilled(i)' BY <1>2, <2>1, <2>3 DEF SlotFilled
    <3>2. \A k \in Live' : Listed(k)' BY <1>2, <1>6, <2>1, <2>3 DEF Listed
    <3>3. QED BY <3>1, <3>2 DEF ListKept
  <2>4. QED BY <1>5, <2>2, <2>3
<1>10. QED BY <1>7, <1>8, <1>9 DEF ListInv

(* The child of the slot is told to end, and no longer counted on.         *)
LEMMA ListKill ==
  ASSUME ListInv, DestroyKill
  PROVE  ListInv'
<1>1. TypeOK /\ Places /\ ListKept BY DEF ListInv
<1>2. /\ pc = "kill" /\ Kill({childPidMas[index]}, "term", "wait")
      /\ UNCHANGED <<childCount, childPidMas, mode, index, chpid, timer, kid, number,
                     permitted, asked, forkFailed>>
  BY DEF DestroyKill, list
<1>3. /\ pending' \in [Kids -> SUBSET {"allow", "ban", "term"}] /\ raced' \in [Kids -> BOOLEAN]
      /\ \A k \in Kids : pending[k] \subseteq pending'[k]
      /\ \A k \in Kids : pending'[k] # {} => k \in Live
      /\ pc' \in {"gone", "wait"}
  BY <1>1, <1>2, Sent
<1>4. Live' = Live /\ \A k \in Live : k \in Kids BY <1>2 DEF Live
<1>5. TypeOK' BY <1>1, <1>2, <1>3, <1>4 DEF TypeOK
<1>6. Places' BY <1>1, <1>2, <1>3 DEF Places
<1>7. index \in Nat BY <1>1, ListAssumption DEF TypeOK, Slots
<1>8. ASSUME mode' \notin Ending, pc' # "gone"
      PROVE /\ \A i \in 0 .. Upto' : SlotFilled(i)'
            /\ \A k \in Live' : Listed(k)'
  <2>1. Upto = index /\ Upto' = index - 1 BY <1>2, <1>3, <1>8 DEF Upto
  <2>2. (\A i \in 0 .. index : SlotFilled(i)) /\ (\A k \in Live : Listed(k))
    BY <1>1, <1>2, <1>8, <2>1 DEF ListKept, Unstored
  <2>3. \A i \in 0 .. Upto' : SlotFilled(i)' BY <1>2, <1>7, <2>1, <2>2 DEF SlotFilled
  <2>4. ASSUME NEW k \in Live PROVE Listed(k)'
    <3>1. CASE "term" \in pending[k] BY <1>3, <1>4, <3>1 DEF Listed
    <3>2. CASE childPidMas[index] = k
      <4>1. k \in Targets({childPidMas[index]}) BY <3>2 DEF Targets
      <4>2. "term" \in pending'[k] BY <1>2, <1>4, <4>1 DEF Kill
      <4>3. QED BY <4>2 DEF Listed
    <3>3. CASE "term" \notin pending[k] /\ childPidMas[index] # k
      <4>1. number[k] \in 0 .. index /\ childPidMas[number[k]] = k BY <2>1, <2>2, <3>3 DEF Listed
      <4>2. number[k] \in 0 .. Upto' BY <1>7, <2>1, <3>3, <4>1
      <4>3. QED BY <1>2, <4>1, <4>2 DEF Listed
    <3>4. QED BY <3>1, <3>2, <3>3
  <2>5. QED BY <1>4, <2>3, <2>4
<1>9. ListKept' BY <1>8 DEF ListKept
<1>10. QED BY <1>5, <1>6, <1>9 DEF ListInv

(* A child that wait takes was dead already.                               *)
LEMMA Reaped ==
  ASSUME TypeOK, (\E k \in Kids : Reap(k)) \/ UNCHANGED kid
  PROVE  /\ kid' \in [Kids -> {"none", "starting", "ready", "zombie", "reaped"}]
         /\ Live' = Live
         /\ \A k \in Kids : kid[k] = "none" <=> kid'[k] = "none"
BY DEF TypeOK, Reap, Live

LEMMA ListWait ==
  ASSUME ListInv, DestroyWait
  PROVE  ListInv'
<1>1. TypeOK /\ Places /\ ListKept BY DEF ListInv
<1>2. /\ pc = "wait" /\ pc' = "next"
      /\ UNCHANGED <<childCount, mode, index, chpid, timer, number, permitted, pending,
                     asked, raced, forkFailed>>
  BY DEF DestroyWait
<1>3. /\ kid' \in [Kids -> {"none", "starting", "ready", "zombie", "reaped"}]
      /\ Live' = Live
      /\ \A k \in Kids : kid[k] = "none" <=> kid'[k] = "none"
  BY <1>1, Reaped DEF DestroyWait
<1>4. childPidMas' = [childPidMas EXCEPT ![index] = Status] \/ UNCHANGED childPidMas
  BY DEF DestroyWait
<1>5. childPidMas' \in [Slots -> Kids \cup {Group, Everyone, Status}] BY <1>1, <1>4 DEF TypeOK
<1>6. TypeOK' BY <1>1, <1>2, <1>3, <1>5 DEF TypeOK
<1>7. Places' BY <1>1, <1>2 DEF Places
<1>8. ASSUME mode' \notin Ending
      PROVE /\ \A i \in 0 .. Upto' : SlotFilled(i)'
            /\ \A k \in Live' : Listed(k)'
  <2>1. Upto = index - 1 /\ Upto' = index - 1 /\ index \in Slots BY <1>1, <1>2 DEF Upto, TypeOK
  <2>2. (\A i \in 0 .. Upto : SlotFilled(i)) /\ (\A k \in Live : Listed(k))
    BY <1>1, <1>2, <1>8 DEF ListKept, Unstored
  <2>3. \A i \in 0 .. index - 1 : childPidMas'[i] = childPidMas[i]
    BY <1>1, <1>4, <2>1, ListAssumption DEF TypeOK, Slots
  <2>4. \A i \in 0 .. Upto' : SlotFilled(i)' BY <1>2, <1>3, <2>1, <2>2, <2>3 DEF SlotFilled
  <2>5. \A k \in Live' : Listed(k)' BY <1>2, <1>3, <2>1, <2>2, <2>3 DEF Listed
  <2>6. QED BY <2>4, <2>5
<1>9. ListKept' BY <1>8 DEF ListKept
<1>10. QED BY <1>6, <1>7, <1>9 DEF ListInv

(* The next slot, or the end of the command.                               *)
LEMMA ListNext ==
  ASSUME ListInv, DestroyNext
  PROVE  ListInv'
<1>1. TypeOK /\ Places /\ ListKept BY DEF ListInv
<1>2. /\ pc = "next"
      /\ UNCHANGED <<childPidMas, mode, chpid, timer, kid, number, permitted, pending,
                     asked, raced, forkFailed>>
  BY DEF DestroyNext, kids
<1>3. \/ mode = "one" /\ childCount' = childCount - 1 /\ pc' = "menu" /\ UNCHANGED index
      \/ mode # "one" /\ index > 0 /\ index' = index - 1 /\ pc' = "kill" /\ UNCHANGED childCount
      \/ mode = "all" /\ index = 0 /\ childCount' = -1 /\ pc' = "menu" /\ UNCHANGED index
      \/ mode \in Ending /\ index = 0 /\ pc' = "reap" /\ UNCHANGED <<childCount, index>>
  BY DEF DestroyNext
<1>4. mode = "one" => index = childCount BY <1>1, <1>2 DEF Places
<1>5. childCount' \in Slots \cup {-1} /\ index' \in Slots /\ childCount' # MaxChild
  BY <1>1, <1>2, <1>3, <1>4, ListAssumption DEF TypeOK, Slots
<1>6. Live' = Live BY <1>2 DEF Live
<1>7. TypeOK' BY <1>1, <1>2, <1>3, <1>5, <1>6 DEF TypeOK
<1>8. Places' BY <1>2, <1>3 DEF Places, Ending
<1>9. ASSUME mode' \notin Ending
      PROVE /\ \A i \in 0 .. Upto' : SlotFilled(i)'
            /\ \A k \in Live' : Listed(k)'
  <2>1. Upto = index - 1 BY <1>2 DEF Upto
  <2>2. Upto' = Upto BY <1>2, <1>3, <1>4, <1>9, <2>1 DEF Upto
  <2>3. (\A i \in 0 .. Upto : SlotFilled(i)) /\ (\A k \in Live : Listed(k))
    BY <1>1, <1>2, <1>9 DEF ListKept, Unstored
  <2>4. \A i \in 0 .. Upto' : SlotFilled(i)' BY <1>2, <2>2, <2>3 DEF SlotFilled
  <2>5. \A k \in Live' : Listed(k)' BY <1>2, <1>6, <2>2, <2>3 DEF Listed
  <2>6. QED BY <2>4, <2>5
<1>10. ListKept' BY <1>9 DEF ListKept
<1>11. QED BY <1>7, <1>8, <1>10 DEF ListInv

LEMMA ListReap ==
  ASSUME ListInv, ReapAll
  PROVE  ListInv'
<1>1. TypeOK /\ Places BY DEF ListInv
<1>2. /\ pc = "reap" /\ pc' \in {"reap", "gone"}
      /\ UNCHANGED <<childCount, childPidMas, mode, index, chpid, timer, number, permitted,
                     pending, asked, raced, forkFailed>>
  BY DEF ReapAll, list
<1>3. /\ kid' \in [Kids -> {"none", "starting", "ready", "zombie", "reaped"}]
      /\ Live' = Live
  BY <1>1, Reaped DEF ReapAll
<1>4. TypeOK' BY <1>1, <1>2, <1>3 DEF TypeOK
<1>5. Places' BY <1>1, <1>2 DEF Places
<1>6. ListKept' BY <1>1, <1>2 DEF ListKept, Places
<1>7. QED BY <1>4, <1>5, <1>6 DEF ListInv

-----------------------------------------------------------------------------
LEMMA ListStep == ListInv /\ [Next]_vars => ListInv'
<1> SUFFICES ASSUME ListInv, [Next]_vars PROVE ListInv' OBVIOUS
<1>1. CASE ParentStep
  BY <1>1, ListFork, ListStore, ListKill, ListWait, ListNext, ListReap, ListCommands DEF ParentStep
<1>2. CASE Operator BY <1>2, ListCreate, ListDestroy, ListCommands DEF Operator
<1>3. CASE AllowAllChildSendStats BY <1>3, ListCommands
<1>4. CASE HandlerSIGINT BY <1>4, ListInterrupted
<1>5. CASE \E k \in Kids : Start(k) \/ Deliver(k) BY <1>5, ListChild
<1>6. CASE UNCHANGED vars
  <2>1. UNCHANGED <<childCount, childPidMas, pc, mode, index, chpid, timer, kid, number,
                    permitted, pending, asked, raced, forkFailed>>
    BY <1>6 DEF vars, list, parent, kids
  <2>2. TypeOK' BY <2>1 DEF ListInv, TypeOK, Live
  <2>3. Places' BY <2>1 DEF ListInv, Places
  <2>4. Upto' = Upto BY <2>1 DEF Upto
  <2>5. Live' = Live /\ ListKept BY <2>1 DEF Live, ListInv
  <2>6. ListKept' BY <2>1, <2>4, <2>5 DEF ListKept, SlotFilled, Listed, Unstored
  <2>7. QED BY <2>2, <2>3, <2>6 DEF ListInv
<1>7. QED BY <1>1, <1>2, <1>3, <1>4, <1>5, <1>6 DEF Next

(* Every variable has its type; in particular childCount is -1 or a slot,  *)
(* also when SIGINT cuts '-' or 'k' short (lab3.c:153-166).                *)
THEOREM TypeCorrect == Spec => []TypeOK
<1>1. ListInv => TypeOK BY DEF ListInv
<1>2. QED BY <1>1, ListInit, ListStep, PTL DEF Spec

(* Whenever the parent is at its menu, the slots in use hold the children  *)
(* with their numbers and no child that still runs is missing, unless it   *)
(* was told to end.                                                        *)
THEOREM SlotsHoldChildren == Spec => []SlotsAreChildren
<1>1. ASSUME ListInv, pc = "menu"
      PROVE /\ \A i \in InList : \/ childPidMas[i] = Everyone
                                 \/ childPidMas[i] \in Kids /\ number[childPidMas[i]] = i
            /\ \A k \in Live : "term" \in pending[k] \/ (number[k] \in InList /\ childPidMas[number[k]] = k)
  <2>1. mode \notin Ending BY <1>1 DEF ListInv, Places
  <2>2. Upto = childCount BY <1>1 DEF Upto
  <2>3. (\A i \in InList : SlotFilled(i)) /\ (\A k \in Live : Listed(k))
    BY <1>1, <2>1, <2>2 DEF ListInv, ListKept, Unstored, InList
  <2>4. QED BY <2>2, <2>3 DEF SlotFilled, Listed, InList
<1>2. ListInv => SlotsAreChildren BY <1>1 DEF SlotsAreChildren
<1>3. QED BY <1>2, ListInit, ListStep, PTL DEF Spec
-----------------------------------------------------------------------------
(* Permissions.                                                            *)

(* A kill of a slot reaches the child of that slot alone, unless a fork    *)
(* has failed.                                                             *)
NoStrangers ==
  ~forkFailed => chpid # Everyone /\ \A i \in Slots : childPidMas[i] # Everyone

(* A child that was not forked yet has what fork and execv give it.        *)
Unforked == \A k \in Kids : kid[k] = "none" => asked[k] /\ permitted[k] /\ ~raced[k]

(* Also while the parent ends, the timer finds every child that was not    *)
(* told to end.                                                            *)
EndsInOrder ==
  /\ pc \in {"kill", "wait", "next", "allow"} => index <= childCount
  /\ mode = "handler" /\ pc # "gone" => \A k \in Live : "term" \in pending[k]
  /\ mode = "quit" /\ pc = "reap" => \A k \in Live : "term" \in pending[k]
  /\ mode = "quit" /\ pc \in {"kill", "wait", "next"} => \A k \in Live : Listed(k)

(* The child that `p` is about to allow.                                   *)
Chosen(k) == pc = "allow" /\ number[k] = index

(* The permission of a child, after the signals that are under way, is the *)
(* one that was asked.                                                     *)
Settled(k) ==
  /\ pending[k] = {} => (permitted[k] <=> asked[k])
  /\ "allow" \in pending[k] => asked[k]
  /\ "ban" \in pending[k] => ~asked[k]

Answers(k) ==
  /\ ~raced[k] => ~({"allow", "ban"} \subseteq pending[k])
  /\ ~raced[k] /\ ~Chosen(k) => Settled(k)
  /\ Chosen(k) \/ Unstored(k) => asked[k]

PermissionInv ==
  ~forkFailed => \A k \in Live : "term" \in pending[k] \/ Answers(k)

AnswerInv == ListInv /\ NoStrangers /\ Unforked /\ EndsInOrder /\ PermissionInv

-----------------------------------------------------------------------------
LEMMA StrangersStep ==
  ASSUME ListInv, NoStrangers, Next
  PROVE  NoStrangers'
<1> SUFFICES ASSUME ~forkFailed' PROVE chpid' # Everyone /\ \A i \in Slots : childPidMas'[i] # Everyone
  BY DEF NoStrangers
<1>1. TypeOK /\ Places BY DEF ListInv
<1>2. CASE Fork
  <2>1. pc = "fork" /\ UNCHANGED childPidMas BY <1>2 DEF Fork, list
  <2>2. LET k == CHOOSE k \in Kids : kid[k] = "none"
        IN  chpid' = k /\ UNCHANGED forkFailed
    BY <1>2 DEF Fork
  <2>3. \E k \in Kids : kid[k] = "none" BY <1>1, <2>1 DEF Places
  <2>4. chpid' \in Kids BY <2>2, <2>3
  <2>5. QED BY <2>1, <2>2, <2>4, ListAssumption DEF NoStrangers
<1>3. CASE Store
  <2>1. childPidMas' = [childPidMas EXCEPT ![childCount] = chpid] /\ chpid' = Group /\ UNCHANGED forkFailed
    BY <1>3 DEF Store
  <2>2. \A i \in Slots : childPidMas'[i] = childPidMas[i] \/ childPidMas'[i] = chpid BY <1>1, <2>1 DEF TypeOK
  <2>3. QED BY <2>1, <2>2, ListAssumption DEF NoStrangers
<1>4. CASE DestroyWait
  <2>1. /\ childPidMas' = [childPidMas EXCEPT ![index] = Status] \/ UNCHANGED childPidMas
        /\ UNCHANGED <<chpid, forkFailed>>
    BY <1>4 DEF DestroyWait
  <2>2. \A i \in Slots : childPidMas'[i] = childPidMas[i] \/ childPidMas'[i] = Status BY <1>1, <2>1 DEF TypeOK
  <2>3. QED BY <2>1, <2>2, ListAssumption DEF NoStrangers
<1>5. CASE UNCHANGED <<childPidMas, chpid, forkFailed>> BY <1>5 DEF NoStrangers
<1>6. ParentStep => Fork \/ Store \/ DestroyWait \/ UNCHANGED <<childPidMas, chpid, forkFailed>>
  BY DEF ParentStep, DestroyKill, DestroyNext, ReapAll, ShowOneAllow, list
<1>7. Operator => UNCHANGED <<childPidMas, chpid, forkFailed>>
  BY DEF Operator, Create, Destroy, SetStats, ShowOne, list
<1>8. AllowAllChildSendStats \/ HandlerSIGINT => UNCHANGED <<childPidMas, chpid, forkFailed>>
  BY DEF AllowAllChildSendStats, HandlerSIGINT, list
<1>9. (\E k \in Kids : Start(k) \/ Deliver(k)) => UNCHANGED <<childPidMas, chpid, forkFailed>>
  BY DEF Start, Deliver, list, parent
<1>10. QED BY <1>2, <1>3, <1>4, <1>5, <1>6, <1>7, <1>8, <1>9 DEF Next

(* What kill does with a child that it reaches, and with one that it does  *)
(* not.                                                                    *)
LEMMA KillReaches ==
  ASSUME TypeOK, NEW pids, NEW signal, NEW to, Kill(pids, signal, to), NEW k \in Targets(pids)
  PROVE  pending'[k] = pending[k] \cup {signal} /\ (raced'[k] <=> Contrary(signal) \in pending[k])
<1>1. k \in Kids BY DEF Targets, Live
<1>2. pending'[k] = pending[k] \cup {signal} BY <1>1 DEF Kill
<1>3. raced'[k] <=> Contrary(signal) \in pending[k] BY <1>1, Zenon DEF Kill
<1>4. QED BY <1>2, <1>3

LEMMA KillMisses ==
  ASSUME TypeOK, NEW pids, NEW signal, NEW to, Kill(pids, signal, to), NEW k \in Kids, k \notin Targets(pids)
  PROVE  pending'[k] = pending[k] /\ raced'[k] = raced[k]
<1>1. pending'[k] = pending[k] BY DEF Kill
<1>2. raced'[k] = raced[k] BY Zenon DEF Kill
<1>3. QED BY <1>1, <1>2

(* Only a fork adds a child; a child that was told to end remains told     *)
(* until it does.                                                          *)
ToldStay ==
  /\ Live' \subseteq Live
  /\ \A k \in Live' : "term" \in pending[k] => "term" \in pending'[k]

LEMMA KillToldStay ==
  ASSUME ListInv, NEW pids, NEW signal \in {"allow", "ban", "term"}, NEW to, Kill(pids, signal, to), UNCHANGED kid
  PROVE  ToldStay
<1>1. \A k \in Kids : pending[k] \subseteq pending'[k] BY Sent DEF ListInv
<1>2. Live' = Live /\ \A k \in Live : k \in Kids BY DEF Live
<1>3. QED BY <1>1, <1>2 DEF ToldStay

LEMMA DiesToldStay ==
  ASSUME ListInv, NEW k \in Kids, Dies(k)
  PROVE  ToldStay /\ k \notin Live'
<1>1. TypeOK BY DEF ListInv
<1>2. kid' = [kid EXCEPT ![k] = "zombie"] /\ pending' = [pending EXCEPT ![k] = {}] BY DEF Dies
<1>3. Live' \subseteq Live \ {k} BY <1>1, <1>2 DEF Live, TypeOK
<1>4. \A j \in Live' : pending'[j] = pending[j] BY <1>1, <1>2, <1>3 DEF Live, TypeOK
<1>5. QED BY <1>3, <1>4 DEF ToldStay

LEMMA ChildToldStay ==
  ASSUME ListInv, NEW k \in Kids, Start(k) \/ Deliver(k)
  PROVE  ToldStay
<1>1. TypeOK BY DEF ListInv
<1>2. CASE Dies(k) BY <1>2, DiesToldStay
<1>3. CASE kid[k] = "starting" /\ kid' = [kid EXCEPT ![k] = "ready"] /\ UNCHANGED pending
  <2>1. Live' = Live BY <1>1, <1>3 DEF Live, TypeOK
  <2>2. QED BY <1>3, <2>1 DEF ToldStay
<1>4. ASSUME NEW signal \in pending[k], signal # "term", pending' = [pending EXCEPT ![k] = @ \ {signal}], UNCHANGED kid
      PROVE  ToldStay
  <2>1. \A j \in Kids : "term" \in pending[j] => "term" \in pending'[j] BY <1>1, <1>4 DEF TypeOK
  <2>2. Live' = Live /\ \A j \in Live : j \in Kids BY <1>4 DEF Live
  <2>3. QED BY <2>1, <2>2 DEF ToldStay
<1>5. CASE Start(k) BY <1>2, <1>3, <1>5 DEF Start
<1>6. CASE Deliver(k)
  <2>1. PICK signal \in pending[k] :
          IF kid[k] = "starting" \/ signal = "term" THEN Dies(k)
          ELSE /\ pending' = [pending EXCEPT ![k] = @ \ {signal}]
               /\ permitted' = [permitted EXCEPT ![k] = signal = "allow"]
               /\ UNCHANGED <<kid, asked, raced>>
    BY <1>6 DEF Deliver
  <2>2. QED BY <1>2, <1>4, <2>1
<1>7. QED BY <1>5, <1>6

LEMMA WaitToldStay ==
  ASSUME ListInv, DestroyWait \/ ReapAll
  PROVE  ToldStay
<1>1. Live' = Live /\ UNCHANGED pending BY Reaped DEF ListInv, DestroyWait, ReapAll
<1>2. QED BY <1>1 DEF ToldStay

LEMMA ParentToldStay ==
  ASSUME ListInv, Next, ~Fork
  PROVE  ToldStay
<1>1. CASE UNCHANGED <<kid, pending>>
  <2>1. Live' = Live BY <1>1 DEF Live
  <2>2. QED BY <1>1, <2>1 DEF ToldStay
<1>2. Store \/ DestroyNext \/ Create \/ Destroy => UNCHANGED <<kid, pending>>
  BY DEF Store, DestroyNext, Create, Destroy, kids
<1>3. CASE SetStats
  <2>1. PICK signal \in {"allow", "ban"}, numbers \in {{n} : n \in InList} \cup {InList} :
          Kill({childPidMas[i] : i \in numbers}, signal, "menu") /\ Ask(numbers, signal = "allow")
    BY <1>3 DEF SetStats
  <2>2. UNCHANGED kid BY <1>3 DEF SetStats
  <2>3. QED BY <2>1, <2>2, KillToldStay
<1>4. CASE ShowOne BY <1>4, KillToldStay DEF ShowOne
<1>5. CASE ShowOneAllow BY <1>5, KillToldStay DEF ShowOneAllow
<1>6. CASE AllowAllChildSendStats BY <1>6, KillToldStay DEF AllowAllChildSendStats
<1>7. CASE DestroyKill BY <1>7, KillToldStay DEF DestroyKill
<1>8. CASE HandlerSIGINT
  <2>1. /\ pending' = [k \in Kids |-> IF k \in Live THEN pending[k] \cup {"term"} ELSE pending[k]]
        /\ UNCHANGED kid
    BY <1>8 DEF HandlerSIGINT
  <2>2. Live' = Live /\ \A k \in Live : k \in Kids BY <2>1 DEF Live
  <2>3. QED BY <2>1, <2>2 DEF ToldStay
<1>9. CASE \E k \in Kids : Start(k) \/ Deliver(k) BY <1>9, ChildToldStay
<1>10. QED BY <1>1, <1>2, <1>3, <1>4, <1>5, <1>6, <1>7, <1>8, <1>9, WaitToldStay DEF Next, ParentStep, Operator

(* Signals go to children that were forked, and the answers of the others  *)
(* stay what they are.                                                     *)
LEMMA KillUnforked ==
  ASSUME TypeOK, Unforked, NEW pids, NEW signal, NEW to, Kill(pids, signal, to),
         \A k \in Kids : k \notin Live => asked'[k] = asked[k],
         UNCHANGED <<kid, permitted>>
  PROVE  Unforked'
<1> SUFFICES ASSUME NEW k \in Kids, kid'[k] = "none" PROVE asked'[k] /\ permitted'[k] /\ ~raced'[k]
  BY DEF Unforked
<1>1. k \notin Live BY DEF Live
<1>2. k \notin Targets(pids) BY <1>1 DEF Targets
<1>3. raced'[k] = raced[k] BY <1>2, KillMisses
<1>4. QED BY <1>1, <1>3 DEF Unforked

LEMMA UnforkedStep ==
  ASSUME ListInv, Unforked, Next
  PROVE  Unforked'
<1>1. TypeOK BY DEF ListInv
<1>2. CASE UNCHANGED <<permitted, asked, raced>> /\ \A k \in Kids : kid'[k] = "none" => kid[k] = "none"
  BY <1>2 DEF Unforked
<1>3. Store \/ DestroyNext \/ Create \/ Destroy \/ HandlerSIGINT => UNCHANGED <<kid, permitted, asked, raced>>
  BY DEF Store, DestroyNext, Create, Destroy, HandlerSIGINT, kids
<1>4. CASE Fork
  <2>1. UNCHANGED <<permitted, asked, raced>> BY <1>4 DEF Fork
  <2>2. UNCHANGED kid \/ \E k \in Kids : kid' = [kid EXCEPT ![k] = "starting"]
    <3>1. pc = "fork" BY <1>4 DEF Fork
    <3>2. \E k \in Kids : kid[k] = "none" BY <3>1 DEF ListInv, Places
    <3>3. QED BY <1>4, <3>2 DEF Fork
  <2>3. \A k \in Kids : kid'[k] = "none" => kid[k] = "none" BY <1>1, <2>2 DEF TypeOK
  <2>4. QED BY <1>2, <2>1, <2>3
<1>5. CASE DestroyWait \/ ReapAll
  <2>1. \A k \in Kids : kid[k] = "none" <=> kid'[k] = "none" BY <1>1, <1>5, Reaped DEF DestroyWait, ReapAll
  <2>2. UNCHANGED <<permitted, asked, raced>> BY <1>5 DEF DestroyWait, ReapAll
  <2>3. QED BY <1>2, <2>1, <2>2
<1>6. CASE SetStats
  <2>1. PICK signal \in {"allow", "ban"}, numbers \in {{n} : n \in InList} \cup {InList} :
          Kill({childPidMas[i] : i \in numbers}, signal, "menu") /\ Ask(numbers, signal = "allow")
    BY <1>6 DEF SetStats
  <2>2. \A k \in Kids : k \notin Live => asked'[k] = asked[k] BY <2>1 DEF Ask
  <2>3. UNCHANGED <<kid, permitted>> BY <1>6 DEF SetStats
  <2>4. QED BY <1>1, <2>1, <2>2, <2>3, KillUnforked
<1>7. CASE ShowOne
  <2>1. PICK n \in InList :
          /\ Kill({childPidMas[i] : i \in InList}, "ban", "allow")
          /\ asked' = [k \in Kids |-> IF k \in Live THEN number[k] = n ELSE asked[k]]
          /\ index' = n
    BY <1>7 DEF ShowOne
  <2>2. \A k \in Kids : k \notin Live => asked'[k] = asked[k] BY <2>1
  <2>3. UNCHANGED <<kid, permitted>> BY <1>7 DEF ShowOne
  <2>4. QED BY <1>1, <2>1, <2>2, <2>3, KillUnforked
<1>8. CASE ShowOneAllow BY <1>1, <1>8, KillUnforked DEF ShowOneAllow
<1>9. CASE DestroyKill BY <1>1, <1>9, KillUnforked DEF DestroyKill
<1>10. CASE AllowAllChildSendStats
  <2>1. \A k \in Kids : k \notin Live => asked'[k] = asked[k] BY <1>10 DEF Ask, AllowAllChildSendStats
  <2>2. QED BY <1>1, <1>10, <2>1, KillUnforked DEF AllowAllChildSendStats
<1>11. CASE \E k \in Kids : Start(k) \/ Deliver(k)
  <2>1. PICK k \in Kids : Start(k) \/ Deliver(k) BY <1>11
  <2>2. k \in Live BY <1>1, <2>1 DEF Start, Deliver, TypeOK, Live
  <2>3. kid'[k] # "none" /\ \A j \in Kids \ {k} : kid'[j] = kid[j]
    BY <1>1, <2>1, <2>2 DEF Start, Deliver, Dies, TypeOK, Live
  <2>4. \A j \in Kids \ {k} : /\ permitted'[j] = permitted[j]
                              /\ asked'[j] = asked[j] /\ raced'[j] = raced[j]
    <3>1. CASE Dies(k) BY <1>1, <3>1 DEF Dies, TypeOK
    <3>2. CASE UNCHANGED <<asked, raced, permitted>> BY <3>2
    <3>3. CASE UNCHANGED <<asked, raced>> /\ \E a \in BOOLEAN : permitted' = [permitted EXCEPT ![k] = a]
      BY <1>1, <3>3 DEF TypeOK
    <3>4. QED BY <2>1, <3>1, <3>2, <3>3 DEF Start, Deliver
  <2>5. QED BY <2>3, <2>4 DEF Unforked
<1>12. QED BY <1>2, <1>3, <1>4, <1>5, <1>6, <1>7, <1>8, <1>9, <1>10, <1>11 DEF Next, ParentStep, Operator

-----------------------------------------------------------------------------
(* While the parent ends.                                                  *)

(* Where the list is kept whole, the timer finds every child that was not  *)
(* told to end, but the one that is not stored yet.                        *)
LEMMA Found ==
  ASSUME ListInv, EndsInOrder, pc # "gone", NEW k \in Live, "term" \notin pending[k], ~Unstored(k)
  PROVE  number[k] \in InList /\ childPidMas[number[k]] = k
<1>1. TypeOK /\ Places /\ ListKept BY DEF ListInv
<1>2. Listed(k) /\ pc # "reap"
  <2>1. CASE mode \notin Ending BY <1>1, <2>1 DEF ListKept, Places
  <2>2. CASE mode = "handler" BY <2>2 DEF EndsInOrder
  <2>3. CASE mode = "quit" BY <1>1, <2>3 DEF EndsInOrder, Places, Ending
  <2>4. QED BY <2>1, <2>2, <2>3 DEF Ending
<1>3. number[k] \in 0 .. Upto /\ childPidMas[number[k]] = k BY <1>2 DEF Listed
<1>4. Upto \in Int /\ Upto <= childCount
  BY <1>1, <1>2, ListAssumption DEF Upto, EndsInOrder, TypeOK, Slots
<1>5. childCount \in Int BY <1>1, ListAssumption DEF TypeOK, Slots
<1>6. QED BY <1>3, <1>4, <1>5 DEF InList

LEMMA IndexInList ==
  ASSUME ListInv, EndsInOrder, Next, pc' \in {"kill", "wait", "next", "allow"}
  PROVE  index' <= childCount'
<1>1. TypeOK /\ childCount \in Int /\ index \in Int BY ListAssumption DEF ListInv, TypeOK, Slots
<1>2. CASE pc' = pc /\ UNCHANGED <<index, childCount>> BY <1>2 DEF EndsInOrder
<1>3. CASE index' \in 0 .. childCount /\ UNCHANGED childCount BY <1>1, <1>3
<1>4. CASE pc \in {"kill", "wait", "next"} /\ (index' = index \/ index' = index - 1) /\ UNCHANGED childCount
  BY <1>1, <1>4 DEF EndsInOrder
<1>5. ParentStep => pc \in {"kill", "wait", "next"} /\ (index' = index \/ index' = index - 1) /\ UNCHANGED childCount
  BY DEF ParentStep, Fork, Store, DestroyKill, DestroyWait, DestroyNext, ReapAll, ShowOneAllow, Kill, list
<1>6. Operator => index' \in 0 .. childCount /\ UNCHANGED childCount
  BY <1>1 DEF Operator, Create, Destroy, SetStats, ShowOne, Kill, InList, list
<1>7. AllowAllChildSendStats => pc' = pc /\ UNCHANGED <<index, childCount>>
  BY DEF AllowAllChildSendStats, Kill, list
<1>8. HandlerSIGINT => index' \in 0 .. childCount /\ UNCHANGED childCount BY <1>1 DEF HandlerSIGINT, list
<1>9. (\E k \in Kids : Start(k) \/ Deliver(k)) => pc' = pc /\ UNCHANGED <<index, childCount>>
  BY DEF Start, Deliver, list, parent
<1>10. QED BY <1>2, <1>3, <1>4, <1>5, <1>6, <1>7, <1>8, <1>9 DEF Next

(* After SIGINT nothing is forked, and every child is on its way out.      *)
LEMMA HandlerTellsAll ==
  ASSUME ListInv, EndsInOrder, Next, mode' = "handler", pc' # "gone"
  PROVE  \A k \in Live' : "term" \in pending'[k]
<1>1. TypeOK /\ Places BY DEF ListInv
<1>2. CASE HandlerSIGINT
  <2>1. /\ pending' = [k \in Kids |-> IF k \in Live THEN pending[k] \cup {"term"} ELSE pending[k]]
        /\ UNCHANGED kid
    BY <1>2 DEF HandlerSIGINT
  <2>2. Live' = Live /\ \A k \in Live : k \in Kids BY <2>1 DEF Live
  <2>3. QED BY <2>1, <2>2
<1>3. CASE ~HandlerSIGINT
  <2>1. ParentStep => mode' = mode /\ pc # "gone"
    BY DEF ParentStep, Fork, Store, DestroyKill, DestroyWait, DestroyNext, ReapAll, ShowOneAllow
  <2>2. ~Operator
    BY <1>1 DEF Operator, Create, Destroy, SetStats, ShowOne, Places, Ending
  <2>3. AllowAllChildSendStats => mode' = mode /\ pc # "gone" BY DEF AllowAllChildSendStats
  <2>4. (\E k \in Kids : Start(k) \/ Deliver(k)) => mode' = mode /\ pc' = pc BY DEF Start, Deliver, parent
  <2>5. mode = "handler" /\ pc # "gone" BY <1>3, <2>1, <2>2, <2>3, <2>4 DEF Next
  <2>6. ~Fork BY <1>1, <2>5 DEF Fork, Places, Ending
  <2>7. ToldStay BY <2>6, ParentToldStay
  <2>8. QED BY <2>5, <2>7 DEF EndsInOrder, ToldStay
<1>4. QED BY <1>2, <1>3

(* After 'q' the list is kept up to index.                                 *)
LEMMA QuitKeepsList ==
  ASSUME ListInv, EndsInOrder, Next, mode' = "quit"
  PROVE  /\ pc' \in {"kill", "wait", "next"} => \A k \in Live' : Listed(k)'
         /\ pc' = "reap" => \A k \in Live' : "term" \in pending'[k]
<1>1. TypeOK /\ Places /\ ListKept BY DEF ListInv
<1>2. childCount \in Int /\ index \in Int BY <1>1, ListAssumption DEF TypeOK, Slots
<1>3. CASE Destroy
  <2>1. /\ pc = "menu" /\ UNCHANGED <<childCount, childPidMas, kid, number, pending>>
        /\ \/ childCount > -1 /\ pc' = "kill" /\ index' = childCount
           \/ childCount = -1 /\ pc' = "reap"
    BY <1>3 DEF Destroy, list, kids
  <2>2. Live' = Live /\ Upto = childCount BY <2>1 DEF Live, Upto
  <2>3. \A k \in Live : Listed(k) BY <1>1, <2>1 DEF ListKept, Places, Unstored
  <2>4. CASE pc' = "kill"
    <3>1. Upto' = Upto BY <2>1, <2>2, <2>4 DEF Upto
    <3>2. QED BY <2>1, <2>2, <2>3, <2>4, <3>1 DEF Listed
  <2>5. CASE pc' = "reap" /\ childCount = -1 BY <2>1, <2>2, <2>3, <2>5 DEF Listed
  <2>6. QED BY <1>2, <2>1, <2>4, <2>5
<1>4. CASE ~Destroy
  <2>1. mode = "quit" /\ pc \in {"kill", "wait", "next", "reap", "gone"}
    <3>1. ParentStep => mode' = mode
      BY DEF ParentStep, Fork, Store, DestroyKill, DestroyWait, DestroyNext, ReapAll, ShowOneAllow
    <3>2. Operator => mode' = mode BY <1>4 DEF Operator, Create, SetStats, ShowOne
    <3>3. AllowAllChildSendStats => mode' = mode BY DEF AllowAllChildSendStats
    <3>4. (\E k \in Kids : Start(k) \/ Deliver(k)) => mode' = mode BY DEF Start, Deliver, parent
    <3>5. ~HandlerSIGINT BY DEF HandlerSIGINT
    <3>6. QED BY <1>1, <3>1, <3>2, <3>3, <3>4, <3>5 DEF Next, Places, Ending
  <2>2. ~Fork /\ ~Store /\ ~Create /\ ~SetStats /\ ~ShowOne /\ ~ShowOneAllow /\ ~HandlerSIGINT
    BY <2>1 DEF Fork, Store, Create, SetStats, ShowOne, ShowOneAllow, HandlerSIGINT
  <2>3. ToldStay BY <2>2, ParentToldStay
  <2>4. UNCHANGED number /\ (pc \in {"kill", "wait", "next"} => UNCHANGED childCount)
    BY <1>4, <2>1, <2>2 DEF Next, ParentStep, Operator, DestroyKill, DestroyWait, DestroyNext, ReapAll,
                      AllowAllChildSendStats, Start, Deliver, list, kids
  <2>5. CASE pc = "reap" \/ pc = "gone"
    <3>1. pc' \in {"reap", "gone"} /\ (pc = "gone" => pc' = "gone")
      BY <1>4, <2>1, <2>2, <2>5 DEF Next, ParentStep, Operator, DestroyKill, DestroyWait, DestroyNext, ReapAll,
                      AllowAllChildSendStats, Start, Deliver, parent, Kill
    <3>2. QED BY <2>1, <2>3, <2>5, <3>1 DEF EndsInOrder, ToldStay
  <2>6. ASSUME pc \in {"kill", "wait", "next"}, UNCHANGED childPidMas, Upto' = Upto,
               pc' \in {"kill", "wait", "next"}
        PROVE  \A k \in Live' : Listed(k)'
    <3>1. \A k \in Live : Listed(k) BY <2>1, <2>6 DEF EndsInOrder
    <3>2. QED BY <2>3, <2>4, <2>6, <3>1 DEF ToldStay, Listed
  <2>7. CASE DestroyKill
    <3>1. pc = "kill" /\ pc' \in {"gone", "wait"} /\ UNCHANGED <<childPidMas, number, index, kid>>
          /\ Kill({childPidMas[index]}, "term", "wait")
      BY <2>7 DEF DestroyKill, list, Kill
    <3>2. ASSUME pc' = "wait", NEW k \in Live' PROVE Listed(k)'
      <4>1. k \in Live /\ k \in Kids /\ Listed(k) BY <2>1, <2>3, <3>1 DEF ToldStay, EndsInOrder, Live
      <4>2. Upto = index /\ Upto' = index - 1 BY <3>1, <3>2 DEF Upto
      <4>3. CASE "term" \in pending[k] BY <2>3, <4>3 DEF ToldStay, Listed
      <4>4. CASE childPidMas[index] = k
        <5>1. k \in Targets({childPidMas[index]}) BY <4>1, <4>4 DEF Targets
        <5>2. "term" \in pending'[k] BY <1>1, <3>1, <5>1, KillReaches
        <5>3. QED BY <5>2 DEF Listed
      <4>5. CASE "term" \notin pending[k] /\ childPidMas[index] # k
        <5>1. number[k] \in 0 .. index /\ childPidMas[number[k]] = k BY <4>1, <4>2, <4>5 DEF Listed
        <5>2. number[k] \in 0 .. Upto' BY <1>2, <4>2, <4>5, <5>1
        <5>3. QED BY <3>1, <5>1, <5>2 DEF Listed
      <4>6. QED BY <4>3, <4>4, <4>5
    <3>3. QED BY <3>1, <3>2
  <2>8. CASE DestroyWait
    <3>1. pc = "wait" /\ pc' = "next" /\ UNCHANGED index
          /\ (childPidMas' = [childPidMas EXCEPT ![index] = Status] \/ UNCHANGED childPidMas)
      BY <2>8 DEF DestroyWait
    <3>2. Upto = index - 1 /\ Upto' = index - 1 BY <3>1 DEF Upto
    <3>3. \A i \in 0 .. index - 1 : childPidMas'[i] = childPidMas[i]
      BY <1>1, <1>2, <3>1, ListAssumption DEF TypeOK, Slots
    <3>4. \A k \in Live : Listed(k) BY <2>1, <3>1 DEF EndsInOrder
    <3>5. \A k \in Live' : Listed(k)' BY <2>3, <2>4, <3>2, <3>3, <3>4 DEF ToldStay, Listed
    <3>6. QED BY <3>1, <3>5
  <2>9. CASE DestroyNext
    <3>1. /\ pc = "next" /\ UNCHANGED <<childPidMas, kid, pending>>
          /\ \/ index > 0 /\ index' = index - 1 /\ pc' = "kill"
             \/ index = 0 /\ pc' = "reap"
      BY <2>1, <2>9 DEF DestroyNext, kids, Ending
    <3>2. Upto = index - 1 BY <3>1 DEF Upto
    <3>3. CASE pc' = "kill" /\ index' = index - 1
      <4>1. Upto' = Upto BY <3>2, <3>3 DEF Upto
      <4>2. QED BY <2>6, <3>1, <3>3, <4>1
    <3>4. CASE pc' = "reap" /\ index = 0
      <4>1. \A k \in Live : Listed(k) BY <2>1, <3>1 DEF EndsInOrder
      <4>2. \A k \in Live : "term" \in pending[k] BY <3>2, <3>4, <4>1 DEF Listed
      <4>3. QED BY <2>3, <3>4, <4>2 DEF ToldStay
    <3>5. QED BY <3>1, <3>3, <3>4
  <2>10. CASE AllowAllChildSendStats \/ \E k \in Kids : Start(k) \/ Deliver(k)
    <3>1. UNCHANGED <<childPidMas, childCount, index>> /\ pc' \in {pc, "gone"}
      BY <2>10 DEF AllowAllChildSendStats, Kill, Start, Deliver, list, parent
    <3>2. pc' = pc => Upto' = Upto BY <3>1 DEF Upto
    <3>3. QED BY <2>1, <2>5, <2>6, <3>1, <3>2
  <2>11. CASE ReapAll BY <2>5, <2>11 DEF ReapAll
  <2>12. QED BY <1>4, <2>2, <2>7, <2>8, <2>9, <2>10, <2>11 DEF Next, ParentStep, Operator
<1>5. QED BY <1>3, <1>4

LEMMA EndsStep ==
  ASSUME ListInv, EndsInOrder, Next
  PROVE  EndsInOrder'
BY IndexInList, HandlerTellsAll, QuitKeepsList DEF EndsInOrder

-----------------------------------------------------------------------------
(* Signals and answers.                                                    *)

(* A child whose signals and answer a step leaves alone.                   *)
LEMMA AnswersKept ==
  ASSUME NEW k, Answers(k),
         pending'[k] = pending[k], raced'[k] = raced[k],
         asked'[k] = asked[k], permitted'[k] = permitted[k],
         Chosen(k)' <=> Chosen(k), Unstored(k)' => Unstored(k)
  PROVE  Answers(k)'
BY DEF Answers, Settled

(* A child to which the signal is sent that its answer asks for.           *)
LEMMA AnswersSent ==
  ASSUME TypeOK, NEW k \in Kids, NEW signal \in {"allow", "ban"},
         pending'[k] = pending[k] \cup {signal}, raced'[k] <=> Contrary(signal) \in pending[k],
         ~Chosen(k)' => (asked'[k] <=> signal = "allow"),
         Chosen(k)' \/ Unstored(k)' => asked'[k]
  PROVE  Answers(k)'
<1>1. CASE signal = "allow" BY <1>1 DEF Answers, Settled, Contrary
<1>2. CASE signal = "ban" BY <1>2 DEF Answers, Settled, Contrary
<1>3. QED BY <1>1, <1>2

(* At the menu and inside `p` every slot in use has its child.             *)
LEMMA SlotsOwned ==
  ASSUME ListInv, NoStrangers, ~forkFailed, pc \in {"menu", "allow"}, NEW i \in InList
  PROVE  childPidMas[i] \in Kids /\ number[childPidMas[i]] = i
<1>1. mode \notin Ending BY DEF ListInv, Places
<1>2. Upto = childCount BY DEF Upto
<1>3. SlotFilled(i) BY <1>1, <1>2 DEF ListInv, ListKept, InList
<1>4. i \in Slots BY ListAssumption DEF ListInv, TypeOK, InList, Slots
<1>5. childPidMas[i] # Everyone BY <1>4 DEF NoStrangers
<1>6. QED BY <1>3, <1>5 DEF SlotFilled

(* There a command reaches the children with the numbers it names, and no  *)
(* other, but those that were told to end.                                 *)
LEMMA NamedReached ==
  ASSUME ListInv, NoStrangers, EndsInOrder, ~forkFailed, pc \in {"menu", "allow"},
         NEW numbers \in SUBSET InList, NEW k \in Live, "term" \notin pending[k]
  PROVE  k \in Targets({childPidMas[i] : i \in numbers}) <=> number[k] \in numbers
<1>1. \A i \in numbers : childPidMas[i] \in Kids /\ number[childPidMas[i]] = i BY SlotsOwned
<1>2. \A i \in numbers : childPidMas[i] # Group /\ childPidMas[i] # Everyone BY <1>1, ListAssumption
<1>3. ~Unstored(k) /\ pc # "gone" BY DEF Unstored
<1>4. childPidMas[number[k]] = k BY <1>3, Found
<1>5. CASE number[k] \in numbers BY <1>4, <1>5 DEF Targets
<1>6. CASE k \in Targets({childPidMas[i] : i \in numbers})
  <2>1. PICK i \in numbers : childPidMas[i] = k BY <1>2, <1>6 DEF Targets
  <2>2. QED BY <1>1, <1>6, <2>1
<1>7. QED BY <1>5, <1>6

LEMMA SetStatsAnswers ==
  ASSUME ListInv, NoStrangers, EndsInOrder, PermissionInv, ~forkFailed, SetStats,
         NEW k \in Live, "term" \notin pending[k]
  PROVE  Answers(k)'
<1>1. TypeOK /\ k \in Kids BY DEF ListInv, Live
<1>2. PICK signal \in {"allow", "ban"}, numbers \in {{n} : n \in InList} \cup {InList} :
        Kill({childPidMas[i] : i \in numbers}, signal, "menu") /\ Ask(numbers, signal = "allow")
  BY DEF SetStats
<1>3. pc = "menu" /\ pc' \in {"menu", "gone"} /\ UNCHANGED <<number, permitted>>
  BY <1>2 DEF SetStats, Kill
<1>4. ~Chosen(k) /\ ~Chosen(k)' /\ ~Unstored(k)' BY <1>3 DEF Chosen, Unstored
<1>5. numbers \in SUBSET InList BY <1>2
<1>6. k \in Targets({childPidMas[i] : i \in numbers}) <=> number[k] \in numbers BY <1>3, <1>5, NamedReached
<1>7. CASE number[k] \in numbers
  <2>1. asked'[k] <=> signal = "allow" BY <1>1, <1>2, <1>7 DEF Ask
  <2>2. pending'[k] = pending[k] \cup {signal} /\ (raced'[k] <=> Contrary(signal) \in pending[k])
    BY <1>1, <1>2, <1>6, <1>7, KillReaches
  <2>3. QED BY <1>1, <1>4, <2>1, <2>2, AnswersSent
<1>8. CASE number[k] \notin numbers
  <2>1. asked'[k] = asked[k] BY <1>1, <1>2, <1>8 DEF Ask
  <2>2. pending'[k] = pending[k] /\ raced'[k] = raced[k] BY <1>1, <1>2, <1>6, <1>8, KillMisses
  <2>3. Answers(k) BY DEF PermissionInv
  <2>4. QED BY <1>3, <1>4, <2>1, <2>2, <2>3, AnswersKept
<1>9. QED BY <1>7, <1>8

LEMMA ShowOneAnswers ==
  ASSUME ListInv, NoStrangers, EndsInOrder, ~forkFailed, ShowOne,
         NEW k \in Live, "term" \notin pending[k]
  PROVE  Answers(k)'
<1>1. TypeOK /\ k \in Kids BY DEF ListInv, Live
<1>2. PICK n \in InList :
        /\ Kill({childPidMas[i] : i \in InList}, "ban", "allow")
        /\ asked' = [j \in Kids |-> IF j \in Live THEN number[j] = n ELSE asked[j]]
        /\ index' = n
  BY DEF ShowOne
<1>3. pc = "menu" /\ UNCHANGED number BY DEF ShowOne
<1>4. Group \notin {childPidMas[i] : i \in InList} BY <1>3, SlotsOwned, ListAssumption
<1>5. pc' = "allow" BY <1>2, <1>4 DEF Kill
<1>6. asked'[k] <=> number[k] = n BY <1>1, <1>2, Zenon
<1>7. Chosen(k)' <=> number[k] = n BY <1>2, <1>3, <1>5 DEF Chosen
<1>8. ~Unstored(k)' BY <1>5 DEF Unstored
<1>9. number[k] \in InList BY <1>3, Found DEF Unstored
<1>10. k \in Targets({childPidMas[i] : i \in InList}) BY <1>3, <1>9, NamedReached
<1>11. pending'[k] = pending[k] \cup {"ban"} /\ (raced'[k] <=> Contrary("ban") \in pending[k])
  BY <1>1, <1>2, <1>10, KillReaches
<1>12. ~Chosen(k)' => (asked'[k] <=> "ban" = "allow") BY <1>6, <1>7
<1>13. QED BY <1>1, <1>6, <1>7, <1>8, <1>11, <1>12, AnswersSent

LEMMA ShowOneAllowAnswers ==
  ASSUME ListInv, NoStrangers, EndsInOrder, PermissionInv, ~forkFailed, ShowOneAllow,
         NEW k \in Live, "term" \notin pending[k]
  PROVE  Answers(k)'
<1>1. TypeOK /\ k \in Kids /\ Answers(k) BY DEF ListInv, Live, PermissionInv
<1>2. /\ pc = "allow" /\ Kill({childPidMas[index]}, "allow", "menu") /\ pc' \in {"menu", "gone"}
      /\ UNCHANGED <<index, number, permitted, asked>>
  BY DEF ShowOneAllow, Kill
<1>3. {index} \in SUBSET InList
  BY <1>1, <1>2, ListAssumption DEF EndsInOrder, TypeOK, InList, Slots
<1>4. {childPidMas[i] : i \in {index}} = {childPidMas[index]} OBVIOUS
<1>5. k \in Targets({childPidMas[i] : i \in {index}}) <=> number[k] \in {index}
  BY <1>2, <1>3, NamedReached
<1>6. ~Chosen(k)' /\ ~Unstored(k)' /\ (Chosen(k) <=> number[k] = index) BY <1>2 DEF Chosen, Unstored
<1>7. CASE Chosen(k)
  <2>1. asked'[k] BY <1>1, <1>2, <1>7 DEF Answers
  <2>2. pending'[k] = pending[k] \cup {"allow"} /\ (raced'[k] <=> Contrary("allow") \in pending[k])
    BY <1>1, <1>2, <1>4, <1>5, <1>6, <1>7, KillReaches
  <2>3. QED BY <1>1, <1>6, <2>1, <2>2, AnswersSent
<1>8. CASE ~Chosen(k)
  <2>1. pending'[k] = pending[k] /\ raced'[k] = raced[k]
    BY <1>1, <1>2, <1>4, <1>5, <1>6, <1>8, KillMisses
  <2>2. QED BY <1>1, <1>2, <1>6, <1>8, <2>1, AnswersKept
<1>9. QED BY <1>7, <1>8

(* The timer finds every child but the one that is not stored yet, which   *)
(* has the permission it would be given.                                   *)
LEMMA TimerAnswers ==
  ASSUME ListInv, NoStrangers, EndsInOrder, PermissionInv, ~forkFailed, AllowAllChildSendStats,
         NEW k \in Live, "term" \notin pending[k]
  PROVE  Answers(k)'
<1> DEFINE pids == {childPidMas[i] : i \in InList}
<1>1. TypeOK /\ k \in Kids /\ Answers(k) BY DEF ListInv, Live, PermissionInv
<1>2. /\ pc # "gone" /\ Kill(pids, "allow", pc) /\ pc' \in {pc, "gone"}
      /\ Ask(Slots, TRUE) /\ UNCHANGED <<index, chpid, number, permitted>>
  BY DEF AllowAllChildSendStats, Kill
<1>3. asked'[k] BY <1>1, <1>2 DEF Ask, TypeOK
<1>4. CASE k \in Targets(pids)
  <2>1. pending'[k] = pending[k] \cup {"allow"} /\ (raced'[k] <=> Contrary("allow") \in pending[k])
    BY <1>1, <1>2, <1>4, KillReaches
  <2>2. QED BY <1>1, <1>3, <2>1, AnswersSent
<1>5. CASE k \notin Targets(pids)
  <2>1. Unstored(k)
    <3>1. SUFFICES ASSUME ~Unstored(k) PROVE FALSE OBVIOUS
    <3>2. number[k] \in InList /\ childPidMas[number[k]] = k BY <1>2, <3>1, Found
    <3>3. QED BY <1>5, <3>2 DEF Targets
  <2>2. asked[k] BY <1>1, <2>1 DEF Answers
  <2>3. pending'[k] = pending[k] /\ raced'[k] = raced[k] BY <1>1, <1>2, <1>5, KillMisses
  <2>4. asked'[k] = asked[k] BY <1>1, <1>2, <2>2 DEF Ask, TypeOK
  <2>5. ~Chosen(k) /\ ~Chosen(k)' BY <1>2, <2>1 DEF Chosen, Unstored
  <2>6. QED BY <1>1, <1>2, <2>1, <2>3, <2>4, <2>5, AnswersKept
<1>6. QED BY <1>4, <1>5

-----------------------------------------------------------------------------
(* A step without signals, that leads to another place.                    *)
LEMMA QuietAnswers ==
  ASSUME PermissionInv, ToldStay, UNCHANGED <<number, permitted, pending, asked, raced, forkFailed>>,
         (pc' = pc /\ UNCHANGED <<index, chpid>>) \/ {pc, pc'} \cap {"allow"} = {},
         pc' = "store" => UNCHANGED <<pc, chpid>>
  PROVE  PermissionInv'
<1> SUFFICES ASSUME ~forkFailed', NEW k \in Live', "term" \notin pending'[k] PROVE Answers(k)'
  BY DEF PermissionInv
<1>1. k \in Live BY DEF ToldStay
<1>2. Answers(k) BY <1>1 DEF PermissionInv
<1>3. Chosen(k)' <=> Chosen(k) BY DEF Chosen
<1>4. Unstored(k)' => Unstored(k) BY DEF Unstored
<1>5. QED BY <1>2, <1>3, <1>4, AnswersKept

LEMMA ForkAnswers ==
  ASSUME ListInv, Unforked, PermissionInv, Fork
  PROVE  PermissionInv'
<1> SUFFICES ASSUME ~forkFailed', NEW j \in Live', "term" \notin pending'[j] PROVE Answers(j)'
  BY DEF PermissionInv
<1>1. TypeOK BY DEF ListInv
<1>2. pc = "fork" /\ pc' = "store" /\ UNCHANGED <<index, permitted, pending, asked, raced>>
  BY DEF Fork
<1>3. PICK k \in Kids : /\ kid[k] = "none" /\ kid' = [kid EXCEPT ![k] = "starting"]
                        /\ number' = [number EXCEPT ![k] = childCount]
                        /\ chpid' = k /\ UNCHANGED forkFailed
  <2>1. \E k \in Kids : kid[k] = "none" BY <1>2 DEF ListInv, Places
  <2>2. QED BY <2>1 DEF Fork
<1>4. ~Chosen(j)' BY <1>2 DEF Chosen
<1>5. CASE j = k
  <2>1. pending[k] = {} BY <1>1, <1>3 DEF TypeOK, Live
  <2>2. asked[k] /\ permitted[k] /\ ~raced[k] BY <1>3 DEF Unforked
  <2>3. QED BY <1>2, <1>4, <1>5, <2>1, <2>2 DEF Answers, Settled
<1>6. CASE j # k
  <2>1. j \in Live BY <1>1, <1>3, <1>6 DEF Live, TypeOK
  <2>2. Answers(j) BY <1>2, <1>3, <2>1 DEF PermissionInv
  <2>3. ~Unstored(j)' /\ ~Chosen(j) BY <1>2, <1>3, <1>6 DEF Unstored, Chosen
  <2>4. QED BY <1>2, <1>4, <2>2, <2>3, AnswersKept
<1>7. QED BY <1>5, <1>6

LEMMA DestroyKillAnswers ==
  ASSUME ListInv, PermissionInv, DestroyKill
  PROVE  PermissionInv'
<1> SUFFICES ASSUME ~forkFailed', NEW k \in Live', "term" \notin pending'[k] PROVE Answers(k)'
  BY DEF PermissionInv
<1>1. TypeOK BY DEF ListInv
<1>2. /\ pc = "kill" /\ Kill({childPidMas[index]}, "term", "wait") /\ pc' \in {"wait", "gone"}
      /\ UNCHANGED <<kid, number, permitted, asked, forkFailed>>
  BY DEF DestroyKill, Kill
<1>3. k \in Live /\ k \in Kids BY <1>2 DEF Live
<1>4. k \notin Targets({childPidMas[index]})
  <2>1. SUFFICES ASSUME k \in Targets({childPidMas[index]}) PROVE FALSE OBVIOUS
  <2>2. "term" \in pending'[k] BY <1>1, <1>2, <2>1, KillReaches
  <2>3. QED BY <2>2
<1>5. pending'[k] = pending[k] /\ raced'[k] = raced[k] BY <1>1, <1>2, <1>3, <1>4, KillMisses
<1>6. Answers(k) BY <1>2, <1>3, <1>5 DEF PermissionInv
<1>7. ~Chosen(k) /\ ~Chosen(k)' /\ ~Unstored(k)' BY <1>2 DEF Chosen, Unstored
<1>8. QED BY <1>2, <1>5, <1>6, <1>7, AnswersKept

(* A signal that arrives settles what it asked.                            *)
LEMMA ChildAnswers ==
  ASSUME ListInv, PermissionInv, NEW k \in Kids, Start(k) \/ Deliver(k)
  PROVE  PermissionInv'
<1> SUFFICES ASSUME ~forkFailed', NEW j \in Live', "term" \notin pending'[j] PROVE Answers(j)'
  BY DEF PermissionInv
<1>1. TypeOK /\ ToldStay BY ChildToldStay DEF ListInv
<1>2. UNCHANGED <<pc, index, chpid, number, forkFailed>> BY DEF Start, Deliver, parent
<1>3. j \in Live /\ j \in Kids /\ "term" \notin pending[j] BY <1>1 DEF ToldStay, Live
<1>4. Answers(j) BY <1>2, <1>3 DEF PermissionInv
<1>5. (Chosen(j)' <=> Chosen(j)) /\ (Unstored(j)' => Unstored(j)) BY <1>2 DEF Chosen, Unstored
<1>6. CASE Dies(k)
  <2>1. j # k BY <1>6, DiesToldStay
  <2>2. /\ pending'[j] = pending[j] /\ raced'[j] = raced[j]
        /\ asked'[j] = asked[j] /\ permitted'[j] = permitted[j]
    BY <1>1, <1>3, <1>6, <2>1 DEF Dies, TypeOK
  <2>3. QED BY <1>4, <1>5, <2>2, AnswersKept
<1>7. CASE UNCHANGED <<permitted, pending, asked, raced>> BY <1>4, <1>5, <1>7, AnswersKept
<1>8. ASSUME NEW signal \in pending[k], signal # "term",
             pending' = [pending EXCEPT ![k] = @ \ {signal}],
             permitted' = [permitted EXCEPT ![k] = signal = "allow"],
             UNCHANGED <<asked, raced>>
      PROVE  Answers(j)'
  <2>1. CASE j # k
    <3>1. pending'[j] = pending[j] /\ permitted'[j] = permitted[j]
      BY <1>1, <1>3, <1>8, <2>1 DEF TypeOK
    <3>2. QED BY <1>4, <1>5, <1>8, <3>1, AnswersKept
  <2>2. CASE j = k
    <3>1. pending'[j] = pending[j] \ {signal} BY <1>1, <1>3, <1>8, <2>2 DEF TypeOK
    <3>2. permitted'[j] <=> signal = "allow" BY <1>1, <1>3, <1>8, <2>2, Zenon DEF TypeOK
    <3>3. pending[j] \subseteq {"allow", "ban"} /\ signal \in pending[j] BY <1>1, <1>3, <2>2 DEF TypeOK
    <3>4. ~raced[j] => ~({"allow", "ban"} \subseteq pending'[j]) BY <1>4, <3>1 DEF Answers
    <3>5. ASSUME ~raced[j], ~Chosen(j) PROVE Settled(j)'
      <4>1. Settled(j) /\ ~({"allow", "ban"} \subseteq pending[j]) BY <1>4, <3>5 DEF Answers
      <4>2. pending'[j] = {} /\ (signal = "allow" <=> asked[j]) BY <3>1, <3>3, <4>1 DEF Settled
      <4>3. QED BY <1>8, <3>2, <4>2 DEF Settled
    <3>6. QED BY <1>4, <1>5, <1>8, <3>4, <3>5 DEF Answers
  <2>3. QED BY <2>1, <2>2
<1>9. CASE Start(k) BY <1>6, <1>7, <1>9 DEF Start
<1>10. CASE Deliver(k)
  <2>1. PICK signal \in pending[k] :
          IF kid[k] = "starting" \/ signal = "term" THEN Dies(k)
          ELSE /\ pending' = [pending EXCEPT ![k] = @ \ {signal}]
               /\ permitted' = [permitted EXCEPT ![k] = signal = "allow"]
               /\ UNCHANGED <<kid, asked, raced>>
    BY <1>10 DEF Deliver
  <2>2. QED BY <1>6, <1>8, <2>1
<1>11. QED BY <1>9, <1>10

LEMMA CommandAnswers ==
  ASSUME ListInv, NoStrangers, EndsInOrder, PermissionInv,
         SetStats \/ ShowOne \/ ShowOneAllow \/ AllowAllChildSendStats
  PROVE  PermissionInv'
<1> SUFFICES ASSUME ~forkFailed', NEW k \in Live', "term" \notin pending'[k] PROVE Answers(k)'
  BY DEF PermissionInv
<1>1. UNCHANGED <<kid, forkFailed>> BY DEF SetStats, ShowOne, ShowOneAllow, AllowAllChildSendStats
<1>2. ToldStay BY ParentToldStay DEF Next, ParentStep, Operator, Fork, SetStats, ShowOne, ShowOneAllow, AllowAllChildSendStats
<1>3. k \in Live /\ "term" \notin pending[k] BY <1>2 DEF ToldStay
<1>4. QED BY <1>1, <1>3, SetStatsAnswers, ShowOneAnswers, ShowOneAllowAnswers, TimerAnswers

LEMMA PermissionStep ==
  ASSUME ListInv, NoStrangers, Unforked, EndsInOrder, PermissionInv, Next
  PROVE  PermissionInv'
<1>1. CASE Fork BY <1>1, ForkAnswers
<1>2. CASE Store \/ DestroyWait \/ DestroyNext \/ ReapAll \/ Create \/ Destroy
  <2>1. ~Fork BY <1>2 DEF Fork, Store, DestroyWait, DestroyNext, ReapAll, Create, Destroy
  <2>2. ToldStay BY <2>1, ParentToldStay
  <2>3. UNCHANGED <<number, permitted, pending, asked, raced, forkFailed>>
    BY <1>2 DEF Store, DestroyWait, DestroyNext, ReapAll, Create, Destroy, kids
  <2>4. {pc, pc'} \cap {"allow"} = {} /\ pc' # "store"
    BY <1>2 DEF Store, DestroyWait, DestroyNext, ReapAll, Create, Destroy
  <2>5. QED BY <2>2, <2>3, <2>4, QuietAnswers
<1>3. CASE DestroyKill BY <1>3, DestroyKillAnswers
<1>4. CASE SetStats \/ ShowOne \/ ShowOneAllow \/ AllowAllChildSendStats BY <1>4, CommandAnswers
<1>5. CASE HandlerSIGINT
  <2>1. mode' = "handler" /\ pc' # "gone" BY <1>5 DEF HandlerSIGINT
  <2>2. QED BY <2>1, HandlerTellsAll DEF PermissionInv
<1>6. CASE \E k \in Kids : Start(k) \/ Deliver(k) BY <1>6, ChildAnswers
<1>7. QED BY <1>1, <1>2, <1>3, <1>4, <1>5, <1>6 DEF Next, ParentStep, Operator

LEMMA AnswerInit == Init => AnswerInv
<1> SUFFICES ASSUME Init PROVE AnswerInv OBVIOUS
<1>1. ListInv BY ListInit
<1>2. NoStrangers /\ Unforked /\ EndsInOrder BY ListAssumption DEF Init, NoStrangers, Unforked, EndsInOrder, Ending
<1>3. PermissionInv BY DEF Init, PermissionInv, Live
<1>4. QED BY <1>1, <1>2, <1>3 DEF AnswerInv

LEMMA AnswerStep == AnswerInv /\ [Next]_vars => AnswerInv'
<1> SUFFICES ASSUME AnswerInv, [Next]_vars PROVE AnswerInv' OBVIOUS
<1> USE DEF AnswerInv
<1>1. ListInv' BY ListStep
<1>2. CASE Next BY <1>1, <1>2, StrangersStep, UnforkedStep, EndsStep, PermissionStep
<1>3. CASE UNCHANGED vars
  <2>1. UNCHANGED <<childCount, childPidMas, pc, mode, index, chpid, timer, kid, number,
                    permitted, pending, asked, raced, forkFailed>>
    BY <1>3 DEF vars, list, parent, kids
  <2>2. Live' = Live /\ Upto' = Upto BY <2>1 DEF Live, Upto
  <2>3. NoStrangers' /\ Unforked' BY <2>1 DEF NoStrangers, Unforked
  <2>4. EndsInOrder' BY <2>1, <2>2 DEF EndsInOrder, Listed
  <2>5. ToldStay BY <2>1, <2>2 DEF ToldStay
  <2>6. PermissionInv' BY <2>1, <2>5, QuietAnswers
  <2>7. QED BY <1>1, <2>3, <2>4, <2>6
<1>4. QED BY <1>2, <1>3

(* When all signals have arrived, and none was sent while the contrary was *)
(* under way, a child has the permission that s, g, p or the timer asked   *)
(* for it last (lab3.c:95, 174-204), whenever children start, die and are      *)
(* destroyed, unless a fork has failed.                                    *)
THEOREM PermissionsAnswer == Spec => []PermissionAsAsked
<1>1. ASSUME AnswerInv, NEW k \in Kids, kid[k] = "ready", pending[k] = {}, ~raced[k], ~forkFailed, pc # "allow"
      PROVE  permitted[k] = asked[k]
  <2>1. k \in Live BY <1>1 DEF Live
  <2>2. Settled(k) BY <1>1, <2>1 DEF AnswerInv, PermissionInv, Answers, Chosen
  <2>3. permitted[k] <=> asked[k] BY <1>1, <2>2 DEF Settled
  <2>4. permitted[k] \in BOOLEAN /\ asked[k] \in BOOLEAN BY <1>1 DEF AnswerInv, ListInv, TypeOK
  <2>5. QED BY <2>3, <2>4
<1>2. AnswerInv => PermissionAsAsked BY <1>1 DEF PermissionAsAsked
<1>3. QED BY <1>2, AnswerInit, AnswerStep, PTL DEF Spec

-----------------------------------------------------------------------------
(* child.c.                                                                *)

(* countTimes never runs ahead of the samples counted: the reset may leave *)
(* it behind them, not before.                                             *)
TimesAreCounted == loop \notin Clearing => countTimes <= Total(count)

(* Since the test, what is read of the counters and what is yet to be read *)
(* of them adds up to a full report.                                       *)
ReportWillBeFull ==
  /\ loop \in {"permission", "readOneZero"} => Total(count) > MinTimes
  /\ loop = "readZeroOne" =>
       report["OneZero"] + count["ZeroOne"] + count["OneOne"] + count["ZeroZero"] > MinTimes
  /\ loop = "readOneOne" =>
       report["OneZero"] + report["ZeroOne"] + count["OneOne"] + count["ZeroZero"] > MinTimes
  /\ loop = "readZeroZero" =>
       report["OneZero"] + report["ZeroOne"] + report["OneOne"] + count["ZeroZero"] > MinTimes

(* What the reset has done so far, if it has not copied a sample.          *)
ResetSoFar ==
  ~carried =>
    /\ loop \in Clearing \ {"clearOneZero"} => count["OneZero"] = 0
    /\ loop \in {"clearOneOne", "clearZeroZero", "clearTimes"} => count["ZeroOne"] = 0
    /\ loop \in {"clearZeroZero", "clearTimes"} => count["OneOne"] <= since
    /\ loop = "clearTimes" => count["ZeroZero"] = 0

(* The pair is (1,1) after the last of its stores because of the one       *)
(* before it.                                                              *)
PairFills == loop = "oneSecond" => first = 1

StatsInv ==
  /\ ChildTypeOK /\ PairFills /\ TimesAreCounted /\ ReportWillBeFull /\ ReportIsFull
  /\ ResetSoFar /\ NoSampleTwice

LEMMA StatsInit == ChildInit => StatsInv
<1> SUFFICES ASSUME ChildInit PROVE StatsInv OBVIOUS
<1> USE DEF ChildInit, Kinds, Total
<1>1. ChildTypeOK /\ PairFills BY DEF ChildTypeOK, Pc, Storing, PairFills
<1>2. TimesAreCounted BY DEF TimesAreCounted
<1>3. ReportWillBeFull /\ ReportIsFull BY DEF ReportWillBeFull, ReportIsFull
<1>4. ResetSoFar BY DEF ResetSoFar, Clearing
<1>5. NoSampleTwice BY DEF NoSampleTwice
<1>6. QED BY <1>1, <1>2, <1>3, <1>4, <1>5 DEF StatsInv

(* A sample adds one to one counter, and to countOneAndOne once the pair   *)
(* rests.                                                                  *)
LEMMA SampleCounted ==
  ASSUME ChildTypeOK, PairProcessing
  PROVE  /\ count' \in [Kinds -> Nat]
         /\ Total(count') = Total(count) + 1
         /\ \A k \in Kinds : count'[k] >= count[k]
         /\ loop \notin Storing =>
              /\ count'["OneOne"] = count["OneOne"] + 1
              /\ \A k \in Kinds \ {"OneOne"} : count'[k] = count[k]
<1> USE DEF ChildTypeOK, PairProcessing, Kinds
<1>1. PICK k \in Kinds : /\ count' = [count EXCEPT ![k] = count[k] + 1]
                         /\ loop \notin Storing => k = "OneOne"
  <2>1. /\ Kind(first, second) \in Kinds
        /\ loop \notin Storing => Kind(first, second) = "OneOne"
    BY DEF Kind
  <2>2. QED BY <2>1
<1>2. count' \in [Kinds -> Nat] BY <1>1
<1>3. Total(count') = Total(count) + 1 BY <1>1 DEF Total
<1>4. \A j \in Kinds : count'[j] >= count[j] BY <1>1
<1>5. loop \notin Storing => /\ count'["OneOne"] = count["OneOne"] + 1
                             /\ \A j \in Kinds \ {"OneOne"} : count'[j] = count[j]
  BY <1>1
<1>6. QED BY <1>2, <1>3, <1>4, <1>5

LEMMA StatsSample ==
  ASSUME StatsInv, PairProcessing
  PROVE  StatsInv'
<1>1. /\ ChildTypeOK /\ PairFills /\ TimesAreCounted /\ ReportWillBeFull /\ ReportIsFull
      /\ ResetSoFar /\ NoSampleTwice
  BY DEF StatsInv
<1>2. /\ count' \in [Kinds -> Nat] /\ Total(count') = Total(count) + 1
      /\ \A k \in Kinds : count'[k] >= count[k]
      /\ loop \notin Storing => /\ count'["OneOne"] = count["OneOne"] + 1
                                /\ \A k \in Kinds \ {"OneOne"} : count'[k] = count[k]
  BY <1>1, SampleCounted
<1>3. /\ countTimes' = countTimes + 1 /\ since' = since + 1
      /\ UNCHANGED <<first, second, permissionOutput, loop, report, carried>>
  BY DEF PairProcessing
<1>4. ChildTypeOK' /\ PairFills' BY <1>1, <1>2, <1>3 DEF ChildTypeOK, PairFills
<1>5. Total(count) \in Nat /\ count \in [Kinds -> Nat] /\ report \in [Kinds -> Nat]
  BY <1>1 DEF ChildTypeOK, Total, Kinds
<1>6. TimesAreCounted' BY <1>1, <1>2, <1>3, <1>5 DEF TimesAreCounted, ChildTypeOK
<1>7. ReportWillBeFull'
  BY <1>1, <1>2, <1>3, <1>5, StatsAssumption DEF ReportWillBeFull, Kinds
<1>8. ReportIsFull' BY <1>1, <1>3 DEF ReportIsFull
<1>9. ResetSoFar'
  BY <1>1, <1>2, <1>3, <1>5
  DEF ResetSoFar, Clearing, Storing, Kinds, ChildTypeOK
<1>10. NoSampleTwice' BY <1>1, <1>2, <1>3, <1>5 DEF NoSampleTwice, ChildTypeOK
<1>11. QED BY <1>4, <1>6, <1>7, <1>8, <1>9, <1>10 DEF StatsInv

(* The stores of the pair, the two tests and the end of printf leave all   *)
(* counters as they are.                                                   *)
LEMMA StatsQuiet ==
  ASSUME StatsInv,
         StorePair \/ TestTimes \/ TestPermission \/ PrintReport
  PROVE  StatsInv'
<1>1. /\ ChildTypeOK /\ PairFills /\ TimesAreCounted /\ ReportWillBeFull /\ ReportIsFull
      /\ ResetSoFar /\ NoSampleTwice
  BY DEF StatsInv
<1>2. UNCHANGED <<count, countTimes, permissionOutput, report, since, carried>>
  BY DEF StorePair, TestTimes, TestPermission, PrintReport
<1>3. ChildTypeOK' /\ PairFills'
  <2>1. CASE StorePair BY <1>1, <1>2, <2>1
    DEF ChildTypeOK, PairFills, StorePair, Goto, Pc, Storing
  <2>2. CASE TestTimes BY <1>1, <1>2, <2>2
    DEF ChildTypeOK, PairFills, TestTimes, Goto, Pc, Storing
  <2>3. CASE TestPermission
    BY <1>1, <1>2, <2>3
    DEF ChildTypeOK, PairFills, TestPermission, Goto, Pc, Storing,
        Reading
  <2>4. CASE PrintReport BY <1>1, <1>2, <2>4
    DEF ChildTypeOK, PairFills, PrintReport, Goto, Pc, Storing,
        Clearing
  <2>5. QED BY <2>1, <2>2, <2>3, <2>4
<1>4. TimesAreCounted'
  BY <1>1, <1>2
  DEF TimesAreCounted, StorePair, TestTimes, TestPermission,
      PrintReport, Goto, Clearing
<1>5. ReportWillBeFull'
  <2>1. Total(count) \in Nat BY <1>1 DEF ChildTypeOK, Total, Kinds
  <2>2. QED
    BY <1>1, <1>2, <2>1, StatsAssumption
    DEF ReportWillBeFull, TimesAreCounted, ChildTypeOK, StorePair, TestTimes,
        TestPermission, PrintReport, Goto, Clearing
<1>6. ReportIsFull'
  BY <1>1, <1>2
  DEF ReportIsFull, StorePair, TestTimes, TestPermission,
      PrintReport, Goto
<1>7. ResetSoFar'
  BY <1>1, <1>2
  DEF ResetSoFar, StorePair, TestTimes, TestPermission, PrintReport,
      Goto, Clearing
<1>8. NoSampleTwice'
  BY <1>1, <1>2
  DEF NoSampleTwice, StorePair, TestTimes, TestPermission,
      PrintReport, Goto, Clearing
<1>9. QED BY <1>3, <1>4, <1>5, <1>6, <1>7, <1>8 DEF StatsInv

(* Reading a counter moves it from the rest of the sum to the report.      *)
LEMMA StatsRead ==
  ASSUME StatsInv, ReadCounters
  PROVE  StatsInv'
<1>1. /\ ChildTypeOK /\ PairFills /\ TimesAreCounted /\ ReportWillBeFull /\ ReportIsFull
      /\ ResetSoFar /\ NoSampleTwice
  BY DEF StatsInv
<1>2. UNCHANGED <<first, second, count, countTimes, permissionOutput, carried>>
  BY DEF ReadCounters, ReadCounter
<1>3. ChildTypeOK' /\ PairFills'
  BY <1>1, <1>2
  DEF ChildTypeOK, PairFills, ReadCounters, ReadCounter, Goto, Pc,
      Storing, Reading, Clearing, Kinds
<1>4. TimesAreCounted'
  BY <1>1, <1>2 DEF TimesAreCounted, ReadCounters, Goto, Clearing
<1>5. ReportWillBeFull' /\ ReportIsFull'
  BY <1>1, <1>2
  DEF ReportWillBeFull, ReportIsFull, ChildTypeOK, ReadCounters,
      ReadCounter, Goto, Total, Kinds
<1>6. ResetSoFar' BY DEF ResetSoFar, ReadCounters, Goto, Clearing
<1>7. NoSampleTwice'
  BY <1>1, <1>2
  DEF NoSampleTwice, ReadCounters, ReadCounter, Goto, Clearing
<1>8. QED BY <1>3, <1>4, <1>5, <1>6, <1>7 DEF StatsInv

(* The reset, up to its last assignment.                                   *)
LEMMA StatsClear ==
  ASSUME StatsInv, ClearOneZero \/ ClearCounters
  PROVE  StatsInv'
<1>1. ChildTypeOK /\ ResetSoFar BY DEF StatsInv
<1>2. UNCHANGED <<first, second, countTimes, permissionOutput, report, since>>
  BY DEF ClearOneZero, ClearCounters, ClearFrom
<1>3. loop \in Clearing /\ loop' \in Clearing \ {"clearOneZero"}
  BY DEF ClearOneZero, ClearCounters, Goto, Clearing
<1>4. count' \in [Kinds -> Nat] /\ carried' \in BOOLEAN
  <2>1. CASE ClearOneZero BY <1>1, <2>1 DEF ChildTypeOK, ClearOneZero
  <2>2. CASE ClearCounters
    <3>1. PICK k \in Kinds, before \in Kinds : ClearFrom(k, before) BY <2>2
      DEF ClearCounters, Kinds
    <3>2. PICK v \in 0 .. count[before] :
            count' = [count EXCEPT ![k] = v] /\ carried' = (carried \/ v > 0)
      BY <3>1 DEF ClearFrom
    <3>3. v \in Nat BY <1>1, <3>2 DEF ChildTypeOK
    <3>4. count' \in [Kinds -> Nat] BY <1>1, <3>2, <3>3 DEF ChildTypeOK
    <3>5. carried' \in BOOLEAN BY <3>2
    <3>6. QED BY <3>4, <3>5
  <2>3. QED BY <2>1, <2>2
<1>5. ChildTypeOK' /\ PairFills' BY <1>1, <1>2, <1>3, <1>4
  DEF ChildTypeOK, PairFills, Pc, Storing, Reading, Clearing
<1>6. TimesAreCounted' /\ NoSampleTwice' BY <1>3 DEF TimesAreCounted, NoSampleTwice
<1>7. ReportWillBeFull' /\ ReportIsFull' BY <1>3
  DEF ReportWillBeFull, ReportIsFull, Clearing
<1>8. ResetSoFar'
  <2>1. CASE ClearOneZero
    BY <1>1, <2>1 DEF ResetSoFar, ClearOneZero, Goto, ChildTypeOK, Kinds
  <2>2. CASE Goto("clearZeroOne", "clearOneOne") /\ ClearFrom("ZeroOne", "OneZero")
    BY <1>1, <2>2
    DEF ResetSoFar, ClearFrom, Goto, ChildTypeOK, Kinds, Clearing
  <2>3. CASE Goto("clearOneOne", "clearZeroZero") /\ ClearFrom("OneOne", "ZeroOne")
    BY <1>1, <2>3
    DEF ResetSoFar, ClearFrom, Goto, ChildTypeOK, Kinds, Clearing
  <2>4. CASE Goto("clearZeroZero", "clearTimes") /\ ClearFrom("ZeroZero", "OneOne")
    <3>1. PICK v \in 0 .. count["OneOne"] :
            /\ count' = [count EXCEPT !["ZeroZero"] = v]
            /\ carried' = (carried \/ v > 0) /\ since' = since
      BY <2>4 DEF ClearFrom
    <3>2. count \in [Kinds -> Nat] /\ loop = "clearZeroZero" /\ loop' = "clearTimes"
      BY <1>1, <2>4 DEF ChildTypeOK, Goto
    <3>3. ASSUME ~carried'
          PROVE  /\ count'["OneZero"] = 0 /\ count'["ZeroOne"] = 0
                 /\ count'["OneOne"] <= since' /\ count'["ZeroZero"] = 0
      <4>1. ~carried /\ ~(v > 0) BY <3>1, <3>3
      <4>2. v = 0 BY <4>1, <3>2 DEF Kinds
      <4>3. count["OneZero"] = 0 /\ count["ZeroOne"] = 0 /\ count["OneOne"] <= since
        BY <1>1, <3>2, <4>1 DEF ResetSoFar, Clearing
      <4>4. QED BY <3>1, <3>2, <4>2, <4>3 DEF Kinds
    <3>4. QED BY <3>2, <3>3 DEF ResetSoFar
  <2>5. QED BY <2>1, <2>2, <2>3, <2>4 DEF ClearCounters
<1>9. QED BY <1>5, <1>6, <1>7, <1>8 DEF StatsInv

(* The last assignment, of countTimes.                                     *)
LEMMA StatsClearTimes ==
  ASSUME StatsInv, ClearTimes
  PROVE  StatsInv'
<1>1. ChildTypeOK /\ ResetSoFar BY DEF StatsInv
<1>2. /\ UNCHANGED <<first, second, count, permissionOutput, report, since, carried>>
      /\ countTimes' \in 0 .. count["ZeroZero"]
      /\ loop = "clearTimes" /\ loop' = "zeroFirst"
  BY DEF ClearTimes, Goto
<1>3. count \in [Kinds -> Nat] /\ since \in Nat BY <1>1 DEF ChildTypeOK
<1>4. ChildTypeOK' /\ PairFills' BY <1>1, <1>2, <1>3
  DEF ChildTypeOK, PairFills, Pc, Storing, Clearing, Kinds
<1>5. TimesAreCounted' BY <1>2, <1>3 DEF TimesAreCounted, Total, Kinds
<1>6. ReportWillBeFull' /\ ReportIsFull' BY <1>2 DEF ReportWillBeFull, ReportIsFull
<1>7. ResetSoFar' BY <1>2 DEF ResetSoFar, Clearing
<1>8. NoSampleTwice'
  BY <1>1, <1>2, <1>3
  DEF NoSampleTwice, ResetSoFar, Clearing, Total, Kinds
<1>9. QED BY <1>4, <1>5, <1>6, <1>7, <1>8 DEF StatsInv

LEMMA StatsStep  == StatsInv /\ [ChildNext]_childVars => StatsInv'
<1> SUFFICES ASSUME StatsInv, [ChildNext]_childVars PROVE StatsInv' OBVIOUS
<1>1. CASE Loop BY <1>1, StatsQuiet, StatsRead, StatsClear, StatsClearTimes DEF Loop
<1>2. CASE PairProcessing BY <1>2, StatsSample
<1>3. CASE SetPermission \/ UNCHANGED childVars
  <2>1. UNCHANGED <<first, second, count, countTimes, loop, report, since, carried>>
    BY <1>3 DEF SetPermission, childVars
  <2>2. permissionOutput' \in BOOLEAN BY <1>3 DEF SetPermission, childVars, StatsInv, ChildTypeOK
  <2>3. QED
    BY <2>1, <2>2
    DEF StatsInv, ChildTypeOK, PairFills, TimesAreCounted, ReportWillBeFull,
        ReportIsFull, ResetSoFar, NoSampleTwice
<1>4. QED BY <1>1, <1>2, <1>3 DEF ChildNext

LEMMA StatsInvariant  == ChildSpec => []StatsInv
<1>1. QED BY StatsInit, StatsStep, PTL DEF ChildSpec

(* Types, and the pair that rests during a report (child.c:108-113).       *)
THEOREM ChildTypeCorrect  == ChildSpec => []ChildTypeOK
<1>1. StatsInv => ChildTypeOK BY DEF StatsInv
<1>2. QED BY <1>1, StatsInvariant, PTL

(* Every report shows more than MinTimes samples (child.c:110).            *)
THEOREM ReportsAreFull  == ChildSpec => []ReportIsFull
<1>1. StatsInv => ReportIsFull BY DEF StatsInv
<1>2. QED BY <1>1, StatsInvariant, PTL

(* No sample is shown twice, unless the reset copied one (child.c:113).    *)
THEOREM SamplesAreShownOnce  == ChildSpec => []NoSampleTwice
<1>1. StatsInv => NoSampleTwice BY DEF StatsInv
<1>2. QED BY <1>1, StatsInvariant, PTL
=============================================================================
