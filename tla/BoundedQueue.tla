---------------------------- MODULE BoundedQueue ----------------------------
(***************************************************************************)
(* What the message queues of Lab5 promise their threads: a first-in,      *)
(* first-out queue that never holds more than `capacity` messages, whose   *)
(* capacity the operator can change by one without losing, duplicating or  *)
(* reordering a message.                                                   *)
(***************************************************************************)
EXTENDS Integers, Sequences

CONSTANTS
  Message,    (* the messages                                              *)
  Consumers,  (* the threads that take messages                            *)
  None        (* "no message"                                              *)

VARIABLES
  contents,   (* the messages in the queue, oldest first                   *)
  capacity,   (* how many it may hold                                      *)
  delivered   (* per consumer: the message it has taken and is handling    *)

vars == <<contents, capacity, delivered>>

Init ==
  /\ contents = <<>>
  /\ capacity \in Nat \ {0}
  /\ delivered = [c \in Consumers |-> None]

Put(m) ==
  /\ Len(contents) < capacity
  /\ contents' = Append(contents, m)
  /\ UNCHANGED <<capacity, delivered>>

Get(c) ==
  /\ contents # <<>>
  /\ delivered[c] = None
  /\ delivered' = [delivered EXCEPT ![c] = Head(contents)]
  /\ contents' = Tail(contents)
  /\ UNCHANGED capacity

Handled(c) ==
  /\ delivered[c] # None
  /\ delivered' = [delivered EXCEPT ![c] = None]
  /\ UNCHANGED <<contents, capacity>>

Grow ==
  /\ capacity' = capacity + 1
  /\ UNCHANGED <<contents, delivered>>

Shrink ==
  /\ Len(contents) < capacity
  /\ capacity' = capacity - 1
  /\ UNCHANGED <<contents, delivered>>

Next ==
  \/ \E m \in Message : Put(m)
  \/ \E c \in Consumers : Get(c) \/ Handled(c)
  \/ Grow
  \/ Shrink

Spec == Init /\ [][Next]_vars
=============================================================================
