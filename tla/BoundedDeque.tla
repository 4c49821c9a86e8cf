----------------------------- MODULE BoundedDeque -----------------------------
(***************************************************************************)
(* What one LiteOS message queue promises, without TCBs, lists, counts, a  *)
(* ring or a scheduler: messages come out at the front, in the order they  *)
(* went in at the back, an urgent one goes in at the front, and there are  *)
(* never more than the queue was created for.  A task that had to wait is  *)
(* promised a message, or room for one, as soon as there is one that is    *)
(* not promised yet, and then finds it.                                    *)
(***************************************************************************)
EXTENDS Naturals, Sequences, FiniteSets

CONSTANTS Callers,  \* the tasks that may wait
          Message, MaxLen

VARIABLES
  len,      \* the messages it can hold, 0 before it is created
  held,     \* the messages it holds, front first
  readers,  \* the tasks waiting for a message, longest first
  writers,  \* the tasks waiting for room, longest first
  toRead,   \* the tasks promised a message that have not taken one yet
  toWrite   \* the tasks promised room that have not used it yet

waits  == <<readers, writers, toRead, toWrite>>
dqVars == <<len, held, waits>>

In(s, t)    == \E i \in 1..Len(s) : s[i] = t
Unpromised  == Len(held) - Cardinality(toRead)
Room        == len - Len(held) - Cardinality(toWrite)
Resting(t)  == ~ In(readers, t) /\ ~ In(writers, t) /\ t \notin toRead \cup toWrite
Unused      == \A t \in Callers : Resting(t)

Init == len = 0 /\ held = <<>> /\ Unused

Create == len = 0 /\ len' \in 1..MaxLen /\ UNCHANGED <<held, waits>>

(* Only a queue that no task is inside of is deleted, messages and all. *)
Delete == len > 0 /\ Unused /\ len' = 0 /\ held' = <<>> /\ UNCHANGED waits

Put(m) == held' = Append(held, m) \/ held' = <<m>> \o held
Take   == held # <<>> /\ held' = Tail(held)

(* A message in the queue, or room in it, goes to who waits longest. *)
OfferMessage ==
  IF readers = <<>> THEN UNCHANGED <<readers, toRead>>
  ELSE readers' = Tail(readers) /\ toRead' = toRead \cup {Head(readers)}
OfferRoom ==
  IF writers = <<>> THEN UNCHANGED <<writers, toWrite>>
  ELSE writers' = Tail(writers) /\ toWrite' = toWrite \cup {Head(writers)}

Write(m) == /\ Room > 0 /\ Put(m) /\ OfferMessage
            /\ UNCHANGED <<len, writers, toWrite>>
Read     == /\ Unpromised > 0 /\ Take /\ OfferRoom
            /\ UNCHANGED <<len, readers, toRead>>

(* A task that was promised room or a message acts. *)
WritePromised(t, m) == /\ t \in toWrite /\ Len(held) < len
                       /\ Put(m) /\ OfferMessage
                       /\ toWrite' = toWrite \ {t}
                       /\ UNCHANGED <<len, writers>>
ReadPromised(t)     == /\ t \in toRead /\ Take /\ OfferRoom
                       /\ toRead' = toRead \ {t}
                       /\ UNCHANGED <<len, readers>>

WaitToRead(t)  == /\ len > 0 /\ Unpromised = 0 /\ Resting(t)
                  /\ readers' = Append(readers, t)
                  /\ UNCHANGED <<len, held, writers, toRead, toWrite>>
WaitToWrite(t) == /\ len > 0 /\ Room = 0 /\ Resting(t)
                  /\ writers' = Append(writers, t)
                  /\ UNCHANGED <<len, held, readers, toRead, toWrite>>

(* A timeout: r is s without t. *)
Leaves(s, r, t) == \E i \in 1..Len(s) :
                     /\ s[i] = t
                     /\ r = [j \in 1..(Len(s) - 1) |-> IF j < i THEN s[j] ELSE s[j + 1]]
GiveUp(t) == /\ \/ Leaves(readers, readers', t) /\ writers' = writers
                \/ Leaves(writers, writers', t) /\ readers' = readers
             /\ UNCHANGED <<len, held, toRead, toWrite>>

Next == \/ Create \/ Delete \/ Read
        \/ \E m \in Message : Write(m) \/ \E t \in Callers : WritePromised(t, m)
        \/ \E t \in Callers : \/ WaitToRead(t) \/ WaitToWrite(t)
                              \/ GiveUp(t) \/ ReadPromised(t)

Spec == Init /\ [][Next]_dqVars
===============================================================================
