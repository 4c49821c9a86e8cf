------------------------------ MODULE EventFlags ------------------------------
(***************************************************************************)
(* What one LiteOS event promises, without TCBs, lists, status bits or a   *)
(* scheduler.  A task that waits goes on as soon as the flags satisfy it,  *)
(* and not before unless it gives up; a clearing read takes exactly the    *)
(* flags it asked for and found.                                           *)
(***************************************************************************)
CONSTANTS Callers,  \* the tasks that may wait
          Flag      \* the bits of the event

VARIABLES
  flags,  \* the flags that are set
  asked,  \* the tasks inside a read that had to wait: what each asks for
  going   \* those of them that were let go and have not returned yet

flagVars == <<flags, asked, going>>

Asks == [mask : (SUBSET Flag) \ {{}}, all : BOOLEAN, clr : BOOLEAN]

(* The flags a read of F would return, and those it leaves *)
Found(F, a) ==
  IF a.all THEN (IF a.mask \subseteq F THEN a.mask ELSE {}) ELSE a.mask \cap F
Rest(F, a) == IF a.clr THEN F \ Found(F, a) ELSE F

Waiting == (DOMAIN asked) \ going
KeepOnly(S) == asked' = [t \in S |-> asked[t]]

Init == flags = {} /\ DOMAIN asked = {} /\ going = {}

(* Every waiting task that is satisfied now is let go. *)
Write(B) == /\ flags' = flags \cup B
            /\ going' = going \cup {t \in Waiting : Found(flags', asked[t]) # {}}
            /\ UNCHANGED asked

Take(a) == /\ Found(flags, a) # {} /\ flags' = Rest(flags, a)
           /\ UNCHANGED <<asked, going>>

Clear(B) == flags' = flags \cap B /\ UNCHANGED <<asked, going>>

Wait(t, a) == /\ t \notin DOMAIN asked /\ Found(flags, a) = {}
              /\ asked' = [u \in (DOMAIN asked) \cup {t} |->
                             IF u = t THEN a ELSE asked[u]]
              /\ UNCHANGED <<flags, going>>

(* A task that was let go returns, with what it then still finds. *)
Return(t) == /\ t \in going /\ flags' = Rest(flags, asked[t])
             /\ KeepOnly((DOMAIN asked) \ {t}) /\ going' = going \ {t}

(* A timeout, or the deletion of the task *)
GiveUp(t) == /\ t \in DOMAIN asked /\ KeepOnly((DOMAIN asked) \ {t})
             /\ going' = going \ {t} /\ UNCHANGED flags

(* LOS_EventInit of an event nobody waits for *)
Reset == Waiting = {} /\ flags' = {} /\ UNCHANGED <<asked, going>>

Next == \/ \E B \in SUBSET Flag : Write(B) \/ Clear(B)
        \/ \E a \in Asks : Take(a) \/ \E t \in Callers : Wait(t, a)
        \/ \E t \in Callers : Return(t) \/ GiveUp(t)
        \/ Reset

Spec == Init /\ [][Next]_flagVars
===============================================================================
