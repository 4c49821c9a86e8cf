------------------------------- MODULE SimUsart -------------------------------
(***************************************************************************)
(* The driver of the SIM900A modem (wireless/sim_usart.c): the interrupt   *)
(* handler fills a ring of received bytes, task_sim takes them out, sends  *)
(* received packets to a message queue and response text to resp_buf, and  *)
(* the tasks that issue commands and receive packets wait for those two.   *)
(*                                                                         *)
(* A byte of the model is a token: one response text, or the head          *)
(* ("\r\n+IPD,len:") or the content of a packet; a read may end within a   *)
(* head, before its comma.  A received token is known by its number in the *)
(* stream; 0 is a NUL byte.                                                *)
(*                                                                         *)
(* The ring is shared without protection: LOS_MuxPend fails in an          *)
(* interrupt handler, which ignores it.  wi is not volatile and may change  *)
(* between any two reads of it, so each read of wi in read_resp is a step; *)
(* a build that merges two of them shows the behaviours in which nothing   *)
(* is received between the two.  A library call (memcpy, strncat, strstr,  *)
(* memset) is one step.                                                    *)
(***************************************************************************)
EXTENDS Naturals, Sequences, SequencesExt, FiniteSets

CONSTANTS
  MAX_USART_BUF_LEN,  \* size of the ring, of tmp and of resp_buf
  QueueLen,           \* length of dataQueue
  Tries,              \* responses a command waits for
  Replies,            \* the response texts
  MaxBytes            \* bound: bytes received

ASSUME SimAssumption ==
  /\ {MAX_USART_BUF_LEN, QueueLen, Tries, MaxBytes} \subseteq Nat \ {0}
  /\ {"head", "data", "none"} \cap Replies = {}

VARIABLES
  wire,      \* history: what each byte received so far is
  ring,      \* usart_recv_buf
  wi, ri,    \* its indices
  idle,      \* the line has been silent since the last IDLE interrupt
  irqsem,    \* sim_usart_irq_sem
  respsem,   \* sim_resp_sem
  pc,        \* where task_sim is
  tmp, len,  \* its copy of the ring and recv_len; then tmp from p1 on
  queue,     \* dataQueue: the content of each packet
  resp,      \* resp_buf
  cmd,       \* where the commanding task is, what it waits for, how often yet
  past,      \* history: bytes received when ri was last written
  handed,    \* history: the bytes handed over by read_resp
  racy,      \* history: the bytes received after read_resp copied the ring
             \* and before it moved ri
  over,      \* history: the ring was full once
  seen       \* history: the last text the command has looked at

ringVars == <<wire, ring, wi, idle>>
taskVars == <<pc, tmp, len, ri, past, handed>>
cmdVars  == <<cmd, seen>>
simVars  == <<wire, ring, wi, ri, idle, irqsem, respsem, pc, tmp, len, queue,
              resp, cmd, past, handed, racy, over, seen>>

N == MAX_USART_BUF_LEN

(* A text without its NULs *)
ClearNul(s) ==
  LET kept[i \in 0..Len(s)] == IF i = 0 THEN <<>>
                               ELSE IF s[i] # 0 THEN Append(kept[i - 1], s[i])
                               ELSE kept[i - 1]
  IN  kept[Len(s)]

Kind(i) == IF i = 0 THEN "none" ELSE wire[i]
AfterCopy == pc \in {"wraplen", "mark"}

SimInit ==
  /\ wire = <<>> /\ ring = [i \in 0..N - 1 |-> 0] /\ wi = 0 /\ ri = 0
  /\ idle = TRUE /\ irqsem = 0 /\ respsem = 0
  /\ pc = "wait" /\ tmp = <<>> /\ len = 0 /\ queue = <<>> /\ resp = <<>>
  /\ cmd = [at |-> "idle", want |-> {}, try |-> 0]
  /\ past = 0 /\ handed = <<>> /\ racy = {} /\ over = FALSE /\ seen = 0

-----------------------------------------------------------------------------
(* The modem: a packet's content follows its head.  Nothing is promised of *)
(* the ring once it has been full, so the model receives no more then.     *)
MaySend(b) ==
  IF wire # <<>> /\ Last(wire) = "head" THEN b = "data" ELSE b # "data"

(* bsp_USART2_IRQHandler, RXNE *)
ReceiveByte(b) ==
  /\ Len(wire) < MaxBytes /\ ~ over /\ MaySend(b)
  /\ wire' = Append(wire, b)
  /\ ring' = [ring EXCEPT ![wi] = Len(wire')]
  /\ wi' = IF wi + 1 >= N THEN 0 ELSE wi + 1
  /\ idle' = FALSE
  /\ racy' = IF AfterCopy THEN racy \cup {Len(wire')} ELSE racy
  /\ over' = (over \/ Len(wire') - past >= N)
  /\ UNCHANGED <<irqsem, respsem, taskVars, queue, resp, cmdVars>>

(* bsp_USART2_IRQHandler, IDLE *)
LineIdle ==
  /\ ~ idle /\ idle' = TRUE
  /\ irqsem' = irqsem + 1
  /\ UNCHANGED <<wire, ring, wi, respsem, taskVars, queue, resp, cmdVars, racy, over>>

-----------------------------------------------------------------------------
(* task_sim: read_resp *)
Goto(l) == pc' = l
ReadOnly == UNCHANGED <<ringVars, respsem, queue, resp, cmdVars, racy, over>>

Wait ==
  /\ pc = "wait" /\ irqsem > 0
  /\ irqsem' = irqsem - 1
  /\ tmp' = <<>> /\ len' = 0
  /\ Goto("test")
  /\ ReadOnly /\ UNCHANGED <<ri, past, handed>>

Test ==
  /\ pc = "test" /\ Goto(IF wi = ri THEN "wait" ELSE "branch")
  /\ ReadOnly /\ UNCHANGED <<irqsem, tmp, len, ri, past, handed>>

Branch ==
  /\ pc = "branch" /\ Goto(IF wi > ri THEN "linear" ELSE "wrap")
  /\ ReadOnly /\ UNCHANGED <<irqsem, tmp, len, ri, past, handed>>

Part(a, b) == [i \in 1..b - a |-> ring[a + i - 1]]

(* wi > ri held a moment ago; if wi has wrapped since, len is negative and *)
(* memcpy destroys memory                                                  *)
Linear ==
  /\ pc = "linear"
  /\ IF wi < ri THEN Goto("broken") /\ UNCHANGED <<tmp, len>>
     ELSE tmp' = Part(ri, wi) /\ len' = wi - ri /\ Goto("mark")
  /\ ReadOnly /\ UNCHANGED <<irqsem, ri, past, handed>>

Wrap_HeadOnly ==
  /\ pc = "wrap"
  /\ tmp' = Part(ri, N) /\ len' = N - ri
  /\ Goto("wraplen")
  /\ ReadOnly /\ UNCHANGED <<irqsem, ri, past, handed>>

Wrap ==
  /\ pc = "wrap"
  /\ tmp' = Part(ri, N) \o Part(0, wi) /\ len' = N - ri
  /\ Goto("wraplen")
  /\ ReadOnly /\ UNCHANGED <<irqsem, ri, past, handed>>

(* len from a second look at wi: what came since the copy is NUL in tmp *)
WrapLen ==
  /\ pc = "wraplen"
  /\ len' = len + wi
  /\ tmp' = [i \in 1..len' |-> IF i <= Len(tmp) THEN tmp[i] ELSE 0]
  /\ Goto("mark")
  /\ ReadOnly /\ UNCHANGED <<irqsem, ri, past, handed>>

Mark_NotAdvanced ==
  /\ pc = "mark"
  /\ ri' = ri /\ past' = Len(wire)
  /\ handed' = handed \o ClearNul(tmp)
  /\ Goto("parse")
  /\ ReadOnly /\ UNCHANGED <<irqsem, tmp, len>>

(* ri = wi, a last look at wi, and return *)
Mark ==
  /\ pc = "mark"
  /\ ri' = wi /\ past' = Len(wire)
  /\ handed' = handed \o ClearNul(tmp)
  /\ Goto(IF len = 0 THEN "wait" ELSE "parse")
  /\ ReadOnly /\ UNCHANGED <<irqsem, tmp, len>>

-----------------------------------------------------------------------------
(* task_sim: the loop over what was read; tmp is what p1 points to *)
ParseOnly == UNCHANGED <<ringVars, irqsem, len, ri, past, handed, cmdVars, racy, over>>

AtPacket == tmp # <<>> /\ Kind(tmp[1]) = "head"
Content  == IF Len(tmp) > 1 THEN tmp[2] ELSE 0

(* A packet: it goes to dataQueue, unless memory or the queue is exhausted *)
Packet ==
  /\ pc = "parse" /\ AtPacket
  /\ \/ Len(queue) < QueueLen /\ queue' = Append(queue, Content)
     \/ UNCHANGED queue
  /\ tmp' = SubSeq(tmp, 3, Len(tmp))
  /\ UNCHANGED <<pc, respsem, resp>> /\ ParseOnly

(* No comma after "+IPD": what was read ends within the head, and p1 moves *)
(* into it; the rest is treated as text.                                   *)
Cut ==
  /\ pc = "parse" /\ AtPacket /\ Content = 0
  /\ Goto("text")
  /\ UNCHANGED <<tmp, respsem, queue, resp>> /\ ParseOnly

(* strstr for the next head; p1 is not at one, or is inside it *)
NextPacket ==
  LET H == {i \in 2..Len(tmp) : Kind(tmp[i]) = "head"}
  IN  IF H = {} THEN Len(tmp) + 1 ELSE CHOOSE i \in H : \A j \in H : i <= j

(* store_resp_buf: the text up to the next packet; with too little room    *)
(* for it the text and all that was kept before are dropped.  A text that  *)
(* fills resp_buf to the last byte is kept; its NUL, which strncat writes  *)
(* behind resp_buf then, is not modelled.                                  *)
store_resp_buf ==
  LET text == SubSeq(tmp, 1, NextPacket - 1)
  IN  /\ pc = "text" \/ (pc = "parse" /\ ~ AtPacket)
      /\ resp' = IF Len(text) = 0 THEN resp
                 ELSE IF Len(text) + Len(resp) > N THEN <<>>
                 ELSE resp \o ClearNul(text)
      /\ tmp' = SubSeq(tmp, NextPacket, Len(tmp))
      /\ Goto("post")
      /\ UNCHANGED <<respsem, queue>> /\ ParseOnly

PostResp_AtEndOnly ==
  /\ pc = "post"
  /\ respsem' = IF tmp = <<>> THEN respsem + 1 ELSE respsem
  /\ Goto(IF tmp = <<>> THEN "wait" ELSE "parse")
  /\ UNCHANGED <<tmp, queue, resp>> /\ ParseOnly

PostResp ==
  /\ pc = "post"
  /\ respsem' = respsem + 1
  /\ Goto(IF tmp = <<>> THEN "wait" ELSE "parse")
  /\ UNCHANGED <<tmp, queue, resp>> /\ ParseOnly

-----------------------------------------------------------------------------
(* The commanding task *)
CmdOnly == UNCHANGED <<ringVars, irqsem, taskVars, queue, racy, over>>

(* sim_usart_cmd, the command sent: wait for a response with one of the    *)
(* texts in W, reply1 and reply2 or the one of them that is not NULL       *)
sim_usart_cmd(W) ==
  /\ cmd.at = "idle" /\ W # {} /\ Cardinality(W) <= 2
  /\ cmd' = [at |-> "pend", want |-> W, try |-> 0]
  /\ seen' = IF resp = <<>> THEN 0 ELSE Last(resp)
  /\ UNCHANGED <<respsem, resp>> /\ CmdOnly

(* wait_for_resp *)
wait_for_resp_Pend ==
  /\ cmd.at = "pend" /\ respsem > 0
  /\ respsem' = respsem - 1
  /\ cmd' = [cmd EXCEPT !.at = "look"]
  /\ UNCHANGED <<resp, seen>> /\ CmdOnly

wait_for_resp_Look ==
  /\ cmd.at = "look"
  /\ seen' = IF resp = <<>> THEN seen ELSE Last(resp)
  /\ cmd' = IF \E i \in 1..Len(resp) : Kind(resp[i]) \in cmd.want
              THEN [cmd EXCEPT !.at = "clear"]
            ELSE IF cmd.try + 1 < Tries
              THEN [cmd EXCEPT !.at = "pend", !.try = @ + 1]
            ELSE [at |-> "idle", want |-> {}, try |-> 0]
  /\ UNCHANGED <<respsem, resp>> /\ CmdOnly

(* the answer is there: resp_buf is erased, and all that came since *)
wait_for_resp_Clear ==
  /\ cmd.at = "clear"
  /\ resp' = <<>>
  /\ cmd' = [at |-> "idle", want |-> {}, try |-> 0]
  /\ UNCHANGED <<respsem, seen>> /\ CmdOnly

(* sim_usart_recv, sim_usart_recv_timeout when a packet is there *)
sim_usart_recv ==
  /\ queue # <<>> /\ queue' = Tail(queue)
  /\ UNCHANGED <<ringVars, irqsem, respsem, taskVars, resp, cmdVars, racy, over>>

-----------------------------------------------------------------------------
SimNext ==
  \/ \E b \in Replies \cup {"head", "data"} : ReceiveByte(b)
  \/ LineIdle
  \/ Wait \/ Test \/ Branch \/ Linear \/ Wrap \/ WrapLen \/ Mark
  \/ Packet \/ Cut \/ store_resp_buf \/ PostResp
  \/ \E W \in SUBSET Replies : sim_usart_cmd(W)
  \/ wait_for_resp_Pend \/ wait_for_resp_Look \/ wait_for_resp_Clear
  \/ sim_usart_recv

SimSpec == SimInit /\ [][SimNext]_simVars

-----------------------------------------------------------------------------
(* Properties *)

(* As long as the ring was never full, read_resp hands the bytes over in   *)
(* the order they were received and none twice, across wrap-around and     *)
(* with bytes arriving between any two of its looks at wi.                 *)
HandedInOrder ==
  ~ over => \A i, j \in 1..Len(handed) : i < j => handed[i] < handed[j]

(* As long as the ring was never full, a byte is lost only if it arrived   *)
(* between read_resp's copy of the ring and ri = wi: any other byte is     *)
(* still in the ring or was handed over.                                   *)
LostInReadOnly ==
  ~ over => 1..past \subseteq ToSet(handed) \cup racy

(* A command does not sleep beside an answer it has not looked at: text is *)
(* in resp_buf before sim_resp_sem is posted, and posted for every time.   *)
NoUnseenAnswer ==
  ~ over /\ cmd.at = "pend" /\ respsem = 0 /\ pc # "post" =>
    \A i \in 1..Len(resp) : resp[i] <= seen
===============================================================================
