--------------------------- MODULE DSGExecutorProofs ---------------------------
(***************************************************************************)
(* Proofs about DSGExecutor, for all commands, lengths of a download,      *)
(* numbers of attempts and times.  Types hold on every link; what is       *)
(* returned is right as long as the UDP thread lives and a device that     *)
(* answers at all answers within the time that the recvfrom in progress    *)
(* leaves of the time-out.                                                 *)
(***************************************************************************)
EXTENDS DSGExecutor, SequenceTheorems, TLAPS

Quiet == send_queue = <<>> /\ receive_queue = <<>> /\ toDevice = <<>> /\ toHost = <<>>

\* The UDP thread lives, and a request that waits for the recvfrom in progress is
\* still answered before the time-out.
Prompt == ~ThreadMayDie /\ RecvTimeout + RequestDelay + AnswerDelay < Timeout

\* The packets before the current one, and what the device has carried out once
\* it has accepted the current one.
Before == {p \in 0..Parts : p < part}
Upto == Before \cup {part}

\* A message of the current attempt.
Current(m) == m \in Message /\ m.own /\ m.cmd = cmd /\ m.part = part

Served(m) == done = IF m.ok \/ cmd \in Reads THEN Upto ELSE Before

\* Where the one message of the current attempt is while the executor waits, and
\* how long it may still take.
AtSend ==
  /\ send_queue = <<Message0(cmd, part, TRUE)>>
  /\ receive_queue = <<>> /\ toDevice = <<>> /\ toHost = <<>>
  /\ done = Before /\ Timeout + timer <= wait + RecvTimeout

Requested ==
  /\ \E m \in Message : Current(m) /\ toDevice = <<m>> /\ m.due + AnswerDelay < wait
  /\ send_queue = <<>> /\ receive_queue = <<>> /\ toHost = <<>>
  /\ done = Before

Answered ==
  /\ \E m \in Message : Current(m) /\ toHost = <<m>> /\ m.due < wait /\ Served(m)
  /\ send_queue = <<>> /\ receive_queue = <<>> /\ toDevice = <<>>

Received ==
  /\ \E m \in Message : Current(m) /\ receive_queue = <<m>> /\ Served(m)
  /\ send_queue = <<>> /\ toDevice = <<>> /\ toHost = <<>>

LostIt == Quiet /\ lost /\ done \in {Before, Upto}

Waiting == AtSend \/ Requested \/ Answered \/ Received \/ LostIt

CallInv ==
  /\ cmd # "ADM" => part = 0
  /\ op = "idle" => Quiet
  /\ op = "write" => Quiet /\ done = Before
  /\ op = "read" => Waiting /\ is_connected
  /\ op \in {"write", "read"} => result = "none"
  /\ op \in {"closing", "closed"} =>
       /\ receive_queue = <<>> /\ toDevice = <<>> /\ toHost = <<>>
       /\ ~running \/ thread = "dead"

\* The thread loops as long as the executor may call.
ThreadInv ==
  op \in {"idle", "write", "read"} /\ is_connected => running /\ thread # "dead"

ResultInv ==
  /\ mine
  /\ result = "ok" => done = Packets(cmd)
  /\ result = "timeout" => lost

TypeInv == TypeOK /\ (op \in {"write", "read"} => cmd \in Commands)

TimerInv == timer <= RecvTimeout /\ (thread # "recv" => timer = 0)

PromptInv == TypeInv /\ TimerInv /\ CallInv /\ ThreadInv /\ ResultInv

\* A closing executor waits longer than the recvfrom in progress.
CloseInv ==
  /\ op = "closing" => ~running /\ (thread # "dead" => timer < wait)
  /\ op = "closed" => thread = "dead"

-----------------------------------------------------------------------------
(* Lists of messages.                                                      *)

LEMMA Sizes ==
  /\ Parts \in Nat /\ Retry \in Nat /\ 1 \in 1..Retry /\ 0 \in 0..Parts
  /\ Timeout \in Nat /\ RecvTimeout \in Nat /\ JoinTimeout \in Nat
  /\ RequestDelay \in Nat /\ AnswerDelay \in Nat
BY ExecutorAssumption

LEMMA Fields ==
  ASSUME NEW m \in Message
  PROVE  /\ \A d \in 0..(RequestDelay + AnswerDelay) :
              /\ Delayed(m, d) \in Message /\ Delayed(m, d).due = d
              /\ Delayed(m, d).cmd = m.cmd /\ Delayed(m, d).part = m.part
              /\ Delayed(m, d).own = m.own /\ Delayed(m, d).ok = m.ok
         /\ \A ok \in BOOLEAN :
              /\ AnswerTo(m, ok) \in Message /\ AnswerTo(m, ok).ok = ok
              /\ AnswerTo(m, ok).cmd = m.cmd /\ AnswerTo(m, ok).part = m.part
              /\ AnswerTo(m, ok).own = m.own
BY DEF Message, Delayed, AnswerTo

LEMMA QueueTypes ==
  /\ \A q \in Seq(Message), m \in Message : Append(q, m) \in Seq(Message)
  /\ \A q \in Seq(Message) :
       q # <<>> => Head(q) \in Message /\ Tail(q) \in Seq(Message)
<1>1. \A q \in Seq(Message), m \in Message : Append(q, m) \in Seq(Message)
  OBVIOUS
<1>2. \A q \in Seq(Message) : q # <<>> => Head(q) \in Message /\ Tail(q) \in Seq(Message)
  OBVIOUS
<1> QED BY <1>1, <1>2

LEMMA Mapped ==
  ASSUME NEW q \in Seq(Message)
  PROVE  Disowned(q) \in Seq(Message) /\ Sooner(q) \in Seq(Message)
<1>1. /\ Len(q) \in Nat /\ DOMAIN q = 1..Len(q)
      /\ \A i \in DOMAIN q : q[i] \in Message
  OBVIOUS
<1>2. \A m \in Message : OfEarlierCall(m) \in Message
  BY DEF Message, OfEarlierCall
<1>3. \A m \in Message : Delayed(m, Less(m.due)) \in Message
  <2> TAKE m \in Message
  <2>1. Less(m.due) \in 0..(RequestDelay + AnswerDelay)
    BY ExecutorAssumption DEF Message, Less
  <2> QED BY <2>1, Fields
<1>4. Disowned(q) \in [1..Len(q) -> Message]
  BY <1>1, <1>2 DEF Disowned
<1>5. Sooner(q) \in [1..Len(q) -> Message]
  BY <1>1, <1>3 DEF Sooner
<1> QED BY <1>1, <1>4, <1>5, SeqDef

LEMMA NothingMapped == Disowned(<<>>) = <<>> /\ Sooner(<<>>) = <<>>
BY DEF Disowned, Sooner

LEMMA SoonerOne ==
  ASSUME NEW m
  PROVE  Sooner(<<m>>) = <<Delayed(m, Less(m.due))>>
BY DEF Sooner

LEMMA One ==
  ASSUME NEW m
  PROVE  /\ Append(<<>>, m) = <<m>> /\ <<m>> # <<>>
         /\ Head(<<m>>) = m /\ Tail(<<m>>) = <<>>
OBVIOUS

LEMMA NewMessage ==
  ASSUME NEW c \in Commands \cup {"stop"}, NEW p \in 0..Parts, NEW own \in BOOLEAN
  PROVE  Message0(c, p, own) \in Message
BY ExecutorAssumption DEF Message0, Message

-----------------------------------------------------------------------------
(* Types.                                                                  *)

LEMMA TypeStep == TypeInv /\ [Next]_vars => TypeInv'
<1> USE DEF TypeInv, TypeOK, callVars, threadVars, ghosts
<1>1. ASSUME TypeInv, NEW c \in Commands, Call(c) PROVE TypeInv'
  BY <1>1, Mapped, Sizes DEF Call
<1>2. ASSUME TypeInv, Write PROVE TypeInv'
  <2>1. Message0(cmd, part, TRUE) \in Message
    BY <1>2, NewMessage DEF Write
  <2>2. UNCHANGED <<cmd, part, attempt, receive_queue, threadVars, toDevice, toHost, ghosts, mine>>
    BY <1>2 DEF Write, Finish
  <2>3. op' \in {"idle", "read"} /\ wait' \in {0, Timeout} /\ result' \in {result, "error"}
    BY <1>2 DEF Write, Finish
  <2>4. send_queue' \in {send_queue, Append(send_queue, Message0(cmd, part, TRUE))}
    BY <1>2 DEF Write
  <2>5. send_queue' \in Seq(Message) /\ cmd \in Commands
    BY <1>2, <2>1, <2>4, QueueTypes DEF Write
  <2> QED BY <1>2, <2>2, <2>3, <2>5, Sizes
<1>3. ASSUME TypeInv, ReadRefused PROVE TypeInv'
  BY <1>3 DEF ReadRefused, Finish
<1>4. ASSUME TypeInv, ReadTimesOut PROVE TypeInv'
  BY <1>4 DEF ReadTimesOut, Finish
<1>5. ASSUME TypeInv, ReadAnswer PROVE TypeInv'
  <2>1. receive_queue' \in Seq(Message)
    BY <1>5 DEF ReadAnswer
  <2>2. mine' \in BOOLEAN
    BY <1>5 DEF ReadAnswer
  <2>3. /\ op' \in {"idle", "write"} /\ cmd' = cmd /\ part' \in 0..Parts
        /\ attempt' \in 1..Retry /\ wait' \in Nat /\ result' \in {"none", "ok", "error", "timeout"}
    BY <1>5, Sizes DEF ReadAnswer, NextPacket, TryAgain, Finish
  <2> QED BY <1>5, <2>1, <2>2, <2>3 DEF ReadAnswer
<1>6. ASSUME TypeInv, CloseBegins PROVE TypeInv'
  <2>1. StopMarker \in Message
    BY NewMessage, Sizes DEF StopMarker
  <2>2. /\ op' \in {"closing", "closed"} /\ wait' \in {wait, JoinTimeout}
        /\ send_queue' \in {send_queue, Append(send_queue, StopMarker)}
    BY <1>6 DEF CloseBegins
  <2>3. send_queue' \in Seq(Message)
    BY <1>6, <2>1, <2>2, QueueTypes
  <2>4. running' \in BOOLEAN /\ is_connected' \in BOOLEAN
    BY <1>6 DEF CloseBegins
  <2>5. UNCHANGED <<cmd, part, attempt, result, mine, receive_queue, thread, timer,
                    toDevice, toHost, ghosts>>
    BY <1>6 DEF CloseBegins
  <2> QED BY <1>6, <2>2, <2>3, <2>4, <2>5, Sizes
<1>7. ASSUME TypeInv, CloseEnds PROVE TypeInv'
  BY <1>7 DEF CloseEnds
<1>8. ASSUME TypeInv, ThreadSends PROVE TypeInv'
  <2>1. CASE send_queue = <<>>
    BY <1>8, <2>1, Sizes DEF ThreadSends
  <2>2. CASE send_queue # <<>>
    <3>1. Head(send_queue) \in Message /\ send_queue' \in Seq(Message)
          /\ SendTo(Head(send_queue))
      BY <1>8, <2>2, QueueTypes DEF ThreadSends
    <3>2. \A d \in 0..RequestDelay : Delayed(Head(send_queue), d) \in Message
      BY <3>1, Fields, Sizes
    <3>3. /\ thread' = "recv" /\ timer' = RecvTimeout
          /\ UNCHANGED <<callVars, receive_queue, running, is_connected, toHost, done>>
      BY <1>8 DEF ThreadSends
    <3>4. Head(send_queue).own \in BOOLEAN
      BY <3>1 DEF Message
    <3>5. \/ toDevice' = toDevice
          \/ \E d \in 0..RequestDelay : toDevice' = Append(toDevice, Delayed(Head(send_queue), d))
      BY <3>1 DEF SendTo
    <3>7. toDevice' \in Seq(Message)
      BY <1>8, <3>2, <3>5, QueueTypes
    <3>6. lost' \in BOOLEAN
      BY <1>8, <3>1, <3>4 DEF SendTo
    <3> QED BY <1>8, <3>1, <3>3, <3>6, <3>7, Sizes
  <2> QED BY <2>1, <2>2
<1>9. ASSUME TypeInv, ThreadStops PROVE TypeInv'
  BY <1>9 DEF ThreadStops
<1>10. ASSUME TypeInv, ThreadReceivesNothing PROVE TypeInv'
  BY <1>10 DEF ThreadReceivesNothing
<1>11. ASSUME TypeInv, ThreadDies PROVE TypeInv'
  <2>1. send_queue' \in {send_queue, Tail(send_queue)} /\ (send_queue = <<>> => send_queue' = <<>>)
    BY <1>11 DEF ThreadDies
  <2>2. send_queue' \in Seq(Message)
    BY <1>11, <2>1, QueueTypes
  <2>3. /\ thread' = "dead" /\ timer' = 0 /\ is_connected' = FALSE
        /\ UNCHANGED <<callVars, receive_queue, running, toDevice, toHost, ghosts>>
    BY <1>11 DEF ThreadDies
  <2> QED BY <1>11, <2>2, <2>3
<1>12. ASSUME TypeInv, ThreadReceives PROVE TypeInv'
  <2>1. receive_queue' \in Seq(Message) /\ toHost' \in Seq(Message)
    BY <1>12 DEF ThreadReceives, Arrived
  <2> QED BY <1>12, <2>1 DEF ThreadReceives
<1>13. ASSUME TypeInv, DeviceServes PROVE TypeInv'
  <2>1. Head(toDevice) \in Message /\ toDevice' \in Seq(Message)
        /\ UNCHANGED <<callVars, send_queue, receive_queue, threadVars>>
    BY <1>13 DEF DeviceServes, Arrived
  <2>2. \A ok \in BOOLEAN, d \in 0..AnswerDelay :
          Delayed(AnswerTo(Head(toDevice), ok), d) \in Message
    BY <2>1, Fields, Sizes
  <2>3. done' \subseteq 0..Parts
    BY <1>13, <2>1 DEF DeviceServes, Message
  <2>4. \/ toHost' = toHost
        \/ \E ok \in BOOLEAN, d \in 0..AnswerDelay :
              toHost' = Append(toHost, Delayed(AnswerTo(Head(toDevice), ok), d))
    BY <1>13 DEF DeviceServes
  <2>5. toHost' \in Seq(Message)
    BY <1>13, <2>2, <2>4, QueueTypes
  <2>6. Head(toDevice).own \in BOOLEAN
    BY <2>1 DEF Message
  <2>7. lost' \in BOOLEAN
    BY <1>13, <2>6 DEF DeviceServes
  <2> QED BY <1>13, <2>1, <2>3, <2>5, <2>7
<1>14. ASSUME TypeInv, Tick PROVE TypeInv'
  <2>1. toDevice' \in Seq(Message) /\ toHost' \in Seq(Message)
    BY <1>14, Mapped DEF Tick
  <2>2. wait' \in Nat /\ timer' \in Nat
    BY <1>14 DEF Tick, Less
  <2> QED BY <1>14, <2>1, <2>2 DEF Tick
<1>15. ASSUME TypeInv, UNCHANGED vars PROVE TypeInv'
  BY <1>15 DEF vars
<1> QED BY <1>1, <1>2, <1>3, <1>4, <1>5, <1>6, <1>7, <1>8, <1>9, <1>10, <1>11, <1>12,
           <1>13, <1>14, <1>15 DEF Next, ExecutorStep, ThreadStep

LEMMA InitTypes == Init => TypeInv
<1> SUFFICES ASSUME Init PROVE TypeInv
  OBVIOUS
<1>1. /\ op = "idle" /\ cmd = "none" /\ part = 0 /\ attempt = 1 /\ wait = 0 /\ timer = 0
      /\ result = "none" /\ done = {}
      /\ send_queue = <<>> /\ receive_queue = <<>> /\ toDevice = <<>> /\ toHost = <<>>
  BY DEF Init
<1>2. running \in BOOLEAN /\ is_connected \in BOOLEAN /\ mine \in BOOLEAN /\ lost \in BOOLEAN
  BY DEF Init
<1>3. thread \in {"send", "dead"}
  BY DEF Init
<1> QED BY <1>1, <1>2, <1>3, Sizes DEF TypeInv, TypeOK

\* Queues hold messages and counters stay in their ranges, whatever the link, the
\* device, the UDP thread and the timers do.
THEOREM TransportTypes == Spec => []TypeOK
<1>1. Init => TypeInv
  BY InitTypes
<1>2. TypeInv => TypeOK
  BY DEF TypeInv
<1> QED BY <1>1, <1>2, TypeStep, PTL DEF Spec

-----------------------------------------------------------------------------
(* The timers, and close.                                                  *)

LEMMA LessFacts == \A n \in Nat : Less(n) \in Nat /\ Less(n) <= n /\ (n > 0 => Less(n) = n - 1)
BY DEF Less

LEMMA TimerStep == TypeInv /\ TimerInv /\ [Next]_vars => TimerInv'
<1> USE DEF TimerInv, callVars, threadVars, ghosts
<1>0. ASSUME TypeInv PROVE timer \in Nat /\ RecvTimeout \in Nat
  BY <1>0, Sizes DEF TypeInv, TypeOK
<1>1. ASSUME TypeInv, TimerInv, UNCHANGED <<thread, timer>> PROVE TimerInv'
  BY <1>1
<1>2. ASSUME TypeInv, TimerInv, timer' = 0 PROVE TimerInv'
  BY <1>0, <1>2
<1>3. ASSUME NEW c \in Commands, Call(c) PROVE UNCHANGED <<thread, timer>>
  BY <1>3 DEF Call
<1>4. ASSUME Write \/ ReadRefused \/ ReadAnswer \/ ReadTimesOut \/ CloseEnds
      PROVE  UNCHANGED <<thread, timer>>
  BY <1>4 DEF Write, ReadRefused, ReadAnswer, ReadTimesOut, CloseEnds
<1>5. ASSUME CloseBegins \/ DeviceServes \/ UNCHANGED vars PROVE UNCHANGED <<thread, timer>>
  BY <1>5 DEF CloseBegins, DeviceServes, vars
<1>6. ASSUME ThreadStops \/ ThreadReceives \/ ThreadDies PROVE timer' = 0
  BY <1>6 DEF ThreadStops, ThreadReceives, ThreadDies
<1>7. ASSUME TypeInv, TimerInv, ThreadReceivesNothing PROVE TimerInv'
  BY <1>7, <1>0 DEF ThreadReceivesNothing
<1>8. ASSUME TypeInv, TimerInv, ThreadSends PROVE TimerInv'
  BY <1>8, <1>0 DEF ThreadSends
<1>9. ASSUME TypeInv, TimerInv, Tick PROVE TimerInv'
  <2>1. timer' = Less(timer) /\ thread' = thread
    BY <1>9 DEF Tick
  <2> QED BY <1>9, <2>1, <1>0, LessFacts
<1> QED BY <1>1, <1>2, <1>3, <1>4, <1>5, <1>6, <1>7, <1>8, <1>9
        DEF Next, ExecutorStep, ThreadStep

LEMMA CloseStep ==
  RecvTimeout < JoinTimeout =>
    (TypeInv /\ TimerInv /\ CloseInv /\ [Next]_vars => CloseInv')
<1> SUFFICES ASSUME RecvTimeout < JoinTimeout
             PROVE  TypeInv /\ TimerInv /\ CloseInv /\ [Next]_vars => CloseInv'
  OBVIOUS
<1> USE DEF CloseInv, callVars, threadVars, ghosts
<1> DEFINE Hyp == TypeInv /\ TimerInv /\ CloseInv
<1>0. ASSUME Hyp PROVE /\ timer \in Nat /\ wait \in Nat /\ timer <= RecvTimeout
                       /\ (thread # "recv" => timer = 0)
                       /\ RecvTimeout \in Nat /\ JoinTimeout \in Nat
  BY <1>0, Sizes DEF TypeInv, TypeOK, TimerInv
<1>1. ASSUME op' \notin {"closing", "closed"} PROVE CloseInv'
  BY <1>1
<1>2. ASSUME Hyp, UNCHANGED <<op, wait, running>>, thread' = "dead" PROVE CloseInv'
  BY <1>2
<1>3. ASSUME Hyp, UNCHANGED <<op, wait, running, thread, timer>> PROVE CloseInv'
  BY <1>3
<1>4. ASSUME NEW c \in Commands, Call(c) PROVE op' \notin {"closing", "closed"}
  BY <1>4 DEF Call
<1>5. ASSUME Write \/ ReadRefused \/ ReadTimesOut PROVE op' \notin {"closing", "closed"}
  BY <1>5 DEF Write, ReadRefused, ReadTimesOut, Finish
<1>6. ASSUME ReadAnswer PROVE op' \notin {"closing", "closed"}
  BY <1>6 DEF ReadAnswer, NextPacket, TryAgain, Finish
<1>7. ASSUME Hyp, CloseBegins PROVE CloseInv'
  BY <1>7, <1>0 DEF CloseBegins
<1>8. ASSUME Hyp, CloseEnds PROVE CloseInv'
  BY <1>8, <1>0 DEF CloseEnds
<1>9. ASSUME ThreadStops \/ ThreadDies
      PROVE  UNCHANGED <<op, wait, running>> /\ thread' = "dead"
  BY <1>9 DEF ThreadStops, ThreadDies
<1>10. ASSUME DeviceServes \/ UNCHANGED vars
       PROVE  UNCHANGED <<op, wait, running, thread, timer>>
  BY <1>10 DEF DeviceServes, vars
<1>11. ASSUME Hyp, ThreadSends PROVE CloseInv'
  BY <1>11, <1>0 DEF ThreadSends
<1>12. ASSUME Hyp, ThreadReceives PROVE CloseInv'
  BY <1>12, <1>0 DEF ThreadReceives
<1>13. ASSUME Hyp, ThreadReceivesNothing PROVE CloseInv'
  BY <1>13, <1>0 DEF ThreadReceivesNothing
<1>14. ASSUME Hyp, Tick PROVE CloseInv'
  <2>1. timer' = Less(timer) /\ wait' = Less(wait) /\ UNCHANGED <<op, thread, running>>
    BY <1>14 DEF Tick
  <2>2. op = "closing" => thread = "recv" /\ timer # 0 /\ wait # 0
    BY <1>14, <1>0 DEF Tick, Urgent, TypeInv, TypeOK
  <2>3. op = "closing" => timer' < wait'
    BY <1>14, <1>0, <2>1, <2>2, LessFacts
  <2> QED BY <1>14, <2>1, <2>3
<1> QED BY <1>1, <1>2, <1>3, <1>4, <1>5, <1>6, <1>7, <1>8, <1>9, <1>10, <1>11, <1>12,
           <1>13, <1>14 DEF Next, ExecutorStep, ThreadStep

\* close() closes the socket after the UDP thread has left its loop, because join
\* waits for longer than recvfrom; also when the thread dies by itself.
THEOREM SocketOutlivesThread ==
  ASSUME RecvTimeout < JoinTimeout
  PROVE  Spec => []ThreadEndsBeforeSocket
<1>1. Init => TypeInv /\ TimerInv /\ CloseInv
  BY InitTypes, Sizes DEF Init, TimerInv, CloseInv
<1>2. TypeInv /\ TimerInv /\ CloseInv /\ [Next]_vars => (TypeInv /\ TimerInv /\ CloseInv)'
  BY TypeStep, TimerStep, CloseStep
<1>3. CloseInv => ThreadEndsBeforeSocket
  BY DEF CloseInv, ThreadEndsBeforeSocket
<1> QED BY <1>1, <1>2, <1>3, PTL DEF Spec

-----------------------------------------------------------------------------
(* One message at a time.                                                  *)

RestInv == CallInv /\ ThreadInv /\ ResultInv

LEMMA Numbers ==
  ASSUME PromptInv
  PROVE  /\ timer \in Nat /\ wait \in Nat /\ timer <= RecvTimeout
         /\ thread # "recv" => timer = 0
         /\ part \in 0..Parts /\ attempt \in 1..Retry /\ Parts \in Nat
         /\ Timeout \in Nat /\ RecvTimeout \in Nat /\ RequestDelay \in Nat
         /\ AnswerDelay \in Nat
         /\ lost \in BOOLEAN /\ mine \in BOOLEAN
BY Sizes DEF PromptInv, TypeInv, TypeOK, TimerInv

\* A step that leaves the call where it is, and what is on its way.
LEMMA SameCall ==
  ASSUME UNCHANGED <<cmd, part, done>>
  PROVE  Before' = Before /\ Upto' = Upto /\ (\A m : Current(m)' = Current(m))
         /\ (\A m : Served(m)' = Served(m))
BY DEF Before, Upto, Current, Served

LEMMA NotStop ==
  ASSUME NEW m \in Message, m.own
  PROVE  m # StopMarker
BY DEF StopMarker, Message0

LEMMA CallKeepsInv ==
  ASSUME PromptInv, NEW c \in Commands, Call(c)
  PROVE  RestInv'
<1>1. Quiet /\ op = "idle"
  BY DEF Call, PromptInv, CallInv
<1>2. Quiet'
  BY <1>1, NothingMapped DEF Call, Quiet
<1>3. part' = 0 /\ done' = {} /\ op' = "write" /\ result' = "none" /\ mine'
  BY DEF Call
<1>4. Before' = {}
  BY <1>3, Sizes DEF Before
<1>5. CallInv'
  BY <1>2, <1>3, <1>4 DEF CallInv
<1>6. ThreadInv'
  BY <1>1 DEF ThreadInv, Call, threadVars, PromptInv
<1>7. ResultInv'
  BY <1>3 DEF ResultInv
<1> QED BY <1>5, <1>6, <1>7 DEF RestInv

\* The call ends with nothing on its way.
LEMMA FinishKeepsInv ==
  ASSUME PromptInv, op \in {"write", "read"}, NEW r, Finish(r), Quiet',
         mine', r = "ok" => done' = Packets(cmd'), r = "timeout" => lost',
         UNCHANGED <<running, is_connected, thread>>
  PROVE  RestInv'
<1>1. op' = "idle" /\ result' = r /\ cmd' = cmd /\ part' = part
  BY DEF Finish
<1>2. CallInv'
  BY <1>1 DEF CallInv, PromptInv
<1>3. ThreadInv'
  BY <1>1 DEF ThreadInv, PromptInv
<1>4. ResultInv'
  BY <1>1 DEF ResultInv
<1> QED BY <1>2, <1>3, <1>4 DEF RestInv

LEMMA WriteKeepsInv ==
  ASSUME PromptInv, Prompt, Write
  PROVE  RestInv'
<1>1. /\ op = "write" /\ Quiet /\ done = Before /\ result = "none"
      /\ UNCHANGED <<receive_queue, threadVars, toDevice, toHost, ghosts, mine>>
  BY DEF Write, PromptInv, CallInv
<1>2. CASE is_connected
  <2>1. /\ send_queue' = Append(send_queue, Message0(cmd, part, TRUE))
        /\ op' = "read" /\ wait' = Timeout /\ UNCHANGED <<cmd, part, attempt, result>>
    BY <1>2 DEF Write
  <2>2. send_queue' = <<Message0(cmd, part, TRUE)>>
    BY <2>1, <1>1, One DEF Quiet
  <2>3. receive_queue' = <<>> /\ toDevice' = <<>> /\ toHost' = <<>>
    BY <1>1 DEF Quiet
  <2>4. done' = Before' /\ timer' = timer
    BY <1>1, <2>1, SameCall DEF ghosts, threadVars
  <2>5. Timeout + timer' <= wait' + RecvTimeout
    BY <2>1, <2>4, Numbers
  <2>6. AtSend'
    BY <2>1, <2>2, <2>3, <2>4, <2>5 DEF AtSend
  <2>7. CallInv'
    BY <1>1, <1>2, <2>1, <2>6 DEF CallInv, Waiting, PromptInv, threadVars
  <2>8. ThreadInv'
    BY <1>1, <2>1 DEF ThreadInv, PromptInv, threadVars
  <2>9. ResultInv'
    BY <1>1, <2>1 DEF ResultInv, PromptInv
  <2> QED BY <2>7, <2>8, <2>9 DEF RestInv
<1>3. CASE ~is_connected
  <2>1. Finish("error") /\ UNCHANGED send_queue
    BY <1>3 DEF Write
  <2>2. Quiet' /\ mine'
    BY <1>1, <2>1 DEF Quiet, PromptInv, ResultInv
  <2> QED BY <1>1, <2>1, <2>2, FinishKeepsInv DEF threadVars
<1> QED BY <1>2, <1>3

LEMMA ReadAnswerKeepsInv ==
  ASSUME PromptInv, ReadAnswer
  PROVE  RestInv'
<1>1. op = "read" /\ receive_queue # <<>> /\ Waiting /\ is_connected /\ result = "none"
  BY DEF ReadAnswer, PromptInv, CallInv
<1>2. Received
  BY <1>1 DEF Waiting, AtSend, Requested, Answered, LostIt, Quiet
<1>3. PICK m \in Message : Current(m) /\ receive_queue = <<m>> /\ Served(m)
  BY <1>2 DEF Received
<1>4. Head(receive_queue) = m /\ Tail(receive_queue) = <<>>
  BY <1>3, One
<1>5. /\ receive_queue' = <<>>
      /\ UNCHANGED <<send_queue, threadVars, toDevice, toHost, ghosts>>
  BY <1>4 DEF ReadAnswer
<1>6. Quiet'
  BY <1>2, <1>5 DEF Received, Quiet
<1>7. m.own /\ m.cmd = cmd /\ m.part = part
  BY <1>3 DEF Current
<1>8. mine'
  BY <1>4, <1>7 DEF ReadAnswer, PromptInv, ResultInv
<1>9. cmd \in Writes \cup Reads \cup {"ADM"} /\ (cmd # "ADM" => part = 0)
  BY <1>1 DEF PromptInv, TypeInv, CallInv, Commands
<1>10. \/ Accepts(m) /\ NextPacket
       \/ Accepts(m) /\ ~(cmd = "ADM" /\ part < Parts) /\ Finish("ok")
       \/ ~Accepts(m) /\ TryAgain
       \/ ~Accepts(m) /\ ~(cmd = "ADM" /\ attempt < Retry) /\ Finish("error")
  BY <1>4 DEF ReadAnswer
<1>11. done' = done /\ lost' = lost /\ UNCHANGED <<running, is_connected, thread>>
  BY <1>5 DEF ghosts, threadVars
<1>12. Accepts(m) => done = Upto
  BY <1>3 DEF Accepts, Served
<1>13. CASE Accepts(m) /\ NextPacket
  <2>1. cmd = "ADM" /\ part < Parts /\ part' = part + 1 /\ op' = "write"
        /\ cmd' = cmd /\ result' = result
    BY <1>13 DEF NextPacket
  <2>2. Before' = Upto
    BY <2>1, Numbers DEF Before, Upto
  <2>3. CallInv'
    BY <1>1, <1>6, <1>11, <1>12, <1>13, <2>1, <2>2 DEF CallInv
  <2>4. ThreadInv'
    BY <1>1, <1>11, <2>1 DEF ThreadInv, PromptInv
  <2>5. ResultInv'
    BY <1>1, <1>8, <2>1 DEF ResultInv
  <2> QED BY <2>3, <2>4, <2>5 DEF RestInv
<1>14. CASE Accepts(m) /\ ~(cmd = "ADM" /\ part < Parts) /\ Finish("ok")
  <2>1. Upto = Packets(cmd)
    <3>1. CASE cmd = "ADM"
      <4>1. part = Parts
        BY <3>1, <1>14, Numbers
      <4> QED BY <3>1, <4>1, Numbers DEF Upto, Before, Packets
    <3>2. CASE cmd # "ADM"
      <4>1. part = 0
        BY <3>2, <1>9
      <4> QED BY <3>2, <4>1, Numbers DEF Upto, Before, Packets
    <3> QED BY <3>1, <3>2
  <2>2. done' = Packets(cmd')
    BY <2>1, <1>11, <1>12, <1>14 DEF Finish
  <2> QED BY <1>1, <1>6, <1>8, <1>11, <1>14, <2>2, FinishKeepsInv
<1>15. CASE ~Accepts(m) /\ TryAgain
  <2>1. cmd = "ADM" /\ part' = part /\ op' = "write" /\ cmd' = cmd /\ result' = result
    BY <1>15 DEF TryAgain
  <2>2. ~m.ok /\ cmd \notin Reads
    BY <1>15, <2>1 DEF Accepts
  <2>3. done' = Before'
    BY <1>3, <1>11, <2>1, <2>2, SameCall DEF Served
  <2>4. CallInv'
    BY <1>1, <1>6, <2>1, <2>3 DEF CallInv
  <2>5. ThreadInv'
    BY <1>1, <1>11, <2>1 DEF ThreadInv, PromptInv
  <2>6. ResultInv'
    BY <1>1, <1>8, <2>1 DEF ResultInv
  <2> QED BY <2>4, <2>5, <2>6 DEF RestInv
<1>16. CASE ~Accepts(m) /\ Finish("error")
  BY <1>1, <1>6, <1>8, <1>11, <1>16, FinishKeepsInv
<1> QED BY <1>10, <1>13, <1>14, <1>15, <1>16

LEMMA ReadTimesOutKeepsInv ==
  ASSUME PromptInv, Prompt, ReadTimesOut
  PROVE  RestInv'
<1>1. /\ op = "read" /\ receive_queue = <<>> /\ wait = 0 /\ Waiting /\ Finish("timeout")
      /\ UNCHANGED <<send_queue, receive_queue, threadVars, toDevice, toHost, ghosts, mine>>
  BY DEF ReadTimesOut, PromptInv, CallInv
<1>2. ~AtSend
  <2> SUFFICES ASSUME AtSend PROVE FALSE
    OBVIOUS
  <2>1. Timeout + timer <= 0 + RecvTimeout
    BY <1>1 DEF AtSend
  <2>2. RecvTimeout + RequestDelay + AnswerDelay < Timeout
    BY DEF Prompt
  <2> QED BY <2>1, <2>2, Numbers
<1>3. ~Requested /\ ~Answered
  BY <1>1, Numbers DEF Requested, Answered, Message
<1>4. ~Received
  BY <1>1, One DEF Received
<1>5. Quiet /\ lost
  BY <1>1, <1>2, <1>3, <1>4 DEF Waiting, LostIt
<1>6. Quiet' /\ lost' /\ mine'
  BY <1>1, <1>5 DEF Quiet, ghosts, PromptInv, ResultInv
<1> QED BY <1>1, <1>6, FinishKeepsInv DEF threadVars

LEMMA CloseKeepsInv ==
  ASSUME PromptInv, CloseBegins \/ CloseEnds
  PROVE  RestInv'
<1>1. CASE CloseBegins
  <2>1. Quiet /\ op = "idle"
    BY <1>1 DEF CloseBegins, PromptInv, CallInv
  <2>2. /\ op' \in {"closing", "closed"} /\ (~running' \/ thread' = "dead")
        /\ UNCHANGED <<cmd, part, attempt, result, mine, receive_queue, toDevice, toHost, ghosts>>
    BY <1>1 DEF CloseBegins
  <2>3. CallInv'
    BY <2>1, <2>2 DEF CallInv, Quiet, PromptInv
  <2>4. ThreadInv'
    BY <2>2 DEF ThreadInv
  <2>5. ResultInv'
    BY <2>2 DEF ResultInv, PromptInv, ghosts
  <2> QED BY <2>3, <2>4, <2>5 DEF RestInv
<1>2. CASE CloseEnds
  <2>1. op = "closing" /\ op' = "closed" /\ UNCHANGED <<running, thread>>
        /\ UNCHANGED <<cmd, part, attempt, result, mine, receive_queue, toDevice, toHost, ghosts>>
    BY <1>2 DEF CloseEnds
  <2>2. CallInv'
    BY <2>1 DEF CallInv, PromptInv
  <2>3. ThreadInv'
    BY <2>1 DEF ThreadInv
  <2>4. ResultInv'
    BY <2>1 DEF ResultInv, PromptInv, ghosts
  <2> QED BY <2>2, <2>3, <2>4 DEF RestInv
<1> QED BY <1>1, <1>2

\* The UDP thread, the device and time leave the call as it is.
LEMMA CallRests ==
  ASSUME PromptInv, UNCHANGED callVars, UNCHANGED <<running, is_connected>>,
         done' \subseteq 0..Parts, op # "read" => done' = done, lost => lost',
         op \in {"idle", "write"} => Quiet',
         op = "read" => Waiting' /\ result = "none",
         op \in {"closing", "closed"} =>
           receive_queue' = <<>> /\ toDevice' = <<>> /\ toHost' = <<>>,
         running => (thread = "dead" <=> thread' = "dead"), thread = "dead" => thread' = "dead"
  PROVE  RestInv'
<1>1. UNCHANGED <<op, cmd, part, attempt, wait, result, mine>>
  BY DEF callVars
<1>2. Before' = Before
  BY <1>1 DEF Before
<1>3. CallInv'
  BY <1>1, <1>2 DEF CallInv, PromptInv
<1>4. ThreadInv'
  BY <1>1 DEF ThreadInv, PromptInv
<1>5. ResultInv'
  BY <1>1 DEF ResultInv, PromptInv
<1> QED BY <1>3, <1>4, <1>5 DEF RestInv

LEMMA SameWaiting ==
  ASSUME Waiting, UNCHANGED callVars, UNCHANGED <<send_queue, receive_queue, toDevice, toHost, done>>,
         lost => lost', timer' = timer \/ send_queue = <<>>
  PROVE  Waiting'
<1>1. UNCHANGED <<cmd, part, wait>>
  BY DEF callVars
<1>2. Before' = Before /\ Upto' = Upto /\ (\A m : Current(m)' = Current(m))
      /\ (\A m : Served(m)' = Served(m))
  BY <1>1, SameCall
<1>3. CASE AtSend
  <2>1. timer' = timer
    BY <1>3, One DEF AtSend
  <2>2. AtSend'
    BY <1>1, <1>2, <1>3, <2>1 DEF AtSend
  <2> QED BY <2>2 DEF Waiting
<1>4. CASE Requested
  <2>1. Requested'
    BY <1>1, <1>2, <1>4 DEF Requested
  <2> QED BY <2>1 DEF Waiting
<1>5. CASE Answered
  <2>1. Answered'
    BY <1>1, <1>2, <1>5 DEF Answered
  <2> QED BY <2>1 DEF Waiting
<1>6. CASE Received
  <2>1. Received'
    BY <1>1, <1>2, <1>6 DEF Received
  <2> QED BY <2>1 DEF Waiting
<1>7. CASE LostIt
  <2>1. LostIt'
    BY <1>1, <1>2, <1>7 DEF LostIt, Quiet
  <2> QED BY <2>1 DEF Waiting
<1> QED BY <1>3, <1>4, <1>5, <1>6, <1>7 DEF Waiting

\* A step of the UDP thread that moves no message.
LEMMA IdleLoop ==
  ASSUME PromptInv, UNCHANGED callVars, UNCHANGED <<running, is_connected, ghosts>>,
         UNCHANGED <<send_queue, receive_queue, toDevice, toHost>>,
         timer' = timer \/ send_queue = <<>>,
         running => (thread = "dead" <=> thread' = "dead"), thread = "dead" => thread' = "dead"
  PROVE  RestInv'
<1>1. done' = done /\ lost' = lost /\ done' \subseteq 0..Parts
  BY DEF ghosts, PromptInv, TypeInv, TypeOK
<1>2. op \in {"idle", "write"} => Quiet'
  BY DEF PromptInv, CallInv, Quiet
<1>3. op = "read" => Waiting /\ result = "none"
  BY DEF PromptInv, CallInv
<1>4. op = "read" => Waiting'
  BY <1>1, <1>3, SameWaiting
<1>5. op \in {"closing", "closed"} => receive_queue' = <<>> /\ toDevice' = <<>> /\ toHost' = <<>>
  BY DEF PromptInv, CallInv
<1> QED BY <1>1, <1>2, <1>3, <1>4, <1>5, CallRests

LEMMA LoopKeepsInv ==
  ASSUME PromptInv, Prompt, ThreadStops \/ ThreadReceivesNothing \/ ThreadDies
  PROVE  RestInv'
<1>1. CASE ThreadStops
  <2>1. /\ ~running /\ thread = "send" /\ thread' = "dead" /\ timer' = 0
        /\ UNCHANGED <<callVars, send_queue, receive_queue, running, is_connected,
                        toDevice, toHost, ghosts>>
    BY <1>1 DEF ThreadStops
  <2>2. timer' = timer
    BY <2>1, Numbers
  <2> QED BY <2>1, <2>2, IdleLoop
<1>2. CASE ThreadReceivesNothing
  <2>1. /\ thread = "recv" /\ thread' = "send"
        /\ UNCHANGED <<callVars, send_queue, receive_queue, timer, running, is_connected,
                        toDevice, toHost, ghosts>>
    BY <1>2 DEF ThreadReceivesNothing
  <2> QED BY <2>1, IdleLoop
<1>3. ~ThreadDies
  BY DEF ThreadDies, Prompt
<1> QED BY <1>1, <1>2, <1>3

LEMMA ThreadSendsKeepsInv ==
  ASSUME PromptInv, Prompt, ThreadSends
  PROVE  RestInv'
<1>1. /\ thread = "send" /\ running /\ thread' = "recv" /\ timer' = RecvTimeout
      /\ UNCHANGED <<callVars, receive_queue, running, is_connected, toHost, done>>
  BY DEF ThreadSends
<1>2. CASE send_queue = <<>>
  <2>1. UNCHANGED <<send_queue, toDevice, lost>>
    BY <1>2 DEF ThreadSends
  <2> QED BY <1>1, <1>2, <2>1, IdleLoop DEF ghosts
<1>3. CASE send_queue # <<>>
  <2>1. op = "read" /\ Waiting /\ result = "none"
    BY <1>1, <1>3 DEF PromptInv, CallInv, TypeInv, TypeOK, Quiet
  <2>2. AtSend
    BY <1>3, <2>1 DEF Waiting, Requested, Answered, Received, LostIt, Quiet
  <2> DEFINE m == Message0(cmd, part, TRUE)
  <2>3. send_queue = <<m>> /\ Head(send_queue) = m /\ Tail(send_queue) = <<>>
    BY <2>2, One DEF AtSend
  <2>4. send_queue' = <<>> /\ SendTo(m)
    BY <1>3, <2>3 DEF ThreadSends
  <2>5. cmd \in Commands
    BY <2>1 DEF PromptInv, TypeInv
  <2>6. m \in Message
    BY <2>5, NewMessage, Numbers
  <2>7. m.own /\ m.cmd = cmd /\ m.part = part
    BY DEF Message0
  <2>8. m # StopMarker
    BY <2>6, <2>7, NotStop
  <2>9. UNCHANGED <<cmd, part, wait>>
    BY <1>1 DEF callVars
  <2>10. \A n : Current(n)' = Current(n)
    BY <1>1, <2>9, SameCall
  <2>11. Before' = Before /\ Upto' = Upto
    BY <1>1, <2>9, SameCall
  <2> HIDE DEF m
  <2>12. ASSUME lost', toDevice' = toDevice PROVE Waiting'
    <3>1. LostIt'
      BY <1>1, <2>2, <2>4, <2>11, <2>12 DEF LostIt, Quiet, AtSend
    <3> QED BY <3>1 DEF Waiting
  <2>13. ASSUME NEW d \in 0..RequestDelay, toDevice' = Append(toDevice, Delayed(m, d))
         PROVE  Waiting'
    <3>1. toDevice' = <<Delayed(m, d)>>
      BY <2>2, <2>13, One DEF AtSend
    <3>2. d \in 0..(RequestDelay + AnswerDelay)
      BY Numbers
    <3>3. Current(Delayed(m, d)) /\ Delayed(m, d) \in Message /\ Delayed(m, d).due = d
      BY <2>6, <2>7, <3>2, Fields DEF Current
    <3>4. d + AnswerDelay < wait
      <4>1. Timeout + timer <= wait + RecvTimeout
        BY <2>2 DEF AtSend
      <4>2. RecvTimeout + RequestDelay + AnswerDelay < Timeout
        BY DEF Prompt
      <4> QED BY <4>1, <4>2, Numbers
    <3>5. Requested'
      BY <1>1, <2>2, <2>4, <2>9, <2>10, <2>11, <3>1, <3>3, <3>4 DEF Requested, AtSend
    <3> QED BY <3>5 DEF Waiting
  <2>14. \/ lost' /\ toDevice' = toDevice
         \/ \E d \in 0..RequestDelay : toDevice' = Append(toDevice, Delayed(m, d))
    BY <2>4, <2>7, <2>8 DEF SendTo
  <2>15. Waiting'
    BY <2>12, <2>13, <2>14
  <2>16. lost => lost'
    BY <2>4 DEF SendTo
  <2>17. done' \subseteq 0..Parts
    BY <1>1 DEF PromptInv, TypeInv, TypeOK
  <2> QED BY <1>1, <2>1, <2>15, <2>16, <2>17, CallRests
<1> QED BY <1>2, <1>3

LEMMA ThreadReceivesKeepsInv ==
  ASSUME PromptInv, ThreadReceives
  PROVE  RestInv'
<1>1. /\ thread = "recv" /\ thread' = "send" /\ toHost # <<>>
      /\ receive_queue' = Append(receive_queue, Head(toHost)) /\ toHost' = Tail(toHost)
      /\ UNCHANGED <<callVars, send_queue, running, is_connected, toDevice, ghosts>>
  BY DEF ThreadReceives, Arrived
<1>2. op = "read" /\ Waiting /\ result = "none"
  BY <1>1 DEF PromptInv, CallInv, TypeInv, TypeOK, Quiet
<1>3. Answered
  BY <1>1, <1>2 DEF Waiting, AtSend, Requested, Received, LostIt, Quiet
<1>4. PICK m \in Message : Current(m) /\ toHost = <<m>> /\ Served(m)
  BY <1>3 DEF Answered
<1>5. receive_queue' = <<m>> /\ toHost' = <<>>
  BY <1>1, <1>3, <1>4, One DEF Answered
<1>6. UNCHANGED <<cmd, part, done, lost>>
  BY <1>1 DEF callVars, ghosts
<1>7. Current(m)' /\ Served(m)'
  BY <1>4, <1>6, SameCall
<1>8. send_queue' = <<>> /\ toDevice' = <<>>
  BY <1>1, <1>3 DEF Answered
<1>9. Received'
  BY <1>5, <1>7, <1>8 DEF Received
<1>10. Waiting'
  BY <1>9 DEF Waiting
<1>11. done' \subseteq 0..Parts
  BY <1>6 DEF PromptInv, TypeInv, TypeOK
<1> QED BY <1>1, <1>2, <1>6, <1>10, <1>11, CallRests

LEMMA DeviceKeepsInv ==
  ASSUME PromptInv, DeviceServes
  PROVE  RestInv'
<1>1. /\ toDevice # <<>> /\ toDevice' = Tail(toDevice)
      /\ UNCHANGED <<callVars, send_queue, receive_queue, threadVars>>
  BY DEF DeviceServes, Arrived
<1>2. op = "read" /\ Waiting /\ result = "none"
  BY <1>1 DEF PromptInv, CallInv, TypeInv, TypeOK, Quiet
<1>3. Requested
  BY <1>1, <1>2 DEF Waiting, AtSend, Answered, Received, LostIt, Quiet
<1>4. PICK m \in Message : Current(m) /\ toDevice = <<m>> /\ m.due + AnswerDelay < wait
  BY <1>3 DEF Requested
<1>5. Head(toDevice) = m /\ toDevice' = <<>> /\ done = Before
  BY <1>1, <1>3, <1>4, One DEF Requested
<1>6. m.own /\ m.cmd = cmd /\ m.part = part
  BY <1>4 DEF Current
<1>7. PICK ok \in BOOLEAN :
        /\ done' = IF m.own /\ (ok \/ m.cmd \in Reads) THEN done \cup {m.part} ELSE done
        /\ \/ Lossy /\ lost' = (lost \/ m.own) /\ UNCHANGED toHost
           \/ /\ \E d \in 0..AnswerDelay : toHost' = Append(toHost, Delayed(AnswerTo(m, ok), d))
              /\ UNCHANGED lost
  BY <1>5 DEF DeviceServes
<1>8. done' = IF ok \/ cmd \in Reads THEN Upto ELSE Before
  BY <1>5, <1>6, <1>7 DEF Upto
<1>9. UNCHANGED <<cmd, part, wait>>
  BY <1>1 DEF callVars
<1>10. Before' = Before /\ Upto' = Upto /\ wait \in Nat
  BY <1>9, Numbers DEF Before, Upto
<1>11. send_queue' = <<>> /\ receive_queue' = <<>>
  BY <1>1, <1>3 DEF Requested
<1>12. ASSUME lost', toHost' = toHost PROVE Waiting'
  <2>1. LostIt'
    BY <1>3, <1>5, <1>8, <1>10, <1>11, <1>12 DEF LostIt, Quiet, Requested
  <2> QED BY <2>1 DEF Waiting
<1>13. ASSUME NEW d \in 0..AnswerDelay, toHost' = Append(toHost, Delayed(AnswerTo(m, ok), d))
       PROVE  Waiting'
  <2> DEFINE a == Delayed(AnswerTo(m, ok), d)
  <2>1. toHost' = <<a>>
    BY <1>3, <1>13, One DEF Requested
  <2>2. d \in 0..(RequestDelay + AnswerDelay)
    BY Numbers
  <2>3. /\ AnswerTo(m, ok) \in Message /\ AnswerTo(m, ok).ok = ok
        /\ AnswerTo(m, ok).cmd = m.cmd /\ AnswerTo(m, ok).part = m.part
        /\ AnswerTo(m, ok).own = m.own
    BY <1>7, Fields
  <2>4. /\ a \in Message /\ a.due = d /\ a.ok = ok
        /\ a.cmd = m.cmd /\ a.part = m.part /\ a.own = m.own
    BY <2>2, <2>3, Fields
  <2> HIDE DEF a
  <2>5. Current(a)'
    BY <1>6, <1>9, <2>4 DEF Current
  <2>6. Served(a)'
    BY <1>8, <1>9, <1>10, <2>4 DEF Served
  <2>7. d < wait
    BY <1>4, <1>10, Numbers DEF Message
  <2>8. Answered'
    BY <1>5, <1>9, <1>11, <2>1, <2>4, <2>5, <2>6, <2>7 DEF Answered
  <2> QED BY <2>8 DEF Waiting
<1>14. \/ lost' /\ toHost' = toHost
       \/ \E d \in 0..AnswerDelay : toHost' = Append(toHost, Delayed(AnswerTo(m, ok), d))
  BY <1>6, <1>7
<1>15. Waiting'
  BY <1>12, <1>13, <1>14
<1>16. lost => lost'
  BY <1>7
<1>17. done' \subseteq 0..Parts
  BY <1>8, Numbers DEF Upto, Before
<1> QED BY <1>1, <1>2, <1>15, <1>16, <1>17, CallRests DEF threadVars

LEMMA TickKeepsInv ==
  ASSUME PromptInv, Prompt, Tick
  PROVE  RestInv'
<1>1. /\ ~Urgent /\ wait' = Less(wait) /\ timer' = Less(timer)
      /\ toDevice' = Sooner(toDevice) /\ toHost' = Sooner(toHost)
      /\ UNCHANGED <<op, cmd, part, attempt, result, mine, send_queue, receive_queue,
                     thread, running, is_connected, ghosts>>
  BY DEF Tick
<1>2. UNCHANGED <<done, lost>> /\ wait \in Nat /\ timer \in Nat
  BY <1>1, Numbers DEF ghosts
<1>3. Before' = Before /\ Upto' = Upto /\ (\A m : Current(m)' = Current(m))
      /\ (\A m : Served(m)' = Served(m))
  BY <1>1, <1>2, SameCall
<1>4. Quiet => Quiet'
  BY <1>1, NothingMapped DEF Quiet
<1>5. ASSUME op = "read" PROVE Waiting'
  <2>1. Waiting /\ is_connected
    BY <1>5 DEF PromptInv, CallInv
  <2>2. thread = "recv" /\ timer # 0 /\ wait # 0 /\ receive_queue = <<>>
    BY <1>1, <1>5, <2>1 DEF Urgent, PromptInv, ThreadInv, TypeInv, TypeOK
  <2>3. ~Arrived(toHost) /\ ~Arrived(toDevice)
    BY <1>1, <2>2 DEF Urgent
  <2>4. wait' = wait - 1 /\ timer' = timer - 1
    BY <1>1, <1>2, <2>2 DEF Less
  <2>5. CASE AtSend
    <3>1. toDevice' = <<>> /\ toHost' = <<>>
      BY <1>1, <2>5, NothingMapped DEF AtSend
    <3>2. Timeout + timer' <= wait' + RecvTimeout
      BY <1>2, <2>4, <2>5, Numbers DEF AtSend
    <3>3. AtSend'
      BY <1>1, <1>2, <1>3, <2>5, <3>1, <3>2 DEF AtSend
    <3> QED BY <3>3 DEF Waiting
  <2>6. CASE Requested
    <3>1. PICK m \in Message : Current(m) /\ toDevice = <<m>> /\ m.due + AnswerDelay < wait
      BY <2>6 DEF Requested
    <3>2. m.due # 0
      BY <2>3, <3>1, One DEF Arrived
    <3>3. m.due \in 0..(RequestDelay + AnswerDelay) /\ m.due \in Nat
      BY Numbers DEF Message
    <3>4. Less(m.due) = m.due - 1 /\ Less(m.due) \in 0..(RequestDelay + AnswerDelay)
      BY <3>2, <3>3, Numbers DEF Less
    <3> DEFINE n == Delayed(m, Less(m.due))
    <3>5. n \in Message /\ n.due = m.due - 1 /\ Current(n)
      BY <3>1, <3>4, Fields DEF Current
    <3>6. toDevice' = <<n>>
      BY <1>1, <3>1, SoonerOne
    <3> HIDE DEF n
    <3>7. n.due + AnswerDelay < wait'
      BY <1>2, <2>4, <3>1, <3>3, <3>5, Numbers
    <3>8. toHost' = <<>>
      BY <1>1, <2>6, NothingMapped DEF Requested
    <3>9. Requested'
      BY <1>1, <1>2, <1>3, <2>6, <3>5, <3>6, <3>7, <3>8 DEF Requested
    <3> QED BY <3>9 DEF Waiting
  <2>7. CASE Answered
    <3>1. PICK m \in Message : Current(m) /\ toHost = <<m>> /\ m.due < wait /\ Served(m)
      BY <2>7 DEF Answered
    <3>2. m.due # 0
      BY <2>3, <3>1, One DEF Arrived
    <3>3. m.due \in 0..(RequestDelay + AnswerDelay) /\ m.due \in Nat
      BY Numbers DEF Message
    <3>4. Less(m.due) = m.due - 1 /\ Less(m.due) \in 0..(RequestDelay + AnswerDelay)
      BY <3>2, <3>3, Numbers DEF Less
    <3> DEFINE n == Delayed(m, Less(m.due))
    <3>5. n \in Message /\ n.due = m.due - 1 /\ Current(n) /\ Served(n)
      BY <3>1, <3>4, Fields DEF Current, Served
    <3>6. toHost' = <<n>>
      BY <1>1, <3>1, SoonerOne
    <3> HIDE DEF n
    <3>7. n.due < wait'
      BY <1>2, <2>4, <3>1, <3>3, <3>5
    <3>8. toDevice' = <<>>
      BY <1>1, <2>7, NothingMapped DEF Answered
    <3>9. Answered'
      BY <1>1, <1>2, <1>3, <2>7, <3>5, <3>6, <3>7, <3>8 DEF Answered
    <3> QED BY <3>9 DEF Waiting
  <2>8. CASE Received
    BY <2>2, <2>8, One DEF Received
  <2>9. CASE LostIt
    <3>1. LostIt'
      BY <1>2, <1>3, <1>4, <2>9 DEF LostIt
    <3> QED BY <3>1 DEF Waiting
  <2> QED BY <2>1, <2>5, <2>6, <2>7, <2>8, <2>9 DEF Waiting
<1>6. CallInv'
  <2>1. op = "idle" => Quiet'
    BY <1>4 DEF PromptInv, CallInv
  <2>2. op # "write"
    BY <1>1 DEF Urgent
  <2>3. op \in {"closing", "closed"} =>
          receive_queue' = <<>> /\ toDevice' = <<>> /\ toHost' = <<>>
    BY <1>1, NothingMapped DEF PromptInv, CallInv
  <2> QED BY <1>1, <1>5, <2>1, <2>2, <2>3 DEF PromptInv, CallInv
<1>7. ThreadInv'
  BY <1>1 DEF PromptInv, ThreadInv
<1>8. ResultInv'
  BY <1>1, <1>2 DEF PromptInv, ResultInv
<1> QED BY <1>6, <1>7, <1>8 DEF RestInv

LEMMA PromptInit == Init => PromptInv
<1> SUFFICES ASSUME Init PROVE PromptInv
  OBVIOUS
<1>1. TypeInv
  BY InitTypes
<1>2. /\ op = "idle" /\ part = 0 /\ timer = 0 /\ result = "none" /\ mine /\ Quiet
      /\ running = is_connected /\ (is_connected => thread = "send")
  BY DEF Init, Quiet
<1>3. TimerInv
  BY <1>2, Sizes DEF TimerInv
<1>4. CallInv
  BY <1>2 DEF CallInv
<1>5. ThreadInv
  BY <1>2 DEF ThreadInv
<1>6. ResultInv
  BY <1>2 DEF ResultInv
<1> QED BY <1>1, <1>3, <1>4, <1>5, <1>6 DEF PromptInv

LEMMA StutterKeepsInv ==
  ASSUME PromptInv, UNCHANGED vars
  PROVE  RestInv'
<1>1. /\ UNCHANGED <<callVars, running, is_connected, ghosts, timer, thread>>
      /\ UNCHANGED <<send_queue, receive_queue, toDevice, toHost>>
  BY DEF vars, threadVars
<1> QED BY <1>1, IdleLoop

LEMMA PromptStep == Prompt => (PromptInv /\ [Next]_vars => PromptInv')
<1> SUFFICES ASSUME Prompt, PromptInv, [Next]_vars PROVE PromptInv'
  OBVIOUS
<1>1. TypeInv' /\ TimerInv'
  BY TypeStep, TimerStep DEF PromptInv
<1>2. ASSUME ReadRefused PROVE FALSE
  BY <1>2 DEF ReadRefused, PromptInv, CallInv
<1>3. RestInv'
  BY <1>2, CallKeepsInv, WriteKeepsInv, ReadAnswerKeepsInv, ReadTimesOutKeepsInv,
     CloseKeepsInv, LoopKeepsInv, ThreadSendsKeepsInv, ThreadReceivesKeepsInv,
     DeviceKeepsInv, TickKeepsInv, StutterKeepsInv
     DEF Next, ExecutorStep, ThreadStep
<1> QED BY <1>1, <1>3 DEF PromptInv, RestInv

LEMMA PromptAlways == Prompt => (Spec => []PromptInv)
<1> SUFFICES ASSUME Prompt PROVE Spec => []PromptInv
  OBVIOUS
<1>1. PromptInv /\ [Next]_vars => PromptInv'
  BY PromptStep
<1> QED BY <1>1, PromptInit, PTL DEF Spec

-----------------------------------------------------------------------------
(* What callers of the executor rely on.                                   *)

\* A command or a download that returns was carried out by the device, every packet
\* of it, although responses carry no number.
THEOREM ReturnedWasExecuted == ASSUME Prompt PROVE Spec => []OkMeansExecuted
<1>1. PromptInv => OkMeansExecuted
  BY DEF PromptInv, ResultInv, OkMeansExecuted
<1> QED BY <1>1, PromptAlways, PTL

\* The response a query returns is the response to that query.
THEOREM ResponsesAreOwn == ASSUME Prompt PROVE Spec => []RawAnswerIsOwn
<1>1. PromptInv => RawAnswerIsOwn
  BY DEF PromptInv, ResultInv, RawAnswerIsOwn
<1> QED BY <1>1, PromptAlways, PTL

\* No call leaves anything behind, in a queue or on the link, that the next call
\* could take for its own answer.
THEOREM NothingIsLeftOver == ASSUME Prompt PROVE Spec => []NothingPending
<1>1. PromptInv => NothingPending
  BY DEF PromptInv, CallInv, NothingPending, Quiet
<1> QED BY <1>1, PromptAlways, PTL

\* The wait for the recvfrom in progress never causes a time-out by itself: a call
\* that times out has lost a packet.
THEOREM OnlyLossesTimeOut == ASSUME Prompt PROVE Spec => []TimeoutMeansLoss
<1>1. PromptInv => TimeoutMeansLoss
  BY DEF PromptInv, ResultInv, TimeoutMeansLoss
<1> QED BY <1>1, PromptAlways, PTL

-----------------------------------------------------------------------------
(* DSGExecutor implements CommandService.                                  *)

Request == IF op \in {"write", "read"} THEN cmd ELSE "none"
Outcome == IF result = "timeout" THEN "error" ELSE result

\* A call that ends by raising.
LEMMA Raises ==
  ASSUME PromptInv, op \in {"write", "read"}, NEW r \in {"error", "timeout"}, Finish(r),
         done' = done
  PROVE  Service!Raise
<1>1. Request = cmd /\ cmd # "none"
  BY ExecutorAssumption DEF Request, PromptInv, TypeInv, Commands
<1>2. Request' = "none" /\ Outcome' = "error"
  BY DEF Finish, Request, Outcome
<1> QED BY <1>1, <1>2 DEF Service!Raise, Service!NoRequest, Request, Outcome

\* A step that the service does not see.
LEMMA Unseen ==
  ASSUME UNCHANGED <<cmd, result, done>>,
         op \in {"write", "read"} <=> op' \in {"write", "read"}
  PROVE  UNCHANGED Service!vars
BY DEF Service!vars

LEMMA ImplementsStep ==
  ASSUME PromptInv, Prompt, [Next]_vars
  PROVE  [Service!Next]_(Service!vars)
<1>1. ASSUME NEW c \in Commands, Call(c) PROVE Service!Next
  <2>1. op = "idle" /\ op' = "write" /\ cmd' = c /\ done' = {} /\ result' = "none"
    BY <1>1 DEF Call
  <2>2. Service!Call(c)
    BY <2>1 DEF Service!Call, Service!NoRequest
  <2> QED BY <2>2 DEF Service!Next, Service!Commands, Commands
<1>2. ASSUME Write PROVE Service!Raise \/ UNCHANGED Service!vars
  <2>1. op = "write" /\ done' = done
    BY <1>2 DEF Write, ghosts
  <2>2. Finish("error") \/ (op' = "read" /\ UNCHANGED <<cmd, result>>)
    BY <1>2 DEF Write
  <2> QED BY <2>1, <2>2, Raises, Unseen
<1>3. ASSUME ReadRefused \/ ReadTimesOut PROVE Service!Raise
  <2>1. op = "read" /\ done' = done /\ (Finish("error") \/ Finish("timeout"))
    BY <1>3 DEF ReadRefused, ReadTimesOut, ghosts
  <2> QED BY <2>1, Raises
<1>4. ASSUME ReadAnswer PROVE Service!Return \/ Service!Raise \/ UNCHANGED Service!vars
  <2>1. op = "read" /\ done' = done /\ RestInv'
    BY <1>4, ReadAnswerKeepsInv DEF ReadAnswer, ghosts
  <2>2. \/ op' = "write" /\ UNCHANGED <<cmd, result>>
        \/ Finish("ok") \/ Finish("error")
    BY <1>4 DEF ReadAnswer, NextPacket, TryAgain
  <2>3. CASE Finish("ok")
    <3>1. op' = "idle" /\ result' = "ok" /\ cmd' = cmd
      BY <2>3 DEF Finish
    <3>2. done = Packets(cmd)
      BY <2>1, <3>1 DEF RestInv, ResultInv
    <3>3. cmd # "none"
      BY <2>1, ExecutorAssumption DEF PromptInv, TypeInv, Commands
    <3>4. Service!Return
      BY <2>1, <3>1, <3>2, <3>3
         DEF Service!Return, Service!NoRequest, Service!Packets, Packets
    <3> QED BY <3>4
  <2> QED BY <2>1, <2>2, <2>3, Raises, Unseen
<1>5. ASSUME CloseBegins \/ CloseEnds PROVE UNCHANGED Service!vars
  <2>1. /\ UNCHANGED <<cmd, result, done>>
        /\ op \notin {"write", "read"} /\ op' \notin {"write", "read"}
    BY <1>5 DEF CloseBegins, CloseEnds, ghosts
  <2> QED BY <2>1, Unseen
<1>6. ASSUME ThreadStep \/ ThreadDies PROVE UNCHANGED Service!vars
  <2>1. UNCHANGED <<op, cmd, result, done>>
    BY <1>6 DEF ThreadStep, ThreadSends, ThreadStops, ThreadReceives, ThreadReceivesNothing,
       ThreadDies, callVars, ghosts
  <2> QED BY <2>1, Unseen
<1>7. ASSUME DeviceServes PROVE Service!Serve \/ UNCHANGED Service!vars
  <2>1. UNCHANGED <<op, cmd, part, result>> /\ toDevice # <<>>
    BY <1>7 DEF DeviceServes, callVars, Arrived
  <2>2. op = "read" /\ Waiting /\ cmd \in Commands /\ cmd # "none"
    BY <2>1, ExecutorAssumption DEF PromptInv, CallInv, TypeInv, TypeOK, Quiet, Commands
  <2>3. Requested
    BY <2>1, <2>2 DEF Waiting, AtSend, Answered, Received, LostIt, Quiet
  <2>4. PICK m \in Message : Current(m) /\ toDevice = <<m>>
    BY <2>3 DEF Requested
  <2>5. Head(toDevice) = m /\ m.part = part /\ done = Before
    BY <2>3, <2>4, One DEF Requested, Current
  <2>6. done' = done \/ done' = done \cup {part}
    BY <1>7, <2>5 DEF DeviceServes
  <2>7. CASE done' = done
    BY <2>1, <2>7, Unseen
  <2>8. CASE done' = done \cup {part}
    <3>1. part \in Packets(cmd) /\ part \notin done
      BY <2>5, Numbers DEF Packets, Before, PromptInv, CallInv
    <3>2. \A q \in Packets(cmd) : q < part => q \in done
      BY <2>5, Numbers DEF Packets, Before
    <3>3. Service!Packets(cmd) = Packets(cmd)
      BY DEF Service!Packets, Packets
    <3>4. Service!Serve
      BY <2>1, <2>2, <2>8, <3>1, <3>2, <3>3 DEF Service!Serve, Service!NoRequest
    <3> QED BY <3>4
  <2> QED BY <2>6, <2>7, <2>8
<1>8. ASSUME Tick PROVE UNCHANGED Service!vars
  <2>1. UNCHANGED <<op, cmd, result, done>>
    BY <1>8 DEF Tick, ghosts
  <2> QED BY <2>1, Unseen
<1>9. ASSUME UNCHANGED vars PROVE UNCHANGED Service!vars
  <2>1. UNCHANGED <<op, cmd, result, done>>
    BY <1>9 DEF vars, callVars, ghosts
  <2> QED BY <2>1, Unseen
<1> QED BY <1>1, <1>2, <1>3, <1>4, <1>5, <1>6, <1>7, <1>8, <1>9
        DEF Next, ExecutorStep, Service!Next

\* Under these times a call behaves like a call of CommandService: what returns was
\* carried out completely and in order, what raises up to some packet, and the
\* device does nothing between two calls.  (That every call ends is left to TLC.)
THEOREM ImplementsServiceSafely ==
  ASSUME Prompt
  PROVE  Spec => Service!Init /\ [][Service!Next]_(Service!vars)
<1>1. Init => Service!Init
  BY DEF Init, Service!Init, Service!NoRequest
<1>2. PromptInv /\ [Next]_vars => [Service!Next]_(Service!vars)
  BY ImplementsStep
<1> QED BY <1>1, <1>2, PromptAlways, PTL DEF Spec
=============================================================================
