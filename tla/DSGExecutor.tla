----------------------------- MODULE DSGExecutor -----------------------------
(***************************************************************************)
(* The transport of the SDK: the executor (dsg_executor.py) in the         *)
(* worker's thread, the UDP thread with its two queues (dsg_udp.py), the   *)
(* link and the answering device.                                          *)
(*                                                                         *)
(* Time is explicit.  The UDP thread alternates between its send queue and *)
(* a recvfrom of RecvTimeout, the executor waits Timeout for an answer,    *)
(* and Tick lets time pass only when nobody has something to do at once.   *)
(* The thread's sleep of 0.01 s per loop is not counted.                   *)
(*                                                                         *)
(* A message carries its command, the packet of the command it belongs to  *)
(* and, as a ghost, whether it belongs to the call being executed.         *)
(***************************************************************************)
EXTENDS Naturals, Sequences

CONSTANTS
  Writes, Reads, Parts,       \* as in CommandService
  Retry,                      \* retry
  Timeout,                    \* timeout of an answer
  RecvTimeout,                \* settimeout of the socket
  JoinTimeout,                \* timeout of thread.join
  RequestDelay, AnswerDelay,  \* longest ways to the device and back
  Lossy,                      \* the link may lose packets
  Refusals,                   \* the device may answer RESULT_ERR
  ThreadMayDie,               \* the socket may raise in the UDP thread
  MaxBacklog                  \* bound of the model: no call starts while more
                              \* messages than this are left over

Commands == Writes \cup Reads \cup {"ADM"}

ASSUME ExecutorAssumption ==
  /\ Writes \cap Reads = {} /\ {"ADM", "stop", "none"} \cap (Writes \cup Reads) = {}
  /\ Parts \in Nat /\ Retry \in Nat \ {0}
  /\ {Timeout, RecvTimeout, JoinTimeout, RequestDelay, AnswerDelay, MaxBacklog}
       \subseteq Nat
  /\ Lossy \in BOOLEAN /\ Refusals \in BOOLEAN /\ ThreadMayDie \in BOOLEAN

VARIABLES
  op,          \* what the worker's thread does
  cmd, part,   \* the command being executed, and which packet of it
  attempt,     \* local attempt of the two retry loops
  wait,        \* ticks until its queue.get or join gives up
  result,      \* how the latest command ended
  send_queue, receive_queue,
  thread,      \* where the UDP thread is in its loop
  timer,       \* ticks until its recvfrom gives up
  running, is_connected,
  toDevice, toHost,   \* packets on the link, each with its remaining delay
  done,        \* ghost: packets of the latest command the device carried out
  mine,        \* ghost: every answer taken for it was the answer to its packet
  lost         \* ghost: the link has lost a packet of the latest command

callVars == <<op, cmd, part, attempt, wait, result, mine>>
threadVars == <<thread, timer, running, is_connected>>
ghosts == <<done, lost>>
vars == <<callVars, send_queue, receive_queue, threadVars, toDevice, toHost, ghosts>>

Message == [cmd : Commands \cup {"stop"}, part : 0..Parts, own : BOOLEAN,
            due : 0..(RequestDelay + AnswerDelay), ok : BOOLEAN]

Message0(c, p, own) == [cmd |-> c, part |-> p, own |-> own, due |-> 0, ok |-> TRUE]
StopMarker == Message0("stop", 0, FALSE)       \* the b'' of stop_thread

TypeOK ==
  /\ op \in {"idle", "write", "read", "closing", "closed"}
  /\ cmd \in Commands \cup {"none"} /\ part \in 0..Parts /\ attempt \in 1..Retry
  /\ wait \in Nat /\ timer \in Nat
  /\ result \in {"none", "ok", "error", "timeout"}
  /\ send_queue \in Seq(Message) /\ receive_queue \in Seq(Message)
  /\ toDevice \in Seq(Message) /\ toHost \in Seq(Message)
  /\ thread \in {"send", "recv", "dead"}
  /\ running \in BOOLEAN /\ is_connected \in BOOLEAN
  /\ mine \in BOOLEAN /\ lost \in BOOLEAN
  /\ done \subseteq 0..Parts

\* UDPThread.open, called once by the constructor, which ignores its result.
Init ==
  /\ is_connected \in BOOLEAN
  /\ running = is_connected /\ thread = IF is_connected THEN "send" ELSE "dead"
  /\ timer = 0
  /\ send_queue = <<>> /\ receive_queue = <<>> /\ toDevice = <<>> /\ toHost = <<>>
  /\ op = "idle" /\ cmd = "none" /\ part = 0 /\ attempt = 1 /\ wait = 0
  /\ result = "none" /\ done = {} /\ mine = TRUE /\ lost = FALSE

-----------------------------------------------------------------------------
(* The executor.                                                           *)

OfEarlierCall(m) == [m EXCEPT !.own = FALSE]
Disowned(q) == [i \in DOMAIN q |-> OfEarlierCall(q[i])]

Backlog == Len(send_queue) + Len(receive_queue) + Len(toDevice) + Len(toHost)

\* _send_cmd, _send_cmd_raw and _adm_batch.
Call(c) ==
  /\ op = "idle" /\ Backlog <= MaxBacklog
  /\ op' = "write" /\ cmd' = c /\ part' = 0 /\ attempt' = 1
  /\ result' = "none" /\ done' = {} /\ mine' = TRUE /\ lost' = FALSE
  /\ send_queue' = Disowned(send_queue) /\ receive_queue' = Disowned(receive_queue)
  /\ toDevice' = Disowned(toDevice) /\ toHost' = Disowned(toHost)
  /\ UNCHANGED <<wait, threadVars>>

Finish(r) == op' = "idle" /\ result' = r /\ wait' = 0 /\ UNCHANGED <<cmd, part, attempt>>

\* Mutation: the executor waits no longer than the socket does.
ShortTimeout ==
  /\ op = "write"
  /\ \/ /\ is_connected
        /\ send_queue' = Append(send_queue, Message0(cmd, part, TRUE))
        /\ op' = "read" /\ wait' = RecvTimeout
        /\ UNCHANGED <<cmd, part, attempt, result>>
     \/ ~is_connected /\ Finish("error") /\ UNCHANGED send_queue
  /\ UNCHANGED <<receive_queue, threadVars, toDevice, toHost, ghosts, mine>>

Write ==
  /\ op = "write"
  /\ \/ /\ is_connected
        /\ send_queue' = Append(send_queue, Message0(cmd, part, TRUE))
        /\ op' = "read" /\ wait' = Timeout
        /\ UNCHANGED <<cmd, part, attempt, result>>
     \/ ~is_connected /\ Finish("error") /\ UNCHANGED send_queue
  /\ UNCHANGED <<receive_queue, threadVars, toDevice, toHost, ghosts, mine>>

\* read looks at is_connected once, before it waits.
ReadRefused ==
  /\ op = "read" /\ wait = Timeout /\ ~is_connected
  /\ Finish("error")
  /\ UNCHANGED <<send_queue, receive_queue, threadVars, toDevice, toHost, ghosts, mine>>

\* Mutation: the result bit of an acknowledgement is ignored.
ResultIgnored(a) == cmd \in Writes => a.cmd = cmd /\ a.ok

\* The checks each caller of read makes of the response.  The opcode that _send_cmd
\* compares, too, follows from the command code: Writes and Reads are disjoint.
Accepts(a) ==
  \/ cmd \in Writes /\ a.cmd = cmd /\ a.ok
  \/ cmd \in Reads
  \/ cmd = "ADM" /\ a.ok

\* Mutation: the loop over the packets runs once too often.
OnePacketTooMany ==
  /\ cmd = "ADM" /\ part <= Parts
  /\ op' = "write" /\ part' = part + 1 /\ attempt' = 1 /\ wait' = 0
  /\ UNCHANGED <<cmd, result>>

NextPacket ==
  /\ cmd = "ADM" /\ part < Parts
  /\ op' = "write" /\ part' = part + 1 /\ attempt' = 1 /\ wait' = 0
  /\ UNCHANGED <<cmd, result>>

\* Mutation: attempts are not counted.
AttemptNotCounted ==
  /\ cmd = "ADM" /\ attempt < Retry
  /\ op' = "write" /\ wait' = 0
  /\ UNCHANGED <<cmd, part, attempt, result>>

\* Only DSGExecutorError, and only in the download, leads to another attempt.
TryAgain ==
  /\ cmd = "ADM" /\ attempt < Retry
  /\ op' = "write" /\ attempt' = attempt + 1 /\ wait' = 0
  /\ UNCHANGED <<cmd, part, result>>

ReadAnswer ==
  /\ op = "read" /\ receive_queue # <<>>
  /\ LET a == Head(receive_queue) IN
       /\ mine' = (mine /\ a.own /\ a.part = part)
       /\ \/ Accepts(a) /\ NextPacket
          \/ Accepts(a) /\ ~(cmd = "ADM" /\ part < Parts) /\ Finish("ok")
          \/ ~Accepts(a) /\ TryAgain
          \/ ~Accepts(a) /\ ~(cmd = "ADM" /\ attempt < Retry) /\ Finish("error")
  /\ receive_queue' = Tail(receive_queue)
  /\ UNCHANGED <<send_queue, threadVars, toDevice, toHost, ghosts>>

\* queue.Empty becomes TimeoutError, which no retry loop catches.
ReadTimesOut ==
  /\ op = "read" /\ receive_queue = <<>> /\ wait = 0
  /\ Finish("timeout")
  /\ UNCHANGED <<send_queue, receive_queue, threadVars, toDevice, toHost, ghosts, mine>>

-----------------------------------------------------------------------------
(* close, called by disconnect.                                            *)

\* Mutation: the loop of the UDP thread is not told to stop.
LoopNotStopped ==
  /\ op = "idle" /\ thread # "dead"
  /\ op' = "closing" /\ wait' = JoinTimeout /\ send_queue' = Append(send_queue, StopMarker)
  /\ UNCHANGED <<cmd, part, attempt, result, mine, receive_queue, threadVars,
                 toDevice, toHost, ghosts>>

CloseBegins ==
  /\ op = "idle"
  /\ IF thread # "dead"
       THEN /\ op' = "closing" /\ wait' = JoinTimeout
            /\ running' = FALSE /\ send_queue' = Append(send_queue, StopMarker)
            /\ UNCHANGED is_connected
       ELSE /\ op' = "closed" /\ is_connected' = FALSE
            /\ UNCHANGED <<wait, running, send_queue>>
  /\ UNCHANGED <<cmd, part, attempt, result, mine, receive_queue, thread, timer,
                 toDevice, toHost, ghosts>>

CloseEnds ==
  /\ op = "closing" /\ (thread = "dead" \/ wait = 0)
  /\ op' = "closed" /\ is_connected' = FALSE /\ wait' = 0
  /\ UNCHANGED <<cmd, part, attempt, result, mine, send_queue, receive_queue,
                 thread, timer, running, toDevice, toHost, ghosts>>

-----------------------------------------------------------------------------
(* The UDP thread.                                                         *)

\* A message that still needs d ticks on the link.
Delayed(m, d) == [m EXCEPT !.due = d]

\* sendto; the b'' of stop_thread is not sent.
SendTo(m) ==
  \/ m = StopMarker /\ UNCHANGED <<toDevice, lost>>
  \/ m # StopMarker /\ Lossy /\ lost' = (lost \/ m.own) /\ UNCHANGED toDevice
  \/ /\ m # StopMarker
     /\ \E d \in 0..RequestDelay : toDevice' = Append(toDevice, Delayed(m, d))
     /\ UNCHANGED lost

\* Mutation: the socket waits as long as the executor does.
LongRecvTimeout ==
  /\ thread = "send" /\ running
  /\ thread' = "recv" /\ timer' = Timeout
  /\ IF send_queue = <<>> THEN UNCHANGED <<send_queue, toDevice, lost>> ELSE
       /\ send_queue' = Tail(send_queue)
       /\ SendTo(Head(send_queue))
  /\ UNCHANGED <<callVars, receive_queue, running, is_connected, toHost, done>>

ThreadSends ==
  /\ thread = "send" /\ running
  /\ thread' = "recv" /\ timer' = RecvTimeout
  /\ IF send_queue = <<>> THEN UNCHANGED <<send_queue, toDevice, lost>> ELSE
       /\ send_queue' = Tail(send_queue)
       /\ SendTo(Head(send_queue))
  /\ UNCHANGED <<callVars, receive_queue, running, is_connected, toHost, done>>

ThreadStops ==
  /\ thread = "send" /\ ~running
  /\ thread' = "dead" /\ timer' = 0
  /\ UNCHANGED <<callVars, send_queue, receive_queue, running, is_connected,
                 toDevice, toHost, ghosts>>

Arrived(q) == q # <<>> /\ Head(q).due = 0

ThreadReceives ==
  /\ thread = "recv" /\ Arrived(toHost)
  /\ receive_queue' = Append(receive_queue, Head(toHost))
  /\ toHost' = Tail(toHost)
  /\ thread' = "send" /\ timer' = 0
  /\ UNCHANGED <<callVars, send_queue, running, is_connected, toDevice, ghosts>>

ThreadReceivesNothing ==
  /\ thread = "recv" /\ timer = 0 /\ ~Arrived(toHost)
  /\ thread' = "send"
  /\ UNCHANGED <<callVars, send_queue, receive_queue, timer, running, is_connected,
                 toDevice, toHost, ghosts>>

\* sendto or recvfrom raises anything but a timeout: the loop is left for good.
ThreadDies ==
  /\ ThreadMayDie /\ thread # "dead"
  /\ \/ thread = "send" /\ send_queue # <<>> /\ send_queue' = Tail(send_queue)
     \/ thread = "recv" /\ UNCHANGED send_queue
  /\ thread' = "dead" /\ timer' = 0 /\ is_connected' = FALSE
  /\ UNCHANGED <<callVars, receive_queue, running, toDevice, toHost, ghosts>>

-----------------------------------------------------------------------------
(* The device and time.                                                    *)

AnswerTo(m, ok) == [m EXCEPT !.ok = ok]

DeviceServes ==
  /\ Arrived(toDevice)
  /\ toDevice' = Tail(toDevice)
  /\ \E ok \in (IF Refusals THEN BOOLEAN ELSE {TRUE}) :
       LET p == Head(toDevice) IN
       /\ done' = IF p.own /\ (ok \/ p.cmd \in Reads) THEN done \cup {p.part} ELSE done
       /\ \/ Lossy /\ lost' = (lost \/ p.own) /\ UNCHANGED toHost
          \/ /\ \E d \in 0..AnswerDelay :
                  toHost' = Append(toHost, Delayed(AnswerTo(p, ok), d))
             /\ UNCHANGED lost
  /\ UNCHANGED <<callVars, send_queue, receive_queue, threadVars>>

Less(n) == IF n > 0 THEN n - 1 ELSE 0
Sooner(q) == [i \in DOMAIN q |-> Delayed(q[i], Less(q[i].due))]

Urgent ==
  \/ op = "write" \/ (op = "read" /\ (receive_queue # <<>> \/ wait = 0))
  \/ op = "closing" /\ (thread = "dead" \/ wait = 0)
  \/ thread = "send" \/ (thread = "recv" /\ (timer = 0 \/ Arrived(toHost)))
  \/ Arrived(toDevice)

Tick ==
  /\ ~Urgent
  /\ wait' = Less(wait) /\ timer' = Less(timer)
  /\ toDevice' = Sooner(toDevice) /\ toHost' = Sooner(toHost)
  /\ UNCHANGED <<op, cmd, part, attempt, result, mine, send_queue, receive_queue,
                 thread, running, is_connected, ghosts>>

-----------------------------------------------------------------------------

ExecutorStep == Write \/ ReadRefused \/ ReadAnswer \/ ReadTimesOut \/ CloseEnds
ThreadStep == ThreadSends \/ ThreadStops \/ ThreadReceives \/ ThreadReceivesNothing

Next ==
  \/ \E c \in Commands : Call(c)
  \/ CloseBegins
  \/ ExecutorStep
  \/ ThreadStep \/ ThreadDies
  \/ DeviceServes
  \/ Tick

\* Threads are scheduled and time passes; calls and failures need not happen.
Spec ==
  /\ Init /\ [][Next]_vars
  /\ WF_vars(ExecutorStep) /\ WF_vars(ThreadStep) /\ WF_vars(DeviceServes)
  /\ WF_vars(Tick)

-----------------------------------------------------------------------------
(* Properties.                                                             *)

Packets(c) == IF c = "ADM" THEN 0..Parts ELSE {0}

\* _send_cmd and _adm_batch return only when the device has carried out the
\* command, every packet of a download included: the response they take is the
\* one to this request, although it carries no number.
OkMeansExecuted ==
  result = "ok" /\ cmd \notin Reads => done = Packets(cmd)

\* _send_cmd_raw returns the response to its own request.
RawAnswerIsOwn ==
  result = "ok" /\ cmd \in Reads => mine

\* Between two commands nothing is on its way: no queue and no packet holds an
\* answer that the next command could take for its own.
NothingPending ==
  op = "idle" /\ is_connected
    => send_queue = <<>> /\ receive_queue = <<>> /\ toDevice = <<>> /\ toHost = <<>>

\* A device that answers promptly never causes a timeout by itself, although a
\* request waits for the recvfrom in progress to give up: a call that times out has
\* lost a packet, or its UDP thread.
TimeoutMeansLoss == result = "timeout" => lost \/ thread = "dead"

\* close closes the socket only after the UDP thread has left its loop.
ThreadEndsBeforeSocket == op = "closed" => thread = "dead"

\* Every call and every close comes back, whatever the link, the device and the
\* UDP thread do.
CallsReturn == op \in {"write", "read", "closing"} ~> op \in {"idle", "closed"}

\* A packet of a download whose answer does not come in time is sent again,
\* until it has been sent Retry times.
TimeoutIsRetried ==
  [][op = "read" /\ op' = "idle" /\ result' = "timeout" /\ cmd = "ADM"
       => attempt = Retry]_vars

\* What the executor promises to the SDK.
Service == INSTANCE CommandService WITH
  request <- IF op \in {"write", "read"} THEN cmd ELSE "none",
  result <- IF result = "timeout" THEN "error" ELSE result

ImplementsService == Service!Spec
=============================================================================
