------------------------------ MODULE DSGWorker ------------------------------
(***************************************************************************)
(* The BLACS worker of the DSG master clock (blacs_workers.py), the SDK    *)
(* adapter it calls (sdk_adapter.py) and the device under it.              *)
(*                                                                         *)
(* BLACS calls one worker function at a time.  A function is a job: local  *)
(* code, a list `todo` of device commands, and local code again.  Each     *)
(* command is a step of its own, so time passes, the device runs and the   *)
(* link fails between any two of them.  A command whose exchange fails     *)
(* raises and ends the job, with or without the device having executed it. *)
(*                                                                         *)
(* Times are in ticks and counted from the last event that resets them:    *)
(* `elapsed` stands for time.time() - buffered_start_time and stops at     *)
(* Horizon, past every bound it is compared with.                          *)
(***************************************************************************)
EXTENDS DSGDevice, Sequences

CONSTANTS
  First,             \* First[s]: output state of the first row of the program
  Source,            \* Source[s]: trigger_source of the shot
  Empty,             \* Empty[s]: STREAM_PROGRAM of s has no row
  ExecModes,         \* values of the setting exec_mode
  CompletionBuffer,  \* _completion_buffer
  QueryInterval,     \* _min_query_interval
  HardTimeout,       \* _hard_timeout_extra
  MaxStop,           \* a bound of Stop
  LostRequests,      \* commands whose request the link may lose
  LostAnswers,       \* commands whose answer the link may lose
  WorkerRestarts     \* BLACS may restart the worker process

Commands == {"ABT", "CLS", "LED", "AUTO", "CLK", "TRIG", "LED_EN", "KEEP", "ADM",
             "SET", "RUN", "SWR", "READ", "MAN", "STATUS"}

NoShot == "none"
NoTime == -1       \* buffered_start_time is None

ASSUME WorkerAssumption ==
  /\ First \in [Shots -> SUBSET Channels]
  /\ Source \in [Shots -> {"software", "external"}]
  /\ Empty \in [Shots -> BOOLEAN]
  /\ ExecModes \subseteq Nat
  /\ CompletionBuffer \in Nat /\ QueryInterval \in Nat
  /\ HardTimeout \in Nat /\ CompletionBuffer <= HardTimeout
  /\ MaxStop \in Nat /\ \A s \in Shots : Stop[s] <= MaxStop
  /\ LostRequests \subseteq Commands /\ LostAnswers \subseteq Commands
  /\ WorkerRestarts \in BOOLEAN

VARIABLES
  mode,         \* where BLACS is in the cycle of a shot
  job, todo,    \* the worker function being run and its remaining commands
  shot,         \* the shot of the last transition_to_buffered
  gui,          \* _gui_state_mask
  elapsed,      \* time since buffered_start_time, or NoTime
  stop,         \* buffered_stop_time
  armed,        \* buffered_armed
  source,       \* buffered_trigger_source
  sinceQuery,   \* time since _last_status_query_time
  exec_mode,    \* the worker's exec_mode setting
  new_mask,     \* local of program_manual
  seen,         \* locals manual_en, manual_val of update_manual_channels
  age,          \* local elapsed of check_if_done
  status,       \* local status_code of check_if_done
  touched       \* ghost: channels program_manual changed during this shot

jobVars == <<job, todo, new_mask, seen, age, status>>
bufVars == <<stop, armed, source>>
timeVars == <<elapsed, sinceQuery>>
vars == <<devVars, mode, jobVars, shot, gui, bufVars, timeVars, exec_mode, touched>>

Jobs == {"idle", "transition_to_buffered", "start_run", "program_manual",
         "check_if_done", "transition_to_manual", "abort_buffered"}
Modes == {"manual", "entering", "buffered", "running", "done", "leaving", "aborting"}
Horizon == MaxStop + HardTimeout
NothingSeen == [en |-> {}, val |-> {}]

JobTypeOK ==
  /\ job \in Jobs
  /\ todo \in Seq(Commands)
  /\ new_mask \in SUBSET Channels
  /\ seen \in [en : SUBSET Channels, val : SUBSET Channels]
  /\ age \in 0..Horizon
  /\ status \in {"idle", "other", "none"}

WorkerTypeOK ==
  /\ mode \in Modes
  /\ shot \in Shots \cup {NoShot}
  /\ gui \in SUBSET Channels
  /\ elapsed \in 0..Horizon \cup {NoTime}
  /\ stop \in 0..MaxStop
  /\ armed \in BOOLEAN
  /\ source \in {"software", "external"}
  /\ sinceQuery \in 0..QueryInterval
  /\ exec_mode \in ExecModes
  /\ touched \in SUBSET Channels

TypeOK == DevTypeOK /\ JobTypeOK /\ WorkerTypeOK

\* A worker process that has just run init(): nothing is read back from the
\* device.
FreshWorker ==
  /\ job = "idle" /\ todo = <<>>
  /\ gui = {} /\ elapsed = NoTime /\ stop = 0 /\ armed = FALSE
  /\ source = "external" /\ sinceQuery = QueryInterval
  /\ exec_mode \in ExecModes
  /\ new_mask = {} /\ seen = NothingSeen /\ age = 0 /\ status = "none"

Init ==
  /\ DevInit
  /\ mode = "manual" /\ shot = NoShot /\ touched = {}
  /\ FreshWorker

-----------------------------------------------------------------------------
(* The commands each function sends, in order.                             *)

AbortCommands == <<"ABT", "CLS">>

Optional(cond, c) == IF cond THEN <<c>> ELSE <<>>

\* Mutations: init_device that does not leave manual mode, and one that never
\* sends CMD_KEEP.
InitWithoutAuto ==
  <<"ABT", "CLK", "TRIG", "LED_EN">> \o Optional(exec_mode # 0, "KEEP") \o <<"CLS">>
InitWithoutKeep ==
  <<"ABT", "LED", "AUTO", "CLK", "TRIG", "LED_EN", "LED", "AUTO", "CLS">>

\* dsgQosmos.init_device with manual_mode=False, whose exit_manual_mode is the
\* pair LED, AUTO; exec_mode 0 sends no CMD_KEEP.
InitDevice ==
  <<"ABT", "LED", "AUTO", "CLK", "TRIG", "LED_EN">>
  \o Optional(exec_mode # 0, "KEEP") \o <<"LED", "AUTO", "CLS">>

\* Mutations: the trigger is armed for the master too, or before the download.
AlwaysArmed(s) ==
  AbortCommands \o InitDevice \o Optional(~Empty[s], "ADM") \o <<"SET", "LED", "RUN">>
ArmedFirst(s) ==
  AbortCommands \o InitDevice \o Optional(Source[s] # "software", "RUN")
  \o Optional(~Empty[s], "ADM") \o <<"SET", "LED">>

BufferedCommands(s) ==
  AbortCommands \o InitDevice \o Optional(~Empty[s], "ADM")
  \o <<"SET", "LED">> \o Optional(Source[s] # "software", "RUN")

newly_high == new_mask \ gui
newly_low == gui \ new_mask

Start(j, commands) ==
  /\ job = "idle"
  /\ job' = j /\ todo' = commands

EndJob ==
  /\ job' = "idle" /\ todo' = <<>>
  /\ new_mask' = {} /\ seen' = NothingSeen /\ age' = 0 /\ status' = "none"

-----------------------------------------------------------------------------
(* Calls by BLACS.                                                         *)

CallTransitionToBuffered(s) ==
  /\ mode = "manual"
  /\ Start("transition_to_buffered", BufferedCommands(s))
  /\ shot' = s /\ mode' = "entering"
  /\ UNCHANGED <<devVars, gui, bufVars, timeVars, exec_mode,
                 new_mask, seen, age, status, touched>>

\* BLACS calls start_run, and through it wait_until_done, on the tab of the
\* master pseudoclock only: the device whose trigger_source is "software".
CallStartRun ==
  /\ mode = "buffered" /\ Source[shot] = "software"
  /\ Start("start_run", IF armed /\ source = "software" THEN <<"SWR">> ELSE <<>>)
  /\ UNCHANGED <<devVars, mode, shot, gui, bufVars, timeVars, exec_mode,
                 new_mask, seen, age, status, touched>>

CallProgramManual(values) ==
  /\ mode \in {"manual", "running"}
  /\ Start("program_manual", IF values # gui THEN <<"READ", "MAN">> ELSE <<>>)
  /\ new_mask' = values
  /\ touched' = touched \cup (values \ gui) \cup (gui \ values)
  /\ UNCHANGED <<devVars, mode, shot, gui, bufVars, timeVars, exec_mode,
                 seen, age, status>>

\* A triggered device leaves buffered mode when BLACS says so, without a poll.
CallTransitionToManual ==
  /\ mode = "done" \/ (mode = "buffered" /\ Source[shot] = "external")
  /\ Start("transition_to_manual", <<"MAN">>)
  /\ mode' = "leaving"
  /\ elapsed' = NoTime /\ stop' = 0 /\ armed' = FALSE /\ source' = "external"
  /\ UNCHANGED <<devVars, shot, gui, sinceQuery, exec_mode,
                 new_mask, seen, age, status, touched>>

\* abort_buffered, and abort_transition_to_buffered which calls it.  BLACS goes
\* on with the shot no more: after a failure it can only abort again.
CallAbortBuffered ==
  /\ mode # "manual"
  /\ Start("abort_buffered", AbortCommands)
  /\ mode' = "aborting"
  /\ UNCHANGED <<devVars, shot, gui, bufVars, timeVars, exec_mode,
                 new_mask, seen, age, status, touched>>

\* The phases of check_if_done.
BeforeCompletion == elapsed < stop + CompletionBuffer
Throttled(force_query) == ~force_query /\ sinceQuery < QueryInterval

ReportDone ==
  /\ mode' = "done"
  /\ UNCHANGED <<devVars, shot, gui, bufVars, timeVars, exec_mode, touched>>

CheckWithoutQuery(force_query) ==
  /\ mode = "running" /\ job = "idle"
  /\ \/ elapsed = NoTime /\ ReportDone
     \/ /\ elapsed # NoTime
        /\ BeforeCompletion \/ Throttled(force_query)
        /\ UNCHANGED <<devVars, mode, shot, gui, bufVars, timeVars, exec_mode, touched>>
  /\ UNCHANGED jobVars

CallCheckIfDone(force_query) ==
  /\ mode = "running"
  /\ elapsed # NoTime
  /\ ~BeforeCompletion /\ ~Throttled(force_query)
  /\ Start("check_if_done", IF armed THEN <<"STATUS">> ELSE <<>>)
  /\ sinceQuery' = 0 /\ age' = elapsed
  /\ UNCHANGED <<devVars, mode, shot, gui, bufVars, elapsed, exec_mode,
                 new_mask, seen, status, touched>>

-----------------------------------------------------------------------------
(* One command of the running job.                                         *)

\* Mutation: only the high channels are taken over at the end of a shot.
OnlyHighChannels ==
  IF job = "transition_to_manual" THEN gui
  ELSE seen.en \cup newly_high \cup newly_low

\* The masks of CMD_MAN: transition_to_manual takes every channel at its GUI
\* state, program_manual changes the state it has read where the user did.
ManualEnable ==
  IF job = "transition_to_manual" THEN Channels
  ELSE seen.en \cup newly_high \cup newly_low

\* Mutation: a channel the user unchecks is not cleared.
ValueNotCleared ==
  IF job = "transition_to_manual" THEN gui ELSE seen.val \cup newly_high

ManualValue ==
  IF job = "transition_to_manual" THEN gui
  ELSE (seen.val \cup newly_high) \ newly_low

\* What the device does when it gets command c of the running job.
Execute(c) ==
  \/ c = "ABT" /\ Abt
  \/ c = "CLS" /\ Cls
  \/ c = "AUTO" /\ Man({}, {})
  \/ c = "KEEP" /\ Keep(exec_mode # 0)
  \/ c = "ADM" /\ Load(shot)
  \/ c = "SET" /\ SetDone
  \/ c = "RUN" /\ Arm
  \/ c = "SWR" /\ Begin
  \/ c = "MAN" /\ Man(ManualEnable, ManualValue)
  \/ c \in {"LED", "CLK", "TRIG", "LED_EN", "READ", "STATUS"} /\ Inert

\* The exchange succeeds and the job goes on with what the answer says.
CommandSucceeds ==
  /\ todo # <<>>
  /\ Execute(Head(todo))
  /\ todo' = Tail(todo)
  /\ seen' = IF Head(todo) = "READ" THEN [en |-> man_en, val |-> man_val] ELSE seen
  /\ IF Head(todo) = "STATUS" THEN status' \in StatusCodes ELSE UNCHANGED status
  /\ UNCHANGED <<mode, job, shot, gui, bufVars, timeVars, exec_mode,
                 new_mask, age, touched>>

\* The exchange fails before (LostRequests) or after (LostAnswers) the device
\* has executed the command; a lost packet of a download leaves part of it.
FailedExchange(c) ==
  \/ c \in LostRequests /\ c = "ADM" /\ Load("partial")
  \/ c \in LostRequests /\ Inert
  \/ c \in LostAnswers /\ Execute(c)

\* Every function but check_if_done lets the exception through: the job ends
\* where it is.  The tab goes on to poll when start_run has raised.
CommandRaises ==
  /\ todo # <<>> /\ Head(todo) # "STATUS"
  /\ FailedExchange(Head(todo))
  /\ mode' = IF job = "start_run" THEN "running" ELSE mode
  /\ EndJob
  /\ UNCHANGED <<shot, gui, bufVars, timeVars, exec_mode, touched>>

\* get_status_code turns the exception into None.
StatusUnknown ==
  /\ todo # <<>> /\ Head(todo) = "STATUS"
  /\ FailedExchange("STATUS")
  /\ todo' = Tail(todo) /\ status' = "none"
  /\ UNCHANGED <<mode, job, shot, gui, bufVars, timeVars, exec_mode,
                 new_mask, seen, age, touched>>

-----------------------------------------------------------------------------
(* Returns.                                                                *)

Return(j) == job = j /\ todo = <<>> /\ EndJob

\* Mutations: stop_time is missing from the properties of the shot, or has the
\* completion buffer added already.
StopTimeNotSet ==
  /\ Return("transition_to_buffered")
  /\ stop' = 0 /\ armed' = ~Empty[shot] /\ source' = Source[shot]
  /\ elapsed' = IF ~Empty[shot] /\ Source[shot] # "software" THEN 0 ELSE NoTime
  /\ gui' = First[shot]
  /\ mode' = "buffered" /\ touched' = {}
  /\ UNCHANGED <<devVars, shot, sinceQuery, exec_mode>>
BufferCountedTwice ==
  /\ Return("transition_to_buffered")
  /\ stop' = Stop[shot] + CompletionBuffer
  /\ armed' = ~Empty[shot] /\ source' = Source[shot]
  /\ elapsed' = IF ~Empty[shot] /\ Source[shot] # "software" THEN 0 ELSE NoTime
  /\ gui' = First[shot]
  /\ mode' = "buffered" /\ touched' = {}
  /\ UNCHANGED <<devVars, shot, sinceQuery, exec_mode>>

ReturnTransitionToBuffered ==
  /\ Return("transition_to_buffered")
  /\ stop' = Stop[shot] /\ armed' = ~Empty[shot] /\ source' = Source[shot]
  /\ elapsed' = IF ~Empty[shot] /\ Source[shot] # "software" THEN 0 ELSE NoTime
  /\ gui' = First[shot]
  /\ mode' = "buffered" /\ touched' = {}
  /\ UNCHANGED <<devVars, shot, sinceQuery, exec_mode>>

ReturnStartRun ==
  /\ Return("start_run")
  /\ elapsed' = IF armed /\ source = "software" THEN 0 ELSE elapsed
  /\ mode' = "running"
  /\ UNCHANGED <<devVars, shot, gui, bufVars, sinceQuery, exec_mode, touched>>

ReturnProgramManual ==
  /\ Return("program_manual")
  /\ gui' = new_mask
  /\ UNCHANGED <<devVars, mode, shot, bufVars, timeVars, exec_mode, touched>>

ReturnTransitionToManual ==
  /\ Return("transition_to_manual")
  /\ mode' = "manual"
  /\ UNCHANGED <<devVars, shot, gui, bufVars, timeVars, exec_mode, touched>>

ReturnAbortBuffered ==
  /\ Return("abort_buffered")
  /\ armed' = FALSE
  /\ mode' = "manual"
  /\ UNCHANGED <<devVars, shot, gui, stop, source, timeVars, exec_mode, touched>>

\* Mutation: phase 3 gives up with the margin of phase 1.
HardTimeoutTooEarly ==
  \/ armed /\ status = "idle"
  \/ armed /\ status = "none" /\ age >= stop + CompletionBuffer
  \/ ~(armed /\ status = "none") /\ age >= stop + CompletionBuffer

\* Mutation: there is no phase 3.
NoHardTimeout ==
  \/ armed /\ status = "idle"
  \/ armed /\ status = "none" /\ age >= stop + CompletionBuffer

\* Phases 2 and 3 of check_if_done.  Without an answer the elapsed time alone
\* decides.
Finished ==
  \/ armed /\ status = "idle"
  \/ armed /\ status = "none" /\ age >= stop + CompletionBuffer
  \/ ~(armed /\ status = "none") /\ age >= stop + HardTimeout

ReturnCheckIfDone ==
  /\ Return("check_if_done")
  /\ mode' = IF Finished THEN "done" ELSE mode
  /\ UNCHANGED <<devVars, shot, gui, bufVars, timeVars, exec_mode, touched>>

-----------------------------------------------------------------------------
(* The rest of the world.                                                  *)

\* The worker process is replaced: init() connects and starts afresh while
\* the device stays as it is.  A restart in the middle of the packets of a
\* download is one that follows the loss of a packet.
RestartWorker ==
  /\ WorkerRestarts
  /\ EndJob
  /\ gui' = {} /\ elapsed' = NoTime /\ stop' = 0 /\ armed' = FALSE
  /\ source' = "external" /\ sinceQuery' = QueryInterval
  /\ exec_mode' \in ExecModes
  /\ mode' = "manual"
  /\ UNCHANGED <<devVars, shot, touched>>

Later(t, bound) == IF t < bound THEN t + 1 ELSE t

Tick ==
  /\ DevTick
  /\ elapsed' = IF elapsed = NoTime THEN NoTime ELSE Later(elapsed, Horizon)
  /\ sinceQuery' = Later(sinceQuery, QueryInterval)
  /\ UNCHANGED <<mode, jobVars, shot, gui, bufVars, exec_mode, touched>>

TriggerInput ==
  /\ Trigger
  /\ UNCHANGED <<mode, jobVars, shot, gui, bufVars, timeVars, exec_mode, touched>>

-----------------------------------------------------------------------------

Calls ==
  \/ \E s \in Shots : CallTransitionToBuffered(s)
  \/ CallStartRun
  \/ \E values \in SUBSET Channels : CallProgramManual(values)
  \/ CallTransitionToManual
  \/ CallAbortBuffered
  \/ \E force \in BOOLEAN : CheckWithoutQuery(force) \/ CallCheckIfDone(force)

Returns ==
  \/ ReturnTransitionToBuffered \/ ReturnStartRun \/ ReturnProgramManual
  \/ ReturnTransitionToManual \/ ReturnAbortBuffered \/ ReturnCheckIfDone

WorkerStep == CommandSucceeds \/ CommandRaises \/ StatusUnknown \/ Returns

Next == Calls \/ WorkerStep \/ RestartWorker \/ Tick \/ TriggerInput

Spec == Init /\ [][Next]_vars

-----------------------------------------------------------------------------
(* Properties.                                                             *)

\* Between two calls, a channel under manual control has the level of its
\* checkbox as the worker last accepted it: the read-modify-write of
\* update_manual_channels and the differences of program_manual never leave a
\* stale level behind, whichever commands fail on the way.
ManualLevelsMatch ==
  job = "idle" => \A c \in man_en : c \in man_val <=> c \in gui

\* Mix mode: from the end of transition_to_buffered to the end of the shot,
\* only channels the user changed during this shot are taken from the program;
\* nothing is left over from manual mode or from an earlier shot.
StreamKeepsOtherChannels ==
  mode \in {"buffered", "running", "done"} => man_en \subseteq touched

\* As master, a downloaded shot waits for start_run: no transition, complete
\* or repeated after a failure, lets the device play or arms its trigger.
NothingPlaysBeforeStartRun ==
  mode = "buffered" /\ source = "software" /\ job # "start_run"
    => phase \notin {"armed", "running"}

\* The sequencer never runs half a download, and during a shot it runs only
\* the program of that shot.
RunsTheShot ==
  /\ phase \in {"armed", "running"} => prog # "partial"
  /\ mode \in {"buffered", "running", "done"} /\ phase = "running" => prog = shot

\* In manual mode a program that is still running or armed (transition_to_manual
\* does not stop it) reaches no output: every channel is under manual control.
ManualModeMasksProgram ==
  mode = "manual" /\ phase \in {"armed", "running"} => man_en = Channels

\* check_if_done reports a shot as finished only after its program was played
\* to the end.
DoneMeansPlayed ==
  [][mode # "done" /\ mode' = "done" => played' \/ Empty[shot]]_vars

\* As long as the device answers, a shot is reported as finished only when it
\* was played to the end or the hard timeout has passed, also when it pauses at
\* a WAIT for longer than the compiled stop_time tells.
DoneOrTimedOut ==
  [][mode # "done" /\ mode' = "done"
       => played' \/ Empty[shot] \/ age >= stop + HardTimeout]_vars

\* A session with repetition set runs its shots with repetition: neither a failed or
\* interrupted transition nor a restart of the worker in the middle of one leaves the
\* device with a downloaded shot and without CMD_KEEP.
RepetitionApplied ==
  mode \in {"buffered", "running", "done"} /\ exec_mode # 0 => loop

\* The docstring of init_device (dsgQosmos.py:753): the device is initialised to its
\* default state, whose execution mode is the setting of the session.  With exec_mode 0
\* nothing is sent, so the repetition of an earlier session stays.
ExecModeApplied ==
  mode = "buffered" /\ job = "idle" => (loop <=> exec_mode # 0)
=============================================================================
