# A TLA+ model of the DSG master clock driver

The driver lets labscript use a Qosmos DSG (a 32-channel pulse generator on UDP)
as the clock of an experiment. An experiment is compiled to a `STREAM_PROGRAM`,
a worker process of BLACS downloads it to the device and starts it, and a tab of
BLACS polls until it has ended; while it plays, the user may overwrite single
channels from the front panel ("mix mode").

This directory holds TLA+ modules of that program, TLC configurations that check
them, and proofs for TLAPS. `PROJECT.json` lists components, runs, mutations,
hazards and findings, and which lines each definition stands for.

## 1. The system

| component | state it keeps | operations | module |
|---|---|---|---|
| BLACS tab, `blacs_tabs.py` | panel, `_last_smart_values`, where a state function is suspended | `start_run`, `wait_until_done` | `DSGTab` |
| BLACS worker, `blacs_workers.py` | `_gui_state_mask`, `buffered_*`, time of the last status query | `init`, `transition_to_buffered`, `start_run`, `program_manual`, `check_if_done`, `transition_to_manual`, `abort_buffered` | `DSGWorker` |
| SDK adapter, `sdk_adapter.py` | none but the connection | lists of device commands, the read-modify-write of the manual masks | `DSGWorker` |
| device API, `dsg_deviceAPI.py` | none | one method per command, turns every failure into one exception | `DSGWorker`, `DSGDevice` |
| user layer, `dsgQosmos.py` | timeline | `init_device`; waveforms; interactive helpers the driver does not call | `DSGWorker` (`InitDevice`), `SDKWaveform` |
| executor, `dsg_executor.py` | none between calls | a command, a query, a download with retries | `DSGExecutor`, `StreamPackets`, abstractly `CommandService` |
| UDP thread, `dsg_udp.py` | two queues, `running`, `is_connected` | `open`, `close`, `write`, `read`, the loop | `DSGExecutor` |
| protocol, `dsg_protocol.py`, `device_data.py` | none | command codes, packing of headers, words and requests | `StreamPackets`; bit layout not modelled |
| device (firmware, not in the repository) | manual masks, memory, sequencer | one action per command, trigger, time | `DSGDevice` (external) |
| code generation, `labscript_devices.py` | connected channels; rows and metadata of a compilation | `add_device`, `generate_code` | `StreamProgram` |
| runviewer, `runviewer_parsers.py` | none | rows back to traces | `StreamProgram` |
| registration | none | class names | not modelled |

Who talks to whom:

    user, BLACS -> tab -> (queue_work, one function at a time) -> worker
      -> adapter -> API -> executor -> two queues -> UDP thread -> link -> device

Only two things run concurrently inside the program: the worker's thread and the
UDP thread. But between the *steps* of a worker function everything outside goes
on: the device plays, time passes, packets are lost, the user changes the panel
and BLACS may replace the worker process. That is where the hard cases are:

* **partial failure**: a worker function is up to fifteen exchanges with the
  device; any of them can fail before or after the device has executed it, and
  the exception leaves the function where it stands;
* **state in three places**: the panel and tracker of the tab, the mask of the
  worker and the masks of the device describe the same 32 channels and are
  updated one after the other;
* **time**: completion is decided by elapsed time, by a throttled hardware query
  and by a hard time-out;
* **transport**: responses carry no number, and the thread that sends is the
  thread that blocks in `recvfrom`.

What makes each component correct:

* *tab*: what the user changed during a shot is in force or still to be sent; the
  tracker agrees with the worker; the shot is reported as ended, eventually;
* *worker*: a shot of the master waits for `start_run`; only a complete program
  of the current shot is ever played; mix mode touches only the channels the user
  touched; the worker's mask is what the device forces; a shot is reported as finished only when
  it was played or a limit has passed;
* *executor and UDP thread*: a call that returns was carried out, every packet
  once and in order; a response is the response to its request; every call ends;
* *packets*: the stream arrives whole, as many words as announced;
* *code generation and runviewer*: the rows are the levels the experiment asked for,
  without gap or overlap; the device pauses where the experiment waits; metadata,
  front panel and traces agree with the rows;
* *waveforms*: what is downloaded follows the events of the script, in whatever
  order it recorded them.

## 2. The modules

    DSGDevice  <-  DSGWorker  <-  DSGTab           (EXTENDS)
                      ^    ^         ^
          MCDSGWorker |    |         | MCDSGTab
                           DSGWorkerProofs  <-  DSGTabProofs
    CommandService  <-  DSGExecutor                (INSTANCE, implemented by)
    DSGExecutor     <-  DSGExecutorProofs
    StreamPackets   <-  StreamPacketsProofs
    StreamProgram   <-  MCStreamProgram, StreamProgramProofs  <-  StreamWaitsProofs
    SDKWaveform     <-  MCSDKWaveform, SDKWaveformProofs

`DSGTabProofs` also extends `DSGTab`. What connects the groups is data: the rows of
`StreamProgram` are the words that `StreamPackets` delivers, its `FirstState` is
`First[s]` of `DSGWorker`, its `stop_time` is `Stop[s]`, and a row that is the marker
makes `HasWait[s]` true.

### DSGDevice
What the driver relies on of the firmware, and no more. A channel mask is a set
of channels; a program is the name of the shot it was compiled from, `"none"`, or
`"partial"` after an interrupted download. `Stop[s]` is the compiled duration. A
program with a WAIT pauses until a trigger releases it; where the WAIT stands is
left open, so the pause may come at any tick but cannot be skipped. `loop`
(CMD_KEEP) makes the program repeat.

### DSGWorker
A worker function is a *job*: local code when it is called (`Call...`), a list
`todo` of commands executed one step at a time (`CommandSucceeds`,
`CommandRaises`, `StatusUnknown`), and local code when it returns (`Return...`).
A command may fail before the device has executed it (`LostRequests`) or after
(`LostAnswers`); a download that fails leaves `"partial"` or the old memory. Every
exception but that of the status query ends the job. `mode` is BLACS's place in
the cycle of a shot and restricts the calls to those BLACS makes. `elapsed`,
`sinceQuery` and `age` count ticks from the event that resets them and stop at
the largest bound they are compared with. `RestartWorker` replaces the process in
the middle of anything.

`touched` and `played` are ghosts: nothing reads them but properties.
`get_status_text`, printing and the type conversions of settings are left out;
`manual_high_mask` is written and never read, and left out with them. Mutations
(definitions commented so) are changed forms of definitions and are used by no
action.

### DSGTab
Adds the tab. `tab` says at which `yield` a state function is suspended; while it
is, the user changes `panel`. `last_smart` is `_last_smart_values`, `current` the
local of that name. `PollPanelChanged`, `PanelProgrammed` and `Checked` are the
three pieces of `wait_until_done` between its yields. When the worker function
raises, BLACS resumes the generator without a result, so the pieces after a
`yield` run as they do after a return. The panel shows the values a transition
returns, which is what the comment at `blacs_workers.py:61-63` expects of BLACS.
`EarlyUser` lets the user change the panel between the end of
`transition_to_buffered` and the end of `start_run`, too.

### DSGExecutor and CommandService
`CommandService` is the promise the worker's model rests on: one command at a
time; what returns was carried out completely, what raises up to some packet; the
device does nothing between calls. `CommandSucceeds` of `DSGWorker` is a call
that ends in `Return`, `FailedExchange` one that ends in `Raise`.

`DSGExecutor` is the code: the calls `_send_cmd`, `_send_cmd_raw` and `_adm_batch`
over `write` and `read`, the loop of the UDP thread, `close`, a link with delays
and losses, and a device that may refuse. Time is explicit: timers count down in
`Tick`, which happens only when nobody has something to do at once. `Accepts`
holds the three different checks of a response: a command compares the command
code and the result bit, a download the result bit only, a query nothing.
A message has a ghost `own` that is true while the call that sent it lasts.

### StreamPackets
The header and the packets of a download as intervals of byte positions, with the
real sizes (8-byte words, 1022 bytes of them per packet, 16-bit count, 8-bit
number). It assumes what `generate_code` ensures with the default
`max_instructions`: fewer than 2^16 words. An experiment that sets
`max_instructions` higher leaves that assumption, and the header announces the
count modulo 2^16. The order of the two halves of a word is not modelled: the
comments of `device_data.py` (lines 30 and 64) put the state first, its code
(lines 61-66) the duration, and only the firmware could say which is right.

### StreamProgram
From an experiment to the rows and back. An experiment is any set of change times,
for each output the change times from which it is high, and the times at which it
waits; labscript collects these, so `Collect` and its list of clock entries, which a
wait makes longer by one (`WaitAt`), are external. Then `generate_code` runs one
interval at a time (`AppendRow`): a marker where the clock waits, a row for the
interval, merged with the one before if that has the same state and is no marker;
after the loop it refuses, or stores the rows with their metadata. `FirstState` is the
loop of `transition_to_buffered` (`blacs_workers.py:61-73`) and `ParseRow` the loop of
the runviewer parser. Times are in half ticks, so that a time may lie off the grid,
and a state is the set of channels that are high. `at`, a ghost, is the interval at
whose beginning a row was appended: the properties compare rows with the experiment
through it. Reps have `RepModulus` values in the place of 2^32, and `Cast` and `Cut`
say what becomes of a number that does not fit.

The properties assume `Fits`: no state is kept for the duration of the marker or
longer (42.9 s with the default `dt`). Section 3 says what happens otherwise.

### SDKWaveform
The timeline of the SDK's user layer, `DigitalOut` and `send_streambytes`. Time has
units of which `Tick` make one `dt`, since nothing in that layer validates times: an
event may lie between two ticks, and so may the midpoint of two highs at which
`_normalize_pulse_start_events` inserts a low. `round` of a quotient of floats may
take a half either way. Events keep the order of the calls (`n` in `Numbered`), which
decides where two of them have the same time. The ghosts `pulses` and `single` keep
what the script asked for, `sent_for` the timeline a download was made of.
`group_count` is the number of rows the header announces. A row's duration keeps 32
bits and the header 16 of the count (`RepModulus`, `CountModulus`), without a check
(`device_data.py:53`, `:62`).

`PlaysWaveform` does not repeat the code's rule for added lows. It says, of each channel at
each tick (`FollowsEvents`), what follows from the events whatever the rule: high only if
the last event so far is a high; high, if a low ends that high; and, on a channel given
only starts of pulses, high up to halfway to the next start (`dsgQosmos.py:247`). What
follows a high that another high follows, on a channel with lows, or that nothing
follows, it leaves open; what the docstring says of that is `ExplicitLowsUnchanged`, which
does not hold. `PulsesPlayed` says what the rows are to a script that only uses `pulse`.
Both assume that all changes lie on the grid (`Aligned`) and fit (`Fits`): no duration of
2^32 ticks, no row that is the marker of a WAIT, no more rows than the header can announce.
The channels are finitely many, as the 32 of the code are: the latest
event before a time is chosen from those of a channel.

## 3. The runs

Ticks are abstract in the worker and the tab: `Stop` 2, `CompletionBuffer` 1,
`QueryInterval` 2, `HardTimeout` 3. What matters is their order and that every
phase of `check_if_done` is entered with the program played, playing and waiting:
a query may come before the end, at the end and after a throttled interval, and
the hard time-out lies one interval after the first query. Two channels are one the
program sets and one it does not; each may be checked and unchecked by the user.
These two declare no symmetry: the two channels differ in the program.

| run | question | states (about) |
|---|---|---|
| `worker_lossy` | the worker's mask, mix mode, no early start, only the shot's program, finished means played; any request but CMD_SWR may be lost, any answer but those of CMD_SWR and CMD_MAN; master, triggered and empty shot, with and without repetition | 225 000 |
| `worker_restart` | mix mode, no early start, only the shot's program and repetition where it is set, when the worker process is replaced at any moment, also by one with another execution mode | 415 000 |
| `tab_panel` | what a poll finds settled is in force; tracker and worker agree; finished means played or hard time-out, with shots that wait | 961 000 |
| `tab_ends` | polling ends (liveness) | 91 000 |
| `link_service` | responses belong to requests, nothing is left over, only losses cause time-outs; `DSGExecutor` implements `CommandService` | 3 000 |
| `link_returns` | every call and close ends (liveness); the socket outlives the thread | 23 700 |
| `packets` | whole stream, right count, numbers tell packets apart | 3 200 |
| `stream_program` | rows play the outputs, the first pause is the first wait, metadata, panel and traces agree | 430 000 |
| `sdk_waveform` | downloads follow the events of the script, pulses are whole, LEDs of the right channels | 293 000 |

The transport runs use ticks of 0.125 s, so `Timeout` 8, `RecvTimeout` 4 and
`JoinTimeout` 16 are the 1 s, 0.5 s and 2 s of the code. "Prompt" means at most
1 tick to the device and 2 back: a request waits up to 4 ticks for the `recvfrom`
in progress, and 4 + 1 + 2 < 8. `link_returns` scales the timers down and lets
answers come after the time-out. `MaxBacklog` bounds left-over messages; only late
answers reach it. Packets are never duplicated or reordered: the link is a direct
cable to one device, and there is at most one request at a time while answers are
prompt. `link_service` keeps the thread alive: when the thread dies after it has
sent a request, `read` refuses at once and the device executes the command after
the call has raised, which `CommandService` does not allow and `DSGWorker`, whose
device executes a failed command before the job ends, does not distinguish.

`packets` takes program lengths at every boundary: one word, around one packet
(127 to 129 words), around four packets (511, 512, where a packet ends on a word
again), past 256 packets (33 000) and the largest (65 535).

`stream_program` takes every experiment with up to five change times out of six, one
of them off the grid: three inner change times make room for two waits in a row or
apart, for a row merged over two intervals, for a state that returns, and for
durations below, at and above the 2-bit marker (3 ticks). `MaxInstructions` 4 is
below the longest list of rows (6, with two markers), so that programs are refused,
too. Two outputs under five names reach every refusal of `add_device`. The outputs
are interchangeable (SYMMETRY). `sdk_waveform` has three calls that record events
(two pulses of one channel and an event of the other; a pulse between two highs), a
time before zero, one off the grid, a width and a level the code refuses, and clears
and freezes in between, with downloads and `set_done` at any moment. Durations
have two bits and the count five values: from 4 to 16 is the marker's duration, from 0 to
16 is one that is cut, and five rows are announced as none. Its channels are
interchangeable.

### Disagreements with comments and documents
Each of these runs is expected to find a violation; `PROJECT.json` quotes the
sentence it contradicts.

| run | what happens |
|---|---|
| `lost_status_in_wait` | one lost status answer ends a shot that is paused at a WAIT |
| `swallowed_toggle` | a box changed before `start_run` has returned is never sent |
| `no_resend` | a lost packet of a download is not sent again, only a refused one is |

Two more configurations, each of one property that does not hold, are kept beside the
runs; `PROJECT.json` mentions them under the hazards:

| configuration | what happens |
|---|---|
| `explicit_lows.cfg` (`MCSDKWaveform`) | a high that another high follows ends halfway to it, on channels with explicit lows, too: `ExplicitLowsUnchanged` |
| `exec_mode_kept.cfg` (`MCDSGWorker`) | exec mode 0 does not undo the exec mode 1 of an earlier session: `ExecModeApplied` |

### What the passing runs leave out, and what happens there
The constants of a run name what may go wrong in it. Where a property does not
survive more, this is what TLC finds when the constant is changed:

| change | property that fails | how |
|---|---|---|
| MAN in `LostAnswers` of `worker_lossy` | `ManualLevelsMatch` | the worker's mask and the device differ from then on, and unchecking the box sends nothing, although the documentation (`DSGQosmos_MasterClock_labscript.md:416`) has the channel pulled low |
| `WorkerRestarts` TRUE in `worker_lossy` | `ManualLevelsMatch` | the new worker assumes no channel is forced; an unchecked box stays high on the device |
| SWR in `LostRequests` or `LostAnswers` of `worker_lossy` | `DoneMeansPlayed` | `buffered_start_time` stays None and the first poll reports the shot as finished |
| READ in `LostRequests` of `tab_panel` | `PanelInForce` | a box whose `program_manual` raised counts as sent |
| `AnswerDelay` 4 | `RawAnswerIsOwn`, `NothingPending` | a late answer is returned as the response to the next query |
| `AnswerDelay` 4 | `OkMeansExecuted` | a late answer acknowledges a lost packet, and the download returns incomplete |

In the last two modules it is an assumption of the property that leaves cases out:

| property | without | what happens |
|---|---|---|
| `PausesAtWaits`, stated for every wait | the first wait only | labscript's list has one more entry for each wait, the loop does not: the marker of the second wait comes one interval late, of the third two, and one that would come after the last interval is missing |
| `PlaysOutputs`, `MetadataAgree`, `TracesShowOutputs` | `Fits` | a state kept for 2^32 - 1 ticks becomes a pause or is skipped by the parser, a longer one is cut or raises |
| `PlaysWaveform`, `PulsesPlayed` | `Fits` | a duration of 2^32 ticks or more is cut, one of 2^32 - 1 with all channels low is a pause, and of 2^16 rows or more too few are announced |
| `PulsesPlayed` | pulses apart | a pulse that begins where another one ends is lost if it was entered first; overlapping pulses are cut |
| `PlaysWaveform`, `PulsesPlayed` | `Aligned` | every row is rounded by itself, and the rows drift against the time axis |

The waveform layer adds a low after *any* high that another high follows, and one
10 us after a final high. The docstring of `_normalize_pulse_start_events`
(`dsgQosmos.py:245-252`) says that channels which have explicit lows are left alone and
that only channels with two or more highs are changed: `explicit_lows.cfg` finds a script that
sets a channel high, calls `pulse` on it later, and finds it low in between. For how long
a final high lasts the docstring has no rule, and `PlaysWaveform` none either. The program
begins with the first event of any channel, whatever its time, and the state after the
last event is not sent.

Packets carry 1022 bytes of the stream, not the 1024 (128 words) of
`dsg_protocol.py:68`: the executor is built with `max_payload` 1024 and takes two
bytes off it. `StreamIsWhole` shows that nothing is lost by cutting words in two.

### Fairness
`DSGTab`: weak fairness of the tab's steps (BLACS runs its state functions), of
the worker (a command succeeds or raises: `CallsReturn` of `DSGExecutor`) and of
time. The user, BLACS's aborts, the trigger and the losses have none. `DSGExecutor`:
weak fairness of both threads, of the device's taking a packet that has arrived,
and of time; calls, `close` and the death of the thread have none. No strong
fairness is used, and no link is assumed to deliver anything eventually.

## 4. The proofs

`DSGWorkerProofs` proves for every set of channels and shots, all settings and
times and every choice of what the link may lose:

| theorem | needs |
|---|---|
| `TypeCorrect`, `StreamKeepsChannels`, `WaitsForStartRun`, `RunsOnlyTheShot`, `RepeatsWhenSet` | nothing but `ShotsAssumption` and `WorkerAssumption` |
| `LevelsFollowCheckboxes` | no answer to CMD_MAN is lost, no restarts |
| `ManualMasksProgram` | no restarts |
| `ReportedShotsWerePlayed` | the exchange of CMD_SWR does not fail, no WAIT |
| `ReportedInTime` | neither CMD_SWR nor the status query fails |

Section 3 shows what happens without the extra hypotheses.

The properties speak of what has been reached *after* a download, but it is the
download's order of commands that makes them true, so they are not inductive.
`SafeInv` adds what holds in the middle:

* `JobInv` - each function runs in its part of the cycle and has only its own
  commands left;
* `OrderInv` - what remains of a download still has CMD_CLS before CMD_ADM before
  CMD_RUN, and CMD_RUN only for a triggered shot;
* `DownloadInv` - what has been executed has had its effect: manual control is
  released once no CMD_MAN is left, nothing plays after the first abort, the
  memory holds the program when no command that writes it is left;
* `DeviceInv`, `ShotInv` - nothing active runs a partial program, and from the end
  of a download on worker and device agree on the shot;
* `ManualInv` - between the read and the write of the read-modify-write nobody
  else writes the masks.

The lemmas about lists (`HasTail`, `PrecedesConcat`, `BufferedShape`, ...) reduce the
order of a download to facts about its shape; `ExchangeEffect` reduces the nine
ways a command ends to "the device executed it or not"; then there is one lemma
per conjunct with one step per action. `LevelsInv`, `MaskInv`, `ModeInv` and `PlayInv` are
the additional invariants of the theorems with hypotheses. `PlayInv` carries the
timing argument: a started program has `left` ticks to play, `elapsed + left`
stays at most `stop`, and no poll asks before `stop` has passed. `StartedInv`, for
`ReportedInTime`, says that a shot that has been started was played or is running, and
that the status the worker has read tells which. `ModeInv`, for `RepeatsWhenSet`, says
that CMD_KEEP is still to be sent in a download that needs it or has taken effect, and
survives a restart, which ends the shot together with the job.

`DSGTabProofs` proves about worker and tab together:

| theorem | needs |
|---|---|
| `TabImplementsWorker`, `TabTypes` | nothing but the assumptions on the constants |
| `TrackerFollowsWorker` | no `EarlyUser`; neither READ nor CMD_MAN is lost |
| `PanelIsInForce` | the same, and no restarts |
| `TabReportsInTime` | as `ReportedInTime` |

`TabImplementsWorker` (`TabSpec => Spec`) carries every theorem about the worker over
to the composition: whatever the tab calls is a call that BLACS may make. `TabInv`
says in which part of the shot each suspension of the tab lies. `TrackerInv` says
where `last_smart`, `current` and the worker's mask differ while a
`program_manual` is on its way, `ForcedInv` that a box that differs from the first
state of the program belongs to a channel under manual control; together with
`ManualLevelsMatch`, which the worker's proofs give, that is `PanelInForce`.

`StreamPacketsProofs` proves `PacketTypes`, `StreamDelivered` and `NumbersDistinguish`
for every word size, packet size and program length: `Prefix` says that what was
accepted is the stream up to `offset`, `Progress` that the header was announced first
and that a return means `offset` is the length. `NumberInv` relates the counter of the
executor to the last accepted packet; that the next number differs from it is that 1 is
no multiple of the modulus.

`StreamProgramProofs` and `StreamWaitsProofs` prove, for every bank, every experiment, every width of reps
and any number of change times, `ProgramTypes`, `RowsPlayOutputs`, `PanelStarts` and
`TracesAreOutputs`, and `PausesWhereItWaits` and `MetadataOfRows`, from
`ProgramAssumption` alone (`Fits` is part of what they state).
`PlaysOutputs` speaks of the stored rows; `Loop` says it of the rows so far, at every
turn of the loop: each is a pause, or plays the intervals from `at[k]` to the
beginning of the next. Two facts make it inductive: the states of merged intervals
are equal, so `Fits` bounds the sum of their reps below the marker
(`ShorterThanMarker`), and the clock does not wait before the first interval
(`NoWaitAtFirst`), so the first row is a state. `ParserInv` follows the parser: it has
reached the beginning of a row's interval, and knows the levels before it.

`MarkerInv` pairs the markers with the intervals at which the loop sees a wait, one to
one; it needs `Fits`, or a state's row could be taken for a marker. The w-th entry of
labscript's list stands as many places late as there are waits before it (`Slot`), so
the k-th pause comes no earlier than the k-th wait and the first one on time: `Slot` is
injective and grows, and that is all `PausesWhereItWaits` counts with. `MetaInv` says
that the metadata of a compilation stays what `Metadata` computes of its rows;
`MetadataOfRows` takes the number of markers from `MarkerInv` and the stop time from
where `ParserInv` leaves the parser.

`SDKWaveformProofs` proves about the waveform layer, for every finite set of channels
and every script, grid and rounding:

| theorem | needs |
|---|---|
| `WaveformTypes`, `LedsOfProgram` | nothing but `WaveformAssumption` |
| `RowsPlayTimeline` | `Aligned` and `Fits`, both part of what is stated |
| `PulsesAreSent` | the same; the pulses of the channel neither overlap nor touch |

The inductive invariant is short, since a download is computed in one step:
`ScriptInv` says that the events of a channel on which only `pulse` was called come in
pairs, one for each pulse (`Pairs`), and that times are even, so that midpoints are
exact (`EvenTimes`); `RowsInv` that the rows are the cut compression of the
timeline they were made of. The theorems are about what the operators compute of a
timeline, and `First`, `Latest` and `Axis` choose from finite sets. That a finite set in
a total order has an end (`Extreme`) and that its elements can be numbered in order
(`Ranks`) are proved by a smallest counterexample, so no induction theorem is needed.
From there:

* `NormalizedFacts`, `AddedLowBefore`: the lows that normalization adds, and that none of
  them comes after the event that follows its high;
* `Levels`: the level of a channel at a time is high exactly when some high has begun and
  not ended, ends being those of `EndsOfHighs`;
* `LevelKept`: no level changes between two times of the axis, so the state at the
  beginning of a row is the state during it;
* `HighsFollowEvents`: from `Levels` and the added lows alone, what `FollowsEvents` asks;
* `StartOfRow`: on the grid no row is rounded, within `Fits` none is cut, and the sum of the
  reps before a row is its time on the axis;
* `PulseEvents`, `PulseEnds`: every event of a channel with pulses only begins or ends one
  of them, and a pulse that touches no other is ended by its own low.

`DSGExecutorProofs` proves about the transport:

| theorem | needs |
|---|---|
| `TransportTypes` | nothing but `ExecutorAssumption` |
| `SocketOutlivesThread` | `RecvTimeout < JoinTimeout` |
| `ReturnedWasExecuted`, `ResponsesAreOwn`, `NothingIsLeftOver`, `OnlyLossesTimeOut`, `ImplementsServiceSafely` | `Prompt`: the UDP thread lives, and `RecvTimeout + RequestDelay + AnswerDelay < Timeout` |

With 0.5 s and 1 s in the code, `Prompt` leaves the link and the device just under
half a second. `PromptInv` says where the one message of the current attempt is while
the executor waits - in the send queue, on its way, being answered, in the receive
queue, or lost - what the device has carried out by then (`Before` or `Upto`), and how
much of the time-out is left: at least what the rest of the way takes. `AtSend` is
the point of it: `Timeout + timer <= wait + RecvTimeout` relates the two timers while
the request waits for `recvfrom` to give up. A call that has not lost its message
therefore never sees its own time-out, so nothing is left over when it ends, and the
next call starts from empty queues. `ImplementsServiceSafely` is
`Spec => Service!Init /\ [][Service!Next]_(Service!vars)`: all of `ImplementsService`
but the fairness.

Every invariant and action property of the passing runs is a theorem, with the hypotheses
of the tables above. Only model-checked are the liveness properties, `ShotEnds` and
`CallsReturn`, and of `ImplementsService` the fairness of `CommandService`: liveness under
fairness is out of the prover's reach, as is ENABLED.

## 5. Not modelled, and why

* The bit layout of requests and responses (`dsg_protocol.py`, `device_data.py`):
  fixed offsets without a state or a case to distinguish; the lengths, counts
  and numbers that can go wrong are in `StreamPackets`.
* Interactive helpers of `dsgQosmos.py` and API methods nobody in the driver calls
  (restart, pause, single addresses, IP configuration, versions); `force_set`, which
  repeats `update_manual_channels`; renaming, showing and parsing of names.
* The argument checks of the device's constructor, and `SEGMENT_START_TIMES`, which is
  stored and read by nobody.
* `time.time()` jumping; HDF5 files; widgets; registration of classes.
* Firmware beyond section 2. In particular whether a repeating program ever
  reports STATUS_IDLE is not known; `DoneOrTimedOut` is proved for either mode.

## 6. Plan

Done: the worker and the device with proofs of their safety; the tab with proofs
on top of them; the executor with its abstract specification and proofs; packets,
code generation, parser and waveforms with proofs.

Left:

1. A module for the bit fields of requests, unpacking inverse to packing.
