---------------------------- MODULE StreamProgram ----------------------------
(***************************************************************************)
(* From an experiment to a program and back (labscript_devices.py,         *)
(* runviewer_parsers.py): outputs are connected to channels, generate_code *)
(* turns their levels into rows of a duration and a state and marks WAITs, *)
(* and the runviewer parser turns the rows into traces again.              *)
(*                                                                         *)
(* Times are counted in half ticks (dt / 2), so that a time can be off the *)
(* grid.  A state is the set of the channels that are high.  The outputs   *)
(* keep their levels from each change time to the next: interval i begins  *)
(* at times[i].                                                            *)
(***************************************************************************)
EXTENDS Integers, FiniteSets, Sequences

CONSTANTS
  Outputs,          \* the DigitalOut and Trigger objects of an experiment
  NoOutput,
  Connections,      \* the names they are connected by: records [prefix, index]
  NoConnection,
  ChannelCount,     \* CHANNEL_COUNT
  RepModulus,       \* reps are stored in 32 bits
  MaxInstructions,  \* max_instructions
  Times,            \* the change times of an experiment are some of these
  MaxChanges        \* bound: number of change times

ASSUME ProgramAssumption ==
  /\ {ChannelCount, MaxInstructions, MaxChanges} \subseteq Nat /\ Times \subseteq Nat
  /\ RepModulus \in Nat /\ RepModulus > 2
  /\ NoOutput \notin Outputs /\ NoConnection \notin Connections
  /\ \A c \in Connections : c.index \in Nat

VARIABLES
  phase,        \* "connect", "collected", "rows", "stored", "viewed" or "failed"
  port,         \* the connection of each output
  connected,    \* connected_channels
  times, high,  \* what labscript collects: change times, and the change times from
  waits,        \* which an output is high, those at which the experiment waits
  index,        \* the next interval of generate_code's loop
  program,      \* its list of rows
  at,           \* ghost: the interval at whose beginning each row was appended
  stream,       \* STREAM_PROGRAM
  meta,         \* what _write_metadata stores
  row, t,       \* the parser's loop
  trace

experiment == <<port, connected, times, high, waits>>
parser == <<row, t, trace>>
vars == <<phase, experiment, index, program, at, stream, meta, parser>>

Channels == 0..(ChannelCount - 1)
Marker == [reps |-> RepModulus - 1, state |-> {}]
NoMeta == [stop_time |-> 0, wait_count |-> 0, active_mask |-> {}, final_mask |-> {}]

Init ==
  /\ phase = "connect"
  /\ port = [o \in Outputs |-> NoConnection]
  /\ connected = [c \in Channels |-> NoOutput]
  /\ times = <<>> /\ high = [o \in Outputs |-> {}] /\ waits = {}
  /\ index = 1 /\ program = <<>> /\ at = <<>>
  /\ stream = <<>> /\ meta = NoMeta
  /\ row = 1 /\ t = 0 /\ trace = <<>>

-----------------------------------------------------------------------------
(* Connecting outputs.                                                     *)

\* _channel_number; CHn and don are names of the same channel.
IsChannel(c) == c.prefix \in {"CH", "do"} /\ c.index \in Channels

\* Mutation: channels are told apart by their names.
ConnectByName(o, c) ==
  /\ phase = "connect" /\ port[o] = NoConnection
  /\ IsChannel(c) /\ \A other \in Outputs : port[other] # c
  /\ port' = [port EXCEPT ![o] = c]
  /\ connected' = [connected EXCEPT ![c.index] = o]
  /\ UNCHANGED <<phase, times, high, waits, index, program, at, stream, meta, parser>>

Connect(o, c) ==
  /\ phase = "connect" /\ port[o] = NoConnection
  /\ IsChannel(c) /\ connected[c.index] = NoOutput
  /\ port' = [port EXCEPT ![o] = c]
  /\ connected' = [connected EXCEPT ![c.index] = o]
  /\ UNCHANGED <<phase, times, high, waits, index, program, at, stream, meta, parser>>

\* A LabscriptError ends the compilation.
Fail ==
  /\ phase' = "failed"
  /\ UNCHANGED <<experiment, index, program, at, stream, meta, parser>>

ConnectionRefused(o, c) ==
  /\ phase = "connect" /\ port[o] = NoConnection
  /\ IsChannel(c) => connected[c.index] # NoOutput
  /\ Fail

\* labscript collects the edges of the outputs.  The first change time is the
\* beginning of the experiment, the last one its stop time; the time of a wait is
\* a change time between them.
Collect ==
  /\ phase = "connect"
  /\ \E n \in 0..MaxChanges :
       /\ times' \in [1..n -> Times]
       /\ n > 0 => times'[1] = 0
       /\ \A i, j \in 1..n : i < j => times'[i] < times'[j]
       /\ high' \in [Outputs -> SUBSET (1..n)]
       /\ \A o \in Outputs : port[o] = NoConnection => high'[o] = {}
       /\ waits' \in SUBSET (2..(n - 1))
  /\ phase' = "collected"
  /\ UNCHANGED <<port, connected, index, program, at, stream, meta, parser>>

-----------------------------------------------------------------------------
(* generate_code.                                                          *)

CompileEmpty ==
  /\ phase = "collected" /\ times = <<>>
  /\ phase' = "stored"
  /\ UNCHANGED <<experiment, index, program, at, stream, meta, parser>>

OnGrid == \A i \in DOMAIN times : times[i] % 2 = 0

\* Mutation: times off the grid are rounded.
NotValidated ==
  /\ phase = "collected" /\ times # <<>>
  /\ phase' = "rows"
  /\ UNCHANGED <<experiment, index, program, at, stream, meta, parser>>

Validated ==
  /\ phase = "collected" /\ times # <<>> /\ OnGrid
  /\ phase' = "rows"
  /\ UNCHANGED <<experiment, index, program, at, stream, meta, parser>>

OffGrid == phase = "collected" /\ ~OnGrid /\ Fail

\* The state of the output bank in interval i.
State(i) == {c \in Channels : connected[c] # NoOutput /\ i \in high[connected[c]]}

\* One interval between each two change times; a single change time lasts a tick.
Intervals == IF Len(times) = 1 THEN 1 ELSE Len(times) - 1
Boundary(i) == IF i <= Len(times) THEN times[i] ELSE times[1] + 2
Ticks(i) == (Boundary(i + 1) - times[i]) \div 2

\* The conversion to 32 bits; what becomes of a number that does not fit depends
\* on the machine.
Cast(n) == IF n < RepModulus THEN {n} ELSE 0..(RepModulus - 1)

\* Mutation: the marker is appended one interval too early.
WaitBefore(i) == \E w \in waits : i + 1 = w + Cardinality({v \in waits : v < w})

\* clock[i] = 'WAIT'.  labscript's list has one entry for each change time and one
\* more in front of it where the experiment waits, so that every wait moves those
\* after it by one.
WaitAt(i) == \E w \in waits : i = w + Cardinality({v \in waits : v < w})

\* The marker is the constant SEGMENT_MARKER, and is recognised by its value.
Marked(rows) == IF WaitAt(index) THEN Append(rows, Marker) ELSE rows

Last(rows) == rows[Len(rows)]

\* Mutation: a row is merged with a marker.
MergesWithMarker(rows) == rows # <<>> /\ Last(rows).state = State(index)

Merges(rows) == rows # <<>> /\ Last(rows) # Marker /\ Last(rows).state = State(index)

AppendRow ==
  /\ phase = "rows" /\ index <= Intervals
  /\ \E rep \in Cast(Ticks(index)) :
       LET rows == Marked(program)
           begins == IF WaitAt(index) THEN Append(at, index) ELSE at
       IN CASE rep = 0 -> program' = rows /\ at' = begins
            [] rep > 0 /\ Merges(rows) ->
                 /\ program' = [rows EXCEPT ![Len(rows)].reps = @ + rep]
                 /\ at' = begins
            [] OTHER ->
                 /\ program' = Append(rows, [reps |-> rep, state |-> State(index)])
                 /\ at' = Append(begins, index)
  /\ index' = index + 1
  /\ UNCHANGED <<phase, experiment, stream, meta, parser>>

AllRows == phase = "rows" /\ index > Intervals

TooManyInstructions == AllRows /\ Len(program) > MaxInstructions /\ Fail

\* Mutation: rows are stored with as many bits as they need.
NotCut(n) == n

Cut(n) == n % RepModulus

\* np.array raises for a merged number of reps that does not fit, or cuts it.
MergedTooLong ==
  /\ AllRows /\ \E k \in DOMAIN program : program[k].reps >= RepModulus
  /\ Fail

MarkersOf(rows) == {k \in DOMAIN rows : rows[k] = Marker}
RowsOf(rows) == DOMAIN rows \ MarkersOf(rows)

\* Mutation: the final state is that of the stop time.
FinalOfStopTime(rows) == State(Len(times))

\* The state of the last row that is no marker, no channel when there is none.
FinalState(rows) ==
  {c \in Channels : \E k \in RowsOf(rows) : c \in rows[k].state /\ \A j \in RowsOf(rows) : j <= k}

\* _write_metadata; labscript keeps it beside the rows.
Metadata ==
  [stop_time   |-> Boundary(Intervals + 1) - times[1],
   wait_count  |-> Cardinality({i \in 1..Intervals : WaitAt(i)}),
   active_mask |-> {c \in Channels : \E i \in DOMAIN times : c \in State(i)},
   final_mask  |-> FinalState(program)]

Store ==
  /\ AllRows /\ Len(program) <= MaxInstructions
  /\ stream' = [k \in DOMAIN program |-> [program[k] EXCEPT !.reps = Cut(@)]]
  /\ meta' = Metadata
  /\ phase' = "stored"
  /\ UNCHANGED <<experiment, index, program, at, parser>>

-----------------------------------------------------------------------------
(* What is read from the program.                                          *)

\* Mutation: the worker's loop does not stop at the first row.
FirstOfAll(rows) == FinalState(rows)

\* The state transition_to_buffered returns for the front panel.
FirstState(rows) ==
  {c \in Channels : \E k \in RowsOf(rows) : c \in rows[k].state /\ \A j \in RowsOf(rows) : k <= j}

\* Mutation: the parser takes the marker for a pause of its length.
MarkerNotSkipped ==
  /\ phase = "stored" /\ row <= Len(stream)
  /\ trace' = Append(trace, [time |-> t, state |-> stream[row].state])
  /\ t' = t + 2 * stream[row].reps
  /\ row' = row + 1
  /\ UNCHANGED <<phase, experiment, index, program, at, stream, meta>>

\* get_traces; it takes every row with the marker's reps for a marker.
ParseRow ==
  /\ phase = "stored" /\ row <= Len(stream)
  /\ IF stream[row].reps = Marker.reps
       THEN UNCHANGED <<t, trace>>
       ELSE /\ trace' = Append(trace, [time |-> t, state |-> stream[row].state])
            /\ t' = t + 2 * stream[row].reps
  /\ row' = row + 1
  /\ UNCHANGED <<phase, experiment, index, program, at, stream, meta>>

ParserReturns ==
  /\ phase = "stored" /\ row > Len(stream)
  /\ trace' = IF trace = <<>> THEN <<[time |-> 0, state |-> {}]>> ELSE trace
  /\ phase' = "viewed"
  /\ UNCHANGED <<experiment, index, program, at, stream, meta, row, t>>

Next ==
  \/ \E o \in Outputs, c \in Connections : Connect(o, c) \/ ConnectionRefused(o, c)
  \/ Collect
  \/ CompileEmpty \/ Validated \/ OffGrid
  \/ AppendRow \/ TooManyInstructions \/ MergedTooLong \/ Store
  \/ ParseRow \/ ParserReturns

Spec == Init /\ [][Next]_vars

-----------------------------------------------------------------------------
(* Properties.                                                             *)

Row == [reps : Nat, state : SUBSET Channels]

\* A stored row has reps of 32 bits.
TypeOK ==
  /\ phase \in {"connect", "collected", "rows", "stored", "viewed", "failed"}
  /\ port \in [Outputs -> Connections \cup {NoConnection}]
  /\ connected \in [Channels -> Outputs \cup {NoOutput}]
  /\ times \in Seq(Nat) /\ high \in [Outputs -> SUBSET Nat] /\ waits \subseteq Nat
  /\ index \in Nat \ {0} /\ program \in Seq(Row) /\ at \in Seq(Nat)
  /\ stream \in Seq([reps : 0..(RepModulus - 1), state : SUBSET Channels])
  /\ meta \in [stop_time : Nat, wait_count : Nat,
               active_mask : SUBSET Channels, final_mask : SUBSET Channels]
  /\ row \in Nat \ {0} /\ t \in Nat /\ trace \in Seq([time : Nat, state : SUBSET Channels])

Compiled == phase \in {"stored", "viewed"} /\ times # <<>>

\* The bank never keeps one state for the duration that is the marker's, 2^32 - 1
\* ticks, or longer: 42.9 s with the default dt.
Fits ==
  \A i, j \in 1..Intervals :
    i <= j /\ Boundary(j + 1) - times[i] >= 2 * Marker.reps
      => \E k \in i..j : State(k) # State(i)

\* Where row k ends: at the beginning of the row after it, or of what follows.
RowEnd(k) == IF k < Len(at) THEN at[k + 1] ELSE index

\* In interval i every connected output has the level that its channel has in s.
ShowsOutputs(s, i) ==
  \A o \in Outputs : port[o] # NoConnection => (port[o].index \in s <=> i \in high[o])

\* The rows are the experiment: one after the other, from its beginning to its stop
\* time, each with a positive duration that is the distance of the change times it
\* lies between and with the level of every output there; markers take no time.
PlaysOutputs ==
  Compiled /\ Fits =>
    /\ Len(stream) = Len(at) /\ at[1] = 1 /\ index = Intervals + 1
    /\ \A k \in DOMAIN stream :
         IF stream[k] = Marker
           THEN RowEnd(k) = at[k]
           ELSE /\ at[k] < RowEnd(k)
                /\ 2 * stream[k].reps = Boundary(RowEnd(k)) - times[at[k]]
                /\ \A i \in at[k]..(RowEnd(k) - 1) : ShowsOutputs(stream[k].state, i)

\* The device pauses first where the experiment waits first, and never more often
\* than the experiment has waited by then.
PausesAtWaits ==
  Compiled /\ Fits =>
    LET pauses == {at[k] : k \in MarkersOf(stream)}
    IN /\ \A i \in 1..Intervals :
            Cardinality({p \in pauses : p <= i}) <= Cardinality({w \in waits : w <= i})
       /\ \A w \in waits : (\A v \in waits : w <= v) => w \in pauses

\* What is stored beside the rows agrees with them: the stop time is the duration
\* the parser finds, and the final state and the number of markers are theirs; no
\* channel outside active_mask is ever high.
MetadataAgree ==
  Compiled /\ Fits =>
    /\ phase = "viewed" => t = meta.stop_time
    /\ meta.wait_count = Cardinality(MarkersOf(stream))
    /\ ShowsOutputs(meta.final_mask, Intervals)
    /\ \A k \in DOMAIN stream : stream[k].state \subseteq meta.active_mask

\* The front panel starts a shot with the levels that the outputs have first.
PanelStartsRight == Compiled /\ Fits => ShowsOutputs(FirstState(stream), 1)

\* The trace of an output has, at every change time, the level of the output.
TracesShowOutputs ==
  phase = "viewed" /\ times # <<>> /\ Fits =>
    \A i \in 1..Intervals :
      \E k \in DOMAIN trace :
        /\ trace[k].time <= times[i]
        /\ \A j \in (k + 1)..Len(trace) : trace[j].time > times[i]
        /\ ShowsOutputs(trace[k].state, i)
=============================================================================
