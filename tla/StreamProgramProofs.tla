------------------------- MODULE StreamProgramProofs -------------------------
(***************************************************************************)
(* Proofs about StreamProgram: for every set of outputs and connections,   *)
(* every experiment and every width of reps, the rows play the outputs,    *)
(* and the traces of the parser show them.                                 *)
(***************************************************************************)
EXTENDS StreamProgram, FiniteSetTheorems, TLAPS

\* The change times are in order, and labscript waits only between the first and
\* the last.
ExperimentInv ==
  /\ \A i, j \in 1..Len(times) : i < j => times[i] < times[j]
  /\ waits \subseteq 2..(Len(times) - 1)
  /\ times # <<>> => times[1] = 0
  /\ phase = "rows" => times # <<>> /\ OnGrid
  /\ phase = "connect" => times = <<>> /\ program = <<>>

\* Every connected output has a channel of its own.
PortInv ==
  \A o \in Outputs : port[o] # NoConnection =>
    port[o].index \in Channels /\ connected[port[o].index] = o

\* Row k is a marker, or plays the intervals from at[k] to its end.
IsPause(k) == program[k] = Marker /\ RowEnd(k) = at[k]
IsPlayed(k) ==
  /\ at[k] < RowEnd(k) /\ RowEnd(k) <= index
  /\ 2 * program[k].reps = Boundary(RowEnd(k)) - times[at[k]]
  /\ program[k].reps < Marker.reps
  /\ \A i \in at[k]..(RowEnd(k) - 1) : program[k].state = State(i)

Loop ==
  /\ Len(at) = Len(program) /\ \A k \in DOMAIN at : at[k] \in 1..Intervals
  /\ index = 1 => program = <<>>
  /\ index > 1 => /\ program # <<>> /\ at[1] = 1 /\ program[1] # Marker
                  /\ IsPlayed(Len(program))
  /\ \A k \in DOMAIN program : IsPause(k) \/ IsPlayed(k)

InLoop == phase = "rows" \/ (phase \in {"stored", "viewed"} /\ times # <<>>)

LoopInv ==
  /\ InLoop => index \in 1..(Intervals + 1)
  /\ InLoop /\ Fits => Loop
  /\ phase \in {"connect", "collected"} => index = 1 /\ program = <<>> /\ at = <<>>

StoredInv ==
  Compiled => index = Intervals + 1 /\ (Fits => stream = program)

\* The parser has come to the beginning of interval Reached, and has the level of every
\* output until then.
Reached == IF row <= Len(at) THEN at[row] ELSE index
Traced(i) ==
  \E k \in DOMAIN trace :
    /\ trace[k].time <= times[i]
    /\ \A j \in (k + 1)..Len(trace) : trace[j].time > times[i]
    /\ ShowsOutputs(trace[k].state, i)

ParserInv ==
  /\ phase \notin {"stored", "viewed"} => row = 1 /\ t = 0 /\ trace = <<>>
  /\ Compiled /\ Fits =>
       /\ row \in 1..(Len(stream) + 1) /\ (phase = "viewed" => row = Len(stream) + 1)
       /\ t = Boundary(Reached)
       /\ \A i \in 1..(Reached - 1) : Traced(i)

IInv == TypeOK /\ ExperimentInv /\ PortInv /\ LoopInv /\ StoredInv

-----------------------------------------------------------------------------
(* Facts about the operators.                                              *)

\* Two is a divisor of the distance of two even numbers.
LEMMA EvenDistance ==
  \A a, b \in Nat : a % 2 = 0 /\ b % 2 = 0 /\ a < b => 2 * ((b - a) \div 2) = b - a
OBVIOUS

\* Intervals are at least one, end after they begin, and on the grid last a
\* positive number of ticks.
LEMMA IntervalFacts ==
  ASSUME TypeOK, ExperimentInv, times # <<>>
  PROVE  /\ Intervals \in Nat \ {0}
         /\ \A i \in 1..Intervals :
              /\ i \in 1..Len(times) /\ times[i] \in Nat
              /\ Boundary(i) = times[i] /\ Boundary(i + 1) \in Nat
              /\ times[i] < Boundary(i + 1) /\ Ticks(i) \in Nat
              /\ OnGrid => 2 * Ticks(i) = Boundary(i + 1) - times[i]
<1> DEFINE n == Len(times)
<1>1. n \in Nat \ {0} /\ times \in Seq(Nat)
  BY DEF TypeOK
<1>2. \A i \in 1..n : times[i] \in Nat
  BY <1>1
<1>3. Intervals \in Nat \ {0} /\ (n = 1 => Intervals = 1) /\ (n > 1 => Intervals = n - 1)
  BY <1>1 DEF Intervals
<1> HIDE DEF n
<1>8. n = 1 \/ n > 1
  BY <1>1
<1> SUFFICES ASSUME NEW i \in 1..Intervals
             PROVE  /\ i \in 1..n /\ times[i] \in Nat
                    /\ Boundary(i) = times[i] /\ Boundary(i + 1) \in Nat
                    /\ times[i] < Boundary(i + 1) /\ Ticks(i) \in Nat
                    /\ OnGrid => 2 * Ticks(i) = Boundary(i + 1) - times[i]
  BY <1>3 DEF n
<1>4. i \in 1..n
  BY <1>1, <1>3, <1>8
<1>5. Boundary(i) = times[i]
  BY <1>4, <1>1 DEF Boundary, n
<1>6. CASE n = 1
  <2>1. i = 1 /\ Boundary(i + 1) = times[1] + 2
    BY <1>6, <1>4 DEF Boundary, n
  <2>2. Ticks(i) = 1
    <3>1. (times[1] + 2) - times[1] = 2 /\ 2 \div 2 = 1
      BY <1>2, <1>4, <2>1
    <3> QED BY <3>1, <2>1 DEF Ticks
  <2> QED BY <2>1, <2>2, <1>2, <1>4, <1>5
<1>7. CASE n > 1
  <2>1. i + 1 \in 1..n /\ i < i + 1 /\ Boundary(i + 1) = times[i + 1]
    BY <1>7, <1>1, <1>3 DEF Boundary, n
  <2>2. times[i] \in Nat /\ times[i + 1] \in Nat /\ times[i] < times[i + 1]
    BY <2>1, <1>2, <1>4 DEF ExperimentInv, n
  <2>3. Ticks(i) \in Nat
    BY <2>1, <2>2 DEF Ticks
  <2>4. ASSUME OnGrid PROVE 2 * Ticks(i) = times[i + 1] - times[i]
    <3>1. times[i] % 2 = 0 /\ times[i + 1] % 2 = 0
      BY <2>4, <2>1, <1>4, <1>1 DEF OnGrid, n
    <3> QED BY <3>1, <2>1, <2>2, EvenDistance DEF Ticks
  <2> QED BY <2>1, <2>2, <2>3, <2>4, <1>4, <1>5
<1> QED BY <1>8, <1>6, <1>7

\* Boundaries are in order.
LEMMA BoundariesInOrder ==
  ASSUME TypeOK, ExperimentInv, times # <<>>,
         NEW i \in 1..Intervals, NEW j \in 1..Intervals, i <= j
  PROVE  times[i] < Boundary(j + 1)
<1>1. times[j] < Boundary(j + 1) /\ times[j] \in Nat /\ times[i] \in Nat
      /\ Boundary(j + 1) \in Nat /\ i \in 1..Len(times) /\ j \in 1..Len(times)
      /\ Intervals \in Nat
  BY IntervalFacts
<1>2. times[i] <= times[j]
  BY <1>1 DEF ExperimentInv
<1> QED BY <1>1, <1>2

\* A state that the bank keeps lasts less than the marker.
LEMMA ShorterThanMarker ==
  ASSUME TypeOK, ExperimentInv, times # <<>>, Fits,
         NEW i \in 1..Intervals, NEW j \in 1..Intervals, i <= j,
         \A k \in i..j : State(k) = State(i)
  PROVE  Boundary(j + 1) - times[i] < 2 * Marker.reps
<1>1. Boundary(j + 1) \in Nat /\ times[i] \in Nat
  BY IntervalFacts
<1>2. ~(Boundary(j + 1) - times[i] >= 2 * Marker.reps)
  BY DEF Fits
<1>3. Marker.reps \in Int
  BY ProgramAssumption DEF Marker
<1> QED BY <1>1, <1>2, <1>3

\* The experiment does not wait at its beginning.
LEMMA NoWaitAtFirst ==
  ASSUME TypeOK, ExperimentInv
  PROVE  ~WaitAt(1)
<1> SUFFICES ASSUME NEW w \in waits,
                    1 = w + Cardinality({v \in waits : v < w})
             PROVE  FALSE
  BY DEF WaitAt
<1>1. Len(times) \in Nat /\ w \in Nat /\ w >= 2
  BY DEF TypeOK, ExperimentInv
<1>2. IsFiniteSet(2..(Len(times) - 1))
  BY <1>1, FS_Interval
<1>3. IsFiniteSet({v \in waits : v < w})
  BY <1>2, FS_Subset DEF ExperimentInv
<1>4. Cardinality({v \in waits : v < w}) \in Nat
  BY <1>3, FS_CardinalityType
<1> QED BY <1>1, <1>4

\* The level of an output is that of its channel.
LEMMA StateShowsOutputs ==
  ASSUME TypeOK, PortInv, NEW i
  PROVE  ShowsOutputs(State(i), i)
BY ProgramAssumption DEF ShowsOutputs, State, PortInv

LEMMA StateType == \A i : State(i) \in SUBSET Channels
BY DEF State

LEMMA MarkerType == Marker \in Row /\ Marker.reps = RepModulus - 1 /\ Marker.reps \in Nat
BY ProgramAssumption DEF Marker, Row

LEMMA LongerRow ==
  ASSUME NEW r \in Row, NEW n \in Nat
  PROVE  [r EXCEPT !.reps = @ + n] \in Row
<1>1. r.reps \in Nat /\ r.state \in SUBSET Channels
  BY DEF Row
<1>2. r.reps + n \in Nat
  BY <1>1
<1>3. [r EXCEPT !.reps = @ + n] = [reps |-> r.reps + n, state |-> r.state]
  BY DEF Row
<1> QED BY <1>1, <1>2, <1>3 DEF Row

LEMMA InitIInv == Init => IInv
<1> SUFFICES ASSUME Init PROVE IInv
  OBVIOUS
<1>1. TypeOK
  BY ProgramAssumption DEF Init, TypeOK, NoMeta, Row
<1>2. ExperimentInv
  BY DEF Init, ExperimentInv
<1>3. PortInv
  BY DEF Init, PortInv
<1>4. LoopInv /\ StoredInv
  BY DEF Init, LoopInv, StoredInv, InLoop, Compiled
<1> QED BY <1>1, <1>2, <1>3, <1>4 DEF IInv

-----------------------------------------------------------------------------
(* Steps that leave the experiment and the loop alone.                     *)

LEMMA SameExperiment ==
  ASSUME UNCHANGED experiment
  PROVE  /\ Intervals' = Intervals /\ OnGrid' = OnGrid /\ Fits' = Fits
         /\ \A i : Boundary(i)' = Boundary(i) /\ State(i)' = State(i)
                   /\ WaitAt(i)' = WaitAt(i)
<1>1. Intervals' = Intervals /\ OnGrid' = OnGrid
  BY DEF experiment, Intervals, OnGrid
<1>2. \A i : Boundary(i)' = Boundary(i) /\ State(i)' = State(i)
  BY DEF experiment, Boundary, State
<1>3. \A i : WaitAt(i)' = WaitAt(i)
  BY DEF experiment, WaitAt
<1>4. times' = times
  BY DEF experiment
<1>5. Fits' = Fits
  BY <1>1, <1>2, <1>4 DEF Fits, Marker
<1> QED BY <1>1, <1>2, <1>3, <1>5

LEMMA SameLoop ==
  ASSUME UNCHANGED <<experiment, index, program, at>>
  PROVE  Loop' = Loop
<1>1. Intervals' = Intervals /\ (\A i : Boundary(i)' = Boundary(i) /\ State(i)' = State(i))
  BY SameExperiment
<1>2. times' = times /\ index' = index /\ program' = program /\ at' = at
  BY DEF experiment
<1>3. \A k : RowEnd(k)' = RowEnd(k)
  BY <1>2 DEF RowEnd
<1>4. \A k : IsPause(k)' = IsPause(k)
  BY <1>2, <1>3 DEF IsPause, Marker
<1>5. \A k : IsPlayed(k)' = IsPlayed(k)
  BY <1>1, <1>2, <1>3 DEF IsPlayed, Marker
<1> QED BY <1>1, <1>2, <1>4, <1>5 DEF Loop, Marker

-----------------------------------------------------------------------------
(* Every step keeps the invariant.                                         *)

\* A failed compilation leaves everything as it is.
LEMMA FailStep == IInv /\ Fail => IInv'
<1> SUFFICES ASSUME IInv, Fail PROVE IInv'
  OBVIOUS
<1>1. TypeOK'
  BY DEF IInv, TypeOK, Fail, experiment, parser
<1>2. ExperimentInv' /\ PortInv'
  BY DEF IInv, ExperimentInv, PortInv, Fail, experiment
<1>3. LoopInv' /\ StoredInv'
  BY DEF Fail, LoopInv, StoredInv, InLoop, Compiled
<1> QED BY <1>1, <1>2, <1>3 DEF IInv

LEMMA ConnectStep ==
  ASSUME IInv, NEW o \in Outputs, NEW c \in Connections, Connect(o, c)
  PROVE  IInv'
<1>1. TypeOK'
  BY DEF IInv, TypeOK, Connect, parser, IsChannel
<1>2. ExperimentInv'
  BY DEF IInv, ExperimentInv, Connect, OnGrid
<1>3. PortInv'
  <2> SUFFICES ASSUME NEW p \in Outputs, port'[p] # NoConnection
               PROVE  port'[p].index \in Channels /\ connected'[port'[p].index] = p
    BY DEF PortInv
  <2>1. CASE p = o
    BY <2>1 DEF IInv, TypeOK, Connect, IsChannel
  <2>2. CASE p # o
    <3>1. port'[p] = port[p] /\ port[p].index \in Channels /\ connected[port[p].index] = p
      BY <2>2 DEF IInv, TypeOK, PortInv, Connect
    <3>2. port[p].index # c.index
      BY <3>1, ProgramAssumption DEF Connect
    <3> QED BY <3>1, <3>2 DEF IInv, TypeOK, Connect, IsChannel
  <2> QED BY <2>1, <2>2
<1>4. LoopInv' /\ StoredInv'
  BY DEF IInv, LoopInv, StoredInv, InLoop, Compiled, Connect
<1> QED BY <1>1, <1>2, <1>3, <1>4 DEF IInv

LEMMA CollectStep == IInv /\ Collect => IInv'
<1> SUFFICES ASSUME IInv, Collect PROVE IInv'
  OBVIOUS
<1>1. PICK n \in 0..MaxChanges :
        /\ times' \in [1..n -> Times]
        /\ n > 0 => times'[1] = 0
        /\ \A i, j \in 1..n : i < j => times'[i] < times'[j]
        /\ high' \in [Outputs -> SUBSET (1..n)]
        /\ waits' \in SUBSET (2..(n - 1))
  BY DEF Collect
<1>2. n \in Nat /\ Times \subseteq Nat
  BY ProgramAssumption
<1>3. times' \in Seq(Nat) /\ Len(times') = n
  <2>1. times' \in [1..n -> Nat]
    BY <1>1, <1>2
  <2> QED BY <2>1, <1>2
<1>4. TypeOK'
  <2>1. high' \in [Outputs -> SUBSET Nat] /\ waits' \subseteq Nat
    BY <1>1, <1>2
  <2> QED BY <1>3, <2>1 DEF IInv, TypeOK, Collect, parser
<1>5. ExperimentInv'
  BY <1>1, <1>3 DEF ExperimentInv, Collect
<1>6. PortInv'
  BY DEF IInv, PortInv, Collect
<1>7. LoopInv' /\ StoredInv'
  BY DEF IInv, LoopInv, StoredInv, InLoop, Compiled, Collect
<1> QED BY <1>4, <1>5, <1>6, <1>7 DEF IInv

LEMMA CompileEmptyStep == IInv /\ CompileEmpty => IInv'
<1> SUFFICES ASSUME IInv, CompileEmpty PROVE IInv'
  OBVIOUS
<1>1. TypeOK'
  BY DEF IInv, TypeOK, CompileEmpty, experiment, parser
<1>2. ExperimentInv' /\ PortInv'
  BY DEF IInv, ExperimentInv, PortInv, CompileEmpty, experiment
<1>3. LoopInv' /\ StoredInv'
  BY DEF CompileEmpty, LoopInv, StoredInv, InLoop, Compiled, experiment
<1> QED BY <1>1, <1>2, <1>3 DEF IInv

LEMMA ValidatedStep == IInv /\ Validated => IInv'
<1> SUFFICES ASSUME IInv, Validated PROVE IInv'
  OBVIOUS
<1>1. TypeOK'
  BY DEF IInv, TypeOK, Validated, experiment, parser
<1>2. ExperimentInv' /\ PortInv'
  <2>1. OnGrid'
    BY SameExperiment DEF Validated
  <2> QED BY <2>1 DEF IInv, ExperimentInv, PortInv, Validated, experiment
<1>3. index = 1 /\ program = <<>> /\ at = <<>> /\ Intervals \in Nat \ {0}
  BY IntervalFacts DEF IInv, Validated, LoopInv
<1>4. Loop'
  BY <1>3 DEF Loop, Validated
<1>5. LoopInv' /\ StoredInv'
  BY <1>3, <1>4, SameExperiment DEF Validated, LoopInv, StoredInv, Compiled
<1> QED BY <1>1, <1>2, <1>5 DEF IInv

\* Every row is of the type of a row, whether its duration fits or not.
LEMMA AppendRowTypes == IInv /\ AppendRow => TypeOK'
<1> SUFFICES ASSUME IInv, AppendRow PROVE TypeOK'
  OBVIOUS
<1> USE DEF IInv
<1>1. program \in Seq(Row) /\ at \in Seq(Nat) /\ index \in Nat \ {0}
      /\ State(index) \in SUBSET Channels
  BY StateType DEF TypeOK
<1>2. PICK rep \in Cast(Ticks(index)) :
        LET rows == Marked(program)
            begins == IF WaitAt(index) THEN Append(at, index) ELSE at
        IN CASE rep = 0 -> program' = rows /\ at' = begins
             [] rep > 0 /\ Merges(rows) ->
                  /\ program' = [rows EXCEPT ![Len(rows)].reps = @ + rep]
                  /\ at' = begins
             [] OTHER ->
                  /\ program' = Append(rows, [reps |-> rep, state |-> State(index)])
                  /\ at' = Append(begins, index)
  BY DEF AppendRow
<1> DEFINE rows == Marked(program)
           begins == IF WaitAt(index) THEN Append(at, index) ELSE at
<1>3. rep \in Nat
  <2>1. index \in 1..Intervals /\ times # <<>>
    BY IntervalFacts DEF AppendRow, LoopInv, InLoop, ExperimentInv
  <2>2. Ticks(index) \in Nat
    BY <2>1, IntervalFacts
  <2> QED BY <2>2, ProgramAssumption DEF Cast
<1>4. rows \in Seq(Row) /\ begins \in Seq(Nat)
  BY <1>1, MarkerType DEF Marked
<1>5. [reps |-> rep, state |-> State(index)] \in Row
  BY <1>1, <1>3 DEF Row
<1> HIDE DEF rows, begins
<1>6. program' \in Seq(Row) /\ at' \in Seq(Nat)
  <2>1. CASE rep = 0
    <3>1. program' = rows /\ at' = begins
      BY <2>1, <1>2 DEF rows, begins
    <3> QED BY <3>1, <1>4
  <2>2. CASE rep > 0 /\ Merges(rows)
    <3>1. program' = [rows EXCEPT ![Len(rows)].reps = @ + rep] /\ at' = begins
      BY <2>2, <1>2, <1>3 DEF rows, begins
    <3>2. Len(rows) \in 1..Len(rows)
      BY <2>2, <1>4 DEF Merges
    <3> DEFINE last == rows[Len(rows)]
    <3>3. last \in Row
      BY <3>2, <1>4
    <3>4. [last EXCEPT !.reps = @ + rep] \in Row
      BY <3>3, <1>3, LongerRow
    <3> QED BY <3>1, <3>2, <3>4, <1>4
  <2>3. CASE rep > 0 /\ ~Merges(rows)
    <3>1. /\ program' = Append(rows, [reps |-> rep, state |-> State(index)])
          /\ at' = Append(begins, index)
      BY <2>3, <1>2, <1>3 DEF rows, begins
    <3> QED BY <3>1, <1>1, <1>4, <1>5
  <2> QED BY <2>1, <2>2, <2>3, <1>3
<1>7. index' = index + 1 /\ UNCHANGED <<phase, experiment, stream, meta, parser>>
  BY DEF AppendRow
<1> QED BY <1>1, <1>6, <1>7 DEF TypeOK, experiment, parser

\* Where every duration fits, the row of the next interval lasts as long as the
\* interval, and is no marker.
LEMMA RowAppended ==
  ASSUME IInv, AppendRow, Fits
  PROVE  LET rep == Ticks(index)
             new == [reps |-> rep, state |-> State(index)]
             rows == Marked(program)
             begins == IF WaitAt(index) THEN Append(at, index) ELSE at
         IN /\ TypeOK /\ ExperimentInv /\ Loop /\ OnGrid /\ times # <<>>
            /\ index \in 1..Intervals /\ Intervals \in Nat \ {0} /\ index' = index + 1
            /\ UNCHANGED experiment
            /\ times[index] \in Nat /\ Boundary(index) = times[index]
            /\ Boundary(index + 1) \in Nat /\ times[index] < Boundary(index + 1)
            /\ rep \in Nat /\ 2 * rep = Boundary(index + 1) - times[index]
            /\ rep > 0 /\ rep < Marker.reps
            /\ new \in Row /\ new # Marker /\ new.reps = rep /\ new.state = State(index)
            /\ IF Merges(rows)
                 THEN /\ program' = [rows EXCEPT ![Len(rows)].reps = @ + rep]
                      /\ at' = begins
                 ELSE /\ program' = Append(rows, new)
                      /\ at' = Append(begins, index)
<1> DEFINE rep == Ticks(index)
           new == [reps |-> rep, state |-> State(index)]
<1>1. /\ TypeOK /\ ExperimentInv /\ Loop /\ OnGrid /\ times # <<>>
      /\ index \in 1..Intervals /\ Intervals \in Nat \ {0} /\ index' = index + 1
      /\ UNCHANGED experiment
  BY IntervalFacts DEF IInv, AppendRow, LoopInv, InLoop, ExperimentInv
<1>2. /\ times[index] \in Nat /\ Boundary(index) = times[index]
      /\ Boundary(index + 1) \in Nat /\ times[index] < Boundary(index + 1)
      /\ rep \in Nat /\ 2 * rep = Boundary(index + 1) - times[index]
  BY <1>1, IntervalFacts
<1>3. rep > 0 /\ rep < Marker.reps
  <2>1. \A k \in index..index : State(k) = State(index)
    BY <1>1
  <2>2. Boundary(index + 1) - times[index] < 2 * Marker.reps
    BY <1>1, <2>1, ShorterThanMarker
  <2> QED BY <2>2, <1>2, MarkerType
<1>4. new \in Row /\ new # Marker /\ new.reps = rep /\ new.state = State(index)
  BY <1>2, <1>3, StateType DEF Row
<1>5. LET rows == Marked(program)
          begins == IF WaitAt(index) THEN Append(at, index) ELSE at
      IN IF Merges(rows)
           THEN /\ program' = [rows EXCEPT ![Len(rows)].reps = @ + rep]
                /\ at' = begins
           ELSE /\ program' = Append(rows, new)
                /\ at' = Append(begins, index)
  <2>1. Cast(rep) = {rep}
    BY <1>2, <1>3, MarkerType, ProgramAssumption DEF Cast
  <2>2. PICK r \in Cast(rep) :
          LET rows == Marked(program)
              begins == IF WaitAt(index) THEN Append(at, index) ELSE at
          IN CASE r = 0 -> program' = rows /\ at' = begins
               [] r > 0 /\ Merges(rows) ->
                    /\ program' = [rows EXCEPT ![Len(rows)].reps = @ + r]
                    /\ at' = begins
               [] OTHER ->
                    /\ program' = Append(rows, [reps |-> r, state |-> State(index)])
                    /\ at' = Append(begins, index)
    BY DEF AppendRow
  <2>3. r = rep /\ r > 0 /\ r # 0
    BY <1>2, <1>3, <2>1
  <2> QED BY <2>2, <2>3
<1> QED BY <1>1, <1>2, <1>3, <1>4, <1>5

\* Where every duration fits, a row is appended or made longer by the interval that
\* follows it; the rows before it keep their beginnings and their ends.
LEMMA AppendRowLoop == IInv /\ AppendRow /\ Fits => Loop'
<1> SUFFICES ASSUME IInv, AppendRow, Fits PROVE Loop'
  OBVIOUS
<1> DEFINE rep == Ticks(index)
           new == [reps |-> rep, state |-> State(index)]
<1>0. PICK N \in Nat : Len(program) = N
  BY DEF IInv, TypeOK
<1>1. /\ TypeOK /\ ExperimentInv /\ Loop /\ OnGrid /\ times # <<>>
      /\ index \in 1..Intervals /\ Intervals \in Nat \ {0} /\ index' = index + 1
      /\ UNCHANGED experiment
  BY RowAppended
<1>2. /\ program \in Seq(Row) /\ at \in Seq(Nat) /\ N \in Nat /\ Len(at) = N
      /\ \A k \in 1..N : program[k] \in Row /\ at[k] \in 1..Intervals
  <2>1. program \in Seq(Row) /\ at \in Seq(Nat)
    BY <1>1 DEF TypeOK
  <2>2. Len(at) = N /\ \A k \in DOMAIN at : at[k] \in 1..Intervals
    BY <1>0, <1>1 DEF Loop
  <2> QED BY <2>1, <2>2, <1>0
<1>3. /\ times[index] \in Nat /\ Boundary(index) = times[index]
      /\ Boundary(index + 1) \in Nat /\ times[index] < Boundary(index + 1)
      /\ rep \in Nat /\ 2 * rep = Boundary(index + 1) - times[index]
  BY RowAppended
<1>4. rep > 0 /\ rep < Marker.reps
  BY RowAppended
<1>5. /\ Intervals' = Intervals
      /\ \A i : Boundary(i)' = Boundary(i) /\ State(i)' = State(i)
      /\ times' = times
  BY <1>1, SameExperiment DEF experiment
<1>6. new \in Row /\ new # Marker /\ new.reps = rep /\ new.state = State(index)
  BY RowAppended
<1>7. LET rows == Marked(program)
          begins == IF WaitAt(index) THEN Append(at, index) ELSE at
      IN IF Merges(rows)
           THEN /\ program' = [rows EXCEPT ![Len(rows)].reps = @ + rep]
                /\ at' = begins
           ELSE /\ program' = Append(rows, new)
                /\ at' = Append(begins, index)
  BY RowAppended
<1>8. index > 1 => /\ N >= 1 /\ at[1] = 1 /\ program[1] # Marker /\ IsPlayed(N)
                   /\ program[N] # Marker
  BY <1>0, <1>1, <1>2, MarkerType DEF Loop, IsPlayed
<1>9. index = 1 => N = 0 /\ ~WaitAt(index)
  BY <1>0, <1>1, NoWaitAtFirst DEF Loop
<1>10. SUFFICES /\ Len(at') = Len(program') /\ Len(program') \in Nat \ {0}
                /\ \A k \in 1..Len(at') : at'[k] \in 1..Intervals
                /\ at'[1] = 1 /\ program'[1] # Marker
                /\ IsPlayed(Len(program))'
                /\ \A k \in 1..Len(program') : IsPause(k)' \/ IsPlayed(k)'
                /\ program' \in Seq(Row) /\ at' \in Seq(Nat)
  <2>1. DOMAIN at' = 1..Len(at') /\ DOMAIN program' = 1..Len(program') /\ program' # <<>>
    BY <1>10
  <2>2. index' > 1
    BY <1>1
  <2> QED BY <1>10, <2>1, <2>2, <1>5 DEF Loop, Marker
<1> HIDE DEF rep, new
<1>14. ASSUME NEW k \in 1..N, program'[k] = program[k], at'[k] = at[k],
              RowEnd(k)' = RowEnd(k)
       PROVE  IsPause(k)' \/ IsPlayed(k)'
  <2>1. IsPause(k) \/ IsPlayed(k)
    BY <1>0, <1>1, <1>2 DEF Loop
  <2>2. CASE IsPause(k)
    BY <2>2, <1>14 DEF IsPause, Marker
  <2>3. CASE IsPlayed(k)
    <3>1. RowEnd(k) \in Nat
      BY <1>1, <1>2 DEF RowEnd
    <3>2. RowEnd(k) <= index'
      BY <2>3, <3>1, <1>1 DEF IsPlayed
    <3> QED BY <2>3, <3>2, <1>5, <1>14 DEF IsPlayed, Marker
  <2> QED BY <2>1, <2>2, <2>3
<1>15. ASSUME NEW k, program'[k] = new, at'[k] = index, k = Len(at')
       PROVE  IsPlayed(k)'
  <2>1. RowEnd(k)' = index + 1 /\ index < index + 1 /\ index' = index + 1
    BY <1>1, <1>15 DEF RowEnd
  <2>2. 2 * program'[k].reps = Boundary(RowEnd(k))' - times'[at'[k]]
    BY <2>1, <1>3, <1>5, <1>6, <1>15
  <2>3. \A j \in at'[k]..(RowEnd(k)' - 1) : program'[k].state = State(j)'
    BY <2>1, <1>1, <1>5, <1>6, <1>15
  <2> QED BY <2>1, <2>2, <2>3, <1>4, <1>6, <1>15 DEF IsPlayed, Marker
\* A marker and a row, the marker where the row begins.
<1>11. CASE WaitAt(index)
  <2>1. ~Merges(Marked(program)) /\ Marked(program) = Append(program, Marker)
    BY <1>0, <1>11, <1>2, MarkerType DEF Merges, Marked, Last
  <2>2. /\ program' = Append(Append(program, Marker), new)
        /\ at' = Append(Append(at, index), index)
    BY <2>1, <1>7, <1>11
  <2>3. /\ Len(program') = N + 2 /\ Len(at') = N + 2
        /\ \A k \in 1..N : program'[k] = program[k] /\ at'[k] = at[k]
        /\ program'[N + 1] = Marker /\ at'[N + 1] = index
        /\ program'[N + 2] = new /\ at'[N + 2] = index
        /\ program' \in Seq(Row) /\ at' \in Seq(Nat)
    <3>1. /\ Append(program, Marker) \in Seq(Row) /\ Append(at, index) \in Seq(Nat)
          /\ Len(Append(program, Marker)) = N + 1 /\ Len(Append(at, index)) = N + 1
      BY <1>0, <1>1, <1>2, MarkerType
    <3>2. /\ \A k \in 1..N : Append(program, Marker)[k] = program[k]
                            /\ Append(at, index)[k] = at[k]
          /\ Append(program, Marker)[N + 1] = Marker /\ Append(at, index)[N + 1] = index
      BY <1>0, <1>1, <1>2, MarkerType
    <3> QED BY <3>1, <3>2, <2>2, <1>0, <1>1, <1>6
  <2>4. index > 1
    BY <1>9, <1>11, <1>1
  <2>5. \A k \in 1..N : RowEnd(k)' = RowEnd(k)
    BY <2>3, <1>2 DEF RowEnd
  <2>6. IsPause(N + 1)'
    BY <2>3, <1>2 DEF IsPause, RowEnd, Marker
  <2>7. IsPlayed(N + 2)'
    BY <2>3, <1>15
  <2>8. \A k \in 1..N : IsPause(k)' \/ IsPlayed(k)'
    BY <2>3, <2>5, <1>14
  <2>9. /\ \A k \in 1..(N + 2) : k \in 1..N \/ k = N + 1 \/ k = N + 2
        /\ N + 2 \in Nat \ {0} /\ (N >= 1 => 1 \in 1..N)
    BY <1>0
  <2>10. Len(program') = Len(at') /\ IsPlayed(Len(program))'
    BY <2>3, <2>7
  <2> QED BY <2>3, <2>4, <2>6, <2>8, <2>9, <2>10, <2>7, <1>1, <1>2, <1>8
\* The last row plays this interval, too.
<1>12. CASE ~WaitAt(index) /\ Merges(program)
  <2> DEFINE longer == [program[N] EXCEPT !.reps = @ + rep]
  <2>1. Marked(program) = program
    BY <1>12 DEF Marked
  <2>2. index > 1 /\ N \in 1..N /\ program[N].state = State(index)
    BY <1>0, <1>12, <1>1, <1>2, <1>9 DEF Merges, Last
  <2>3. program' = [program EXCEPT ![N].reps = @ + rep] /\ at' = at
    BY <1>0, <1>7, <1>12, <2>1
  <2>4. longer \in Row /\ longer.reps = program[N].reps + rep /\ longer.state = State(index)
    BY <2>2, <1>2, <1>3, LongerRow DEF Row
  <2>5. /\ Len(program') = N /\ program'[N] = longer /\ program' \in Seq(Row)
        /\ \A k \in 1..N : k # N => program'[k] = program[k]
    BY <1>0, <2>2, <2>3, <2>4, <1>2
  <2>6. RowEnd(N) = index /\ RowEnd(N)' = index + 1
    BY <2>3, <1>1, <1>2 DEF RowEnd
  <2>7. /\ at[N] < index /\ 2 * program[N].reps = times[index] - times[at[N]]
        /\ \A j \in at[N]..(index - 1) : program[N].state = State(j)
    BY <2>2, <2>6, <1>3, <1>8 DEF IsPlayed
  <2>8. /\ at[N] \in 1..Intervals /\ times[at[N]] \in Nat /\ program[N].reps \in Nat
    BY <2>2, <1>1, <1>2, IntervalFacts DEF Row
  <2> HIDE DEF longer
  <2>9. 2 * longer.reps = Boundary(index + 1) - times[at[N]]
    BY <2>4, <2>7, <2>8, <1>3
  <2>10. \A j \in at[N]..index : longer.state = State(j)
    BY <2>2, <2>4, <2>7, <2>8, <1>1
  <2>11. longer.reps < Marker.reps
    <3>1. \A j \in at[N]..index : State(j) = State(at[N])
      BY <2>10, <2>7, <2>8, <1>1
    <3>2. at[N] \in 1..Intervals /\ at[N] <= index
      BY <2>7, <2>8, <1>1
    <3>3. Boundary(index + 1) - times[at[N]] < 2 * Marker.reps
      BY <3>1, <3>2, <1>1, ShorterThanMarker
    <3> QED BY <3>3, <2>9, <2>4, <2>8, <1>3, MarkerType
  <2>12. IsPlayed(N)'
    <3>1. /\ at'[N] = at[N] /\ at[N] < index + 1 /\ index' = index + 1
          /\ (index + 1) - 1 = index
      BY <2>3, <2>7, <2>8, <1>1
    <3> QED BY <3>1, <2>5, <2>6, <2>9, <2>10, <2>11, <1>5 DEF IsPlayed, Marker
  <2>13. \A k \in 1..N : k # N => IsPause(k)' \/ IsPlayed(k)'
    <3>1. \A k \in 1..N : k # N => RowEnd(k)' = RowEnd(k)
      BY <2>3, <1>2 DEF RowEnd
    <3> QED BY <3>1, <2>3, <2>5, <1>14
  <2>14. program'[1] # Marker
    BY <2>2, <2>5, <2>11, <1>8, MarkerType
  <2> QED BY <2>2, <2>3, <2>5, <2>12, <2>13, <2>14, <1>1, <1>2, <1>8
\* A row of its own.
<1>13. CASE ~WaitAt(index) /\ ~Merges(program)
  <2>1. Marked(program) = program
    BY <1>13 DEF Marked
  <2>2. program' = Append(program, new) /\ at' = Append(at, index)
    BY <2>1, <1>7, <1>13
  <2>3. /\ Len(program') = N + 1 /\ Len(at') = N + 1
        /\ \A k \in 1..N : program'[k] = program[k] /\ at'[k] = at[k]
        /\ program'[N + 1] = new /\ at'[N + 1] = index
        /\ program' \in Seq(Row) /\ at' \in Seq(Nat)
    BY <1>0, <2>2, <1>1, <1>2, <1>6
  <2>4. ASSUME NEW k \in 1..N PROVE RowEnd(k)' = RowEnd(k)
    <3>1. k \in Nat /\ k < Len(at') /\ Len(at) = N
      BY <2>3, <1>2
    <3>2. RowEnd(k)' = at'[k + 1]
      BY <3>1 DEF RowEnd
    <3>3. CASE k = N
      BY <3>1, <3>2, <3>3, <2>3 DEF RowEnd
    <3>4. CASE k # N
      <4>1. k + 1 \in 1..N /\ k < Len(at)
        BY <3>1, <3>4
      <4> QED BY <3>2, <4>1, <2>3 DEF RowEnd
    <3> QED BY <3>3, <3>4
  <2>5. IsPlayed(N + 1)'
    BY <2>3, <1>15
  <2>6. \A k \in 1..N : IsPause(k)' \/ IsPlayed(k)'
    BY <2>3, <2>4, <1>14
  <2>7. at'[1] = 1 /\ program'[1] # Marker
    <3>1. CASE index = 1
      BY <3>1, <2>3, <1>6, <1>9
    <3>2. CASE index > 1
      BY <3>2, <2>3, <1>2, <1>8
    <3> QED BY <3>1, <3>2, <1>1
  <2>8. (\A k \in 1..(N + 1) : k \in 1..N \/ k = N + 1) /\ N + 1 \in Nat \ {0}
    BY <1>0
  <2> QED BY <2>3, <2>5, <2>6, <2>7, <2>8, <1>1, <1>2
<1> QED BY <1>11, <1>12, <1>13

LEMMA AppendRowStep == IInv /\ AppendRow => IInv'
<1> SUFFICES ASSUME IInv, AppendRow PROVE IInv'
  OBVIOUS
<1>1. TypeOK'
  BY AppendRowTypes
<1>2. ExperimentInv' /\ PortInv'
  BY DEF IInv, ExperimentInv, PortInv, AppendRow, experiment, OnGrid
<1>3. times # <<>> /\ Intervals \in Nat /\ Intervals' = Intervals /\ Fits' = Fits
  BY IntervalFacts, SameExperiment DEF IInv, ExperimentInv, AppendRow
<1>4. index' \in 1..(Intervals + 1)
  <2>1. index \in Nat \ {0} /\ index <= Intervals /\ index' = index + 1
    BY DEF IInv, TypeOK, AppendRow
  <2> QED BY <2>1, <1>3
<1>5. LoopInv' /\ StoredInv'
  BY <1>3, <1>4, AppendRowLoop DEF AppendRow, LoopInv, StoredInv, Compiled
<1> QED BY <1>1, <1>2, <1>5 DEF IInv

\* A number of intervals is a number.
LEMMA WaitCountType ==
  ASSUME TypeOK, ExperimentInv, times # <<>>
  PROVE  Cardinality({i \in 1..Intervals : WaitAt(i)}) \in Nat
<1>1. IsFiniteSet(1..Intervals)
  BY IntervalFacts, FS_Interval
<1>2. IsFiniteSet({i \in 1..Intervals : WaitAt(i)})
  BY <1>1, FS_Subset
<1> QED BY <1>2, FS_CardinalityType

\* A number that fits is stored as it is.
LEMMA CutKeeps ==
  /\ \A n \in Nat : Cut(n) \in 0..(RepModulus - 1)
  /\ \A n \in Nat : n < RepModulus => Cut(n) = n
BY ProgramAssumption DEF Cut

LEMMA StoreStep == IInv /\ Store => IInv'
<1> SUFFICES ASSUME IInv, Store PROVE IInv'
  OBVIOUS
<1>1. /\ TypeOK /\ ExperimentInv /\ times # <<>> /\ index = Intervals + 1
      /\ program \in Seq(Row) /\ UNCHANGED experiment
  <2>1. TypeOK /\ ExperimentInv /\ times # <<>> /\ UNCHANGED experiment
    BY DEF IInv, ExperimentInv, Store, AllRows
  <2>2. index \in 1..(Intervals + 1) /\ index > Intervals /\ Intervals \in Nat
    BY <2>1, IntervalFacts DEF IInv, LoopInv, InLoop, Store, AllRows
  <2>3. program \in Seq(Row)
    BY <2>1 DEF TypeOK
  <2> QED BY <2>1, <2>2, <2>3
<1>2. stream' = [k \in 1..Len(program) |-> [program[k] EXCEPT !.reps = Cut(@)]]
  BY <1>1 DEF Store
<1>3. \A k \in 1..Len(program) :
        /\ program[k].reps \in Nat /\ program[k].state \in SUBSET Channels
        /\ stream'[k] = [reps |-> Cut(program[k].reps), state |-> program[k].state]
        /\ program[k] = [reps |-> program[k].reps, state |-> program[k].state]
  <2> SUFFICES ASSUME NEW k \in 1..Len(program)
               PROVE  /\ program[k].reps \in Nat /\ program[k].state \in SUBSET Channels
                      /\ stream'[k] = [reps |-> Cut(program[k].reps), state |-> program[k].state]
                      /\ program[k] = [reps |-> program[k].reps, state |-> program[k].state]
    OBVIOUS
  <2>1. program[k] \in Row
    BY <1>1
  <2>2. stream'[k] = [program[k] EXCEPT !.reps = Cut(@)]
    BY <1>2
  <2> QED BY <2>1, <2>2 DEF Row
<1>4. TypeOK'
  <2>1. stream' \in Seq([reps : 0..(RepModulus - 1), state : SUBSET Channels])
    <3>1. \A k \in 1..Len(program) :
            stream'[k] \in [reps : 0..(RepModulus - 1), state : SUBSET Channels]
      <4> SUFFICES ASSUME NEW k \in 1..Len(program)
                   PROVE  stream'[k] \in [reps : 0..(RepModulus - 1), state : SUBSET Channels]
        OBVIOUS
      <4>1. Cut(program[k].reps) \in 0..(RepModulus - 1)
        BY <1>3, CutKeeps
      <4>2. program[k].state \in SUBSET Channels
            /\ stream'[k] = [reps |-> Cut(program[k].reps), state |-> program[k].state]
        BY <1>3
      <4> QED BY <4>1, <4>2
    <3> QED BY <3>1, <1>1, <1>2
  <2>2. meta' \in [stop_time : Nat, wait_count : Nat,
                   active_mask : SUBSET Channels, final_mask : SUBSET Channels]
    <3>1. Intervals \in 1..Intervals /\ 1 \in 1..Intervals
      BY <1>1, IntervalFacts
    <3>2. times[1] \in Nat /\ Boundary(Intervals + 1) \in Nat
          /\ times[1] < Boundary(Intervals + 1)
      BY <1>1, <3>1, IntervalFacts, BoundariesInOrder
    <3>3. Boundary(Intervals + 1) - times[1] \in Nat
      BY <3>2
    <3>4. Cardinality({i \in 1..Intervals : WaitAt(i)}) \in Nat
      BY <1>1, WaitCountType
    <3> QED BY <3>3, <3>4 DEF Store, Metadata, FinalState
  <2>3. phase' = "stored" /\ UNCHANGED <<experiment, index, program, at, parser>>
    BY DEF Store
  <2> QED BY <2>1, <2>2, <2>3, <1>1 DEF TypeOK, experiment, parser
<1>5. ExperimentInv' /\ PortInv'
  BY DEF IInv, ExperimentInv, PortInv, Store, experiment
<1>6. LoopInv'
  BY SameExperiment, SameLoop DEF IInv, LoopInv, InLoop, Store, AllRows
<1>7. StoredInv'
  <2>1. ASSUME Fits PROVE stream' = program
    <3>1. \A k \in 1..Len(program) : program[k].reps < RepModulus
      <4>1. \A k \in 1..Len(program) : IsPause(k) \/ IsPlayed(k)
        BY <1>1, <2>1 DEF IInv, LoopInv, InLoop, Store, AllRows, Loop
      <4>2. \A k \in 1..Len(program) :
              program[k].reps \in Nat
              /\ (program[k].reps = Marker.reps \/ program[k].reps < Marker.reps)
        BY <4>1, <1>3 DEF IsPause, IsPlayed
      <4>3. RepModulus \in Nat /\ Marker.reps = RepModulus - 1
        BY MarkerType, ProgramAssumption
      <4> QED BY <4>2, <4>3
    <3>2. \A k \in 1..Len(program) : stream'[k] = program[k]
      BY <3>1, <1>3, CutKeeps
    <3> QED BY <3>2, <1>1, <1>2
  <2> QED BY <2>1, <1>1, SameExperiment DEF StoredInv, Store
<1> QED BY <1>4, <1>5, <1>6, <1>7 DEF IInv

LEMMA ParseRowStep == IInv /\ ParseRow => IInv'
<1> SUFFICES ASSUME IInv, ParseRow PROVE IInv'
  OBVIOUS
<1>1. TypeOK'
  <2> DEFINE n == 2 * stream[row].reps
             entry == [time |-> t, state |-> stream[row].state]
             StoredRow == [reps : 0..(RepModulus - 1), state : SUBSET Channels]
             Entry == [time : Nat, state : SUBSET Channels]
  <2>1. /\ TypeOK /\ row \in 1..Len(stream) /\ t \in Nat
        /\ stream \in Seq(StoredRow) /\ trace \in Seq(Entry)
    BY DEF IInv, TypeOK, ParseRow
  <2>2. stream[row] \in StoredRow
    <3> HIDE DEF StoredRow
    <3> QED BY <2>1
  <2>3. n \in Nat /\ stream[row].state \in SUBSET Channels
    BY <2>2, ProgramAssumption
  <2>4. entry \in Entry
    BY <2>1, <2>3
  <2>5. (t' = t /\ trace' = trace) \/ (t' = t + n /\ trace' = Append(trace, entry))
    BY DEF ParseRow
  <2>6. row' = row + 1 /\ UNCHANGED <<phase, experiment, index, program, at, stream, meta>>
    BY DEF ParseRow
  <2> HIDE DEF n, entry
  <2>7. t' \in Nat /\ trace' \in Seq(Entry)
    <3> HIDE DEF Entry
    <3>1. t' \in Nat
      BY <2>1, <2>3, <2>5
    <3>2. Append(trace, entry) \in Seq(Entry)
      BY <2>1, <2>4
    <3> QED BY <3>1, <3>2, <2>1, <2>5
  <2> QED BY <2>1, <2>6, <2>7 DEF TypeOK, experiment
<1>2. ExperimentInv' /\ PortInv'
  BY DEF IInv, ExperimentInv, PortInv, ParseRow, experiment, OnGrid
<1>3. LoopInv' /\ StoredInv'
  BY SameExperiment, SameLoop
     DEF IInv, LoopInv, StoredInv, InLoop, Compiled, ParseRow, experiment
<1> QED BY <1>1, <1>2, <1>3 DEF IInv

LEMMA ParserReturnsStep == IInv /\ ParserReturns => IInv'
<1> SUFFICES ASSUME IInv, ParserReturns PROVE IInv'
  OBVIOUS
<1>1. TypeOK'
  <2> DEFINE Entry == [time : Nat, state : SUBSET Channels]
             first == [time |-> 0, state |-> {}]
  <2>1. TypeOK /\ trace \in Seq(Entry)
    BY DEF IInv, TypeOK
  <2>2. first \in Entry
    OBVIOUS
  <2>3. trace' = trace \/ trace' = <<first>>
    BY DEF ParserReturns
  <2>4. trace' \in Seq(Entry)
    <3> HIDE DEF Entry, first
    <3> QED BY <2>1, <2>2, <2>3
  <2>5. phase' = "viewed"
        /\ UNCHANGED <<experiment, index, program, at, stream, meta, row, t>>
    BY DEF ParserReturns
  <2> QED BY <2>1, <2>4, <2>5 DEF TypeOK, experiment
<1>2. ExperimentInv' /\ PortInv'
  BY DEF IInv, ExperimentInv, PortInv, ParserReturns, experiment
<1>3. LoopInv' /\ StoredInv'
  BY SameExperiment, SameLoop
     DEF IInv, LoopInv, StoredInv, InLoop, Compiled, ParserReturns, experiment
<1> QED BY <1>1, <1>2, <1>3 DEF IInv

LEMMA NextIInv == IInv /\ [Next]_vars => IInv'
<1> SUFFICES ASSUME IInv, [Next]_vars PROVE IInv'
  OBVIOUS
<1>1. ASSUME NEW o \in Outputs, NEW c \in Connections, Connect(o, c) PROVE IInv'
  BY <1>1, ConnectStep
<1>2. ASSUME NEW o \in Outputs, NEW c \in Connections, ConnectionRefused(o, c) PROVE IInv'
  BY <1>2, FailStep DEF ConnectionRefused
<1>3. CASE Collect
  BY <1>3, CollectStep
<1>4. CASE CompileEmpty
  BY <1>4, CompileEmptyStep
<1>5. CASE Validated
  BY <1>5, ValidatedStep
<1>6. CASE OffGrid \/ TooManyInstructions \/ MergedTooLong
  BY <1>6, FailStep DEF OffGrid, TooManyInstructions, MergedTooLong
<1>7. CASE AppendRow
  BY <1>7, AppendRowStep
<1>8. CASE Store
  BY <1>8, StoreStep
<1>9. CASE ParseRow
  BY <1>9, ParseRowStep
<1>10. CASE ParserReturns
  BY <1>10, ParserReturnsStep
<1>11. CASE UNCHANGED vars
  <2>1. TypeOK' /\ ExperimentInv' /\ PortInv'
    BY <1>11 DEF IInv, TypeOK, ExperimentInv, PortInv, OnGrid, vars, experiment, parser
  <2>2. LoopInv' /\ StoredInv'
    BY <1>11, SameExperiment, SameLoop
       DEF IInv, LoopInv, StoredInv, InLoop, Compiled, vars, experiment
  <2> QED BY <2>1, <2>2 DEF IInv
<1> QED BY <1>1, <1>2, <1>3, <1>4, <1>5, <1>6, <1>7, <1>8, <1>9, <1>10, <1>11 DEF Next

\* The inductive invariant holds in every reachable state.
THEOREM ProgramInvariant == Spec => []IInv
BY InitIInv, NextIInv, PTL DEF Spec

-----------------------------------------------------------------------------
(* What follows from the invariant.                                        *)

\* generate_code, _write_metadata and the parser keep their types: a stored row has
\* reps of 32 bits, and the stop time and the number of waits are numbers.
THEOREM ProgramTypes == Spec => []TypeOK
BY ProgramInvariant, PTL DEF IInv

\* The rows that generate_code stores are the experiment, whatever it does and on
\* whichever channels: each row plays the levels of all outputs from one change time
\* to another, one row begins where the one before ends, and markers take no time.
THEOREM RowsPlayOutputs == Spec => []PlaysOutputs
<1>1. IInv => PlaysOutputs
  <2> SUFFICES ASSUME IInv, Compiled, Fits
               PROVE  /\ Len(stream) = Len(at) /\ at[1] = 1 /\ index = Intervals + 1
                      /\ \A k \in DOMAIN stream :
                           IF stream[k] = Marker
                             THEN RowEnd(k) = at[k]
                             ELSE /\ at[k] < RowEnd(k)
                                  /\ 2 * stream[k].reps = Boundary(RowEnd(k)) - times[at[k]]
                                  /\ \A i \in at[k]..(RowEnd(k) - 1) :
                                       ShowsOutputs(stream[k].state, i)
    BY DEF PlaysOutputs
  <2>1. Loop /\ index = Intervals + 1 /\ stream = program /\ Intervals \in Nat \ {0}
    BY IntervalFacts DEF IInv, LoopInv, StoredInv, InLoop, Compiled
  <2>2. Len(stream) = Len(at) /\ at[1] = 1
    BY <2>1 DEF Loop
  <2>3. ASSUME NEW k \in DOMAIN stream, stream[k] = Marker
        PROVE  RowEnd(k) = at[k]
    BY <2>1, <2>3, MarkerType DEF Loop, IsPause, IsPlayed
  <2>4. ASSUME NEW k \in DOMAIN stream, stream[k] # Marker
        PROVE  /\ at[k] < RowEnd(k)
               /\ 2 * stream[k].reps = Boundary(RowEnd(k)) - times[at[k]]
               /\ \A i \in at[k]..(RowEnd(k) - 1) : ShowsOutputs(stream[k].state, i)
    <3>1. IsPlayed(k)
      BY <2>1, <2>4 DEF Loop, IsPause
    <3>2. \A i \in at[k]..(RowEnd(k) - 1) : ShowsOutputs(stream[k].state, i)
      BY <3>1, <2>1, StateShowsOutputs DEF IsPlayed, IInv
    <3> QED BY <3>1, <3>2, <2>1 DEF IsPlayed
  <2> QED BY <2>1, <2>2, <2>3, <2>4
<1> QED BY <1>1, ProgramInvariant, PTL

\* The state that transition_to_buffered reports for the front panel is that of the
\* outputs at the beginning of the experiment: the program does not begin with a
\* marker.
THEOREM PanelStarts == Spec => []PanelStartsRight
<1>1. IInv => PanelStartsRight
  <2> SUFFICES ASSUME IInv, Compiled, Fits
               PROVE  ShowsOutputs(FirstState(stream), 1)
    BY DEF PanelStartsRight
  <2>1. Loop /\ index > 1 /\ stream = program /\ program \in Seq(Row)
    BY IntervalFacts DEF IInv, TypeOK, LoopInv, StoredInv, InLoop, Compiled
  <2>2. 1 \in DOMAIN program /\ program[1] # Marker /\ at[1] = 1
    BY <2>1 DEF Loop
  <2>3. IsPlayed(1)
    BY <2>1, <2>2 DEF Loop, IsPause
  <2>4. program[1].state = State(1)
    <3>1. RowEnd(1) \in Int
      BY <2>1 DEF RowEnd, IInv, TypeOK
    <3> QED BY <3>1, <2>2, <2>3 DEF IsPlayed
  <2>5. FirstState(program) = program[1].state
    <3>1. 1 \in RowsOf(program) /\ \A j \in RowsOf(program) : j \in Nat /\ 1 <= j
      BY <2>1, <2>2 DEF RowsOf, MarkersOf
    <3>2. \A k \in RowsOf(program) : (\A j \in RowsOf(program) : k <= j) => k = 1
      BY <3>1
    <3>3. program[1].state \subseteq Channels
      BY <2>4, StateType
    <3> QED BY <3>1, <3>2, <3>3 DEF FirstState
  <2>6. ShowsOutputs(State(1), 1)
    BY StateShowsOutputs DEF IInv
  <2> QED BY <2>1, <2>4, <2>5, <2>6
<1> QED BY <1>1, ProgramInvariant, PTL

-----------------------------------------------------------------------------
(* The parser.                                                             *)

\* A step that leaves the experiment, the rows and the parser alone.
LEMMA SameParser ==
  ASSUME UNCHANGED <<experiment, index, at, stream, row, t, trace>>
  PROVE  Reached' = Reached /\ Boundary(Reached)' = Boundary(Reached)
         /\ \A i : Traced(i)' = Traced(i)
<1>1. Reached' = Reached /\ Boundary(Reached)' = Boundary(Reached)
  BY DEF Reached, Boundary, experiment
<1>2. \A i : Traced(i)' = Traced(i)
  BY DEF Traced, ShowsOutputs, experiment
<1> QED BY <1>1, <1>2

\* A row that is no marker gives the levels of its intervals and the time at which it
\* ends; a marker gives nothing, and ends where it begins.
LEMMA ParseRowTraces ==
  ASSUME IInv, ParserInv, ParseRow, Compiled, Fits
  PROVE  ParserInv'
<1>1. /\ Loop /\ index = Intervals + 1 /\ stream = program /\ Intervals \in Nat \ {0}
      /\ TypeOK /\ ExperimentInv /\ times # <<>> /\ PortInv
      /\ program \in Seq(Row) /\ at \in Seq(Nat) /\ Len(at) = Len(stream)
      /\ trace \in Seq([time : Nat, state : SUBSET Channels])
  BY IntervalFacts DEF IInv, TypeOK, LoopInv, StoredInv, InLoop, Compiled, Loop
<1>2. PICK r \in 1..Len(stream) : row = r
  BY DEF ParserInv, ParseRow, Compiled
<1>3. /\ Reached = at[r] /\ at[r] \in 1..Intervals
      /\ t = times[at[r]] /\ times[at[r]] \in Nat
      /\ \A i \in 1..(at[r] - 1) : Traced(i)
  <2>1. Reached = at[r] /\ at[r] \in 1..Intervals
    BY <1>1, <1>2 DEF Reached, Loop
  <2>2. Boundary(at[r]) = times[at[r]] /\ times[at[r]] \in Nat
    BY <1>1, <2>1, IntervalFacts
  <2> QED BY <2>1, <2>2 DEF ParserInv
<1>4. row' = r + 1 /\ UNCHANGED <<phase, experiment, index, program, at, stream, meta>>
  BY <1>2 DEF ParseRow
<1>5. Reached' = RowEnd(r) /\ \A i : Boundary(i)' = Boundary(i)
  BY <1>1, <1>2, <1>4, SameExperiment DEF Reached, RowEnd
<1>6. SUFFICES /\ t' = Boundary(RowEnd(r))
               /\ \A i \in 1..(RowEnd(r) - 1) : Traced(i)'
  <2>1. Boundary(Reached)' = Boundary(RowEnd(r))
    BY <1>4, <1>5 DEF Boundary, experiment
  <2>2. phase = "stored" /\ phase' = "stored" /\ row' \in 1..(Len(stream') + 1)
    BY <1>1, <1>2, <1>4 DEF ParseRow
  <2> QED BY <1>5, <1>6, <2>1, <2>2 DEF ParserInv
<1>7. CASE IsPause(r)
  <2>1. stream[r].reps = Marker.reps /\ RowEnd(r) = at[r]
    BY <1>1, <1>7 DEF IsPause
  <2>2. t' = t /\ trace' = trace
    BY <2>1, <1>2 DEF ParseRow
  <2>3. \A i : Traced(i)' = Traced(i)
    BY <2>2, <1>4 DEF Traced, ShowsOutputs, experiment
  <2>4. Boundary(at[r]) = times[at[r]]
    BY <1>1, <1>3, IntervalFacts
  <2> QED BY <2>1, <2>2, <2>3, <2>4, <1>3
<1>8. CASE IsPlayed(r)
  <2> DEFINE entry == [time |-> t, state |-> stream[r].state]
             Entry == [time : Nat, state : SUBSET Channels]
  <2>1. PICK a \in 1..Intervals, b \in Nat, m \in Nat :
          a = at[r] /\ b = RowEnd(r) /\ m = Len(trace) + 1
    <3>1. RowEnd(r) \in Nat
      BY <1>1, <1>3 DEF RowEnd, Loop
    <3>2. Len(trace) + 1 \in Nat
      BY <1>1
    <3> QED BY <3>1, <3>2, <1>3
  <2>9. Intervals \in Nat /\ a \in Nat /\ a <= Intervals /\ b \in Nat /\ a >= 1
    <3>1. Intervals \in Nat
      BY <1>1
    <3> QED BY <3>1
  <2>2. /\ a < b /\ b <= Intervals + 1
        /\ 2 * stream[r].reps = Boundary(b) - times[a]
        /\ stream[r].reps < Marker.reps /\ stream[r].reps \in Nat
        /\ \A i \in a..(b - 1) : stream[r].state = State(i)
    <3>1. stream[r] \in Row
      BY <1>1
    <3> QED BY <3>1, <2>1, <1>1, <1>8 DEF IsPlayed, Row
  <2>3. t' = t + 2 * stream[r].reps /\ trace' = Append(trace, entry)
    BY <2>2, <1>2 DEF ParseRow
  <2>4. t' = Boundary(b)
    <3>1. b - 1 \in 1..Intervals /\ (b - 1) + 1 = b
      BY <2>9, <2>2
    <3>2. Boundary(b) \in Nat
      BY <3>1, <1>1, IntervalFacts
    <3> QED BY <3>2, <2>1, <2>2, <2>3, <1>3
  <2>5. /\ DOMAIN trace = 1..(m - 1) /\ Len(trace) = m - 1 /\ m >= 1
        /\ Len(trace') = m /\ DOMAIN trace' = 1..m /\ trace'[m] = entry
        /\ \A k \in 1..(m - 1) : trace'[k] = trace[k] /\ trace[k].time \in Nat
        /\ entry.time = times[a] /\ entry.state = stream[r].state
    <3>1. t \in Nat /\ stream[r].state \in SUBSET Channels
      <4>1. stream[r] \in Row
        BY <1>1
      <4> QED BY <4>1, <1>3 DEF Row
    <3>2. entry \in Entry
      BY <3>1
    <3>3. trace \in Seq(Entry)
      BY <1>1
    <3>4. entry.time = times[a] /\ entry.state = stream[r].state
      BY <1>3, <2>1
    <3>5. \A e \in Entry : e.time \in Nat
      OBVIOUS
    <3> HIDE DEF entry, Entry
    <3> QED BY <2>1, <2>3, <3>2, <3>3, <3>4, <3>5
  <2> HIDE DEF entry
  <2>6. \A i \in 1..Intervals : times[i] \in Nat /\ i \in 1..Len(times)
    BY <1>1, IntervalFacts
  <2>7. ASSUME NEW i \in 1..(a - 1) PROVE Traced(i)'
    <3>1. PICK k \in 1..(m - 1) :
            /\ trace[k].time <= times[i]
            /\ \A j \in (k + 1)..(m - 1) : trace[j].time > times[i]
            /\ ShowsOutputs(trace[k].state, i)
      BY <2>1, <2>5, <1>3 DEF Traced
    <3>2. i \in 1..Intervals /\ i < a
      BY <2>9
    <3>3. times[i] < times[a] /\ times[i] \in Nat /\ times[a] \in Nat
      BY <3>2, <1>1, <2>1, <2>6 DEF ExperimentInv
    <3>4. times' = times
      BY <1>4 DEF experiment
    <3>5. \A j \in (k + 1)..m : trace'[j].time > times'[i]
      <4> SUFFICES ASSUME NEW j \in (k + 1)..m PROVE trace'[j].time > times[i]
        BY <3>4
      <4>1. CASE j = m
        BY <4>1, <2>5, <3>3
      <4>2. CASE j # m
        <5>1. j \in (k + 1)..(m - 1) /\ j \in 1..(m - 1)
          BY <4>2
        <5>2. trace'[j] = trace[j]
          BY <5>1, <2>5
        <5> QED BY <5>1, <5>2, <3>1
      <4> QED BY <4>1, <4>2
    <3>6. ShowsOutputs(trace[k].state, i)'
      BY <3>1, <2>5, <1>4 DEF ShowsOutputs, experiment
    <3>7. k \in 1..m /\ trace'[k].time <= times'[i]
      BY <3>1, <3>4, <2>5
    <3> QED BY <3>5, <3>6, <3>7, <2>5 DEF Traced
  <2>8. ASSUME NEW i \in a..(b - 1) PROVE Traced(i)'
    <3>1. i \in 1..Intervals /\ (a = i \/ a < i)
      BY <2>9, <2>2
    <3>2. times[a] \in Nat /\ times[i] \in Nat /\ (a < i => times[a] < times[i])
      BY <3>1, <1>1, <2>6 DEF ExperimentInv
    <3>7. times' = times
      BY <1>4 DEF experiment
    <3>3. m \in 1..m /\ \A j \in (m + 1)..m : FALSE
      BY <2>1, <2>5
    <3>4. ShowsOutputs(stream[r].state, i)
      BY <2>2, <1>1, StateShowsOutputs
    <3>5. ShowsOutputs(trace[m].state, i)'
      BY <3>4, <2>5, <1>4 DEF ShowsOutputs, experiment
    <3>6. trace'[m].time <= times'[i]
      BY <3>1, <3>2, <3>7, <2>5
    <3> QED BY <3>3, <3>5, <3>6, <2>5 DEF Traced
  <2>10. ASSUME NEW i \in 1..(b - 1) PROVE Traced(i)'
    <3>1. i \in 1..(a - 1) \/ i \in a..(b - 1)
      BY <2>9
    <3> QED BY <3>1, <2>7, <2>8
  <2> QED BY <2>1, <2>2, <2>4, <2>10, <1>1
<1> QED BY <1>1, <1>7, <1>8 DEF Loop

LEMMA NextParserInv == IInv /\ IInv' /\ ParserInv /\ [Next]_vars => ParserInv'
<1> SUFFICES ASSUME IInv, IInv', ParserInv, [Next]_vars PROVE ParserInv'
  OBVIOUS
\* The parser has not begun.
<1>1. ASSUME phase \notin {"stored", "viewed"}, phase' \notin {"stored", "viewed"},
             UNCHANGED parser
      PROVE  ParserInv'
  BY <1>1 DEF ParserInv, Compiled, parser
<1>2. ASSUME NEW o \in Outputs, NEW c \in Connections,
             Connect(o, c) \/ ConnectionRefused(o, c)
      PROVE  ParserInv'
  BY <1>1, <1>2 DEF Connect, ConnectionRefused, Fail
<1>3. CASE Collect \/ Validated \/ AppendRow
  BY <1>1, <1>3 DEF Collect, Validated, AppendRow
<1>4. CASE OffGrid \/ TooManyInstructions \/ MergedTooLong
  BY <1>1, <1>4 DEF OffGrid, TooManyInstructions, MergedTooLong, AllRows, Fail
<1>5. CASE CompileEmpty
  BY <1>5 DEF CompileEmpty, ParserInv, Compiled, experiment
\* It begins with the first row.
<1>6. CASE Store
  <2>1. phase' = "stored" /\ row' = 1 /\ t' = 0 /\ trace' = <<>>
    BY <1>6 DEF Store, AllRows, ParserInv, parser
  <2> SUFFICES ASSUME Compiled', Fits'
               PROVE  /\ row' \in 1..(Len(stream') + 1)
                      /\ t' = Boundary(Reached)'
                      /\ \A i \in 1..(Reached' - 1) : Traced(i)'
    BY <2>1 DEF ParserInv
  <2>2. /\ times' # <<>> /\ times'[1] = 0 /\ Len(times') \in Nat \ {0}
        /\ Len(stream') \in Nat
    <3>1. times' # <<>> /\ times'[1] = 0
      BY DEF Compiled, IInv, ExperimentInv
    <3>2. TypeOK' => times' \in Seq(Nat) /\ Len(stream') \in Nat
      BY DEF TypeOK
    <3>3. times' \in Seq(Nat) /\ Len(stream') \in Nat
      BY <3>2 DEF IInv
    <3> QED BY <3>1, <3>3
  <2>3. Loop' /\ index' > 1
    <3>1. (Intervals \in Nat \ {0})'
      BY <2>2 DEF Intervals
    <3> QED BY <3>1 DEF IInv, LoopInv, StoredInv, InLoop, Compiled
  <2>4. at'[1] = 1 /\ 1 <= Len(at')
    BY <2>3 DEF Loop, IInv, TypeOK
  <2>5. Reached' = 1 /\ Boundary(Reached)' = 0
    BY <2>1, <2>2, <2>4 DEF Reached, Boundary
  <2> QED BY <2>1, <2>2, <2>5
<1>7. CASE ParseRow
  <2>1. phase = "stored" /\ phase' = "stored" /\ Fits' = Fits /\ Compiled' = Compiled
    BY <1>7, SameExperiment DEF ParseRow, Compiled, experiment
  <2>2. CASE Compiled /\ Fits
    BY <1>7, <2>2, ParseRowTraces
  <2> QED BY <2>1, <2>2 DEF ParserInv
<1>8. CASE ParserReturns
  <2>1. phase = "stored" /\ phase' = "viewed" /\ Fits' = Fits /\ Compiled' = Compiled
        /\ row > Len(stream) /\ UNCHANGED <<experiment, index, program, at, stream, row, t>>
    BY <1>8, SameExperiment DEF ParserReturns, Compiled, experiment
  <2> SUFFICES ASSUME Compiled, Fits
               PROVE  /\ row' \in 1..(Len(stream') + 1) /\ row' = Len(stream') + 1
                      /\ t' = Boundary(Reached)'
                      /\ \A i \in 1..(Reached' - 1) : Traced(i)'
    BY <2>1 DEF ParserInv
  <2>2. /\ Len(stream) \in Nat /\ row \in 1..(Len(stream) + 1) /\ t = Boundary(Reached)
        /\ \A i \in 1..(Reached - 1) : Traced(i)
    BY DEF ParserInv, IInv, TypeOK
  <2>3. row = Len(stream) + 1
    BY <2>1, <2>2
  <2>4. Loop /\ index = Intervals + 1 /\ stream = program /\ Intervals \in Nat \ {0}
    BY IntervalFacts DEF IInv, LoopInv, StoredInv, InLoop, Compiled
  <2>5. Reached = index
    BY <2>2, <2>3, <2>4 DEF Loop, Reached
  <2>6. trace # <<>>
    <3>1. Traced(1)
      BY <2>2, <2>4, <2>5
    <3> QED BY <3>1 DEF Traced
  <2>7. trace' = trace
    BY <1>8, <2>6 DEF ParserReturns
  <2> QED BY <2>1, <2>2, <2>3, <2>7, SameParser
<1>9. CASE UNCHANGED vars
  <2>1. UNCHANGED <<experiment, index, at, stream, row, t, trace>> /\ UNCHANGED phase
    BY <1>9 DEF vars, parser
  <2>2. Fits' = Fits /\ Compiled' = Compiled
    BY <2>1, SameExperiment DEF Compiled, experiment
  <2> QED BY <2>1, <2>2, SameParser DEF ParserInv
<1> QED BY <1>2, <1>3, <1>4, <1>5, <1>6, <1>7, <1>8, <1>9 DEF Next

\* The parser's invariant holds in every reachable state.
THEOREM ParserInvariant == Spec => []ParserInv
<1>1. Init => ParserInv
  BY DEF Init, ParserInv, Compiled
<1> QED BY <1>1, NextParserInv, ProgramInvariant, PTL DEF Spec

\* get_traces shows the outputs: at every change time the trace has the level of every
\* output, the markers that it passes over notwithstanding.
THEOREM TracesAreOutputs == Spec => []TracesShowOutputs
<1>1. IInv /\ ParserInv => TracesShowOutputs
  <2> SUFFICES ASSUME IInv, ParserInv, phase = "viewed", Compiled, Fits
               PROVE  \A i \in 1..Intervals : Traced(i)
    BY DEF TracesShowOutputs, Traced, Compiled
  <2>1. Loop /\ index = Intervals + 1 /\ stream = program /\ Intervals \in Nat \ {0}
        /\ Len(at) \in Nat
    BY IntervalFacts DEF IInv, TypeOK, LoopInv, StoredInv, InLoop, Compiled
  <2>2. Reached = index
    BY <2>1 DEF Loop, Reached, ParserInv
  <2> QED BY <2>1, <2>2 DEF ParserInv
<1> QED BY <1>1, ParserInvariant, ProgramInvariant, PTL
=============================================================================
