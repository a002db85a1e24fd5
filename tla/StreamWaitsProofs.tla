-------------------------- MODULE StreamWaitsProofs --------------------------
(***************************************************************************)
(* Proofs about StreamProgram: where the device pauses, and what is stored *)
(* beside the rows.                                                        *)
(***************************************************************************)
EXTENDS StreamProgramProofs

\* The intervals up to n at whose beginning there is a marker.
PausesUpTo(n) == {i \in 1..n : WaitAt(i)}

\* There is one marker for each of them and no other.
MarkerInv ==
  InLoop /\ Fits =>
    /\ \A k \in MarkersOf(program) : at[k] \in PausesUpTo(index - 1)
    /\ \A i \in PausesUpTo(index - 1) : \E k \in MarkersOf(program) : at[k] = i
    /\ \A j, k \in MarkersOf(program) : at[j] = at[k] => j = k

MetaInv == Compiled => meta = Metadata

WaitInv == MarkerInv /\ MetaInv

-----------------------------------------------------------------------------
(* The markers.                                                            *)

\* A step of the loop adds a marker where the experiment waits, and leaves the other
\* markers where they are.
LEMMA AppendRowMarkers ==
  ASSUME IInv, AppendRow, Fits, Loop', NEW N, N = Len(program)
  PROVE  /\ MarkersOf(program)' = MarkersOf(program) \cup (IF WaitAt(index) THEN {N + 1} ELSE {})
         /\ \A k \in MarkersOf(program) : k \in 1..N /\ at'[k] = at[k]
         /\ WaitAt(index) => at'[N + 1] = index
<1> DEFINE new == [reps |-> Ticks(index), state |-> State(index)]
<1>1. /\ program \in Seq(Row) /\ at \in Seq(Nat) /\ N \in Nat /\ Len(at) = N
      /\ new \in Row /\ new # Marker /\ index \in Nat
      /\ MarkersOf(program) = {k \in 1..N : program[k] = Marker}
  <2>1. TypeOK /\ Loop /\ new \in Row /\ new # Marker /\ index \in Nat
    BY RowAppended
  <2> HIDE DEF new
  <2>2. program \in Seq(Row) /\ at \in Seq(Nat) /\ Len(at) = N /\ N \in Nat
    BY <2>1 DEF TypeOK, Loop
  <2>3. MarkersOf(program) = {k \in 1..N : program[k] = Marker}
    BY <2>2 DEF MarkersOf
  <2> QED BY <2>1, <2>2, <2>3
<1>2. LET rows == Marked(program)
          begins == IF WaitAt(index) THEN Append(at, index) ELSE at
      IN IF Merges(rows)
           THEN /\ program' = [rows EXCEPT ![Len(rows)].reps = @ + Ticks(index)]
                /\ at' = begins
           ELSE /\ program' = Append(rows, new)
                /\ at' = Append(begins, index)
  BY RowAppended
<1> HIDE DEF new
<1>3. CASE WaitAt(index)
  <2>1. ~Merges(Marked(program)) /\ Marked(program) = Append(program, Marker)
    BY <1>1, <1>3, MarkerType DEF Merges, Marked, Last
  <2>2. /\ program' = Append(Append(program, Marker), new)
        /\ at' = Append(Append(at, index), index)
    BY <2>1, <1>2, <1>3
  <2>3. /\ DOMAIN program' = 1..(N + 2)
        /\ \A k \in 1..N : program'[k] = program[k] /\ at'[k] = at[k]
        /\ program'[N + 1] = Marker /\ at'[N + 1] = index
        /\ program'[N + 2] = new
    <3>1. /\ Append(program, Marker) \in Seq(Row) /\ Append(at, index) \in Seq(Nat)
          /\ Len(Append(program, Marker)) = N + 1 /\ Len(Append(at, index)) = N + 1
          /\ \A k \in 1..N : Append(program, Marker)[k] = program[k]
                             /\ Append(at, index)[k] = at[k]
          /\ Append(program, Marker)[N + 1] = Marker /\ Append(at, index)[N + 1] = index
      BY <1>1, MarkerType
    <3> QED BY <3>1, <2>2, <1>1
  <2>4. MarkersOf(program)' = {k \in 1..(N + 2) : program'[k] = Marker}
    BY <2>3 DEF MarkersOf, Marker
  <2> QED BY <2>3, <2>4, <1>1, <1>3
<1>4. CASE ~WaitAt(index) /\ Merges(program)
  <2>1. Marked(program) = program /\ N \in 1..N /\ program[N] # Marker
    BY <1>1, <1>4 DEF Marked, Merges, Last
  <2>2. program' = [program EXCEPT ![N].reps = @ + Ticks(index)] /\ at' = at
    BY <1>2, <1>4, <2>1
  <2>3. /\ Len(program') = N /\ DOMAIN program' = 1..N
        /\ \A k \in 1..N : k # N => program'[k] = program[k]
    BY <1>1, <2>1, <2>2
  <2>4. program'[N] # Marker
    <3>1. IsPlayed(Len(program))'
      BY RowAppended DEF Loop
    <3> QED BY <3>1, <2>3, MarkerType DEF IsPlayed, Marker
  <2>5. MarkersOf(program)' = {k \in 1..N : program'[k] = Marker}
    BY <2>3 DEF MarkersOf, Marker
  <2> QED BY <1>1, <1>4, <2>1, <2>2, <2>3, <2>4, <2>5
<1>5. CASE ~WaitAt(index) /\ ~Merges(program)
  <2>1. Marked(program) = program
    BY <1>5 DEF Marked
  <2>2. program' = Append(program, new) /\ at' = Append(at, index)
    BY <2>1, <1>2, <1>5
  <2>3. /\ DOMAIN program' = 1..(N + 1) /\ program'[N + 1] = new
        /\ \A k \in 1..N : program'[k] = program[k] /\ at'[k] = at[k]
    BY <2>2, <1>1
  <2>4. MarkersOf(program)' = {k \in 1..(N + 1) : program'[k] = Marker}
    BY <2>3 DEF MarkersOf, Marker
  <2> QED BY <1>1, <1>5, <2>3, <2>4
<1> QED BY <1>3, <1>4, <1>5

LEMMA MarkersStep ==
  ASSUME IInv, IInv', AppendRow, MarkerInv
  PROVE  MarkerInv'
<1>1. InLoop /\ phase' = "rows" /\ Fits' = Fits /\ UNCHANGED experiment
  BY SameExperiment DEF AppendRow, InLoop
<1>2. SUFFICES ASSUME Fits
               PROVE  /\ \A k \in MarkersOf(program)' : at'[k] \in PausesUpTo(index - 1)'
                      /\ \A i \in PausesUpTo(index - 1)' : \E k \in MarkersOf(program)' : at'[k] = i
                      /\ \A j, k \in MarkersOf(program)' : at'[j] = at'[k] => j = k
  BY <1>1 DEF MarkerInv
<1>3. PICK N \in Nat : N = Len(program)
  BY DEF IInv, TypeOK
<1>4. Loop'
  BY <1>1, <1>2 DEF IInv, LoopInv, InLoop
<1> DEFINE M == MarkersOf(program)
           P == PausesUpTo(index - 1)
<1>5. /\ MarkersOf(program)' = M \cup (IF WaitAt(index) THEN {N + 1} ELSE {})
      /\ \A k \in M : k \in 1..N /\ at'[k] = at[k]
      /\ WaitAt(index) => at'[N + 1] = index
  BY <1>2, <1>3, <1>4, AppendRowMarkers
<1>6. /\ \A k \in M : at[k] \in P
      /\ \A i \in P : \E k \in M : at[k] = i
      /\ \A j, k \in M : at[j] = at[k] => j = k
  BY <1>1, <1>2 DEF MarkerInv
<1>7. /\ PausesUpTo(index - 1)' = P \cup (IF WaitAt(index) THEN {index} ELSE {})
      /\ \A i \in P : i < index
  <2>1. index \in Nat \ {0} /\ (index - 1)' = index
    <3>1. index \in Nat \ {0}
      BY DEF IInv, TypeOK
    <3>2. index' = index + 1
      BY DEF AppendRow
    <3> QED BY <3>1, <3>2
  <2>2. PausesUpTo(index - 1)' = {i \in 1..index : WaitAt(i)}
    BY <1>1, <2>1, SameExperiment DEF PausesUpTo
  <2>3. \A i : i \in 1..index <=> i \in 1..(index - 1) \/ i = index
    BY <2>1
  <2>4. \A i \in 1..(index - 1) : i < index
    BY <2>1
  <2> QED BY <2>2, <2>3, <2>4 DEF PausesUpTo
<1>8. index \in Nat /\ \A k \in M : k # N + 1
  <2>1. index \in Nat
    BY DEF IInv, TypeOK
  <2>2. \A k \in 1..N : k # N + 1
    BY <1>3
  <2> QED BY <2>1, <2>2, <1>5
<1> HIDE DEF M, P
<1>9. CASE WaitAt(index)
  <2>1. \A k \in M : at[k] # index
    BY <1>6, <1>7, <1>8
  <2> QED BY <1>5, <1>6, <1>7, <1>8, <1>9, <2>1
<1>10. CASE ~WaitAt(index)
  BY <1>5, <1>6, <1>7, <1>10
<1> QED BY <1>9, <1>10

\* A step that leaves the experiment and the loop alone leaves the markers.
LEMMA SameMarkers ==
  ASSUME UNCHANGED <<experiment, index, program, at>>, InLoop' => InLoop, MarkerInv
  PROVE  MarkerInv'
<1>1. index' = index /\ at' = at /\ Fits' = Fits /\ \A n : PausesUpTo(n)' = PausesUpTo(n)
  BY SameExperiment DEF PausesUpTo
<1>2. MarkersOf(program)' = MarkersOf(program)
  BY DEF MarkersOf, Marker
<1> QED BY <1>1, <1>2 DEF MarkerInv

LEMMA SameMetadata ==
  ASSUME UNCHANGED <<experiment, program>>
  PROVE  Metadata' = Metadata
<1>1. /\ Intervals' = Intervals /\ times' = times /\ connected' = connected /\ waits' = waits
      /\ high' = high
  BY SameExperiment DEF experiment
<1>2. \A i : Boundary(i)' = Boundary(i) /\ State(i)' = State(i) /\ WaitAt(i)' = WaitAt(i)
  BY SameExperiment
<1>3. FinalState(program)' = FinalState(program)
  BY DEF FinalState, RowsOf, MarkersOf, Marker
<1> QED BY <1>1, <1>2, <1>3 DEF Metadata

LEMMA NextWaitInv == IInv /\ IInv' /\ WaitInv /\ [Next]_vars => WaitInv'
<1> SUFFICES ASSUME IInv, IInv', WaitInv, [Next]_vars PROVE WaitInv'
  OBVIOUS
\* There are no rows.
<1>1. ASSUME ~InLoop', ~Compiled' PROVE WaitInv'
  BY <1>1 DEF WaitInv, MarkerInv, MetaInv
<1>2. ASSUME NEW o \in Outputs, NEW c \in Connections,
             Connect(o, c) \/ ConnectionRefused(o, c)
      PROVE  WaitInv'
  BY <1>1, <1>2 DEF Connect, ConnectionRefused, Fail, InLoop, Compiled
<1>3. CASE Collect
  BY <1>1, <1>3 DEF Collect, InLoop, Compiled
<1>4. CASE OffGrid \/ TooManyInstructions \/ MergedTooLong
  BY <1>1, <1>4 DEF OffGrid, TooManyInstructions, MergedTooLong, Fail, InLoop, Compiled
<1>5. CASE CompileEmpty
  BY <1>1, <1>5 DEF CompileEmpty, InLoop, Compiled, experiment
\* The first row has not been appended.
<1>6. CASE Validated
  <2>1. program' = <<>> /\ index' = 1 /\ ~Compiled'
    BY <1>6 DEF Validated, IInv, LoopInv, Compiled
  <2>2. MarkersOf(program)' = {} /\ PausesUpTo(index - 1)' = {}
    BY <2>1 DEF MarkersOf, PausesUpTo
  <2> QED BY <2>1, <2>2 DEF WaitInv, MarkerInv, MetaInv
<1>7. CASE AppendRow
  BY <1>7, MarkersStep DEF AppendRow, WaitInv, MetaInv, Compiled
<1>8. CASE Store
  <2>1. MarkerInv'
    BY <1>8, SameMarkers DEF Store, AllRows, InLoop, WaitInv
  <2>2. MetaInv'
    BY <1>8, SameMetadata DEF Store, MetaInv
  <2> QED BY <2>1, <2>2 DEF WaitInv
\* They stay as they are.
<1>9. ASSUME UNCHANGED <<experiment, index, program, at, meta>>,
             InLoop' => InLoop, Compiled' => Compiled
      PROVE  WaitInv'
  BY <1>9, SameMarkers, SameMetadata DEF WaitInv, MetaInv
<1>10. CASE ParseRow \/ ParserReturns \/ UNCHANGED vars
  BY <1>9, <1>10 DEF ParseRow, ParserReturns, vars, InLoop, Compiled, experiment
<1> QED BY <1>2, <1>3, <1>4, <1>5, <1>6, <1>7, <1>8, <1>10 DEF Next

\* The markers are where the experiment waits, in every reachable state.
THEOREM WaitInvariant == Spec => []WaitInv
<1>1. Init => WaitInv
  BY DEF Init, WaitInv, MarkerInv, MetaInv, InLoop, Compiled
<1> QED BY <1>1, NextWaitInv, ProgramInvariant, PTL DEF Spec

-----------------------------------------------------------------------------
(* What follows from the invariants.                                       *)

\* Every wait but the first is moved by those before it.
Slot(w) == w + Cardinality({v \in waits : v < w})

LEMMA SlotFacts ==
  ASSUME TypeOK, ExperimentInv
  PROVE  /\ IsFiniteSet(waits)
         /\ \A w \in waits : w \in Nat /\ Slot(w) \in Nat /\ w <= Slot(w)
         /\ \A i : WaitAt(i) <=> \E w \in waits : i = Slot(w)
<1>1. Len(times) \in Nat /\ waits \subseteq Nat /\ waits \subseteq 2..(Len(times) - 1)
  BY DEF TypeOK, ExperimentInv
<1>2. IsFiniteSet(waits)
  <2>1. IsFiniteSet(2..(Len(times) - 1))
    BY <1>1, FS_Interval
  <2> QED BY <1>1, <2>1, FS_Subset
<1>3. ASSUME NEW w \in waits PROVE w \in Nat /\ Slot(w) \in Nat /\ w <= Slot(w)
  <2>1. IsFiniteSet({v \in waits : v < w})
    BY <1>2, FS_Subset
  <2>2. Cardinality({v \in waits : v < w}) \in Nat
    BY <2>1, FS_CardinalityType
  <2>3. w \in Nat
    BY <1>1
  <2> QED BY <2>2, <2>3 DEF Slot
<1> QED BY <1>2, <1>3 DEF WaitAt, Slot

\* The device never pauses more often than the experiment has waited by then, and its
\* first pause is where the experiment waits first: the markers that it finds in the
\* stored rows are in the slots of the waits, one for each, and none before its wait.
THEOREM PausesWhereItWaits == Spec => []PausesAtWaits
<1>1. IInv /\ WaitInv => PausesAtWaits
  <2> SUFFICES ASSUME IInv, WaitInv, Compiled, Fits
               PROVE  LET pauses == {at[k] : k \in MarkersOf(stream)}
                      IN /\ \A i \in 1..Intervals :
                              Cardinality({p \in pauses : p <= i})
                                <= Cardinality({w \in waits : w <= i})
                         /\ \A w \in waits : (\A v \in waits : w <= v) => w \in pauses
    BY DEF PausesAtWaits
  <2> DEFINE pauses == {at[k] : k \in MarkersOf(stream)}
  <2>1. /\ TypeOK /\ ExperimentInv /\ index - 1 = Intervals /\ stream = program
        /\ Intervals \in Nat \ {0} /\ InLoop
    BY IntervalFacts DEF IInv, StoredInv, InLoop, Compiled
  <2>2. pauses = {i \in 1..Intervals : WaitAt(i)}
    BY <2>1 DEF WaitInv, MarkerInv, PausesUpTo
  <2> HIDE DEF pauses
  <2>3. ASSUME NEW i \in 1..Intervals
        PROVE  Cardinality({p \in pauses : p <= i}) <= Cardinality({w \in waits : w <= i})
    <3> DEFINE P == {p \in pauses : p <= i}
               W == {w \in waits : w <= i}
               wait == [p \in P |-> CHOOSE w \in waits : p = Slot(w)]
    <3>1. \A p \in P : p \in Nat /\ p <= i /\ \E w \in waits : p = Slot(w)
      BY <2>1, <2>2, SlotFacts
    <3>2. \A p \in P : wait[p] \in waits /\ p = Slot(wait[p])
      BY <3>1
    <3> HIDE DEF wait
    <3>3. \A p \in P : wait[p] \in W
      <4> SUFFICES ASSUME NEW p \in P PROVE wait[p] \in W
        OBVIOUS
      <4>1. wait[p] \in Nat /\ p \in Nat /\ wait[p] <= p /\ p <= i /\ wait[p] \in waits
        BY <2>1, <3>1, <3>2, SlotFacts
      <4>2. i \in Nat
        BY <2>1
      <4> QED BY <4>1, <4>2
    <3>4. wait \in Injection(P, W)
      <4>1. wait \in [P -> W]
        BY <3>3 DEF wait
      <4>2. \A p, q \in P : wait[p] = wait[q] => p = q
        BY <3>2
      <4> QED BY <4>1, <4>2 DEF Injection, IsInjective
    <3>5. IsFiniteSet(W)
      BY <2>1, SlotFacts, FS_Subset
    <3> HIDE DEF P, W
    <3>6. Cardinality(P) <= Cardinality(W)
      BY <3>4, <3>5, FS_Injection
    <3> QED BY <3>6 DEF P, W
  <2>4. ASSUME NEW w \in waits, \A v \in waits : w <= v
        PROVE  w \in pauses
    <3>1. w \in Nat /\ w \in 2..(Len(times) - 1) /\ Len(times) \in Nat
          /\ \A v \in waits : v \in Nat
      <4>1. \A v \in waits : v \in Nat
        BY <2>1, SlotFacts
      <4>2. w \in 2..(Len(times) - 1)
        BY <2>1 DEF ExperimentInv
      <4>3. Len(times) \in Nat
        BY <2>1 DEF TypeOK
      <4> QED BY <4>1, <4>2, <4>3
    <3>2. {v \in waits : v < w} = {}
      <4>1. \A v \in waits : ~(v < w)
        BY <2>4, <3>1
      <4> QED BY <4>1
    <3>3. Slot(w) = w
      BY <3>1, <3>2, FS_EmptySet DEF Slot
    <3>4. w \in 1..Intervals
      <4>1. PICK L \in Nat : L = Len(times)
        BY <3>1
      <4>2. w \in 2..(L - 1)
        BY <3>1, <4>1
      <4>3. L # 1
        BY <4>2
      <4>4. Intervals = L - 1
        BY <4>1, <4>3 DEF Intervals
      <4> QED BY <4>2, <4>4
    <3> QED BY <2>1, <2>2, <3>3, <3>4, SlotFacts
  <2> QED BY <2>3, <2>4 DEF pauses
<1> QED BY <1>1, WaitInvariant, ProgramInvariant, PTL

\* What _write_metadata stores beside the rows agrees with them: the stop time is the
\* time at which the parser ends, the number of waits that of the markers, the final
\* state that of the outputs in the last interval, and no row has a channel high that
\* is not in the active mask.
THEOREM MetadataOfRows == Spec => []MetadataAgree
<1>1. IInv /\ ParserInv /\ WaitInv => MetadataAgree
  <2> SUFFICES ASSUME IInv, ParserInv, WaitInv, Compiled, Fits
               PROVE  /\ phase = "viewed" => t = meta.stop_time
                      /\ meta.wait_count = Cardinality(MarkersOf(stream))
                      /\ ShowsOutputs(meta.final_mask, Intervals)
                      /\ \A k \in DOMAIN stream : stream[k].state \subseteq meta.active_mask
    BY DEF MetadataAgree
  <2>1. /\ TypeOK /\ ExperimentInv /\ PortInv /\ Loop /\ times # <<>> /\ InLoop
        /\ index = Intervals + 1 /\ stream = program /\ Intervals \in Nat \ {0}
        /\ meta = Metadata
    BY IntervalFacts DEF IInv, LoopInv, StoredInv, InLoop, Compiled, WaitInv, MetaInv
  <2>2. /\ meta.stop_time = Boundary(Intervals + 1) - times[1]
        /\ meta.wait_count = Cardinality({i \in 1..Intervals : WaitAt(i)})
        /\ meta.active_mask = {c \in Channels : \E i \in DOMAIN times : c \in State(i)}
        /\ meta.final_mask = FinalState(program)
    BY <2>1 DEF Metadata
  <2>3. /\ program \in Seq(Row) /\ at \in Seq(Nat) /\ Len(at) = Len(program)
        /\ Len(program) \in Nat \ {0}
    <3>1. program \in Seq(Row) /\ at \in Seq(Nat)
      BY <2>1 DEF TypeOK
    <3>2. index > 1
      BY <2>1
    <3> QED BY <3>1, <3>2, <2>1 DEF Loop
  <2>4. ASSUME phase = "viewed" PROVE t = meta.stop_time
    <3>1. row = Len(at) + 1
      BY <2>1, <2>3, <2>4 DEF ParserInv
    <3>2. Reached = Intervals + 1
      BY <2>1, <2>3, <3>1 DEF Reached
    <3>3. t = Boundary(Intervals + 1) /\ times[1] = 0
      BY <2>1, <3>2 DEF ParserInv, ExperimentInv
    <3>4. t \in Nat
      BY <2>1 DEF TypeOK
    <3> QED BY <2>2, <3>3, <3>4
  <2>5. meta.wait_count = Cardinality(MarkersOf(stream))
    <3> DEFINE M == MarkersOf(program)
               P == {i \in 1..Intervals : WaitAt(i)}
               begins == [k \in M |-> at[k]]
    <3>1. /\ \A k \in M : at[k] \in P
          /\ \A i \in P : \E k \in M : at[k] = i
          /\ \A j, k \in M : at[j] = at[k] => j = k
      BY <2>1 DEF WaitInv, MarkerInv, PausesUpTo
    <3>2. IsFiniteSet(M)
      <4>1. M \subseteq 1..Len(program) /\ IsFiniteSet(1..Len(program))
        BY <2>3, FS_Interval DEF MarkersOf
      <4> QED BY <4>1, FS_Subset
    <3> HIDE DEF M, P
    <3>3. begins \in Bijection(M, P)
      BY <3>1 DEF Bijection, Injection, Surjection, IsInjective
    <3>4. Cardinality(P) = Cardinality(M)
      BY <3>2, <3>3, FS_Bijection DEF ExistsBijection
    <3> QED BY <2>1, <2>2, <3>4 DEF M, P
  <2> DEFINE N == Len(program)
  <2>6. FinalState(program) = State(Intervals)
    <3>1. IsPlayed(N) /\ RowEnd(N) = Intervals + 1
      BY <2>1, <2>3 DEF Loop, RowEnd
    <3>2. N \in RowsOf(program) /\ \A j \in RowsOf(program) : j \in Nat /\ j <= N
      BY <2>3, <3>1, MarkerType DEF RowsOf, MarkersOf, IsPlayed
    <3>3. program[N].state = State(Intervals)
      <4>1. at[N] \in Nat /\ at[N] < Intervals + 1
        BY <2>1, <2>3, <3>1 DEF IsPlayed
      <4>2. Intervals \in at[N]..((Intervals + 1) - 1)
        BY <2>1, <4>1
      <4> QED BY <3>1, <4>2 DEF IsPlayed
    <3>4. \A k \in RowsOf(program) : (\A j \in RowsOf(program) : j <= k) => k = N
      BY <3>2
    <3> QED BY <3>2, <3>3, <3>4, StateType DEF FinalState
  <2>7. ShowsOutputs(meta.final_mask, Intervals)
    BY <2>1, <2>2, <2>6, StateShowsOutputs
  <2>8. ASSUME NEW k \in DOMAIN stream
        PROVE  stream[k].state \subseteq meta.active_mask
    <3>1. CASE IsPause(k)
      BY <2>1, <3>1 DEF IsPause, Marker
    <3>2. CASE IsPlayed(k)
      <4>1. at[k] \in 1..Intervals
        BY <2>1, <2>3 DEF Loop
      <4>2. at[k] \in DOMAIN times /\ at[k] \in Nat
        <5>1. Intervals \in Nat /\ at[k] \in 1..Len(times)
          BY <2>1, <4>1, IntervalFacts
        <5>2. times \in Seq(Nat)
          BY <2>1 DEF TypeOK
        <5> QED BY <4>1, <5>1, <5>2
      <4>3. RowEnd(k) \in Nat
        BY <2>1, <2>3 DEF RowEnd
      <4>4. stream[k].state = State(at[k])
        BY <2>1, <3>2, <4>2, <4>3 DEF IsPlayed
      <4> QED BY <2>2, <4>2, <4>4, StateType
    <3> QED BY <2>1, <3>1, <3>2 DEF Loop
  <2> QED BY <2>4, <2>5, <2>7, <2>8
<1> QED BY <1>1, WaitInvariant, ParserInvariant, ProgramInvariant, PTL
=============================================================================
