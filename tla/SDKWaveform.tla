----------------------------- MODULE SDKWaveform -----------------------------
(***************************************************************************)
(* The waveforms of the SDK's user layer (dsgQosmos.py): a script records  *)
(* events of digital outputs on a timeline in any order, send_streambytes  *)
(* turns the timeline into rows of a duration and a state, which the       *)
(* protocol packs into words and announces in a header.                    *)
(*                                                                         *)
(* Times are in units of which Tick make one dt, so that events need not   *)
(* lie on the grid: nothing here validates them.  A state is the set of    *)
(* the channels that are high.                                             *)
(***************************************************************************)
EXTENDS Integers, FiniteSets, Sequences

CONSTANTS
  Channels,
  Times,     \* the times a script uses: even, to have their midpoints among Int
  Widths,    \* of pulses, even, too
  Tick,      \* dt, in units
  EndPulse,  \* the 10 us of a high that nothing ends, in units
  RepModulus,    \* a word has 32 bits for the duration
  CountModulus,  \* the header has 16 for the number of rows
  MaxCalls   \* bound: calls that record events

ASSUME WaveformAssumption ==
  /\ \A t \in Times \cup Widths : t \in Int /\ t % 2 = 0
  /\ {Tick, EndPulse, RepModulus, CountModulus} \subseteq Nat \ {0} /\ MaxCalls \in Nat
  /\ IsFiniteSet(Channels)

VARIABLES
  events,    \* Timeline._events: of each channel, in the order of the calls
  frozen,    \* Timeline._frozen
  pulses,    \* ghost: the intervals given to pulse()
  single,    \* ghost: the channels that high, low or set was called for
  calls,     \* number of calls that have recorded events, for MaxCalls
  sent,      \* the rows of the last download
  group_count, \* how many of them its header announces
  sent_for,  \* ghost: the timeline it was made of
  LED_mask   \* of the last set_done

timeline == <<events, frozen, pulses, single, calls>>
download == <<sent, group_count, sent_for>>
vars == <<timeline, download, LED_mask>>

NoEvents == [c \in Channels |-> <<>>]
NoPulses == [c \in Channels |-> {}]

Recorded == [events |-> events, pulses |-> pulses, single |-> single]

Init ==
  /\ events = NoEvents /\ frozen = FALSE /\ pulses = NoPulses /\ single = {} /\ calls = 0
  /\ sent = <<>> /\ group_count = 0 /\ sent_for = Recorded /\ LED_mask = {}

-----------------------------------------------------------------------------
(* The script: Timeline and DigitalOut.  A call that raises changes        *)
(* nothing.                                                                *)

\* Mutation: only frozen timelines are refused.
AddUnchecked(c, evts) ==
  /\ ~frozen
  /\ calls' = calls + 1 /\ calls' <= MaxCalls
  /\ events' = [events EXCEPT ![c] = @ \o evts]
  /\ UNCHANGED <<frozen, download, LED_mask>>

AddEvents(c, evts) ==
  /\ ~frozen
  /\ calls' = calls + 1 /\ calls' <= MaxCalls
  /\ \A i \in DOMAIN evts : evts[i].t >= 0 /\ evts[i].v \in {0, 1}
  /\ events' = [events EXCEPT ![c] = @ \o evts]
  /\ UNCHANGED <<frozen, download, LED_mask>>

\* high, low and set.
Set(c, t, v) ==
  /\ AddEvents(c, <<[t |-> t, v |-> v]>>)
  /\ single' = single \cup {c} /\ UNCHANGED pulses

Pulse(c, t0, width) ==
  /\ width > 0
  /\ AddEvents(c, <<[t |-> t0, v |-> 1], [t |-> t0 + width, v |-> 0]>>)
  /\ pulses' = [pulses EXCEPT ![c] = @ \cup {[from |-> t0, to |-> t0 + width]}]
  /\ UNCHANGED single

Freeze ==
  /\ frozen' = TRUE
  /\ UNCHANGED <<events, pulses, single, calls, download, LED_mask>>

Clear ==
  /\ events' = NoEvents /\ frozen' = FALSE /\ pulses' = NoPulses /\ single' = {}
  /\ UNCHANGED <<calls, download, LED_mask>>

-----------------------------------------------------------------------------
(* From the timeline to rows.                                              *)

\* The events as a set, numbered by their calls; Python's sort by time keeps the
\* order of the calls where the times are equal.
Numbered(evts) ==
  UNION {{[c |-> c, t |-> evts[c][i].t, v |-> evts[c][i].v, n |-> 2 * i] :
            i \in DOMAIN evts[c]} : c \in Channels}
Before(e, f) == e.t < f.t \/ (e.t = f.t /\ e.n < f.n)
First(E) == CHOOSE e \in E : \A f \in E \ {e} : Before(e, f)
Latest(E) == CHOOSE e \in E : \A f \in E \ {e} : Before(f, e)
Later(E, e) == {f \in E : f.c = e.c /\ Before(e, f)}

LowAfter(e, t) == [c |-> e.c, t |-> t, v |-> 0, n |-> e.n + 1]

\* Mutation: a high that another high follows is ended by it.
EndedByNext(E, e) ==
  LET later == Later(E, e)
  IN IF later = {} THEN {LowAfter(e, e.t + EndPulse)}
     ELSE {LowAfter(e, f.t) : f \in {First(later)} \cap {g \in E : g.v = 1}}

\* The low that is added after a high which no low follows.
AddedLow(E, e) ==
  LET later == Later(E, e)
  IN IF later = {} THEN {LowAfter(e, e.t + EndPulse)}
     ELSE {LowAfter(e, (e.t + f.t) \div 2) : f \in {First(later)} \cap {g \in E : g.v = 1}}

\* _normalize_pulse_start_events
Normalized(evts) ==
  LET E == Numbered(evts) IN E \cup UNION {AddedLow(E, e) : e \in {f \in E : f.v = 1}}

\* The times of events in ascending order.
Axis(E) ==
  LET ts == {e.t : e \in E}
  IN [k \in 1..Cardinality(ts) |-> CHOOSE t \in ts : Cardinality({u \in ts : u < t}) = k - 1]

\* Mutation: an event takes effect after its time.
LevelBefore(E, c, t) ==
  LET past == {e \in E : e.c = c /\ e.t < t} IN past # {} /\ Latest(past).v = 1

LevelAt(E, c, t) ==
  LET past == {e \in E : e.c = c /\ e.t <= t} IN past # {} /\ Latest(past).v = 1

\* round(d / dt) of a quotient of floats: a half may go either way.
IsHalf(d) == 2 * (d % Tick) = Tick
Rounded(d, half_up) ==
  IF 2 * (d % Tick) > Tick \/ (IsHalf(d) /\ half_up) THEN d \div Tick + 1 ELSE d \div Tick

\* _build_compressed_waveform; the halves of the rows in `ups` are rounded up.
Compressed(E, axis, ups) ==
  [k \in 1..(Len(axis) - 1) |->
     [reps  |-> Rounded(axis[k + 1] - axis[k], k \in ups),
      state |-> {c \in Channels : LevelAt(E, c, axis[k])}]]

\* prepare_device_data_from_compressed: the words keep 32 bits of each duration, the
\* header 16 of the number of words.
Cut(n) == n % RepModulus
Words(rows) == [k \in DOMAIN rows |-> [rows[k] EXCEPT !.reps = Cut(@)]]
Announced(rows) == Len(rows) % CountModulus

\* Without rows there is no download.
SendStreambytes ==
  LET E == Normalized(events)
      axis == Axis(E)
  IN /\ Len(axis) > 1
     /\ \E ups \in SUBSET {k \in 1..(Len(axis) - 1) : IsHalf(axis[k + 1] - axis[k])} :
          /\ sent' = Words(Compressed(E, axis, ups))
          /\ group_count' = Announced(Compressed(E, axis, ups))
     /\ sent_for' = Recorded
     /\ UNCHANGED <<timeline, LED_mask>>

\* Mutation: LEDs of the channels that end high.
EndsHigh(evts) == evts # <<>> /\ evts[Len(evts)].v = 1

HasEvents(evts) == evts # <<>>

\* The two commands of set_done.
SetDone ==
  /\ LED_mask' = {c \in Channels : HasEvents(events[c])}
  /\ UNCHANGED <<timeline, download>>

Next ==
  \/ \E c \in Channels, t \in Times :
       \/ \E v \in 0..2 : Set(c, t, v)
       \/ \E width \in Widths : Pulse(c, t, width)
  \/ Freeze \/ Clear
  \/ SendStreambytes \/ SetDone

Spec == Init /\ [][Next]_vars

-----------------------------------------------------------------------------
(* Properties.                                                             *)

\* What a script can have recorded: no negative times, no third level.
TypeOK ==
  /\ events \in [Channels -> Seq([t : Nat, v : {0, 1}])]
  /\ frozen \in BOOLEAN /\ calls \in 0..MaxCalls /\ single \subseteq Channels
  /\ \A c \in Channels : \A p \in pulses[c] : 0 <= p.from /\ p.from < p.to
  /\ sent \in Seq([reps : 0..(RepModulus - 1), state : SUBSET Channels])
  /\ group_count \in 0..(CountModulus - 1)
  /\ LED_mask \subseteq Channels

SentAxis == Axis(Normalized(sent_for.events))

\* Every change of a level lies on the grid of dt.
Aligned(axis) == \A i \in DOMAIN axis : (axis[i] - axis[1]) % Tick = 0

\* When row k begins and at which ticks it is played, counted from the first event.
RowStart(axis, k) ==
  LET start[j \in 1..k] == IF j = 1 THEN axis[1] ELSE start[j - 1] + Tick * sent[j - 1].reps
  IN start[k]
Instants(axis, k) == {RowStart(axis, k) + Tick * n : n \in 0..(sent[k].reps - 1)}

\* No duration exceeds its 32 bits, no row is the marker of a WAIT, and the header
\* announces all rows: outside of this a download plays something else.
Marker == [reps |-> RepModulus - 1, state |-> {}]
Fits(axis) ==
  /\ group_count = Len(sent)
  /\ \A k \in DOMAIN sent : axis[k + 1] - axis[k] < Tick * RepModulus /\ sent[k] # Marker

OfChannel(E, c) == {e \in E : e.c = c}
InEffect(E, e, t) == e.t <= t /\ \A f \in Later(E, e) : t < f.t
Follows(E, f, e) == f \in Later(E, e) /\ \A g \in Later(E, e) \ {f} : Before(f, g)

\* What channel c does at time t, as far as the script says it: it is high only if
\* the last event so far is a high, it is high if a low ends that high, and if it was
\* given the starts of pulses only each of them, but the last, ends halfway to the next.
FollowsEvents(E, c, t, high) ==
  LET Own == OfChannel(E, c)
  IN /\ high => \E e \in Own : e.v = 1 /\ InEffect(E, e, t)
     /\ \A e, f \in Own :
          InEffect(E, e, t) /\ e.v = 1 /\ Follows(E, f, e) =>
            /\ f.v = 0 => high
            /\ (\A g \in Own : g.v = 1) => (high <=> 2 * t < e.t + f.t)

\* A download plays what the script has asked for from its first event to its last, at
\* every tick and whatever the order of the calls, if all changes lie on the grid and
\* fit.  What follows a high that another high follows, or that nothing follows, on a
\* channel with lows is left open here: see ExplicitLowsUnchanged.
PlaysWaveform ==
  LET axis == SentAxis
      E == Numbered(sent_for.events)
  IN sent # <<>> /\ Aligned(axis) /\ Fits(axis) =>
       /\ \A k \in DOMAIN sent : \A t \in Instants(axis, k) : \A c \in Channels :
            FollowsEvents(E, c, t, c \in sent[k].state)
       /\ RowStart(axis, Len(sent) + 1) = axis[Len(axis)]

\* The docstring of _normalize_pulse_start_events (dsgQosmos.py:251): events with an
\* explicit low stay as they are.  The code adds lows to such a channel, too.
ExplicitLowsUnchanged ==
  LET axis == SentAxis
      E == Numbered(sent_for.events)
  IN sent # <<>> /\ Aligned(axis) /\ Fits(axis) =>
       \A k \in DOMAIN sent : \A t \in Instants(axis, k) : \A c \in Channels :
         (\E e \in OfChannel(E, c) : e.v = 0)
           => (c \in sent[k].state <=> LevelAt(E, c, t))

\* A channel that only pulse() was called for is high during its pulses and at no
\* other time, if no two of them overlap or touch, all changes lie on the grid and fit.
PulsesPlayed ==
  LET axis == SentAxis
      Apart(p, q) == p = q \/ p.to < q.from \/ q.to < p.from
  IN sent # <<>> /\ Aligned(axis) /\ Fits(axis) =>
       \A c \in Channels \ sent_for.single :
         (\A p, q \in sent_for.pulses[c] : Apart(p, q))
           => \A k \in DOMAIN sent : \A t \in Instants(axis, k) :
                c \in sent[k].state
                  <=> \E p \in sent_for.pulses[c] : p.from <= t /\ t < p.to

\* set_done switches on the LED of every channel that the downloaded program raises,
\* unless the timeline was changed in between.
LedsCoverProgram ==
  [][LED_mask' # LED_mask /\ sent_for = Recorded
       => \A k \in DOMAIN sent : sent[k].state \subseteq LED_mask']_vars
=============================================================================
