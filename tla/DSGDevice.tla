------------------------------ MODULE DSGDevice ------------------------------
(***************************************************************************)
(* The DSG box at the far end of the UDP link.  Its firmware is not part   *)
(* of the repository: this module says of it only what the driver relies   *)
(* on (sdk_adapter.py, dsgQosmos.py and the command table of               *)
(* dsg_protocol.py), one action per command the BLACS worker sends.        *)
(*                                                                         *)
(* A 32-bit channel mask is the set of channels whose bit is 1.  A program *)
(* is the name of the shot whose STREAM_PROGRAM was downloaded, "none", or *)
(* "partial" when a download stopped half way.                             *)
(***************************************************************************)
EXTENDS Integers

CONSTANTS
  Channels,   \* output channels (CHANNEL_COUNT = 32 of them in the device)
  Shots,      \* names of the compiled shots
  Stop,       \* Stop[s]: duration of shot s in ticks (the property stop_time)
  HasWait     \* HasWait[s]: the program of s contains a SEGMENT_MARKER

ASSUME ShotsAssumption ==
  /\ {"none", "partial"} \cap Shots = {}
  /\ Stop \in [Shots -> Nat \ {0}]
  /\ HasWait \in [Shots -> BOOLEAN]

VARIABLES
  man_en,    \* channels under manual control
  man_val,   \* the level of each channel while it is under manual control
  prog,      \* the program in the instruction memory
  phase,     \* what the sequencer does
  left,      \* ticks of the program that are still to be played
  held,      \* the program still has a WAIT that no trigger has released
  loop,      \* the program restarts when it ends (CMD_KEEP)
  played     \* ghost: the program was played to its end since it was started

devVars == <<man_en, man_val, prog, phase, left, held, loop, played>>
manVars == <<man_en, man_val>>
runVars == <<phase, left, held, played>>

Phases == {"idle", "loaded", "armed", "running"}
Programs == Shots \cup {"none", "partial"}

DevTypeOK ==
  /\ man_en \in SUBSET Channels
  /\ man_val \in SUBSET Channels
  /\ prog \in Programs
  /\ phase \in Phases
  /\ left \in Nat
  /\ held \in BOOLEAN
  /\ loop \in BOOLEAN
  /\ played \in BOOLEAN

\* The device as it is switched on.
DevInit ==
  /\ man_en = {} /\ man_val = {}
  /\ prog = "none" /\ phase = "idle"
  /\ left = 0 /\ held = FALSE /\ loop = FALSE /\ played = FALSE

-----------------------------------------------------------------------------
(* Commands.                                                               *)

\* CMD_ABT stops the sequencer.
Abt ==
  /\ phase' = "idle"
  /\ left' = 0 /\ held' = FALSE
  /\ UNCHANGED <<manVars, prog, loop, played>>

\* CMD_CLS clears the instruction memory.
Cls ==
  /\ prog' = "none"
  /\ UNCHANGED <<manVars, runVars, loop>>

\* CMD_MAN with reserved = 0b01: per-channel manual enable and value; the
\* 0b00 form leaves manual mode and is the same write with both masks empty.
Man(en, val) ==
  /\ man_en' = en /\ man_val' = val
  /\ UNCHANGED <<prog, runVars, loop>>

\* CMD_KEEP selects what happens at the end of the program.
Keep(repeat) ==
  /\ loop' = repeat
  /\ UNCHANGED <<manVars, prog, runVars>>

\* CMD_ADM: header and data packets of a download.
Load(p) ==
  /\ prog' = p
  /\ UNCHANGED <<manVars, runVars, loop>>

\* CMD_SET: the host has finished the settings.
SetDone ==
  /\ phase' = "loaded"
  /\ played' = FALSE
  /\ UNCHANGED <<manVars, prog, left, held, loop>>

\* CMD_RUN: wait for the hardware trigger.
Arm ==
  /\ phase' = "armed"
  /\ UNCHANGED <<manVars, prog, left, held, loop, played>>

\* The sequencer begins the program in memory; an empty memory ends at once.
Begin ==
  /\ played' = FALSE
  /\ IF prog \in Shots
       THEN phase' = "running" /\ left' = Stop[prog] /\ held' = HasWait[prog]
       ELSE phase' = "idle" /\ left' = 0 /\ held' = FALSE
  /\ UNCHANGED <<manVars, prog, loop>>

\* Commands whose effect no property depends on: clock source, trigger mode,
\* LEDs, and the two queries.
Inert == UNCHANGED devVars

\* What CMD_STATUS may report: only an idle sequencer reports STATUS_IDLE,
\* and channels left in manual mode may make it report STATUS_MANUAL instead.
StatusCodes ==
  IF phase = "idle"
    THEN IF man_en = {} THEN {"idle"} ELSE {"idle", "other"}
    ELSE {"other"}

-----------------------------------------------------------------------------
(* What the device does by itself.                                         *)

\* An edge on the trigger input starts an armed device and releases a WAIT.
Trigger ==
  \/ phase = "armed" /\ Begin
  \/ /\ phase = "running" /\ held
     /\ held' = FALSE
     /\ UNCHANGED <<manVars, prog, phase, left, loop, played>>

\* One tick of time.  Where in the program its WAIT stands is not modelled:
\* while it is unreleased the last tick cannot be played, any earlier one may.
Pause == UNCHANGED devVars

PlayTick ==
  /\ left > 1
  /\ left' = left - 1
  /\ UNCHANGED <<manVars, prog, phase, held, loop, played>>

EndOfProgram ==
  /\ left = 1 /\ ~held
  /\ played' = TRUE
  /\ IF loop /\ prog \in Shots
       THEN phase' = "running" /\ left' = Stop[prog] /\ held' = HasWait[prog]
       ELSE phase' = "idle" /\ left' = 0 /\ held' = FALSE
  /\ UNCHANGED <<manVars, prog, loop>>

DevTick ==
  IF phase = "running"
    THEN PlayTick \/ EndOfProgram \/ (held /\ Pause)
    ELSE Pause
=============================================================================
