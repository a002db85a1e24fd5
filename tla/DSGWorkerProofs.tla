--------------------------- MODULE DSGWorkerProofs ---------------------------
(***************************************************************************)
(* Proofs about DSGWorker, for all channels, shots, settings and times and *)
(* for every choice of the commands the link may lose.                     *)
(*                                                                         *)
(* SafeInv is inductive by itself.  What does not hold of every link or    *)
(* with restarts of the worker process is inductive together with it under *)
(* the assumption its theorem names.                                       *)
(***************************************************************************)
EXTENDS DSGWorker, SequenceTheorems, TLAPS

Has(s, c) == \E i \in DOMAIN s : s[i] = c
Precedes(s, a, b) == \A i, j \in DOMAIN s : s[i] = a /\ s[j] = b => i < j

Active == phase \in {"armed", "running"}
Loaded(s) == IF Empty[s] THEN "none" ELSE s
InShot == mode \in {"buffered", "running", "done"}

\* Each worker function runs in its part of the cycle of a shot and sends
\* nothing but its own commands.
JobInv ==
  /\ job = "idle" => todo = <<>>
  /\ job = "transition_to_buffered" => mode = "entering"
  /\ job = "start_run" => mode = "buffered" /\ todo \in {<<"SWR">>, <<>>}
  /\ job = "program_manual" =>
       mode \in {"manual", "running"} /\ todo \in {<<"READ", "MAN">>, <<"MAN">>, <<>>}
  /\ job = "check_if_done" => mode = "running" /\ todo \in {<<"STATUS">>, <<>>}
  /\ job = "transition_to_manual" => mode = "leaving" /\ todo \in {<<"MAN">>, <<>>}
  /\ job = "abort_buffered" =>
       mode = "aborting" /\ todo \in {<<"ABT", "CLS">>, <<"CLS">>, <<>>}
  /\ mode # "manual" => shot \in Shots

\* What is still to be sent of a download, and in which order.
OrderInv ==
  job = "transition_to_buffered" =>
    /\ todo = BufferedCommands(shot) \/ Len(todo) < Len(BufferedCommands(shot))
    /\ \A c \in {"SWR", "READ", "MAN", "STATUS"} : ~Has(todo, c)
    /\ Has(todo, "RUN") => Source[shot] # "software"
    /\ Has(todo, "ADM") => ~Empty[shot]
    /\ Has(todo, "CLS") /\ ~Empty[shot] => Has(todo, "ADM")
    /\ Precedes(todo, "CLS", "ADM")
    /\ Precedes(todo, "CLS", "RUN")
    /\ Precedes(todo, "ADM", "RUN")

\* What has been reached of a download: once the abort is through nothing
\* plays before CMD_RUN, manual control is released by CMD_MAN and the memory
\* holds the program when no command that writes it is left.
DownloadInv ==
  job = "transition_to_buffered" =>
    /\ ~Has(todo, "AUTO") => man_en = {}
    /\ /\ todo # BufferedCommands(shot)
       /\ Has(todo, "ADM") \/ Has(todo, "CLS") \/ Source[shot] = "software"
       => ~Active
    /\ ~Has(todo, "CLS") /\ ~Has(todo, "ADM") => prog = Loaded(shot)

DeviceInv ==
  /\ Active => prog # "partial"
  /\ phase = "running" => prog \in Shots /\ left > 0
  /\ job = "abort_buffered" /\ todo # <<"ABT", "CLS">> => ~Active

ShotInv ==
  InShot =>
    /\ prog = Loaded(shot) /\ stop = Stop[shot]
    /\ armed = ~Empty[shot] /\ source = Source[shot]
    /\ man_en \subseteq touched
    /\ mode # "buffered" \/ job = "start_run" => source = "software"
    /\ mode = "buffered" /\ source = "software" /\ job # "start_run" => ~Active

\* The read-modify-write of program_manual.
ManualInv ==
  job = "program_manual" =>
    /\ mode = "running" => (new_mask \ gui) \cup (gui \ new_mask) \subseteq touched
    /\ todo = <<"MAN">> => seen = [en |-> man_en, val |-> man_val]

SafeInv ==
  TypeOK /\ JobInv /\ OrderInv /\ DownloadInv /\ DeviceInv /\ ShotInv /\ ManualInv

\* The channels under manual control have the levels v.
Levels(v) == \A c \in man_en : c \in man_val <=> c \in v

LevelsInv ==
  IF job = "program_manual" /\ todo = <<>> THEN Levels(new_mask) ELSE Levels(gui)

MaskInv ==
  /\ mode = "manual" /\ Active => man_en = Channels
  /\ job = "transition_to_manual" /\ todo = <<>> => man_en = Channels

\* The program was played or will be by the time Stop[shot], if it has been
\* running for t ticks.
Playing(t) == played \/ (phase = "running" /\ t + left <= stop)

PlayInv ==
  /\ held = FALSE
  /\ mode = "running" \/ job = "start_run" => phase # "armed"
  /\ job = "start_run" /\ todo = <<>> /\ armed => Playing(0)
  /\ mode = "running" /\ armed => elapsed # NoTime /\ Playing(elapsed)
  /\ job = "check_if_done" => elapsed # NoTime /\ age <= elapsed /\ stop <= age

\* The device repeats the program of a shot when the settings say so: CMD_KEEP is
\* through or on its way.
ModeInv ==
  /\ InShot /\ exec_mode # 0 => loop
  /\ job = "transition_to_buffered" /\ exec_mode # 0 => loop \/ Has(todo, "KEEP")

\* A shot that has been started was played or is running, and the answer to a
\* status query tells which.
StartedInv ==
  /\ mode = "running" \/ job = "start_run" => phase # "armed"
  /\ job = "start_run" /\ todo = <<>> /\ armed => played \/ phase = "running"
  /\ mode = "running" /\ armed => elapsed # NoTime /\ (played \/ phase = "running")
  /\ job = "check_if_done" /\ todo = <<>> /\ armed =>
       status \in {"idle", "other"} /\ (status = "idle" => played)

-----------------------------------------------------------------------------
(* Lists of commands.                                                      *)

\* Executing the first command of a list leaves the others pending.
LEMMA HasTail ==
  ASSUME NEW S, NEW s \in Seq(S), s # <<>>, NEW c
  PROVE  /\ Tail(s) \in Seq(S) /\ Len(Tail(s)) < Len(s)
         /\ Has(s, c) <=> Head(s) = c \/ Has(Tail(s), c)
<1>1. /\ Len(s) \in Nat \ {0} /\ Head(s) = s[1] /\ DOMAIN s = 1..Len(s)
      /\ Tail(s) \in Seq(S) /\ Len(Tail(s)) = Len(s) - 1
      /\ DOMAIN Tail(s) = 1..(Len(s) - 1)
      /\ \A i \in 1..(Len(s) - 1) : Tail(s)[i] = s[i + 1]
  OBVIOUS
<1>2. ASSUME Has(s, c), Head(s) # c PROVE Has(Tail(s), c)
  <2>1. PICK i \in 1..Len(s) : s[i] = c
    BY <1>1, <1>2 DEF Has
  <2>2. i - 1 \in 1..(Len(s) - 1) /\ (i - 1) + 1 = i
    BY <1>1, <1>2, <2>1
  <2> QED BY <1>1, <2>1, <2>2 DEF Has
<1>3. ASSUME Has(Tail(s), c) PROVE Has(s, c)
  <2>1. PICK i \in 1..(Len(s) - 1) : Tail(s)[i] = c
    BY <1>1, <1>3 DEF Has
  <2> QED BY <1>1, <2>1 DEF Has
<1>4. ASSUME Head(s) = c PROVE Has(s, c)
  BY <1>1, <1>4 DEF Has
<1> QED BY <1>1, <1>2, <1>3, <1>4

LEMMA HasConcat ==
  ASSUME NEW S, NEW s \in Seq(S), NEW t \in Seq(S), NEW c
  PROVE  Has(s \o t, c) <=> Has(s, c) \/ Has(t, c)
<1>1. /\ Len(s) \in Nat /\ Len(t) \in Nat
      /\ DOMAIN s = 1..Len(s) /\ DOMAIN t = 1..Len(t)
      /\ DOMAIN (s \o t) = 1..(Len(s) + Len(t))
      /\ \A i \in 1..(Len(s) + Len(t)) :
           (s \o t)[i] = IF i <= Len(s) THEN s[i] ELSE t[i - Len(s)]
  OBVIOUS
<1>2. ASSUME Has(t, c) PROVE Has(s \o t, c)
  <2>1. PICK i \in 1..Len(t) : t[i] = c
    BY <1>1, <1>2 DEF Has
  <2>2. /\ i + Len(s) \in 1..(Len(s) + Len(t)) /\ ~(i + Len(s) <= Len(s))
        /\ (i + Len(s)) - Len(s) = i
    BY <1>1, <2>1
  <2> QED BY <1>1, <2>1, <2>2 DEF Has
<1>3. ASSUME Has(s, c) PROVE Has(s \o t, c)
  BY <1>1, <1>3 DEF Has
<1>4. ASSUME Has(s \o t, c) PROVE Has(s, c) \/ Has(t, c)
  BY <1>1, <1>4 DEF Has
<1> QED BY <1>2, <1>3, <1>4

\* An order between two commands survives the first command; when the later of
\* the two comes first, the earlier one is not pending.
LEMMA PrecedesTail ==
  ASSUME NEW S, NEW s \in Seq(S), s # <<>>, NEW a, NEW b, Precedes(s, a, b)
  PROVE  Precedes(Tail(s), a, b) /\ (Head(s) = b => ~Has(s, a))
<1>1. /\ Len(s) \in Nat \ {0} /\ Head(s) = s[1] /\ DOMAIN s = 1..Len(s)
      /\ DOMAIN Tail(s) = 1..(Len(s) - 1)
      /\ \A i \in 1..(Len(s) - 1) : Tail(s)[i] = s[i + 1]
  OBVIOUS
<1>2. \A i, j \in 1..Len(s) : s[i] = a /\ s[j] = b => i < j
  BY <1>1 DEF Precedes
<1>3. Precedes(Tail(s), a, b)
  <2> SUFFICES ASSUME NEW i \in 1..(Len(s) - 1), NEW j \in 1..(Len(s) - 1),
                      Tail(s)[i] = a, Tail(s)[j] = b
               PROVE  i < j
    BY <1>1 DEF Precedes
  <2>1. i + 1 \in 1..Len(s) /\ j + 1 \in 1..Len(s)
    BY <1>1
  <2>2. i + 1 < j + 1
    BY <1>1, <1>2, <2>1
  <2> QED BY <2>2
<1>4. ASSUME Head(s) = b, Has(s, a) PROVE FALSE
  <2>1. PICK i \in 1..Len(s) : s[i] = a
    BY <1>1, <1>4 DEF Has
  <2>2. i < 1
    BY <1>1, <1>2, <1>4, <2>1
  <2> QED BY <2>1, <2>2
<1> QED BY <1>3, <1>4

LEMMA PrecedesConcat ==
  ASSUME NEW S, NEW s \in Seq(S), NEW t \in Seq(S), NEW a, NEW b,
         Precedes(s, a, b), Precedes(t, a, b), ~Has(s, b) \/ ~Has(t, a)
  PROVE  Precedes(s \o t, a, b)
<1>1. /\ Len(s) \in Nat /\ Len(t) \in Nat
      /\ DOMAIN s = 1..Len(s) /\ DOMAIN t = 1..Len(t)
      /\ DOMAIN (s \o t) = 1..(Len(s) + Len(t))
      /\ \A i \in 1..(Len(s) + Len(t)) :
           (s \o t)[i] = IF i <= Len(s) THEN s[i] ELSE t[i - Len(s)]
  OBVIOUS
<1>2. SUFFICES ASSUME NEW i \in 1..(Len(s) + Len(t)),
                      NEW j \in 1..(Len(s) + Len(t)),
                      (s \o t)[i] = a, (s \o t)[j] = b
               PROVE  i < j
  BY <1>1 DEF Precedes
<1>3. CASE i <= Len(s) /\ j <= Len(s)
  BY <1>1, <1>2, <1>3 DEF Precedes
<1>4. CASE i <= Len(s) /\ ~(j <= Len(s))
  BY <1>1, <1>4
<1>5. CASE ~(i <= Len(s)) /\ j <= Len(s)
  <2>1. i - Len(s) \in 1..Len(t) /\ t[i - Len(s)] = a /\ j \in 1..Len(s) /\ s[j] = b
    BY <1>1, <1>2, <1>5
  <2> QED BY <1>1, <2>1 DEF Has
<1>6. CASE ~(i <= Len(s)) /\ ~(j <= Len(s))
  <2>1. /\ i - Len(s) \in 1..Len(t) /\ t[i - Len(s)] = a
        /\ j - Len(s) \in 1..Len(t) /\ t[j - Len(s)] = b
    BY <1>1, <1>2, <1>6
  <2>2. i - Len(s) < j - Len(s)
    BY <1>1, <2>1 DEF Precedes
  <2> QED BY <1>1, <2>2
<1> QED BY <1>3, <1>4, <1>5, <1>6

LEMMA PrecedesVacuous ==
  ASSUME NEW s, NEW a, NEW b, ~Has(s, a) \/ ~Has(s, b)
  PROVE  Precedes(s, a, b)
BY DEF Has, Precedes

LEMMA HeadConcat ==
  ASSUME NEW S, NEW s \in Seq(S), NEW t \in Seq(S), s # <<>>
  PROVE  s \o t \in Seq(S) /\ s \o t # <<>> /\ Head(s \o t) = Head(s)
OBVIOUS

-----------------------------------------------------------------------------
(* The commands of transition_to_buffered.                                 *)

LEMMA BufferedShape ==
  ASSUME NEW s \in Shots
  PROVE  LET B == BufferedCommands(s) IN
         /\ B \in Seq(Commands) /\ B # <<>> /\ Head(B) = "ABT"
         /\ \A c \in {"SWR", "READ", "MAN", "STATUS"} : ~Has(B, c)
         /\ Has(B, "AUTO") /\ Has(B, "CLS")
         /\ exec_mode # 0 => Has(B, "KEEP")
         /\ Has(B, "RUN") => Source[s] # "software"
         /\ Has(B, "ADM") <=> ~Empty[s]
         /\ Precedes(B, "CLS", "ADM")
         /\ Precedes(B, "CLS", "RUN")
         /\ Precedes(B, "ADM", "RUN")
<1> DEFINE init1 == <<"ABT", "LED", "AUTO", "CLK", "TRIG", "LED_EN">>
           keep == Optional(exec_mode # 0, "KEEP")
           init2 == <<"LED", "AUTO", "CLS">>
           adm == Optional(~Empty[s], "ADM")
           fin == <<"SET", "LED">>
           run == Optional(Source[s] # "software", "RUN")
<1>1. /\ <<>> \in Seq(Commands) /\ \A d : ~Has(<<>>, d)
      /\ \A c \in Commands : <<c>> \in Seq(Commands) /\ (\A d : Has(<<c>>, d) <=> c = d)
  BY DEF Has
<1>2. /\ AbortCommands \in Seq(Commands)
      /\ AbortCommands # <<>> /\ Head(AbortCommands) = "ABT"
      /\ \A d : Has(AbortCommands, d) <=> d \in {"ABT", "CLS"}
  BY DEF AbortCommands, Has, Commands
<1>3. /\ init1 \in Seq(Commands)
      /\ \A d : Has(init1, d) <=> d \in {"ABT", "LED", "AUTO", "CLK", "TRIG", "LED_EN"}
  BY DEF Has, Commands
<1>4. /\ init2 \in Seq(Commands)
      /\ \A d : Has(init2, d) <=> d \in {"LED", "AUTO", "CLS"}
  BY DEF Has, Commands
<1>5. /\ fin \in Seq(Commands)
      /\ \A d : Has(fin, d) <=> d \in {"SET", "LED"}
  BY DEF Has, Commands
<1>6. /\ keep \in Seq(Commands)
      /\ \A d : Has(keep, d) <=> exec_mode # 0 /\ d = "KEEP"
  BY <1>1 DEF Optional, Commands
<1>7. /\ adm \in Seq(Commands)
      /\ \A d : Has(adm, d) <=> ~Empty[s] /\ d = "ADM"
  BY <1>1 DEF Optional, Commands
<1>8. /\ run \in Seq(Commands)
      /\ \A d : Has(run, d) <=> Source[s] # "software" /\ d = "RUN"
  BY <1>1 DEF Optional, Commands
<1>9. /\ InitDevice = (init1 \o keep) \o init2
      /\ BufferedCommands(s) = (((AbortCommands \o InitDevice) \o adm) \o fin) \o run
  BY DEF InitDevice, BufferedCommands
<1> HIDE DEF init1, keep, init2, adm, fin, run
<1> DEFINE init == init1 \o keep
           b1 == AbortCommands \o InitDevice
           b2 == b1 \o adm
           b3 == b2 \o fin
           b4 == b3 \o run
<1>10. /\ init \in Seq(Commands)
       /\ \A d : Has(init, d) <=> Has(init1, d) \/ Has(keep, d)
  BY <1>3, <1>6, HasConcat
<1> HIDE DEF init
<1>11. /\ init \o init2 \in Seq(Commands)
       /\ \A d : Has(init \o init2, d) <=> Has(init, d) \/ Has(init2, d)
  BY <1>4, <1>10, HasConcat
<1>12. /\ InitDevice \in Seq(Commands)
       /\ \A d : Has(InitDevice, d) <=> Has(init, d) \/ Has(init2, d)
  BY <1>9, <1>11 DEF init
<1>13. /\ b1 \in Seq(Commands) /\ b1 # <<>> /\ Head(b1) = "ABT"
       /\ \A d : Has(b1, d) <=> Has(AbortCommands, d) \/ Has(InitDevice, d)
  BY <1>2, <1>12, HasConcat, HeadConcat
<1> HIDE DEF b1
<1>14. /\ ~Has(b1, "ADM") /\ ~Has(b1, "RUN")
       /\ ~Has(adm, "CLS") /\ ~Has(adm, "RUN")
       /\ ~Has(fin, "CLS") /\ ~Has(fin, "ADM") /\ ~Has(fin, "RUN")
       /\ ~Has(run, "CLS") /\ ~Has(run, "ADM")
  <2>1. ASSUME NEW c \in {"ADM", "RUN"} PROVE ~Has(b1, c)
    <3>1. ~Has(init1, c) /\ ~Has(keep, c) /\ ~Has(init2, c) /\ ~Has(AbortCommands, c)
      BY <1>2, <1>3, <1>4, <1>6
    <3> QED BY <1>10, <1>12, <1>13, <3>1
  <2> QED BY <1>5, <1>7, <1>8, <2>1
<1>15. /\ b2 \in Seq(Commands) /\ b2 # <<>> /\ Head(b2) = "ABT"
       /\ \A d : Has(b2, d) <=> Has(b1, d) \/ Has(adm, d)
       /\ Precedes(b2, "CLS", "ADM")
  <2>1. Precedes(b2, "CLS", "ADM")
    BY <1>7, <1>13, <1>14, PrecedesVacuous, PrecedesConcat
  <2> QED BY <1>7, <1>13, <2>1, HasConcat, HeadConcat
<1> HIDE DEF b2
<1>16. /\ b3 \in Seq(Commands) /\ b3 # <<>> /\ Head(b3) = "ABT"
       /\ \A d : Has(b3, d) <=> Has(b2, d) \/ Has(fin, d)
       /\ Precedes(b3, "CLS", "ADM")
  <2>1. Precedes(b3, "CLS", "ADM")
    BY <1>5, <1>14, <1>15, PrecedesVacuous, PrecedesConcat
  <2> QED BY <1>5, <1>15, <2>1, HasConcat, HeadConcat
<1> HIDE DEF b3
<1>17. /\ b4 \in Seq(Commands) /\ b4 # <<>> /\ Head(b4) = "ABT"
       /\ \A d : Has(b4, d) <=> Has(b3, d) \/ Has(run, d)
       /\ Precedes(b4, "CLS", "ADM")
       /\ Precedes(b4, "CLS", "RUN")
       /\ Precedes(b4, "ADM", "RUN")
  <2>1. ~Has(b3, "RUN")
    BY <1>14, <1>15, <1>16
  <2>2. Precedes(b4, "CLS", "ADM")
    BY <1>8, <1>14, <1>16, PrecedesVacuous, PrecedesConcat
  <2>3. Precedes(b4, "CLS", "RUN")
    BY <1>8, <1>14, <1>16, <2>1, PrecedesVacuous, PrecedesConcat
  <2>4. Precedes(b4, "ADM", "RUN")
    BY <1>8, <1>14, <1>16, <2>1, PrecedesVacuous, PrecedesConcat
  <2> QED BY <1>8, <1>16, <2>2, <2>3, <2>4, HasConcat, HeadConcat
<1>18. BufferedCommands(s) = b4
  BY <1>9 DEF b1, b2, b3
<1> HIDE DEF b4
<1>19. \A d : Has(b4, d) <=>
         \/ d \in {"ABT", "CLS", "LED", "AUTO", "CLK", "TRIG", "LED_EN", "SET"}
         \/ exec_mode # 0 /\ d = "KEEP"
         \/ ~Empty[s] /\ d = "ADM"
         \/ Source[s] # "software" /\ d = "RUN"
  BY <1>2, <1>3, <1>4, <1>5, <1>6, <1>7, <1>8, <1>10, <1>12, <1>13, <1>15,
     <1>16, <1>17
<1> QED BY <1>17, <1>18, <1>19

-----------------------------------------------------------------------------
(* Type correctness.                                                       *)

LEMMA BeginType ==
  ASSUME DevTypeOK, Begin
  PROVE  DevTypeOK'
<1> USE ShotsAssumption DEF DevTypeOK, devVars, manVars, runVars, Phases, Programs
<1>1. CASE prog \in Shots
  BY <1>1 DEF Begin
<1>2. CASE prog \notin Shots
  <2>1. /\ phase' = "idle" /\ left' = 0 /\ held' = FALSE /\ played' = FALSE
        /\ man_en' = man_en /\ man_val' = man_val /\ prog' = prog /\ loop' = loop
    BY <1>2 DEF Begin
  <2> QED BY <2>1
<1> QED BY <1>1, <1>2

\* One command, whatever its exchange comes to, keeps the device's types.
LEMMA ExecuteType ==
  ASSUME TypeOK, mode # "manual" => shot \in Shots, NEW c \in Commands,
         c = "ADM" => job = "transition_to_buffered" /\ mode = "entering",
         Execute(c)
  PROVE  DevTypeOK'
<1> USE ShotsAssumption DEF DevTypeOK, devVars, manVars, runVars
<1>0. DevTypeOK /\ JobTypeOK /\ WorkerTypeOK
  BY DEF TypeOK
<1> USE <1>0
<1>1. CASE c = "ABT" /\ Abt
  BY <1>1 DEF Abt, Phases, Programs
<1>2. CASE c = "CLS" /\ Cls
  BY <1>2 DEF Cls, Phases, Programs
<1>3. CASE c = "AUTO" /\ Man({}, {})
  BY <1>3 DEF Man, Phases, Programs
<1>4. CASE c = "KEEP" /\ Keep(exec_mode # 0)
  BY <1>4 DEF Keep
<1>5. CASE c = "ADM" /\ Load(shot)
  BY <1>5 DEF Load, Programs
<1>6. CASE c = "SET" /\ SetDone
  BY <1>6 DEF SetDone, Phases
<1>7. CASE c = "RUN" /\ Arm
  BY <1>7 DEF Arm, Phases
<1>8. CASE c = "SWR" /\ Begin
  BY <1>8, BeginType DEF TypeOK
<1>9. CASE c = "MAN" /\ Man(ManualEnable, ManualValue)
  <2>1. ManualEnable \in SUBSET Channels /\ ManualValue \in SUBSET Channels
    BY DEF ManualEnable, ManualValue, newly_high, newly_low, JobTypeOK, WorkerTypeOK
  <2> QED BY <1>9, <2>1 DEF Man
<1>10. CASE Inert
  BY <1>10 DEF Inert
<1> QED BY <1>1, <1>2, <1>3, <1>4, <1>5, <1>6, <1>7, <1>8, <1>9, <1>10 DEF Execute

LEMMA TodoType ==
  ASSUME todo \in Seq(Commands), todo # <<>>
  PROVE  Head(todo) \in Commands /\ Tail(todo) \in Seq(Commands)
OBVIOUS

LEMMA TypeInit == Init => TypeOK
<1> SUFFICES ASSUME Init PROVE TypeOK
  OBVIOUS
<1> USE WorkerAssumption DEF Init, DevInit, FreshWorker
<1>1. DevTypeOK
  BY DEF DevTypeOK, Phases, Programs
<1>2. JobTypeOK
  BY DEF JobTypeOK, Jobs, NothingSeen, Horizon
<1>3. /\ elapsed \in 0..Horizon \cup {NoTime} /\ stop \in 0..MaxStop
      /\ sinceQuery \in 0..QueryInterval
  OBVIOUS
<1>4. WorkerTypeOK
  BY <1>3 DEF WorkerTypeOK, Modes
<1> QED BY <1>1, <1>2, <1>4 DEF TypeOK

LEMMA EndJobType == EndJob => JobTypeOK'
BY WorkerAssumption DEF EndJob, JobTypeOK, Jobs, NothingSeen, Horizon

\* The functions that send one or two commands.
LEMMA ShortLists ==
  /\ <<>> \in Seq(Commands)
  /\ <<"SWR">> \in Seq(Commands) /\ <<"STATUS">> \in Seq(Commands)
  /\ <<"MAN">> \in Seq(Commands) /\ <<"READ", "MAN">> \in Seq(Commands)
  /\ AbortCommands \in Seq(Commands)
BY DEF Commands, AbortCommands

LEMMA JobTypeStep ==
  ASSUME TypeOK, [Next]_vars
  PROVE  JobTypeOK'
<1> USE WorkerAssumption DEF TypeOK, JobTypeOK, Start
<1>1. ASSUME NEW s \in Shots, CallTransitionToBuffered(s) PROVE JobTypeOK'
  <2>1. BufferedCommands(s) \in Seq(Commands)
    BY BufferedShape
  <2> QED BY <1>1, <2>1 DEF CallTransitionToBuffered, Jobs
<1>2. CASE CallStartRun
  BY <1>2, ShortLists DEF CallStartRun, Jobs
<1>3. ASSUME NEW v \in SUBSET Channels, CallProgramManual(v) PROVE JobTypeOK'
  BY <1>3, ShortLists DEF CallProgramManual, Jobs
<1>4. CASE CallTransitionToManual
  BY <1>4, ShortLists DEF CallTransitionToManual, Jobs
<1>5. CASE CallAbortBuffered
  BY <1>5, ShortLists DEF CallAbortBuffered, Jobs
<1>6. ASSUME NEW f \in BOOLEAN, CallCheckIfDone(f) PROVE JobTypeOK'
  <2>1. age' \in 0..Horizon
    BY <1>6 DEF CallCheckIfDone, WorkerTypeOK
  <2> QED BY <1>6, <2>1, ShortLists DEF CallCheckIfDone, Jobs
<1>7. CASE CommandSucceeds
  BY <1>7, TodoType DEF CommandSucceeds, StatusCodes, DevTypeOK
<1>8. CASE StatusUnknown
  BY <1>8, TodoType DEF StatusUnknown
<1>9. CASE CommandRaises \/ Returns \/ RestartWorker
  BY <1>9, EndJobType
     DEF CommandRaises, Returns, ReturnTransitionToBuffered, ReturnStartRun,
         ReturnProgramManual, ReturnTransitionToManual, ReturnAbortBuffered,
         ReturnCheckIfDone, Return, RestartWorker
<1>10. CASE UNCHANGED jobVars
  BY <1>10 DEF jobVars
<1> QED BY <1>1, <1>2, <1>3, <1>4, <1>5, <1>6, <1>7, <1>8, <1>9, <1>10
        DEF Next, Calls, WorkerStep, CheckWithoutQuery, Tick, TriggerInput, vars

LEMMA WorkerTypeStep ==
  ASSUME TypeOK, JobInv, [Next]_vars
  PROVE  WorkerTypeOK'
<1> USE WorkerAssumption DEF TypeOK, WorkerTypeOK, Modes, bufVars, timeVars
<1>1. ASSUME NEW s \in Shots, CallTransitionToBuffered(s) PROVE WorkerTypeOK'
  BY <1>1 DEF CallTransitionToBuffered
<1>2. CASE CallStartRun
  BY <1>2 DEF CallStartRun
<1>3. ASSUME NEW v \in SUBSET Channels, CallProgramManual(v) PROVE WorkerTypeOK'
  BY <1>3 DEF CallProgramManual
<1>4. CASE CallTransitionToManual
  <2>1. elapsed' \in 0..Horizon \cup {NoTime} /\ stop' \in 0..MaxStop
    BY <1>4 DEF CallTransitionToManual
  <2> QED BY <1>4, <2>1 DEF CallTransitionToManual
<1>5. CASE CallAbortBuffered
  BY <1>5 DEF CallAbortBuffered
<1>6. ASSUME NEW f \in BOOLEAN, CheckWithoutQuery(f) PROVE WorkerTypeOK'
  BY <1>6 DEF CheckWithoutQuery, ReportDone
<1>7. ASSUME NEW f \in BOOLEAN, CallCheckIfDone(f) PROVE WorkerTypeOK'
  BY <1>7 DEF CallCheckIfDone
<1>8. CASE CommandSucceeds
  BY <1>8 DEF CommandSucceeds
<1>9. CASE CommandRaises
  BY <1>9 DEF CommandRaises
<1>10. CASE StatusUnknown
  BY <1>10 DEF StatusUnknown
<1>11. CASE ReturnTransitionToBuffered
  BY <1>11, ShotsAssumption DEF ReturnTransitionToBuffered, Return, JobInv, Horizon
<1>12. CASE ReturnStartRun
  BY <1>12 DEF ReturnStartRun, Horizon
<1>13. CASE ReturnProgramManual
  BY <1>13 DEF ReturnProgramManual, JobTypeOK
<1>14. CASE ReturnTransitionToManual
  BY <1>14 DEF ReturnTransitionToManual
<1>15. CASE ReturnAbortBuffered
  BY <1>15 DEF ReturnAbortBuffered
<1>16. CASE ReturnCheckIfDone
  BY <1>16 DEF ReturnCheckIfDone
<1>17. CASE RestartWorker
  <2>1. /\ elapsed' \in 0..Horizon \cup {NoTime} /\ stop' \in 0..MaxStop
        /\ sinceQuery' \in 0..QueryInterval
    BY <1>17 DEF RestartWorker
  <2>2. /\ mode' \in Modes /\ gui' \in SUBSET Channels /\ armed' \in BOOLEAN
        /\ source' \in {"software", "external"} /\ exec_mode' \in ExecModes
        /\ shot' = shot /\ touched' = touched
    BY <1>17 DEF RestartWorker
  <2> QED BY <2>1, <2>2
<1>18. CASE Tick
  BY <1>18 DEF Tick, Later, Horizon, NoTime
<1>19. CASE TriggerInput
  BY <1>19 DEF TriggerInput
<1>20. CASE UNCHANGED vars
  BY <1>20 DEF vars
<1> QED BY <1>1, <1>2, <1>3, <1>4, <1>5, <1>6, <1>7, <1>8, <1>9, <1>10, <1>11,
           <1>12, <1>13, <1>14, <1>15, <1>16, <1>17, <1>18, <1>19, <1>20
        DEF Next, Calls, WorkerStep, Returns

LEMMA ShortHeads ==
  /\ Head(<<"SWR">>) = "SWR" /\ Tail(<<"SWR">>) = <<>>
  /\ Head(<<"STATUS">>) = "STATUS" /\ Tail(<<"STATUS">>) = <<>>
  /\ Head(<<"MAN">>) = "MAN" /\ Tail(<<"MAN">>) = <<>>
  /\ Head(<<"READ", "MAN">>) = "READ" /\ Tail(<<"READ", "MAN">>) = <<"MAN">>
  /\ Head(<<"CLS">>) = "CLS" /\ Tail(<<"CLS">>) = <<>>
  /\ Head(<<"ABT", "CLS">>) = "ABT" /\ Tail(<<"ABT", "CLS">>) = <<"CLS">>
OBVIOUS

\* Which command comes first in which function, and what it leaves.
LEMMA JobHead ==
  ASSUME TypeOK, JobInv, OrderInv, todo # <<>>
  PROVE  /\ Head(todo) \in Commands
         /\ \/ /\ job = "transition_to_buffered" /\ mode = "entering" /\ shot \in Shots
               /\ Head(todo) \notin {"SWR", "READ", "MAN", "STATUS"}
            \/ /\ job = "start_run" /\ mode = "buffered" /\ shot \in Shots
               /\ Head(todo) = "SWR" /\ Tail(todo) = <<>>
            \/ /\ job = "program_manual" /\ mode \in {"manual", "running"}
               /\ \/ Head(todo) = "READ" /\ Tail(todo) = <<"MAN">>
                  \/ todo = <<"MAN">> /\ Head(todo) = "MAN" /\ Tail(todo) = <<>>
            \/ /\ job = "check_if_done" /\ mode = "running"
               /\ Head(todo) = "STATUS" /\ Tail(todo) = <<>>
            \/ /\ job = "transition_to_manual" /\ mode = "leaving"
               /\ Head(todo) = "MAN" /\ Tail(todo) = <<>>
            \/ /\ job = "abort_buffered" /\ mode = "aborting"
               /\ \/ todo = <<"ABT", "CLS">> /\ Head(todo) = "ABT" /\ Tail(todo) = <<"CLS">>
                  \/ todo = <<"CLS">> /\ Head(todo) = "CLS" /\ Tail(todo) = <<>>
<1>1. todo \in Seq(Commands) /\ job \in Jobs
  BY DEF TypeOK, JobTypeOK
<1>2. CASE job = "transition_to_buffered"
  <2>1. Has(todo, Head(todo))
    BY <1>1, HasTail
  <2> QED BY <1>1, <1>2, <2>1, TodoType DEF JobInv, OrderInv
<1>3. Head(todo) \in Commands
  BY <1>1, TodoType
<1>4. CASE job = "start_run"
  BY <1>3, <1>4, ShortHeads DEF JobInv
<1>5. CASE job = "program_manual"
  BY <1>3, <1>5, ShortHeads DEF JobInv
<1>6. CASE job = "check_if_done"
  BY <1>3, <1>6, ShortHeads DEF JobInv
<1>7. CASE job = "transition_to_manual"
  BY <1>3, <1>7, ShortHeads DEF JobInv
<1>8. CASE job = "abort_buffered"
  BY <1>3, <1>8, ShortHeads DEF JobInv
<1> QED BY <1>1, <1>2, <1>4, <1>5, <1>6, <1>7, <1>8 DEF JobInv, Jobs

LEMMA DevTypeStep ==
  ASSUME TypeOK, JobInv, OrderInv, [Next]_vars
  PROVE  DevTypeOK'
<1> USE ShotsAssumption DEF DevTypeOK, devVars, manVars, runVars
<1>1. DevTypeOK
  BY DEF TypeOK
<1>2. ASSUME todo # <<>>, Execute(Head(todo)) PROVE DevTypeOK'
  BY <1>2, JobHead, ExecuteType DEF JobInv
<1>3. ASSUME todo # <<>>, FailedExchange(Head(todo)) PROVE DevTypeOK'
  <2>1. CASE Load("partial")
    BY <1>1, <2>1 DEF Load, Programs
  <2>2. CASE Inert
    BY <1>1, <2>2 DEF Inert
  <2> QED BY <1>2, <1>3, <2>1, <2>2 DEF FailedExchange
<1>4. CASE CommandSucceeds \/ CommandRaises \/ StatusUnknown
  BY <1>2, <1>3, <1>4 DEF CommandSucceeds, CommandRaises, StatusUnknown
<1>6. CASE Tick
  <2>1. CASE Pause
    BY <1>1, <2>1 DEF Pause
  <2>2. CASE PlayTick
    BY <1>1, <2>2 DEF PlayTick
  <2>3. CASE EndOfProgram
    <3>1. CASE loop /\ prog \in Shots
      BY <1>1, <2>3, <3>1 DEF EndOfProgram, Phases
    <3>2. CASE ~(loop /\ prog \in Shots)
      <4>1. /\ phase' = "idle" /\ left' = 0 /\ held' = FALSE /\ played' = TRUE
            /\ man_en' = man_en /\ man_val' = man_val /\ prog' = prog /\ loop' = loop
        BY <2>3, <3>2 DEF EndOfProgram
      <4> QED BY <1>1, <4>1 DEF Phases
    <3> QED BY <3>1, <3>2
  <2> QED BY <1>6, <2>1, <2>2, <2>3 DEF Tick, DevTick
<1>7. CASE TriggerInput
  <2>1. CASE held /\ held' = FALSE /\ UNCHANGED <<manVars, prog, phase, left, loop, played>>
    BY <1>1, <2>1
  <2> QED BY <1>1, <1>7, <2>1, BeginType DEF TriggerInput, Trigger
<1>8. CASE UNCHANGED devVars
  BY <1>1, <1>8
<1> QED BY <1>4, <1>6, <1>7, <1>8
        DEF Next, Calls, WorkerStep, Returns, CallTransitionToBuffered, CallStartRun,
            CallProgramManual, CallTransitionToManual, CallAbortBuffered,
            CheckWithoutQuery, ReportDone, CallCheckIfDone,
            ReturnTransitionToBuffered, ReturnStartRun, ReturnProgramManual,
            ReturnTransitionToManual, ReturnAbortBuffered, ReturnCheckIfDone,
            RestartWorker, vars

LEMMA TypeStep ==
  ASSUME TypeOK, JobInv, OrderInv, [Next]_vars
  PROVE  TypeOK'
BY DevTypeStep, JobTypeStep, WorkerTypeStep DEF TypeOK

-----------------------------------------------------------------------------
(* The jobs and their commands.                                            *)

LEMMA JobStep ==
  ASSUME TypeOK, JobInv, OrderInv, [Next]_vars
  PROVE  JobInv'
<1> USE DEF JobInv, Start
<1>1. ASSUME NEW s \in Shots, CallTransitionToBuffered(s) PROVE JobInv'
  BY <1>1 DEF CallTransitionToBuffered
<1>2. CASE CallStartRun
  BY <1>2 DEF CallStartRun
<1>3. ASSUME NEW v \in SUBSET Channels, CallProgramManual(v) PROVE JobInv'
  BY <1>3 DEF CallProgramManual
<1>4. CASE CallTransitionToManual
  BY <1>4 DEF CallTransitionToManual
<1>5. CASE CallAbortBuffered
  BY <1>5 DEF CallAbortBuffered, AbortCommands
<1>6. ASSUME NEW f \in BOOLEAN, CheckWithoutQuery(f) PROVE JobInv'
  BY <1>6 DEF CheckWithoutQuery, ReportDone, jobVars
<1>7. ASSUME NEW f \in BOOLEAN, CallCheckIfDone(f) PROVE JobInv'
  BY <1>7 DEF CallCheckIfDone
<1>8. CASE CommandSucceeds \/ StatusUnknown
  <2>1. /\ todo # <<>> /\ todo' = Tail(todo)
        /\ mode' = mode /\ job' = job /\ shot' = shot
    BY <1>8 DEF CommandSucceeds, StatusUnknown
  <2> QED BY <2>1, JobHead
<1>9. CASE CommandRaises
  <2>1. /\ job' = "idle" /\ todo' = <<>> /\ shot' = shot
        /\ mode' \in {"running", mode} /\ (mode' # mode => job = "start_run")
    BY <1>9 DEF CommandRaises, EndJob
  <2> QED BY <2>1
<1>10. CASE Returns
  <2>1. /\ job' = "idle" /\ todo' = <<>> /\ shot' = shot
        /\ mode' # "manual" => shot \in Shots
    BY <1>10 DEF Returns, ReturnTransitionToBuffered, ReturnStartRun,
         ReturnProgramManual, ReturnTransitionToManual, ReturnAbortBuffered,
         ReturnCheckIfDone, Return, EndJob
  <2> QED BY <2>1
<1>11. CASE RestartWorker
  BY <1>11 DEF RestartWorker, EndJob
<1>12. CASE UNCHANGED <<mode, jobVars, shot>>
  BY <1>12 DEF jobVars
<1> QED BY <1>1, <1>2, <1>3, <1>4, <1>5, <1>6, <1>7, <1>8, <1>9, <1>10, <1>11, <1>12
        DEF Next, Calls, WorkerStep, Tick, TriggerInput, vars

\* Sending a command keeps what OrderInv says of the remaining ones.
LEMMA OrderStep ==
  ASSUME TypeOK, JobInv, OrderInv, [Next]_vars
  PROVE  OrderInv'
<1>1. todo \in Seq(Commands)
  BY DEF TypeOK, JobTypeOK
<1>2. ASSUME NEW s \in Shots, CallTransitionToBuffered(s) PROVE OrderInv'
  <2>1. /\ shot' = s /\ todo' = BufferedCommands(s) /\ exec_mode' = exec_mode
    BY <1>2 DEF CallTransitionToBuffered, Start
  <2>2. BufferedCommands(s)' = BufferedCommands(s)
    BY <2>1 DEF BufferedCommands, InitDevice
  <2> QED BY <2>1, <2>2, BufferedShape DEF OrderInv
<1>3. ASSUME job = "transition_to_buffered", CommandSucceeds \/ StatusUnknown
      PROVE  OrderInv'
  <2>1. /\ todo # <<>> /\ todo' = Tail(todo) /\ shot' = shot /\ exec_mode' = exec_mode
    BY <1>3 DEF CommandSucceeds, StatusUnknown
  <2>2. shot \in Shots /\ BufferedCommands(shot) \in Seq(Commands)
    BY <1>3, BufferedShape DEF JobInv
  <2>3. BufferedCommands(shot)' = BufferedCommands(shot)
    BY <2>1 DEF BufferedCommands, InitDevice
  <2>4. /\ Len(Tail(todo)) < Len(todo) /\ Tail(todo) \in Seq(Commands)
        /\ \A c : Has(todo, c) <=> Head(todo) = c \/ Has(Tail(todo), c)
    BY <1>1, <2>1, HasTail
  <2>5. Len(Tail(todo)) < Len(BufferedCommands(shot))
    <3>1. Len(todo) \in Nat /\ Len(Tail(todo)) \in Nat /\ Len(BufferedCommands(shot)) \in Nat
      BY <1>1, <2>2, <2>4
    <3>2. Len(todo) <= Len(BufferedCommands(shot))
      BY <1>3, <3>1 DEF OrderInv
    <3> QED BY <2>4, <3>1, <3>2
  <2>6. ASSUME NEW a, NEW b, Precedes(todo, a, b)
        PROVE  Precedes(Tail(todo), a, b) /\ (Head(todo) = b => ~Has(todo, a))
    BY <1>1, <2>1, <2>6, PrecedesTail
  <2>7. Has(todo, "CLS") /\ Head(todo) = "ADM" => FALSE
    BY <1>3, <2>6 DEF OrderInv
  <2>8. /\ Precedes(Tail(todo), "CLS", "ADM")
        /\ Precedes(Tail(todo), "CLS", "RUN")
        /\ Precedes(Tail(todo), "ADM", "RUN")
    BY <1>3, <2>6 DEF OrderInv
  <2>9. /\ \A c \in {"SWR", "READ", "MAN", "STATUS"} : ~Has(Tail(todo), c)
        /\ Has(Tail(todo), "RUN") => Source[shot] # "software"
        /\ Has(Tail(todo), "ADM") => ~Empty[shot]
        /\ Has(Tail(todo), "CLS") /\ ~Empty[shot] => Has(Tail(todo), "ADM")
    BY <1>3, <2>4, <2>7 DEF OrderInv
  <2> QED BY <2>1, <2>3, <2>5, <2>8, <2>9 DEF OrderInv
<1>4. ASSUME job' # "transition_to_buffered" PROVE OrderInv'
  BY <1>4 DEF OrderInv
<1>5. CASE UNCHANGED <<jobVars, shot, exec_mode>>
  <2>1. todo' = todo /\ job' = job /\ shot' = shot /\ exec_mode' = exec_mode
    BY <1>5 DEF jobVars
  <2>2. BufferedCommands(shot)' = BufferedCommands(shot)
    BY <2>1 DEF BufferedCommands, InitDevice
  <2> QED BY <2>1, <2>2 DEF OrderInv
<1>6. CASE job # "transition_to_buffered" /\ WorkerStep
  <2>1. job' # "transition_to_buffered"
    BY <1>6 DEF WorkerStep, CommandSucceeds, CommandRaises, StatusUnknown, Returns,
         ReturnTransitionToBuffered, ReturnStartRun, ReturnProgramManual,
         ReturnTransitionToManual, ReturnAbortBuffered, ReturnCheckIfDone, Return, EndJob
  <2> QED BY <1>4, <2>1
<1>7. CASE job = "transition_to_buffered" /\ (CommandRaises \/ Returns)
  BY <1>4, <1>7 DEF CommandRaises, Returns, ReturnTransitionToBuffered,
       ReturnStartRun, ReturnProgramManual, ReturnTransitionToManual,
       ReturnAbortBuffered, ReturnCheckIfDone, Return, EndJob
<1>8. CASE Calls
  BY <1>2, <1>4, <1>5, <1>8
     DEF Calls, CallStartRun, CallProgramManual, CallTransitionToManual,
         CallAbortBuffered, CallCheckIfDone, CheckWithoutQuery, ReportDone, Start
<1>9. CASE RestartWorker
  BY <1>4, <1>9 DEF RestartWorker, EndJob
<1> QED BY <1>3, <1>5, <1>6, <1>7, <1>8, <1>9
        DEF Next, WorkerStep, Tick, TriggerInput, vars

-----------------------------------------------------------------------------
(* The device under the worker.                                            *)

\* What one exchange, successful or not, does to the sequencer.
LEMMA ExchangeEffect ==
  ASSUME TypeOK, JobInv, OrderInv, DownloadInv, DeviceInv, todo # <<>>,
         Execute(Head(todo)) \/ FailedExchange(Head(todo))
  PROVE  \/ phase' = phase /\ prog' = prog /\ left' = left
         \/ phase' \in {"idle", "loaded"} /\ Head(todo) \in {"ABT", "SET"}
         \/ ~Active /\ phase' = phase /\ Head(todo) \in {"CLS", "ADM"}
         \/ phase' = "armed" /\ prog' = prog /\ prog = Loaded(shot) /\ Head(todo) = "RUN"
         \/ Begin /\ Head(todo) = "SWR"
<1> USE DEF devVars, manVars, runVars
<1>1. todo \in Seq(Commands)
  BY DEF TypeOK, JobTypeOK
<1>2. ASSUME Head(todo) \in {"CLS", "ADM"} PROVE ~Active
  <2>1. CASE job = "transition_to_buffered"
    <3>1. todo # BufferedCommands(shot)
      BY <1>2, <2>1, BufferedShape, JobHead
    <3>2. Has(todo, "CLS") \/ Has(todo, "ADM")
      BY <1>1, <1>2, HasTail
    <3> QED BY <2>1, <3>1, <3>2 DEF DownloadInv
  <2>2. CASE job # "transition_to_buffered"
    <3>1. job = "abort_buffered" /\ todo = <<"CLS">>
      BY <1>2, <2>2, JobHead
    <3>2. <<"CLS">> # <<"ABT", "CLS">>
      OBVIOUS
    <3> QED BY <3>1, <3>2 DEF DeviceInv
  <2> QED BY <2>1, <2>2
<1>3. ASSUME Head(todo) = "RUN" PROVE prog = Loaded(shot)
  <2>1. job = "transition_to_buffered"
    BY <1>3, JobHead
  <2>2. ~Has(todo, "CLS") /\ ~Has(todo, "ADM")
    BY <1>1, <1>3, <2>1, PrecedesTail DEF OrderInv
  <2> QED BY <2>1, <2>2 DEF DownloadInv
<1>4. CASE Execute(Head(todo))
  BY <1>2, <1>3, <1>4 DEF Execute, Abt, Cls, Man, Keep, Load, SetDone, Arm, Inert
<1>5. CASE FailedExchange(Head(todo))
  BY <1>2, <1>4, <1>5 DEF FailedExchange, Load, Inert
<1> QED BY <1>4, <1>5

LEMMA BeginDevice ==
  ASSUME TypeOK, Begin
  PROVE  /\ phase' \in {"running", "idle"} /\ prog' = prog
         /\ phase' = "running" => prog' \in Shots /\ left' > 0
<1>1. CASE prog \in Shots
  BY <1>1, ShotsAssumption DEF Begin, manVars
<1>2. CASE prog \notin Shots
  BY <1>2 DEF Begin, manVars
<1> QED BY <1>1, <1>2

\* An active sequencer has a whole program; one that is not active stays so
\* while time passes.
LEMMA WorldStep ==
  ASSUME TypeOK, DeviceInv, Tick \/ TriggerInput
  PROVE  /\ ~Active => UNCHANGED devVars
         /\ prog' = prog /\ man_en' = man_en /\ man_val' = man_val /\ loop' = loop
         /\ phase' = "running" => prog' \in Shots /\ left' > 0
         /\ phase' = "armed" => phase = "armed"
<1> USE DEF devVars, manVars, runVars, Active
<1>1. left \in Nat
  BY DEF TypeOK, DevTypeOK
<1>2. CASE TriggerInput
  <2>1. CASE phase = "armed" /\ Begin
    BY <2>1, BeginDevice DEF Begin
  <2>2. CASE /\ phase = "running" /\ held
             /\ UNCHANGED <<manVars, prog, phase, left, loop, played>>
    BY <2>2 DEF DeviceInv
  <2> QED BY <1>2, <2>1, <2>2 DEF TriggerInput, Trigger
<1>3. CASE Tick
  <2>1. CASE Pause
    BY <2>1 DEF Pause, DeviceInv
  <2>2. CASE phase = "running" /\ PlayTick
    BY <1>1, <2>2 DEF PlayTick, DeviceInv
  <2>3. CASE phase = "running" /\ EndOfProgram
    <3>1. CASE loop /\ prog \in Shots
      BY <2>3, <3>1, ShotsAssumption DEF EndOfProgram
    <3>2. CASE ~(loop /\ prog \in Shots)
      BY <2>3, <3>2 DEF EndOfProgram
    <3> QED BY <3>1, <3>2
  <2> QED BY <1>3, <2>1, <2>2, <2>3 DEF Tick, DevTick
<1> QED BY <1>2, <1>3

\* Every step is a call, a command, a return, a step of the world or a stutter.
LEMMA StepKinds ==
  ASSUME [Next]_vars
  PROVE  \/ Calls /\ UNCHANGED devVars
         \/ CommandSucceeds \/ StatusUnknown \/ CommandRaises
         \/ Returns /\ UNCHANGED devVars
         \/ RestartWorker /\ UNCHANGED devVars
         \/ Tick \/ TriggerInput
         \/ UNCHANGED vars
BY DEF Next, WorkerStep, Calls, Returns, CallTransitionToBuffered, CallStartRun,
       CallProgramManual, CallTransitionToManual, CallAbortBuffered,
       CheckWithoutQuery, ReportDone, CallCheckIfDone, ReturnTransitionToBuffered,
       ReturnStartRun, ReturnProgramManual, ReturnTransitionToManual,
       ReturnAbortBuffered, ReturnCheckIfDone, RestartWorker

LEMMA DeviceStep ==
  ASSUME TypeOK, JobInv, OrderInv, DownloadInv, DeviceInv, [Next]_vars
  PROVE  DeviceInv'
<1>1. ASSUME todo # <<>>, Execute(Head(todo)) \/ FailedExchange(Head(todo))
      PROVE  /\ Active' => prog' # "partial"
             /\ phase' = "running" => prog' \in Shots /\ left' > 0
  <2>1. ASSUME phase' = "armed", prog' = prog, prog = Loaded(shot), Head(todo) = "RUN"
        PROVE  prog' # "partial"
    BY <1>1, <2>1, JobHead, ShotsAssumption DEF Loaded
  <2>2. CASE Begin
    BY <2>2, BeginDevice, ShotsAssumption DEF Active
  <2> QED BY <1>1, <2>1, <2>2, ExchangeEffect DEF DeviceInv, Active
<1>2. CASE CommandSucceeds
  <2>1. /\ todo # <<>> /\ Execute(Head(todo)) /\ todo' = Tail(todo) /\ job' = job
    BY <1>2 DEF CommandSucceeds
  <2>2. ASSUME job = "abort_buffered" PROVE ~Active'
    <3>1. CASE Head(todo) = "ABT"
      BY <2>1, <3>1 DEF Execute, Abt, Active
    <3>2. CASE todo = <<"CLS">> /\ Head(todo) = "CLS"
      <4>1. <<"CLS">> # <<"ABT", "CLS">>
        OBVIOUS
      <4> QED BY <2>1, <2>2, <3>2, <4>1 DEF Execute, Cls, Active, DeviceInv, runVars
    <3> QED BY <2>1, <2>2, <3>1, <3>2, JobHead
  <2> QED BY <1>1, <2>1, <2>2 DEF DeviceInv
<1>3. CASE StatusUnknown \/ CommandRaises
  <2>1. /\ todo # <<>> /\ FailedExchange(Head(todo)) /\ job' # "abort_buffered"
    BY <1>3, JobHead DEF StatusUnknown, CommandRaises, EndJob
  <2> QED BY <1>1, <2>1 DEF DeviceInv
<1>4. CASE Tick \/ TriggerInput
  <2>1. job' = job /\ todo' = todo
    BY <1>4 DEF Tick, TriggerInput, jobVars
  <2> QED BY <1>4, <2>1, WorldStep, ShotsAssumption DEF DeviceInv, Active, devVars, runVars
<1>5. ASSUME UNCHANGED devVars,
             job' = "abort_buffered" =>
               todo' = <<"ABT", "CLS">> \/ (job' = job /\ todo' = todo)
      PROVE  DeviceInv'
  BY <1>5 DEF DeviceInv, devVars, runVars, Active
<1>6. CASE Calls /\ UNCHANGED devVars
  BY <1>5, <1>6 DEF Calls, CallTransitionToBuffered, CallStartRun, CallProgramManual,
       CallTransitionToManual, CallAbortBuffered, AbortCommands, CheckWithoutQuery,
       CallCheckIfDone, Start, jobVars
<1>7. CASE (Returns \/ RestartWorker) /\ UNCHANGED devVars
  BY <1>5, <1>7 DEF Returns, ReturnTransitionToBuffered, ReturnStartRun,
       ReturnProgramManual, ReturnTransitionToManual, ReturnAbortBuffered,
       ReturnCheckIfDone, Return, RestartWorker, EndJob
<1>8. CASE UNCHANGED vars
  BY <1>5, <1>8 DEF vars, jobVars
<1> QED BY <1>2, <1>3, <1>4, <1>6, <1>7, <1>8, StepKinds

LEMMA DownloadStep ==
  ASSUME TypeOK, JobInv, OrderInv, DownloadInv, DeviceInv, [Next]_vars
  PROVE  DownloadInv'
<1> USE DEF manVars, runVars
<1>1. todo \in Seq(Commands)
  BY DEF TypeOK, JobTypeOK
<1>2. ASSUME job' # "transition_to_buffered" PROVE DownloadInv'
  BY <1>2 DEF DownloadInv
<1>3. ASSUME UNCHANGED <<job, todo, shot, exec_mode>>, man_en' = man_en, prog' = prog,
             ~Active => ~Active'
      PROVE  DownloadInv'
  <2>1. BufferedCommands(shot)' = BufferedCommands(shot)
    BY <1>3 DEF BufferedCommands, InitDevice
  <2> QED BY <1>3, <2>1 DEF DownloadInv, Loaded
<1>4. ASSUME NEW s \in Shots, CallTransitionToBuffered(s) PROVE DownloadInv'
  <2>1. /\ shot' = s /\ todo' = BufferedCommands(s) /\ exec_mode' = exec_mode
    BY <1>4 DEF CallTransitionToBuffered, Start
  <2>2. BufferedCommands(s)' = BufferedCommands(s)
    BY <2>1 DEF BufferedCommands, InitDevice
  <2>3. Has(BufferedCommands(s), "AUTO") /\ Has(BufferedCommands(s), "CLS")
    BY BufferedShape
  <2> QED BY <2>1, <2>2, <2>3 DEF DownloadInv
<1>5. CASE job = "transition_to_buffered" /\ CommandSucceeds
  <2> DEFINE c == Head(todo)
  <2>1. /\ todo # <<>> /\ Execute(c) /\ todo' = Tail(todo) /\ shot' = shot
        /\ shot \in Shots /\ c \notin {"SWR", "READ", "MAN", "STATUS"}
    BY <1>5, JobHead DEF CommandSucceeds
  <2>2. \A d : Has(todo, d) <=> c = d \/ Has(todo', d)
    BY <1>1, <2>1, HasTail
  <2>3. c = "RUN" => ~Has(todo, "CLS") /\ ~Has(todo, "ADM")
    BY <1>1, <1>5, <2>1, PrecedesTail DEF OrderInv
  <2>4. ~Has(todo', "AUTO") => man_en' = {}
    <3>1. CASE c = "AUTO"
      BY <2>1, <3>1 DEF Execute, Man
    <3>2. CASE c # "AUTO"
      <4>1. man_en' = man_en
        BY <2>1, <3>2 DEF Execute, Abt, Cls, Keep, Load, SetDone, Arm, Inert, devVars
      <4> QED BY <1>5, <2>2, <3>2, <4>1 DEF DownloadInv
    <3> QED BY <3>1, <3>2
  <2>5. ASSUME Has(todo', "ADM") \/ Has(todo', "CLS") \/ Source[shot] = "software"
        PROVE  ~Active'
    <3>1. CASE todo = BufferedCommands(shot)
      <4>1. c = "ABT"
        BY <2>1, <3>1, BufferedShape
      <4> QED BY <2>1, <4>1 DEF Execute, Abt, Active
    <3>2. CASE todo # BufferedCommands(shot)
      <4>1. ~Active
        BY <1>5, <2>2, <2>5, <3>2 DEF DownloadInv
      <4>2. c # "RUN"
        BY <1>5, <2>2, <2>3, <2>5 DEF OrderInv
      <4> QED BY <2>1, <4>1, <4>2
              DEF Execute, Abt, Cls, Man, Keep, Load, SetDone, Inert, devVars, Active
    <3> QED BY <3>1, <3>2
  <2>6. ASSUME ~Has(todo', "CLS"), ~Has(todo', "ADM") PROVE prog' = Loaded(shot)
    <3>1. CASE c = "CLS"
      <4>1. Empty[shot]
        BY <1>5, <2>2, <2>6, <3>1 DEF OrderInv
      <4> QED BY <2>1, <3>1, <4>1 DEF Execute, Cls, Loaded
    <3>2. CASE c = "ADM"
      <4>1. ~Empty[shot]
        BY <1>5, <2>2, <3>2 DEF OrderInv
      <4> QED BY <2>1, <3>2, <4>1 DEF Execute, Load, Loaded
    <3>3. CASE c \notin {"CLS", "ADM"}
      <4>1. prog = Loaded(shot)
        BY <1>5, <2>2, <2>6, <3>3 DEF DownloadInv
      <4> QED BY <2>1, <3>3, <4>1 DEF Execute, Abt, Man, Keep, SetDone, Arm, Inert, devVars
    <3> QED BY <3>1, <3>2, <3>3
  <2> QED BY <2>1, <2>4, <2>5, <2>6 DEF DownloadInv, Loaded
<1>6. CASE job # "transition_to_buffered" /\ CommandSucceeds
  BY <1>2, <1>6 DEF CommandSucceeds
<1>7. CASE StatusUnknown \/ CommandRaises
  BY <1>2, <1>7, JobHead DEF StatusUnknown, CommandRaises, EndJob
<1>8. CASE Returns \/ RestartWorker
  BY <1>2, <1>8 DEF Returns, ReturnTransitionToBuffered, ReturnStartRun,
       ReturnProgramManual, ReturnTransitionToManual, ReturnAbortBuffered,
       ReturnCheckIfDone, Return, RestartWorker, EndJob
<1>9. CASE Tick \/ TriggerInput
  BY <1>3, <1>9, WorldStep DEF Tick, TriggerInput, jobVars, Active, devVars
<1>10. ASSUME NEW f \in BOOLEAN, CheckWithoutQuery(f) PROVE DownloadInv'
  BY <1>3, <1>10 DEF CheckWithoutQuery, ReportDone, jobVars, Active, devVars
<1>11. CASE Calls
  BY <1>2, <1>4, <1>10, <1>11
     DEF Calls, CallStartRun, CallProgramManual, CallTransitionToManual,
         CallAbortBuffered, CallCheckIfDone, Start
<1>12. CASE UNCHANGED vars
  BY <1>3, <1>12 DEF vars, jobVars, Active, devVars
<1> QED BY <1>5, <1>6, <1>7, <1>8, <1>9, <1>11, <1>12, StepKinds

-----------------------------------------------------------------------------
(* The shot and manual control.                                            *)

LEMMA ManualStep ==
  ASSUME TypeOK, JobInv, OrderInv, DeviceInv, ManualInv, [Next]_vars
  PROVE  ManualInv'
<1>0. <<"READ", "MAN">> # <<"MAN">> /\ <<>> # <<"MAN">>
  OBVIOUS
<1>1. ASSUME job' # "program_manual" PROVE ManualInv'
  BY <1>1 DEF ManualInv
<1>2. ASSUME NEW v \in SUBSET Channels, CallProgramManual(v) PROVE ManualInv'
  BY <1>0, <1>2 DEF CallProgramManual, Start, ManualInv
<1>3. CASE job = "program_manual" /\ CommandSucceeds
  <2>1. /\ todo # <<>> /\ todo' = Tail(todo) /\ Execute(Head(todo))
        /\ UNCHANGED <<mode, gui, new_mask, touched>>
        /\ Head(todo) = "READ" => seen' = [en |-> man_en, val |-> man_val]
    BY <1>3 DEF CommandSucceeds
  <2>2. CASE Head(todo) = "READ"
    BY <1>3, <2>1, <2>2 DEF Execute, Inert, devVars, ManualInv
  <2>3. CASE Tail(todo) = <<>>
    BY <1>0, <1>3, <2>1, <2>3 DEF ManualInv
  <2> QED BY <1>3, <2>1, <2>2, <2>3, JobHead
<1>4. CASE job # "program_manual" /\ CommandSucceeds
  BY <1>1, <1>4 DEF CommandSucceeds
<1>5. CASE StatusUnknown \/ CommandRaises
  BY <1>1, <1>5, JobHead DEF StatusUnknown, CommandRaises, EndJob
<1>6. CASE Returns \/ RestartWorker
  BY <1>1, <1>6 DEF Returns, ReturnTransitionToBuffered, ReturnStartRun,
       ReturnProgramManual, ReturnTransitionToManual, ReturnAbortBuffered,
       ReturnCheckIfDone, Return, RestartWorker, EndJob
<1>7. CASE Tick \/ TriggerInput
  <2>1. man_en' = man_en /\ man_val' = man_val
    BY <1>7, WorldStep
  <2> QED BY <1>7, <2>1 DEF Tick, TriggerInput, jobVars, ManualInv
<1>8. ASSUME NEW f \in BOOLEAN, CheckWithoutQuery(f) PROVE ManualInv'
  BY <1>1, <1>8 DEF CheckWithoutQuery, jobVars
<1>9. CASE Calls
  BY <1>1, <1>2, <1>8, <1>9
     DEF Calls, CallTransitionToBuffered, CallStartRun, CallTransitionToManual,
         CallAbortBuffered, CallCheckIfDone, Start
<1>10. CASE UNCHANGED vars
  BY <1>10 DEF vars, devVars, jobVars, ManualInv
<1> QED BY <1>3, <1>4, <1>5, <1>6, <1>7, <1>9, <1>10, StepKinds

\* During a shot no exchange touches the program, and manual control is taken
\* of no channel but those the user changed.
LEMMA ExchangeInShot ==
  ASSUME TypeOK, JobInv, OrderInv, ShotInv, ManualInv, InShot, todo # <<>>,
         Execute(Head(todo)) \/ FailedExchange(Head(todo))
  PROVE  /\ prog' = prog /\ man_en' \subseteq touched
         /\ job \in {"start_run", "program_manual", "check_if_done"}
         /\ job = "program_manual" => mode = "running"
<1> USE DEF manVars, runVars
<1>1. /\ job \in {"start_run", "program_manual", "check_if_done"}
      /\ job = "program_manual" => mode = "running"
      /\ \/ Head(todo) \in {"SWR", "READ", "STATUS"}
         \/ Head(todo) = "MAN" /\ job = "program_manual" /\ todo = <<"MAN">>
  BY JobHead DEF InShot
<1>2. man_en \subseteq touched
  BY DEF ShotInv
<1>3. CASE Inert
  BY <1>1, <1>2, <1>3 DEF Inert, devVars
<1>4. CASE Begin
  BY <1>1, <1>2, <1>4 DEF Begin
<1>5. CASE Head(todo) = "MAN" /\ Man(ManualEnable, ManualValue)
  <2>1. ManualEnable = man_en \cup newly_high \cup newly_low
    BY <1>1, <1>5 DEF ManualEnable, ManualInv
  <2>2. newly_high \cup newly_low \subseteq touched
    BY <1>1, <1>5 DEF newly_high, newly_low, ManualInv
  <2> QED BY <1>1, <1>2, <1>5, <2>1, <2>2 DEF Man
<1> QED BY <1>1, <1>3, <1>4, <1>5 DEF Execute, FailedExchange

LEMMA ShotStep ==
  ASSUME TypeOK, JobInv, OrderInv, DownloadInv, DeviceInv, ShotInv, ManualInv,
         [Next]_vars
  PROVE  ShotInv'
<1>1. ASSUME ~InShot' PROVE ShotInv'
  BY <1>1 DEF ShotInv
<1>2. ASSUME InShot, UNCHANGED <<shot, stop, armed, source>>, prog' = prog,
             man_en' \subseteq touched',
             mode' # "buffered" \/ job' = "start_run" => source = "software",
             mode' = "buffered" /\ source = "software" /\ job' # "start_run" => ~Active'
      PROVE  ShotInv'
  BY <1>2 DEF ShotInv, Loaded
<1>3. CASE ReturnTransitionToBuffered
  <2>1. /\ job = "transition_to_buffered" /\ todo = <<>> /\ UNCHANGED devVars
        /\ shot' = shot /\ stop' = Stop[shot] /\ armed' = ~Empty[shot]
        /\ source' = Source[shot] /\ mode' = "buffered" /\ touched' = {} /\ job' = "idle"
    BY <1>3 DEF ReturnTransitionToBuffered, Return, EndJob
  <2>2. ~Has(todo, "AUTO") /\ ~Has(todo, "CLS") /\ ~Has(todo, "ADM")
    BY <2>1 DEF Has
  <2>3. todo # BufferedCommands(shot)
    BY <2>1, BufferedShape DEF JobInv
  <2>4. man_en = {} /\ prog = Loaded(shot) /\ (Source[shot] = "software" => ~Active)
    BY <2>1, <2>2, <2>3 DEF DownloadInv
  <2> QED BY <2>1, <2>4 DEF ShotInv, Loaded, devVars, manVars, runVars, Active
<1>4. CASE CallStartRun
  <2>1. /\ mode = "buffered" /\ mode' = mode /\ job' = "start_run"
        /\ Source[shot] = "software"
        /\ UNCHANGED <<devVars, shot, stop, armed, source, touched>>
    BY <1>4 DEF CallStartRun, Start, bufVars
  <2> QED BY <2>1 DEF ShotInv, InShot, Loaded, devVars, manVars
<1>5. ASSUME NEW v \in SUBSET Channels, CallProgramManual(v), InShot PROVE ShotInv'
  <2>1. /\ mode = "running" /\ mode' = mode /\ job' = "program_manual"
        /\ UNCHANGED <<devVars, shot, stop, armed, source>>
        /\ touched \subseteq touched'
    BY <1>5 DEF CallProgramManual, Start, bufVars, InShot
  <2> QED BY <1>5, <2>1 DEF ShotInv, Loaded, devVars, manVars
<1>6. ASSUME NEW f \in BOOLEAN, CheckWithoutQuery(f) \/ CallCheckIfDone(f)
      PROVE  ShotInv'
  <2>1. /\ mode = "running" /\ mode' \in {"running", "done"} /\ job' # "start_run"
        /\ UNCHANGED <<devVars, shot, stop, armed, source, touched>>
    BY <1>6 DEF CheckWithoutQuery, CallCheckIfDone, ReportDone, Start, bufVars, jobVars
  <2> QED BY <2>1 DEF ShotInv, InShot, Loaded, devVars, manVars
<1>7. ASSUME InShot, CommandSucceeds \/ StatusUnknown \/ CommandRaises PROVE ShotInv'
  <2>1. /\ todo # <<>>
        /\ Execute(Head(todo)) \/ FailedExchange(Head(todo))
        /\ UNCHANGED <<shot, stop, armed, source, touched>>
        /\ \/ job' = job /\ mode' = mode
           \/ job' = "idle" /\ mode' = IF job = "start_run" THEN "running" ELSE mode
    BY <1>7 DEF CommandSucceeds, StatusUnknown, CommandRaises, EndJob, bufVars
  <2>2. /\ prog' = prog /\ man_en' \subseteq touched
        /\ job \in {"start_run", "program_manual", "check_if_done"}
        /\ job = "program_manual" => mode = "running"
    BY <1>7, <2>1, ExchangeInShot
  <2>3. job = "check_if_done" => mode = "running"
    BY DEF JobInv
  <2> QED BY <1>2, <1>7, <2>1, <2>2, <2>3 DEF ShotInv
<1>8. CASE (CommandSucceeds \/ StatusUnknown \/ CommandRaises) /\ ~InShot
  BY <1>1, <1>8, JobHead DEF CommandSucceeds, StatusUnknown, CommandRaises, InShot
<1>9. CASE ReturnStartRun \/ ReturnProgramManual \/ ReturnCheckIfDone
  <2>1. /\ job' = "idle"
        /\ UNCHANGED <<devVars, shot, stop, armed, source, touched>>
        /\ \/ job = "start_run" /\ mode' = "running"
           \/ job \in {"program_manual", "check_if_done"} /\ mode' \in {mode, "done"}
              /\ (mode' = "done" => mode = "running" \/ mode = "done")
    BY <1>9 DEF ReturnStartRun, ReturnProgramManual, ReturnCheckIfDone, Return, EndJob,
         bufVars, JobInv
  <2>2. /\ job = "start_run" => mode = "buffered"
        /\ job \in {"program_manual", "check_if_done"} => mode \in {"manual", "running"}
    BY DEF JobInv
  <2> QED BY <2>1, <2>2 DEF ShotInv, InShot, Loaded, devVars, manVars
<1>10. CASE Tick \/ TriggerInput
  <2>1. /\ UNCHANGED <<mode, job, shot, stop, armed, source, touched>>
        /\ prog' = prog /\ man_en' = man_en /\ (~Active => ~Active')
    BY <1>10, WorldStep
       DEF Tick, TriggerInput, jobVars, bufVars, Active, devVars, runVars
  <2> QED BY <2>1 DEF ShotInv, InShot, Loaded
<1>11. CASE UNCHANGED vars
  BY <1>11 DEF vars, jobVars, bufVars, devVars, manVars, runVars, ShotInv, InShot,
               Loaded, Active
<1>12. CASE RestartWorker \/ ReturnTransitionToManual \/ ReturnAbortBuffered
            \/ CallTransitionToManual \/ CallAbortBuffered
  BY <1>1, <1>12
     DEF RestartWorker, ReturnTransitionToManual, ReturnAbortBuffered,
         CallTransitionToManual, CallAbortBuffered, InShot
<1>13. ASSUME NEW s \in Shots, CallTransitionToBuffered(s) PROVE ShotInv'
  BY <1>1, <1>13 DEF CallTransitionToBuffered, InShot
<1>14. ASSUME NEW v \in SUBSET Channels, CallProgramManual(v), ~InShot PROVE ShotInv'
  BY <1>1, <1>14 DEF CallProgramManual, InShot
<1> QED BY <1>3, <1>4, <1>5, <1>6, <1>7, <1>8, <1>9, <1>10, <1>11, <1>12, <1>13, <1>14
        DEF Next, Calls, WorkerStep, Returns

-----------------------------------------------------------------------------
(* What holds of every link, with or without restarts.                     *)

LEMMA SafeInit == Init => SafeInv
<1> SUFFICES ASSUME Init PROVE SafeInv
  OBVIOUS
<1>1. TypeOK
  BY TypeInit
<1> QED BY <1>1 DEF Init, DevInit, FreshWorker, SafeInv, JobInv, OrderInv, DownloadInv,
          DeviceInv, ShotInv, ManualInv, InShot, Active

LEMMA SafeStep == SafeInv /\ [Next]_vars => SafeInv'
BY TypeStep, JobStep, OrderStep, DownloadStep, DeviceStep, ShotStep, ManualStep
   DEF SafeInv

\* SafeInv is an invariant.
THEOREM Safe == Spec => []SafeInv
BY SafeInit, SafeStep, PTL DEF Spec

\* Every variable keeps its type whatever the link loses and whenever the
\* worker process restarts: no count, index or lookup of the model leaves its
\* domain.
THEOREM TypeCorrect == Spec => []TypeOK
<1>1. SafeInv => TypeOK
  BY DEF SafeInv
<1> QED BY Safe, <1>1, PTL

\* Mix mode keeps its promise on every link: the channels taken from the
\* program during a shot are channels the user changed during that shot.
THEOREM StreamKeepsChannels == Spec => []StreamKeepsOtherChannels
<1>1. SafeInv => StreamKeepsOtherChannels
  BY DEF SafeInv, ShotInv, InShot, StreamKeepsOtherChannels
<1> QED BY Safe, <1>1, PTL

\* A downloaded shot of the master waits for start_run, also after any number
\* of failed and repeated transitions.
THEOREM WaitsForStartRun == Spec => []NothingPlaysBeforeStartRun
<1>1. SafeInv => NothingPlaysBeforeStartRun
  BY DEF SafeInv, ShotInv, InShot, Active, NothingPlaysBeforeStartRun
<1> QED BY Safe, <1>1, PTL

\* The sequencer never runs a partial download nor the program of another shot.
THEOREM RunsOnlyTheShot == Spec => []RunsTheShot
<1>1. SafeInv => RunsTheShot
  <2> SUFFICES ASSUME SafeInv PROVE RunsTheShot
    OBVIOUS
  <2>1. Active => prog # "partial"
    BY DEF SafeInv, DeviceInv
  <2>2. ASSUME InShot, phase = "running" PROVE prog = shot
    BY <2>2, ShotsAssumption DEF SafeInv, DeviceInv, ShotInv, Loaded
  <2> QED BY <2>1, <2>2 DEF RunsTheShot, Active, InShot
<1> QED BY Safe, <1>1, PTL

-----------------------------------------------------------------------------
(* What holds as long as no answer to CMD_MAN is lost and the worker       *)
(* process is not restarted.                                               *)

LEMMA LevelsStep ==
  ASSUME "MAN" \notin LostAnswers, ~WorkerRestarts, SafeInv, LevelsInv, [Next]_vars
  PROVE  LevelsInv'
<1> USE DEF SafeInv, manVars, runVars
<1>1. ASSUME man_en' = man_en, man_val' = man_val, gui' = gui,
             ~(job = "program_manual" /\ todo = <<>>),
             ~(job' = "program_manual" /\ todo' = <<>>)
      PROVE  LevelsInv'
  BY <1>1 DEF LevelsInv, Levels
<1>2. CASE UNCHANGED <<man_en, man_val, gui, new_mask, job, todo>>
  BY <1>2 DEF LevelsInv, Levels
<1>3. ASSUME NEW v \in SUBSET Channels, CallProgramManual(v) PROVE LevelsInv'
  <2>1. /\ job = "idle" /\ UNCHANGED devVars /\ gui' = gui /\ new_mask' = v
        /\ todo' = IF v # gui THEN <<"READ", "MAN">> ELSE <<>>
    BY <1>3 DEF CallProgramManual, Start
  <2>2. v = gui \/ todo' # <<>>
    BY <2>1
  <2> QED BY <2>1, <2>2 DEF LevelsInv, Levels, devVars
<1>4. CASE Calls
  <2>1. ASSUME Calls, ~\E v \in SUBSET Channels : CallProgramManual(v)
        PROVE  /\ job' # "program_manual" \/ UNCHANGED <<new_mask, job, todo>>
               /\ job = "idle" /\ gui' = gui /\ man_en' = man_en /\ man_val' = man_val
    BY <2>1 DEF Calls, CallTransitionToBuffered, CallStartRun, CallTransitionToManual,
         CallAbortBuffered, CheckWithoutQuery, ReportDone, CallCheckIfDone, Start,
         devVars, jobVars
  <2>2. ASSUME ~\E v \in SUBSET Channels : CallProgramManual(v) PROVE LevelsInv'
    BY <1>4, <2>1, <2>2 DEF LevelsInv, Levels
  <2> QED BY <1>3, <2>2
<1>5. ASSUME Man(ManualEnable, ManualValue), job = "program_manual", todo = <<"MAN">>
      PROVE  \A c \in man_en' : c \in man_val' <=> c \in new_mask
  <2>1. /\ man_en' = man_en \cup newly_high \cup newly_low
        /\ man_val' = (man_val \cup newly_high) \ newly_low
    BY <1>5 DEF Man, ManualEnable, ManualValue, ManualInv
  <2>2. <<"MAN">> # <<>>
    OBVIOUS
  <2>3. \A c \in man_en : c \in man_val <=> c \in gui
    BY <1>5, <2>2 DEF LevelsInv, Levels
  <2> QED BY <2>1, <2>3 DEF newly_high, newly_low
<1>6. ASSUME todo # <<>>, Execute(Head(todo)), Head(todo) # "MAN", gui' = gui,
             job' = job \/ job' = "idle", todo' = Tail(todo) \/ todo' = <<>>,
             job = "program_manual" => job' = "idle" \/ todo' = Tail(todo)
      PROVE  LevelsInv'
  <2>1. <<"MAN">> # <<>>
    OBVIOUS
  <2>2. ~(job' = "program_manual" /\ todo' = <<>>)
    BY <1>6, <2>1, JobHead
  <2>3. CASE man_en' = {}
    BY <1>6, <2>2, <2>3 DEF LevelsInv, Levels
  <2>4. CASE man_en' = man_en /\ man_val' = man_val
    BY <1>1, <1>6, <2>2, <2>4
  <2> QED BY <1>6, <2>3, <2>4
          DEF Execute, Abt, Cls, Man, Keep, Load, SetDone, Arm, Begin, Inert, devVars
<1>7. CASE CommandSucceeds
  <2>1. /\ todo # <<>> /\ Execute(Head(todo)) /\ todo' = Tail(todo) /\ job' = job
        /\ gui' = gui /\ new_mask' = new_mask
    BY <1>7 DEF CommandSucceeds
  <2>2. CASE Head(todo) # "MAN"
    BY <1>6, <2>1, <2>2
  <2>3. CASE Head(todo) = "MAN"
    <3>1. Man(ManualEnable, ManualValue)
      BY <2>1, <2>3 DEF Execute
    <3>2. CASE job = "program_manual" /\ todo = <<"MAN">> /\ Tail(todo) = <<>>
      BY <1>5, <2>1, <3>1, <3>2 DEF LevelsInv, Levels
    <3>3. CASE job = "transition_to_manual"
      BY <2>1, <3>1, <3>3 DEF Man, ManualEnable, ManualValue, LevelsInv, Levels
    <3> QED BY <2>1, <2>3, <3>2, <3>3, JobHead
  <2> QED BY <2>2, <2>3
<1>8. CASE StatusUnknown \/ CommandRaises
  <2>1. /\ todo # <<>> /\ FailedExchange(Head(todo)) /\ gui' = gui
        /\ \/ job' = "idle" /\ todo' = <<>>
           \/ Head(todo) = "STATUS" /\ job' = job /\ todo' = Tail(todo)
    BY <1>8 DEF StatusUnknown, CommandRaises, EndJob
  <2>2. CASE Execute(Head(todo)) /\ Head(todo) # "MAN"
    BY <1>6, <2>1, <2>2
  <2>3. CASE man_en' = man_en /\ man_val' = man_val
    BY <1>1, <2>1, <2>3, JobHead
  <2> QED BY <2>1, <2>2, <2>3 DEF FailedExchange, Load, Inert, devVars
<1>9. CASE ReturnTransitionToBuffered
  <2>1. /\ job = "transition_to_buffered" /\ todo = <<>> /\ UNCHANGED devVars
        /\ job' = "idle"
    BY <1>9 DEF ReturnTransitionToBuffered, Return, EndJob
  <2>2. man_en = {}
    BY <2>1 DEF DownloadInv, Has
  <2> QED BY <2>1, <2>2 DEF LevelsInv, Levels, devVars
<1>10. CASE ReturnProgramManual
  BY <1>10 DEF ReturnProgramManual, Return, EndJob, LevelsInv, Levels, devVars
<1>11. CASE ReturnStartRun \/ ReturnTransitionToManual \/ ReturnAbortBuffered
            \/ ReturnCheckIfDone
  BY <1>11 DEF ReturnStartRun, ReturnTransitionToManual, ReturnAbortBuffered,
       ReturnCheckIfDone, Return, EndJob, LevelsInv, Levels, devVars
<1>12. CASE Tick \/ TriggerInput
  <2>1. man_en' = man_en /\ man_val' = man_val
    BY <1>12, WorldStep
  <2> QED BY <1>2, <1>12, <2>1 DEF Tick, TriggerInput, jobVars
<1>13. CASE UNCHANGED vars
  BY <1>2, <1>13 DEF vars, devVars, jobVars
<1> QED BY <1>4, <1>7, <1>8, <1>9, <1>10, <1>11, <1>12, <1>13
        DEF Next, WorkerStep, Returns, RestartWorker

\* Between two calls every channel under manual control has the level of its
\* checkbox.
THEOREM LevelsFollowCheckboxes ==
  ASSUME "MAN" \notin LostAnswers, ~WorkerRestarts
  PROVE  Spec => []ManualLevelsMatch
<1>1. Init => LevelsInv
  BY DEF Init, DevInit, FreshWorker, LevelsInv, Levels
<1>2. SafeInv /\ LevelsInv /\ [Next]_vars => LevelsInv'
  BY LevelsStep
<1>3. LevelsInv => ManualLevelsMatch
  BY DEF LevelsInv, Levels, ManualLevelsMatch
<1> QED BY Safe, <1>1, <1>2, <1>3, PTL DEF Spec

-----------------------------------------------------------------------------
(* What holds as long as the worker process is not restarted.              *)

LEMMA MaskStep ==
  ASSUME ~WorkerRestarts, SafeInv, MaskInv, [Next]_vars
  PROVE  MaskInv'
<1> USE DEF SafeInv, manVars, runVars
<1>1. ASSUME mode' # "manual", job' # "transition_to_manual" \/ todo' # <<>>
      PROVE  MaskInv'
  BY <1>1 DEF MaskInv
<1>2. ASSUME mode = "manual", job # "transition_to_manual",
             job' # "transition_to_manual", man_en' = man_en, ~Active => ~Active'
      PROVE  MaskInv'
  BY <1>2 DEF MaskInv
<1>3. CASE Calls
  <2>1. <<"MAN">> # <<>>
    OBVIOUS
  <2>2. \/ mode' # "manual" /\ (job' # "transition_to_manual" \/ todo' = <<"MAN">>)
        \/ /\ mode = "manual" /\ job = "idle" /\ job' = "program_manual"
           /\ UNCHANGED devVars
    BY <1>3 DEF Calls, CallTransitionToBuffered, CallStartRun, CallProgramManual,
         CallTransitionToManual, CallAbortBuffered, CheckWithoutQuery, ReportDone,
         CallCheckIfDone, Start, jobVars
  <2> QED BY <1>1, <1>2, <2>1, <2>2 DEF devVars, Active
<1>4. CASE CommandSucceeds
  <2>1. /\ todo # <<>> /\ Execute(Head(todo)) /\ todo' = Tail(todo) /\ job' = job
        /\ mode' = mode
    BY <1>4 DEF CommandSucceeds
  <2>2. CASE job = "transition_to_manual"
    <3>1. Man(ManualEnable, ManualValue) /\ mode = "leaving"
      BY <2>1, <2>2, JobHead DEF Execute
    <3> QED BY <2>1, <2>2, <3>1 DEF Man, ManualEnable, MaskInv
  <2>3. CASE job = "program_manual" /\ mode = "manual" /\ Head(todo) = "READ"
    BY <1>2, <2>1, <2>3 DEF Execute, Inert, devVars, Active
  <2>4. CASE job = "program_manual" /\ mode = "manual" /\ todo = <<"MAN">>
             /\ Head(todo) = "MAN"
    <3>1. man_en' = man_en \cup newly_high \cup newly_low /\ phase' = phase
      BY <2>1, <2>4 DEF Execute, Man, ManualEnable, ManualInv
    <3>2. newly_high \subseteq Channels /\ newly_low \subseteq Channels
      BY DEF newly_high, newly_low, TypeOK, JobTypeOK, WorkerTypeOK
    <3> QED BY <2>1, <2>4, <3>1, <3>2 DEF MaskInv, Active
  <2>5. CASE mode # "manual" /\ job # "transition_to_manual"
    BY <1>1, <2>1, <2>5
  <2> QED BY <2>1, <2>2, <2>3, <2>4, <2>5, JobHead
<1>5. CASE StatusUnknown \/ CommandRaises
  <2>1. /\ todo # <<>> /\ FailedExchange(Head(todo)) /\ job' # "transition_to_manual"
        /\ mode' \in {mode, "running"}
    BY <1>5, JobHead DEF StatusUnknown, CommandRaises, EndJob
  <2>2. CASE mode = "manual" /\ job = "program_manual" /\ Execute(Head(todo))
    <3>1. CASE Head(todo) = "READ"
      BY <1>2, <2>1, <2>2, <3>1 DEF Execute, Inert, devVars, Active
    <3>2. CASE Head(todo) = "MAN" /\ todo = <<"MAN">>
      <4>1. man_en' = man_en \cup newly_high \cup newly_low /\ phase' = phase
        BY <2>1, <2>2, <3>2 DEF Execute, Man, ManualEnable, ManualInv
      <4>2. newly_high \subseteq Channels /\ newly_low \subseteq Channels
        BY DEF newly_high, newly_low, TypeOK, JobTypeOK, WorkerTypeOK
      <4> QED BY <2>1, <2>2, <4>1, <4>2 DEF MaskInv, Active
    <3> QED BY <2>1, <2>2, <3>1, <3>2, JobHead
  <2>3. CASE mode = "manual" /\ job = "program_manual" /\ Inert
    BY <1>2, <2>1, <2>3 DEF Inert, devVars, Active
  <2>4. CASE mode # "manual"
    BY <1>1, <2>1, <2>4
  <2> QED BY <2>1, <2>2, <2>3, <2>4, JobHead DEF FailedExchange
<1>6. CASE ReturnTransitionToManual
  BY <1>6 DEF ReturnTransitionToManual, Return, EndJob, MaskInv, devVars
<1>7. CASE ReturnAbortBuffered
  <2>1. /\ job = "abort_buffered" /\ todo = <<>> /\ UNCHANGED devVars /\ job' = "idle"
    BY <1>7 DEF ReturnAbortBuffered, Return, EndJob
  <2>2. <<>> # <<"ABT", "CLS">>
    OBVIOUS
  <2> QED BY <2>1, <2>2 DEF DeviceInv, MaskInv, Active, devVars
<1>8. CASE ReturnTransitionToBuffered \/ ReturnStartRun \/ ReturnCheckIfDone
  BY <1>1, <1>8 DEF ReturnTransitionToBuffered, ReturnStartRun, ReturnCheckIfDone,
       Return, EndJob, JobInv
<1>9. CASE ReturnProgramManual
  <2>1. /\ job = "program_manual" /\ UNCHANGED devVars /\ job' = "idle" /\ mode' = mode
    BY <1>9 DEF ReturnProgramManual, Return, EndJob
  <2> QED BY <2>1 DEF MaskInv, devVars, Active
<1>10. CASE Tick \/ TriggerInput
  <2>1. man_en' = man_en /\ (~Active => ~Active')
    BY <1>10, WorldStep DEF devVars, Active
  <2>2. UNCHANGED <<mode, job, todo>>
    BY <1>10 DEF Tick, TriggerInput, jobVars
  <2> QED BY <2>1, <2>2 DEF MaskInv
<1>11. CASE UNCHANGED vars
  BY <1>11 DEF vars, devVars, jobVars, MaskInv, Active
<1> QED BY <1>3, <1>4, <1>5, <1>6, <1>7, <1>8, <1>9, <1>10, <1>11
        DEF Next, WorkerStep, Returns, RestartWorker

\* A program that goes on after the shot reaches no output in manual mode.
THEOREM ManualMasksProgram ==
  ASSUME ~WorkerRestarts
  PROVE  Spec => []ManualModeMasksProgram
<1>1. Init => MaskInv
  BY DEF Init, DevInit, FreshWorker, MaskInv, Active
<1>2. SafeInv /\ MaskInv /\ [Next]_vars => MaskInv'
  BY MaskStep
<1>3. MaskInv => ManualModeMasksProgram
  BY DEF MaskInv, ManualModeMasksProgram, Active
<1> QED BY Safe, <1>1, <1>2, <1>3, PTL DEF Spec

-----------------------------------------------------------------------------
(* Repetition, with restarts of the worker process.                        *)

\* No command but CMD_KEEP touches the mode, and that one only ever sets it.
LEMMA KeepStep ==
  ASSUME todo # <<>>, Execute(Head(todo)) \/ FailedExchange(Head(todo)), exec_mode # 0, loop
  PROVE  loop'
<1> USE DEF manVars, runVars, devVars
<1>1. CASE Execute(Head(todo))
  BY <1>1 DEF Execute, Abt, Cls, Man, Keep, Load, SetDone, Arm, Begin, Inert
<1>2. CASE FailedExchange(Head(todo))
  BY <1>1, <1>2 DEF FailedExchange, Load, Inert
<1> QED BY <1>1, <1>2

LEMMA ModeStep ==
  ASSUME SafeInv, ModeInv, [Next]_vars
  PROVE  ModeInv'
<1> USE DEF SafeInv
<1>1. ASSUME exec_mode' = exec_mode, exec_mode # 0 /\ loop => loop', InShot' => InShot,
             job' # "transition_to_buffered"
      PROVE  ModeInv'
  BY <1>1 DEF ModeInv
<1>2. CASE Calls
  <2>1. ASSUME NEW s \in Shots, CallTransitionToBuffered(s) PROVE ModeInv'
    <3>1. /\ loop' = loop /\ exec_mode' = exec_mode /\ mode' = "entering"
          /\ todo' = BufferedCommands(s)
      BY <2>1 DEF CallTransitionToBuffered, Start, devVars
    <3>2. exec_mode # 0 => Has(todo', "KEEP")
      BY <3>1, BufferedShape
    <3> QED BY <3>1, <3>2 DEF ModeInv, InShot
  <2>2. CASE ~\E s \in Shots : CallTransitionToBuffered(s)
    <3>1. /\ loop' = loop /\ exec_mode' = exec_mode
          /\ mode' = mode \/ mode' \in {"leaving", "aborting"} \/ mode = "running"
          /\ job' # "transition_to_buffered"
      BY <1>2, <2>2 DEF Calls, CallStartRun, CallProgramManual, CallTransitionToManual,
           CallAbortBuffered, CheckWithoutQuery, ReportDone, CallCheckIfDone, Start,
           jobVars, devVars
    <3> QED BY <1>1, <3>1 DEF InShot
  <2> QED BY <2>1, <2>2
<1>3. CASE CommandSucceeds
  <2>1. /\ todo # <<>> /\ Execute(Head(todo)) /\ todo' = Tail(todo)
        /\ UNCHANGED <<job, mode, exec_mode>>
    BY <1>3 DEF CommandSucceeds
  <2>2. exec_mode # 0 /\ loop => loop'
    BY <2>1, KeepStep
  <2>3. todo \in Seq(Commands)
    BY DEF TypeOK, JobTypeOK
  <2>4. Has(todo, "KEEP") <=> Head(todo) = "KEEP" \/ Has(Tail(todo), "KEEP")
    BY <2>1, <2>3, HasTail
  <2>5. CASE Head(todo) = "KEEP"
    <3>1. exec_mode # 0 => loop'
      BY <2>1, <2>5 DEF Execute, Keep
    <3> QED BY <2>1, <3>1 DEF ModeInv, InShot
  <2>6. CASE Head(todo) # "KEEP"
    BY <2>1, <2>2, <2>4, <2>6 DEF ModeInv, InShot
  <2> QED BY <2>5, <2>6
<1>4. CASE StatusUnknown \/ CommandRaises
  <2>1. /\ todo # <<>> /\ FailedExchange(Head(todo)) /\ exec_mode' = exec_mode
        /\ mode' = mode \/ job = "start_run"
        /\ job' # "transition_to_buffered"
    BY <1>4, JobHead DEF StatusUnknown, CommandRaises, EndJob
  <2>2. InShot' => InShot
    BY <2>1 DEF InShot, JobInv
  <2> QED BY <1>1, <2>1, <2>2, KeepStep
<1>5. CASE ReturnTransitionToBuffered
  <2>1. /\ job = "transition_to_buffered" /\ todo = <<>> /\ job' = "idle"
        /\ loop' = loop /\ exec_mode' = exec_mode
    BY <1>5 DEF ReturnTransitionToBuffered, Return, EndJob, devVars
  <2>2. ~Has(<<>>, "KEEP")
    BY DEF Has
  <2> QED BY <2>1, <2>2 DEF ModeInv
<1>6. CASE Returns /\ ~ReturnTransitionToBuffered
  <2>1. /\ loop' = loop /\ exec_mode' = exec_mode
        /\ \/ mode' \in {mode, "manual"}
           \/ mode' = "running" /\ job = "start_run"
           \/ mode' = "done" /\ job = "check_if_done"
        /\ job' # "transition_to_buffered"
    BY <1>6 DEF Returns, ReturnStartRun, ReturnProgramManual, ReturnTransitionToManual,
         ReturnAbortBuffered, ReturnCheckIfDone, Return, EndJob, devVars
  <2> QED BY <1>1, <2>1 DEF InShot, JobInv
<1>7. CASE Tick \/ TriggerInput
  <2>1. loop' = loop /\ UNCHANGED <<mode, job, todo, exec_mode>>
    BY <1>7, WorldStep DEF Tick, TriggerInput, jobVars
  <2> QED BY <2>1 DEF ModeInv, InShot
<1>8. CASE RestartWorker
  <2>1. mode' = "manual" /\ job' = "idle"
    BY <1>8 DEF RestartWorker, EndJob
  <2> QED BY <2>1 DEF ModeInv, InShot
<1>9. CASE UNCHANGED vars
  BY <1>9 DEF vars, devVars, jobVars, ModeInv, InShot
<1> QED BY <1>2, <1>3, <1>4, <1>5, <1>6, <1>7, <1>8, <1>9, StepKinds

\* A session with repetition set runs its shots with repetition, whatever commands fail
\* and whenever the worker process is replaced: CMD_KEEP is on its way in every
\* transition that needs it, and nothing takes it back.
THEOREM RepeatsWhenSet == Spec => []RepetitionApplied
<1>1. Init => ModeInv
  BY DEF Init, DevInit, FreshWorker, ModeInv, InShot
<1>2. SafeInv /\ ModeInv /\ [Next]_vars => ModeInv'
  BY ModeStep
<1>3. ModeInv => RepetitionApplied
  BY DEF ModeInv, RepetitionApplied, InShot
<1> QED BY Safe, <1>1, <1>2, <1>3, PTL DEF Spec

-----------------------------------------------------------------------------
(* What holds as long as CMD_SWR gets through and no program waits.        *)

LEMMA NothingHeld ==
  ASSUME \A s \in Shots : HasWait[s] = FALSE, held = FALSE, [Next]_vars
  PROVE  held' = FALSE
<1> USE DEF devVars, manVars, runVars
<1>1. ASSUME Begin PROVE held' = FALSE
  BY <1>1 DEF Begin
<1>2. ASSUME NEW c, Execute(c) PROVE held' = FALSE
  BY <1>1, <1>2 DEF Execute, Abt, Cls, Man, Keep, Load, SetDone, Arm, Inert
<1>3. ASSUME NEW c, FailedExchange(c) PROVE held' = FALSE
  BY <1>2, <1>3 DEF FailedExchange, Load, Inert
<1>4. CASE CommandSucceeds \/ StatusUnknown \/ CommandRaises
  BY <1>2, <1>3, <1>4 DEF CommandSucceeds, StatusUnknown, CommandRaises
<1>5. CASE TriggerInput
  BY <1>1, <1>5 DEF TriggerInput, Trigger
<1>6. CASE Tick
  BY <1>6 DEF Tick, DevTick, PlayTick, Pause, EndOfProgram
<1>7. CASE UNCHANGED vars
  BY <1>7 DEF vars
<1> QED BY <1>4, <1>5, <1>6, <1>7, StepKinds

LEMMA PlayStep ==
  ASSUME "SWR" \notin LostRequests, "SWR" \notin LostAnswers,
         \A s \in Shots : HasWait[s] = FALSE, SafeInv, PlayInv, [Next]_vars
  PROVE  PlayInv'
<1> USE DEF SafeInv, manVars, runVars, bufVars, timeVars
<1>1. held' = FALSE
  BY NothingHeld DEF PlayInv
<1>2. ASSUME mode' # "running", job' \notin {"start_run", "check_if_done"}
      PROVE  PlayInv'
  BY <1>1, <1>2 DEF PlayInv
<1>3. ASSUME mode = "running", mode' = "running", job # "start_run", job' # "start_run",
             UNCHANGED <<phase, left, played, stop, armed, elapsed>>,
             job' = "check_if_done" => job = job' /\ age' = age
      PROVE  PlayInv'
  BY <1>1, <1>3 DEF PlayInv, Playing
<1>4. <<"SWR">> # <<>> /\ NoTime \notin Nat
  BY DEF NoTime
<1>5. CASE CallStartRun
  <2>1. /\ job' = "start_run" /\ mode' = "buffered" /\ phase' = phase /\ armed' = armed
        /\ mode = "buffered" /\ job = "idle"
        /\ todo' = IF armed /\ source = "software" THEN <<"SWR">> ELSE <<>>
    BY <1>5 DEF CallStartRun, Start, devVars
  <2>2. source = "software" /\ phase # "armed"
    BY <1>5, <2>1 DEF CallStartRun, ShotInv, InShot, Active
  <2> QED BY <1>1, <1>4, <2>1, <2>2 DEF PlayInv
<1>6. ASSUME NEW f \in BOOLEAN, CallCheckIfDone(f) PROVE PlayInv'
  <2>1. /\ job' = "check_if_done" /\ age' = elapsed /\ elapsed' = elapsed
        /\ elapsed # NoTime /\ mode = "running" /\ mode' = mode
        /\ UNCHANGED <<phase, left, played, stop, armed>> /\ ~BeforeCompletion
    BY <1>6 DEF CallCheckIfDone, Start, devVars
  <2>2. elapsed \in Nat /\ stop \in Nat /\ CompletionBuffer \in Nat
    BY <2>1, WorkerAssumption DEF TypeOK, WorkerTypeOK, Horizon
  <2>3. stop <= elapsed
    BY <2>1, <2>2 DEF BeforeCompletion
  <2> QED BY <1>1, <2>1, <2>2, <2>3 DEF PlayInv, Playing
<1>7. CASE Calls
  <2>1. ASSUME NEW s \in Shots, CallTransitionToBuffered(s) PROVE PlayInv'
    BY <1>2, <2>1 DEF CallTransitionToBuffered, Start
  <2>2. ASSUME NEW v \in SUBSET Channels, CallProgramManual(v) PROVE PlayInv'
    <3>1. CASE mode = "manual"
      BY <1>2, <2>2, <3>1 DEF CallProgramManual, Start
    <3>2. CASE mode = "running"
      BY <1>3, <2>2, <3>2 DEF CallProgramManual, Start, devVars
    <3> QED BY <2>2, <3>1, <3>2 DEF CallProgramManual
  <2>3. ASSUME NEW f \in BOOLEAN, CheckWithoutQuery(f) PROVE PlayInv'
    <3>1. CASE mode' = "done"
      BY <1>2, <2>3, <3>1 DEF CheckWithoutQuery, jobVars
    <3>2. CASE mode' = mode
      BY <1>3, <2>3, <3>2 DEF CheckWithoutQuery, ReportDone, jobVars, devVars
    <3> QED BY <2>3, <3>1, <3>2 DEF CheckWithoutQuery, ReportDone
  <2>4. CASE CallTransitionToManual \/ CallAbortBuffered
    BY <1>2, <2>4 DEF CallTransitionToManual, CallAbortBuffered, Start
  <2> QED BY <1>5, <1>6, <1>7, <2>1, <2>2, <2>3, <2>4 DEF Calls
<1>8. CASE CommandSucceeds
  <2>1. /\ todo # <<>> /\ Execute(Head(todo)) /\ todo' = Tail(todo)
        /\ UNCHANGED <<mode, job, stop, armed, elapsed, age>>
    BY <1>8 DEF CommandSucceeds
  <2>2. CASE mode = "running"
    <3>1. job \in {"program_manual", "check_if_done"}
          /\ Head(todo) \in {"READ", "MAN", "STATUS"}
      BY <2>1, <2>2, JobHead
    <3>2. UNCHANGED <<phase, left, played>>
      BY <2>1, <3>1 DEF Execute, Man, Inert, devVars
    <3> QED BY <1>3, <2>1, <2>2, <3>1, <3>2
  <2>3. CASE job = "start_run"
    <3>1. Begin /\ mode = "buffered"
      BY <2>1, <2>3, JobHead DEF Execute
    <3>2. prog = Loaded(shot) /\ stop = Stop[shot] /\ armed = ~Empty[shot] /\ shot \in Shots
      BY <3>1 DEF ShotInv, InShot, JobInv
    <3>3. phase' # "armed"
      BY <3>1, BeginDevice
    <3>4. stop \in Nat
      BY WorkerAssumption DEF TypeOK, WorkerTypeOK
    <3>5. armed => phase' = "running" /\ left' = stop
      BY <3>1, <3>2 DEF Begin, Loaded
    <3>6. armed => 0 + left' <= stop
      BY <3>4, <3>5
    <3> QED BY <1>1, <2>1, <2>3, <3>1, <3>3, <3>5, <3>6 DEF PlayInv, Playing
  <2>4. CASE mode # "running" /\ job # "start_run"
    BY <1>2, <2>1, <2>4 DEF JobInv
  <2> QED BY <2>2, <2>3, <2>4
<1>9. CASE StatusUnknown \/ CommandRaises
  <2>1. /\ todo # <<>> /\ FailedExchange(Head(todo))
        /\ UNCHANGED <<stop, armed, elapsed>>
        /\ \/ job' = job /\ mode' = mode /\ age' = age
           \/ job' = "idle" /\ mode' = IF job = "start_run" THEN "running" ELSE mode
    BY <1>9 DEF StatusUnknown, CommandRaises, EndJob
  <2>2. job # "start_run"
    BY <2>1, JobHead DEF FailedExchange
  <2>3. CASE mode = "running"
    <3>1. job \in {"program_manual", "check_if_done"}
          /\ Head(todo) \in {"READ", "MAN", "STATUS"}
      BY <2>1, <2>2, <2>3, JobHead
    <3>2. UNCHANGED <<phase, left, played>>
      BY <2>1, <3>1 DEF FailedExchange, Execute, Man, Inert, devVars
    <3> QED BY <1>3, <2>1, <2>2, <2>3, <3>1, <3>2
  <2>4. CASE mode # "running"
    BY <1>2, <2>1, <2>2, <2>4 DEF JobInv
  <2> QED BY <2>3, <2>4
<1>10. CASE ReturnStartRun
  <2>1. /\ job = "start_run" /\ todo = <<>> /\ job' = "idle" /\ mode' = "running"
        /\ UNCHANGED <<devVars, stop, armed>>
        /\ elapsed' = IF armed /\ source = "software" THEN 0 ELSE elapsed
    BY <1>10 DEF ReturnStartRun, Return, EndJob
  <2>2. armed => elapsed' = 0
    BY <2>1 DEF ShotInv, InShot, JobInv
  <2>3. armed => Playing(0)
    BY <2>1 DEF PlayInv
  <2> QED BY <1>1, <1>4, <2>1, <2>2, <2>3 DEF PlayInv, Playing, devVars
<1>11. CASE ReturnProgramManual \/ ReturnCheckIfDone
  <2>1. /\ job # "start_run" /\ job' = "idle" /\ mode' \in {mode, "done"}
        /\ UNCHANGED <<devVars, stop, armed, elapsed>>
    BY <1>11 DEF ReturnProgramManual, ReturnCheckIfDone, Return, EndJob
  <2> QED BY <1>2, <1>3, <2>1 DEF devVars
<1>12. CASE ReturnTransitionToBuffered \/ ReturnTransitionToManual \/ ReturnAbortBuffered
            \/ RestartWorker
  BY <1>2, <1>12 DEF ReturnTransitionToBuffered, ReturnTransitionToManual,
       ReturnAbortBuffered, RestartWorker, Return, EndJob
<1>13. CASE TriggerInput
  <2>1. UNCHANGED <<mode, job>>
    BY <1>13 DEF TriggerInput, jobVars
  <2>2. mode # "running" /\ job \notin {"start_run", "check_if_done"}
    BY <1>13 DEF TriggerInput, Trigger, PlayInv, JobInv
  <2> QED BY <1>2, <2>1, <2>2
<1>14. CASE Tick
  <2>1. /\ UNCHANGED <<mode, job, todo, stop, armed, age>> /\ DevTick
        /\ elapsed' = IF elapsed = NoTime THEN NoTime ELSE Later(elapsed, Horizon)
    BY <1>14 DEF Tick, jobVars
  <2>2. /\ left \in Nat /\ stop \in Nat /\ age \in Nat
        /\ elapsed # NoTime => elapsed \in Nat
    BY WorkerAssumption DEF TypeOK, DevTypeOK, JobTypeOK, WorkerTypeOK, Horizon
  <2>3. elapsed # NoTime => elapsed' \in Nat /\ elapsed <= elapsed' /\ elapsed' <= elapsed + 1
    BY <2>1, <2>2 DEF Later
  <2>4. /\ phase' = "armed" => phase = "armed"
        /\ \/ played' = played /\ phase' = phase /\ left' = left /\ phase # "running"
           \/ played' = played /\ phase' = phase /\ left' = left - 1 /\ left > 1
           \/ played' = TRUE
    BY <1>14, <2>1, WorldStep DEF DevTick, PlayTick, EndOfProgram, Pause, PlayInv, devVars
  <2>5. Playing(0) /\ stop' = stop => Playing(0)'
    BY <2>1, <2>2, <2>4 DEF Playing
  <2>6. ASSUME elapsed # NoTime, Playing(elapsed) PROVE Playing(elapsed)'
    BY <2>1, <2>2, <2>3, <2>4, <2>6 DEF Playing
  <2>7. job = "check_if_done" => elapsed' # NoTime /\ age' <= elapsed' /\ stop' <= age'
    BY <1>4, <2>1, <2>2, <2>3 DEF PlayInv
  <2> QED BY <1>1, <1>4, <2>1, <2>3, <2>4, <2>5, <2>6, <2>7 DEF PlayInv
<1>15. CASE UNCHANGED vars
  BY <1>1, <1>15 DEF vars, devVars, jobVars, PlayInv, Playing
<1> QED BY <1>7, <1>8, <1>9, <1>10, <1>11, <1>12, <1>13, <1>14, <1>15
        DEF Next, WorkerStep, Returns

\* A shot is reported as finished only after its program was played to the end,
\* whatever the device answers to the status queries and whichever of the other
\* commands fail.
THEOREM ReportedShotsWerePlayed ==
  ASSUME "SWR" \notin LostRequests, "SWR" \notin LostAnswers,
         \A s \in Shots : HasWait[s] = FALSE
  PROVE  Spec => DoneMeansPlayed
<1>1. Init => PlayInv
  BY DEF Init, DevInit, FreshWorker, PlayInv
<1>2. SafeInv /\ PlayInv /\ [Next]_vars => PlayInv'
  BY PlayStep
<1>3. SafeInv /\ PlayInv /\ [Next]_vars
        => [mode # "done" /\ mode' = "done" => played' \/ Empty[shot]]_vars
  <2> SUFFICES ASSUME SafeInv, PlayInv, Next, mode # "done", mode' = "done", ~Empty[shot]
               PROVE  played'
    OBVIOUS
  <2> USE DEF SafeInv
  <2>1. mode = "running" /\ UNCHANGED devVars
        /\ (elapsed = NoTime \/ job = "check_if_done")
    BY DEF Next, Calls, CallTransitionToBuffered, CallStartRun, CallProgramManual,
       CallTransitionToManual, CallAbortBuffered, CheckWithoutQuery, ReportDone,
       CallCheckIfDone, WorkerStep, CommandSucceeds, CommandRaises, StatusUnknown,
       Returns, ReturnTransitionToBuffered, ReturnStartRun, ReturnProgramManual,
       ReturnTransitionToManual, ReturnAbortBuffered, ReturnCheckIfDone, Return,
       RestartWorker, Tick, TriggerInput, JobInv
  <2>2. armed
    BY <2>1 DEF ShotInv, InShot
  <2>3. elapsed # NoTime /\ Playing(elapsed) /\ age <= elapsed /\ stop <= age
    BY <2>1, <2>2 DEF PlayInv
  <2>4. phase = "running" => left > 0 /\ left \in Nat
    BY DEF DeviceInv, TypeOK, DevTypeOK
  <2>5. elapsed \in Nat /\ stop \in Nat /\ age \in Nat
    BY <2>3, WorkerAssumption DEF TypeOK, JobTypeOK, WorkerTypeOK, Horizon
  <2>6. played
    BY <2>3, <2>4, <2>5 DEF Playing
  <2> QED BY <2>1, <2>6 DEF devVars, runVars
<1> QED BY Safe, <1>1, <1>2, <1>3, PTL DEF Spec, DoneMeansPlayed

-----------------------------------------------------------------------------
(* What holds of programs that wait, as long as CMD_SWR gets through and   *)
(* the status queries are answered.                                        *)

LEMMA StartedStep ==
  ASSUME {"SWR", "STATUS"} \cap (LostRequests \cup LostAnswers) = {},
         SafeInv, StartedInv, [Next]_vars
  PROVE  StartedInv'
<1> USE DEF SafeInv, manVars, runVars, bufVars, timeVars
<1>1. ASSUME mode' # "running", job' \notin {"start_run", "check_if_done"}
      PROVE  StartedInv'
  BY <1>1 DEF StartedInv
<1>2. ASSUME mode = "running", mode' = "running", job' # "start_run",
             phase' # "armed", armed' = armed, elapsed # NoTime => elapsed' # NoTime,
             phase = "running" => played' \/ phase' = "running", played => played',
             job' = "check_if_done" /\ todo' = <<>> /\ armed =>
               status' \in {"idle", "other"} /\ (status' = "idle" => played')
      PROVE  StartedInv'
  BY <1>2 DEF StartedInv
<1>3. <<"SWR">> # <<>> /\ <<"STATUS">> # <<>> /\ NoTime \notin Nat
  BY DEF NoTime
<1>4. CASE CallStartRun
  <2>1. /\ job' = "start_run" /\ mode' = "buffered" /\ phase' = phase /\ armed' = armed
        /\ mode = "buffered" /\ job = "idle"
        /\ todo' = IF armed /\ source = "software" THEN <<"SWR">> ELSE <<>>
    BY <1>4 DEF CallStartRun, Start, devVars
  <2>2. source = "software" /\ phase # "armed"
    BY <1>4, <2>1 DEF CallStartRun, ShotInv, InShot, Active
  <2> QED BY <1>3, <2>1, <2>2 DEF StartedInv
<1>5. CASE Calls
  <2>1. ASSUME NEW s \in Shots, CallTransitionToBuffered(s) PROVE StartedInv'
    BY <1>1, <2>1 DEF CallTransitionToBuffered, Start
  <2>2. ASSUME NEW v \in SUBSET Channels, CallProgramManual(v) PROVE StartedInv'
    <3>1. CASE mode = "manual"
      BY <1>1, <2>2, <3>1 DEF CallProgramManual, Start
    <3>2. CASE mode = "running"
      BY <1>2, <2>2, <3>2 DEF CallProgramManual, Start, devVars, StartedInv
    <3> QED BY <2>2, <3>1, <3>2 DEF CallProgramManual
  <2>3. ASSUME NEW f \in BOOLEAN, CheckWithoutQuery(f) PROVE StartedInv'
    <3>1. CASE mode' = "done"
      BY <1>1, <2>3, <3>1 DEF CheckWithoutQuery, jobVars
    <3>2. CASE mode' = mode
      BY <1>2, <2>3, <3>2 DEF CheckWithoutQuery, ReportDone, jobVars, devVars, StartedInv
    <3> QED BY <2>3, <3>1, <3>2 DEF CheckWithoutQuery, ReportDone
  <2>4. ASSUME NEW f \in BOOLEAN, CallCheckIfDone(f) PROVE StartedInv'
    BY <1>2, <1>3, <2>4 DEF CallCheckIfDone, Start, devVars, StartedInv
  <2>5. CASE CallTransitionToManual \/ CallAbortBuffered
    BY <1>1, <2>5 DEF CallTransitionToManual, CallAbortBuffered, Start
  <2> QED BY <1>4, <1>5, <2>1, <2>2, <2>3, <2>4, <2>5 DEF Calls
<1>6. CASE CommandSucceeds
  <2>1. /\ todo # <<>> /\ Execute(Head(todo)) /\ todo' = Tail(todo)
        /\ UNCHANGED <<mode, job, stop, armed, elapsed>>
    BY <1>6 DEF CommandSucceeds
  <2>2. CASE mode = "running" /\ Head(todo) = "STATUS"
    <3>1. UNCHANGED devVars /\ status' \in StatusCodes
      BY <1>6, <2>1, <2>2 DEF CommandSucceeds, Execute, Inert
    <3>2. armed => played \/ phase = "running"
      BY <2>2 DEF StartedInv
    <3>3. armed => status' \in {"idle", "other"} /\ (status' = "idle" => played')
      BY <3>1, <3>2 DEF StatusCodes, devVars
    <3>4. job # "start_run"
      BY <2>2 DEF JobInv
    <3> QED BY <1>2, <2>1, <2>2, <3>1, <3>3, <3>4 DEF devVars, StartedInv
  <2>3. CASE mode = "running" /\ Head(todo) # "STATUS"
    <3>1. job = "program_manual" /\ Head(todo) \in {"READ", "MAN"}
      BY <2>1, <2>3, JobHead
    <3>2. UNCHANGED <<phase, played>>
      BY <2>1, <3>1 DEF Execute, Man, Inert, devVars
    <3> QED BY <1>2, <2>1, <2>3, <3>1, <3>2 DEF StartedInv
  <2>4. CASE job = "start_run"
    <3>1. Begin /\ mode = "buffered"
      BY <2>1, <2>4, JobHead DEF Execute
    <3>2. prog = Loaded(shot) /\ armed = ~Empty[shot] /\ shot \in Shots
      BY <3>1 DEF ShotInv, InShot, JobInv
    <3>3. phase' # "armed"
      BY <3>1, BeginDevice
    <3>4. armed => phase' = "running"
      BY <3>1, <3>2 DEF Begin, Loaded
    <3> QED BY <2>1, <2>4, <3>1, <3>3, <3>4 DEF StartedInv
  <2>5. CASE mode # "running" /\ job # "start_run"
    BY <1>1, <2>1, <2>5 DEF JobInv
  <2> QED BY <2>2, <2>3, <2>4, <2>5
<1>7. CASE StatusUnknown \/ CommandRaises
  <2>1. /\ todo # <<>> /\ FailedExchange(Head(todo)) /\ Head(todo) \notin {"SWR", "STATUS"}
    BY <1>7 DEF StatusUnknown, CommandRaises, FailedExchange
  <2>2. /\ CommandRaises /\ job \notin {"start_run", "check_if_done"}
    BY <1>7, <2>1, JobHead DEF StatusUnknown
  <2>3. /\ job' = "idle" /\ mode' = mode /\ UNCHANGED <<armed, elapsed>>
    BY <2>2 DEF CommandRaises, EndJob
  <2>4. CASE mode = "running"
    <3>1. Head(todo) \in {"READ", "MAN"}
      BY <2>1, <2>2, <2>4, JobHead
    <3>2. UNCHANGED <<phase, played>>
      BY <2>1, <3>1 DEF FailedExchange, Execute, Man, Inert, devVars
    <3> QED BY <1>2, <2>3, <2>4, <3>2 DEF StartedInv
  <2> QED BY <1>1, <2>3, <2>4
<1>8. CASE ReturnStartRun
  <2>1. /\ job = "start_run" /\ todo = <<>> /\ job' = "idle" /\ mode' = "running"
        /\ UNCHANGED <<devVars, stop, armed>>
        /\ elapsed' = IF armed /\ source = "software" THEN 0 ELSE elapsed
    BY <1>8 DEF ReturnStartRun, Return, EndJob
  <2>2. armed => elapsed' = 0
    BY <2>1 DEF ShotInv, InShot, JobInv
  <2> QED BY <1>3, <2>1, <2>2 DEF StartedInv, devVars
<1>9. CASE ReturnProgramManual \/ ReturnCheckIfDone
  <2>1. /\ job # "start_run" /\ job' = "idle" /\ mode' \in {mode, "done"}
        /\ UNCHANGED <<devVars, stop, armed, elapsed>>
    BY <1>9 DEF ReturnProgramManual, ReturnCheckIfDone, Return, EndJob
  <2> QED BY <1>1, <1>2, <2>1 DEF devVars, StartedInv
<1>10. CASE ReturnTransitionToBuffered \/ ReturnTransitionToManual \/ ReturnAbortBuffered
            \/ RestartWorker
  BY <1>1, <1>10 DEF ReturnTransitionToBuffered, ReturnTransitionToManual,
       ReturnAbortBuffered, RestartWorker, Return, EndJob
<1>11. CASE Tick \/ TriggerInput
  <2>1. UNCHANGED <<mode, jobVars, armed>> /\ (elapsed # NoTime => elapsed' # NoTime)
    <3>1. elapsed # NoTime => elapsed \in Nat
      BY WorkerAssumption DEF TypeOK, WorkerTypeOK, Horizon
    <3> QED BY <1>3, <1>11, <3>1 DEF Tick, TriggerInput, Later
  <2>2. ASSUME mode = "running" \/ job = "start_run"
        PROVE  /\ phase' # "armed" /\ (played => played')
               /\ phase = "running" => played' \/ phase' = "running"
    <3>1. phase # "armed"
      BY <2>2 DEF StartedInv
    <3>2. phase' # "armed"
      BY <1>11, <3>1, WorldStep
    <3>3. CASE Tick
      BY <3>2, <3>3 DEF Tick, DevTick, PlayTick, EndOfProgram, Pause, devVars
    <3>4. CASE TriggerInput
      BY <3>1, <3>2, <3>4 DEF TriggerInput, Trigger
    <3> QED BY <1>11, <3>2, <3>3, <3>4
  <2> QED BY <2>1, <2>2 DEF jobVars, StartedInv, JobInv
<1>12. CASE UNCHANGED vars
  BY <1>12 DEF vars, devVars, jobVars, StartedInv
<1> QED BY <1>5, <1>6, <1>7, <1>8, <1>9, <1>10, <1>11, <1>12 DEF Next, WorkerStep, Returns

\* As long as CMD_SWR gets through and the device answers the queries, a shot is
\* reported as finished only when it was played or the hard time-out has passed,
\* however long it pauses at its WAITs.
THEOREM ReportedInTime ==
  ASSUME {"SWR", "STATUS"} \cap (LostRequests \cup LostAnswers) = {}
  PROVE  Spec => DoneOrTimedOut
<1>1. Init => StartedInv
  BY DEF Init, DevInit, FreshWorker, StartedInv
<1>2. SafeInv /\ StartedInv /\ [Next]_vars => StartedInv'
  BY StartedStep
<1>3. SafeInv /\ StartedInv /\ [Next]_vars
        => [mode # "done" /\ mode' = "done"
              => played' \/ Empty[shot] \/ age >= stop + HardTimeout]_vars
  <2> SUFFICES ASSUME SafeInv, StartedInv, Next, mode # "done", mode' = "done", ~Empty[shot]
               PROVE  played' \/ age >= stop + HardTimeout
    OBVIOUS
  <2> USE DEF SafeInv
  <2>1. /\ mode = "running" /\ UNCHANGED devVars
        /\ elapsed = NoTime \/ (job = "check_if_done" /\ todo = <<>> /\ Finished)
    BY DEF Next, Calls, CallTransitionToBuffered, CallStartRun, CallProgramManual,
       CallTransitionToManual, CallAbortBuffered, CheckWithoutQuery, ReportDone,
       CallCheckIfDone, WorkerStep, CommandSucceeds, CommandRaises, StatusUnknown,
       Returns, ReturnTransitionToBuffered, ReturnStartRun, ReturnProgramManual,
       ReturnTransitionToManual, ReturnAbortBuffered, ReturnCheckIfDone, Return,
       RestartWorker, Tick, TriggerInput, JobInv
  <2>2. armed
    BY <2>1 DEF ShotInv, InShot
  <2>3. Finished /\ status \in {"idle", "other"} /\ (status = "idle" => played)
    BY <2>1, <2>2 DEF StartedInv
  <2>4. played \/ age >= stop + HardTimeout
    BY <2>2, <2>3 DEF Finished
  <2> QED BY <2>1, <2>4 DEF devVars, runVars
<1> QED BY Safe, <1>1, <1>2, <1>3, PTL DEF Spec, DoneOrTimedOut
=============================================================================
