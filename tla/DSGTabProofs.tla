----------------------------- MODULE DSGTabProofs -----------------------------
(***************************************************************************)
(* Proofs about DSGTab: whatever the tab, BLACS and the user do is a       *)
(* behaviour of the worker as DSGWorker describes it, so that the theorems *)
(* of DSGWorkerProofs hold under the tab; and the tab's own invariants.    *)
(***************************************************************************)
EXTENDS DSGTab, DSGWorkerProofs

\* Where BLACS and the worker are while a state function is suspended.
TabInv ==
  /\ TabTypeOK
  /\ tab = "starting" =>
       \/ job = "start_run" /\ mode = "buffered"
       \/ job = "idle" /\ mode = "running"
  /\ tab = "polling" => job = "idle" /\ mode = "running"
  /\ tab = "programming" => mode = "running"
  /\ tab = "checking" => mode \in {"running", "done"}
  /\ tab = "notified" => job = "idle" /\ mode = "done"

\* From the end of transition_to_buffered to start_run the panel shows what the
\* worker holds; then the tracker is what the worker holds or, while
\* program_manual runs, the local of the tab is what it will hold.
TrackerInv ==
  /\ mode = "buffered" \/ tab = "starting" => panel = gui
  /\ tab \in {"polling", "checking"} => last_smart = gui
  /\ tab = "programming" =>
       current = IF job = "program_manual" THEN new_mask ELSE gui

\* Every channel whose checkbox is not as the program starts is forced.
Forced(v) == \A c \in Channels : ~(c \in v <=> c \in First[shot]) => c \in man_en

ForcedInv ==
  /\ mode \in {"buffered", "running"} => Forced(gui)
  /\ job = "program_manual" /\ todo = <<>> /\ mode = "running" => Forced(new_mask)

-----------------------------------------------------------------------------
(* The tab implements the worker's specification.                          *)

LEMMA TabImplementsNext == TabTypeOK /\ [TabNext]_allVars => [Next]_vars
<1> SUFFICES ASSUME TabTypeOK, [TabNext]_allVars PROVE [Next]_vars
  OBVIOUS
<1>1. panel \in SUBSET Channels
  BY DEF TabTypeOK
<1>2. CASE TabStep
  BY <1>1, <1>2 DEF TabStep, TabStartRun, SeedTracker, PollPanelChanged, PanelProgrammed,
     PollPanelUnchanged, Checked, CheckIfDone, Next, Calls
<1>3. CASE WorkerGoesOn \/ PanelShowsResult
  BY <1>3 DEF WorkerGoesOn, PanelShowsResult, Next, WorkerStep, Returns
<1>4. CASE BlacsEntersShot \/ BlacsLeavesShot \/ BlacsProgramsPanel
  BY <1>1, <1>4 DEF BlacsEntersShot, BlacsLeavesShot, BlacsProgramsPanel, Next, Calls
<1>5. CASE \E c \in Channels : UserToggles(c)
  BY <1>5 DEF UserToggles
<1>6. CASE TimePasses \/ (TriggerInput /\ UNCHANGED tabVars)
  BY <1>6 DEF TimePasses, Next
<1>7. CASE UNCHANGED allVars
  BY <1>7 DEF allVars
<1> QED BY <1>2, <1>3, <1>4, <1>5, <1>6, <1>7 DEF TabNext

\* What a step of the worker does to the place of BLACS and of the job: it goes on
\* with the job, or ends it.
LEMMA GoesOn ==
  ASSUME SafeInv, WorkerGoesOn
  PROVE  /\ UNCHANGED tabVars /\ job # "idle" /\ job' \in {job, "idle"}
         /\ \/ mode' = mode /\ (job = "start_run" => job' = job)
            \/ job = "start_run" /\ job' = "idle" /\ mode' = "running"
            \/ job = "check_if_done" /\ job' = "idle" /\ mode' = "done"
            \/ job = "abort_buffered" /\ job' = "idle" /\ mode' = "manual"
<1> USE DEF SafeInv, WorkerGoesOn
<1>1. todo # <<>> => job # "idle"
  BY DEF JobInv
<1>2. CASE CommandSucceeds
  BY <1>1, <1>2 DEF CommandSucceeds
<1>3. CASE CommandRaises \/ StatusUnknown
  BY <1>1, <1>3, JobHead DEF CommandRaises, StatusUnknown, EndJob
<1>4. CASE ReturnStartRun \/ ReturnProgramManual \/ ReturnAbortBuffered \/ ReturnCheckIfDone
  BY <1>4 DEF ReturnStartRun, ReturnProgramManual, ReturnAbortBuffered, ReturnCheckIfDone,
     Return, EndJob
<1> QED BY <1>2, <1>3, <1>4

LEMMA TabInvStep ==
  ASSUME SafeInv, TabInv, [TabNext]_allVars
  PROVE  TabInv'
<1> USE DEF TabInv, TabTypeOK, tabVars
<1>1. TypeOK'
  BY TabImplementsNext, SafeStep DEF SafeInv
<1>2. CASE TabStartRun
  BY <1>2 DEF TabStartRun, CallStartRun, Start
<1>3. CASE SeedTracker
  BY <1>3 DEF SeedTracker, vars, jobVars
<1>4. ASSUME NEW f \in BOOLEAN, CheckIfDone(f), mode = "running"
      PROVE  tab' = "checking" /\ job' \in {"idle", "check_if_done"} /\ mode' \in {"running", "done"}
  BY <1>4 DEF CheckIfDone, CheckWithoutQuery, ReportDone, CallCheckIfDone, Start, jobVars
<1>5. CASE PollPanelChanged
  BY <1>5 DEF PollPanelChanged, CallProgramManual, Start
<1>6. CASE PanelProgrammed \/ PollPanelUnchanged
  BY <1>4, <1>6 DEF PanelProgrammed, PollPanelUnchanged
<1>7. CASE Checked
  BY <1>7 DEF Checked, vars, jobVars
<1>8. CASE WorkerGoesOn
  BY <1>8, GoesOn
<1>9. CASE PanelShowsResult
  <2>1. job \in {"transition_to_buffered", "transition_to_manual"} /\ mode \in {"entering", "leaving"}
    BY <1>9 DEF PanelShowsResult, ReturnTransitionToBuffered, ReturnTransitionToManual,
       Return, SafeInv, JobInv
  <2>2. gui' \in SUBSET Channels
    BY <1>1 DEF TypeOK, WorkerTypeOK
  <2> QED BY <1>9, <2>1, <2>2 DEF PanelShowsResult
<1>10. CASE BlacsEntersShot \/ BlacsProgramsPanel
  <2>1. job = "idle" /\ tabVars' = tabVars /\ (mode = "manual" \/ mode = "running")
    BY <1>10 DEF BlacsEntersShot, BlacsProgramsPanel, CallTransitionToBuffered,
       CallProgramManual, Start
  <2>2. mode = "manual"
    BY <1>10 DEF BlacsEntersShot, BlacsProgramsPanel, CallTransitionToBuffered
  <2> QED BY <2>1, <2>2
<1>11. CASE BlacsLeavesShot
  BY <1>11 DEF BlacsLeavesShot
<1>12. CASE \E c \in Channels : UserToggles(c)
  BY <1>12 DEF UserToggles, vars, jobVars
<1>13. CASE TimePasses \/ (TriggerInput /\ UNCHANGED tabVars)
  BY <1>13 DEF TimePasses, Tick, TriggerInput, jobVars
<1>14. CASE UNCHANGED allVars
  BY <1>14 DEF allVars, vars, jobVars
<1> QED BY <1>2, <1>3, <1>5, <1>6, <1>7, <1>8, <1>9, <1>10, <1>11, <1>12, <1>13, <1>14
        DEF TabNext, TabStep

LEMMA TabSafe == TabSpec => [](SafeInv /\ TabInv)
<1>1. TabInit => SafeInv /\ TabInv
  BY SafeInit DEF TabInit, TabInv, TabTypeOK, Init, FreshWorker
<1>2. SafeInv /\ TabInv /\ [TabNext]_allVars => (SafeInv /\ TabInv)'
  BY TabImplementsNext, SafeStep, TabInvStep DEF TabInv
<1> QED BY <1>1, <1>2, PTL DEF TabSpec

\* The composition of tab, BLACS and user with the worker shows only behaviours
\* of DSGWorker: whatever is proved of the worker holds of the composition.
THEOREM TabImplementsWorker == TabSpec => Spec
<1>1. TabInit => Init
  BY DEF TabInit
<1>2. SafeInv /\ TabInv /\ [TabNext]_allVars => [Next]_vars
  BY TabImplementsNext DEF TabInv
<1> QED BY TabSafe, <1>1, <1>2, PTL DEF TabSpec, Spec

\* A suspended state function waits for the worker function it has queued and
\* for no other.
THEOREM TabTypes == TabSpec => []TabTypeOK
<1>1. TabInv => TabTypeOK
  BY DEF TabInv
<1> QED BY TabSafe, <1>1, PTL

-----------------------------------------------------------------------------
(* What the tab knows of the worker: a user who leaves the panel alone     *)
(* until start_run has returned, and a program_manual that does not raise. *)

\* How the tab's view of the worker survives a step that is not its own.
LEMMA TrackerStep ==
  ASSUME ~EarlyUser, {"READ", "MAN"} \cap (LostRequests \cup LostAnswers) = {},
         SafeInv, TabInv, TrackerInv, [TabNext]_allVars
  PROVE  TrackerInv'
<1> USE DEF TabInv, TrackerInv, tabVars
<1>1. CASE TabStartRun
  BY <1>1 DEF TabStartRun, CallStartRun, Start
<1>2. CASE SeedTracker
  BY <1>2 DEF SeedTracker, vars, jobVars
<1>3. ASSUME NEW f \in BOOLEAN, CheckIfDone(f), mode = "running"
      PROVE  /\ tab' = "checking" /\ mode' \in {"running", "done"} /\ gui' = gui
             /\ job = "idle"
  BY <1>3 DEF CheckIfDone, CheckWithoutQuery, ReportDone, CallCheckIfDone, Start, jobVars
<1>4. CASE PollPanelChanged
  BY <1>4 DEF PollPanelChanged, CallProgramManual, Start
<1>5. CASE PanelProgrammed \/ PollPanelUnchanged
  BY <1>3, <1>5 DEF PanelProgrammed, PollPanelUnchanged
<1>6. CASE Checked
  BY <1>6 DEF Checked, vars, jobVars
<1>7. CASE WorkerGoesOn
  <2>1. /\ UNCHANGED tabVars /\ job # "idle" /\ job' \in {job, "idle"}
        /\ mode' = "buffered" => mode = "buffered"
    BY <1>7, GoesOn
  <2>2. CASE ReturnProgramManual
    <3>1. gui' = new_mask /\ job = "program_manual" /\ job' = "idle" /\ mode' = mode
      BY <2>2 DEF ReturnProgramManual, Return, EndJob
    <3>2. mode # "buffered"
      BY <3>1 DEF SafeInv, JobInv
    <3> QED BY <2>1, <3>1, <3>2 DEF TabTypeOK
  <2>3. CASE CommandRaises
    <3>1. gui' = gui /\ todo # <<>> /\ FailedExchange(Head(todo))
      BY <2>3 DEF CommandRaises
    <3>2. Head(todo) \in LostRequests \cup LostAnswers
      BY <3>1 DEF FailedExchange
    <3>3. job # "program_manual"
      BY <3>1, <3>2, JobHead DEF SafeInv
    <3> QED BY <2>1, <3>1, <3>3
  <2>4. CASE CommandSucceeds \/ StatusUnknown
    BY <2>1, <2>4 DEF CommandSucceeds, StatusUnknown
  <2>5. CASE ReturnStartRun \/ ReturnAbortBuffered \/ ReturnCheckIfDone
    BY <2>1, <2>5 DEF ReturnStartRun, ReturnAbortBuffered, ReturnCheckIfDone, Return
  <2> QED BY <1>7, <2>2, <2>3, <2>4, <2>5 DEF WorkerGoesOn
<1>8. CASE PanelShowsResult
  <2>1. job \in {"transition_to_buffered", "transition_to_manual"} /\ mode \in {"entering", "leaving"}
    BY <1>8 DEF PanelShowsResult, ReturnTransitionToBuffered, ReturnTransitionToManual,
       Return, SafeInv, JobInv
  <2> QED BY <1>8, <2>1 DEF PanelShowsResult
<1>9. CASE BlacsEntersShot \/ BlacsProgramsPanel
  <2>1. mode = "manual" /\ job = "idle" /\ UNCHANGED tabVars /\ mode' # "buffered"
    BY <1>9 DEF BlacsEntersShot, BlacsProgramsPanel, CallTransitionToBuffered,
       CallProgramManual, Start
  <2> QED BY <2>1
<1>10. CASE BlacsLeavesShot
  BY <1>10 DEF BlacsLeavesShot, CallTransitionToManual, CallAbortBuffered
<1>11. CASE \E c \in Channels : UserToggles(c)
  BY <1>11 DEF UserToggles, Early, vars, jobVars
<1>12. CASE TimePasses \/ (TriggerInput /\ UNCHANGED tabVars)
  BY <1>12 DEF TimePasses, Tick, TriggerInput, jobVars
<1>13. CASE UNCHANGED allVars
  BY <1>13 DEF allVars, vars, jobVars
<1> QED BY <1>1, <1>2, <1>4, <1>5, <1>6, <1>7, <1>8, <1>9, <1>10, <1>11, <1>12, <1>13
        DEF TabNext, TabStep

LEMMA TabTracks ==
  ASSUME ~EarlyUser, {"READ", "MAN"} \cap (LostRequests \cup LostAnswers) = {}
  PROVE  TabSpec => []TrackerInv
<1>1. TabInit => TrackerInv
  BY DEF TabInit, Init, FreshWorker, TrackerInv
<1>2. SafeInv /\ TabInv /\ TrackerInv /\ [TabNext]_allVars => TrackerInv'
  BY TrackerStep
<1> QED BY TabSafe, <1>1, <1>2, PTL DEF TabSpec

\* The tracker of the tab and the mask of the worker agree at every poll.
THEOREM TrackerFollowsWorker ==
  ASSUME ~EarlyUser, {"READ", "MAN"} \cap (LostRequests \cup LostAnswers) = {}
  PROVE  TabSpec => []TrackerAgrees
<1>1. TrackerInv => TrackerAgrees
  BY DEF TrackerInv, TrackerAgrees
<1> QED BY TabTracks, <1>1, PTL

-----------------------------------------------------------------------------
(* Channels that differ from the first state of the program are forced.    *)

LEMMA ForcedStep ==
  ASSUME SafeInv, ForcedInv, [Next]_vars
  PROVE  ForcedInv'
<1> USE DEF SafeInv
<1>1. ASSUME mode' \notin {"buffered", "running"} PROVE ForcedInv'
  BY <1>1 DEF ForcedInv
<1>2. ASSUME mode \in {"buffered", "running"}, man_en \subseteq man_en',
             UNCHANGED <<shot, gui>>,
             job' = "program_manual" /\ todo' = <<>> =>
               \/ new_mask' = gui
               \/ new_mask' = new_mask /\ job = job' /\ todo = todo' /\ mode = mode'
      PROVE  ForcedInv'
  BY <1>2 DEF ForcedInv, Forced
<1>3. CASE Calls
  <2>1. ASSUME NEW s \in Shots, CallTransitionToBuffered(s) PROVE ForcedInv'
    BY <1>1, <2>1 DEF CallTransitionToBuffered
  <2>2. CASE CallStartRun
    BY <1>2, <2>2 DEF CallStartRun, Start, devVars, manVars
  <2>3. ASSUME NEW v \in SUBSET Channels, CallProgramManual(v) PROVE ForcedInv'
    <3>1. /\ mode' = mode /\ mode \in {"manual", "running"} /\ man_en' = man_en
          /\ UNCHANGED <<shot, gui>> /\ new_mask' = v
          /\ v = gui \/ todo' # <<>>
      BY <2>3 DEF CallProgramManual, Start, devVars, manVars
    <3> QED BY <1>1, <1>2, <3>1
  <2>4. CASE CallTransitionToManual \/ CallAbortBuffered
    BY <1>1, <2>4 DEF CallTransitionToManual, CallAbortBuffered
  <2>5. ASSUME NEW f \in BOOLEAN, CheckWithoutQuery(f) \/ CallCheckIfDone(f)
        PROVE  ForcedInv'
    BY <1>1, <1>2, <2>5 DEF CheckWithoutQuery, ReportDone, CallCheckIfDone, Start,
       devVars, manVars, jobVars
  <2> QED BY <1>3, <2>1, <2>2, <2>3, <2>4, <2>5 DEF Calls
<1>4. ASSUME mode \in {"buffered", "running"}, todo # <<>>,
             Execute(Head(todo)) \/ FailedExchange(Head(todo))
      PROVE  /\ man_en \subseteq man_en'
             /\ Head(todo) = "MAN" /\ Execute("MAN") =>
                  man_en' = man_en \cup (new_mask \ gui) \cup (gui \ new_mask)
  <2>1. \/ Head(todo) \in {"SWR", "READ", "STATUS"}
        \/ Head(todo) = "MAN" /\ job = "program_manual" /\ todo = <<"MAN">>
    BY <1>4, JobHead
  <2>2. CASE Head(todo) \in {"SWR", "READ", "STATUS"}
    BY <1>4, <2>2 DEF FailedExchange, Execute, Begin, Inert, devVars, manVars
  <2>3. CASE Head(todo) = "MAN" /\ job = "program_manual" /\ todo = <<"MAN">>
    <3>1. seen.en = man_en
      BY <2>3 DEF ManualInv
    <3>2. Execute("MAN") => man_en' = man_en \cup (new_mask \ gui) \cup (gui \ new_mask)
      BY <2>3, <3>1 DEF Execute, Man, ManualEnable, newly_high, newly_low
    <3>3. FailedExchange("MAN") => Execute("MAN") \/ man_en' = man_en
      BY DEF FailedExchange, Inert, devVars, manVars
    <3> QED BY <1>4, <2>3, <3>2, <3>3
  <2> QED BY <2>1, <2>2, <2>3
<1>5. CASE CommandSucceeds
  <2>1. /\ todo # <<>> /\ Execute(Head(todo)) /\ todo' = Tail(todo)
        /\ UNCHANGED <<mode, job, shot, gui, new_mask>>
    BY <1>5 DEF CommandSucceeds
  <2>2. CASE mode \in {"buffered", "running"} /\ Head(todo) = "MAN"
    <3>1. man_en' = man_en \cup (new_mask \ gui) \cup (gui \ new_mask)
      BY <1>4, <2>1, <2>2
    <3>2. Forced(gui)
      BY <2>2 DEF ForcedInv
    <3> QED BY <2>1, <3>1, <3>2 DEF ForcedInv, Forced
  <2>3. CASE mode \in {"buffered", "running"} /\ Head(todo) # "MAN"
    <3>1. job' = "program_manual" => todo' # <<>>
      BY <2>1, <2>3, JobHead
    <3> QED BY <1>2, <1>4, <2>1, <2>3, <3>1
  <2> QED BY <1>1, <2>1, <2>2, <2>3
<1>6. CASE StatusUnknown \/ CommandRaises
  <2>1. /\ todo # <<>> /\ FailedExchange(Head(todo)) /\ UNCHANGED <<shot, gui>>
        /\ job' # "program_manual"
        /\ mode' = mode \/ mode = "buffered"
    BY <1>6, JobHead DEF StatusUnknown, CommandRaises, EndJob
  <2>2. CASE mode \in {"buffered", "running"}
    BY <1>2, <1>4, <2>1, <2>2
  <2> QED BY <1>1, <2>1, <2>2
<1>7. CASE ReturnTransitionToBuffered
  BY <1>7 DEF ReturnTransitionToBuffered, Return, EndJob, ForcedInv, Forced
<1>8. CASE ReturnProgramManual
  BY <1>8 DEF ReturnProgramManual, Return, EndJob, devVars, manVars, ForcedInv, Forced, JobInv
<1>9. CASE ReturnStartRun \/ ReturnCheckIfDone
  <2>1. /\ mode \in {"buffered", "running"} /\ UNCHANGED <<man_en, shot, gui>> /\ job' = "idle"
    BY <1>9 DEF ReturnStartRun, ReturnCheckIfDone, Return, EndJob, devVars, manVars, JobInv
  <2> QED BY <1>2, <2>1
<1>10. CASE ReturnTransitionToManual \/ ReturnAbortBuffered \/ RestartWorker
  BY <1>1, <1>10 DEF ReturnTransitionToManual, ReturnAbortBuffered, RestartWorker
<1>11. CASE Tick \/ TriggerInput
  <2>1. man_en' = man_en /\ UNCHANGED <<mode, jobVars, shot, gui>>
    BY <1>11, WorldStep DEF Tick, TriggerInput
  <2> QED BY <1>1, <1>2, <2>1 DEF jobVars
<1>12. CASE UNCHANGED vars
  BY <1>12 DEF vars, devVars, manVars, jobVars, ForcedInv, Forced
<1> QED BY <1>3, <1>5, <1>6, <1>7, <1>8, <1>9, <1>10, <1>11, <1>12
        DEF Next, WorkerStep, Returns

LEMMA DifferencesForced == Spec => []ForcedInv
<1>1. Init => ForcedInv
  BY DEF Init, FreshWorker, ForcedInv
<1>2. SafeInv /\ ForcedInv /\ [Next]_vars => ForcedInv'
  BY ForcedStep
<1> QED BY Safe, <1>1, <1>2, PTL DEF Spec

\* When a poll finds nothing to send, every checkbox that differs from the first
\* state of the program is in force on the device.
THEOREM PanelIsInForce ==
  ASSUME ~EarlyUser, ~WorkerRestarts,
         {"READ", "MAN"} \cap (LostRequests \cup LostAnswers) = {}
  PROVE  TabSpec => []PanelInForce
<1>1. TabInv /\ TrackerInv /\ ForcedInv /\ ManualLevelsMatch => PanelInForce
  <2> SUFFICES ASSUME TabInv, TrackerInv, ForcedInv, ManualLevelsMatch,
                      tab = "polling", panel = last_smart, NEW c \in Channels,
                      (c \in panel) # (c \in First[shot])
               PROVE  c \in man_en /\ (c \in man_val <=> c \in panel)
    BY DEF PanelInForce
  <2>1. job = "idle" /\ mode = "running" /\ panel = gui
    BY DEF TabInv, TrackerInv
  <2>2. c \in man_en
    BY <2>1 DEF ForcedInv, Forced
  <2> QED BY <2>1, <2>2 DEF ManualLevelsMatch
<1>2. Spec => []ManualLevelsMatch
  BY LevelsFollowCheckboxes
<1> QED BY TabSafe, TabTracks, TabImplementsWorker, DifferencesForced, <1>1, <1>2, PTL

\* Under the tab as well a shot is reported as finished only when it was played
\* or the hard time-out has passed.
THEOREM TabReportsInTime ==
  ASSUME {"SWR", "STATUS"} \cap (LostRequests \cup LostAnswers) = {}
  PROVE  TabSpec => DoneOrTimedOut
BY TabImplementsWorker, ReportedInTime
=============================================================================
