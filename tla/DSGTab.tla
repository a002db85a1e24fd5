-------------------------------- MODULE DSGTab --------------------------------
(***************************************************************************)
(* The BLACS tab of the DSG (blacs_tabs.py) above the worker and the       *)
(* device: the checkboxes of the front panel, start_run, and the polling   *)
(* loop of wait_until_done, which carries checkboxes the user changes      *)
(* during a shot to the worker.                                            *)
(*                                                                         *)
(* A state function of the tab is suspended at each of its yields until    *)
(* the worker has returned or raised; meanwhile the user may change the    *)
(* panel.  BLACS shows the values that a worker function returns.          *)
(***************************************************************************)
EXTENDS DSGWorker

CONSTANT EarlyUser  \* the user changes checkboxes between the end of
                    \* transition_to_buffered and the end of start_run

VARIABLES
  tab,          \* where start_run or wait_until_done is suspended
  panel,        \* get_front_panel_values()
  last_smart,   \* _last_smart_values
  current       \* local of wait_until_done

tabVars == <<tab, panel, last_smart, current>>
allVars == <<vars, tabVars>>

\* A suspended state function waits for the worker function it has queued.
TabTypeOK ==
  /\ tab \in {"idle", "starting", "polling", "programming", "checking", "notified"}
  /\ {panel, last_smart, current} \subseteq SUBSET Channels
  /\ tab = "starting" => job \in {"idle", "start_run"}
  /\ tab = "programming" => job \in {"idle", "program_manual"}
  /\ tab = "checking" => job \in {"idle", "check_if_done"}

TabInit == Init /\ tab = "idle" /\ panel = {} /\ last_smart = {} /\ current = {}

-----------------------------------------------------------------------------
(* start_run and wait_until_done.                                          *)

TabStartRun ==
  /\ tab = "idle"
  /\ CallStartRun
  /\ tab' = "starting"
  /\ UNCHANGED <<panel, last_smart, current>>

SeedTracker ==
  /\ tab = "starting" /\ job = "idle"
  /\ last_smart' = panel
  /\ tab' = "polling"
  /\ UNCHANGED <<vars, panel, current>>

CheckIfDone(force_query) ==
  /\ CheckWithoutQuery(force_query) \/ CallCheckIfDone(force_query)
  /\ tab' = "checking"

\* Mutations: the yield before the forced check is missing; the values of the
\* tracker are sent instead of those of the panel.
NotAwaited ==
  /\ tab = "polling" /\ panel # last_smart
  /\ CallProgramManual(panel)
  /\ current' = panel
  /\ tab' = "checking"
  /\ UNCHANGED <<panel, last_smart>>
TrackerSent ==
  /\ tab = "polling" /\ panel # last_smart
  /\ CallProgramManual(last_smart)
  /\ current' = panel
  /\ tab' = "programming"
  /\ UNCHANGED <<panel, last_smart>>

PollPanelChanged ==
  /\ tab = "polling" /\ panel # last_smart
  /\ CallProgramManual(panel)
  /\ current' = panel
  /\ tab' = "programming"
  /\ UNCHANGED <<panel, last_smart>>

\* Mutation: the panel is read again instead of keeping what was sent.
PanelReadAgain ==
  /\ tab = "programming"
  /\ CheckIfDone(TRUE)
  /\ last_smart' = panel
  /\ UNCHANGED <<panel, current>>

PanelProgrammed ==
  /\ tab = "programming"
  /\ CheckIfDone(TRUE)
  /\ last_smart' = current
  /\ UNCHANGED <<panel, current>>

PollPanelUnchanged ==
  /\ tab = "polling" /\ panel = last_smart
  /\ CheckIfDone(FALSE)
  /\ UNCHANGED <<panel, last_smart, current>>

\* notify_queue.put('done'), or the next round.
Checked ==
  /\ tab = "checking" /\ job = "idle"
  /\ tab' = IF mode = "done" THEN "notified" ELSE "polling"
  /\ UNCHANGED <<vars, panel, last_smart, current>>

-----------------------------------------------------------------------------
(* BLACS and the user.                                                     *)

BetweenStates == tab \in {"idle", "polling", "notified"}

BlacsEntersShot == (\E s \in Shots : CallTransitionToBuffered(s)) /\ UNCHANGED tabVars

BlacsLeavesShot ==
  /\ BetweenStates
  /\ CallTransitionToManual \/ CallAbortBuffered
  /\ tab' = "idle"
  /\ UNCHANGED <<panel, last_smart, current>>

BlacsProgramsPanel ==
  /\ mode = "manual" /\ panel # gui
  /\ CallProgramManual(panel)
  /\ UNCHANGED tabVars

PanelShowsResult ==
  /\ \/ ReturnTransitionToBuffered \/ ReturnTransitionToManual
  /\ panel' = gui'
  /\ UNCHANGED <<tab, last_smart, current>>

Early == mode = "buffered" \/ tab = "starting"

UserToggles(c) ==
  /\ Early => EarlyUser
  /\ panel' = IF c \in panel THEN panel \ {c} ELSE panel \cup {c}
  /\ UNCHANGED <<vars, tab, last_smart, current>>

-----------------------------------------------------------------------------

WorkerGoesOn ==
  /\ \/ CommandSucceeds \/ CommandRaises \/ StatusUnknown
     \/ ReturnStartRun \/ ReturnProgramManual \/ ReturnAbortBuffered \/ ReturnCheckIfDone
  /\ UNCHANGED tabVars

TabStep ==
  TabStartRun \/ SeedTracker \/ PollPanelChanged \/ PanelProgrammed
  \/ PollPanelUnchanged \/ Checked

TimePasses == Tick /\ UNCHANGED tabVars

TabNext ==
  \/ TabStep
  \/ WorkerGoesOn \/ PanelShowsResult
  \/ BlacsEntersShot \/ BlacsLeavesShot \/ BlacsProgramsPanel
  \/ \E c \in Channels : UserToggles(c)
  \/ TimePasses
  \/ TriggerInput /\ UNCHANGED tabVars

\* The tab and the worker process are scheduled and time passes; the user,
\* BLACS and the trigger do what they please.
TabSpec ==
  /\ TabInit /\ [][TabNext]_allVars
  /\ WF_allVars(TabStep) /\ WF_allVars(WorkerGoesOn) /\ WF_allVars(TimePasses)

-----------------------------------------------------------------------------
(* Properties.                                                             *)

\* When a poll finds nothing to send, every checkbox that differs from the first
\* state of the program is in force: its channel is under manual control and has
\* the level of the checkbox.  This takes a user who leaves the panel alone until
\* start_run has returned, and a program_manual that does not raise.
PanelInForce ==
  tab = "polling" /\ panel = last_smart
    => \A c \in Channels : (c \in panel) # (c \in First[shot])
         => c \in man_en /\ (c \in man_val <=> c \in panel)

\* Checkboxes changed during a shot are sent to the worker as changes against
\* what it holds: the tab's tracker and the worker's mask agree at every poll.
TrackerAgrees == tab = "polling" => last_smart = gui

\* BLACS is notified of the end of every shot that is not aborted: a device that
\* never becomes idle, a link that answers nothing, a WAIT nobody triggers and a
\* user who never stops changing the panel cannot keep it waiting.
ShotEnds == tab = "polling" ~> tab = "notified" \/ mode = "aborting"
=============================================================================
