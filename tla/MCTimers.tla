------------------------------ MODULE MCTimers ------------------------------
(***************************************************************************)
(* Instances of the modules about a cluster's own threads and handlers:    *)
(* its timers, its start and stop, and the menus it offers.                *)
(* They share no state: the initial state chooses a part, and only that    *)
(* part's instance takes steps.                                            *)
(***************************************************************************)
EXTENDS Timers, Sequences

CONSTANTS
  Main, EventHandler, MaxStarts,                          \* of ClusterLifecycle
  Menu, Press, User, Bot, Right, Left, Other, FirstCommands, MaxCommands,   \* of HelpSessions
  PageCount, MaxSends, Reaction                           \* of Paginator

VARIABLES
  part,
  main, starts, running, timersUp, timerThread, loops, gateway, stop, raced, overwritten,
  restarted, outdated, terminated,
  commands, menu, session, shown, press, turns, overtaken,
  alive, sends, arrival, listeners, messageId, currentPage, handler, overlapped,
  usedFreed, caught, outOfRange

lifecycleVars == <<main, starts, running, timersUp, timerThread, loops, gateway, stop, raced,
                   overwritten, restarted, outdated, terminated>>
helpVars == <<commands, menu, session, shown, press, turns, overtaken>>
pageVars == <<alive, sends, arrival, listeners, messageId, currentPage, handler, overlapped,
              usedFreed, caught, outOfRange>>
allVars == <<part, vars, lifecycleVars, helpVars, pageVars>>
-----------------------------------------------------------------------------
Lifecycle == INSTANCE ClusterLifecycle
  WITH Handler <- EventHandler, timersRunning <- timersUp, loop <- loops
Help == INSTANCE HelpSessions
Paging == INSTANCE Paginator WITH Pages <- PageCount, Press <- Reaction

ASSUME LifecycleConstants == Lifecycle!MaxStartsAssumption /\ Lifecycle!ThreadsAreDistinct
ASSUME HelpConstants == Help!ConstantsAssumption
ASSUME PagingConstants == Paging!ConstantsAssumption

(* An idle menu's caller, one of those that it may have. *)
HelpIdle == \A m \in Menu : session[m].user = CHOOSE u \in User : TRUE

MCInit ==
  /\ part \in {"timers", "lifecycle", "help", "pages"}
  /\ Init /\ Lifecycle!Init /\ Help!Init /\ Paging!Init
  /\ part # "help" => HelpIdle

MCNext ==
  /\ part' = part
  /\ \/ /\ part = "timers" /\ Next
        /\ UNCHANGED <<lifecycleVars, helpVars, pageVars>>
     \/ /\ part = "lifecycle" /\ Lifecycle!Next
        /\ UNCHANGED <<vars, helpVars, pageVars>>
     \/ /\ part = "help" /\ Help!Next
        /\ UNCHANGED <<vars, lifecycleVars, pageVars>>
     \/ /\ part = "pages" /\ Paging!Next
        /\ UNCHANGED <<vars, lifecycleVars, helpVars>>

(* The fairness of each module, in the part of its instance. *)
MCSpec ==
  /\ MCInit /\ [][MCNext]_allVars
  /\ WF_vars(part = "timers" /\ LoopStep)
  /\ WF_vars(part = "timers" /\ Tick)
  /\ WF_lifecycleVars(part = "lifecycle" /\ ~terminated /\ Lifecycle!MainStep)
  /\ \A t \in Lifecycle!Thread :
       WF_lifecycleVars(part = "lifecycle" /\ ~terminated /\ Lifecycle!StopStep(t))
  /\ \A l \in Lifecycle!Loop :
       WF_lifecycleVars(part = "lifecycle" /\ ~terminated /\ Lifecycle!LoopStep(l))
  /\ \A p \in Press : WF_helpVars(part = "help" /\ Help!Handle(p))
  /\ \A p \in Reaction : WF_pageVars(part = "pages" /\ Paging!Handle(p))
-----------------------------------------------------------------------------
(* StopIsSafe of ClusterLifecycle. *)
StopIsSafe == Lifecycle!StopIsSafe

(* The menus turn their pages as they should: HelpIsExact of HelpSessions  *)
(* and PagesAreSound of Paginator.                                         *)
MenusAreSound == []Help!HelpIsExact /\ Paging!PagesAreSound

(* Every call of stop() returns and ends start(), and every reaction to a  *)
(* menu is taken back, as far as each module says.                         *)
HandlersEnd ==
  /\ part = "lifecycle" => Lifecycle!StopEnds
  /\ part = "help" => Help!ReactionsAreTakenBack
  /\ part = "pages" => Paging!ReactionsAreTakenBack
=============================================================================
