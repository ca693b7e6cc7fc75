--------------------------------- MODULE Dashboard ---------------------------------
(***************************************************************************)
(* The browser's console (DashboardPage.tsx): the list of cases is loaded on *)
(* mount, by a button and by the timer of a demo reset; a selected case's    *)
(* audit trail and a simulation are fetched.  Answers arrive in any order.   *)
(***************************************************************************)
EXTENDS Naturals, Sequences

CONSTANTS
  Listed,      \* the cases of the list
  MaxLoads,    \* bound on the loads of the list
  MaxTrails,   \* bound on the selections
  MaxRuns,     \* bound on the simulations started
  MaxVersion,  \* bound on the changes of the server's cases
  Nothing

ASSUME DashboardAssumption ==
  Nothing \notin Listed /\ {MaxLoads, MaxTrails, MaxRuns, MaxVersion} \subseteq Nat

VARIABLES
  version,  \* the state of the server's cases, as a number
  list,     \* the version shown, and whether the page says it is loading
  loads,    \* the calls of loadData, in the order they were made
  timers,   \* refreshes scheduled by demo resets
  panel,    \* the selected case, whose trail is shown, and whether it is loading
  trails,   \* the calls of selectCase
  crossed,  \* two trails were being fetched at once (history)
  lab       \* the simulation panel: running, number of runs, whose result is shown

dashboardVars == <<version, list, loads, timers, panel, trails, crossed, lab>>

Open(calls) == {k \in 1 .. Len(calls) : calls[k].at # "ended"}

\* loadData up to its await.
Load(by) ==
  /\ Len(loads) < MaxLoads
  /\ loads' = Append(loads, [at |-> "asked", by |-> by, version |-> 0])
  /\ list' = [list EXCEPT !.loading = TRUE]

\* The effect on mount.
DashboardInit ==
  /\ version = 0
  /\ list = [shown |-> 0, loading |-> TRUE]
  /\ loads = <<[at |-> "asked", by |-> "mount", version |-> 0]>>
  /\ timers = 0
  /\ panel = [selected |-> Nothing, trail |-> Nothing, loading |-> FALSE]
  /\ trails = <<>>
  /\ crossed = FALSE
  /\ lab = [running |-> FALSE, runs |-> 0, result |-> 0]

-----------------------------------------------------------------------------
\* Agents, customers and operators change the cases.
CasesChange ==
  /\ version < MaxVersion
  /\ version' = version + 1
  /\ UNCHANGED <<list, loads, timers, panel, trails, crossed, lab>>

\* Seeded fault: the button can be used while a list is loading.
RefreshAnyTime ==
  /\ Load("button")
  /\ UNCHANGED <<version, timers, panel, trails, crossed, lab>>

\* The Refresh button, disabled while the page says it is loading.
Refresh ==
  /\ ~list.loading
  /\ Load("button")
  /\ UNCHANGED <<version, timers, panel, trails, crossed, lab>>

\* handleResetDemo: the reset is accepted; in three seconds the list is loaded, whether
\* one is loading or not.
ResetDemo ==
  /\ timers + Len(loads) < MaxLoads
  /\ timers' = timers + 1
  /\ UNCHANGED <<version, list, loads, panel, trails, crossed, lab>>

TimerFires ==
  /\ timers > 0
  /\ timers' = timers - 1
  /\ Load("timer")
  /\ UNCHANGED <<version, panel, trails, crossed, lab>>

\* The server reads the cases.
ListIsRead(k) ==
  /\ loads[k].at = "asked"
  /\ loads' = [loads EXCEPT ![k].at = "answered", ![k].version = version]
  /\ UNCHANGED <<version, list, timers, panel, trails, crossed, lab>>

\* The end of loadData: the list is replaced if the answer is good, and the page no longer
\* says it is loading, even if another load is under way.
ListArrives(k) ==
  /\ loads[k].at = "answered"
  /\ loads' = [loads EXCEPT ![k].at = "ended"]
  /\ \E shown \in {loads[k].version, list.shown} : list' = [shown |-> shown, loading |-> FALSE]
  /\ UNCHANGED <<version, timers, panel, trails, crossed, lab>>

\* selectCase up to its await.  The trail of the last selection stays until the answer.
SelectCase ==
  /\ Len(trails) < MaxTrails
  /\ \E c \in Listed :
       /\ panel' = [panel EXCEPT !.selected = c, !.loading = TRUE]
       /\ trails' = Append(trails, [at |-> "asked", case |-> c])
  /\ crossed' = (crossed \/ Open(trails) # {})
  /\ UNCHANGED <<version, list, loads, timers, lab>>

\* The end of selectCase: the trail, or none if it could not be had.
TrailArrives(k) ==
  /\ trails[k].at = "asked"
  /\ trails' = [trails EXCEPT ![k].at = "ended"]
  /\ \E t \in {trails[k].case, Nothing} :
       panel' = [panel EXCEPT !.trail = t, !.loading = FALSE]
  /\ UNCHANGED <<version, list, loads, timers, crossed, lab>>

\* runSimulation up to its await, its button being disabled while one runs.
RunSimulation ==
  /\ ~lab.running /\ lab.runs < MaxRuns
  /\ lab' = [running |-> TRUE, runs |-> lab.runs + 1, result |-> 0]
  /\ UNCHANGED <<version, list, loads, timers, panel, trails, crossed>>

\* Its end: the row of the run as the server created it, or a notice of the failure.
SimulationAnswered ==
  /\ lab.running
  /\ \E r \in {0, lab.runs} :
       lab' = [lab EXCEPT !.running = FALSE, !.result = IF r = 0 THEN @ ELSE r]
  /\ UNCHANGED <<version, list, loads, timers, panel, trails, crossed>>

\* The three parts of the page share no state.
ListNext ==
  \/ CasesChange \/ Refresh \/ ResetDemo \/ TimerFires
  \/ \E k \in 1 .. Len(loads) : ListIsRead(k) \/ ListArrives(k)

PanelNext == SelectCase \/ \E k \in 1 .. Len(trails) : TrailArrives(k)

LabNext == RunSimulation \/ SimulationAnswered

-----------------------------------------------------------------------------
(* Properties.                                                              *)

\* A list is replaced by an older one only when a demo reset's timer loaded one beside it:
\* by itself the page never has two loads under way.
OlderListOnlyAfterReset ==
  [][list'.shown < list.shown => \E k \in 1 .. Len(loads) : loads[k].by = "timer"]_dashboardVars

\* The panel shows the trail of the selected case, or none, as soon as it stops loading,
\* unless two trails were being fetched at once: the answers then come in any order and the
\* first one ends the loading of both.
OtherTrailOnlyWhenCrossed ==
  ~panel.loading /\ panel.trail \notin {panel.selected, Nothing} => crossed

\* A result on the screen is that of the last run, never of one before it.
ResultIsOfLastRun == lab.result \in {0, lab.runs}

=============================================================================
