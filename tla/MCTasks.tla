------------------------------ MODULE MCTasks ------------------------------
(***************************************************************************)
(* The places where what the main loop is working through changes under    *)
(* its hands.  Another task does it without a lock: the WiFi task fills    *)
(* the receive ring, the web server's handlers edit the simulated peers    *)
(* and read the frame log.  Or a callback does it: the timers change while *)
(* poll calls them.  A behaviour examines one of them.                     *)
(***************************************************************************)
EXTENDS SpscRing, Simulator, FrameLog, Scheduler

VARIABLE part

allVars == <<vars, simVars, logVars, timersVars, part>>

MCInit ==
    /\ Init /\ SimInit /\ LogInit /\ TimersInit
    /\ part \in {"ring", "sim", "log", "timers"}
RingTasks == part = "ring" /\ Next /\ UNCHANGED <<simVars, logVars, timersVars, part>>
SimTasks == part = "sim" /\ SimStep /\ UNCHANGED <<vars, logVars, timersVars, part>>
LogTasks == part = "log" /\ LogStep /\ UNCHANGED <<vars, simVars, timersVars, part>>
TimerTasks == part = "timers" /\ TimersNext /\ UNCHANGED <<vars, simVars, logVars, part>>

(***************************************************************************)
(* The fairness is that of SpscRing and Scheduler: the loop keeps popping, *)
(* and keeps polling with a clock that advances.                           *)
(***************************************************************************)
MCSpec ==
    /\ MCInit
    /\ [][RingTasks \/ SimTasks \/ LogTasks \/ TimerTasks]_allVars
    /\ WF_vars(part = "ring" /\ (PopFound \/ PopRead \/ PopRelease))
    /\ SF_timersVars(part = "timers" /\ \E step \in 1 .. MaxStall : Poll(step))
    /\ WF_timersVars(part = "timers" /\ (Return \/ Finish \/ \E i \in Timer : Fire(i)))
=============================================================================
