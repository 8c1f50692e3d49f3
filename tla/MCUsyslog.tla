------------------------------ MODULE MCUsyslog ------------------------------
(* Instances of Usyslog for TLC. *)
EXTENDS Usyslog

CONSTANTS l1, l2, m1,
          MaxCalls    \* bound: how often usyslog is called, all loggers together

OneLogger == {l1}

TwoLoggers == {l1, l2}

OneMessage == {m1}

VARIABLE calls    \* the calls of usyslog so far

MCInit == Init /\ calls = 0

MCNext ==
    \/ \E l \in Logger : calls < MaxCalls /\ Call(l) /\ calls' = calls + 1
    \/ (\E l \in Logger : usyslog(l)) /\ UNCHANGED calls
    \/ (Wakeup \/ do_syslog \/ Emit) /\ UNCHANGED calls

MCSpec == MCInit /\ [][MCNext]_<<vars, calls>>

MCFairSpec == MCSpec /\ Fairness

\* with a syslog daemon that answers
MCDaemonSpec == MCFairSpec /\ WF_vars(Emit)
=============================================================================
