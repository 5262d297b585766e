---------------------------- MODULE MCSupervisor ----------------------------
(* Launch scenarios for the Supervisor runs.  A time limit of 0 stands    *)
(* for no time_limit flag.                                                 *)
EXTENDS Supervisor

Launches(paths, pidsSet, tls, behs, ops) ==
    {[path |-> p, pids |-> d, limited |-> t # 0, tl |-> t, beh |-> b,
      op |-> o] : p \in paths, d \in pidsSet, t \in tls, b \in behs,
                  o \in ops}

(* A limit of 4294968 ms (71.6 minutes): ualarm's argument wraps to      *)
(* 704 us.                                                                 *)
LongLimit == 4294968

(* Launches whose target ends by itself or by a limit that reaches it.    *)
Ends(s) ==
    \/ s.beh \in SelfEnding
    \/ s.limited /\ s.beh \in Busy
    \/ s.limited /\ s.pids /\ s.path = "dynamic"

NoPidsLaunches ==
    {s \in Launches({"dynamic", "static"}, {FALSE}, {0, 200, 1500},
                    Behaviours, {"wait"}) : Ends(s)}
DynamicLaunches ==
    {s \in Launches({"dynamic"}, BOOLEAN, {0, 200, 1500}, Behaviours,
                    {"wait", "kill"}) : Ends(s)}
(* Every launch minijail_wait or minijail_kill is asked to end.          *)
WaitLaunches == NoPidsLaunches \cup DynamicLaunches
SigsysLaunches ==
    Launches({"dynamic"}, {TRUE}, {0}, {"exit0", "sigsys"}, {"wait"})
KillLaunches ==
    Launches({"dynamic"}, BOOLEAN, {0}, {"exit0"}, {"kill"})
BusyLoopLaunches ==
    Launches({"static"}, {TRUE}, {200}, {"busy"}, {"wait"})
StaticSleeperLaunches ==
    Launches({"static"}, {TRUE}, {200}, {"sleep_ign"}, {"wait"})
UnlimitedKillLaunches ==
    Launches({"dynamic"}, {TRUE}, {0}, {"sleep_ign"}, {"kill"})
(* A busy target, or one asleep ignoring SIGALRM, under the wrapping limit. *)
LongLimitLaunches ==
    Launches({"dynamic", "static"}, {TRUE}, {LongLimit}, {"busy", "sleep_ign"},
             {"wait"})
====
