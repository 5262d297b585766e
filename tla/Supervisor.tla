----------------------------- MODULE Supervisor -----------------------------
(***************************************************************************)
(* The supervision of a launched target: the pid-namespace init()         *)
(* (libminijail.c 890-980) with its SIGALRM timeout handler and SIGTERM   *)
(* init_term handler, the target's own time limits (setup_limits, 1114-   *)
(* 1122), and the caller's minijail_kill / minijail_wait (1454-1498).     *)
(*                                                                         *)
(* Processes: the caller, init (only with pids), and the target (the      *)
(* grandchild with pids, the child without).  Time is a clock in          *)
(* milliseconds that jumps to the next pending deadline; a deadline that  *)
(* is due fires as its own step, so timers due at the same instant fire   *)
(* in either order.  Wait statuses are the kernel's raw encoding.          *)
(***************************************************************************)
EXTENDS Integers, FiniteSets

CONSTANTS
    Scenarios,   \* the launches to supervise: path, pids, limit, target, op
    ErrJail,     \* MINIJAIL_ERR_JAIL (libminijail.h)
    ErrInit      \* MINIJAIL_ERR_INIT (libminijail.h)

VARIABLES
    sc,        \* the scenario of this launch; never changes
    now,       \* wall clock, ms since the launch
    timers,    \* deadline of each timer, or NoTimer
    tphase,    \* target: "forked", "ready" (may exec), "running", "dead"
    leader,    \* target leads its own process group (setsid done)
    tstatus,   \* target's raw wait status once dead
    tcause,    \* what ended the target
    iphase,    \* init: "setup", "waiting", "exited", or "none" without pids
    handler,   \* init has installed init_term for SIGTERM
    istatus,   \* init_exitstatus
    override,  \* signal_override
    reaped,    \* init has reaped the target
    iexit,     \* init's raw wait status once exited
    meta,      \* the disposition line init writes to the meta file
    cpc,       \* caller: "idle", "killed" (kill sent), "done"
    ret        \* value returned by minijail_wait / minijail_kill

vars == <<sc, now, timers, tphase, leader, tstatus, tcause, iphase, handler,
          istatus, override, reaped, iexit, meta, cpc, ret>>

SIGKILL == 9
SIGALRM == 14
SIGTERM == 15
SIGXCPU == 24
SIGSYS  == 31

NoTimer == -1
Timers == {"ualarm", "cpu", "alarm"}
TargetTimers == {"ualarm", "cpu"}
NoMeta == [kind |-> "none", n |-> 0]

(* Target programs: exit by themselves, die of a blocked syscall, or run  *)
(* forever busy or asleep, with SIGALRM at its default or ignored.        *)
Behaviours == {"exit0", "exit3", "sigsys", "busy", "busy_ign", "sleep_ign"}
SelfEnding == {"exit0", "exit3", "sigsys"}
Busy == {"busy", "busy_ign"}
IgnoresAlarm == {"busy_ign", "sleep_ign"}
OwnStatus(b) == CASE b = "exit0"  -> 0
                  [] b = "exit3"  -> 3 * 256
                  [] b = "sigsys" -> SIGSYS

(* The raw wait-status macros, and _exit's truncation to a byte.          *)
WIFEXITED(st) == st % 128 = 0
WEXITSTATUS(st) == (st \div 256) % 256
WIFSIGNALED(st) == st % 128 # 0 /\ st % 128 # 127
WTERMSIG(st) == st % 128
ExitRaw(code) == (code % 256) * 256

(* setup_limits: RLIMIT_CPU soft limit in seconds, and ualarm(t*1000).     *)
CpuSoftSecs(t) == (999 + t) \div 1000

(***************************************************************************)
(* ualarm(j->time_limit * 1000, 0): the int product reaches ualarm as a    *)
(* 32-bit useconds_t, so above 4294967 ms it wraps: x ms past that is      *)
(* 1000 * x - 296 us (one wrap; the scenarios stay below 8589934 ms), and  *)
(* ualarm(0) arms nothing.  POSIX leaves a value of 1000000 us or more     *)
(* unspecified: glibc hands it to setitimer as tv_usec, which the kernel   *)
(* may refuse with EINVAL, and the return is not checked.  The delay in   *)
(* whole ms, or NoTimer.                                                   *)
(***************************************************************************)
UalarmDelays(t) ==
    LET x == t - 4294967
    IN  CASE t = 0 -> {NoTimer}
          [] t < 1000 -> {t}
          [] t <= 4294967 -> {t, NoTimer}
          [] x <= 1000 -> {x - 1}
          [] OTHER -> {x - 1, NoTimer}

(* setup_limits without the RLIMIT_CPU call.                               *)
ArmTargetTimersNoCpu(d) ==
    [timers EXCEPT
        !["ualarm"] = IF sc.limited /\ d # NoTimer THEN now + d ELSE NoTimer]

ArmTargetTimers(d) ==
    [timers EXCEPT
        !["ualarm"] = IF sc.limited /\ d # NoTimer THEN now + d ELSE NoTimer,
        !["cpu"]    = IF sc.limited /\ sc.beh \in Busy
                      THEN now + CpuSoftSecs(sc.tl) * 1000 ELSE NoTimer]

(* init's alarm with the one second of slack dropped.                     *)
AlarmSecsTruncated(t) == t \div 1000

(* init: alarm((time_limit + 1999) / 1000).                                *)
AlarmSecs(t) == (t + 1999) \div 1000

TypeOK ==
    /\ sc \in Scenarios
    /\ now \in Nat
    /\ timers \in [Timers -> Nat \cup {NoTimer}]
    /\ tphase \in {"forked", "ready", "running", "dead"}
    /\ leader \in BOOLEAN
    /\ tcause \in {"none", "exit", "ualarm", "cpu", "timeout", "ns_kill", "term"}
    /\ iphase \in {"setup", "waiting", "exited", "none"}
    /\ {handler, reaped} \subseteq BOOLEAN
    /\ override \in {0, SIGXCPU}
    /\ cpc \in {"idle", "killed", "done"}

Init ==
    /\ sc \in Scenarios
    /\ now = 0
    /\ timers = [x \in Timers |-> NoTimer]
    /\ tphase = IF sc.path = "dynamic" THEN "forked" ELSE "ready"
    /\ leader = FALSE
    /\ tstatus = 0
    /\ tcause = "none"
    /\ iphase = IF sc.pids THEN "setup" ELSE "none"
    /\ handler = FALSE
    /\ istatus = 0
    /\ override = 0
    /\ reaped = FALSE
    /\ iexit = 0
    /\ meta = NoMeta
    /\ cpc = "idle"
    /\ ret = 0

Die(st, c) == /\ tphase' = "dead"
              /\ tstatus' = st
              /\ tcause' = c

TargetAlive == tphase # "dead"

(* A timer is live while its process is: the target's timers while it    *)
(* runs, init's alarm while init waits.                                    *)
LiveTimer(x) == /\ timers[x] # NoTimer
                /\ x \in TargetTimers => tphase = "running"
                /\ x = "alarm" => iphase = "waiting"
Due(x) == LiveTimer(x) /\ timers[x] <= now
Disarm(x) == timers' = [timers EXCEPT ![x] = NoTimer]

-----------------------------------------------------------------------------
(* The target.                                                             *)

(* The setsid call left out, as on the static path.                        *)
SetsidNoGroup ==
    /\ tphase = "forked"
    /\ tphase' = "ready"
    /\ UNCHANGED <<sc, now, timers, leader, tstatus, tcause, iphase, handler,
                   istatus, override, reaped, iexit, meta, cpc, ret>>

(* minijail_run_pid_pipes: the dynamic target moves into its own process *)
(* group before it execs.  The static path has no setsid.                 *)
Setsid ==
    /\ tphase = "forked"
    /\ tphase' = "ready"
    /\ leader' = TRUE
    /\ UNCHANGED <<sc, now, timers, tstatus, tcause, iphase, handler,
                   istatus, override, reaped, iexit, meta, cpc, ret>>

(* setup_limits then execve: RLIMIT_CPU and ualarm are armed in the       *)
(* target itself.                                                          *)
TargetExec ==
    /\ tphase = "ready"
    /\ tphase' = "running"
    /\ \E d \in UalarmDelays(sc.tl) : timers' = ArmTargetTimers(d)
    /\ UNCHANGED <<sc, now, leader, tstatus, tcause, iphase, handler,
                   istatus, override, reaped, iexit, meta, cpc, ret>>

(* The program exits by itself, or is killed by seccomp.                   *)
TargetEnd ==
    /\ tphase = "running"
    /\ sc.beh \in SelfEnding
    /\ Die(OwnStatus(sc.beh), "exit")
    /\ UNCHANGED <<sc, now, timers, leader, iphase, handler, istatus,
                   override, reaped, iexit, meta, cpc, ret>>

(* The program computes or sleeps: nothing modelled changes.              *)
TargetRuns ==
    /\ tphase = "running"
    /\ sc.beh \notin SelfEnding
    /\ UNCHANGED vars

(* ualarm's SIGALRM reaches the target, not init.                          *)
UalarmFires ==
    /\ Due("ualarm")
    /\ Disarm("ualarm")
    /\ IF sc.beh \in IgnoresAlarm
       THEN UNCHANGED <<tphase, tstatus, tcause>>
       ELSE Die(SIGALRM, "ualarm")
    /\ UNCHANGED <<sc, now, leader, iphase, handler, istatus, override,
                   reaped, iexit, meta, cpc, ret>>

(* RLIMIT_CPU soft limit: SIGXCPU, default action terminate.              *)
CpuFires ==
    /\ Due("cpu")
    /\ Disarm("cpu")
    /\ Die(SIGXCPU, "cpu")
    /\ UNCHANGED <<sc, now, leader, iphase, handler, istatus, override,
                   reaped, iexit, meta, cpc, ret>>

-----------------------------------------------------------------------------
(* init, pid 1 of the namespace.                                           *)

(* Alarm and SIGTERM handler.  alarm(0) arms nothing.                      *)
InitStart ==
    /\ iphase = "setup"
    /\ iphase' = "waiting"
    /\ timers' = [timers EXCEPT !["alarm"] =
                     IF sc.limited /\ AlarmSecs(sc.tl) > 0
                     THEN now + AlarmSecs(sc.tl) * 1000 ELSE NoTimer]
    /\ handler' = TRUE
    /\ UNCHANGED <<sc, now, tphase, leader, tstatus, tcause, istatus,
                   override, reaped, iexit, meta, cpc, ret>>

(* timeout() recording SIGKILL as the override.                           *)
TimeoutOverrideKill ==
    /\ Due("alarm")
    /\ Disarm("alarm")
    /\ override' = SIGKILL
    /\ IF leader /\ TargetAlive
       THEN Die(SIGKILL, "timeout")
       ELSE UNCHANGED <<tphase, tstatus, tcause>>
    /\ UNCHANGED <<sc, now, leader, iphase, handler, istatus, reaped, iexit,
                   meta, cpc, ret>>

(* timeout(): kill(-child_pid, SIGKILL) reaches the target only if it     *)
(* leads a process group.                                                  *)
Timeout ==
    /\ Due("alarm")
    /\ Disarm("alarm")
    /\ override' = SIGXCPU
    /\ IF leader /\ TargetAlive
       THEN Die(SIGKILL, "timeout")
       ELSE UNCHANGED <<tphase, tstatus, tcause>>
    /\ UNCHANGED <<sc, now, leader, iphase, handler, istatus, reaped, iexit,
                   meta, cpc, ret>>

(* The wait3 loop keeps the status of the target.                          *)
InitReap ==
    /\ iphase = "waiting"
    /\ tphase = "dead"
    /\ ~reaped
    /\ reaped' = TRUE
    /\ istatus' = tstatus
    /\ UNCHANGED <<sc, now, timers, tphase, leader, tstatus, tcause, iphase,
                   handler, override, iexit, meta, cpc, ret>>

(* The exit status and signal init reports.                                *)
InitExitStatus(st, ov) ==
    IF ov # 0 \/ ~WIFEXITED(st) THEN ErrInit ELSE WEXITSTATUS(st)
InitExitSignal(st, ov) ==
    CASE ov # 0            -> ov
      [] WIFEXITED(st)     -> 0
      [] WIFSIGNALED(st)   -> WTERMSIG(st)
      [] OTHER             -> -1
MetaLine(st, ov) ==
    IF InitExitSignal(st, ov) # 0
    THEN [kind |-> "signal", n |-> InitExitSignal(st, ov)]
    ELSE [kind |-> "status", n |-> InitExitStatus(st, ov)]

(* No child left: write the meta file and _exit.                           *)
InitFinish ==
    /\ iphase = "waiting"
    /\ reaped
    /\ iphase' = "exited"
    /\ iexit' = ExitRaw(InitExitStatus(istatus, override))
    /\ meta' = MetaLine(istatus, override)
    /\ UNCHANGED <<sc, now, timers, tphase, leader, tstatus, tcause, handler,
                   istatus, override, reaped, cpc, ret>>

(* init_term: _exit(init_exitstatus); the kernel then kills the rest of   *)
(* the namespace.                                                          *)
InitTerm ==
    /\ iphase' = "exited"
    /\ iexit' = ExitRaw(istatus)
    /\ IF TargetAlive
       THEN Die(SIGKILL, "ns_kill")
       ELSE UNCHANGED <<tphase, tstatus, tcause>>

-----------------------------------------------------------------------------
(* The caller.                                                             *)

(* minijail_kill: kill(initpid, SIGTERM).  A pid-namespace init receives  *)
(* from outside only the signals it has a handler for, so the SIGTERM is  *)
(* discarded until init_term is installed.                                 *)
CallerKill ==
    /\ sc.op = "kill"
    /\ cpc = "idle"
    /\ cpc' = "killed"
    /\ \/ sc.pids /\ handler /\ iphase = "waiting" /\ InitTerm
       \/ sc.pids /\ ~(handler /\ iphase = "waiting")
          /\ UNCHANGED <<tphase, tstatus, tcause, iphase, iexit>>
       \/ ~sc.pids /\ iphase' = iphase /\ iexit' = iexit
          /\ IF TargetAlive
             THEN Die(SIGTERM, "term")
             ELSE UNCHANGED <<tphase, tstatus, tcause>>
    /\ UNCHANGED <<sc, now, timers, leader, handler, istatus, override,
                   reaped, meta, ret>>

(* minijail_wait's mapping of the raw status, with its SIGSYS case       *)
(* dropped.                                                                *)
WaitMapNoSigsys(st) ==
    IF ~WIFEXITED(st)
    THEN IF WIFSIGNALED(st) THEN 128 + WTERMSIG(st) ELSE st
    ELSE WEXITSTATUS(st)

(* minijail_wait: SIGSYS -> ERR_JAIL, another signal s -> 128 + s, an     *)
(* exit -> its status.                                                     *)
WaitMap(st) ==
    IF ~WIFEXITED(st)
    THEN IF WIFSIGNALED(st)
         THEN IF WTERMSIG(st) = SIGSYS THEN ErrJail ELSE 128 + WTERMSIG(st)
         ELSE st
    ELSE WEXITSTATUS(st)

(* initpid is init with pids, the target without.                          *)
WaiteeDone == IF sc.pids THEN iphase = "exited" ELSE tphase = "dead"
WaiteeStatus == IF sc.pids THEN iexit ELSE tstatus

(* waitpid(initpid) returns: minijail_wait maps the status, minijail_kill *)
(* returns it raw.                                                         *)
CallerReturns ==
    /\ cpc = IF sc.op = "wait" THEN "idle" ELSE "killed"
    /\ WaiteeDone
    /\ cpc' = "done"
    /\ ret' = IF sc.op = "wait" THEN WaitMap(WaiteeStatus) ELSE WaiteeStatus
    /\ UNCHANGED <<sc, now, timers, tphase, leader, tstatus, tcause, iphase,
                   handler, istatus, override, reaped, iexit, meta>>

-----------------------------------------------------------------------------
(* Time passes to the next deadline once no timer is due.  The target's   *)
(* steps between fork and execve, and init's before it arms its alarm,    *)
(* take less than the one-second granularity of the alarm.                 *)
Tick ==
    LET live == {x \in Timers : LiveTimer(x)}
        next == CHOOSE d \in {timers[x] : x \in live} :
                    \A y \in live : d <= timers[y]
    IN  /\ live # {}
        /\ \A x \in Timers : ~Due(x)
        /\ tphase \notin {"forked", "ready"}
        /\ iphase # "setup"
        /\ now' = next
        /\ UNCHANGED <<sc, timers, tphase, leader, tstatus, tcause, iphase,
                       handler, istatus, override, reaped, iexit, meta, cpc,
                       ret>>

Finished == cpc = "done" /\ UNCHANGED vars

Next ==
    \/ Setsid \/ TargetExec \/ TargetEnd \/ TargetRuns
    \/ UalarmFires \/ CpuFires
    \/ InitStart \/ Timeout \/ InitReap \/ InitFinish
    \/ CallerKill \/ CallerReturns
    \/ Tick \/ Finished

(* The kernel runs every runnable process and delivers every due timer,   *)
(* and a program that ends by itself does end.                             *)
Fairness ==
    /\ WF_vars(Setsid) /\ WF_vars(TargetExec) /\ WF_vars(TargetEnd)
    /\ WF_vars(UalarmFires) /\ WF_vars(CpuFires)
    /\ WF_vars(InitStart) /\ WF_vars(Timeout) /\ WF_vars(InitReap)
    /\ WF_vars(InitFinish)
    /\ WF_vars(CallerKill) /\ WF_vars(CallerReturns)
    /\ WF_vars(Tick)

Spec == Init /\ [][Next]_vars /\ Fairness

-----------------------------------------------------------------------------
(* Properties.                                                             *)

(* The exit-code taxonomy of the spec (sections 6 and 8) applied to the   *)
(* target's end: its exit status, ERR_JAIL for SIGSYS, 128 + s for        *)
(* another signal, ERR_INIT when init's timeout fired.                     *)
SpecExitCode ==
    IF override # 0 THEN ErrInit
    ELSE IF WIFEXITED(tstatus) THEN WEXITSTATUS(tstatus)
    ELSE IF WTERMSIG(tstatus) = SIGSYS THEN ErrJail
    ELSE 128 + WTERMSIG(tstatus)

(* What minijail_wait (and minijail_kill) returns to the caller is the    *)
(* target's exit code in the spec's taxonomy.                              *)
ReturnsExitCode == cpc = "done" => ret = SpecExitCode

(* The same for minijail_wait without a pid namespace, the one case where *)
(* the code means to report the target's own end (with pids init reports  *)
(* it, and minijail_kill returns the kill's status).                       *)
WaitReturnsExitCode == ~sc.pids /\ sc.op = "wait" => ReturnsExitCode

(* A target killed by its time limit is reported by init as signal:24     *)
(* (SIGXCPU) with ERR_INIT, as end-to-end scenario 2 of the spec expects  *)
(* of a busy loop under a 200 ms limit.                                    *)
TimeoutReported ==
    iphase = "exited" /\ tcause \in {"ualarm", "cpu", "timeout"} =>
        /\ meta = [kind |-> "signal", n |-> SIGXCPU]
        /\ WEXITSTATUS(iexit) = ErrInit

(* With pids and a time limit, init's alarm backs up the target's own     *)
(* limits: the target ends, whatever it does with SIGALRM.                 *)
TimeLimitEnforced == sc.pids /\ sc.limited => <>(tphase = "dead")

(***************************************************************************)
(* NoKillBeforeLimit (spec 4.4, time_limit_ms; 4.8, one second of slack):  *)
(* none of the three timers that enforce a limit of t ms, the target's     *)
(* ualarm and RLIMIT_CPU armed by setup_limits and init's alarm, ends the  *)
(* target before t ms have passed since the launch.                        *)
(***************************************************************************)
NoKillBeforeLimit == tcause \in {"ualarm", "cpu", "timeout"} => now >= sc.tl

(* minijail_wait and minijail_kill return.                                 *)
CallerEventuallyReturns == <>(cpc = "done")

====
