------------------------------ MODULE Launcher ------------------------------
(***************************************************************************)
(* minijail_run_pid_pipes (src/libminijail.c:1156-1390) and               *)
(* minijail_run_static (1392-1452): the calling process, the child it      *)
(* forks or clones, the grandchild that runs the target in a pid           *)
(* namespace, and, on the dynamic path, the preload helper that reads the  *)
(* policy from the pipe after execve and enters the rest of the jail.      *)
(*                                                                         *)
(* The jailed lineage (child, grandchild, target) is one process image as  *)
(* far as the kernel state goes: fork and execve keep the credentials,     *)
(* namespaces, root and filters. Its two minijail_enter calls (the child's *)
(* on minijail_preexec's projection, the helper's on minijail_preenter's)  *)
(* are the steps of JailEntry, instantiated on the same variables.         *)
(*                                                                         *)
(* The preload helper is not in this repository; its steps (read the       *)
(* policy, minijail_preenter, minijail_enter) are modelled from spec 4.2   *)
(* and 6. die() in the caller (util.h, not in the repository) terminates   *)
(* the calling process.                                                    *)
(***************************************************************************)
EXTENDS JailEntry

\* Policies: the policies a caller may launch with; MayFail: whether the
\* jailed process's calls may fail (ENOMEM, ENOENT, ...), as in JailEntry.
CONSTANTS
    HostMayFail,  \* whether malloc, pipe and fork may fail in the caller
    Modes,        \* which entry points callers use: "dynamic", "static"
    ModePolicies(_), \* the policies a caller passes to each entry point
    StdioChoices  \* the sets of stdio pipes a caller may request

\* pol, allow, pc, cause, task: the jailed lineage, as in JailEntry.
VARIABLES
    jail,       \* the caller's struct minijail
    mode,       \* minijail_run_pid_pipes ("dynamic") or minijail_run_static
    want,       \* the stdio pipes requested (pstdin_fd, pstdout_fd, pstderr_fd)
    ppc,        \* where the caller is in the launch function
    presult,    \* how the launch ended for the caller
    env,        \* the caller's LD_PRELOAD and policy-fd variable
    pfds,       \* pipe ends open in the caller
    cstage,     \* where the jailed lineage is
    cfds,       \* pipe ends open in the jailed lineage
    pipe,       \* the policy pipe's contents
    initAlive   \* whether a pid-namespace init holds the child's descriptors

jailVars == <<pol, allow, pc, cause, task>>
launchVars == <<jail, mode, want, ppc, presult, env, pfds, cstage, cfds, pipe,
                initAlive>>
allVars == <<jailVars, launchVars>>

Stdio == {"in", "out", "err"}
\* The end of a stdio pipe handed to the caller: the write end of stdin, the
\* read ends of stdout and stderr; the jailed process keeps the other end.
ParentEnd(s) == IF s = "in" THEN "w" ELSE "r"
ChildEnd(s) == IF s = "in" THEN "r" ELSE "w"
PipeEnds(p) == {<<p, "r">>, <<p, "w">>}

OrigEnv == [preload |-> "orig", fdvar |-> FALSE]

ChildDead == pc = "dead"
\* Someone still holds the policy pipe's read end: the jailed process never
\* closes it (its execve keeps it), and a pid-namespace init inherits it.
PipeHasReader == (~ChildDead /\ <<"pol", "r">> \in cfds) \/ initAlive

LaunchInit ==
    /\ mode \in Modes
    /\ jail \in ModePolicies(mode)
    /\ want \in StdioChoices
    /\ allow \in FilterRules
    /\ pol = jail
    /\ pc = "enter"
    /\ cause = "none"
    /\ task = InitTask
    /\ ppc = "start"
    /\ presult = "none"
    /\ env = OrigEnv
    /\ pfds = {}
    /\ cstage = "none"
    /\ cfds = {}
    /\ pipe = "empty"
    /\ initAlive = FALSE

-----------------------------------------------------------------------------
(* The caller.                                                             *)

Return(r) == /\ ppc' = "returned"
             /\ presult' = r

\* minijail_run_pid_pipes 1171-1180: copy LD_PRELOAD (strdup may fail) and
\* setup_preload (1035-1050) appends the helper (malloc may fail). Both
\* failures return before the environment changes.
SetupPreload ==
    /\ ppc = "start" /\ mode = "dynamic"
    /\ \/ /\ env' = [env EXCEPT !.preload = "modified"]
          /\ ppc' = "pipe"
          /\ UNCHANGED presult
       \/ /\ HostMayFail
          /\ Return("error")
          /\ UNCHANGED env
    /\ UNCHANGED <<jailVars, jail, mode, want, pfds, cstage, cfds, pipe,
                   initAlive>>

\* setup_pipe (1052-1063): the policy pipe, and its read end published in
\* the fd variable; a failing pipe() returns -EFAULT from the caller.
SetupPipe ==
    /\ ppc = "pipe"
    /\ \/ /\ pfds' = pfds \cup PipeEnds("pol")
          /\ env' = [env EXCEPT !.fdvar = TRUE]
          /\ ppc' = "in"
          /\ UNCHANGED presult
       \/ /\ HostMayFail
          /\ Return("error")
          /\ UNCHANGED <<pfds, env>>
    /\ UNCHANGED <<jailVars, jail, mode, want, cstage, cfds, pipe, initAlive>>

\* 1188-1214: a pipe for each requested stdio stream; a failing pipe()
\* returns -EFAULT.
OpenStdio(s, next) ==
    /\ ppc = s
    /\ IF s \notin want
          THEN /\ ppc' = next
               /\ UNCHANGED <<pfds, presult>>
          ELSE \/ /\ pfds' = pfds \cup PipeEnds(s)
                  /\ ppc' = next
                  /\ UNCHANGED presult
               \/ /\ HostMayFail
                  /\ Return("error")
                  /\ UNCHANGED pfds
    /\ UNCHANGED <<jailVars, jail, mode, want, env, cstage, cfds, pipe,
                   initAlive>>

\* minijail_run_static 1398-1399: a policy with capabilities kills the caller.
StaticCheck ==
    /\ ppc = "start" /\ mode = "static"
    /\ IF jail.caps
          THEN ppc' = "died" /\ presult' = "caps"
          ELSE ppc' = "fork" /\ UNCHANGED presult
    /\ UNCHANGED <<jailVars, jail, mode, want, env, pfds, cstage, cfds, pipe,
                   initAlive>>

(***************************************************************************)
(* clone(CLONE_NEWPID) with pids, else fork (1255-1263 and 1401-1406). A   *)
(* failure dies in the caller. The child inherits the caller's descriptors.*)
(* The static caller returns at once (1408-1412).                          *)
(***************************************************************************)
Fork ==
    /\ ppc = "fork"
    /\ \/ /\ HostMayFail
          /\ ppc' = "died" /\ presult' = "fork"
          /\ UNCHANGED <<cstage, cfds>>
       \/ /\ cstage' = IF mode = "dynamic" THEN "dups" ELSE "static"
          /\ cfds' = pfds
          /\ IF mode = "dynamic" THEN ppc' = "restore" /\ UNCHANGED presult
                                 ELSE Return("ok")
    /\ UNCHANGED <<jailVars, jail, mode, want, env, pfds, pipe, initAlive>>

\* Mutant: the fd variable is left set.
\* 1265-1273: restore LD_PRELOAD (or unset it) and unset the fd variable.
RestoreEnv ==
    /\ ppc = "restore"
    /\ env' = OrigEnv
    /\ ppc' = "send"
    /\ UNCHANGED <<jailVars, jail, mode, want, presult, pfds, cstage, cfds,
                   pipe, initAlive>>

(***************************************************************************)
(* 1275-1313: close the read end, minijail_to_fd, close the write end,     *)
(* then keep only the caller's end of each stdio pipe (setup_pipe_end).    *)
(* With no reader left the write raises SIGPIPE, which ends the caller     *)
(* (or, with SIGPIPE ignored, fails with EPIPE and the caller dies at      *)
(* 1281-1284 after killing the child): either way the caller is gone.      *)
(***************************************************************************)
SendPolicy ==
    /\ ppc = "send"
    /\ IF PipeHasReader
          THEN /\ pipe' = "written"
               /\ pfds' = {<<s, ParentEnd(s)>> : s \in want}
               /\ Return("ok")
          ELSE /\ ppc' = "died" /\ presult' = "sigpipe"
               /\ UNCHANGED <<pipe, pfds>>
    /\ UNCHANGED <<jailVars, jail, mode, want, env, cstage, cfds, initAlive>>

-----------------------------------------------------------------------------
(* The jailed lineage.                                                     *)

LineageDie(c) == /\ pc' = "dead"
                 /\ cause' = c
                 /\ UNCHANGED <<pol, allow, task>>

(***************************************************************************)
(* 1315-1350: close the caller's end of each stdio pipe and dup2 the other *)
(* over 0, 1 or 2 (a failing dup2 dies), then minijail_preexec and         *)
(* minijail_enter.                                                         *)
(***************************************************************************)
ChildSetup ==
    /\ cstage = "dups"
    /\ \/ /\ cfds' = cfds \ {<<s, ParentEnd(s)>> : s \in want}
          /\ pol' = Preexec(pol)
          /\ pc' = "enter"
          /\ cstage' = "enter1"
          /\ UNCHANGED <<allow, cause, task>>
       \/ /\ MayFail /\ want # {}
          /\ LineageDie("env")
          /\ UNCHANGED <<cfds, cstage>>
    /\ UNCHANGED <<jail, mode, want, ppc, presult, env, pfds, pipe, initAlive>>

\* 1419-1420: the static child clears pids and enters the whole policy.
StaticSetup ==
    /\ cstage = "static"
    /\ pol' = [pol EXCEPT !.pids = FALSE]
    /\ pc' = "enter"
    /\ cstage' = "enter1"
    /\ UNCHANGED <<allow, cause, task, jail, mode, want, ppc, presult, env,
                   pfds, cfds, pipe, initAlive>>

\* The steps of minijail_enter, in the child or in the preload helper.
JailStep ==
    /\ cstage \in {"enter1", "enter2"}
    /\ Next
    /\ UNCHANGED launchVars

(***************************************************************************)
(* 1352-1367 and 1422-1437: with a pid namespace (the value saved before   *)
(* minijail_enter) fork again; the child stays behind as init, holding its *)
(* descriptors, and the grandchild goes on. A failing fork _exits.         *)
(***************************************************************************)
ForkInit ==
    /\ cstage = "enter1" /\ pc = "done"
    /\ LET next == IF mode = "dynamic" THEN "setsid" ELSE "chroot2"
       IN IF ~jail.pids
             THEN cstage' = next /\ UNCHANGED <<jailVars, initAlive>>
             ELSE \/ /\ cstage' = next /\ initAlive' = TRUE
                     /\ UNCHANGED jailVars
                  \/ /\ MayFail
                     /\ LineageDie("env")
                     /\ UNCHANGED <<cstage, initAlive>>
    /\ UNCHANGED <<jail, mode, want, ppc, presult, env, pfds, cfds, pipe>>

\* 1369-1372: setsid, dying on failure.
Setsid ==
    /\ cstage = "setsid"
    /\ Call("rest", TRUE, task, "done")
    /\ cstage' = "chroot2"
    /\ UNCHANGED <<jail, mode, want, ppc, presult, env, pfds, cfds, pipe,
                   initAlive>>

(***************************************************************************)
(* 1385-1387 and 1439-1441: enter_chroot again, on the flag saved before   *)
(* minijail_preexec (dynamic) or still set in the policy (static). Its     *)
(* paths, "<chrootdir><dest>" and chrootdir, are resolved in the current   *)
(* root: from inside a jail they name paths below it, which exist (the     *)
(* bindings are mounted a second time) or do not (ENOENT).                 *)
(***************************************************************************)
EnterChrootAgain ==
    /\ cstage = "chroot2"
    /\ LET flag == IF mode = "dynamic" THEN jail.chroot ELSE pol.chroot
           next == IF mode = "dynamic" THEN "exec" ELSE "limits"
       IN IF ~flag
             THEN cstage' = next /\ UNCHANGED jailVars
             ELSE /\ \/ Call("fs", Admin,
                          [task EXCEPT !.mounts = @ \o BindAll(pol.bindings),
                                       !.root = "jail"], "done")
                     \/ /\ task.root = "jail"
                        /\ LineageDie("enoent")
                  /\ cstage' = next
    /\ UNCHANGED <<jail, mode, want, ppc, presult, env, pfds, cfds, pipe,
                   initAlive>>

\* 1443-1449: setup_limits (setrlimit, ualarm) when a limit is set, then
\* close the meta file.
SetupLimits ==
    /\ cstage = "limits"
    /\ IF pol.time_limit THEN Call("rest", TRUE, task, "done")
                         ELSE UNCHANGED jailVars
    /\ cstage' = "exec"
    /\ UNCHANGED <<jail, mode, want, ppc, presult, env, pfds, cfds, pipe,
                   initAlive>>

(***************************************************************************)
(* execve (1389, 1451): strict seccomp allows only read, write, exit and   *)
(* sigreturn, so the kernel kills the caller of execve; a filter may block *)
(* it (SIGSYS); it may fail (ENOENT), and the process _exits. The dynamic  *)
(* target starts in the preload helper, the static one runs.               *)
(***************************************************************************)
Exec ==
    /\ cstage = "exec"
    /\ IF task.strict
          THEN LineageDie("sigkill")
          ELSE Call("rest", TRUE, task, "done")
    /\ cstage' = IF mode = "dynamic" THEN "from_fd" ELSE "running"
    /\ UNCHANGED <<jail, mode, want, ppc, presult, env, pfds, cfds, pipe,
                   initAlive>>

(***************************************************************************)
(* The preload helper (spec 4.2, 6): it reads the policy the caller wrote  *)
(* (blocking until it is written), applies minijail_preenter and enters    *)
(* the jail.                                                               *)
(***************************************************************************)
HelperReadPolicy ==
    /\ cstage = "from_fd" /\ ~ChildDead
    /\ pipe = "written"
    /\ pol' = Preenter(jail)
    /\ pc' = "enter"
    /\ cstage' = "enter2"
    /\ UNCHANGED <<allow, cause, task, jail, mode, want, ppc, presult, env,
                   pfds, cfds, pipe, initAlive>>

HelperDone ==
    /\ cstage = "enter2" /\ pc = "done"
    /\ cstage' = "running"
    /\ UNCHANGED <<jailVars, jail, mode, want, ppc, presult, env, pfds, cfds,
                   pipe, initAlive>>

\* The target runs and exits.
TargetExit ==
    /\ cstage = "running" /\ ~ChildDead
    /\ LineageDie("exit")
    /\ UNCHANGED launchVars

\* init (908-980): wait3 returns once no process is left in the namespace;
\* init then exits, closing its descriptors.
InitExit ==
    /\ initAlive /\ ChildDead
    /\ initAlive' = FALSE
    /\ UNCHANGED <<jailVars, jail, mode, want, ppc, presult, env, pfds, cstage,
                   cfds, pipe>>

\* Every process has finished.
Finished ==
    /\ ppc \in {"returned", "died"}
    /\ cstage = "none" \/ ChildDead
    /\ ~initAlive
    /\ UNCHANGED allVars

LaunchNext ==
    \/ SetupPreload \/ SetupPipe \/ StaticCheck
    \/ OpenStdio("in", "out") \/ OpenStdio("out", "err")
    \/ OpenStdio("err", "fork")
    \/ Fork \/ RestoreEnv \/ SendPolicy
    \/ ChildSetup \/ StaticSetup \/ JailStep \/ ForkInit \/ Setsid
    \/ EnterChrootAgain \/ SetupLimits \/ Exec \/ HelperReadPolicy
    \/ HelperDone \/ TargetExit \/ InitExit \/ Finished

LaunchSpec == LaunchInit /\ [][LaunchNext]_allVars

-----------------------------------------------------------------------------
(* Properties.                                                             *)

(***************************************************************************)
(* CallerRestored (spec 4.2 step 4, 5 "fds are ownership-transferred"):    *)
(* whenever minijail_run_pid_pipes returns, successfully or not, the       *)
(* caller's LD_PRELOAD is what it was, the policy-fd variable is unset,    *)
(* and the only pipe ends left open in the caller are the ones returned.   *)
(***************************************************************************)
CallerRestored ==
    ppc = "returned" =>
        /\ env = OrigEnv
        /\ pfds \subseteq {<<s, ParentEnd(s)>> : s \in want}

(***************************************************************************)
(* TargetConfined (spec 4.2, 4.7: preexec_strip and preenter_strip split   *)
(* the policy between the child and the preload helper): once the target   *)
(* runs, every restriction of the caller's policy is in force in it, as    *)
(* JailEntry's PolicyInForce states it for one minijail_enter, although    *)
(* the restrictions were applied by up to three different steps.          *)
(***************************************************************************)
TargetConfined ==
    cstage = "running" /\ ~ChildDead => InForce(jail, task)

(***************************************************************************)
(* LaunchCompletes (spec 4.2 step 5, 7): the jailed process dies before    *)
(* its target runs only when the policy is rejected, a call fails for an   *)
(* outside reason, or the filter lacks calls the launch is documented to   *)
(* need (the setup calls without no_new_privs, prctl for strict mode, and  *)
(* on the static path chroot and the calls up to execve). Never from the   *)
(* launch's own sequence of steps.                                         *)
(***************************************************************************)
LaunchMisconfigured ==
    \/ Misconfigured(jail)
    \/ mode = "static" /\ "rest" \notin allow
    \/ mode = "static" /\ jail.chroot /\ "fs" \notin allow

LaunchCompletes ==
    ChildDead =>
        \/ cause \in {"exit", "env", "rejected"}
        \/ cause = "sigsys" /\ LaunchMisconfigured

(***************************************************************************)
(* CallerSurvives (spec 7: after fork a failure in the child is observed   *)
(* by the parent through the wait status): the launch ends the calling     *)
(* process only where it says so, when fork fails or a static target is   *)
(* asked for capabilities, never because of what the child does.          *)
(***************************************************************************)
CallerSurvives == ppc = "died" => presult \in {"fork", "caps"}

====
