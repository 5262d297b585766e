---------------------------- MODULE MCLauncher -----------------------------
(***************************************************************************)
(* Model-checking instances of Launcher: the policies callers launch with  *)
(* on each entry point, the stdio pipes they ask for, and the filters.     *)
(***************************************************************************)
EXTENDS Launcher, MCPolicy

\* Identities always change; everything else minijail_run handles may be
\* set, except a tmpfs, and caps together with a chroot (checked apart).
DynamicPolicies ==
    {p \in Build({"uid", "gid"},
                 {"nnp", "caps", "seccomp_filter", "seccomp", "vfs", "readonly",
                  "pids", "chroot", "time_limit"},
                 {{}, {CapSetid}}, {<<>>, <<FALSE>>}) :
        ~(p.caps /\ p.chroot)}

\* A chroot jail with a capability mask and no readonly remount, which
\* would have mounted a proc below the chroot directory.
CapsChrootPolicies(m) ==
    Build({"uid", "gid", "caps", "vfs", "nnp", "chroot"}, {"pids"}, {{}},
          {<<>>})

\* What minijail_run_static accepts and can complete: no capabilities, no
\* chroot, no strict mode (each checked apart).
StaticPolicies ==
    Build({"gid"}, {"uid", "nnp", "seccomp_filter", "vfs", "readonly", "pids",
                    "time_limit"}, {{}}, {<<>>})

\* A chroot with a tmpfs in a mount namespace, launched by minijail_run.
TmpfsPolicies == Build({"uid", "vfs", "chroot", "mount_tmp"}, {"readonly"},
                       {{}}, {<<>>, <<FALSE>>})

\* A static chroot jail, with or without a user change.
StaticChrootPolicies == Build({"gid", "vfs", "chroot"}, {"uid", "nnp"},
                              {{}}, {<<>>, <<FALSE>>})

\* A static target under strict seccomp.
StaticStrictPolicies == Build({"uid", "gid", "nnp", "seccomp"}, {"vfs"},
                              {{}}, {<<>>})

\* Plain policies for the caller-side questions.
SimplePolicies == Build({"uid", "gid"}, {"vfs", "nnp"}, {{}}, {<<>>})

\* Filters for what runs after them: all the setup calls, only the calls
\* up to execve, and the no_new_privs case with prctl.
LaunchFilterRules ==
    {SyscallClasses, {"rest"}, {"prctl", "rest"}, {"id", "caps", "prctl", "file", "rest"}}

\* Each entry point with the policies it completes with.
LaunchPolicies(m) == IF m = "dynamic" THEN DynamicPolicies ELSE StaticPolicies

\* The same policies for every entry point.
SamePolicies(m) == Policies

StdioSets == {{}, {"in", "err"}}
====
