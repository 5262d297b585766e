---------------------------- MODULE MCJailEntry ----------------------------
(***************************************************************************)
(* Model-checking instances of JailEntry: the policies minijail_enter is   *)
(* entered with, built from sets of flags the way the builder API sets     *)
(* them, and the filter rules a compiled policy file may have.             *)
(***************************************************************************)
EXTENDS JailEntry, MCPolicy

\* Identity, capability and seccomp settings, no filesystem layering.
PrivPolicies ==
    Build({}, {"uid", "gid", "user", "usergroups", "caps", "nnp",
               "seccomp_filter", "seccomp", "net"}, SUBSET Caps, {<<>>})

\* Filesystem layering under a user change with no_new_privs, as entered
\* directly or by the pre-exec child of minijail_run (after minijail_
\* preexec). Policies with both chroot and readonly, and tmpfs without a
\* mount namespace, are checked apart.
FsBase ==
    {p \in Build({"uid", "gid", "nnp"},
                 {"vfs", "net", "pids", "readonly", "chroot", "mount_tmp"},
                 {{}}, BindingLists) :
        /\ ~(p.chroot /\ p.readonly)
        /\ p.chroot /\ p.mount_tmp => p.vfs}
FsPolicies == FsBase \cup {Preexec(p) : p \in
    Build({"uid", "gid", "nnp", "chroot", "vfs", "readonly"}, {"mount_tmp"},
          {{}}, BindingLists)}

\* What minijail_run_static enters with: the built policy with pids cleared.
StaticPolicies ==
    {[p EXCEPT !.pids = FALSE] :
        p \in Build({"uid", "gid", "nnp", "chroot", "readonly", "vfs"},
                    {"pids"}, {{}}, {<<>>, <<TRUE>>})}

\* chroot with a tmpfs, without asking for a mount namespace.
TmpPolicies == Build({"chroot", "mount_tmp"}, {"vfs"}, {{}}, {<<>>})

\* The identity and filesystem policies together.
EntryPolicies == PrivPolicies \cup FsPolicies

\* A capability mask kept across a chroot jail, entered directly.
CapsChrootPolicies == Build({"uid", "caps", "nnp", "vfs", "chroot"}, {},
                            {{CapSetid}}, {<<>>})

\* The filter that allows exactly what the comment at libminijail.c 870-875
\* says a filter installed before the privilege drop must allow.
DocumentedFilter == {SetupSyscalls}

MCFilterRules == {{}, {"prctl"}, {"id", "caps"}, SetupSyscalls \cup {"file"}}
=============================================================================
