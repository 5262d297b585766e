------------------------------ MODULE JailEntry ------------------------------
(***************************************************************************)
(* minijail_enter (src/libminijail.c:814-889) run by one process that      *)
(* starts as root with every capability, together with the helpers it     *)
(* calls: enter_chroot/bind_one, mount_tmp, remount_readonly, drop_ugid,   *)
(* drop_caps and set_seccomp_filter.                                       *)
(*                                                                         *)
(* The kernel is modelled by the rules these calls depend on: which        *)
(* capability a call needs, what setresuid does to the capability sets     *)
(* under the securebits, that capset may not raise permitted, that a       *)
(* bounding-set drop needs CAP_SETPCAP, that a seccomp filter can only be  *)
(* installed with no_new_privs or CAP_SYS_ADMIN, and that an installed     *)
(* filter kills the process with SIGSYS on a call it does not allow. Any   *)
(* call may also fail for reasons outside the model (ENOMEM, EBUSY, ...)   *)
(* when MayFail holds. Every failure ends in pdie/die: the process is dead.*)
(***************************************************************************)
EXTENDS Policy

CONSTANTS
    CapSetpcap,   \* CAP_SETPCAP
    CapSysAdmin,  \* CAP_SYS_ADMIN / CAP_SYS_CHROOT: unshare, mount, chroot
    CapSetid,     \* CAP_SETUID / CAP_SETGID: setgroups, setresgid, setresuid
    Policies,     \* the policies minijail_enter may be called with
    FilterRules,  \* for each compiled filter, the syscall classes it allows
    MayFail       \* whether calls may fail for environmental reasons

ASSUME {CapSetpcap, CapSysAdmin, CapSetid} \subseteq Caps
ASSUME Policies \subseteq PolicyType

\* Syscall classes a filter rule can allow: identity changes, capget/capset,
\* prctl (bounding-set drops, strict seccomp), mount/chroot, reading a file
\* (openat, read, close), and the rest (fork, setsid, setrlimit, execve).
SyscallClasses == {"id", "caps", "prctl", "fs", "file", "rest"}
\* What a filter installed before the privilege drop must allow (the WARNING
\* at src/libminijail.c:870-875).
SetupSyscalls == {"id", "caps", "prctl"}
ASSUME \A r \in FilterRules : r \subseteq SyscallClasses

VARIABLES
    pol,    \* the policy being entered
    allow,  \* the classes the policy's compiled filter allows
    pc,     \* the point minijail_enter has reached
    cause,  \* why the process died
    task    \* the kernel's view of the process

vars == <<pol, allow, pc, cause, task>>

Labels == {"enter", "vfs", "net", "chroot", "tmp", "readonly", "keepcaps",
           "nnp_ugid", "nnp_caps", "nnp_filter",
           "filter", "ugid", "caps", "strict", "done", "dead"}
Causes == {"none", "rejected", "env", "eperm", "einval", "enoent", "sigsys",
           "sigkill", "segv", "exit"}
ProcState == {"host", "fresh_ro", "none"}
MountType == [kind: {"bind", "tmpfs", "proc"}, ro: BOOLEAN,
              ns: {"host", "private"}]

TaskType ==
    [uid: {"root", "user"}, gid: {"root", "user"},
     groups: {"root", "cleared", "user"},
     eff: SUBSET Caps, perm: SUBSET Caps, inh: SUBSET Caps, bnd: SUBSET Caps,
     keepcaps: BOOLEAN, secure: BOOLEAN, nnp: BOOLEAN, filter: BOOLEAN,
     strict: BOOLEAN, mntns: {"host", "private"}, netns: {"host", "private"},
     root: {"host", "jail"}, hostProc: ProcState, jailProc: ProcState,
     mounts: Seq(MountType)]

\* The kernel never lets a capability be effective without being permitted
\* (capset refuses it, setuid clears effective with permitted).
WellFormedCaps(t) == t.eff \subseteq t.perm

TypeOK ==
    /\ pol \in PolicyType
    /\ allow \in FilterRules
    /\ pc \in Labels
    /\ cause \in Causes
    /\ task \in TaskType
    /\ WellFormedCaps(task)

\* A root process in the host: every capability, the host's /proc mounted,
\* the chroot directory's proc an empty directory.
InitTask ==
    [uid |-> "root", gid |-> "root", groups |-> "root",
     eff |-> Caps, perm |-> Caps, inh |-> {}, bnd |-> Caps,
     keepcaps |-> FALSE, secure |-> FALSE, nnp |-> FALSE, filter |-> FALSE,
     strict |-> FALSE, mntns |-> "host", netns |-> "host", root |-> "host",
     hostProc |-> "host", jailProc |-> "none", mounts |-> <<>>]

Init ==
    /\ pol \in Policies
    /\ allow \in FilterRules
    /\ pc = "enter"
    /\ cause = "none"
    /\ task = InitTask

-----------------------------------------------------------------------------
(* Kernel rules.                                                           *)

\* An installed filter kills the caller of a call outside its rule.
Blocked(cls) == task.filter /\ cls \notin allow

Die(c) == /\ pc' = "dead"
          /\ cause' = c
          /\ UNCHANGED <<pol, allow, task>>

(***************************************************************************)
(* One guarded group of calls: if the filter blocks its class the process  *)
(* gets SIGSYS; otherwise it fails with EPERM when the kernel refuses it,  *)
(* may fail for environmental reasons, and else has effect t2.             *)
(***************************************************************************)
Call(cls, permitted, t2, to) ==
    \/ /\ Blocked(cls)
       /\ Die("sigsys")
    \/ /\ ~Blocked(cls)
       /\ \/ /\ ~permitted
             /\ Die("eperm")
          \/ /\ MayFail
             /\ Die("env")
          \/ /\ permitted
             /\ task' = t2
             /\ pc' = to
             /\ UNCHANGED <<pol, allow, cause>>

Skip(to) == /\ pc' = to
            /\ UNCHANGED <<pol, allow, cause, task>>

\* A guarded call made only when the policy asks for it.
Maybe(flag, cls, permitted, t2, to) ==
    IF flag THEN Call(cls, permitted, t2, to) ELSE Skip(to)

Admin == CapSysAdmin \in task.eff

\* setresuid from root to a non-zero uid (the kernel's setuid fixup): with
\* SECBIT_NO_SETUID_FIXUP the sets are left alone, with keepcaps only the
\* effective set is cleared, otherwise effective and permitted are.
AfterSetuid(t) ==
    IF t.secure THEN t
    ELSE IF t.keepcaps THEN [t EXCEPT !.eff = {}]
    ELSE [t EXCEPT !.eff = {}, !.perm = {}]

-----------------------------------------------------------------------------
(* minijail_enter, in the order of the code.                              *)

\* The two die() checks at the top of minijail_enter.
Enter ==
    /\ pc = "enter"
    /\ IF pol.pids \/ (pol.usergroups /\ ~pol.user)
          THEN Die("rejected")
          ELSE Skip("vfs")

UnshareVfs ==
    /\ pc = "vfs"
    /\ Maybe(pol.vfs, "fs", Admin, [task EXCEPT !.mntns = "private"], "net")

UnshareNet ==
    /\ pc = "net"
    /\ Maybe(pol.net, "fs", Admin, [task EXCEPT !.netns = "private"], "chroot")

\* The mounts bind_one makes for one binding: a bind mount, and a read-only
\* remount of it unless the binding is writeable.
BindMounts(w) ==
    LET m(ro) == [kind |-> "bind", ro |-> ro, ns |-> task.mntns]
    IN IF w THEN <<m(FALSE)>> ELSE <<m(FALSE), m(TRUE)>>

RECURSIVE BindAll(_)
BindAll(bs) == IF bs = <<>> THEN <<>>
               ELSE BindMounts(Head(bs)) \o BindAll(Tail(bs))

(***************************************************************************)
(* enter_chroot: the bindings in list order (bind_one recursing down the   *)
(* list), then chroot and chdir. A failing mount dies after the mounts     *)
(* before it were made, which stay in the mount namespace.                 *)
(***************************************************************************)
EnterChroot ==
    /\ pc = "chroot"
    /\ IF ~pol.chroot THEN Skip("tmp")
       ELSE LET all == BindAll(pol.bindings)
            IN \/ Call("fs", Admin,
                       [task EXCEPT !.mounts = @ \o all, !.root = "jail"],
                       "tmp")
               \/ /\ MayFail
                  /\ all # <<>>
                  /\ \E k \in 0..(Len(all) - 1) :
                        task' = [task EXCEPT !.mounts = @ \o SubSeq(all, 1, k)]
                  /\ pc' = "dead"
                  /\ cause' = "env"
                  /\ UNCHANGED <<pol, allow>>

\* mount_tmp: a tmpfs on /tmp of the current root.
MountTmp ==
    /\ pc = "tmp"
    /\ Maybe(pol.chroot /\ pol.mount_tmp, "fs", Admin,
             [task EXCEPT !.mounts = Append(@, [kind |-> "tmpfs", ro |-> FALSE,
                                                ns |-> task.mntns])],
             "readonly")

\* What /proc is in the process's current root.
ProcHere(t) == IF t.root = "jail" THEN t.jailProc ELSE t.hostProc

\* Mutant: procPath always "/proc", ignoring the chroot directory.
ProcPathNoChroot == "/proc"

\* remount_readonly's procPath: "<chrootdir>/proc" when a chroot directory
\* is set, else "/proc".
ProcPath == IF pol.chrootdir THEN "chrootdir/proc" ELSE "/proc"

(***************************************************************************)
(* remount_readonly: umount("/proc") of the current root, which fails with *)
(* EINVAL where /proc is no mount point, then a read-only proc mounted at  *)
(* procPath resolved in the current root: "<chrootdir>/proc" does not      *)
(* exist below the jail (ENOENT).                                          *)
(***************************************************************************)
RemountReadonly ==
    /\ pc = "readonly"
    /\ IF ~pol.readonly THEN Skip("keepcaps")
       ELSE IF ProcHere(task) = "none" THEN Die("einval")
       ELSE IF ProcPath = "chrootdir/proc" /\ task.root = "jail"
          THEN Die("enoent")
       ELSE LET unmounted ==
                    IF task.root = "jail" THEN [task EXCEPT !.jailProc = "none"]
                    ELSE [task EXCEPT !.hostProc = "none"]
                intoJail == ProcPath = "chrootdir/proc" \/ task.root = "jail"
                remounted ==
                    IF intoJail THEN [unmounted EXCEPT !.jailProc = "fresh_ro"]
                    ELSE [unmounted EXCEPT !.hostProc = "fresh_ro"]
            IN Call("fs", Admin,
                    [remounted EXCEPT !.mounts = Append(@, [kind |-> "proc",
                                          ro |-> TRUE, ns |-> task.mntns])],
                    "keepcaps")

\* prctl(PR_SET_KEEPCAPS) and prctl(PR_SET_SECUREBITS, all bits and locks);
\* setting securebits needs CAP_SETPCAP. Then the no_new_privs branch.
KeepCaps ==
    /\ pc = "keepcaps"
    /\ Maybe(pol.caps, "prctl", CapSetpcap \in task.eff,
             [task EXCEPT !.keepcaps = TRUE, !.secure = TRUE],
             IF pol.nnp THEN "nnp_ugid" ELSE "filter")

(***************************************************************************)
(* drop_ugid: initgroups when inheriting the user's groups, else           *)
(* setgroups(0) when uid or gid changes; then setresgid and setresuid.     *)
(* All need CAP_SETUID/CAP_SETGID.                                         *)
(***************************************************************************)
\* Mutant: supplementary groups cleared only when the uid changes.
DropUgidEffectUidOnly(t) ==
    LET g == IF pol.usergroups THEN [t EXCEPT !.groups = "user"]
             ELSE IF pol.uid THEN [t EXCEPT !.groups = "cleared"]
             ELSE t
        gg == IF pol.gid THEN [g EXCEPT !.gid = "user"] ELSE g
    IN IF pol.uid THEN AfterSetuid([gg EXCEPT !.uid = "user"]) ELSE gg

DropUgidEffect(t) ==
    LET g == IF pol.usergroups THEN [t EXCEPT !.groups = "user"]
             ELSE IF pol.uid \/ pol.gid THEN [t EXCEPT !.groups = "cleared"]
             ELSE t
        gg == IF pol.gid THEN [g EXCEPT !.gid = "user"] ELSE g
    IN IF pol.uid THEN AfterSetuid([gg EXCEPT !.uid = "user"]) ELSE gg

DropUgid(from, to) ==
    /\ pc = from
    /\ Maybe(pol.usergroups \/ pol.uid \/ pol.gid, "id",
             CapSetid \in task.eff, DropUgidEffect(task), to)

\* Mutant: CAP_SETPCAP not kept for the bounding-set drops.
CapsKeptForBsetNoSetpcap(mask) == mask

\* The capabilities drop_caps raises in all three sets before dropping the
\* bounding set: the mask, and CAP_SETPCAP to permit the bounding drops.
CapsKeptForBset(mask) == mask \cup {CapSetpcap}

\* Mutant: CAP_SETPCAP cleared from permitted and inheritable only.
FinalCapsetsEffKept(mask) ==
    LET kept == CapsKeptForBset(mask)
        clr(s) == IF CapSetpcap \in mask THEN s ELSE s \ {CapSetpcap}
    IN [eff |-> kept, perm |-> clr(kept), inh |-> clr(kept)]

\* The sets of the final capset: CapsKeptForBset, with CAP_SETPCAP cleared
\* from all three unless the mask requests it.
FinalCapsets(mask) ==
    LET kept == CapsKeptForBset(mask)
        clr(s) == IF CapSetpcap \in mask THEN s ELSE s \ {CapSetpcap}
    IN [eff |-> clr(kept), perm |-> clr(kept), inh |-> clr(kept)]

(***************************************************************************)
(* run_cap_valid(0), on drop_caps' first loop test: last_cap is a static  *)
(* of the process image, 0 in every image that enters a jail, so it opens *)
(* /proc/sys/kernel/cap_last_cap in the current root, after any chroot.   *)
(* The fopen result is not checked: where that root has no proc, fscanf   *)
(* (NULL, ...) faults; an open failing for other reasons (EMFILE, ...)    *)
(* faults the same way, counted as the environment's.  Its calls go       *)
(* through the filter.                                                     *)
(***************************************************************************)
CapLastCapRead(t) ==
    CASE Blocked("file") -> Die("sigsys")
      [] ProcHere(t) = "none" -> Die("segv")
      [] MayFail -> Die("env")
      [] OTHER -> FALSE

(***************************************************************************)
(* drop_caps: capget; clear the three sets and raise CapsKeptForBset in    *)
(* them; capset (may not raise permitted); PR_CAPBSET_DROP of every cap    *)
(* outside the mask (needs CAP_SETPCAP effective); then clear CAP_SETPCAP  *)
(* unless requested, and capset again.                                     *)
(***************************************************************************)
DropCaps(from, to) ==
    /\ pc = from
    /\ IF ~pol.caps THEN Skip(to)
       ELSE LET kept == CapsKeptForBset(pol.capmask)
                drops == Caps \ pol.capmask
                final == FinalCapsets(pol.capmask)
            IN IF Blocked("caps") THEN Die("sigsys")
               ELSE \/ CapLastCapRead(task)
                    \/ /\ ~Blocked("file") /\ ProcHere(task) # "none"
                       /\ IF drops # {} /\ Blocked("prctl") THEN Die("sigsys")
                          ELSE Call("caps",
                            /\ kept \subseteq task.perm
                            /\ drops # {} => CapSetpcap \in kept,
                            [task EXCEPT !.eff = final.eff,
                                         !.perm = final.perm,
                                         !.inh = final.inh,
                                         !.bnd = @ \cap pol.capmask],
                            to)

\* Mutant: no_new_privs not set before the filter is loaded.
SetSeccompFilterNoNnp(from, to) ==
    /\ pc = from
    /\ Maybe(pol.nnp \/ pol.seccomp_filter, "prctl",
             pol.seccomp_filter => (task.nnp \/ Admin),
             [task EXCEPT !.filter = pol.seccomp_filter \/ @], to)

\* set_seccomp_filter: prctl(PR_SET_NO_NEW_PRIVS), then the filter, which
\* the kernel accepts only with no_new_privs or CAP_SYS_ADMIN.
SetSeccompFilter(from, to) ==
    /\ pc = from
    /\ LET t1 == IF pol.nnp THEN [task EXCEPT !.nnp = TRUE] ELSE task
       IN Maybe(pol.nnp \/ pol.seccomp_filter, "prctl",
                pol.seccomp_filter => (t1.nnp \/ Admin),
                [t1 EXCEPT !.filter = pol.seccomp_filter \/ @], to)

\* Strict-mode seccomp, last.
StrictSeccomp ==
    /\ pc = "strict"
    /\ Maybe(pol.seccomp, "prctl", TRUE, [task EXCEPT !.strict = TRUE], "done")

Next ==
    \/ Enter \/ UnshareVfs \/ UnshareNet \/ EnterChroot \/ MountTmp
    \/ RemountReadonly \/ KeepCaps
    \/ DropUgid("nnp_ugid", "nnp_caps") \/ DropCaps("nnp_caps", "nnp_filter")
    \/ SetSeccompFilter("nnp_filter", "strict")
    \/ SetSeccompFilter("filter", "ugid")
    \/ DropUgid("ugid", "caps") \/ DropCaps("caps", "strict")
    \/ StrictSeccomp

\* minijail_enter either returns or the process is dead: both are final.
Spec == Init /\ [][Next]_vars

-----------------------------------------------------------------------------
(* Properties.                                                             *)

\* The /proc the target of policy p will see: the jail's when a chroot
\* directory is set.
TargetProc(p, t) == IF p.chrootdir THEN t.jailProc ELSE t.hostProc

\* The mounts of one kind, in the order they were made.
MountsOf(t, kind) == SelectSeq(t.mounts, LAMBDA m : m.kind = kind)

\* Every restriction of policy p holds in process state t: identities
\* changed and supplementary groups replaced, capability sets and bounding
\* set within the mask (and empty after a uid change without caps),
\* no_new_privs and the filters installed, namespaces unshared, each
\* binding mounted once and read-only unless writeable, the tmpfs, and the
\* host's writable /proc replaced by a fresh read-only one.
InForce(p, t) ==
    /\ p.uid => t.uid = "user"
    /\ p.gid => t.gid = "user"
    /\ (p.uid \/ p.gid) => t.groups # "root"
    /\ p.usergroups => t.groups = "user"
    /\ p.caps => t.eff \cup t.perm \cup t.inh \cup t.bnd \subseteq p.capmask
    /\ (p.uid /\ ~p.caps) => t.eff \cup t.perm = {}
    /\ p.nnp => t.nnp
    /\ p.seccomp_filter => t.filter
    /\ p.seccomp => t.strict
    /\ p.vfs => t.mntns = "private"
    /\ p.net => t.netns = "private"
    /\ p.chroot =>
          /\ t.root = "jail"
          /\ Len(SelectSeq(MountsOf(t, "bind"), LAMBDA m : ~m.ro))
                = Len(p.bindings)
          /\ Len(SelectSeq(MountsOf(t, "bind"), LAMBDA m : m.ro))
                = Len(SelectSeq(p.bindings, LAMBDA w : ~w))
    /\ p.chroot /\ p.mount_tmp => MountsOf(t, "tmpfs") # <<>>
    /\ p.readonly => /\ t.hostProc # "host"
                     /\ TargetProc(p, t) = "fresh_ro"

(***************************************************************************)
(* PolicyInForce (fail-closed entry, spec 8 "no successful launch with     *)
(* partial privilege drop"): whenever minijail_enter returns, every        *)
(* restriction the policy asks for is in force (InForce): identities,      *)
(* groups, capabilities, no_new_privs, filters, namespaces, each binding   *)
(* in list order and read-only unless writeable, the tmpfs, and a fresh    *)
(* read-only /proc in place of the host's.                                 *)
(***************************************************************************)
PolicyInForce == pc = "done" => InForce(pol, task)

(***************************************************************************)
(* NoSelfInflictedDeath (spec 1 and 4.7: a capability dropped too early   *)
(* makes a later setuid fail; a filter installed too early blocks its own  *)
(* setup calls): minijail_enter only dies because the policy is rejected,  *)
(* the environment failed, or the filter lacks calls it is documented to   *)
(* need: the privilege-dropping calls when no_new_privs is off, and prctl  *)
(* when strict seccomp follows it. Never from its own ordering.            *)
(***************************************************************************)
\* Policy p's filter lacks calls minijail_enter is documented to need.
Misconfigured(p) ==
    \/ ~p.nnp /\ ~(SetupSyscalls \subseteq allow)
    \/ p.seccomp /\ "prctl" \notin allow

NoSelfInflictedDeath ==
    pc = "dead" =>
        \/ cause \in {"rejected", "env"}
        \/ cause = "sigsys" /\ Misconfigured(pol)

\* NoHostMountLeak (spec 1: a mount made outside a vfs namespace leaks into
\* the host): no step of minijail_enter mounts anything in the host's mount
\* namespace.
NoHostMountLeak == \A i \in DOMAIN task.mounts : task.mounts[i].ns = "private"
=============================================================================
