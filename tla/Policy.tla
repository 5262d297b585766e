------------------------------- MODULE Policy -------------------------------
(***************************************************************************)
(* The policy object (struct minijail, src/libminijail.c:72-121) as a      *)
(* record, the two flag filters minijail_preexec and minijail_preenter,    *)
(* and the invariants its builder API maintains.                           *)
(*                                                                         *)
(* Strings (user name, chroot directory) are abstracted to presence bits;  *)
(* a binding is abstracted to its writeable bit, its position in the       *)
(* sequence being its position in the bindings list.                       *)
(***************************************************************************)
EXTENDS Naturals, Sequences, FiniteSets

CONSTANT Caps   \* the capabilities the running kernel knows (cap_last_cap)

\* The one-bit flags of struct minijail that this project models.
Flags == {"uid", "gid", "caps", "vfs", "pids", "net", "seccomp", "readonly",
          "usergroups", "nnp", "seccomp_filter", "chroot", "mount_tmp",
          "time_limit"}

PolicyType ==
    [uid: BOOLEAN, gid: BOOLEAN, user: BOOLEAN, usergroups: BOOLEAN,
     caps: BOOLEAN, capmask: SUBSET Caps, nnp: BOOLEAN,
     seccomp_filter: BOOLEAN, seccomp: BOOLEAN, vfs: BOOLEAN, net: BOOLEAN,
     pids: BOOLEAN, readonly: BOOLEAN, chroot: BOOLEAN, chrootdir: BOOLEAN,
     mount_tmp: BOOLEAN, bindings: Seq(BOOLEAN), time_limit: BOOLEAN]

\* Mutant: readonly not kept for the pre-exec child.
KeptByPreexecNoReadonly == {"vfs", "time_limit"}

\* Flags minijail_preexec restores after zeroing the flag word.
KeptByPreexec == {"vfs", "readonly", "time_limit"}

\* minijail_preexec: zero every flag except the kept ones, and free the user
\* name. Pointers (chrootdir, bindings) and numeric fields survive.
Preexec(p) ==
    [f \in DOMAIN p |->
        IF f \in (Flags \ KeptByPreexec) \cup {"user"} THEN FALSE ELSE p[f]]

\* Mutant: readonly left for the preload helper as well.
PreenterKeepsReadonly(p) ==
    [p EXCEPT !.vfs = FALSE, !.pids = FALSE, !.chroot = FALSE]

\* minijail_preenter: clear what the pre-exec child has already applied.
Preenter(p) ==
    [p EXCEPT !.vfs = FALSE, !.readonly = FALSE, !.pids = FALSE,
              !.chroot = FALSE]

(***************************************************************************)
(* What every policy built through the API satisfies: minijail_namespace_  *)
(* pids and minijail_remount_readonly set vfs (and pids sets readonly),    *)
(* minijail_bind forces vfs, minijail_change_user sets uid with the name,  *)
(* minijail_enter_chroot sets the directory and the flag together, and     *)
(* the capability mask is only set by minijail_use_caps.                   *)
(***************************************************************************)

Legal(p) ==
    /\ p.pids => p.vfs /\ p.readonly
    /\ p.readonly => p.vfs
    /\ p.bindings # <<>> => p.vfs
    /\ p.user => p.uid
    /\ p.chroot = p.chrootdir
    /\ ~p.caps => p.capmask = {}
=============================================================================
