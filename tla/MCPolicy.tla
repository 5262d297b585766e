------------------------------ MODULE MCPolicy ------------------------------
(***************************************************************************)
(* Policies for model checking, built from sets of flags the way the       *)
(* builder API sets them and kept only when they satisfy Legal.            *)
(***************************************************************************)
EXTENDS Policy

\* A policy with exactly the flags in S.
Mk(S, mask, bs) ==
    [uid |-> "uid" \in S, gid |-> "gid" \in S, user |-> "user" \in S,
     usergroups |-> "usergroups" \in S, caps |-> "caps" \in S,
     capmask |-> mask, nnp |-> "nnp" \in S,
     seccomp_filter |-> "seccomp_filter" \in S, seccomp |-> "seccomp" \in S,
     vfs |-> "vfs" \in S, net |-> "net" \in S, pids |-> "pids" \in S,
     readonly |-> "readonly" \in S, chroot |-> "chroot" \in S,
     chrootdir |-> "chroot" \in S, mount_tmp |-> "mount_tmp" \in S,
     bindings |-> bs, time_limit |-> "time_limit" \in S]

Build(fixed, optional, masks, bseqs) ==
    {p \in {Mk(fixed \cup S, m, b) : S \in SUBSET optional, m \in masks,
                                     b \in bseqs} : Legal(p)}

BindingLists == {<<>>, <<TRUE>>, <<FALSE>>, <<FALSE, TRUE>>, <<TRUE, FALSE>>}
====
