---------------------------- MODULE MCPolicyPipe ----------------------------
(* Policies for the PolicyPipe runs.  Every string is a sequence of        *)
(* one-character strings; with RecLen 2, InstrSize 2, IntSize 1, HdrLen 3, *)
(* PipeCap 12 and UShrtMax 11 a body of at most 9 cells fits in the pipe   *)
(* behind its header, one of 10 or 11 fits only once the header is read,   *)
(* and one above 11 is refused.                                            *)
EXTENDS PolicyPipe

Pol(flags, user, root, dir, filter, binds) ==
    [flags |-> flags, user |-> user, chrootdir |-> root, chdir |-> dir,
     filter |-> filter, bindings |-> binds, meta |-> FALSE]

Bnd(s, d, w) == [src |-> s, dest |-> d, w |-> w]

(* A chroot and a chdir (8 cells); a user and a two-instruction filter    *)
(* (8); a binding with a meta file (9).                                    *)
FitPolicies ==
    { Pol({"chroot", "chdir"}, <<>>, <<"/", "r">>, <<"/", "d">>, <<>>, <<>>),
      Pol({"seccomp_filter"}, <<"u">>, <<>>, <<>>, <<"i", "j">>, <<>>),
      [Pol({"vfs", "meta_file"}, <<>>, <<>>, <<>>, <<>>,
           <<Bnd(<<"/", "a">>, <<"/", "b">>, 1)>>) EXCEPT !.meta = TRUE] }

(* A chroot and a chdir of 10 cells.                                       *)
WindowPolicies ==
    { Pol({"chroot", "chdir"}, <<>>, <<"/", "r">>, <<"/", "d", "d", "d">>,
          <<>>, <<>>) }

(* Everything at once: 17 cells, above USHRT_MAX.                          *)
LargePolicies ==
    { Pol({"seccomp_filter", "chroot", "chdir", "vfs"}, <<"u">>, <<"/", "r">>,
          <<"/", "d">>, <<"i">>, <<Bnd(<<"/", "a">>, <<"/", "b">>, 0)>>) }

PassPolicies == FitPolicies \cup LargePolicies
====
