--------------------------- MODULE MCPathResolver ---------------------------
(* Jails, paths and a host file system for the PathResolver runs.  Every  *)
(* string stands for one byte; Abs(<<"a", "d">>) is the path "/a/d".      *)
EXTENDS PathResolver

Abs(ns) == [i \in 1 .. 2 * Len(ns) |-> IF i % 2 = 1 THEN "/" ELSE ns[i \div 2]]

Bind(d, s) == [dest |-> Abs(d), src |-> Abs(s)]
Jail(cd, cr, bs) == [chdir |-> cd, chroot |-> cr, bindings |-> bs]

Reg == [kind |-> "reg", target |-> <<>>]
Dir == [kind |-> "dir", target |-> <<>>]
Lnk(t) == [kind |-> "lnk", target |-> t]

Q5 == <<"/", "q", "q", "q", "q", "q">>

(* The host: files behind the bindings, a chroot and the caller's cwd.    *)
HostFs ==
    (Abs(<<"x", "d">>) :> Reg) @@ (Abs(<<"x", "e">>) :> Dir) @@
    (Abs(<<"x", "l">>) :> Lnk(Abs(<<"a", "d">>))) @@
    (Abs(<<"x", "m">>) :> Lnk(<<"d">>)) @@
    (Abs(<<"x", "o">>) :> Lnk(Abs(<<"a", "o">>))) @@
    (Abs(<<"z", "z", "c">>) :> Reg) @@ (Abs(<<"y", "c">>) :> Reg) @@
    (Abs(<<"r", "b">>) :> Reg) @@ (Abs(<<"c", "x">>) :> Reg) @@
    (Abs(<<"x", "y", "z", "x">>) :> Reg) @@
    (Abs(<<"x">>) \o Q5 :> Reg) @@ (Abs(<<"x">>) \o Q5 \o <<"w">> :> Reg)

Cwd == Abs(<<"c">>)

CasesOf(jails, paths) ==
    {[chdir |-> j.chdir, chroot |-> j.chroot, bindings |-> j.bindings,
      cwd |-> Cwd, path |-> p, fs |-> HostFs] : j \in jails, p \in paths}

(* One binding of a directory; the same under a chdir; nested bindings    *)
(* whose inner src is as long as its dest; a chroot; nothing at all.      *)
BenignJails ==
    { Jail(<<>>, <<>>, <<Bind(<<"a">>, <<"x">>)>>),
      Jail(Abs(<<"a">>), <<>>, <<Bind(<<"a">>, <<"x">>)>>),
      Jail(<<>>, <<>>, <<Bind(<<"a">>, <<"x">>),
                         Bind(<<"a", "b">>, <<"z", "z">>)>>),
      Jail(<<>>, Abs(<<"r">>) \o <<"/">>, <<>>),
      Jail(<<>>, <<>>, <<>>) }

BenignPaths ==
    { Abs(<<"a", "d">>), <<"d">>, Abs(<<"a", "l">>), <<"m">>,
      Abs(<<"a", "e">>), Abs(<<"a", "q">>), Abs(<<"a", "b", "c">>),
      Abs(<<"b">>), <<"x">>, Abs(<<"a", "q", "q", "q", "q", "q">>) }

BenignCases == CasesOf(BenignJails, BenignPaths)

(* Spec section 8: bindings [/a -> /x] and [/a/b -> /y], path /a/b/c.     *)
SpecExampleCases ==
    CasesOf({Jail(<<>>, <<>>, <<Bind(<<"a">>, <<"x">>),
                                Bind(<<"a", "b">>, <<"y">>)>>)},
            {Abs(<<"a", "b", "c">>), Abs(<<"a", "d">>)})

(* A symlink cycle /x/o -> /a/o under the binding /a -> /x.               *)
CycleCases == CasesOf({Jail(<<>>, <<>>, <<Bind(<<"a">>, <<"x">>)>>)},
                      {Abs(<<"a", "o">>)})

(* A binding of a single file.                                            *)
FileBindCases ==
    CasesOf({Jail(<<>>, <<>>, <<Bind(<<"a", "d">>, <<"x", "d">>)>>)},
            {Abs(<<"a", "d">>)})

(* A relative path from a cwd that a binding moves to a longer src: the  *)
(* rewritten path grows into bytes concat_path never wrote.               *)
GrowCases ==
    CasesOf({Jail(<<>>, <<>>, <<Bind(<<"c">>, <<"x", "y", "z">>)>>)}, {<<"x">>})

(* A relative name that fills the snprintf of concat_path exactly.        *)
TruncateCases ==
    CasesOf({Jail(Abs(<<"a">>), <<>>, <<Bind(<<"a">>, <<"x">>)>>)},
            {<<"q", "q", "q", "q", "q", "w">>})
====
