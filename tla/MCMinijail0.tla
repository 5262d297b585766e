--------------------------- MODULE MCMinijail0 ----------------------------
(***************************************************************************)
(* Model-checking instance of Minijail0: sudo callers, the passwd entries, *)
(* the command lines tried and the host's files.                           *)
(***************************************************************************)
EXTENDS Minijail0

O(c) == [k |-> "opt", c |-> c]
W(w) == [k |-> "word", w |-> w]
End == [k |-> "end"]

\* alice is an ordinary user (uid and gid differ); root and an unknown
\* name are refused by main.
MCPasswd == [u \in {"alice", "root"} |->
                IF u = "alice" THEN [uid |-> 1000, gid |-> 100]
                ELSE [uid |-> 0, gid |-> 0]]
MCSudoUsers == {NoUser, "alice", "root", "ghost"}

\* Programs: ps static, pd dynamic, pn no ELF file, pr dynamic but readable
\* only by root, px not executable.
MCExecutable == {"ps", "pd", "pn", "pr"}
MCElfKind == [p \in MCExecutable |->
                 CASE p = "ps" -> "static" [] p = "pn" -> "error"
                   [] OTHER -> "dynamic"]
\* f is the user's; g is not.
MCUserFiles == {"f", "ps", "pd", "pn", "px"}

\* Bindings: b1 is "/a,/b", b2 "/a,b" (relative dest), b3 "/a" (no dest).
Words == {"ps", "pd", "pn", "pr", "px", "f", "g", "5", "/jail", "jail", "rel",
          "alice", "b1", "b2", "b3", "-"}
MCAbsolute == {"/jail", "/a", "/b"}
MCFields == [w \in Words |-> CASE w = "b1" -> <<"/a", "/b">>
                              [] w = "b2" -> <<"/a", "b">>
                              [] w = "b3" -> <<"/a">>
                              [] OTHER -> <<w>>]

\* Command lines: each option alone and in company, with good and bad
\* arguments, "--", a missing argument, and each kind of program.
FrontArgvs ==
    { <<>>, <<W("pd")>>, <<W("ps")>>, <<W("pn")>>, <<W("pr")>>, <<W("px")>>,
      <<O("s"), W("pd"), O("t")>>,
      <<O("t"), W("5"), W("ps")>>,
      <<O("C"), W("/jail"), O("d"), W("/jail"), O("b"), W("b1"), W("pd")>>,
      <<O("C"), W("jail"), O("d"), W("rel"), W("pd")>>,
      <<O("d"), W("/jail"), W("pd")>>,
      <<O("C"), W("/jail"), O("C"), W("/jail"), W("pd")>>,
      <<O("b"), W("b2"), W("pd")>>, <<O("b"), W("b3"), W("pd")>>,
      <<O("S"), W("f"), O("M"), W("f"), O("0"), W("f"), W("pd")>>,
      <<O("O"), W("5"), O("m"), W("5"), O("2"), W("f"), W("pd")>>,
      <<O("1"), W("g"), W("pd")>>, <<O("S"), W("g"), W("pd")>>,
      <<O("M"), W("g"), W("pd")>>,
      <<O("u"), W("alice"), W("pd")>>, <<O("x"), W("pd")>>,
      <<O("H"), W("pd")>>, <<O("s")>>, <<O("t")>>, <<O("s"), End>>,
      <<O("s"), End, W("pd")>>, <<End, W("ps")>>,
      <<O("L"), O("s"), W("pd")>> }

\* The command lines above, with -G and with -S before -L.
PromiseArgvs == FrontArgvs \cup {<<O("G"), W("pd")>>, <<O("S"), W("f"), O("L"), W("pd")>>}
====
