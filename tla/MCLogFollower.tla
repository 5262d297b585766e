--------------------------- MODULE MCLogFollower ---------------------------
(* Writer scripts for the LogFollower runs.  The log holds an unrelated   *)
(* line and the normal-exit line of an earlier jail when the helper       *)
(* starts.                                                                 *)
EXTENDS LogFollower

OldLog == <<"o", "e">>

Plain == UNION {[1 .. n -> Kinds] : n \in 1 .. 3}

(* Appends of any kinds; unrelated lines, a truncation and at most one   *)
(* line after it; a rotation and one line after it.                        *)
PassScripts ==
    Plain
    \cup {<<"o">> \o <<"trunc">> \o s : s \in {<<>>} \cup [1 .. 1 -> Kinds]}
    \cup {<<"o", "o">> \o <<"trunc">> \o s : s \in [1 .. 1 -> Kinds]}
    \cup {<<"o", "rotate", k>> : k \in Kinds}

(* A truncation after which the file regrows to what the helper had read. *)
RegrowScripts ==
    {<<"trunc">> \o s : s \in [1 .. 3 -> Kinds]} \cup
    {<<"o", "trunc">> \o s : s \in [1 .. 3 -> Kinds]}

(* A rotation: the line goes to the new file.                              *)
RotateScripts == {<<"rotate", k>> : k \in {"k", "e"}}

ScenariosOf(scripts) == {[init |-> OldLog, script |-> s] : s \in scripts}
PassScenarios == ScenariosOf(PassScripts)
RegrowScenarios == ScenariosOf(RegrowScripts)
RotateScenarios == ScenariosOf(RotateScripts)

(* A truncation and a line, possibly before the helper watches the file.  *)
TruncScenarios == ScenariosOf({<<"o", "trunc", "k">>})

(* A truncation after the helper read part of a relevant line.            *)
SplitScenarios == ScenariosOf({<<"o", "k", "trunc", "e">>})
====
