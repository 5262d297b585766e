---------------------------- MODULE PathResolver ----------------------------
(***************************************************************************)
(* minijail_get_path and concat_path (src/libminijail.c 1523-1633): the   *)
(* host path of the program minijail0 is about to run, computed in the    *)
(* caller's fixed buffer from the jail's chdir, chroot and bindings, with *)
(* symlinks followed by recursion.                                         *)
(*                                                                         *)
(* The buffer is a C char array of BufLen cells indexed from 0: its       *)
(* characters, NUL, or Garbage for a byte nothing has written.  Paths are *)
(* sequences of characters.  The host file system is a function from      *)
(* normalized host paths to what lstat finds there.  Each recursion level *)
(* is one round of the steps; MaxDepth frames exhaust the stack.           *)
(***************************************************************************)
EXTENDS Integers, Sequences, SequencesExt

CONSTANTS
    BufLen,     \* sizeof(filepath) in minijail0's main
    MaxDepth,   \* recursion depth at which the stack is exhausted
    Cases,      \* inputs: jail (chdir, chroot, bindings), cwd, path, fs
    NUL,        \* the terminating byte
    Garbage     \* an unwritten byte of the caller's stack array

VARIABLES
    cs,     \* the input of this call; never changes
    buf,    \* the caller's buffer
    arg,    \* the path argument of the current recursion level
    depth,  \* recursion depth
    best,   \* index of the best binding, 0 for none
    gpc,    \* "anchor", "concat", "match", "rewrite", "stat", "done",
            \* "overflow"
    rc      \* the return value once done

vars == <<cs, buf, arg, depth, best, gpc, rc>>

Idx == 0 .. BufLen - 1
Slash == <<"/">>

(* strlen: the index of the first NUL; BufLen when there is none.          *)
StrLen(b) ==
    IF \E i \in Idx : b[i] = NUL
    THEN CHOOSE i \in Idx : b[i] = NUL /\ \A k \in 0 .. i - 1 : b[k] # NUL
    ELSE BufLen
Str(b) == [i \in 1 .. StrLen(b) |-> b[i - 1]]

(* A copy that stops at the end of s, as strcpy would.                    *)
StrnCpyNoPad(b, off, s, n) ==
    [i \in Idx |-> IF i >= off /\ i < off + n /\ i - off <= Len(s)
                   THEN IF i - off < Len(s) THEN s[i - off + 1] ELSE NUL
                   ELSE b[i]]

(* strncpy(b + off, s, n): copies s, then pads with NUL up to n bytes.     *)
StrnCpy(b, off, s, n) ==
    [i \in Idx |-> IF i >= off /\ i < off + n
                   THEN IF i - off < Len(s) THEN s[i - off + 1] ELSE NUL
                   ELSE b[i]]

(* snprintf(b + off, n, "%s", s): at most n - 1 characters, then NUL.     *)
SnPrintf(b, off, n, s) ==
    LET k == IF n - 1 < Len(s) THEN n - 1 ELSE Len(s)
    IN  [i \in Idx |-> IF i >= off /\ i < off + k THEN s[i - off + 1]
                       ELSE IF i = off + k THEN NUL ELSE b[i]]

(* concat_path: appends path to the string in b within blen bytes,        *)
(* joining with exactly one '/' in the three cases of the code.            *)
ConcatPath(b, blen, path) ==
    LET len == StrLen(b)
        pl == Len(path)
        fail == [rc |-> -1, buf |-> b]
    IN  CASE len > 0 /\ b[len - 1] # "/" /\ path[1] # "/" ->
               IF len + pl + 1 >= blen THEN fail
               ELSE [rc |-> 0, buf |-> SnPrintf(b, len, blen - len - 1,
                                                Slash \o path)]
          [] len > 0 /\ b[len - 1] = "/" /\ path[1] = "/" ->
               IF len + pl >= blen THEN fail
               ELSE [rc |-> 0, buf |-> StrnCpy(b, len, Tail(path), blen - len)]
          [] OTHER ->
               IF len + pl >= blen THEN fail
               ELSE [rc |-> 0, buf |-> StrnCpy(b, len, path, blen - len)]

(* getcwd(b, BufLen): the cwd and its NUL, nothing after them.             *)
GetCwd(b, cwd) ==
    [i \in Idx |-> IF i < Len(cwd) THEN cwd[i + 1]
                   ELSE IF i = Len(cwd) THEN NUL ELSE b[i]]

(* The first binding whose dest is a prefix of s.                         *)
BestBindingFirst(bs, s) ==
    LET match == {i \in 1 .. Len(bs) : IsPrefix(bs[i].dest, s)}
    IN  IF match = {} THEN 0 ELSE CHOOSE i \in match : \A k \in match : i <= k

(* The binding with the longest dest that is a textual prefix of s (the  *)
(* first of equally long ones), or 0.                                      *)
BestBinding(bs, s) ==
    LET match == {i \in 1 .. Len(bs) : IsPrefix(bs[i].dest, s)}
    IN  IF match = {} THEN 0
        ELSE CHOOSE i \in match :
                 \A k \in match : \/ Len(bs[k].dest) < Len(bs[i].dest)
                                  \/ Len(bs[k].dest) = Len(bs[i].dest) /\ i <= k

(* Collapse runs of '/', as the kernel's lookup does.                      *)
RECURSIVE Dedup(_)
Dedup(s) ==
    IF Len(s) < 2 THEN s
    ELSE IF s[1] = "/" /\ s[2] = "/" THEN Dedup(Tail(s))
    ELSE <<s[1]>> \o Dedup(Tail(s))

(* lstat: "reg", "dir", "lnk" or "none".  A trailing '/' asks for a       *)
(* directory; a byte nothing wrote, or no NUL at all, names no file.      *)
Lstat(fs, s, terminated) ==
    LET n == Dedup(s)
        trail == Len(n) > 1 /\ Last(n) = "/"
        key == IF trail THEN Front(n) ELSE n
        kind == IF key \in DOMAIN fs THEN fs[key].kind ELSE "none"
    IN  CASE ~terminated \/ \E i \in 1 .. Len(s) : s[i] = Garbage -> "none"
          [] trail /\ kind # "dir" -> "none"
          [] OTHER -> kind

(* Trim one trailing '/' from a binding's src or the chroot directory.     *)
TrimSlash(s) == IF Last(s) = "/" THEN Front(s) ELSE s

(* The directory a relative path is anchored on, as a jail sees it.       *)
HasChdir(c) == c.chdir # <<>>
HasChroot(c) == c.chroot # <<>>

TypeOK ==
    /\ buf \in [Idx -> STRING \cup {NUL, Garbage}]
    /\ depth \in 0 .. MaxDepth
    /\ best \in 0 .. Len(cs.bindings)
    /\ gpc \in {"anchor", "concat", "match", "rewrite", "stat", "done",
                "overflow"}
    /\ rc \in {0, 1}

(* main: filepath is an uninitialized array on minijail0's stack.         *)
Init ==
    /\ cs \in Cases
    /\ buf \in [Idx -> {NUL, Garbage}]
    /\ arg = cs.path
    /\ depth = 0
    /\ best = 0
    /\ gpc = "anchor"
    /\ rc = 0

Fail == gpc' = "done" /\ rc' = 1

(* buffer[0] = '\0'; a relative path is anchored on the chdir, on "/"    *)
(* under a chroot, or on the caller's cwd.                                 *)
Anchor ==
    /\ gpc = "anchor"
    /\ LET b0 == [buf EXCEPT ![0] = NUL]
           cat(s) == ConcatPath(b0, BufLen, s)
       IN  CASE arg[1] = "/" ->
                  buf' = b0 /\ gpc' = "concat" /\ UNCHANGED rc
             [] HasChdir(cs) \/ HasChroot(cs) ->
                  LET r == cat(IF HasChdir(cs) THEN cs.chdir ELSE Slash)
                  IN  IF r.rc # 0 THEN buf' = b0 /\ Fail
                      ELSE buf' = r.buf /\ gpc' = "concat" /\ UNCHANGED rc
             [] OTHER ->
                  IF Len(cs.cwd) + 1 > BufLen THEN buf' = b0 /\ Fail
                  ELSE buf' = GetCwd(b0, cs.cwd) /\ gpc' = "concat"
                       /\ UNCHANGED rc
    /\ UNCHANGED <<cs, arg, depth, best>>

(* Returning concat_path's own result instead of 1.                       *)
ConcatPropagatesRc ==
    /\ gpc = "concat"
    /\ LET r == ConcatPath(buf, BufLen - StrLen(buf), arg)
       IN  /\ buf' = r.buf
           /\ IF r.rc # 0 THEN gpc' = "done" /\ rc' = r.rc
              ELSE gpc' = "match" /\ UNCHANGED rc
    /\ UNCHANGED <<cs, arg, depth, best>>

(* concat_path(buffer, buffer_len - len, path): the length of the anchor *)
(* is subtracted here and again inside concat_path.                        *)
Concat ==
    /\ gpc = "concat"
    /\ LET r == ConcatPath(buf, BufLen - StrLen(buf), arg)
       IN  /\ buf' = r.buf
           /\ IF r.rc # 0 THEN Fail ELSE gpc' = "match" /\ UNCHANGED rc
    /\ UNCHANGED <<cs, arg, depth, best>>

Match ==
    /\ gpc = "match"
    /\ best' = BestBinding(cs.bindings, Str(buf))
    /\ gpc' = "rewrite"
    /\ UNCHANGED <<cs, buf, arg, depth, rc>>

(* Replace the matched prefix by the trimmed src and a '/': memmove of   *)
(* the tail without its terminator, strncpy of src, then the '/'.         *)
Rewrite ==
    /\ gpc = "rewrite"
    /\ LET len == StrLen(buf)
           src == IF best # 0 THEN cs.bindings[best].src
                  ELSE IF HasChroot(cs) THEN cs.chroot ELSE Slash
           bl == IF best # 0 THEN Len(cs.bindings[best].dest) ELSE 1
           sl == Len(TrimSlash(src))
       IN  IF len - bl + sl + 2 >= BufLen THEN Fail /\ UNCHANGED buf
           ELSE /\ buf' = [i \in Idx |->
                             CASE i < sl -> src[i + 1]
                               [] i = sl -> "/"
                               [] i <= sl + len - bl -> buf[i - sl - 1 + bl]
                               [] OTHER -> buf[i]]
                /\ gpc' = "stat"
                /\ UNCHANGED rc
    /\ UNCHANGED <<cs, arg, depth, best>>

(* lstat: a regular file succeeds, a symlink recurses on its target (the *)
(* buffer keeps its bytes), anything else fails.                           *)
Stat ==
    /\ gpc = "stat"
    /\ LET s == Str(buf)
           n == Dedup(s)
           kind == Lstat(cs.fs, s, StrLen(buf) < BufLen)
       IN  CASE kind = "reg" ->
                  gpc' = "done" /\ rc' = 0 /\ UNCHANGED <<arg, depth>>
             [] kind = "lnk" /\ depth = MaxDepth ->
                  gpc' = "overflow" /\ UNCHANGED <<arg, depth, rc>>
             [] kind = "lnk" ->
                  /\ arg' = cs.fs[n].target
                  /\ depth' = depth + 1
                  /\ gpc' = "anchor"
                  /\ UNCHANGED rc
             [] OTHER -> Fail /\ UNCHANGED <<arg, depth>>
    /\ UNCHANGED <<cs, buf, best>>

(* main: "Invalid path" and exit on failure; otherwise the path is used. *)
Returned == gpc \in {"done", "overflow"} /\ UNCHANGED vars

Next == Anchor \/ Concat \/ Match \/ Rewrite \/ Stat \/ Returned

Spec == Init /\ [][Next]_vars

-----------------------------------------------------------------------------
(* The resolver of spec 4.9, independent of any buffer: anchor a relative *)
(* path, normalize by concatenation with '/' deduplication, replace the   *)
(* longest matching dest (or the chroot, or "/") by its trimmed src, then *)
(* lstat; a symlink recurses on its target, at most MaxDepth times.       *)
Failed == [ok |-> FALSE, path |-> <<>>]

(* The bindings whose dest is the longest prefix of norm.                *)
RefBindings(c, norm) ==
    LET match == {b \in ToSet(c.bindings) : IsPrefix(b.dest, norm)}
    IN  {b \in match : \A o \in match : Len(o.dest) <= Len(b.dest)}

RefHost(c, p) ==
    LET anchor == IF p[1] = "/" THEN <<>>
                  ELSE IF HasChdir(c) THEN c.chdir
                  ELSE IF HasChroot(c) THEN Slash ELSE c.cwd
        norm == Dedup(anchor \o Slash \o p)
        bs == RefBindings(c, norm)
        bd == CHOOSE b \in bs : TRUE
        src == IF bs # {} THEN bd.src
               ELSE IF HasChroot(c) THEN c.chroot ELSE Slash
        rest == IF bs # {} THEN SubSeq(norm, Len(bd.dest) + 1, Len(norm))
                ELSE norm
        host == Dedup(TrimSlash(src) \o rest)
    IN  IF host = <<>> THEN Slash ELSE host

RECURSIVE RefResolve(_, _, _)
RefResolve(c, p, d) ==
    LET h == RefHost(c, p)
        kind == Lstat(c.fs, h, TRUE)
    IN  CASE kind = "reg" -> [ok |-> TRUE, path |-> h]
          [] kind = "lnk" /\ d < MaxDepth -> RefResolve(c, c.fs[h].target, d + 1)
          [] OTHER -> Failed

(* What minijail0 ends up with: the path it goes on to exec, or failure;  *)
(* a stack overflow is neither.                                            *)
Outcome ==
    CASE gpc = "overflow" -> [ok |-> FALSE, path |-> <<"overflow">>]
      [] rc = 0 -> [ok |-> TRUE, path |-> Dedup(Str(buf))]
      [] OTHER -> Failed

(* ResolvesLikeSpec: whenever minijail_get_path returns (or the stack    *)
(* runs out), its verdict and the host path left in filepath are those of *)
(* the spec's resolver: the buffer arithmetic of concat_path and the      *)
(* in-place memmove rewrite change no answer.                              *)
ResolvesLikeSpec ==
    gpc \in {"done", "overflow"} => Outcome = RefResolve(cs, cs.path, 0)

(* LstatSeesWrittenPath: the string lstat and readlink are given is      *)
(* terminated inside filepath and made only of bytes minijail_get_path    *)
(* wrote: the memmove of the rewrite never exposes the uninitialized rest *)
(* of minijail0's stack array.                                             *)
LstatSeesWrittenPath ==
    gpc = "stat" =>
        /\ StrLen(buf) < BufLen
        /\ \A i \in 0 .. StrLen(buf) - 1 : buf[i] # Garbage

====
