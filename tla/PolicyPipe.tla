----------------------------- MODULE PolicyPipe -----------------------------
(***************************************************************************)
(* The policy pipe of minijail_run_pid_pipes: the caller marshals its      *)
(* struct minijail (minijail_marshal_helper, src/libminijail.c 400-475) and *)
(* writes [size][body] with minijail_to_fd (1005-1033); the preload helper *)
(* in the jailed process reads it with minijail_from_fd (982-1003) and     *)
(* rebuilds it with minijail_unmarshal (502-612).                          *)
(*                                                                         *)
(* A byte stream is a sequence of cells: a character of a string, NUL, a   *)
(* cell of the flat struct ([rec |-> P], RecLen of them: memcpy copies the *)
(* flags, counts and pointer values), a cell of a BPF instruction, of the  *)
(* writeable int, or of the size_t header.  The pipe is a sequence of      *)
(* cells with room for PipeCap of them: a write copies what fits and       *)
(* sleeps, a read returns what is there as soon as something is; the pipe  *)
(* reports end of file only when no write end is open, and a write with no *)
(* read end open raises SIGPIPE, which ends the caller.  Sizes are         *)
(* constants: only their relations matter (PipeCap = UShrtMax + 1 as for   *)
(* Linux's 64 KiB pipe and USHRT_MAX).                                     *)
(***************************************************************************)
EXTENDS Integers, Sequences, SequencesExt

CONSTANTS
    Policies,       \* the struct minijail values a caller may send
    NUL,            \* the string terminator
    RecLen,         \* sizeof(struct minijail)
    InstrSize,      \* sizeof(struct sock_filter)
    IntSize,        \* sizeof(int)
    HdrLen,         \* sizeof(size_t)
    PipeCap,        \* the pipe's capacity
    UShrtMax,       \* USHRT_MAX
    ReaderMayFail   \* malloc, calloc and strdup may fail in the helper

VARIABLES
    P,          \* the caller's struct minijail
    spc,        \* where the caller is in minijail_to_fd
    sbuf,       \* the marshalled body
    sent,       \* how much of it the body's write has copied
    pipe,       \* the cells in the pipe
    writers,    \* processes holding the write end
    readers,    \* processes holding the read end
    rpc,        \* where the helper is in minijail_from_fd and unmarshal
    hsz,        \* the size the header announced
    body,       \* the bytes the body's read returned
    upos,       \* how much of body unmarshal has consumed
    j,          \* the helper's struct minijail
    ptr,        \* what each pointer of j holds: null, stale, own, freed
    nb,         \* bindings unmarshalled so far
    wildFree,   \* pointers free() was handed while stale or already freed
    rret,       \* what minijail_from_fd returned
    oom         \* an allocation of the helper has failed

vars == <<P, spc, sbuf, sent, pipe, writers, readers, rpc, hsz, body, upos,
          j, ptr, nb, wildFree, rret, oom>>
sender == <<spc, sbuf, sent>>
reader == <<rpc, hsz, body, upos, j, ptr, nb, wildFree, rret, oom>>

EINVAL == -22
E2BIG == -7
ENOMEM == -12

Strs == {"user", "chrootdir", "chdir"}
Ptrs == Strs \cup {"filter"}

-----------------------------------------------------------------------------
(* minijail_marshal_helper and marshal_append.                             *)

CStr(s) == s \o <<NUL>>
Cells(n, c) == [i \in 1 .. n |-> c]
Opt(s) == IF s # <<>> THEN <<CStr(s)>> ELSE <<>>

(* Mutant: chdir marshalled before chrootdir.                              *)
SectionsSwapped(p) ==
    <<Cells(RecLen, [rec |-> p])>>
    \o Opt(p.user) \o Opt(p.chdir) \o Opt(p.chrootdir)
    \o (IF "seccomp_filter" \in p.flags /\ p.filter # <<>>
        THEN <<FlattenSeq([i \in DOMAIN p.filter |->
                              Cells(InstrSize, [ins |-> p.filter[i]])])>>
        ELSE <<>>)
    \o FlattenSeq([i \in DOMAIN p.bindings |->
                     <<CStr(p.bindings[i].src), CStr(p.bindings[i].dest),
                       Cells(IntSize, [w |-> p.bindings[i].w])>>])

(* The bytes of each marshal_append call, in order.                        *)
Sections(p) ==
    <<Cells(RecLen, [rec |-> p])>>
    \o Opt(p.user) \o Opt(p.chrootdir) \o Opt(p.chdir)
    \o (IF "seccomp_filter" \in p.flags /\ p.filter # <<>>
        THEN <<FlattenSeq([i \in DOMAIN p.filter |->
                              Cells(InstrSize, [ins |-> p.filter[i]])])>>
        ELSE <<>>)
    \o FlattenSeq([i \in DOMAIN p.bindings |->
                     <<CStr(p.bindings[i].src), CStr(p.bindings[i].dest),
                       Cells(IntSize, [w |-> p.bindings[i].w])>>])

(* marshal_append: copies what fits in available, counts all of it.        *)
MarshalAppend(st, src) ==
    LET c == Min({st.available, Len(src)})
    IN  [available |-> st.available - c, total |-> st.total + Len(src),
         out |-> st.out \o SubSeq(src, 1, c)]

RECURSIVE AppendAll(_, _)
AppendAll(st, secs) ==
    IF secs = <<>> THEN st ELSE AppendAll(MarshalAppend(st, Head(secs)), Tail(secs))

MarshalHelper(p, available) ==
    AppendAll([available |-> available, total |-> 0, out |-> <<>>], Sections(p))

MinijailSize(p) == MarshalHelper(p, 0).total

(* minijail_marshal: the bytes written and whether they were truncated.    *)
MinijailMarshal(p, available) ==
    [rc |-> IF MarshalHelper(p, available).total > available THEN 1 ELSE 0,
     buf |-> MarshalHelper(p, available).out]

-----------------------------------------------------------------------------
(* consumebytes and consumestr over body from position upos.               *)

(* minijail_size and the marshal of every policy, computed once.           *)
SizeOf == [p \in Policies |-> MinijailSize(p)]
MarshalOf == [p \in Policies |-> MinijailMarshal(p, MinijailSize(p))]

(* consumebytes(n) from position from: the n cells, or a failure.         *)
ConsumeBytes(from, n) ==
    IF n > Len(body) - from THEN [ok |-> FALSE]
    ELSE [ok |-> TRUE, b |-> SubSeq(body, from + 1, from + n), n |-> n]

(* consumestr: strnlen up to the end of the buffer; no NUL there fails.    *)
ConsumeStr(from) ==
    LET r == SubSeq(body, from + 1, Len(body))
        nuls == {i \in 1 .. Len(r) : r[i] = NUL}
    IN  IF nuls = {} THEN [ok |-> FALSE]
        ELSE [ok |-> TRUE, b |-> SubSeq(r, 1, Min(nuls) - 1), n |-> Min(nuls)]

Free == PipeCap - Len(pipe)

TypeOK ==
    /\ P \in Policies
    /\ spc \in {"marshal", "header", "body", "close", "done", "died"}
    /\ sent \in 0 .. Len(sbuf) /\ Len(pipe) <= PipeCap
    /\ writers \subseteq {"caller", "child", "init"}
    /\ readers \subseteq {"helper", "init"}
    /\ rpc \in {"header", "body", "record", "user", "chrootdir", "chdir",
                "filter", "bindings", "done", "destroyed", "crashed"}
    /\ upos \in 0 .. Len(body)
    /\ ptr \in [Ptrs -> {"null", "stale", "own", "freed"}]
    /\ wildFree \subseteq Ptrs
    /\ rret \in {0, EINVAL, E2BIG, ENOMEM}

(***************************************************************************)
(* After fork both ends of the pipe are open in the caller and in the      *)
(* jailed process, which never closes either (setup_pipe 1052-1063, and    *)
(* the child's branch of minijail_run_pid_pipes); with a pid namespace     *)
(* init, the child that stays behind, holds them too.  The caller has      *)
(* closed its read end (1278).  The helper's j is minijail_new's.          *)
(***************************************************************************)
Init ==
    /\ P \in Policies
    /\ spc = "marshal" /\ sbuf = <<>> /\ sent = 0
    /\ pipe = <<>>
    /\ \E pids \in BOOLEAN :
          /\ writers = {"caller", "child"} \cup (IF pids THEN {"init"} ELSE {})
          /\ readers = {"helper"} \cup (IF pids THEN {"init"} ELSE {})
    /\ rpc = "header" /\ hsz = 0 /\ body = <<>> /\ upos = 0
    /\ j = [flags |-> {}, user |-> <<>>, chrootdir |-> <<>>, chdir |-> <<>>,
            filter |-> <<>>, flen |-> 0, count |-> 0, bindings |-> <<>>,
            meta |-> FALSE]
    /\ ptr = [f \in Ptrs |-> "null"]
    /\ nb = 0 /\ wildFree = {} /\ rret = 0 /\ oom = FALSE

-----------------------------------------------------------------------------
(* The caller: minijail_to_fd.                                             *)

(* The write of a process nobody reads from: SIGPIPE ends the caller.      *)
SigPipe ==
    /\ readers = {}
    /\ spc' = "died" /\ writers' = writers \ {"caller"}
    /\ UNCHANGED <<sbuf, sent, pipe>>

(* minijail_size, malloc(sz) and minijail_marshal into it (malloc is not *)
(* checked; its failure is not modelled).  sz is at least the record's     *)
(* size, and marshalling into minijail_size bytes never truncates, so the  *)
(* two error returns (and the caller's kill and die on them, 1281-1284)    *)
(* cannot happen and are left out.                                         *)
ToFdMarshal ==
    /\ spc = "marshal"
    /\ sbuf' = MarshalOf[P].buf
    /\ spc' = "header"
    /\ UNCHANGED <<P, sent, pipe, writers, readers, reader>>

(* write(fd, &sz, sizeof(sz)): small enough to go in at once.              *)
WriteHeader ==
    /\ spc = "header"
    /\ \/ SigPipe
       \/ /\ readers # {} /\ Free >= HdrLen
          /\ pipe' = pipe \o Cells(HdrLen, [hdr |-> SizeOf[P]])
          /\ spc' = "body"
          /\ UNCHANGED <<sbuf, sent, writers>>
    /\ UNCHANGED <<P, readers, reader>>

(* Mutant: the body written in record-sized pieces, one write() each.     *)
WriteBodyChunked ==
    /\ spc = "body"
    /\ \/ SigPipe
       \/ /\ readers # {} /\ Free > 0
          /\ LET n == Min({Free, RecLen, Len(sbuf) - sent})
             IN  /\ pipe' = pipe \o SubSeq(sbuf, sent + 1, sent + n)
                 /\ sent' = sent + n
                 /\ spc' = IF sent + n = Len(sbuf) THEN "close" ELSE "body"
          /\ UNCHANGED <<sbuf, writers>>
    /\ UNCHANGED <<P, readers, reader>>

(* Mutant: a write that ignores the pipe's capacity.                       *)
WriteBodyUnbounded ==
    /\ spc = "body"
    /\ \/ SigPipe
       \/ /\ readers # {}
          /\ pipe' = pipe \o SubSeq(sbuf, sent + 1, Len(sbuf))
          /\ sent' = Len(sbuf) /\ spc' = "close"
          /\ UNCHANGED <<sbuf, writers>>
    /\ UNCHANGED <<P, readers, reader>>

(* Mutant: SIGPIPE ignored and a write failing with EPIPE retried.        *)
WriteBodyRetrying ==
    /\ spc = "body"
    /\ \/ readers = {} /\ UNCHANGED <<spc, sbuf, sent, pipe, writers>>
       \/ /\ readers # {} /\ Free > 0
          /\ LET n == Min({Free, Len(sbuf) - sent})
             IN  /\ pipe' = pipe \o SubSeq(sbuf, sent + 1, sent + n)
                 /\ sent' = sent + n
                 /\ spc' = IF sent + n = Len(sbuf) THEN "close" ELSE "body"
          /\ UNCHANGED <<sbuf, writers>>
    /\ UNCHANGED <<P, readers, reader>>

(* write(fd, buf, sz): copies what fits and sleeps until the helper reads. *)
WriteBody ==
    /\ spc = "body"
    /\ \/ SigPipe
       \/ /\ readers # {} /\ Free > 0
          /\ LET n == Min({Free, Len(sbuf) - sent})
             IN  /\ pipe' = pipe \o SubSeq(sbuf, sent + 1, sent + n)
                 /\ sent' = sent + n
                 /\ spc' = IF sent + n = Len(sbuf) THEN "close" ELSE "body"
          /\ UNCHANGED <<sbuf, writers>>
    /\ UNCHANGED <<P, readers, reader>>

(* close(pipe_fds[1]) after minijail_to_fd returned 0.                    *)
CloseWrite ==
    /\ spc = "close"
    /\ writers' = writers \ {"caller"}
    /\ spc' = "done"
    /\ UNCHANGED <<P, sbuf, sent, pipe, readers, reader>>

Sender == ToFdMarshal \/ WriteHeader \/ WriteBody \/ CloseWrite

-----------------------------------------------------------------------------
(* The helper: minijail_from_fd.                                           *)

(* read(fd, buf, n): blocks while the pipe is empty and a write end is     *)
(* open; otherwise takes up to n cells (none at end of file).              *)
CanRead == pipe # <<>> \/ writers = {}
Take(n) == SubSeq(pipe, 1, Min({n, Len(pipe)}))

Return(r) == rpc' = "done" /\ rret' = r

(* Read the header; reject a size above USHRT_MAX; malloc(sz).             *)
ReadHeader ==
    /\ rpc = "header" /\ CanRead
    /\ pipe' = SubSeq(pipe, Len(Take(HdrLen)) + 1, Len(pipe))
    /\ LET got == Take(HdrLen)
       IN  CASE Len(got) # HdrLen -> Return(EINVAL) /\ UNCHANGED hsz
             [] got[1].hdr > UShrtMax -> Return(E2BIG) /\ hsz' = got[1].hdr
             [] OTHER -> /\ hsz' = got[1].hdr
                         /\ \/ rpc' = "body" /\ UNCHANGED rret
                            \/ ReaderMayFail /\ Return(ENOMEM)
    /\ oom' = (rret' = ENOMEM)
    /\ UNCHANGED <<P, sender, writers, readers, body, upos, j, ptr, nb,
                   wildFree>>

(* One read(fd, buf, sz) of the body: fewer bytes than sz is an error.    *)
ReadBody ==
    /\ rpc = "body" /\ CanRead
    /\ body' = Take(hsz)
    /\ pipe' = SubSeq(pipe, Len(Take(hsz)) + 1, Len(pipe))
    /\ IF Len(Take(hsz)) # hsz THEN Return(EINVAL)
       ELSE rpc' = "record" /\ UNCHANGED rret
    /\ UNCHANGED <<P, sender, writers, readers, hsz, upos, j, ptr, nb,
                   wildFree, oom>>

-----------------------------------------------------------------------------
(* minijail_unmarshal.                                                     *)

(* The labels of its error path, in the order control falls through them, *)
(* and the pointer each one frees if it is set.                            *)
Labels == <<"bad_bindings", "bad_filters", "bad_chdir", "bad_chrootdir",
            "clear_pointers">>
FreedAt == [bad_bindings |-> "filter", bad_filters |-> "chrootdir",
            bad_chdir |-> "chdir", bad_chrootdir |-> "user"]

(* A pointer free() must not be handed: the caller's, or one already freed. *)
Unowned(p, f) == p[f] \in {"stale", "freed"}

(* goto label: free what the labels from there on free, clear the three   *)
(* strings, return -EINVAL.                                                *)
GotoError(label, p) ==
    LET from == CHOOSE i \in DOMAIN Labels : Labels[i] = label
        freed == {FreedAt[Labels[i]] : i \in {k \in from .. 4 :
                                                 p[FreedAt[Labels[k]]] # "null"}}
    IN  /\ wildFree' = wildFree \cup {f \in freed : Unowned(p, f)}
        /\ ptr' = [f \in Ptrs |-> IF f \in Strs THEN "null"
                                  ELSE IF f \in freed THEN "freed" ELSE p[f]]
        /\ j' = [j EXCEPT !.user = <<>>, !.chrootdir = <<>>, !.chdir = <<>>]
        /\ Return(EINVAL)

(* memcpy the flat struct; its list and filter pointers are cleared, its  *)
(* string pointers are the caller's: stale, used only as flags.            *)
UnmarshalRecord ==
    /\ rpc = "record"
    /\ IF Len(body) < RecLen THEN Return(EINVAL) /\ UNCHANGED <<j, ptr, upos>>
       ELSE LET p == body[1].rec
            IN  /\ j' = [flags |-> p.flags, user |-> <<>>, chrootdir |-> <<>>,
                         chdir |-> <<>>, filter |-> <<>>, flen |-> Len(p.filter),
                         count |-> Len(p.bindings), bindings |-> <<>>,
                         meta |-> p.meta]
                /\ ptr' = [f \in Ptrs |->
                             IF f \in Strs /\ p[f] # <<>> THEN "stale" ELSE "null"]
                /\ upos' = RecLen
                /\ rpc' = "user"
                /\ UNCHANGED rret
    /\ UNCHANGED <<P, sender, pipe, writers, readers, hsz, body, nb, wildFree,
                   oom>>

(* Mutant: a failed strdup leaves the stale pointer in place.             *)
UnmarshalStrKeepStale(f, next, label) ==
    /\ rpc = f
    /\ LET c == ConsumeStr(upos)
       IN  CASE ptr[f] = "null" ->
                  rpc' = next /\ UNCHANGED <<j, ptr, upos, wildFree, rret, oom>>
             [] ~c.ok -> GotoError(label, ptr) /\ UNCHANGED <<upos, oom>>
             [] OTHER ->
                  \/ /\ j' = [j EXCEPT ![f] = c.b]
                     /\ ptr' = [ptr EXCEPT ![f] = "own"]
                     /\ upos' = upos + c.n
                     /\ rpc' = next
                     /\ UNCHANGED <<wildFree, rret, oom>>
                  \/ /\ ReaderMayFail /\ oom' = TRUE
                     /\ GotoError(label, ptr)
                     /\ UNCHANGED upos
    /\ UNCHANGED <<P, sender, pipe, writers, readers, hsz, body, nb>>

(* A string section: consumestr and strdup when the stale pointer is set. *)
UnmarshalStr(f, next, label) ==
    /\ rpc = f
    /\ LET c == ConsumeStr(upos)
       IN  CASE ptr[f] = "null" ->
                  rpc' = next /\ UNCHANGED <<j, ptr, upos, wildFree, rret, oom>>
             [] ~c.ok -> GotoError(label, ptr) /\ UNCHANGED <<upos, oom>>
             [] OTHER ->
                  \/ /\ j' = [j EXCEPT ![f] = c.b]
                     /\ ptr' = [ptr EXCEPT ![f] = "own"]
                     /\ upos' = upos + c.n
                     /\ rpc' = next
                     /\ UNCHANGED <<wildFree, rret, oom>>
                  \/ /\ ReaderMayFail /\ oom' = TRUE
                     /\ GotoError(label, [ptr EXCEPT ![f] = "null"])
                     /\ UNCHANGED upos
    /\ UNCHANGED <<P, sender, pipe, writers, readers, hsz, body, nb>>

(***************************************************************************)
(* The filter, when seccomp_filter is set and filter_len > 0: the count    *)
(* is checked, the instructions consumed and copied into a sock_fprog (the *)
(* two mallocs are not checked: a NULL one faults).  Then meta_file is     *)
(* cleared and binding_count reset to be counted again.                    *)
(***************************************************************************)
UnmarshalFilter ==
    /\ rpc = "filter"
    /\ LET c == ConsumeBytes(upos, j.flen * InstrSize)
           go == /\ j' = [j EXCEPT !.meta = FALSE, !.count = j.count]
                 /\ rpc' = "bindings" /\ nb' = 0
       IN  CASE "seccomp_filter" \notin j.flags \/ j.flen = 0 ->
                  go /\ UNCHANGED <<ptr, upos, wildFree, rret, oom>>
             [] j.flen > UShrtMax \/ ~c.ok ->
                  GotoError("bad_filters", ptr) /\ UNCHANGED <<upos, nb, oom>>
             [] OTHER ->
                  \/ /\ j' = [j EXCEPT !.meta = FALSE,
                                 !.filter = [i \in 1 .. j.flen |->
                                               c.b[(i - 1) * InstrSize + 1].ins]]
                     /\ ptr' = [ptr EXCEPT !.filter = "own"]
                     /\ upos' = upos + c.n
                     /\ rpc' = "bindings" /\ nb' = 0
                     /\ UNCHANGED <<wildFree, rret, oom>>
                  \/ /\ ReaderMayFail /\ oom' = TRUE
                     /\ rpc' = "crashed"
                     /\ UNCHANGED <<j, ptr, upos, nb, wildFree, rret>>
    /\ UNCHANGED <<P, sender, pipe, writers, readers, hsz, body>>

(* minijail_bind's success: vfs namespacing forced on, the binding        *)
(* appended to the list.                                                   *)
MinijailBind(jj, src, dest, w) ==
    [jj EXCEPT !.flags = @ \cup {"vfs"},
               !.bindings = Append(@, [src |-> src, dest |-> dest, w |-> w])]

(***************************************************************************)
(* One binding: consumestr src and dest, consumebytes the writeable int,   *)
(* then minijail_bind (340-379): a dest not starting with '/' is refused;  *)
(* calloc or strdup may fail; a binding is appended and vfs forced on.     *)
(***************************************************************************)
UnmarshalBinding ==
    /\ rpc = "bindings" /\ nb < j.count
    /\ LET src == ConsumeStr(upos)
           dest == ConsumeStr(upos + src.n)
           w == ConsumeBytes(upos + src.n + dest.n, IntSize)
           fail == GotoError("bad_bindings", ptr) /\ UNCHANGED <<upos, nb>>
       IN  CASE ~src.ok \/ ~dest.ok \/ ~w.ok -> fail /\ UNCHANGED oom
             [] dest.b = <<>> \/ dest.b[1] # "/" -> fail /\ UNCHANGED oom
             [] OTHER ->
                  \/ /\ j' = MinijailBind(j, src.b, dest.b, w.b[1].w)
                     /\ upos' = upos + src.n + dest.n + IntSize
                     /\ nb' = nb + 1
                     /\ UNCHANGED <<ptr, wildFree, rpc, rret, oom>>
                  \/ ReaderMayFail /\ oom' = TRUE /\ fail
    /\ UNCHANGED <<P, sender, pipe, writers, readers, hsz, body>>

(* Every binding is back: minijail_unmarshal, then minijail_from_fd,      *)
(* return 0.                                                               *)
UnmarshalDone ==
    /\ rpc = "bindings" /\ nb = j.count
    /\ Return(0)
    /\ UNCHANGED <<P, sender, pipe, writers, readers, hsz, body, upos, j, ptr,
                   nb, wildFree, oom>>

Reader ==
    \/ ReadHeader \/ ReadBody \/ UnmarshalRecord
    \/ UnmarshalStr("user", "chrootdir", "clear_pointers")
    \/ UnmarshalStr("chrootdir", "chdir", "bad_chrootdir")
    \/ UnmarshalStr("chdir", "filter", "bad_chdir")
    \/ UnmarshalFilter \/ UnmarshalBinding \/ UnmarshalDone

-----------------------------------------------------------------------------
(* minijail_destroy (1500-1521).                                           *)

(* Mutant: a destroy that forgets the chdir string.                        *)
DestroyFreesNoChdir(p, jj) ==
    {f \in {"user", "chrootdir"} : p[f] # "null"}
    \cup (IF "seccomp_filter" \in jj.flags /\ p.filter # "null"
          THEN {"filter"} ELSE {})

(* The pointers minijail_destroy hands to free(): the filter program only  *)
(* while seccomp_filter is set, each string that is set; every binding and *)
(* the struct itself are freed as well.                                    *)
DestroyFrees(p, jj) ==
    {f \in Strs : p[f] # "null"}
    \cup (IF "seccomp_filter" \in jj.flags /\ p.filter # "null"
          THEN {"filter"} ELSE {})

(***************************************************************************)
(* The preload helper with the policy: minijail_preenter and minijail_enter *)
(* (JailEntry; neither allocates nor frees a pointer of j), then           *)
(* minijail_destroy(j) before it calls the target's main.                  *)
(***************************************************************************)
HelperDestroys ==
    /\ "helper" \in readers /\ rpc = "done" /\ rret = 0
    /\ LET freed == DestroyFrees(ptr, j)
       IN  /\ wildFree' = wildFree \cup {f \in freed : Unowned(ptr, f)}
           /\ ptr' = [f \in Ptrs |-> IF f \in freed THEN "freed" ELSE ptr[f]]
    /\ j' = [j EXCEPT !.bindings = <<>>]
    /\ rpc' = "destroyed"
    /\ UNCHANGED <<P, sender, pipe, writers, readers, hsz, body, upos, nb, rret,
                   oom>>

-----------------------------------------------------------------------------
(* The ends of the jailed processes, which close their pipe ends.          *)

(* The preload helper dies when minijail_from_fd fails (spec 7: after fork *)
(* any failure aborts the child).                                          *)
HelperDies ==
    /\ "helper" \in readers
    /\ \/ rpc = "crashed"
       \/ rpc = "done" /\ rret # 0
    /\ readers' = readers \ {"helper"} /\ writers' = writers \ {"child"}
    /\ UNCHANGED <<P, sender, pipe, reader>>

(* With the policy, the target runs; it may end, or run on.                *)
TargetExits ==
    /\ "helper" \in readers /\ rpc = "destroyed"
    /\ readers' = readers \ {"helper"} /\ writers' = writers \ {"child"}
    /\ UNCHANGED <<P, sender, pipe, reader>>

(* init (908-980): wait3 fails once no child is left, and init exits.      *)
InitExits ==
    /\ "init" \in readers /\ "helper" \notin readers
    /\ readers' = readers \ {"init"} /\ writers' = writers \ {"init"}
    /\ UNCHANGED <<P, sender, pipe, reader>>

(* Every process is done.                                                  *)
Finished ==
    /\ spc \in {"done", "died"} /\ readers = {}
    /\ UNCHANGED vars

Next == Sender \/ Reader \/ HelperDestroys \/ HelperDies \/ TargetExits
        \/ InitExits \/ Finished

(* The processes are scheduled by the kernel; the target may run forever. *)
Spec == /\ Init /\ [][Next]_vars
        /\ WF_vars(Sender) /\ WF_vars(Reader)
        /\ WF_vars(HelperDestroys) /\ WF_vars(HelperDies)
        /\ WF_vars(InitExits)

-----------------------------------------------------------------------------
(* Properties.                                                             *)

(* The policy the helper holds, and the one spec 4.1 and 8 say it must    *)
(* rebuild: the caller's, with vfs forced by the bindings, the filter      *)
(* only when seccomp_filter asks for it, and no meta_file stream.          *)
Received == [flags |-> j.flags, user |-> j.user, chrootdir |-> j.chrootdir,
             chdir |-> j.chdir, filter |-> j.filter, bindings |-> j.bindings,
             meta |-> j.meta]

Expected(p) ==
    [flags |-> p.flags \cup (IF p.bindings # <<>> THEN {"vfs"} ELSE {}),
     user |-> p.user, chrootdir |-> p.chrootdir, chdir |-> p.chdir,
     filter |-> IF "seccomp_filter" \in p.flags THEN p.filter ELSE <<>>,
     bindings |-> p.bindings, meta |-> FALSE]

(***************************************************************************)
(* ReceivesSentPolicy (spec 8, round trip; 4.1, fresh copies): when        *)
(* minijail_from_fd returns 0 in the helper, its struct minijail is the    *)
(* caller's, field for field and binding for binding in order, and every   *)
(* string and the filter are its own copies, no stale pointer left, after  *)
(* minijail_to_fd, the pipe and minijail_unmarshal.                        *)
(***************************************************************************)
ReceivesSentPolicy ==
    rpc = "done" /\ rret = 0 =>
        /\ Received = Expected(P)
        /\ \A f \in Ptrs : ptr[f] # "stale"

(***************************************************************************)
(* HelperFreesExactlyOwned: the helper never hands free() one of the       *)
(* caller's pointer values that memcpy brought in, nor one it freed        *)
(* already, neither on minijail_unmarshal's error path (bad_bindings down  *)
(* to clear_pointers) nor in minijail_destroy, whatever the helper reads   *)
(* and whatever allocation fails; and once minijail_destroy has run, no    *)
(* copy that minijail_unmarshal allocated is left live.                    *)
(***************************************************************************)
HelperFreesExactlyOwned ==
    /\ wildFree = {}
    /\ rpc = "destroyed" => \A f \in Ptrs : ptr[f] # "own"

(***************************************************************************)
(* DeliveredIfSent (spec 5: the child reliably observes the marshalled     *)
(* policy): once minijail_to_fd has written the whole policy and the       *)
(* caller closed its end, the helper's minijail_from_fd returns it, unless *)
(* an allocation of the helper fails.                                      *)
(***************************************************************************)
DeliveredIfSent ==
    spc = "done" ~> /\ rpc \in {"done", "destroyed", "crashed"}
                    /\ rret = 0 \/ oom

(***************************************************************************)
(* CallerLeavesToFd: minijail_to_fd never leaves the caller blocked in its *)
(* write.  It returns once the body is in the pipe, or SIGPIPE ends the    *)
(* caller once no read end is left: a body the helper refuses (above       *)
(* USHRT_MAX) or fails to read is followed by the helper's death and, in   *)
(* a pid namespace, init's exit.                                           *)
(***************************************************************************)
CallerLeavesToFd == <>(spc \in {"done", "died"})

====
