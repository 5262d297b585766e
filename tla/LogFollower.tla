----------------------------- MODULE LogFollower -----------------------------
(***************************************************************************)
(* minijail_syscall_helper (src/minijail_syscall_helper.c): a follower    *)
(* of /var/log/syslog that reports the first kernel audit line or         *)
(* minijail's "normal exit" line appended after it started, racing the    *)
(* syslog writer, which appends lines, truncates the file in place or     *)
(* rotates it (renames it and creates a new one).                          *)
(*                                                                         *)
(* The file system is a function from inodes to byte sequences; path is   *)
(* the inode /var/log/syslog names.  A line is its content byte ("o" an   *)
(* unrelated line, "k" a kernel audit line with syscall=, "e" minijail's  *)
(* normal exit) and "nl".  The inotify queue is one flag: the code reads  *)
(* every queued event at once and looks at none of them.                   *)
(***************************************************************************)
EXTENDS Integers, Sequences, SequencesExt

CONSTANTS
    Scenarios,  \* [init: the file's lines at start, script: writer's ops]
    ChunkLen,   \* sizeof(read_buf)
    MayFail     \* whether a system call of the follower may fail

VARIABLES
    sc,         \* the scenario; never changes
    files,      \* inode -> contents
    path,       \* the inode /var/log/syslog names
    wi,         \* the writer's position in its script
    fpc,        \* where the follower is
    fd,         \* read_fd's inode
    off,        \* read_fd's file offset
    readLen,    \* read_len
    wd,         \* the inode notify_wd watches, 0 for none
    pending,    \* an event is queued on notify_fd
    rbuf,       \* read_buf[0 .. read_bytes - 1]
    rpos,       \* read_pos
    line,       \* buf: the line readline is assembling
    reported,   \* "none", "audit", "exit" or "fail"
    started,    \* the follower has positioned itself at the end
    log         \* lines appended since then: kind, inode, offset, and
                \* whether a truncation destroyed them unread

vars == <<sc, files, path, wi, fpc, fd, off, readLen, wd, pending, rbuf,
          rpos, line, reported, started, log>>
writer == <<files, path, wi>>
follower == <<fd, off, readLen, wd, pending, rbuf, rpos, line, reported>>

Kinds == {"o", "k", "e"}
Lines(ks) == FlattenSeq([i \in 1 .. Len(ks) |-> <<ks[i], "nl">>])
Inodes == 1 .. 1 + Len(SelectSeq(sc.script, LAMBDA op : op = "rotate"))

(* The event a change of inode i queues: IN_MODIFY, IN_MOVE_SELF.          *)
Notify(i) == pending' = (pending \/ wd = i)

TypeOK ==
    /\ files \in [Inodes -> Seq(Kinds \cup {"nl"})]
    /\ path \in Inodes /\ fd \in Inodes \cup {0} /\ wd \in Inodes \cup {0}
    /\ off \in Nat /\ readLen \in Nat /\ rpos \in 0 .. Len(rbuf)
    /\ fpc \in {"open", "seek", "watch", "line", "notify", "fstat",
                "rmwatch", "reopen", "addwatch", "done"}
    /\ reported \in {"none", "audit", "exit", "fail"}
    /\ reported \in {"audit", "exit"} <=> fpc = "done" /\ reported # "fail"

Init ==
    /\ sc \in Scenarios
    /\ files = [i \in Inodes |-> IF i = 1 THEN Lines(sc.init) ELSE <<>>]
    /\ path = 1
    /\ wi = 1
    /\ fpc = "open"
    /\ fd = 0 /\ off = 0 /\ readLen = 0 /\ wd = 0
    /\ pending = FALSE
    /\ rbuf = <<>> /\ rpos = 0 /\ line = <<>>
    /\ reported = "none"
    /\ started = FALSE
    /\ log = <<>>

-----------------------------------------------------------------------------
(* The syslog writer.                                                      *)

AppendLine(k) ==
    /\ wi <= Len(sc.script) /\ sc.script[wi] = k
    /\ files' = [files EXCEPT ![path] = @ \o <<k, "nl">>]
    /\ Notify(path)
    /\ log' = IF started
              THEN Append(log, [k |-> k, ino |-> path, pos |-> Len(files[path]),
                                lost |-> FALSE])
              ELSE log
    /\ wi' = wi + 1
    /\ UNCHANGED <<sc, path, fpc, fd, off, readLen, wd, rbuf, rpos, line,
                   reported, started>>

(* A line the follower has read the first byte of.                        *)
Seen(e) == fd = e.ino /\ off > e.pos

Truncate ==
    /\ wi <= Len(sc.script) /\ sc.script[wi] = "trunc"
    /\ files' = [files EXCEPT ![path] = <<>>]
    /\ Notify(path)
    /\ log' = [i \in DOMAIN log |->
                 IF log[i].ino = path /\ ~Seen(log[i])
                 THEN [log[i] EXCEPT !.lost = TRUE] ELSE log[i]]
    /\ wi' = wi + 1
    /\ UNCHANGED <<sc, path, fpc, fd, off, readLen, wd, rbuf, rpos, line,
                   reported, started>>

Rotate ==
    /\ wi <= Len(sc.script) /\ sc.script[wi] = "rotate"
    /\ path' = path + 1
    /\ Notify(path)
    /\ wi' = wi + 1
    /\ UNCHANGED <<sc, files, fpc, fd, off, readLen, wd, rbuf, rpos, line,
                   reported, started, log>>

Writer == (\E k \in Kinds : AppendLine(k)) \/ Truncate \/ Rotate

-----------------------------------------------------------------------------
(* The follower.  Each action is one system call and what the code does   *)
(* with its result before the next one.                                    *)

Goto(pc) == fpc' = pc

(* init: open(path).                                                       *)
Open ==
    /\ fpc = "open"
    /\ fd' = path /\ off' = 0
    /\ Goto("seek")
    /\ UNCHANGED <<sc, writer, readLen, wd, pending, rbuf, rpos, line,
                   reported, started, log>>

(* lseek to the start of the file instead of its end.                     *)
SeekStart ==
    /\ fpc = "seek"
    /\ readLen' = 0 /\ off' = 0
    /\ started' = TRUE
    /\ Goto("watch")
    /\ UNCHANGED <<sc, writer, fd, wd, pending, rbuf, rpos, line, reported,
                   log>>

(* init: read_len = lseek(read_fd, 0, SEEK_END).                           *)
Seek ==
    /\ fpc = "seek"
    /\ readLen' = Len(files[fd]) /\ off' = Len(files[fd])
    /\ started' = TRUE
    /\ Goto("watch")
    /\ UNCHANGED <<sc, writer, fd, wd, pending, rbuf, rpos, line, reported,
                   log>>

(* init: inotify_init and inotify_add_watch(path).                         *)
Watch ==
    /\ fpc = "watch"
    /\ wd' = path
    /\ Goto("line")
    /\ UNCHANGED <<sc, writer, fd, off, readLen, pending, rbuf, rpos, line,
                   reported, started, log>>

(* readline: read_buf is used up, read(read_fd) up to ChunkLen bytes; at  *)
(* end of file, wait_for_activity.                                         *)
ReadChunk ==
    /\ fpc = "line" /\ rpos >= Len(rbuf)
    /\ LET n == IF off >= Len(files[fd]) THEN 0
                ELSE IF Len(files[fd]) - off < ChunkLen
                     THEN Len(files[fd]) - off ELSE ChunkLen
       IN  IF n = 0
           THEN Goto("notify") /\ rbuf' = <<>> /\ rpos' = 0
                /\ UNCHANGED <<off, readLen>>
           ELSE /\ rbuf' = SubSeq(files[fd], off + 1, off + n)
                /\ rpos' = 0
                /\ off' = off + n
                /\ readLen' = readLen + n
                /\ UNCHANGED fpc
    /\ UNCHANGED <<sc, writer, fd, wd, pending, line, reported, started, log>>

(* The verdict main draws from a line: strstr for the normal exit first,  *)
(* then for a kernel audit line.                                           *)
Verdict(l) ==
    IF \E i \in 1 .. Len(l) : l[i] = "e" THEN "exit"
    ELSE IF \E i \in 1 .. Len(l) : l[i] = "k" THEN "audit" ELSE "none"

(* main without its break after a recognized line.                       *)
CopyNoBreak ==
    /\ fpc = "line" /\ rpos < Len(rbuf)
    /\ LET rest == SubSeq(rbuf, rpos + 1, Len(rbuf))
           nls == {i \in 1 .. Len(rest) : rest[i] = "nl"}
       IN  IF nls = {}
           THEN /\ line' = line \o rest
                /\ rpos' = Len(rbuf)
                /\ UNCHANGED reported
           ELSE LET i == Min(nls)
                    l == line \o SubSeq(rest, 1, i - 1)
                IN  /\ rpos' = rpos + i
                    /\ reported' = Verdict(l)
                    /\ line' = <<>>
    /\ UNCHANGED <<sc, writer, fpc, fd, off, readLen, wd, pending, rbuf,
                   started, log>>

(* readline copies bytes up to a newline, and main looks at the line: it  *)
(* stops at a normal exit or an audit line and reads on otherwise.         *)
Copy ==
    /\ fpc = "line" /\ rpos < Len(rbuf)
    /\ LET rest == SubSeq(rbuf, rpos + 1, Len(rbuf))
           nls == {i \in 1 .. Len(rest) : rest[i] = "nl"}
       IN  IF nls = {}
           THEN /\ line' = line \o rest
                /\ rpos' = Len(rbuf)
                /\ UNCHANGED <<fpc, reported>>
           ELSE LET i == Min(nls)
                    l == line \o SubSeq(rest, 1, i - 1)
                IN  /\ rpos' = rpos + i
                    /\ reported' = Verdict(l)
                    /\ IF Verdict(l) = "none"
                       THEN line' = <<>> /\ UNCHANGED fpc
                       ELSE line' = l /\ Goto("done")
    /\ UNCHANGED <<sc, writer, fd, off, readLen, wd, pending, rbuf, started,
                   log>>

(* wait_for_activity: read(notify_fd) blocks until an event is queued.    *)
WaitNotify ==
    /\ fpc = "notify" /\ pending
    /\ pending' = FALSE
    /\ Goto("fstat")
    /\ UNCHANGED <<sc, writer, fd, off, readLen, wd, rbuf, rpos, line,
                   reported, started, log>>

(* fstat(read_fd): grown, back to read; equal, wait again; smaller, the   *)
(* file is taken as truncated and reopened.                                *)
Fstat ==
    /\ fpc = "fstat"
    /\ CASE Len(files[fd]) > readLen ->
              Goto("line") /\ rbuf' = <<>> /\ rpos' = 0
         [] Len(files[fd]) = readLen ->
              Goto("notify") /\ UNCHANGED <<rbuf, rpos>>
         [] OTHER ->
              Goto("rmwatch") /\ UNCHANGED <<rbuf, rpos>>
    /\ UNCHANGED <<sc, writer, fd, off, readLen, wd, pending, line, reported,
                   started, log>>

(* inotify_rm_watch queues IN_IGNORED.                                     *)
RmWatch ==
    /\ fpc = "rmwatch"
    /\ wd' = 0 /\ pending' = TRUE
    /\ Goto("reopen")
    /\ UNCHANGED <<sc, writer, fd, off, readLen, rbuf, rpos, line, reported,
                   started, log>>

(* close(read_fd) and open(path).                                          *)
Reopen ==
    /\ fpc = "reopen"
    /\ fd' = path /\ off' = 0
    /\ Goto("addwatch")
    /\ UNCHANGED <<sc, writer, readLen, wd, pending, rbuf, rpos, line,
                   reported, started, log>>

(* inotify_add_watch(path); read_len = 0; back to read(notify_fd).        *)
AddWatch ==
    /\ fpc = "addwatch"
    /\ wd' = path /\ readLen' = 0
    /\ Goto("notify")
    /\ UNCHANGED <<sc, writer, fd, off, pending, rbuf, rpos, line, reported,
                   started, log>>

(* Any of the system calls fails: perror, return -1, exit status 1.       *)
SyscallFails ==
    /\ MayFail
    /\ fpc \in {"open", "seek", "watch", "line", "notify", "fstat",
                "rmwatch", "reopen", "addwatch"}
    /\ fpc = "line" => rpos >= Len(rbuf)
    /\ reported' = "fail"
    /\ Goto("done")
    /\ UNCHANGED <<sc, writer, fd, off, readLen, wd, pending, rbuf, rpos,
                   line, started, log>>

FollowerStep ==
    Open \/ Seek \/ Watch \/ ReadChunk \/ Copy \/ WaitNotify \/ Fstat
    \/ RmWatch \/ Reopen \/ AddWatch

Next == Writer \/ FollowerStep \/ SyscallFails

(* The kernel runs the follower whenever it can run: a blocked read of    *)
(* notify_fd returns once an event is queued.  The writer need not go on. *)
Spec == Init /\ [][Next]_vars /\ WF_vars(FollowerStep)

-----------------------------------------------------------------------------
(* What the helper is for: the first audit or normal-exit line written    *)
(* after it started and not truncated away before it could be read,       *)
(* "none" while there is none.                                             *)
FirstRelevant(es) ==
    LET rel == SelectSeq(es, LAMBDA e : e.k # "o" /\ ~e.lost)
    IN  IF rel = <<>> THEN "none"
        ELSE IF Head(rel).k = "e" THEN "exit" ELSE "audit"

(* ReportsFirstRelevant: when main stops on a line, it is the first audit *)
(* or normal-exit line syslog received after init's lseek: none written   *)
(* before is reread, and none written after is skipped, across chunked    *)
(* reads, waits and the reopen of a truncated file.                        *)
ReportsFirstRelevant ==
    reported \in {"audit", "exit"} => reported = FirstRelevant(log)

(* EventuallyReports: once such a line has been written for good, the    *)
(* helper eventually stops (or fails): wait_for_activity does not sleep   *)
(* through data it has not read.                                           *)
EventuallyReports ==
    <>[](FirstRelevant(log) # "none") => <>(reported # "none")

====
