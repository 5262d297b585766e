------------------------------ MODULE Minijail0 ------------------------------
(***************************************************************************)
(* minijail0 (src/minijail0.c): main builds a fixed policy for the sudo    *)
(* user, drops its effective ids, lets parse_args add the command line's   *)
(* options through the builder API (src/libminijail.c), resolves and       *)
(* checks the program, takes root back and hands the policy to             *)
(* minijail_run_static or minijail_run.                                    *)
(*                                                                         *)
(* argv[1 .. argc-1] is a sequence of elements: an option "-c" is          *)
(* [k |-> "opt", c |-> c], "--" is [k |-> "end"], anything else is         *)
(* [k |-> "word", w |-> w].  Grouped options ("-sG") and the lone "-"      *)
(* are not among the inputs.  The process runs under sudo: its real and    *)
(* saved uid and gid are 0.                                                *)
(***************************************************************************)
EXTENDS Integers, Sequences

CONSTANTS
    SudoUsers,  \* values of SUDO_USER: user names, or NoUser when unset
    NoUser,
    Passwd,     \* getpwnam: user name -> [uid, gid], for the known names
    Argvs,      \* the command lines tried: argv[1 .. argc-1]
    Absolute,   \* the words that start with '/'
    Fields,     \* word -> the fields strtok(word, ",") returns, in order
    UserFiles,  \* the files the sudo user may open; root may open any
    Executable, \* the programs access(X_OK) accepts for root
    ElfKind     \* get_elf_linkage: program -> "static", "dynamic", "error"

VARIABLES
    sudo,    \* getenv("SUDO_USER")
    av,      \* argv[1 .. argc-1]
    pc,      \* where main is
    euid,    \* the effective uid and gid
    egid,
    jl,      \* the struct minijail main builds
    optind,  \* getopt's optind (argv index, so av[optind])
    opened,  \* the files opened so far, with the credentials of the open
    prog,    \* argv[0] after main's argv += consumed
    status   \* how minijail0 ended: "none", "usage", "died", "return1",
             \* "launched"

vars == <<sudo, av, pc, euid, egid, jl, optind, opened, prog, status>>

None == "none"

-----------------------------------------------------------------------------
(* The builder API (src/libminijail.c) that main and parse_args call.      *)

(* minijail_new: a zeroed struct minijail.                                 *)
NewJail == [uid |-> 0, gid |-> 0, flags |-> {}, caps |-> 0, user |-> FALSE,
            chrootdir |-> None, chdir |-> None, bindings |-> <<>>,
            filterLog |-> None]

(* The setters that only set flag bits.                                    *)
SetterFlags ==
    [use_seccomp |-> {"seccomp"}, no_new_privs |-> {"nnp"},
     use_seccomp_filter |-> {"seccomp_filter"},
     log_seccomp_filter |-> {"log_seccomp_filter"},
     namespace_vfs |-> {"vfs"}, namespace_pids |-> {"vfs", "readonly", "pids"},
     namespace_net |-> {"net"}, remount_readonly |-> {"vfs", "readonly"},
     inherit_usergroups |-> {"usergroups"}]
LimitFlags == [time_limit |-> {"time_limit"}, output_limit |-> {"output_limit"},
               memory_limit |-> {"memory_limit"}]
Set(j, s) == [j EXCEPT !.flags = @ \cup SetterFlags[s]]
Limit(j, s) == [j EXCEPT !.flags = @ \cup LimitFlags[s]]

(* minijail_change_uid and minijail_change_gid die on 0.                   *)
ChangeUid(j, uid) == [j EXCEPT !.uid = uid, !.flags = @ \cup {"uid"}]
ChangeGid(j, gid) == [j EXCEPT !.gid = gid, !.flags = @ \cup {"gid"}]

UseCaps(j, mask) == [j EXCEPT !.caps = mask, !.flags = @ \cup {"caps"}]

(* minijail_enter_chroot: refused once a chroot is set.                    *)
EnterChroot(j, dir) ==
    IF j.chrootdir # None THEN [ok |-> FALSE]
    ELSE [ok |-> TRUE, j |-> [j EXCEPT !.chrootdir = dir,
                                       !.flags = @ \cup {"chroot"}]]

(* minijail_chroot_chdir: needs a chroot, no chdir yet, an absolute path.  *)
ChrootChdir(j, dir) ==
    IF j.chrootdir = None \/ j.chdir # None \/ dir \notin Absolute
    THEN [ok |-> FALSE]
    ELSE [ok |-> TRUE, j |-> [j EXCEPT !.chdir = dir, !.flags = @ \cup {"chdir"}]]

(* minijail_bind: dest must start with '/'; forces vfs.                    *)
Bind(j, src, dest) ==
    IF dest \notin Absolute THEN [ok |-> FALSE]
    ELSE [ok |-> TRUE,
          j |-> [j EXCEPT !.bindings = Append(@, [src |-> src, dest |-> dest]),
                          !.flags = @ \cup {"vfs"}]]

(* minijail_parse_seccomp_filters: fopen (pdie on failure, in the        *)
(* caller), then compile_filter with the log flag as it is now.            *)
ParseSeccompFilters(j) == [j EXCEPT !.filterLog = "log_seccomp_filter" \in j.flags]

(* minijail_meta_file: the flag is set before the fopen that may fail.    *)
MetaFile(j) == [j EXCEPT !.flags = @ \cup {"meta_file"}]

(* The fixed policy main builds for the sudo user (178-187).               *)
BasePolicy(pw) ==
    LET j1 == UseCaps(ChangeGid(ChangeUid(NewJail, pw.uid), pw.gid), 0)
    IN  Set(Set(Set(Set(Set(j1, "namespace_pids"), "remount_readonly"),
                    "namespace_vfs"), "no_new_privs"), "namespace_net")

-----------------------------------------------------------------------------
(* Credentials under sudo.  Linux lets seteuid(e) and setegid(g) through  *)
(* when the effective uid is 0, or when the new id is the real, effective *)
(* or saved one.                                                           *)
RealId == 0
MaySetEuid(e) == euid = 0 \/ e \in {RealId, euid}
MaySetEgid(g) == euid = 0 \/ g \in {RealId, egid}

(* open(2) and fopen(3) of a file with the current effective ids.         *)
CanOpen(f) == euid = 0 \/ f \in UserFiles
Open(f) == opened' = opened \cup {[file |-> f, euid |-> euid, egid |-> egid]}

Pw == Passwd[sudo]

-----------------------------------------------------------------------------
(* getopt(argc, argv, "u:g:sS:c:C:d:b:vrGhHinpLet:O:m:M:0:1:2:") at       *)
(* optind.  GNU getopt would permute an operand found at optind; parse_args *)
(* breaks out of its loop before that can happen (151-152), so an operand *)
(* there ends the scan as in POSIX.  NoArg fills optarg for options that  *)
(* take none.                                                              *)
(* Mutant: the time limit declared without its ':' in the option string.   *)
ArgOptsNoT == {"u", "g", "S", "c", "C", "d", "b", "O", "m", "M", "0", "1", "2"}

ArgOpts == {"u", "g", "S", "c", "C", "d", "b", "t", "O", "m", "M", "0", "1", "2"}
FlagOpts == {"s", "v", "r", "G", "h", "H", "i", "n", "p", "L", "e"}
NoArg == [k |-> "none"]

(* Mutant: an option's argument taken without checking that one is left.  *)
GetOptNoArgCheck(i) ==
    CASE i > Len(av) \/ av[i].k = "word" -> [opt |-> "eof", arg |-> NoArg, next |-> i]
      [] av[i].k = "end" -> [opt |-> "eof", arg |-> NoArg, next |-> i + 1]
      [] av[i].c \in ArgOpts ->
            [opt |-> av[i].c, arg |-> IF i < Len(av) THEN av[i + 1] ELSE NoArg,
             next |-> i + 2]
      [] av[i].c \in FlagOpts -> [opt |-> av[i].c, arg |-> NoArg, next |-> i + 1]
      [] OTHER -> [opt |-> "?", arg |-> NoArg, next |-> i + 1]

(* Mutant: "--" ends the options but is not stepped over.                 *)
GetOptEndKept(i) ==
    CASE i > Len(av) \/ av[i].k \in {"word", "end"} ->
            [opt |-> "eof", arg |-> NoArg, next |-> i]
      [] av[i].c \in ArgOpts ->
            IF i < Len(av) THEN [opt |-> av[i].c, arg |-> av[i + 1], next |-> i + 2]
            ELSE [opt |-> "?", arg |-> NoArg, next |-> i + 1]
      [] av[i].c \in FlagOpts -> [opt |-> av[i].c, arg |-> NoArg, next |-> i + 1]
      [] OTHER -> [opt |-> "?", arg |-> NoArg, next |-> i + 1]

(* Mutant: optind not advanced past an option that takes no argument.      *)
GetOptFlagStuck(i) ==
    CASE i > Len(av) \/ av[i].k = "word" -> [opt |-> "eof", arg |-> NoArg, next |-> i]
      [] av[i].k = "end" -> [opt |-> "eof", arg |-> NoArg, next |-> i + 1]
      [] av[i].c \in ArgOpts ->
            IF i < Len(av) THEN [opt |-> av[i].c, arg |-> av[i + 1], next |-> i + 2]
            ELSE [opt |-> "?", arg |-> NoArg, next |-> i + 1]
      [] av[i].c \in FlagOpts -> [opt |-> av[i].c, arg |-> NoArg, next |-> i]
      [] OTHER -> [opt |-> "?", arg |-> NoArg, next |-> i + 1]

GetOpt(i) ==
    CASE i > Len(av) \/ av[i].k = "word" -> [opt |-> "eof", arg |-> NoArg, next |-> i]
      [] av[i].k = "end" -> [opt |-> "eof", arg |-> NoArg, next |-> i + 1]
      [] av[i].c \in ArgOpts ->
            IF i < Len(av) THEN [opt |-> av[i].c, arg |-> av[i + 1], next |-> i + 2]
            ELSE [opt |-> "?", arg |-> NoArg, next |-> i + 1]
      [] av[i].c \in FlagOpts -> [opt |-> av[i].c, arg |-> NoArg, next |-> i + 1]
      [] OTHER -> [opt |-> "?", arg |-> NoArg, next |-> i + 1]

(* The text of an argument; an element that starts with '-' as "-".        *)
ArgText(e) == IF e.k = "word" THEN e.w ELSE "-"

(* add_binding: strtok out src and dest (a missing one exits), then        *)
(* minijail_bind (a failure exits).  The writeable field is not modelled.  *)
AddBinding(j, a) ==
    LET f == Fields[a]
        r == IF Len(f) >= 2 THEN Bind(j, f[1], f[2]) ELSE [ok |-> FALSE]
    IN  IF r.ok THEN [res |-> "ok", j |-> r.j, file |-> None]
        ELSE [res |-> "exit", j |-> j, file |-> None]

(* One case of parse_args' switch: the policy after it, the file it opens *)
(* with the current effective ids, and whether minijail0 goes on ("ok"),   *)
(* exits, dies, or prints the usage and exits.                            *)
OptionResult(c, a) ==
    LET ok(j) == [res |-> "ok", j |-> j, file |-> None]
        quit(r) == [res |-> r, j |-> jl, file |-> None]
        opening(f, j, r) == [res |-> IF CanOpen(f) THEN "ok" ELSE r, j |-> j,
                             file |-> f]
        byRes(r) == IF r.ok THEN ok(r.j) ELSE quit("exit")
    IN  CASE c = "s" -> ok(Set(jl, "use_seccomp"))
          [] c = "S" -> opening(a, Set(ParseSeccompFilters(jl), "use_seccomp_filter"),
                                "died")
          [] c = "L" -> ok(Set(jl, "log_seccomp_filter"))
          [] c = "b" -> AddBinding(jl, a)
          [] c = "C" -> byRes(EnterChroot(jl, a))
          [] c = "d" -> byRes(ChrootChdir(jl, a))
          [] c = "G" -> ok(Set(jl, "inherit_usergroups"))
          [] c = "H" -> quit("exit")
          [] c = "t" -> ok(Limit(jl, "time_limit"))
          [] c = "O" -> ok(Limit(jl, "output_limit"))
          [] c = "m" -> ok(Limit(jl, "memory_limit"))
          [] c = "M" -> opening(a, MetaFile(jl), "exit")
          [] c \in {"0", "1", "2"} -> opening(a, jl, "exit")
          [] OTHER -> quit("usage")

-----------------------------------------------------------------------------
(* main.                                                                   *)

Init ==
    /\ sudo \in SudoUsers
    /\ av \in Argvs
    /\ pc = "main"
    /\ euid = 0 /\ egid = 0
    /\ jl = NewJail
    /\ optind = 1
    /\ opened = {}
    /\ prog = None
    /\ status = "none"

Quit(st) == pc' = "exit" /\ status' = st

(* SUDO_USER and getpwnam, then the fixed policy (165-187); the builder   *)
(* dies on a uid or gid of 0.                                              *)
MainStart ==
    /\ pc = "main"
    /\ IF sudo = NoUser \/ sudo \notin DOMAIN Passwd \/ Pw.uid = 0 \/ Pw.gid = 0
       THEN Quit("died") /\ UNCHANGED jl
       ELSE jl' = BasePolicy(Pw) /\ pc' = "drop" /\ UNCHANGED status
    /\ UNCHANGED <<sudo, av, euid, egid, optind, opened, prog>>

(* Mutant: only the effective uid is dropped.                              *)
DropPrivsEuidOnly ==
    /\ pc = "drop"
    /\ IF ~MaySetEuid(Pw.uid) THEN Quit("died") /\ UNCHANGED euid
       ELSE euid' = Pw.uid /\ pc' = "parse0" /\ UNCHANGED status
    /\ UNCHANGED <<sudo, av, egid, jl, optind, opened, prog>>

(* setegid(pw_gid), then seteuid(pw_uid) (189-195): the gid first, while  *)
(* the process may still change it.                                        *)
DropPrivs ==
    /\ pc = "drop"
    /\ CASE ~MaySetEgid(Pw.gid) -> Quit("died") /\ UNCHANGED <<euid, egid>>
         [] ~MaySetEuid(Pw.uid) -> Quit("died") /\ egid' = Pw.gid /\ UNCHANGED euid
         [] OTHER -> /\ egid' = Pw.gid /\ euid' = Pw.uid
                     /\ pc' = "parse0" /\ UNCHANGED status
    /\ UNCHANGED <<sudo, av, jl, optind, opened, prog>>

(* parse_args: a first argument that is not an option is the program.    *)
ParseStart ==
    /\ pc = "parse0"
    /\ IF av # <<>> /\ av[1].k = "word"
       THEN pc' = "path" /\ prog' = av[1].w
       ELSE pc' = "parse" /\ UNCHANGED prog
    /\ UNCHANGED <<sudo, av, euid, egid, jl, optind, opened, status>>

(* One round of parse_args' loop (81-153), or its end (155-160): getopt,  *)
(* the option's case, and the break once an operand follows.  At the end  *)
(* of the options argc == optind prints the usage; otherwise argv +=       *)
(* consumed makes argv[optind] the program.                                *)
ParseStep ==
    /\ pc = "parse"
    /\ LET g == GetOpt(optind)
           r == OptionResult(g.opt, ArgText(g.arg))
           operandNext == g.next <= Len(av) /\ av[g.next].k = "word"
       IN  /\ optind' = g.next
           /\ IF g.opt = "eof"
              THEN /\ IF g.next = Len(av) + 1 THEN Quit("usage") /\ UNCHANGED prog
                      ELSE pc' = "path" /\ prog' = ArgText(av[g.next])
                                        /\ UNCHANGED status
                   /\ UNCHANGED <<jl, opened>>
              ELSE /\ jl' = r.j
                   /\ IF r.file # None THEN Open(r.file) ELSE UNCHANGED opened
                   /\ CASE r.res # "ok" -> Quit(r.res) /\ UNCHANGED prog
                        [] operandNext -> pc' = "path" /\ prog' = av[g.next].w
                                          /\ UNCHANGED status
                        [] OTHER -> UNCHANGED <<pc, prog, status>>
    /\ UNCHANGED <<sudo, av, euid, egid>>

(* minijail_get_path into filepath (202-205): its answer depends on the   *)
(* host's files and is checked in PathResolver; here it is either.        *)
GetPath ==
    /\ pc = "path"
    /\ \E found \in BOOLEAN :
          IF found THEN pc' = "access" /\ UNCHANGED status ELSE Quit("return1")
    /\ UNCHANGED <<sudo, av, euid, egid, jl, optind, opened, prog>>

(* access(filepath, X_OK) (208-212) checks with the real uid, root's.      *)
Access ==
    /\ pc = "access"
    /\ IF prog \in Executable THEN pc' = "elf" /\ UNCHANGED status
       ELSE Quit("return1")
    /\ UNCHANGED <<sudo, av, euid, egid, jl, optind, opened, prog>>

(* get_elf_linkage(filepath) (214) opens the file with the effective ids; *)
(* a file it cannot open is no ELF file.                                   *)
ElfCheck ==
    /\ pc = "elf"
    /\ Open(prog)
    /\ LET kind == IF CanOpen(prog) THEN ElfKind[prog] ELSE "error"
       IN  CASE kind = "static" -> pc' = "regain_static" /\ UNCHANGED status
             [] kind = "dynamic" -> pc' = "dlopen" /\ UNCHANGED status
             [] OTHER -> Quit("return1")
    /\ UNCHANGED <<sudo, av, euid, egid, jl, optind, prog>>

(* dlopen(PRELOADPATH) (232-236): the helper library may be missing.      *)
Dlopen ==
    /\ pc = "dlopen"
    /\ \E loaded \in BOOLEAN :
          IF loaded THEN pc' = "regain_dynamic" /\ UNCHANGED status
          ELSE Quit("return1")
    /\ UNCHANGED <<sudo, av, euid, egid, jl, optind, opened, prog>>

(* seteuid(0), then setegid(0) (218-223, 238-243): root first, so that    *)
(* the gid may be changed.                                                 *)
Regain ==
    /\ pc \in {"regain_static", "regain_dynamic"}
    /\ CASE ~MaySetEuid(0) -> Quit("died") /\ UNCHANGED <<euid, egid>>
         [] OTHER -> /\ euid' = 0 /\ egid' = 0
                     /\ pc' = IF pc = "regain_static" THEN "run_static"
                              ELSE "run_dynamic"
                     /\ UNCHANGED status
    /\ UNCHANGED <<sudo, av, jl, optind, opened, prog>>

(* minijail_run_static (224) dies on the caps flag (libminijail.c 1398).  *)
RunStatic ==
    /\ pc = "run_static"
    /\ IF "caps" \in jl.flags THEN Quit("died") ELSE Quit("launched")
    /\ UNCHANGED <<sudo, av, euid, egid, jl, optind, opened, prog>>

(* minijail_run (244), then return minijail_wait(j) (252); what follows   *)
(* the fork is Launcher's and Supervisor's.                                *)
RunDynamic ==
    /\ pc = "run_dynamic"
    /\ Quit("launched")
    /\ UNCHANGED <<sudo, av, euid, egid, jl, optind, opened, prog>>

(* minijail0 has ended.                                                    *)
Exited == pc = "exit" /\ UNCHANGED vars

Next ==
    \/ MainStart \/ DropPrivs \/ ParseStart \/ ParseStep \/ GetPath \/ Access
    \/ ElfCheck \/ Dlopen \/ Regain \/ RunStatic \/ RunDynamic \/ Exited

Spec == Init /\ [][Next]_vars

-----------------------------------------------------------------------------
(* Properties.                                                             *)

Flags == {"uid", "gid", "caps", "vfs", "readonly", "pids", "net", "nnp",
          "seccomp", "seccomp_filter", "log_seccomp_filter", "usergroups",
          "chroot", "chdir", "time_limit", "output_limit", "memory_limit",
          "meta_file"}

TypeOK ==
    /\ pc \in {"main", "drop", "parse0", "parse", "path", "access", "elf",
               "dlopen", "regain_static", "regain_dynamic", "run_static",
               "run_dynamic", "exit"}
    /\ euid \in Nat /\ egid \in Nat
    /\ jl.flags \subseteq Flags
    /\ optind \in 1 .. Len(av) + 1
    /\ status \in {"none", "usage", "died", "return1", "exit", "launched"}

(* Every file minijail0 opens on the user's behalf (-S, -M, -0/-1/-2 in   *)
(* parse_args, the ELF check in main) is opened with the sudo user's      *)
(* effective uid and gid, never with root's: main drops both before       *)
(* parse_args and takes them back only after get_elf_linkage.             *)
FilesOpenedAsUser ==
    \A o \in opened : o.euid = Pw.uid /\ o.egid = Pw.gid

(* The options minijail0 documents (spec, CLI surface): those that take   *)
(* an argument and those that do not.                                      *)
DocArgOpts == {"b", "C", "d", "g", "u", "c", "S", "t", "O", "m", "M", "0", "1", "2"}

(* The index of the program in argv by the usual option syntax: options   *)
(* and their arguments, an optional "--", then the program; 0 if none.    *)
RECURSIVE OperandAt(_)
OperandAt(i) ==
    CASE i > Len(av) -> 0
      [] av[i].k = "word" -> i
      [] av[i].k = "end" -> IF i < Len(av) THEN i + 1 ELSE 0
      [] av[i].c \in DocArgOpts -> OperandAt(i + 2)
      [] OTHER -> OperandAt(i + 1)

(* Whenever main goes on to resolve a program (after parse_args returns   *)
(* and argv += consumed), it is the first operand of the command line:    *)
(* options' arguments and "--" are never taken for the program.           *)
RunsFirstOperand ==
    pc = "path" => LET i == OperandAt(1)
                   IN  i # 0 /\ av[i].k = "word" /\ prog = av[i].w

(* minijail0 ends on every command line: parse_args' getopt loop moves    *)
(* forward on every option, and main has no other loop.                   *)
Terminates == <>(pc = "exit")

(* Spec, CLI surface: the options minijail0 accepts.  getopt's string    *)
(* has them all, and parse_args' switch prints the usage for those it has *)
(* no case for.                                                            *)
DocOpts == DocArgOpts \cup {"G", "s", "L", "H", "n", "p", "r", "v", "e", "i"}
DocumentedOptionsAccepted ==
    status = "usage" =>
        \/ OperandAt(1) = 0
        \/ \E i \in 1 .. Len(av) : av[i].k = "opt" /\ av[i].c \notin DocOpts

(* The policy main hands to minijail_run_static or minijail_run is one   *)
(* that entry point carries out, and it does what the options asked:      *)
(*  - minijail_run_static dies on the caps flag (libminijail.c 1398), yet  *)
(*    a statically linked target is to run (spec, test 1);                *)
(*  - -G needs a user name: minijail_enter dies on usergroups without     *)
(*    j->user (819), and only minijail_change_user sets it;               *)
(*  - -L logs blocked calls of the filter, which -S compiles at once with *)
(*    the log flag as it is then (minijail_parse_seccomp_filters).        *)
PolicyAsRequested ==
    pc \in {"run_static", "run_dynamic"} =>
        /\ pc = "run_static" => "caps" \notin jl.flags
        /\ "usergroups" \in jl.flags => jl.user
        /\ {"log_seccomp_filter", "seccomp_filter"} \subseteq jl.flags
              => jl.filterLog = TRUE

FairSpec == Spec /\ WF_vars(Next)

====
