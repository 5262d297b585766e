# TLA+ models of minijail

This directory holds TLA+ models of the sandbox engine in `src/`, and the TLC
configurations that check them. Every definition is translated from the C
source. `PROJECT.json` maps each definition to the lines it models, and lists
the runs, the mutants that show each property can fail, the findings, and the
hazards the code is exposed to.

## The system

`src/libminijail.c` builds a policy (`struct minijail`) through `minijail_*`
setters. It then applies the policy in one of three ways:

- **Directly**: `minijail_enter` applies it to the calling process.
- **Dynamic path**: `minijail_run_pid_pipes` forks or clones the target. The
  policy travels over a pipe (`minijail_to_fd`/`minijail_from_fd`) to a
  preload helper. The helper is not in this repository. It runs the rest of
  `minijail_enter` after `execve`.
- **Static path**: `minijail_run_static` applies everything before `execve`,
  together with the resource limits.

With a pid namespace, a forked `init` supervises the target. It enforces the
wall-clock limit, writes the meta file, and maps the exit status.

The other sources:

- `src/minijail0.c` is the command-line front end. Its `main` builds a fixed
  policy and picks the static or the dynamic path.
- `src/minijail_syscall_helper.c` follows the kernel audit log.
- `src/signal.h` only declares the SIGSYS-handler installer.

### How the parts interact

- `minijail_enter` is run by different processes, each on a different
  projection of the policy:
  - the direct caller sees the whole policy;
  - the pre-exec child sees `minijail_preexec`, which keeps only vfs,
    readonly and the limits;
  - the preload helper sees `minijail_preenter`, which clears vfs, readonly,
    pids and chroot;
  - the static child sees the whole policy, minus pids.
- Inside `minijail_enter`, the filesystem steps, the privilege drop and the
  seccomp filter depend on each other's order:
  - chroot happens before the /proc remount;
  - the securebits are set before `setresuid`;
  - `CAP_SETPCAP` is kept until the bounding set has been dropped;
  - the filter goes before or after the drop, depending on no_new_privs.

## Inventory

The component list, with status, is in `PROJECT.json`. In short:

| Part | Source | Module | Status |
|---|---|---|---|
| Policy record, builder invariants, preexec/preenter projections | libminijail.c 72-162, 271-319 | `Policy` | partly |
| Filesystem layerer (unshare, bind, chroot, tmpfs, /proc remount) | libminijail.c 615-682, 814-840 | `JailEntry` | modelled |
| Privilege dropper (keepcaps, securebits, drop_ugid, drop_caps, run_cap_valid) | libminijail.c 684-782, 843-855 | `JailEntry` | modelled |
| Seccomp installer (no_new_privs, filter, strict) | libminijail.c 784-812, 857-888 | `JailEntry` | partly (the SIGSYS handler has no body here) |
| Launcher (`minijail_run_pid_pipes`, `minijail_run_static`) | libminijail.c 1035-1072, 1156-1452 | `Launcher` | modelled |
| Init supervisor, `minijail_wait`, `minijail_kill` | libminijail.c 890-980, 1454-1498 | `Supervisor` | modelled |
| Limit enforcer (`setup_limits`) | libminijail.c 1084-1125 | `Launcher`, `Supervisor` | partly (time limit only) |
| Marshaller and policy pipe | libminijail.c 340-380, 401-607, 982-1032 | `PolicyPipe` | modelled |
| Path resolver (`concat_path`, `minijail_get_path`) | libminijail.c 1523-1633, minijail0.c 201-205 | `PathResolver` | modelled |
| minijail0 front end (`main`, `parse_args`, `add_binding`) | minijail0.c 23-36, 76-253; libminijail.c 166-380, 1642-1668 | `Minijail0` | modelled |
| Audit-log follower (`minijail_syscall_helper`) | minijail_syscall_helper.c 13-182 | `LogFollower` | modelled (the syscall table lookup is not) |
| Preload helper | not in `src/` | spec-modelled steps of `Launcher` | partly |
| Policy destruction (`minijail_destroy`) | libminijail.c 1500-1521 | `PolicyPipe` | modelled (the helper's destroy of the received policy) |

## Modules

### `Policy`

The policy is a record. The flags are booleans. The string fields are
presence bits: `user`, and `chrootdir` as a flag. Bindings are a sequence of
their `writeable` bits, because the model distinguishes nothing else about a
binding.

- `Legal` is what the builder API guarantees:
  - `minijail_bind` forces vfs;
  - `minijail_namespace_pids` forces vfs and readonly;
  - `minijail_remount_readonly` forces vfs;
  - `minijail_enter_chroot` sets the chroot flag together with `chrootdir`;
  - `minijail_change_user` sets uid;
  - a capability mask exists only with the caps flag.
- `Preexec` and `Preenter` are the two projections described above.

`MCPolicy` builds the policies the runs start from: every set of flags drawn
from a run's choices that `Legal` admits.

### `JailEntry`

`JailEntry` models `minijail_enter` as one process stepping through the
labels of the function. One action per step; each step is taken or skipped by
its flag, exactly as the `if` in the code.

The kernel is abstracted to the state the steps change:

- the uid, gid and groups;
- the capability sets (effective, permitted, inheritable, bounding) over
  three capabilities;
- keepcaps and the securebits;
- no_new_privs, the installed filter and strict mode;
- the mount namespace, the root and the mounts made;
- which /proc is mounted where.

Every call either succeeds, fails with EPERM under the kernel's rule, is
killed by SIGSYS when an installed filter blocks its class, or, with
`MayFail`, fails for an outside reason. Every failure leads to `pdie`: the
process is `dead` with a cause.

`drop_caps` begins with `run_cap_valid(0)` (`CapLastCapRead`). It opens
`/proc/sys/kernel/cap_last_cap` in the current root, which is the jail's
after a chroot. These calls (class `file`) go through any installed filter.
The `fopen` is not checked: where no proc is mounted in that root, or the
open fails, `fscanf(NULL, ...)` faults, and the process dies of SIGSEGV
(cause `segv`). The chroot directory's `proc` starts empty. Under
`minijail_run`, the pre-exec child's `remount_readonly` mounts one there
before the chroot.

`MCJailEntry` enumerates the initial policies for TLC. The policies are
everything the builder can produce from small choices:

- `PrivPolicies`: identity, capability and seccomp combinations;
- `FsPolicies`: filesystem combinations, plus what the pre-exec child
  receives;
- `StaticPolicies`: what `minijail_run_static` passes;
- `TmpPolicies`: chroot with a tmpfs.

`FilterRules` is a small set of filters, given by which syscall classes each
allows. The documented minimum for a filter installed before the privilege
drop (`SetupSyscalls`) is checked apart. The listed filters that allow it
also allow the `file` class.

### `Launcher`

`Launcher` EXTENDS `JailEntry`. The jailed lineage (the child, the
grandchild and the target) is one process image as far as the kernel state
goes: fork and execve keep the credentials, namespaces, root and filters. So
the lineage shares `JailEntry`'s variables, and its two `minijail_enter` runs
are `JailEntry`'s steps (`JailStep`). Beside them:

- **the caller:** `jail` (its `struct minijail`), `env` (LD_PRELOAD and the
  fd variable), `pfds` (the pipe ends it holds) and `ppc`/`presult`.
  - One action per stretch of `minijail_run_pid_pipes`: `SetupPreload`,
    `SetupPipe`, `OpenStdio`, `Fork`, `RestoreEnv`, `SendPolicy`.
  - `StaticCheck` is the caps refusal of `minijail_run_static`.
  - With `HostMayFail`, malloc, pipe and fork fail and take their early
    return.
- **the child:** `cstage` and `cfds`.
  - `ChildSetup`: the dup2s, then `minijail_preexec`.
  - `JailStep`: `minijail_enter`.
  - `ForkInit`: with pids, the fork that makes it init.
  - `Setsid`.
  - `EnterChrootAgain`: the saved chroot flag.
  - `SetupLimits` and `Exec`.
  - On the static path, `StaticSetup` clears pids instead of preexec.
- **the preload helper**, spec-modelled because its source is not in the
  repository. `HelperReadPolicy` reads the pipe and applies
  `minijail_preenter`. The second `minijail_enter` is `JailStep` again.
  `HelperDone` hands over to the target.

`ModePolicies(mode)` gives the policies a caller passes to each entry point.
`MCLauncher` fills it:

- `LaunchPolicies`: dynamic and static policies that complete;
  dynamic policies never combine caps with a chroot that has no `/proc`,
  since that combination dies of SIGSEGV in `run_cap_valid` (see
  `launch_caps_chroot.cfg` below);
- `SamePolicies`: one set for both entry points, for the single-question
  configurations.

### `Supervisor`

`Supervisor` models what follows a launch. It is separate from `Launcher`
because the exit and signal questions do not depend on the policy beyond
pids and the time limit. A scenario `sc` fixes these:

- the path;
- pids;
- the time limit (0 for none);
- the target's behaviour:
  - exits 0;
  - exits 3;
  - dies of SIGSYS;
  - runs busy;
  - runs busy ignoring SIGALRM;
  - sleeps ignoring SIGALRM;
- whether the caller waits or kills.

| Variable | Code |
|---|---|
| `tphase`, `leader`, `tstatus`, `tcause` | the target: forked, ready to exec, running, dead; group leader after `setsid`; raw wait status |
| `iphase`, `handler`, `istatus`, `override`, `reaped`, `iexit`, `meta` | `init()`: setup, waiting in `wait3`, exited; `signal(SIGTERM, init_term)`; `init_exitstatus`; `signal_override`; the `signal:`/`status:` line |
| `now`, `timers` | wall clock in ms; deadlines of `ualarm`, RLIMIT_CPU and init's `alarm` |
| `cpc`, `ret` | the caller in `minijail_wait` / `minijail_kill` |

- **The target's timers** are armed at `TargetExec`. It is `setup_limits`
  then `execve` in `minijail_run_static` (1443-1451). On the dynamic path
  the preload helper, which is not under `src/`, makes the same
  `setup_limits` call, so one action stands for both:
  - `ualarm(t*1000)` at t ms, with the argument as the 32-bit
    `useconds_t` it becomes (`UalarmDelays`): above 4294967 ms it wraps
    to a few hundred microseconds. From one second on, the value is
    1000000 µs or more. POSIX leaves that unspecified, and the kernel's
    `setitimer` may refuse it with an unchecked EINVAL. So `ualarm` is then
    either armed or not;
  - for a busy target, the RLIMIT_CPU soft limit at `(999+t)/1000` s.
- **init's alarm** is armed at `InitStart`, at `(t+1999)/1000` s.
- **`Tick`** moves the clock to the next deadline. Due timers fire as
  separate steps, in either order when they tie:
  - `UalarmFires` and `CpuFires` hit the target;
  - `Timeout` is the handler `timeout()`.
- **The raw status** is encoded as the kernel does: `n<<8` for an exit, the
  signal number for a signal death.
- **`init_term`** exits with `init_exitstatus` truncated to a byte.
- **Signals from outside** reach a pid-namespace init only if it has a
  handler for them (pid_namespaces(7)). So `CallerKill` sent before
  `InitStart` is discarded.

### `PolicyPipe`

`PolicyPipe` models how the policy reaches the preload helper on the
dynamic path. Three actors share one pipe: the caller in
`minijail_to_fd`, the helper in `minijail_from_fd` and
`minijail_unmarshal`, and, with pids, init, which holds both ends.
`Launcher` keeps the exchange as one step (`SendPolicy`,
`HelperReadPolicy`); this module opens that step up.

- **The wire image.** `Sections(p)` lists the bytes of each
  `marshal_append` call of `minijail_marshal_helper`, in order:
  - the struct, as `RecLen` cells carrying the record;
  - the user, chrootdir and chdir strings, each with its NUL, when set;
  - the filter, `InstrSize` cells per instruction, when seccomp_filter is
    set and there is a program;
  - each binding's src, dest and `IntSize` cells of writeable.

  `MarshalAppend` copies what fits and counts everything, so
  `MinijailSize` is the total at `available = 0` and `MinijailMarshal`
  reports truncation as `total > available`.
- **The pipe** is a sequence of at most `PipeCap` cells, with Linux
  semantics:
  - a blocking `write` copies what fits, then sleeps until the reader
    makes room;
  - a `read` returns what the pipe holds once it is non-empty, and EOF
    only when no process holds the write end (`writers`);
  - a write with no process holding the read end (`readers`) raises
    SIGPIPE (`SigPipe`).

  The caller closed its read end (1278). The jailed child never closes
  either end, so `writers` starts with `"child"`.
- **The caller:** `ToFdMarshal`, `WriteHeader`, `WriteBody` and
  `CloseWrite`.
- **The helper:**
  - `ReadHeader`: a short read gives `-EINVAL`; a size above `UShrtMax`
    gives `-E2BIG`; `malloc` may fail.
  - `ReadBody`: one read of `sz` bytes; a short one is an error.
  - `UnmarshalRecord`, `UnmarshalStr` (three instances), `UnmarshalFilter`,
    `UnmarshalBinding` (with `MinijailBind`) and `UnmarshalDone` follow
    `minijail_unmarshal` section by section.
  - `GotoError(label, p)` falls through the labels from `label` to
    `clear_pointers`, as the C does.
- **Pointers.** `ptr` records what each pointer field holds: null, the
  sender's stale value (brought in by the `memcpy`), an own copy, or freed.
  `wildFree` records every pointer handed to `free` that the helper does
  not own (`Unowned`): a stale value, or one freed already.
- **`minijail_destroy`.** With the policy, the helper runs
  `minijail_preenter` and `minijail_enter` (modelled in `JailEntry`; they
  neither allocate nor free a pointer of `j`) and then destroys it before
  the target's `main`. `DestroyFrees` is what `minijail_destroy` hands to
  `free`: the filter program only while seccomp_filter is set, and each
  string that is set. `HelperDestroys` frees those and the binding list.
- **Process ends:**
  - `HelperDies`: the helper dies when `from_fd` fails (spec 7);
  - `TargetExits`: after `minijail_destroy` the target runs with the
    policy and may exit;
  - `InitExits`: init exits once its child is gone.

The byte sizes are scaled down while keeping what the code compares:

| Constant | Model | Linux |
|---|---|---|
| `RecLen` (sizeof struct minijail) | 2 | a few hundred bytes |
| `HdrLen` (sizeof(size_t)) | 3 | 8 |
| `PipeCap` | 12 | 65536 |
| `UShrtMax` | 11 | 65535 |

As on Linux, the pipe holds one byte more than the largest body
`from_fd` accepts. So a body of `PipeCap - HdrLen + 1` to `UShrtMax` cells
(10 or 11 here, 65529 to 65535 bytes on Linux) passes the size check but
does not fit behind the header.

### `PathResolver`

`PathResolver` models `minijail_get_path` as minijail0 calls it, on its
`char filepath[PATH_MAX+1]`. That array is on the stack and never
initialized.

- **Bytes.** The buffer is a function from `0..BufLen-1` to characters,
  `NUL`, or `Garbage` for a byte nothing wrote. Every character of a path
  is one byte of the model (`"/"`, `"a"`, ...). `Init` lets every byte start
  as `NUL` or `Garbage`.
- **libc.** `StrLen`, `StrnCpy` (which pads with NUL up to n), `SnPrintf`
  (n - 1 characters and a NUL) and `GetCwd` write what the C functions
  write. `ConcatPath` is `concat_path`, with its three cases and their
  bounds.
- **Steps.** One action per stretch of the function:
  - `Anchor` writes `buffer[0] = '\0'` and the chdir, `"/"` or cwd;
  - `Concat` is the second `concat_path`, passed `buffer_len - len`;
  - `Match` is the longest-match scan;
  - `Rewrite` is the size check, the `memmove` of the tail (without its
    terminator), the `strncpy` of the source and the `'/'`;
  - `Stat` is `lstat` and the recursion on a symlink's target.
  The recursion keeps the buffer's bytes; `depth` counts the frames, and
  `MaxDepth` of them stand for an exhausted stack (`"overflow"`).
- **The host file system.** A function from normalized paths to `reg`,
  `dir` or `lnk` with a target. `Lstat` collapses `//` as the kernel does.
  A trailing `/` asks for a directory. A `Garbage` byte, or no NUL in the
  buffer, names no file.
- **The reference.** `RefResolve` is spec 4.9 written without a buffer:
  - anchor;
  - normalize;
  - replace the longest matching dest (`RefBindings`, a set maximum,
    independent of the code's scan) by its trimmed source;
  - lstat;
  - follow at most `MaxDepth` symlinks.

  `ResolvesLikeSpec` compares its answer with the code's `Outcome`.

### `LogFollower`

`LogFollower` models `minijail_syscall_helper`. The helper follows
`/var/log/syslog` from its end. It stops at the first kernel audit line
(and prints the syscall's name) or at minijail's normal-exit line. It races
the syslog writer, which the model lets append lines, truncate the file in
place, or rotate it (rename it and start a new file).

- **Files.** `files` maps inodes to byte sequences, and `path` is the inode
  the name points to. A line is its kind and a newline:
  - `o`, an unrelated line;
  - `k`, a kernel audit line with `syscall=`;
  - `e`, the normal exit.
- **inotify.** The queue is one flag, `pending`. The code reads every
  queued event at once and looks at none of them. Appends and truncations
  queue IN_MODIFY on a watched inode, a rotation IN_MOVE_SELF, and
  `inotify_rm_watch` IN_IGNORED.
- **The follower.** One action per system call and what the code does with
  its result:
  - `Open`, `Seek` and `Watch` are `init`;
  - `ReadChunk` is `read` of up to `ChunkLen` bytes;
  - `Copy` is readline's copy up to a newline, together with main's
    `strstr` tests and its `break`;
  - `WaitNotify`, `Fstat`, `RmWatch`, `Reopen` and `AddWatch` are
    `wait_for_activity`;
  - `SyscallFails` is any `perror`/`return -1`.
  `line` keeps readline's partial line across the waits, as `pos` does.
- **The ghost `log`.** It records the lines written after `Seek`. A
  truncation marks `lost` those the follower had not started to read.
  `ReportsFirstRelevant` compares the verdict with the first relevant line
  that is not lost.

### `Minijail0`

`Minijail0` models `src/minijail0.c`, which runs under sudo. Its real and
saved uid and gid are root's. The module covers `main` from `getenv("SUDO_USER")`
to the launch.

- **The command line.** `av` is `argv[1 .. argc-1]`, a sequence of elements:
  - an option `-c`;
  - `--`;
  - a word.

  Grouped short options and a lone `-` are not among the inputs.
- **The policy.** `jl` is the `struct minijail` that `main` builds. It is
  reduced to the fields that minijail0's calls set: uid, gid, caps, the
  chroot and chdir, the bindings, the flags, and whether the filter was
  compiled for logging. The builder calls are operators: `NewJail`, `Set`,
  `Limit`, `ChangeUid`, `ChangeGid`, `UseCaps`, `EnterChroot`, `ChrootChdir`
  and `Bind`. `BasePolicy` is the fixed policy of lines 178-187.
- **Credentials.** `euid` and `egid` change under Linux's rules for
  `seteuid` and `setegid` (`MaySetEuid`, `MaySetEgid`). `opened` records
  every file opened, together with the effective ids of the open.
- **Actions.** One per step of `main`:
  - `MainStart` is the sudo and passwd checks plus the fixed policy.
    `minijail_change_uid` dies on 0.
  - `DropPrivs` is `setegid`, then `seteuid`.
  - `ParseStart` is line 79.
  - `ParseStep` is one round of the getopt loop: `GetOpt` at `optind`, the
    switch's case (`OptionResult`, with `AddBinding`), the files it opens,
    and the break at 151. At the end of the options it is lines 155-160.
  - `GetPath`, `Access`, `ElfCheck` and `Dlopen` are the checks.
    `minijail_get_path`'s answer is a free choice here; `PathResolver`
    checks it.
  - `Regain` is `seteuid(0)`, then `setegid(0)`.
  - `RunStatic` is the caps check of `minijail_run_static`.
  - `RunDynamic` is `minijail_run` and `minijail_wait`, whose inside belongs
    to `Launcher` and `Supervisor`.

## Runs

| Run | Expect | What it shows |
|---|---|---|
| `jail_entry` | pass | `minijail_enter` returns with the whole policy in force or dies (`PolicyInForce`), and never of its own ordering (`NoSelfInflictedDeath`). This holds for every identity, capability and seccomp combination, and for the filesystem combinations other than the four that the configurations in the next table show failing: chroot with readonly, caps with chroot, chroot with a tmpfs and no vfs, and the documented filter. It holds under filters that allow or refuse each group of setup calls, and under any failing call. (1) |
| `launch_run` | pass | Both entry points: the target runs with the whole policy in force (`TargetConfined`), although up to three steps applied parts of it. The lineage dies only of a rejected policy, an outside failure or a filter missing calls it needs (`LaunchCompletes`). |
| `sup_wait` | pass | Without pids, `minijail_wait` returns the spec's exit code (`WaitReturnsExitCode`). On the dynamic path, init's alarm ends every time-limited target, even a sleeping one that ignores SIGALRM (`TimeLimitEnforced`). No limit ends a target before its time, whether `ualarm` is armed or refused (`NoKillBeforeLimit`). `minijail_wait` and `minijail_kill` return for every target a limit can end (`CallerEventuallyReturns`). |
| `pipe_transfer` | pass | After a successful `minijail_from_fd`, the helper's struct is the caller's, with vfs forced by the bindings, no meta stream and fresh copies of every string and the filter (`ReceivesSentPolicy`). Neither the unmarshal error path nor the helper's `minijail_destroy` hands `free` a pointer the helper does not own, and after the destroy no copy that `minijail_unmarshal` made is left live (`HelperFreesExactlyOwned`). Once `minijail_to_fd` has sent the policy, the helper gets it unless an allocation failed (`DeliveredIfSent`). The caller always leaves `minijail_to_fd`: for a policy above USHRT_MAX, SIGPIPE ends it once the helper and init have gone (`CallerLeavesToFd`). The policies fit behind the header, or exceed USHRT_MAX. Pids vary, and any helper allocation may fail. |
| `pipe_window` | violation | A policy that passes the USHRT_MAX check but does not fit behind the header is written in two parts. The helper's single read gets the first part and fails, while `minijail_to_fd` returns 0: the launch reports success for a target that never starts. |
| `log_follow` | pass | The syscall helper stops exactly on the first audit or normal-exit line written after its `lseek`, never on an older one (`ReportsFirstRelevant`). Without its `break`, main would read on past a recognized line (`TypeOK`). The writer appends any three lines, truncates after unrelated lines, or rotates; chunk boundaries fall inside lines; any system call may fail. |
| `launch_tmpfs` | violation | Under `minijail_run`, chroot with mount_tmp runs the target without its tmpfs. `minijail_preexec` clears mount_tmp and `minijail_preenter` clears chroot. |
| `m0_promises` | violation | `minijail0 <static program>` hands `minijail_run_static` a policy with the caps flag (from `minijail_use_caps(j, 0)`), and it dies: no static target runs through minijail0 (`PolicyAsRequested`). The same property covers `-G`, which has no user name, so `minijail_enter` dies at 819. It also covers `-S` before `-L`, where the filter is compiled without logging. With the static programs left out, TLC finds both of those cases. |
| `m0_front` | pass | minijail0 opens every file (`-S`, `-M`, `-0/1/2`, the ELF check) with the sudo user's effective uid and gid (`FilesOpenedAsUser`). It resolves exactly the first operand by the option syntax, so an option's argument and `--` are never taken for the program (`RunsFirstOperand`, against the recursive reference `OperandAt`). It always ends (`Terminates`). The inputs are 28 command lines with every implemented option, and callers that are unset, unknown, root or an ordinary user. |
| `resolve_benign` | pass | `minijail_get_path` answers as spec 4.9's resolver does (`ResolvesLikeSpec`), and `lstat` sees only bytes it wrote (`LstatSeesWrittenPath`). The inputs are directory bindings, nested ones with a source as long as the destination, a chdir, a chroot, the cwd, absolute and relative symlinks, directories, missing names and an over-long name, each under every content of the uninitialized buffer. |
| `log_rotate` | violation | When the log is rotated and the audit or exit line goes to the new file, the helper never reports it (`EventuallyReports`). `wait_for_activity` ignores what inotify reports and compares only the size of the file it holds open. TLC's trace rotates the log between `init`'s `open` and `inotify_add_watch(path)`. The helper then watches the new file while reading the old one, and the line appended before the watch wakes neither. |
| `resolve_spec_example` | violation | Spec section 8's example, `[/a -> /x]` and `[/a/b -> /y]` on `/a/b/c`, leaves `/y//cc` in the buffer (the memmove does not move the terminator), and the resolution fails where the spec says `/y/c`. |

Notes:

1. The ordering of securebits, setuid, capset, the bounding-set drop and the
   filter is what keeps the process alive.

### Further configurations

These configurations reproduce disagreements that the listed runs leave out
of their input sets. Each is recorded as a hazard in `PROJECT.json`. Run them
with `tlc -config <cfg> <module>`.

| Cfg | Module | TLC finds |
|---|---|---|
| `jail_tmp_leak.cfg` | `MCJailEntry` | chroot with mount_tmp and no vfs mounts the tmpfs in the host namespace (`NoHostMountLeak`). |
| `launch_env_leak.cfg` | `MCLauncher` | a failing `pipe()` after `setup_preload` returns with LD_PRELOAD modified (`CallerRestored`). |
| `launch_static_chroot.cfg` | `MCLauncher` | `minijail_run_static` enters the chroot twice, the second time from inside; the child dies (`LaunchCompletes`). |
| `launch_static_strict.cfg` | `MCLauncher` | strict seccomp is installed before `execve`, which it kills (`LaunchCompletes`). |
| `launch_sigpipe.cfg` | `MCLauncher` | a child that died early leaves no reader, and the caller's policy write kills it (`CallerSurvives`). |
| `sup_cpu_timeout.cfg` | `MCSupervisor` | a static busy loop with a 200 ms limit dies of its own `ualarm` SIGALRM; init writes `signal:14`, where scenario 2 of the spec expects `signal:24` (`TimeoutReported`). It gave its run slot to `pipe_window`. |
| `sup_static_timeout.cfg` | `MCSupervisor` | `minijail_run_static` never calls `setsid`, so `kill(-child_pid)` in `timeout()` reaches nobody, and a sleeping target that ignores SIGALRM outlives its limit (`TimeLimitEnforced`). It gave its run slot to `log_rotate`; `sup_wait` checks the same property on the dynamic path. |
| `sup_long_limit.cfg` | `MCSupervisor` | a limit of 4294968 ms (`minijail0 -t 4294968`, 71.6 minutes): `ualarm`'s argument wraps to 704 µs and the target dies of SIGALRM at 0 ms (`NoKillBeforeLimit`). |
| `sup_kill_lost.cfg` | `MCSupervisor` | a `minijail_kill` before init installs `init_term` is discarded, and the caller waits forever for a target with no time limit (`CallerEventuallyReturns`). It gave its run slot to `m0_front`. |
| `jail_static_remount.cfg` | `MCJailEntry` | a policy with chroot and readonly, as `minijail_run_static` passes it for a pid-namespaced chroot jail, dies in `remount_readonly` with no outside failure. `chroot` runs first, so `procPath` (`<chrootdir>/proc`) and `umount("/proc")` are resolved inside the new root (libminijail.c 834-840 and 664). It gave its run slot to `m0_promises` (`NoSelfInflictedDeath`). |
| `jail_caps_chroot.cfg` | `MCJailEntry` | a chroot jail with caps dies of SIGSEGV in `drop_caps`: `run_cap_valid`'s unchecked `fopen` of `/proc/sys/kernel/cap_last_cap` finds no proc in the jail (`NoSelfInflictedDeath`). |
| `jail_caps_filter.cfg` | `MCJailEntry` | without no_new_privs, a filter that allows exactly the calls the comment at 870-875 lists kills the process in `drop_caps`, whose `run_cap_valid` needs openat, read and close (`NoSelfInflictedDeath`). |
| `launch_caps_chroot.cfg` | `MCLauncher` | under `minijail_run`, a chroot jail with caps and no readonly remount: the preload helper's `drop_caps` faults inside the jail (`LaunchCompletes`). |
| `m0_options.cfg` | `MCMinijail0` | `-u alice pd` prints the usage: `-u`, `-g`, `-c`, `-v`, `-r`, `-n`, `-p`, `-e` and `-i` are in getopt's string and in the spec's CLI surface, but the switch has no case for them (`DocumentedOptionsAccepted`). |
| `sup_pids_sigsys.cfg` | `MCSupervisor` | with pids a seccomp kill is returned as ERR_INIT, not ERR_JAIL (`ReturnsExitCode`). Spec 4.8 agrees with the code, and spec 6 and 8 do not. |
| `sup_kill_status.cfg` | `MCSupervisor` | `minijail_kill` returns the raw status: 15, or 0 through `init_term` (`ReturnsExitCode`). |
| `log_regrow.cfg` | `MCLogFollower` | a truncation followed by appends past `read_len` is read on from the old offset. An audit line is skipped, and the normal exit is reported instead (`ReportsFirstRelevant`). |
| `log_split.cfg` | `MCLogFollower` | a partial audit line read before a truncation is glued to the first line of the reopened file (`ReportsFirstRelevant`). |
| `log_wakeup.cfg` | `MCLogFollower` | a truncation and a line between `lseek` and `inotify_add_watch` queue no event, and the follower blocks with the line unread (`EventuallyReports`). |
| `resolve_truncate.cfg` | `MCPathResolver` | under chdir `/a`, the name `qqqqqw` fills `concat_path`'s snprintf exactly. Its last byte is dropped, and the existing `/x/qqqqq` is resolved instead (`ResolvesLikeSpec`). |
| `resolve_cycle.cfg` | `MCPathResolver` | a symlink cycle recurses until the stack is exhausted; the spec asks for a failure (`ResolvesLikeSpec`). |
| `resolve_file_bind.cfg` | `MCPathResolver` | a binding of a single file resolves to `/x/d/`, and lstat fails with ENOTDIR (`ResolvesLikeSpec`). |
| `resolve_grow.cfg` | `MCPathResolver` | a relative path from the cwd, moved by a binding to a longer source, runs into bytes of the uninitialized array that `getcwd` and `snprintf` never wrote (`LstatSeesWrittenPath`). |

### Bounds

- **Capabilities:** three. `CAP_SETPCAP`, `CAP_SYS_ADMIN` and one more are
  enough to tell apart keeping, dropping and needing a capability.
- **Bindings:** sequences of at most two, which gives both orders of
  read-only and writeable.
- **`jail_entry` filters:**
  - allow nothing;
  - allow only prctl;
  - allow only the identity and capability calls;
  - allow all the setup calls.

  These separate every branch of the no_new_privs ordering.
- **`launch_run` filters:**
  - allow everything;
  - allow only what runs after the jail;
  - allow that plus prctl;
  - allow that plus the identity and capability calls.
- **Launch stdio:** none, or stdin with stderr.
- **Policy sets:** each run's set is every combination of its flags that
  `Legal` admits, less the combinations that the table of further
  configurations shows failing.
- **Time limits in `Supervisor`:** 200 ms and 1500 ms.
  - At 200 ms, ualarm, RLIMIT_CPU and init's alarm fall at 0.2, 1 and 2 s.
  - At 1500 ms, they fall at 1.5, 2 and 3 s.
  - Between them the two limits cover a ualarm before and after a whole
    second.
  - `sup_long_limit.cfg` takes 4294968 ms (`LongLimit`), the first limit
    whose `ualarm` argument wraps.

- **`PathResolver`:** a buffer of 12 bytes and `MaxDepth` 2.
  - The checks in the code compare lengths with the buffer size. 12 bytes
    is enough for names that fit, names that fit exactly and names that do
    not, which is what `PATH_MAX+1` separates.
  - Two frames allow a chain of two symlinks.
  - `Init` enumerates all 4096 initial contents of the buffer.

- **`LogFollower`:** scripts of up to four writer operations, two-byte
  lines and a read buffer of 3 bytes.
  - The 3-byte buffer makes chunk boundaries fall inside lines, as 4096
    bytes do against syslog lines.
  - An old log of an unrelated line and an old normal exit tells a
    follower that rereads the file from one that follows its end.
  - `log_follow` truncates only after unrelated lines, with at most one
    line after the truncation. The truncation hazards need more, and
    their configurations above have it.

- **`PolicyPipe`:** four policies.
  - Three fit behind the header (8 or 9 cells): strings with a chroot and
    chdir; a user with a two-instruction filter; a binding with the meta
    file set.
  - One has everything and exceeds USHRT_MAX (17 cells).
  - `pipe_window` adds one of 10 cells, inside the window.

  Each policy is tried with and without pids, and with every allocation of
  the helper succeeding or failing.

- **Minijail0:** the user alice has uid 1000 and gid 100. The two differ, so
  a swapped uid and gid shows. Root and an unknown name are refused. There
  is one user file `f` and one foreign file `g`. The programs are:
  - `ps`, static;
  - `pd`, dynamic;
  - `pn`, not an ELF file;
  - `pr`, dynamic but readable only by root;
  - `px`, not executable.

  Bindings have a good destination, a relative one, or none. The command
  lines reach every case of the switch and every exit of `main`.

### Fairness

`Minijail0` is one sequential process, and `m0_front` assumes weak fairness
of `Next` for `Terminates`. Its end state stutters (`Exited`).


`JailEntry` and `PathResolver` check safety only. `PathResolver`'s final
states stutter (`Returned`).

`LogFollower` is weakly fair to the follower's steps: the kernel runs it,
and a blocked `read` of `notify_fd` returns once an event is queued. The
writer gets no fairness, since syslog may stop writing. Its listed run
checks safety with `CHECK_DEADLOCK FALSE`: the helper really stops at its
verdict, or blocks in `read(notify_fd)` once the writer is done.
`EventuallyReports` is checked only by the configurations that violate it. `minijail_enter` is straight-line code that
ends in `done` or `dead`, so `jail_entry` uses `CHECK_DEADLOCK FALSE`: the
process really stops there. `Launcher` also checks safety only; its final
states stutter (`Finished`).

`Supervisor` assumes weak fairness of every process step, timer delivery and
clock tick:

- the kernel runs every runnable process and delivers every due signal;
- a target whose program exits does exit.

Running and sleeping targets take stuttering steps (`TargetRuns`), so a
target that never ends is not a deadlock.

`PolicyPipe` is weakly fair to the caller, to the helper, to the helper's
`minijail_destroy` and its death after a failure, and to init's exit: the kernel runs them, a blocked
read or write wakes once the other side acts, and init's `wait3` fails once
its child is gone. The target gets no fairness: it may run forever, and
`Finished` stutters only once every process is gone.

`Tick` waits until the target has exec'd and init has armed its alarm. This
assumes the few system calls between fork and execve take less than the
alarm's one-second granularity. Without it, the dynamic path has the same
escape as the static one when init's alarm fires before the grandchild's
`setsid`.

## Plan for the remaining modules

The project lists twelve runs, the most it keeps. Each remaining component
is either modelled or has a stated reason for not being modelled. Further
findings therefore enter as configurations, listed above.

## Not modelled

- The contents of strings, paths other than in `PathResolver`, the BPF
  program itself (only which syscall classes it allows), logging, and the
  meta file's `time`, `time-wall` and `mem` lines (only the disposition
  line is modelled).
- The memory, output and stack limits: they bound what the target may use,
  and no modelled step depends on them.
- `install_sigsys_handler` is only declared (`src/signal.h`), so it is not
  modelled.
- The caller's unchecked `malloc` in `minijail_to_fd`, and any other death of
  the caller before its write. The child holds the write end, so the helper
  would then block forever; see the hazard at libminijail.c:1315.
