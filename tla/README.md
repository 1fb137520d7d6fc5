# TLA+ models of the Sandbox test programs

The repository has three source files:

- `src/test/syscalls/linux/prctl.cc`. This is the gVisor syscall test of
  `prctl(2)`. It covers process names, `no_new_privs`, the parent-death
  signal, dumpability, `PR_SET_MM`, and the child-subreaper flag.
- `src/test/syscalls/linux/socket_unix_unbound_abstract.cc`. These are the
  tests of abstract-namespace unix sockets, parameterised over socket type
  and blocking mode.
- `src/examples/gWisord/allAddressesAlreadyInUse/main.c`. This is a small
  program that binds a TCP port given on the command line.

These are test programs. Their correctness means two things:

- On a kernel that behaves as Linux does, no assertion fails under any
  scheduling, signal timing or test order.
- Every kernel fault the test is written to expose makes it fail.

The kernel is therefore an external party. Each module folds the kernel
behaviour a step relies on into the action that triggers it. A constant
`Bugs`, a subset of each module's `KnownBugs`, injects kernel faults. The
initial state picks any subset of `Bugs`, so a single run explores the
conforming kernel and every combination of faults.

## Inventory

| Part | State | Operations | Hard behaviour |
|---|---|---|---|
| PDeathSig test (prctl.cc 142-186) | tasks main, thread and child; parent link, armed signal, ptrace state, stop report, exit status | fork, PR_SET/GET_PDEATHSIG, TRACEME, raise(SIGSTOP), waitpid, PTRACE_DETACH, thread exit, Join, final waitpid | three tasks interleave; the signal fires on *thread* exit; Join can return before that exit is complete; a fault can make it hang |
| no_new_privs test and main() re-exec (93-140, 315-321) | per-task flag, main's saved value, child exit status | GET, SET, clone, fork+execve, waitpid, exit(100+flag) | flag inheritance along clone→clone→fork→execve; 8-bit exit status |
| child-subreaper tests (218-308) | the process's subreaper flag (it survives between tests), SIGCHLD handler, got_sigchild, test_app and its orphan, waitpid loop | PR_SET/GET_CHILD_SUBREAPER, thread and fork checks, sigaction, ForkAndExec, waitpid(-1) with RetryEINTR, handler | state kept across tests; signal delivery racing waitpid (EINTR); orphan dying before or after its parent |
| name tests (52-91) | comm of the gtest thread and of a forked child | PR_SET/GET_NAME, fork, waitpid | truncation to 15 bytes; a name set by an earlier test hides the initial one |
| dumpability and PR_SET_MM (188-216) | dumpable flag, CAP_SYS_RESOURCE | PR_SET/GET_DUMPABLE, Cleanup restore, PR_SET_MM | the restore writes back the value read at the start; dumpability is carried between tests |
| abstract socket suite | per-network-namespace table of bound names, sockets with their namespace, listen queues | bind (explicit, autobind), getsockname, listen, connect, unshare, setns | names delimited by length; backlog 0 admits one connection; a socket keeps the namespace it was created in; a Cleanup restores the namespace |
| gWisord port binder (main.c) | argument, parsed port, bound socket | strtol, (int) cast, htons, bind, exit codes | truncation to 16 bits; empty argument; two instances racing |

Harness code that is not under `src/` appears inside the actions that call it:

- ScopedThread, ForkAndExec, InForkedProcess, Cleanup, ScopedSigaction, and the socket-pair factories.
- test_app `zombie_test`, in Subreaper. It is modelled from the spec, and the map marks it that way.

## Modules

**PDeathSig.tla / MC_PDeathSig.tla**

- **Actors.** There are three: `"main"` (the gtest thread), `"thread"` (the ScopedThread that forks), and `"child"`. Each has one action per statement group of the source: `MainSpawn`, `ThreadFork`, `ChildSetSig`, `ChildGetSig`, `ChildTraceMe`, `ChildRaise`, `ThreadWaitStop`, `ThreadDetach`, `ThreadExit`, `MainJoin`, `MainWait`.
- **Thread exit.** `ThreadExit` carries out the kernel's part. It sends the armed signal if the child's parent is that thread, it ends a ptrace stop, and it reparents the child to `Heir`, the thread group leader.
- **Join.** `MainJoin` can return while the thread is still `"exiting"`.
- **Timeout.** `Timeout` is the runner's per-test timeout. It fires only when no actor can move, which is a hang.
- **Faults.** `NotOnThreadExit`, `GetWrong`, `WrongSignal` and `StopUnreported`.
- **Refinement.** The module refines TestOracle with one process. A timeout counts as a failure (`Outcome`), and every fault deserves one.

**NoNewPrivs.tla / MC_NoNewPrivs.tla**

- **Tasks.** The four tasks are main, outer, inner and child.
- **Inheritance.** `Cloned` and `ForkExeced` give the inherited flag.
- **Child exit.** `ChildMain` is main()'s `exit(kPrctlNoNewPrivsTestChildExitBase + flag)`, keeping the low 8 bits.
- **Initial flag.** Init allows main's flag to be 0 or 1, as the comment at 98-101 allows.
- **Faults.** `CloneDrops`, `ForkDrops`, `ExecClears` and `ProcessWide`.
- **Refinement.** The module refines TestOracle with one process. The history variable `nnp0` keeps main's starting flag, because `ProcessWide` deserves a failure only when that flag was 0.

**Subreaper.tla / MC_Subreaper.tla**

- **Suite in one process.** The four subreaper tests run in one process, in the order given by the constant `Orders`, `Repeat` times.
- **Flag normalisation.** `Stored` is the kernel's normalisation of the flag: 42 and -42 both read back as 1.
- **Wait loop.** `OrphansWait` is one iteration of the loop. It is `WaitRetry` (RetryEINTR), `WaitReap`, or `WaitNoChild` (ECHILD, where the ASSERT returns).
- **Signal delivery.** `HandlerRuns` delivers a pending SIGCHLD. It sets `got_sigchild` if the handler is installed, and it may interrupt a blocked waitpid with EINTR.
- **zombie_test.** `AppFork`, `AppExit` and `OrphanExit` are test_app `zombie_test` together with the kernel's reparenting: to the test if it is a subreaper, otherwise to init, which reaps at once.
- **Faults.** `ThreadStartsClear`, `ForkInherits`, `NoReparent` and `NoOrphanSigchld`.
- **Refinement.** The module refines TestOracle with `Procs <- Tests`, for a schedule that runs each test once. A failed check counts against its test (`TestOf`), and a test's verdict is fixed once gtest moves past it. `Exposes` leaves out `NoOrphanSigchld`, because the `subreaper_sigchld` run shows the test cannot see it.

**AbstractSocket.tla / MC_AbstractSocket.tla / TestOracle.tla**

- **Test bodies as scripts.** Each test of `socket_unix_unbound_abstract.cc` is a `Script`: the calls it makes, in order, with the result each one asserts (`A`, ASSERT_*: a mismatch ends the test) or expects (`E`, EXPECT_*).
- **Actions.** There is one action per kind of call: `NewSocketPair`, `RegisterCleanup`, `Unshare`, `BindAuto`, `BindName`, `GetSockName`, `Listen`, `Connect`, `SetNonBlock`, `SkipIfDgram`.
- **Teardown.** `TearDown` closes the test's sockets and runs its Cleanup (setns back) on every return path.
- **Addresses.** An address is the sun_path bytes, shrunk to 7, plus the length the test passes.
- **Kernel names.** The kernel keys an abstract name by the bytes the length covers. Autobind formats a 20-bit counter as `%05x`. A listener admits backlog+1 pending connections. Each network namespace has its own name table, and a socket keeps the namespace it was created in.
- **Blocking.** A blocking connect to a full queue blocks. `Timeout` ends it.
- **Faults.** There are nine kernel faults, in `KnownBugs`.
- **Processes.** `NumProcs` processes each run one (test, type, flag) instance in the same namespace.

TestOracle is the abstract specification of a test: each process ends exactly once, with the verdict its kernel deserves. AbstractSocket implements it through the refinement `Oracle == INSTANCE TestOracle WITH verdict <- ..., expected <- ...`.

- The verdict is mapped from `pc` and `failed`.
- The deserved verdict comes from `Exposes`, the table of which faults each test is written to catch.

The checked property is `OracleSpec == Oracle!Spec`. It covers both safety (the right verdict, once) and liveness (every test ends).

**PortBind.tla / MC_PortBind.tla**

- **Instances.** `Procs` instances of the program run at once on one host. They share the kernel's port table with other programs (`Busy`).
- **Actions.** `ArgCountError` (43-46), `ConversionError` and `ParsePort` (47-53), `Socket` (17-22, where socket() may fail), `Bind` (23-37) and `Report` (59-60). `Exit` closes the instance's socket, as process exit does.
- **Conversions.** These are modelled as arithmetic, not as the identity:
  - `strtol` is glibc's base-10 scan: white space, sign, the longest digit run, end pointer, and ERANGE by comparing the digits with LONG_MAX.
  - The value is kept modulo 2^32 in two 16-bit limbs, because TLC's integers are 32-bit. `Int32` is the `(int)` cast.
  - `htons` converts to `uint16_t` and swaps bytes on a little-endian host. The kernel's `ntohs` undoes the swap.
- **Kernel.** `BindResults` gives an unused ephemeral port for 0, EACCES below 1024 without `Root`, and EADDRINUSE for a port in the table.

**PrctlAttrs.tla / MC_PrctlAttrs.tla**

- **Tests.** These are the six attribute tests, run one after another on the gtest thread in the order `Orders` gives. Each test is one action, because its body runs on one thread with no other actor: `NameInitialized`, `SetNameLongName`, `InvalidPrSetMM`, `SetGetDumpability` (with its Cleanup) and `RootDumpability`. ChildProcessName is the exception. It is split into `ChildProcessNameFork`, the forked child's `ChildCheckName`, and `ChildProcessNameWait`.
- **Shared state.** The process's `comm` and `dumpable` carry over from one test to the next.
- **Names.** A name is `[ch, len]`, because every name the tests build is a run of one character. `SetName` keeps 15 bytes, as strncpy_from_user does with TASK_COMM_LEN - 1.
- **AutoCapability.** It is folded into `InvalidPrSetMM`: it drops CAP_SYS_RESOURCE and restores it within the test.
- **Faults.** `NoInitialName`, `KeepsSixteen`, `ForkResetsName`, `NoCapCheck`, `GetReportsUser` and `RootAccepted`.
- **Refinement.** The module refines TestOracle with `Procs <- Tests`. The deserved verdict comes from `Exposes`, and from `Unrestorable`: a process started at SUID_DUMP_ROOT cannot pass SetGetDumpability on a conforming kernel, because its Cleanup re-sets a value PR_SET_DUMPABLE refuses. That failure is a defect of the test, stated in the abstract verdict so that the run checks it is the only one. NameInitialized catches `NoInitialName` only when it runs before both tests that set the name, which is a real order dependence of the suite.

## Runs

| Run | What it shows |
|---|---|
| `pdeathsig` (pass, 180 states) | TypeOK; OracleSpec: the test ends once, passes on a conforming kernel (main's final waitpid is released by the death signal), and fails under every combination of faults (a wrong signal, a hang ended by the timeout, or a failed TEST_CHECK) |
| `nonewprivs` (pass, 356 states) | OracleSpec from either initial flag: the test ends, passes on a conforming kernel, and fails under every fault combination it can see (a process-wide set goes unseen only when the flag was already set, the case the source comment admits) |
| `subreaper` (pass, 212 states) | in declared order, OracleSpec: under every SIGCHLD, EINTR and orphan timing each of the four tests ends once; each passes on a conforming kernel and fails exactly under the thread, fork or reparent fault it targets, in any combination; the wait loop never blocks for good |
| `abstract_socket` (pass, 3474 states) | all 9 tests x 6 socket kinds, a conforming kernel and each single fault: OracleSpec (each instance fails exactly under the faults it targets, and ends, even when a blocking connect hangs) and NamespaceRestored (the Cleanup returns BindConnectInSubNamespace to the initial namespace on every return path, including a failed second unshare) |
| `abstract_socket_concurrent` (pass, 720 states) | two processes running AddressAfterNull, AutoBindAddrInUse or BindConnectInSubNamespace at once: they never change each other's verdict |
| `abstract_socket_shared` (violation) | two processes running ListenZeroBacklog, or two running BindNothing, at once: the fixed name (`\0/foo_bar`, or the all-zero sun_path that BindNothing binds at 74-80) makes one fail with EADDRINUSE on a conforming kernel |
| `portbind` (pass, 1812 states) | two instances, each with one of ten command lines (no argument, trailing junk, no digits, 20 digits, 2^32 + 5000, 5000 - 2^32, a privileged port, a port another program holds, 5000 with space and sign): SuccessReportsBoundPort, every success message names the port the instance's own socket holds, whatever order the two bind and exit in |
| `portbind_wrap` (violation) | `""` and `"70536"` pass the conversion check, and the program prints success on 0 and 70536 while it holds an ephemeral port and 5000 |
| `prctl_attrs` (pass, 155520 states) | all 720 orders of the six attribute tests, initial dumpability 0 or 2 (SUID_DUMP_ROOT), a conforming kernel and every combination of the faults that share state (see Bounds): OracleSpec (every test ends with its deserved verdict; from SUID_DUMP_ROOT SetGetDumpability fails on a conforming kernel, because its Cleanup at line 201 re-sets 2, which PR_SET_DUMPABLE refuses, and no other test is affected) |
| `subreaper_shuffle` (violation) | under any other order SimpleSetGetChildSubreaper fails at line 222: the flag leaks from earlier tests |
| `subreaper_sigchld` (violation) | `EXPECT_TRUE(got_sigchild)` holds even when the kernel never signals the subreaper about the orphan: the SIGCHLD of test_app itself sets the flag |

Each property of a passing run has a mutant in PROJECT.json. A mutant is a plausible bug in the code that the property catches, for example:

- dropping RetryEINTR;
- not checking WTERMSIG;
- setting the flag on the calling thread;
- checking only WIFEXITED of the forked child in ChildProcessName.

### Bounds

- **Initial dumpability.** `prctl_attrs` starts from 0 and from 2. Starting from 1 behaves as from 0, because both are accepted by PR_SET_DUMPABLE and restored by the Cleanup. 2 is the start whose restore is refused.
- **Scenarios.** The scenarios are bounded by the code itself: a fixed number of tasks, and a loop of two waits.
- **Faults.** PDeathSig, NoNewPrivs and Subreaper explore every subset of their faults at once.
  - PrctlAttrs explores every combination of the three faults on comm, every combination of the two on dumpability, and `NoCapCheck` alone. Faults on different state cannot interact, because each test reads only its own attribute.
  - AbstractSocket explores single faults (next bullet).
- **Orders.** `MC_Subreaper` checks the declared order. `MC_Subreaper_shuffle` checks all 24 permutations of the four tests.
- **EINTR.** EINTR can occur on every delivery of SIGCHLD during the wait.
- **Sockets.** sun_path is 7 bytes instead of 108. That is enough for every address the tests build: a NUL, a name byte, and NULs up to the last two bytes that AddressAfterNull inspects. The autobind counter starts two values before it wraps, so autobind yields `fffff` (letters, which the hex check and the upper-case fault hinge on) and then `00000`.
- **Socket faults.** Faults are explored one at a time, because its `Exposes` table is a per-fault statement that combinations can break. With `MCFaultSets == SUBSET KnownBugs`, TLC shows `NulTerminated` masking `ZeroExtended` in AutoBindAddrInUse. The zero-extended address that getsockname returns is cut at its NUL, back to the autobind name, so the second bind still gets EADDRINUSE and the test passes. Other tests (ShortAddressNotExtended, GetSockNamePartialLength) still fail under that pair.
- **Port arguments.** Each command line of `portbind` stands for a class that main treats alike. Two instances are enough for the race on one port. ERANGE and the 2^32 wrap are reached through the explicit 20-digit and 10-digit arguments.

### Fairness

Every module assumes weak fairness of each task or process. The kernel schedules every runnable task.

- PDeathSig and AbstractSocket also assume weak fairness of the timeout, because the runner's timeout eventually fires on a hung test.
- PrctlAttrs assumes it of the gtest runner and the forked child.
- NoNewPrivs assumes it of its three threads and the child.
- Subreaper assumes it of the gtest thread, test_app, the orphan and signal delivery. A pending SIGCHLD is eventually delivered, and the gtest thread runs user code only after it.

## Not modelled

Every part of the three source files has a module. The comment above `bind_to_port` (main.c:15-16) says it binds localhost:port, but line 26 binds INADDR_ANY. PortBind models the code. Its port table is keyed by port alone, as a wildcard bind is, so it cannot tell the two apart. No property turns on the address.

The gtest runner, logging and /proc formatting are left out. Only their effect on test order and verdicts is modelled.

Every test module refines TestOracle, and every module but AbstractSocket explores faults in combination. AbstractSocket does not, for the reason given under Bounds.

**Composition of the prctl modules.** gtest runs every test of prctl.cc in one process, so PDeathSig, NoNewPrivs, PrctlAttrs and Subreaper are parts of one suite. They are checked separately because no state one of them leaves behind changes the outcome of another.

- **Shared within a module.** The state that carries over between tests is the comm, the dumpability, the child-subreaper flag and got_sigchild. Each is read only by the tests of the module that models it. PrctlAttrs and Subreaper already run their tests in sequence and in any order (`prctl_attrs`, `subreaper_shuffle`).
- **Children.** Every child a test forks is waited for by pid before the test ends: ChildProcessName, InForkedProcess, NoNewPrivs' ForkAndExec, and PDeathSig's final waitpid. So OrphansReparentedToSubreaper's `waitpid(-1)` never meets a child of another test.
- **Subreaper flag.** The flag does not change PDeathSig. The orphaned child is handed first to a live thread of the same thread group, so the subreaper is not used while main lives.
- **no_new_privs.** The flag stays on helper threads. Even under the `ProcessWide` fault, no other test's call depends on it.
- **Signals.** The SIGCHLD handler is restored by ScopedSigaction before the next test.

A composed model would add states and no new behaviour. socket_unix_unbound_abstract.cc and main.c are separate programs.

**Out of reach.** Three things remain outside the model:
- kernel internals beyond the behaviour each test relies on;
- the harness utilities, which are not under src/ and are folded into their callers;
- failures of fork, socket creation or memory that the tests only report through TEST_PCHECK or ASSERT. Such a failure ends the test or child at once, and the modules model it only where the code branches on it (`Socket` in PortBind).
