------------------------------ MODULE Subreaper -----------------------------
(***************************************************************************)
(* The child-subreaper tests of src/test/syscalls/linux/prctl.cc (218-308) *)
(* run by gtest one after the other in one process:                        *)
(*   SimpleSetGet    SimpleSetGetChildSubreaper              (218-240)     *)
(*   ThreadsInherit  ThreadsInheritChildSubreaperBit         (242-251)     *)
(*   ProcsNoInherit  ProcessesDoNotInheritChildSubreaperBit  (253-264)     *)
(*   Orphans         OrphansReparentedToSubreaper            (266-308)     *)
(* The subreaper flag and the static got_sigchild belong to the process    *)
(* and outlive each test; nothing resets them.                             *)
(*                                                                         *)
(* In Orphans, "app" is test_app zombie_test (ForkAndExec'd) and "orphan"  *)
(* the child it forks and leaves behind.  The kernel hands the orphan to   *)
(* the nearest subreaper and sends SIGCHLD to a parent when its child      *)
(* exits or when an already-dead child is handed to it.  The handler is    *)
(* installed without SA_RESTART: a SIGCHLD handled while the test sleeps   *)
(* in waitpid makes waitpid fail with EINTR, which RetryEINTR retries.     *)
(***************************************************************************)
EXTENDS Integers, Sequences, FiniteSets

CONSTANTS
  Orders,  \* the orders gtest may run the four tests in (sequences)
  Repeat,  \* how many times the whole list runs (--gtest_repeat)
  Bugs     \* the kernel faults to explore, a subset of KnownBugs

\* Kernel faults:
\*  ThreadStartsClear  a new thread reads the subreaper flag as 0
\*  ForkInherits       a forked child starts with the parent's flag
\*  NoReparent         the orphan goes to init, not to the subreaper
\*  NoOrphanSigchld    the subreaper is not signalled for the orphan
KnownBugs == {"ThreadStartsClear", "ForkInherits", "NoReparent", "NoOrphanSigchld"}

Tests == {"SimpleSetGet", "ThreadsInherit", "ProcsNoInherit", "Orphans"}

ASSUME /\ Bugs \subseteq KnownBugs
       /\ Repeat \in Nat \ {0}
       /\ \A o \in Orders : o \in Seq(Tests) /\ Len(o) > 0

\* The values SimpleSetGetChildSubreaper sets, in order.
SetValues == <<1, 42, -42>>

\* The number of children OrphansReparentedToSubreaper waits for (295).
NumWaits == 2

Procs == {"app", "orphan"}

\* The first step of each test.
Entry == [SimpleSetGet |-> "sget0", ThreadsInherit |-> "tset",
          ProcsNoInherit |-> "pset", Orphans |-> "osetsub"]

VARIABLES
  order,       \* the order gtest runs the tests in
  cur,         \* the index of the running test in Schedule
  step,        \* where the gtest thread is in the running test
  k,           \* SimpleSetGet: the index of the next value of SetValues
  subreaper,   \* the process's child-subreaper flag as PR_GET reports it
  handler,     \* sigchild_handler is installed for SIGCHLD
  pending,     \* a SIGCHLD is pending for the test process
  eintr,       \* the test's waitpid was interrupted by the handler
  gotSigchild, \* the static atomic got_sigchild
  notified,    \* the children of this Orphans run the test got SIGCHLD for
  pc,          \* pc[p]: where app and the orphan are ("none", "fork", "exit")
  state,       \* state[p]: "none", "running", "zombie" or "reaped"
  ppid,        \* ppid[p]: "none", "test", "app" or "init"
  waits,       \* the iterations of the wait loop that have returned
  failed,      \* the assertions that have failed so far
  bug          \* the set of kernel faults in effect

vars == <<order, cur, step, k, subreaper, handler, pending, eintr, gotSigchild,
          notified, pc, state, ppid, waits, failed, bug>>
orphanVars == <<handler, pending, eintr, gotSigchild, notified, pc, state,
                ppid, waits>>

Schedule == [i \in 1..Len(order) * Repeat |-> order[((i - 1) % Len(order)) + 1]]
Current == Schedule[cur]

Checks == {"SimpleStartsClear", "SimpleReads1", "ThreadSees1", "ForkedSees0",
           "OrphanWait", "GotSigchild"}

TypeOK ==
  /\ order \in Orders
  /\ cur \in 1..Len(Schedule) + 1
  /\ step \in {"sget0", "sset", "tset", "tthread", "pset", "pfork", "osetsub",
               "osig", "ospawn", "owait", "ocheck", "end"}
  /\ k \in 1..Len(SetValues)
  /\ subreaper \in {0, 1}
  /\ handler \in BOOLEAN /\ pending \in BOOLEAN /\ eintr \in BOOLEAN
  /\ gotSigchild \in BOOLEAN
  /\ notified \subseteq Procs
  /\ pc \in [Procs -> {"none", "fork", "exit"}]
  /\ state \in [Procs -> {"none", "running", "zombie", "reaped"}]
  /\ ppid \in [Procs -> {"none", "test", "app", "init"}]
  /\ waits \in 0..NumWaits
  /\ failed \subseteq Checks
  /\ bug \subseteq Bugs

\* "Tasks start off not subreaper."
Init ==
  /\ order \in Orders
  /\ cur = 1
  /\ step = Entry[order[1]]
  /\ k = 1
  /\ subreaper = 0
  /\ handler = FALSE /\ pending = FALSE /\ eintr = FALSE
  /\ gotSigchild = FALSE
  /\ notified = {}
  /\ pc = [p \in Procs |-> "none"]
  /\ state = [p \in Procs |-> "none"]
  /\ ppid = [p \in Procs |-> "none"]
  /\ waits = 0
  /\ failed = {}
  /\ bug \in SUBSET Bugs

\* gtest moves on to the next test of the schedule.
StartNext ==
  /\ cur' = cur + 1
  /\ step' = IF cur + 1 <= Len(Schedule) THEN Entry[Schedule[cur + 1]] ELSE "end"
  /\ k' = 1

\* EXPECT_EQ(value, expected), recording check c when it fails.
Expect(value, expected, c) ==
  failed' = IF value = expected THEN failed ELSE failed \cup {c}

\* The gtest thread runs user code only once pending signals are handled.
TestRuns(t, s) == ~pending /\ step # "end" /\ Current = t /\ step = s

\* Variant of PR_SET_CHILD_SUBREAPER that stores the argument as given.
StoredRaw(v) == v

\* prctl(PR_SET_CHILD_SUBREAPER, v) stores whether v is non-zero (224-239:
\* 42 and -42 both read back as 1).
Stored(v) == IF v # 0 THEN 1 ELSE 0

(* ------------------------ SimpleSetGetChildSubreaper -------------------- *)

\* EXPECT_THAT(prctl(PR_GET_CHILD_SUBREAPER, &is_subreaper), ...);
\* EXPECT_EQ(is_subreaper, 0)  -- "Tasks start off not subreaper."
SimpleGetInitial ==
  /\ TestRuns("SimpleSetGet", "sget0")
  /\ Expect(subreaper, 0, "SimpleStartsClear")
  /\ step' = "sset"
  /\ UNCHANGED <<order, cur, k, subreaper, orphanVars, bug>>

\* PR_SET_CHILD_SUBREAPER with 1, 42, -42 in turn, each followed by
\* PR_GET_CHILD_SUBREAPER and EXPECT_EQ(is_subreaper, 1).
SimpleSetAndGet ==
  /\ TestRuns("SimpleSetGet", "sset")
  /\ subreaper' = Stored(SetValues[k])
  /\ Expect(subreaper', 1, "SimpleReads1")
  /\ IF k < Len(SetValues)
       THEN /\ k' = k + 1 /\ UNCHANGED <<cur, step>>
       ELSE StartNext
  /\ UNCHANGED <<order, orphanVars, bug>>

(* ---------------------- ThreadsInheritChildSubreaperBit ----------------- *)

\* ASSERT_THAT(prctl(PR_SET_CHILD_SUBREAPER, 1), SyscallSucceeds())
ThreadsSet ==
  /\ TestRuns("ThreadsInherit", "tset")
  /\ subreaper' = Stored(1)
  /\ step' = "tthread"
  /\ UNCHANGED <<order, cur, k, failed, orphanVars, bug>>

\* ScopedThread: the new thread reads the flag, EXPECT_EQ(is_subreaper, 1);
\* the thread is joined when the test's scope ends.
ThreadsCheck ==
  /\ TestRuns("ThreadsInherit", "tthread")
  /\ Expect(IF "ThreadStartsClear" \in bug THEN 0 ELSE subreaper, 1, "ThreadSees1")
  /\ StartNext
  /\ UNCHANGED <<order, subreaper, orphanVars, bug>>

(* ------------------- ProcessesDoNotInheritChildSubreaperBit ------------- *)

\* ASSERT_THAT(prctl(PR_SET_CHILD_SUBREAPER, 1), SyscallSucceeds())
ProcsSet ==
  /\ TestRuns("ProcsNoInherit", "pset")
  /\ subreaper' = Stored(1)
  /\ step' = "pfork"
  /\ UNCHANGED <<order, cur, k, failed, orphanVars, bug>>

\* InForkedProcess(rest): the child TEST_CHECKs is_subreaper == 0 and the
\* parent EXPECTs its exit status to be 0.
ProcsForkCheck ==
  /\ TestRuns("ProcsNoInherit", "pfork")
  /\ Expect(IF "ForkInherits" \in bug THEN subreaper ELSE 0, 0, "ForkedSees0")
  /\ StartNext
  /\ UNCHANGED <<order, subreaper, orphanVars, bug>>

(* ------------------------ OrphansReparentedToSubreaper ------------------ *)

\* Children of the test that waitpid(-1) can still return, and the dead ones.
Children == {p \in Procs : ppid[p] = "test" /\ state[p] \in {"running", "zombie"}}
Zombies  == {p \in Children : state[p] = "zombie"}

\* The test's scope ends: ScopedSigaction restores the old SIGCHLD action.
OrphansEnd == handler' = FALSE /\ StartNext

\* ASSERT_THAT(prctl(PR_SET_CHILD_SUBREAPER, 1), SyscallSucceeds())
OrphansSetSubreaper ==
  /\ TestRuns("Orphans", "osetsub")
  /\ subreaper' = Stored(1)
  /\ step' = "osig"
  /\ UNCHANGED <<order, cur, k, failed, orphanVars, bug>>

\* ScopedSigaction(SIGCHLD, sa) with sa_sigaction = sigchild_handler.
OrphansSigaction ==
  /\ TestRuns("Orphans", "osig")
  /\ handler' = TRUE
  /\ step' = "ospawn"
  /\ UNCHANGED <<order, cur, k, subreaper, pending, eintr, gotSigchild,
                 notified, pc, state, ppid, waits, failed, bug>>

\* ForkAndExec(path, {path, "zombie_test"}, ...); ASSERT_EQ(execve_errno, 0)
OrphansForkAndExec ==
  /\ TestRuns("Orphans", "ospawn")
  /\ pc' = [p \in Procs |-> IF p = "app" THEN "fork" ELSE "none"]
  /\ state' = [p \in Procs |-> IF p = "app" THEN "running" ELSE "none"]
  /\ ppid' = [p \in Procs |-> IF p = "app" THEN "test" ELSE "none"]
  /\ notified' = {}
  /\ waits' = 0
  /\ step' = "owait"
  /\ UNCHANGED <<order, cur, k, subreaper, handler, pending, eintr,
                 gotSigchild, failed, bug>>

\* Variant of the wait without RetryEINTR: EINTR fails the ASSERT.
WaitRetryNoRetryEINTR ==
  /\ eintr
  /\ eintr' = FALSE
  /\ failed' = failed \cup {"OrphanWait"}
  /\ OrphansEnd
  /\ UNCHANGED <<state, waits>>

\* RetryEINTR: a waitpid the handler interrupted is issued again.
WaitRetry ==
  /\ eintr
  /\ eintr' = FALSE
  /\ UNCHANGED <<cur, step, k, handler, state, waits, failed>>

\* waitpid(-1) returns a dead child and reaps it; app's status is 0
\* (zombie_test exits cleanly), so EXPECT_EQ(status, 0) holds.
WaitReap ==
  /\ ~eintr /\ Zombies # {}
  /\ \E c \in Zombies : state' = [state EXCEPT ![c] = "reaped"]
  /\ waits' = waits + 1
  /\ step' = IF waits + 1 = NumWaits THEN "ocheck" ELSE "owait"
  /\ UNCHANGED <<cur, k, handler, eintr, failed>>

\* No child left: waitpid fails with ECHILD and the ASSERT ends the test.
WaitNoChild ==
  /\ ~eintr /\ Children = {}
  /\ failed' = failed \cup {"OrphanWait"}
  /\ OrphansEnd
  /\ UNCHANGED <<state, eintr, waits>>

\* One iteration of the loop at 295-304,
\*   ASSERT_THAT(wait_pid = RetryEINTR(waitpid)(-1, &status, 0), ...);
\* with children but none dead the call blocks (the action is disabled).
OrphansWait ==
  /\ TestRuns("Orphans", "owait")
  /\ WaitRetry \/ WaitReap \/ WaitNoChild
  /\ UNCHANGED <<order, subreaper, pending, gotSigchild, notified, pc, ppid, bug>>

\* EXPECT_TRUE(got_sigchild); then the scope ends.
OrphansCheck ==
  /\ TestRuns("Orphans", "ocheck")
  /\ Expect(gotSigchild, TRUE, "GotSigchild")
  /\ OrphansEnd
  /\ UNCHANGED <<order, subreaper, pending, eintr, gotSigchild, notified, pc,
                 state, ppid, waits, bug>>

\* A pending SIGCHLD is delivered: sigchild_handler sets got_sigchild.  If
\* the test is in waitpid the call may fail with EINTR instead of returning
\* the child (a caught signal without SA_RESTART; whether the kernel sees
\* the signal or the dead child first is not fixed).  Once ScopedSigaction
\* has restored the default action the signal is discarded.
HandlerRuns ==
  /\ pending
  /\ pending' = FALSE
  /\ gotSigchild' = (gotSigchild \/ handler)
  /\ eintr' \in {FALSE, handler /\ step = "owait"}
  /\ UNCHANGED <<order, cur, step, k, subreaper, handler, notified, pc, state,
                 ppid, waits, failed, bug>>

(* --------------------------- test_app zombie_test ----------------------- *)

\* zombie_test forks the child it will orphan.
AppFork ==
  /\ pc["app"] = "fork"
  /\ pc' = [pc EXCEPT !["app"] = "exit", !["orphan"] = "exit"]
  /\ state' = [state EXCEPT !["orphan"] = "running"]
  /\ ppid' = [ppid EXCEPT !["orphan"] = "app"]
  /\ UNCHANGED <<order, cur, step, k, subreaper, handler, pending, eintr,
                 gotSigchild, notified, waits, failed, bug>>

\* zombie_test exits with status 0 without waiting: the test gets SIGCHLD;
\* the orphan is handed to the subreaper (or to init), and if it is already
\* dead its new parent is signalled (init reaps it at once).
AppExit ==
  /\ pc["app"] = "exit"
  /\ LET heir == IF subreaper = 1 /\ "NoReparent" \notin bug THEN "test" ELSE "init"
         dead == state["orphan"] = "zombie"
         toldOrphan == dead /\ heir = "test" /\ "NoOrphanSigchld" \notin bug
     IN /\ ppid' = [ppid EXCEPT !["orphan"] = heir]
        /\ state' = [state EXCEPT !["app"] = "zombie",
                                  !["orphan"] = IF dead /\ heir = "init"
                                                  THEN "reaped" ELSE @]
        /\ notified' = notified \cup {"app"} \cup (IF toldOrphan THEN {"orphan"} ELSE {})
  /\ pending' = TRUE
  /\ pc' = [pc EXCEPT !["app"] = "none"]
  /\ UNCHANGED <<order, cur, step, k, subreaper, handler, eintr, gotSigchild,
                 waits, failed, bug>>

\* The orphan exits: init reaps it at once; under app (which never waits) or
\* under the test it stays a zombie, and the test is signalled.
OrphanExit ==
  /\ pc["orphan"] = "exit"
  /\ pc' = [pc EXCEPT !["orphan"] = "none"]
  /\ state' = [state EXCEPT !["orphan"] = IF ppid["orphan"] = "init"
                                            THEN "reaped" ELSE "zombie"]
  /\ IF ppid["orphan"] = "test" /\ "NoOrphanSigchld" \notin bug
       THEN pending' = TRUE /\ notified' = notified \cup {"orphan"}
       ELSE UNCHANGED <<pending, notified>>
  /\ UNCHANGED <<order, cur, step, k, subreaper, handler, eintr, gotSigchild,
                 ppid, waits, failed, bug>>

\* The schedule has run out; the process stays as it is.
Finished == step = "end" /\ UNCHANGED vars

Next ==
  \/ SimpleGetInitial \/ SimpleSetAndGet
  \/ ThreadsSet \/ ThreadsCheck
  \/ ProcsSet \/ ProcsForkCheck
  \/ OrphansSetSubreaper \/ OrphansSigaction \/ OrphansForkAndExec
  \/ OrphansWait \/ OrphansCheck \/ HandlerRuns
  \/ AppFork \/ AppExit \/ OrphanExit
  \/ Finished

\* The gtest thread, test_app, the orphan and the kernel's signal delivery
\* are each scheduled by the kernel: each keeps running while it can.
TestStep ==
  \/ SimpleGetInitial \/ SimpleSetAndGet
  \/ ThreadsSet \/ ThreadsCheck
  \/ ProcsSet \/ ProcsForkCheck
  \/ OrphansSetSubreaper \/ OrphansSigaction \/ OrphansForkAndExec
  \/ OrphansWait \/ OrphansCheck

Fairness ==
  /\ WF_vars(TestStep)
  /\ WF_vars(AppFork \/ AppExit)
  /\ WF_vars(OrphanExit)
  /\ WF_vars(HandlerRuns)

Spec == Init /\ [][Next]_vars /\ Fairness

(* ------------------------------- properties ---------------------------- *)

\* On a conforming kernel no assertion of the four tests fails, whatever the
\* order of app's exit, the orphan's exit, SIGCHLD handling (and the EINTR it
\* causes) and the waits -- for every test order and repetition in Orders
\* and Repeat, since the flag and got_sigchild carry over between tests.
NoSpuriousFailure ==
  bug = {} => failed = {}

\* The test each check belongs to.
TestOf == [SimpleStartsClear |-> "SimpleSetGet", SimpleReads1 |-> "SimpleSetGet",
           ThreadSees1 |-> "ThreadsInherit", ForkedSees0 |-> "ProcsNoInherit",
           OrphanWait |-> "Orphans", GotSigchild |-> "Orphans"]

\* The faults each test is written to expose.  A dropped SIGCHLD for the
\* orphan is not among them: app's own exit also sets got_sigchild
\* (see OrphanNotified).
Exposes == [SimpleSetGet |-> {}, ThreadsInherit |-> {"ThreadStartsClear"},
            ProcsNoInherit |-> {"ForkInherits"}, Orphans |-> {"NoReparent"}]

\* A test's verdict once gtest has moved past it.  Read per test, this
\* assumes each test runs once (Repeat = 1, no test listed twice).
Verdict(t) ==
  IF \E i \in 1..cur - 1 : Schedule[i] = t
  THEN IF \E c \in failed : TestOf[c] = t THEN "fail" ELSE "pass"
  ELSE "running"

Deserved(t) == IF Exposes[t] \cap bug = {} THEN "pass" ELSE "fail"

Oracle == INSTANCE TestOracle WITH Procs <- Tests,
            verdict <- [t \in Tests |-> Verdict(t)],
            expected <- [t \in Tests |-> Deserved(t)]

\* In gtest's declared order, each subreaper test ends once with the
\* verdict its kernel deserves: it passes on a conforming kernel whatever
\* the order of app's exit, the orphan's exit, SIGCHLD handling (and the
\* EINTR it causes in waitpid) and the waits, fails exactly under the
\* fault it targets, and OrphansReparentedToSubreaper's wait loop never
\* blocks for good.
OracleSpec == Oracle!Spec

\* EXPECT_TRUE(got_sigchild) passes only if the subreaper was signalled for
\* the reparented orphan, as the comment at 306 ("We should have gotten a
\* SIGCHILD for the reparented orphan") says it establishes.
OrphanNotified ==
  step = "ocheck" /\ gotSigchild => "orphan" \in notified

=============================================================================
