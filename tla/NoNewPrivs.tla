----------------------------- MODULE NoNewPrivs ----------------------------
(***************************************************************************)
(* PrctlTest.NoNewPrivsPreservedAcrossCloneForkAndExecve                   *)
(* (src/test/syscalls/linux/prctl.cc, 93-140) and the re-exec dispatch in  *)
(* main() (315-321).                                                       *)
(*                                                                         *)
(* Tasks: "main" (the gtest thread), "outer" (a ScopedThread that sets     *)
(* no_new_privs), "inner" (a ScopedThread started by outer, which          *)
(* ForkAndExecs /proc/self/exe with --prctl_no_new_privs_test_child) and   *)
(* "child" (the re-executed binary, exiting with 100 + the flag).          *)
(* no_new_privs is a per-task flag copied at clone and fork and kept       *)
(* across execve; the kernel may carry faults in that inheritance chain.   *)
(***************************************************************************)
EXTENDS Integers, FiniteSets

CONSTANT
  Bugs    \* the kernel faults to explore, a subset of KnownBugs

\* Kernel faults the scenario is meant to expose:
\*  CloneDrops   a new thread starts with no_new_privs = 0
\*  ForkDrops    a forked process starts with no_new_privs = 0
\*  ExecClears   execve clears no_new_privs
\*  ProcessWide  PR_SET_NO_NEW_PRIVS sets the flag of every thread
KnownBugs == {"CloneDrops", "ForkDrops", "ExecClears", "ProcessWide"}

ASSUME Bugs \subseteq KnownBugs

\* kPrctlNoNewPrivsTestChildExitBase
ExitBase == 100

Tasks == {"main", "outer", "inner", "child"}
Threads == {"main", "outer", "inner"}

Checks == {"OuterSees1", "OuterSees1AfterJoin", "InnerSees1", "ChildExit",
           "InnerSees1AfterWait", "MainUnchanged"}

VARIABLES
  pc,          \* pc[t]: where task t is in its code ("none": not created)
  nnp,         \* nnp[t]: the no_new_privs flag of task t
  noNewPrivs,  \* main's local no_new_privs: the flag read at the start
  exitCode,    \* the child's exit status, -1 while it has not exited
  failed,      \* the assertions that have failed so far
  verdict,     \* "running", "pass" or "fail"
  bug,         \* the set of kernel faults in effect
  nnp0         \* main's flag when the process started (history)

vars == <<pc, nnp, noNewPrivs, exitCode, failed, verdict, bug, nnp0>>

Labels == {"none", "get", "spawn", "join", "final", "set", "check", "check2",
           "fork", "wait", "exited", "reaped", "done"}

\* The gtest process may start with no_new_privs already set (the comment
\* at 98-101); the other tasks do not exist yet.
Init ==
  /\ pc = [t \in Tasks |-> IF t = "main" THEN "get" ELSE "none"]
  /\ nnp \in {[t \in Tasks |-> IF t = "main" THEN v ELSE 0] : v \in {0, 1}}
  /\ noNewPrivs = -1
  /\ exitCode = -1
  /\ failed = {}
  /\ verdict = "running"
  /\ bug \in SUBSET Bugs
  /\ nnp0 = nnp["main"]

\* The flag a task created from task t starts with (clone or fork+execve).
Cloned(t)  == IF "CloneDrops" \in bug THEN 0 ELSE nnp[t]
ForkExeced(t) == IF "ForkDrops" \in bug \/ "ExecClears" \in bug THEN 0 ELSE nnp[t]

\* EXPECT_THAT(prctl(PR_GET_NO_NEW_PRIVS, ...), SyscallSucceedsWithValue(v))
\* by task t: the check name is recorded when it fails.
Expect(t, v, check) == failed' = IF nnp[t] = v THEN failed ELSE failed \cup {check}

Goto(t, to) == pc' = [pc EXCEPT ![t] = to]

(* ------------------------------- main --------------------------------- *)

\* ASSERT_THAT(no_new_privs = prctl(PR_GET_NO_NEW_PRIVS, 0, 0, 0, 0), ...)
MainGet ==
  /\ pc["main"] = "get"
  /\ noNewPrivs' = nnp["main"]
  /\ Goto("main", "spawn")
  /\ UNCHANGED <<nnp, exitCode, failed, verdict, bug, nnp0>>

\* ScopedThread thread = ScopedThread([] { ... }): clone copies the flag.
MainSpawn ==
  /\ pc["main"] = "spawn"
  /\ pc' = [pc EXCEPT !["main"] = "join", !["outer"] = "set"]
  /\ nnp' = [nnp EXCEPT !["outer"] = Cloned("main")]
  /\ UNCHANGED <<noNewPrivs, exitCode, failed, verdict, bug, nnp0>>

\* thread.Join(); EXPECT_THAT(prctl(PR_GET_NO_NEW_PRIVS...), ...(no_new_privs))
MainJoinAndCheck ==
  /\ pc["main"] = "join"
  /\ pc["outer"] = "done"
  /\ Expect("main", noNewPrivs, "MainUnchanged")
  /\ verdict' = IF failed' = {} THEN "pass" ELSE "fail"
  /\ Goto("main", "final")
  /\ UNCHANGED <<nnp, noNewPrivs, exitCode, bug, nnp0>>

(* ------------------------------- outer -------------------------------- *)

\* Variant that sets the flag on the calling (main) thread as well.
OuterSetInCaller ==
  /\ pc["outer"] = "set"
  /\ nnp' = [nnp EXCEPT !["outer"] = 1, !["main"] = 1]
  /\ Goto("outer", "check")
  /\ UNCHANGED <<noNewPrivs, exitCode, failed, verdict, bug, nnp0>>

\* ASSERT_THAT(prctl(PR_SET_NO_NEW_PRIVS, 1, 0, 0, 0), SyscallSucceeds())
OuterSet ==
  /\ pc["outer"] = "set"
  /\ nnp' = IF "ProcessWide" \in bug
              THEN [t \in Tasks |-> IF t \in Threads THEN 1 ELSE nnp[t]]
              ELSE [nnp EXCEPT !["outer"] = 1]
  /\ Goto("outer", "check")
  /\ UNCHANGED <<noNewPrivs, exitCode, failed, verdict, bug, nnp0>>

\* EXPECT ... == 1; ScopedThread threadInner = ScopedThread([] { ... })
OuterCheckAndSpawn ==
  /\ pc["outer"] = "check"
  /\ Expect("outer", 1, "OuterSees1")
  /\ pc' = [pc EXCEPT !["outer"] = "join", !["inner"] = "check"]
  /\ nnp' = [nnp EXCEPT !["inner"] = Cloned("outer")]
  /\ UNCHANGED <<noNewPrivs, exitCode, verdict, bug, nnp0>>

\* threadInner.Join(); EXPECT ... == 1
OuterJoinAndCheck ==
  /\ pc["outer"] = "join"
  /\ pc["inner"] = "done"
  /\ Expect("outer", 1, "OuterSees1AfterJoin")
  /\ Goto("outer", "done")
  /\ UNCHANGED <<nnp, noNewPrivs, exitCode, verdict, bug, nnp0>>

(* ------------------------------- inner -------------------------------- *)

\* EXPECT ... == 1
InnerCheck ==
  /\ pc["inner"] = "check"
  /\ Expect("inner", 1, "InnerSees1")
  /\ Goto("inner", "fork")
  /\ UNCHANGED <<nnp, noNewPrivs, exitCode, verdict, bug, nnp0>>

\* ForkAndExec("/proc/self/exe", {..., "--prctl_no_new_privs_test_child"}):
\* returns once the child's execve has succeeded (execve_errno == 0,
\* child_pid > 0, so both ASSERTs hold).
InnerForkAndExec ==
  /\ pc["inner"] = "fork"
  /\ pc' = [pc EXCEPT !["inner"] = "wait", !["child"] = "get"]
  /\ nnp' = [nnp EXCEPT !["child"] = ForkExeced("inner")]
  /\ UNCHANGED <<noNewPrivs, exitCode, failed, verdict, bug, nnp0>>

\* RetryEINTR(waitpid)(child_pid, &status, 0); ASSERT_TRUE(WIFEXITED(status));
\* ASSERT_EQ(WEXITSTATUS(status), kPrctlNoNewPrivsTestChildExitBase + 1):
\* a failed ASSERT returns from the inner thread.
InnerWait ==
  /\ pc["inner"] = "wait"
  /\ pc["child"] = "exited"
  /\ IF exitCode = ExitBase + 1
       THEN /\ pc' = [pc EXCEPT !["inner"] = "check2", !["child"] = "reaped"]
            /\ UNCHANGED failed
       ELSE /\ pc' = [pc EXCEPT !["inner"] = "done", !["child"] = "reaped"]
            /\ failed' = failed \cup {"ChildExit"}
  /\ UNCHANGED <<nnp, noNewPrivs, exitCode, verdict, bug, nnp0>>

\* EXPECT ... == 1 after the child has been reaped.
InnerFinalCheck ==
  /\ pc["inner"] = "check2"
  /\ Expect("inner", 1, "InnerSees1AfterWait")
  /\ Goto("inner", "done")
  /\ UNCHANGED <<nnp, noNewPrivs, exitCode, verdict, bug, nnp0>>

(* ------------------------------- child -------------------------------- *)

\* main(): the flag is set, so
\* exit(kPrctlNoNewPrivsTestChildExitBase + prctl(PR_GET_NO_NEW_PRIVS, ...));
\* the exit status keeps the low 8 bits.
ChildMain ==
  /\ pc["child"] = "get"
  /\ exitCode' = (ExitBase + nnp["child"]) % 256
  /\ Goto("child", "exited")
  /\ UNCHANGED <<nnp, noNewPrivs, failed, verdict, bug, nnp0>>

\* The scenario has ended; the process stays as it is.
Finished == verdict # "running" /\ UNCHANGED vars

Next ==
  \/ MainGet \/ MainSpawn \/ MainJoinAndCheck
  \/ OuterSet \/ OuterCheckAndSpawn \/ OuterJoinAndCheck
  \/ InnerCheck \/ InnerForkAndExec \/ InnerWait \/ InnerFinalCheck
  \/ ChildMain
  \/ Finished

\* The three threads and the child are scheduled by the kernel: each keeps
\* running while it can.
Fairness ==
  /\ WF_vars(MainGet \/ MainSpawn \/ MainJoinAndCheck)
  /\ WF_vars(OuterSet \/ OuterCheckAndSpawn \/ OuterJoinAndCheck)
  /\ WF_vars(InnerCheck \/ InnerForkAndExec \/ InnerWait \/ InnerFinalCheck)
  /\ WF_vars(ChildMain)

Spec == Init /\ [][Next]_vars /\ Fairness

(* ------------------------------ properties ---------------------------- *)

\* The faults the test can expose: a process-wide PR_SET_NO_NEW_PRIVS is
\* seen only when main's flag was clear at the start (the case the comment
\* at 98-101 concedes).
Exposes == IF nnp0 = 1 THEN KnownBugs \ {"ProcessWide"} ELSE KnownBugs

Deserved == IF Exposes \cap bug = {} THEN "pass" ELSE "fail"

Oracle == INSTANCE TestOracle WITH Procs <- {"NoNewPrivs"},
            verdict <- [t \in {"NoNewPrivs"} |-> verdict],
            expected <- [t \in {"NoNewPrivs"} |-> Deserved]

\* The test ends, once, with the verdict its kernel deserves: on a
\* conforming kernel setting the flag on a helper thread never leaks into
\* the main thread and the flag reaches the inner thread, the forked child
\* and its execve'd image, whatever the interleaving of the four tasks;
\* every fault in the clone/fork/execve chain fails it; and the joins and
\* the waitpid never block for good.
OracleSpec == Oracle!Spec

=============================================================================
