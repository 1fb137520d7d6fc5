----------------------------- MODULE PDeathSig -----------------------------
(***************************************************************************)
(* PrctlTest.PDeathSig (src/test/syscalls/linux/prctl.cc, 142-186).        *)
(*                                                                         *)
(* Three actors run concurrently:                                          *)
(*   "main"   the gtest thread: starts a ScopedThread, joins it, then      *)
(*            waits for the child and expects it killed by SIGKILL;        *)
(*   "thread" the ScopedThread: forks the child, waits for its SIGSTOP,    *)
(*            detaches from it and returns;                                *)
(*   "child"  the forked process: arms PR_SET_PDEATHSIG = SIGKILL, checks  *)
(*            it, PTRACE_TRACEMEs, raises SIGSTOP and sleeps forever.      *)
(* The kernel's part (ptrace stops, detach, the parent-death signal sent   *)
(* when the parent THREAD exits) is folded into the actions that trigger   *)
(* it.  The kernel may carry any of the faults the scenario is written to  *)
(* expose; the external test runner's timeout ends a hung scenario.        *)
(***************************************************************************)
EXTENDS Naturals, FiniteSets

CONSTANT
  Bugs    \* the kernel faults to explore, a subset of KnownBugs

\* Kernel faults the scenario is meant to expose:
\*  NotOnThreadExit  no signal when the parent thread exits (e.g. only at
\*                   process exit, the case the comment at 145-146 names)
\*  GetWrong         PR_GET_PDEATHSIG does not report the armed signal
\*  WrongSignal      a signal other than the armed one is delivered
\*  StopUnreported   the tracee's signal-delivery-stop never reaches waitpid
KnownBugs == {"NotOnThreadExit", "GetWrong", "WrongSignal", "StopUnreported"}

ASSUME Bugs \subseteq KnownBugs

Actors == {"main", "thread", "child"}

\* Assertions of the scenario that can fail (named after what they expect).
Checks == {"ThreadSawStop", "ThreadDetach",
           "MainWait", "MainSawKill"}

VARIABLES
  pc,         \* pc[a]: where actor a is in its code
  proc,       \* the child process: "none", "running", "stopped", "zombie", "reaped"
  status,     \* how the child terminated: "none", "exit1", "KILL", "TERM"
  pdeathsig,  \* the child's parent-death signal: "none" or "KILL"
  traced,     \* the child is ptrace-attached to the thread
  stopReport, \* a ptrace stop of the child not yet consumed by a waitpid
  parent,     \* the thread the child's parent-death signal is tied to
  failed,     \* the assertions that have failed so far
  verdict,    \* "running", "pass", "fail" or "timeout"
  bug         \* the set of kernel faults in effect ({} : a conforming kernel)

vars == <<pc, proc, status, pdeathsig, traced, stopReport, parent, failed,
          verdict, bug>>

TypeOK ==
  /\ pc \in [Actors -> {"spawn", "join", "wait", "idle", "fork", "detach",
                        "exiting", "gone", "set", "get", "traceme", "raise",
                        "sleep", "done"}]
  /\ proc \in {"none", "running", "stopped", "zombie", "reaped"}
  /\ status \in {"none", "exit1", "KILL", "TERM"}
  /\ pdeathsig \in {"none", "KILL"}
  /\ traced \in BOOLEAN
  /\ stopReport \in BOOLEAN
  /\ parent \in {"thread", "main"}
  /\ failed \subseteq Checks
  /\ verdict \in {"running", "pass", "fail", "timeout"}
  /\ bug \subseteq Bugs

Init ==
  /\ pc = [a \in Actors |-> IF a = "main" THEN "spawn" ELSE "idle"]
  /\ proc = "none"
  /\ status = "none"
  /\ pdeathsig = "none"
  /\ traced = FALSE
  /\ stopReport = FALSE
  /\ parent = "thread"
  /\ failed = {}
  /\ verdict = "running"
  /\ bug \in SUBSET Bugs

Goto(a, from, to) == pc[a] = from /\ pc' = [pc EXCEPT ![a] = to]

\* TEST_CHECK failing in the child: the child _exits with status 1.
ChildFails == /\ pc' = [pc EXCEPT !["child"] = "done"]
              /\ proc' = "zombie" /\ status' = "exit1"

(* ---------------------------- main thread ----------------------------- *)

\* ScopedThread thread = ScopedThread([&] { ... });
MainSpawn ==
  /\ pc["main"] = "spawn"
  /\ pc' = [pc EXCEPT !["main"] = "join", !["thread"] = "fork"]
  /\ UNCHANGED <<proc, status, pdeathsig, traced, stopReport, parent, failed,
                 verdict, bug>>

\* thread.Join() returns once the thread function has returned; the
\* kernel-side exit of the thread (and so the death signal) may come later.
MainJoin ==
  /\ pc["main"] = "join"
  /\ pc["thread"] \in {"exiting", "gone"}
  /\ pc' = [pc EXCEPT !["main"] = "wait"]
  /\ UNCHANGED <<proc, status, pdeathsig, traced, stopReport, parent, failed,
                 verdict, bug>>

\* Variant that reaps the child without looking at how it died.
MainWaitNoSignalCheck ==
  /\ pc["main"] = "wait"
  /\ proc \in {"zombie", "reaped"}
  /\ proc' = "reaped"
  /\ failed' = IF proc = "reaped" THEN failed \cup {"MainWait"} ELSE failed
  /\ verdict' = IF failed' = {} THEN "pass" ELSE "fail"
  /\ pc' = [pc EXCEPT !["main"] = "done"]
  /\ UNCHANGED <<status, pdeathsig, traced, stopReport, parent, bug>>

\* waitpid(child_pid, &status, 0) blocks until the child is a zombie; it
\* fails (ECHILD) if the thread already reaped it.  Then
\* EXPECT_TRUE(WIFSIGNALED(status) && WTERMSIG(status) == SIGKILL).
MainWait ==
  /\ pc["main"] = "wait"
  /\ proc \in {"zombie", "reaped"}
  /\ proc' = "reaped"
  /\ failed' = failed \cup
                 (IF proc = "reaped" THEN {"MainWait"}
                  ELSE IF status # "KILL" THEN {"MainSawKill"} ELSE {})
  /\ verdict' = IF failed' = {} THEN "pass" ELSE "fail"
  /\ pc' = [pc EXCEPT !["main"] = "done"]
  /\ UNCHANGED <<status, pdeathsig, traced, stopReport, parent, bug>>

(* ---------------------------- scoped thread --------------------------- *)

\* child_pid = fork(); the child's parent is this thread.
ThreadFork ==
  /\ pc["thread"] = "fork"
  /\ pc' = [pc EXCEPT !["thread"] = "wait", !["child"] = "set"]
  /\ proc' = "running"
  /\ UNCHANGED <<status, pdeathsig, traced, stopReport, parent, failed,
                 verdict, bug>>

\* waitpid(child_pid, &status, 0) returns the SIGSTOP stop, or the child's
\* exit if it died first (then EXPECT WIFSTOPPED fails and the child is
\* reaped here).
ThreadWaitStop ==
  /\ pc["thread"] = "wait"
  /\ \/ /\ stopReport
        /\ stopReport' = FALSE
        /\ UNCHANGED <<proc, failed>>
     \/ /\ proc = "zombie"
        /\ proc' = "reaped"
        /\ failed' = failed \cup {"ThreadSawStop"}
        /\ UNCHANGED stopReport
  /\ pc' = [pc EXCEPT !["thread"] = "detach"]
  /\ UNCHANGED <<status, pdeathsig, traced, parent, verdict, bug>>

\* ASSERT_THAT(ptrace(PTRACE_DETACH, child_pid, 0, 0), SyscallSucceeds()):
\* succeeds only on a ptrace-stopped tracee, which then resumes; a failed
\* ASSERT returns from the thread function.
ThreadDetach ==
  /\ pc["thread"] = "detach"
  /\ IF traced /\ proc = "stopped"
       THEN /\ traced' = FALSE /\ proc' = "running"
            /\ UNCHANGED failed
       ELSE /\ failed' = failed \cup {"ThreadDetach"}
            /\ UNCHANGED <<traced, proc>>
  /\ pc' = [pc EXCEPT !["thread"] = "exiting"]
  /\ UNCHANGED <<status, pdeathsig, stopReport, parent, verdict, bug>>

\* Variant that hands the orphaned child to init.
HeirInit == "init"

\* When the parent thread exits, the child is reparented to another thread
\* of the same thread group, main, which then waits for it (180-183).
Heir == "main"

\* The thread's kernel exit: a remaining tracee is detached and resumed, the
\* child is reparented inside the thread group, and the parent-death signal
\* is sent to it (the kernel fault may drop or change that signal).
ThreadExit ==
  /\ pc["thread"] = "exiting"
  /\ LET sent == /\ parent = "thread" /\ pdeathsig = "KILL"
                 /\ proc \in {"running", "stopped"}
                 /\ "NotOnThreadExit" \notin bug
     IN /\ proc' = IF sent THEN "zombie"
                   ELSE IF proc = "stopped" /\ traced THEN "running" ELSE proc
        /\ status' = IF sent THEN (IF "WrongSignal" \in bug THEN "TERM" ELSE "KILL")
                     ELSE status
        /\ pc' = [pc EXCEPT !["thread"] = "gone",
                            !["child"] = IF sent THEN "done" ELSE @]
  /\ traced' = FALSE
  /\ parent' = Heir
  /\ UNCHANGED <<pdeathsig, stopReport, failed, verdict, bug>>

(* -------------------------------- child ------------------------------- *)

\* TEST_CHECK(prctl(PR_SET_PDEATHSIG, SIGKILL) >= 0)
ChildSetSig ==
  /\ Goto("child", "set", "get")
  /\ pdeathsig' = "KILL"
  /\ UNCHANGED <<proc, status, traced, stopReport, parent, failed, verdict,
                 bug>>

\* TEST_CHECK(prctl(PR_GET_PDEATHSIG, &signo) >= 0); TEST_CHECK(signo == SIGKILL)
ChildGetSig ==
  /\ pc["child"] = "get"
  /\ LET signo == IF "GetWrong" \in bug THEN "none" ELSE pdeathsig
     IN IF signo = "KILL"
          THEN /\ pc' = [pc EXCEPT !["child"] = "traceme"]
               /\ UNCHANGED <<proc, status>>
          ELSE ChildFails
  /\ UNCHANGED <<pdeathsig, traced, stopReport, parent, failed, verdict, bug>>

\* TEST_CHECK(ptrace(PTRACE_TRACEME, 0, 0, 0) >= 0): the parent traces us.
ChildTraceMe ==
  /\ Goto("child", "traceme", "raise")
  /\ traced' = TRUE
  /\ UNCHANGED <<proc, status, pdeathsig, stopReport, parent, failed, verdict,
                 bug>>

\* TEST_CHECK(raise(SIGSTOP) == 0): a traced child enters
\* signal-delivery-stop and its tracer is notified; then it sleeps forever.
ChildRaise ==
  /\ Goto("child", "raise", "sleep")
  /\ proc' = "stopped"
  /\ stopReport' = ("StopUnreported" \notin bug)
  /\ UNCHANGED <<status, pdeathsig, traced, parent, failed, verdict, bug>>

(* ------------------------------ scenario ------------------------------ *)

Step ==
  \/ MainSpawn \/ MainJoin \/ MainWait
  \/ ThreadFork \/ ThreadWaitStop \/ ThreadDetach \/ ThreadExit
  \/ ChildSetSig \/ ChildGetSig \/ ChildTraceMe \/ ChildRaise

\* The external test runner kills a scenario in which nobody can move.
Timeout ==
  /\ verdict = "running"
  /\ ~ENABLED Step
  /\ verdict' = "timeout"
  /\ UNCHANGED <<pc, proc, status, pdeathsig, traced, stopReport, parent,
                 failed, bug>>

\* The scenario has ended; the process stays as it is.
Finished == verdict # "running" /\ UNCHANGED vars

Next == Step \/ Timeout \/ Finished

\* Threads and processes are scheduled by the kernel: each keeps running.
Fairness ==
  /\ WF_vars(MainSpawn \/ MainJoin \/ MainWait)
  /\ WF_vars(ThreadFork \/ ThreadWaitStop \/ ThreadDetach \/ ThreadExit)
  /\ WF_vars(ChildSetSig \/ ChildGetSig \/ ChildTraceMe \/ ChildRaise)
  /\ WF_vars(Timeout)

Spec == Init /\ [][Next]_vars /\ Fairness

(* ------------------------------ properties ---------------------------- *)

\* A hung scenario ended by the runner's timeout counts as a failure.
Outcome == IF verdict = "timeout" THEN "fail" ELSE verdict

\* Every fault the scenario is written for should fail it.
Deserved == IF bug = {} THEN "pass" ELSE "fail"

Oracle == INSTANCE TestOracle WITH Procs <- {"PDeathSig"},
            verdict <- [t \in {"PDeathSig"} |-> Outcome],
            expected <- [t \in {"PDeathSig"} |-> Deserved]

\* The scenario ends, once, with the verdict its kernel deserves: on a
\* conforming kernel no interleaving of the thread's fork/wait/detach, the
\* child's arm/trace/stop and main's join/wait fails an assertion, and
\* main's final waitpid is eventually released by the parent-death
\* SIGKILL; every fault (a missing or wrong signal, a wrong
\* PR_GET_PDEATHSIG, an unreported stop) fails it or hangs it until the
\* runner's timeout.
OracleSpec == Oracle!Spec

=============================================================================
