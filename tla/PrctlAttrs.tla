----------------------------- MODULE PrctlAttrs -----------------------------
(***************************************************************************)
(* The process-attribute tests of src/test/syscalls/linux/prctl.cc:        *)
(* NameInitialized, SetNameLongName, ChildProcessName (52-91),             *)
(* InvalidPrSetMM, SetGetDumpability and RootDumpability (188-216).        *)
(*                                                                         *)
(* They run one after another on the gtest thread of one process, in the   *)
(* order given by Orders, and share that process's comm and dumpability:   *)
(* what one test leaves behind, the next one starts from.                  *)
(* Each test is one action (its body runs on one thread with no other      *)
(* actor), except ChildProcessName, whose forked child is a second actor.  *)
(* A name is abstracted to what the tests tell apart: every name they      *)
(* build is a run of one character, so it is [ch, len].                    *)
(***************************************************************************)
EXTENDS Integers, Sequences, FiniteSets

CONSTANTS
  Orders,      \* the test orders to explore (sequences of Tests)
  FaultSets,   \* the sets of kernel faults to explore
  ExeName,     \* the comm the process starts with (from its executable)
  InitDumpable \* the dumpabilities the process may start with

Tests == {"NameInitialized", "SetNameLongName", "ChildProcessName",
          "InvalidPrSetMM", "SetGetDumpability", "RootDumpability"}

\* Kernel faults the tests are written to expose:
\*  NoInitialName   exec leaves comm empty
\*  KeepsSixteen    PR_SET_NAME keeps TASK_COMM_LEN bytes, with no NUL
\*  ForkResetsName  a forked child's comm is the executable's name
\*  NoCapCheck      PR_SET_MM is not refused without CAP_SYS_RESOURCE
\*  GetReportsUser  PR_GET_DUMPABLE always returns SUID_DUMP_USER
\*  RootAccepted    PR_SET_DUMPABLE accepts SUID_DUMP_ROOT
KnownBugs == {"NoInitialName", "KeepsSixteen", "ForkResetsName",
              "NoCapCheck", "GetReportsUser", "RootAccepted"}

ASSUME FaultSets \subseteq SUBSET KnownBugs
ASSUME InitDumpable \subseteq {0, 1, 2}

SUID_DUMP_DISABLE == 0
SUID_DUMP_USER == 1
SUID_DUMP_ROOT == 2
EPERM == 1
EINVAL == 22
TASK_COMM_LEN == 16

\* A string of n copies of the character c.
Run(c, n) == [ch |-> c, len |-> n]

VARIABLES
  order,      \* the order gtest runs the tests in
  ti,         \* the index in order of the test running now
  comm,       \* the gtest thread's comm
  dumpable,   \* the process's dumpability
  dumpable0,  \* its dumpability when the process started
  child,      \* ChildProcessName's child: "none", "running", "exit0", "exit1"
  childComm,  \* the child's comm
  failed,     \* the tests that have failed
  bug         \* the kernel faults in effect

vars == <<order, ti, comm, dumpable, dumpable0, child, childComm,
          failed, bug>>

\* The process was started by exec of ExeName, with the dumpability its
\* launcher gave it: SUID_DUMP_USER normally, SUID_DUMP_DISABLE or, under
\* fs.suid_dumpable = 2, SUID_DUMP_ROOT after a credential change.
Init ==
  /\ order \in Orders
  /\ ti = 1
  /\ bug \in FaultSets
  /\ comm = IF "NoInitialName" \in bug THEN Run(ExeName.ch, 0) ELSE ExeName
  /\ dumpable \in InitDumpable
  /\ dumpable0 = dumpable
  /\ child = "none"
  /\ childComm = Run(ExeName.ch, 0)
  /\ failed = {}

Current == order[ti]

\* The test ends; ok is the conjunction of its ASSERTs and EXPECTs.
EndTest(ok) ==
  /\ ti' = ti + 1
  /\ failed' = IF ok THEN failed ELSE failed \cup {Current}

(* ------------------------------- kernel ---------------------------------- *)

\* PR_SET_NAME: strncpy_from_user(comm, name, TASK_COMM_LEN - 1).
SetName(s) ==
  LET keep == IF "KeepsSixteen" \in bug THEN TASK_COMM_LEN ELSE TASK_COMM_LEN - 1
  IN  Run(s.ch, IF s.len < keep THEN s.len ELSE keep)

\* PR_SET_DUMPABLE(v): 0 and 1 are stored; anything else is EINVAL.
SetDumpableOk(v) ==
  v \in {SUID_DUMP_DISABLE, SUID_DUMP_USER}
  \/ (v = SUID_DUMP_ROOT /\ "RootAccepted" \in bug)

\* PR_GET_DUMPABLE when the stored value is d.
GetDumpable(d) == IF "GetReportsUser" \in bug THEN SUID_DUMP_USER ELSE d

(* -------------------------------- tests ---------------------------------- *)

\* PR_GET_NAME into a zeroed 20-byte buffer; ASSERT_NE(std::string(name), "").
NameInitialized ==
  /\ Current = "NameInitialized"
  /\ EndTest(comm.len # 0)
  /\ UNCHANGED <<order, comm, dumpable, dumpable0, child, childComm, bug>>

\* PR_SET_NAME of 20 'A's; PR_GET_NAME into a zeroed 20-byte buffer (16
\* bytes copied, so the string ends at comm's NUL);
\* ASSERT_EQ(long_name.substr(0, 15), std::string(truncated_name)).
SetNameLongName ==
  /\ Current = "SetNameLongName"
  /\ comm' = SetName(Run("A", 20))
  /\ EndTest(comm' = Run("A", 15))
  /\ UNCHANGED <<order, dumpable, dumpable0, child, childComm, bug>>

\* PR_SET_NAME of 15 'a's (kMaxNameLength); fork() copies comm to the child.
ChildProcessNameFork ==
  /\ Current = "ChildProcessName" /\ child = "none"
  /\ comm' = SetName(Run("a", 15))
  /\ childComm' = IF "ForkResetsName" \in bug THEN ExeName ELSE comm'
  /\ child' = "running"
  /\ UNCHANGED <<order, ti, dumpable, dumpable0, failed, bug>>

\* The child: PR_GET_NAME into child_name[16];
\* TEST_CHECK(memcmp(parent_name, child_name, 16) == 0) (the 15 'a's and a
\* NUL); _exit(0), or a failed TEST_CHECK ends it with status 1.
ChildCheckName ==
  /\ child = "running"
  /\ child' = IF childComm = Run("a", 15) THEN "exit0" ELSE "exit1"
  /\ UNCHANGED <<order, ti, comm, dumpable, dumpable0, childComm,
                 failed, bug>>

\* Variant that checks WIFEXITED(status) only.
ChildProcessNameWaitExitedOnly ==
  /\ Current = "ChildProcessName" /\ child \in {"exit0", "exit1"}
  /\ child' = "none"
  /\ EndTest(TRUE)
  /\ UNCHANGED <<order, comm, dumpable, dumpable0, childComm, bug>>

\* waitpid(child_pid, &status, 0); EXPECT_TRUE(WIFEXITED && WEXITSTATUS == 0).
ChildProcessNameWait ==
  /\ Current = "ChildProcessName" /\ child \in {"exit0", "exit1"}
  /\ child' = "none"
  /\ EndTest(child = "exit0")
  /\ UNCHANGED <<order, comm, dumpable, dumpable0, childComm, bug>>

\* AutoCapability cap(CAP_SYS_RESOURCE, false) drops the capability and
\* restores it at the end of the test;
\* ASSERT_THAT(prctl(PR_SET_MM, 0, 0, 0, 0), SyscallFailsWithErrno(EPERM)):
\* without the capability PR_SET_MM is EPERM, with it option 0 is EINVAL.
InvalidPrSetMM ==
  /\ Current = "InvalidPrSetMM"
  /\ LET errno == IF "NoCapCheck" \in bug THEN EINVAL ELSE EPERM
     IN  EndTest(errno = EPERM)
  /\ UNCHANGED <<order, comm, dumpable, dumpable0, child, childComm, bug>>

\* before = PR_GET_DUMPABLE; Cleanup([before] { PR_SET_DUMPABLE(before) });
\* set 0, EXPECT get 0; set 1, EXPECT get 1; at the end of the test the
\* Cleanup sets before back, and its ASSERT fails if that is refused.
SetGetDumpability ==
  /\ Current = "SetGetDumpability"
  /\ LET before  == GetDumpable(dumpable)
         checks  == \A v \in {SUID_DUMP_DISABLE, SUID_DUMP_USER} : GetDumpable(v) = v
         restore == SetDumpableOk(before)
     IN  /\ dumpable' = IF restore THEN before ELSE SUID_DUMP_USER
         /\ EndTest(checks /\ restore)
  /\ UNCHANGED <<order, comm, dumpable0, child, childComm, bug>>

\* EXPECT_THAT(prctl(PR_SET_DUMPABLE, SUID_DUMP_ROOT), SyscallFailsWithErrno(EINVAL)).
RootDumpability ==
  /\ Current = "RootDumpability"
  /\ dumpable' = IF SetDumpableOk(SUID_DUMP_ROOT) THEN SUID_DUMP_ROOT ELSE dumpable
  /\ EndTest(~SetDumpableOk(SUID_DUMP_ROOT))
  /\ UNCHANGED <<order, comm, dumpable0, child, childComm, bug>>

\* Every test has run; the process stays as it is.
Finished == ti > Len(order) /\ UNCHANGED vars

Runner ==
  /\ ti <= Len(order)
  /\ \/ NameInitialized \/ SetNameLongName
     \/ ChildProcessNameFork \/ ChildProcessNameWait
     \/ InvalidPrSetMM \/ SetGetDumpability \/ RootDumpability

Next == Runner \/ ChildCheckName \/ Finished

\* gtest runs the next test whenever it can, and the kernel runs the child.
Spec == Init /\ [][Next]_vars /\ WF_vars(Runner) /\ WF_vars(ChildCheckName)

(* ------------------------------ properties ------------------------------- *)

Pos(t) == CHOOSE i \in 1..Len(order) : order[i] = t

\* The faults each test is written to expose.  NameInitialized reads the
\* name exec gave the process only if it runs before both tests that set
\* the name; after them it reads back what they set.
Exposes ==
  [NameInitialized |->
     IF Pos("NameInitialized") < Pos("SetNameLongName")
        /\ Pos("NameInitialized") < Pos("ChildProcessName")
     THEN {"NoInitialName"} ELSE {},
   SetNameLongName |-> {"KeepsSixteen"},
   ChildProcessName |-> {"ForkResetsName"}, InvalidPrSetMM |-> {"NoCapCheck"},
   SetGetDumpability |-> {"GetReportsUser"}, RootDumpability |-> {"RootAccepted"}]

Verdict(t) ==
  IF \E i \in 1..ti-1 : order[i] = t
  THEN IF t \in failed THEN "fail" ELSE "pass"
  ELSE "running"

\* A process started at SUID_DUMP_ROOT (fs.suid_dumpable = 2 after a
\* credential change) reads before = 2, and SetGetDumpability's Cleanup
\* then asks PR_SET_DUMPABLE for a value a conforming kernel refuses: the
\* test cannot pass there, through no fault of the kernel.
Unrestorable(t) ==
  /\ t = "SetGetDumpability" /\ dumpable0 = SUID_DUMP_ROOT
  /\ "RootAccepted" \notin bug

Deserved(t) ==
  IF Exposes[t] \cap bug # {} \/ Unrestorable(t) THEN "fail" ELSE "pass"

Oracle == INSTANCE TestOracle WITH Procs <- Tests,
            verdict <- [t \in Tests |-> Verdict(t)],
            expected <- [t \in Tests |-> Deserved(t)]

\* Whatever order gtest runs them in, and whatever comm and dumpability an
\* earlier test left behind, each attribute test ends once with the verdict
\* its kernel deserves: it fails exactly under the fault it targets
\* (ChildProcessName through the forked child's exit status) and otherwise
\* passes, except SetGetDumpability in a process started at SUID_DUMP_ROOT,
\* whose Cleanup (prctl.cc:201) fails; no other test is affected by that.
OracleSpec == Oracle!Spec

==============================================================================
