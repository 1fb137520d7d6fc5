--------------------------- MODULE AbstractSocket ---------------------------
(***************************************************************************)
(* UnboundAbstractUnixSocketPairTest                                       *)
(* (src/test/syscalls/linux/socket_unix_unbound_abstract.cc).              *)
(*                                                                         *)
(* Each test body is a Script: the sequence of calls it makes, each with   *)
(* the result it asserts (ASSERT_*: a mismatch ends the test) or expects   *)
(* (EXPECT_*: a mismatch is recorded and the test goes on).  NumProcs      *)
(* test processes run one test instance each, in one network namespace,   *)
(* against a kernel whose abstract-socket semantics (bind, autobind,       *)
(* getsockname, listen, connect, unshare) are folded into the actions and  *)
(* may carry the faults in KnownBugs.  A socket pair's endpoints are       *)
(* <<p, k, role>>: pair k (1 = sockets, 2 = sockets2 / socketsInSubNS) of  *)
(* process p.                                                              *)
(***************************************************************************)
EXTENDS Integers, Sequences, SequencesExt

CONSTANTS
  NumProcs,       \* test processes running at once in one network namespace
  Scenarios,      \* the [test, type, nonblock] instances a process may run
  FaultSets,      \* the combinations of kernel faults to explore
  AutobindStart   \* the kernel's autobind counter when the processes start

\* Kernel faults:
\*  NulTerminated     abstract names compared only up to their first NUL
\*  ZeroExtended      a short abstract address is zero-extended to sun_path
\*  SockNameTrimmed   getsockname drops the trailing NULs of the name
\*  AutobindUpper     autobind names use upper-case hex digits
\*  AutobindNotListed an autobound name is not entered in the name table
\*  GlobalNames       one abstract name table for all network namespaces
\*  ProcessNs         a socket uses the caller's namespace, not its own
\*  BacklogExact      listen(b) admits b pending connections, not b + 1
\*  NetNsLimit        user.max_net_namespaces allows the test one namespace:
\*                    a second unshare(CLONE_NEWNET) fails with ENOSPC
KnownBugs == {"NulTerminated", "ZeroExtended", "SockNameTrimmed",
              "AutobindUpper", "AutobindNotListed", "GlobalNames",
              "ProcessNs", "BacklogExact", "NetNsLimit"}

ASSUME FaultSets \subseteq SUBSET KnownBugs

Procs == 1..NumProcs

\* sizeof(sun_path), 108 on Linux: 7 bytes hold a NUL, a name byte and
\* enough trailing NULs for every address the tests build.
SunPathLen == 7

\* Autobind names are a NUL and five hex digits of a 20-bit counter.
AutobindLen == 6
Ordinals == 16^5

Root == <<0, 0>>        \* the initial network namespace
NoNs == <<>>            \* no Cleanup registered
Done == 0               \* pc of a finished test

SockIds == Procs \X {1, 2} \X {"first", "second"}

VARIABLES
  scen,       \* scen[p]: the test instance process p runs
  pc,         \* pc[p]: index of p's next call in its Script; Done at the end
  procNs,     \* procNs[p]: the network namespace process p is in
  cleanupNs,  \* cleanupNs[p]: the namespace p's Cleanup setns()es back to
  sock,       \* sock[s]: the kernel state of socket s
  got,        \* got[p]: the address p's last getsockname returned
  ordernum,   \* the kernel's autobind counter
  failed,     \* failed[p]: source lines of p's failed checks (0: timeout)
  bug         \* the kernel faults in effect

vars == <<scen, pc, procNs, cleanupNs, sock, got, ordernum, failed, bug>>

Zeros(n) == [i \in 1..n |-> 0]
Pad(s) == s \o Zeros(SunPathLen - Len(s))

\* A socket before socket() and after close().
Closed == [open |-> FALSE, type |-> "STREAM", nonblock |-> FALSE, ns |-> Root,
           listed |-> FALSE, name |-> <<>>, listening |-> FALSE,
           backlog |-> 0, queue |-> 0]

(* ---------------------------- test scripts ----------------------------- *)

A == TRUE     \* ASSERT_THAT: a failed check returns from the test
E == FALSE    \* EXPECT_THAT: a failed check is recorded

PairOp(k, at) == [call |-> "pair", pair |-> k, at |-> at]
BindOp(k, role, arg, want, fatal, at) ==
  [call |-> "bind", pair |-> k, role |-> role, arg |-> arg, want |-> want,
   fatal |-> fatal, at |-> at]
ConnectOp(k, role, arg, want, fatal, at) ==
  [BindOp(k, role, arg, want, fatal, at) EXCEPT !.call = "connect"]
ListenOp(backlog, at) == [call |-> "listen", backlog |-> backlog, at |-> at]
GetNameOp(check, at) == [call |-> "getsockname", check |-> check, at |-> at]
NonBlockOp(k, role, at) == [call |-> "nonblock", pair |-> k, role |-> role, at |-> at]
UnshareOp(at) == [call |-> "unshare", want |-> "ok", fatal |-> A, at |-> at]
CleanupOp(at) == [call |-> "cleanup", at |-> at]
SkipDgramOp(at) == [call |-> "skipDgram", at |-> at]

ScriptAddressAfterNull ==
  << PairOp(1, 39),
     BindOp(1, "first", "first", "ok", A, 49),
     BindOp(1, "second", "afterNull", "ok", A, 53) >>

ScriptShortAddressNotExtended ==
  << PairOp(1, 59),
     BindOp(1, "first", "short", "ok", A, 65),
     BindOp(1, "second", "first", "ok", A, 69) >>

ScriptBindNothing ==
  << PairOp(1, 75), BindOp(1, "first", "zero", "ok", A, 77) >>

ScriptAutoBindSuccess ==
  << PairOp(1, 83),
     BindOp(1, "first", "family", "ok", A, 85),
     GetNameOp("autobind", 90),
     ListenOp(0, 102),
     ConnectOp(1, "second", "got", "ok", A, 105) >>

ScriptAutoBindAddrInUse ==
  << PairOp(1, 111),
     BindOp(1, "first", "family", "ok", A, 113),
     GetNameOp("none", 118),
     BindOp(1, "second", "got", "EADDRINUSE", A, 121) >>

ScriptBindConnectInSubNamespaceLateCleanup ==
  << UnshareOp(133), PairOp(1, 135), UnshareOp(136), CleanupOp(129),
     BindOp(1, "first", "family", "ok", A, 139),
     GetNameOp("none", 144),
     ListenOp(1, 148),
     ConnectOp(1, "second", "got", "ok", E, 151),
     PairOp(2, 155),
     ConnectOp(2, "second", "got", "ECONNREFUSED", E, 156),
     BindOp(2, "first", "got", "ok", E, 159) >>

ScriptBindConnectInSubNamespace ==
  << CleanupOp(129), UnshareOp(133), PairOp(1, 135), UnshareOp(136),
     BindOp(1, "first", "family", "ok", A, 139),
     GetNameOp("none", 144),
     ListenOp(1, 148),
     ConnectOp(1, "second", "got", "ok", E, 151),
     PairOp(2, 155),
     ConnectOp(2, "second", "got", "ECONNREFUSED", E, 156),
     BindOp(2, "first", "got", "ok", E, 159) >>

ScriptListenZeroBacklog ==
  << SkipDgramOp(165), PairOp(1, 166),
     BindOp(1, "first", "fooBar", "ok", A, 171),
     ListenOp(0, 174),
     ConnectOp(1, "second", "fooBar", "ok", A, 175),
     PairOp(2, 178),
     NonBlockOp(2, "first", 182),
     ConnectOp(2, "first", "fooBar", "EAGAIN", A, 186),
     NonBlockOp(2, "second", 194),
     ConnectOp(2, "second", "fooBar", "EAGAIN", A, 199) >>

ScriptGetSockNameFullLength ==
  << PairOp(1, 207), BindOp(1, "first", "first", "ok", A, 209),
     GetNameOp("full", 215) >>

ScriptGetSockNamePartialLength ==
  << PairOp(1, 222), BindOp(1, "first", "short", "ok", A, 224),
     GetNameOp("short", 230) >>

Script ==
  [AddressAfterNull |-> ScriptAddressAfterNull,
   ShortAddressNotExtended |-> ScriptShortAddressNotExtended,
   BindNothing |-> ScriptBindNothing,
   AutoBindSuccess |-> ScriptAutoBindSuccess,
   AutoBindAddrInUse |-> ScriptAutoBindAddrInUse,
   BindConnectInSubNamespace |-> ScriptBindConnectInSubNamespace,
   ListenZeroBacklog |-> ScriptListenZeroBacklog,
   GetSockNameFullLength |-> ScriptGetSockNameFullLength,
   GetSockNamePartialLength |-> ScriptGetSockNamePartialLength]

Tests == DOMAIN Script

(* ------------------------------ addresses ------------------------------ *)

\* Variant of first_addr that is the same in every process.
FirstAddrShared(p, k) == [path |-> Pad(<<0, 64 + k>>), len |-> SunPathLen]

\* NewSocketPair's first_addr for pair k of process p: a NUL, a name byte
\* unique to the pair, and NULs to the end of sun_path; first_addr_size is
\* the full sockaddr_un.
FirstAddr(p, k) == [path |-> Pad(<<0, 64 + 2 * p + k>>), len |-> SunPathLen]

\* The addresses the tests pass to bind and connect; len counts the bytes of
\* sun_path the address length covers.
Addrs(p) ==
  [first     |-> FirstAddr(p, 1),
   short     |-> [FirstAddr(p, 1) EXCEPT !.len = SunPathLen - 1],
   afterNull |-> [FirstAddr(p, 1) EXCEPT !.path[SunPathLen - 1] = 97],
   zero      |-> [path |-> Zeros(SunPathLen), len |-> SunPathLen],
   family    |-> [path |-> Zeros(SunPathLen), len |-> 0],
   got       |-> got[p],
   fooBar    |-> [path |-> Pad(<<0, 47, 102>>), len |-> SunPathLen]]

IsHexDigit(c) == (c >= 48 /\ c =< 57) \/ (c >= 97 /\ c =< 102)

\* Variant of the autobind check that only looks at the length.
AutobindCodecLenOnly(a) == IF a.len = AutobindLen THEN {} ELSE {95}

\* The EXPECTs on an autobound address: its length is offsetof + 6, its
\* first byte NUL and the next five [0-9a-f]; the failing lines.
AutobindCodec(a) ==
  {l \in {95, 96, 99} :
     \/ l = 95 /\ a.len # AutobindLen
     \/ l = 96 /\ a.path[1] # 0
     \/ l = 99 /\ \E i \in 2..AutobindLen : ~IsHexDigit(a.path[i])}

\* The EXPECTs after getsockname; the failing lines.
NameChecks(check, a) ==
  CASE check = "autobind" -> AutobindCodec(a)
    [] check = "full"     -> IF a.len = SunPathLen THEN {} ELSE {218}
    [] check = "short"    -> IF a.len = SunPathLen - 1 THEN {} ELSE {233}
    [] OTHER              -> {}

(* -------------------------------- kernel ------------------------------- *)

\* The name table a namespace's abstract names live in.
Table(n) == IF "GlobalNames" \in bug THEN Root ELSE n

\* The namespace a call on socket s of process p resolves names in.
CallNs(s) == IF "ProcessNs" \in bug THEN procNs[s[1]] ELSE sock[s].ns

\* The open sockets holding name in namespace n's table.
Holders(n, name) ==
  {t \in SockIds : /\ sock[t].open /\ sock[t].listed
                   /\ Table(sock[t].ns) = Table(n) /\ sock[t].name = name}

\* The abstract name an explicit address binds: the bytes its length covers.
Name(a) ==
  LET sig == IF "ZeroExtended" \in bug THEN a.path ELSE SubSeq(a.path, 1, a.len)
      nul == SelectInSeq(Tail(sig), LAMBDA b : b = 0)
  IN  IF "NulTerminated" \in bug /\ nul # 0 THEN SubSeq(sig, 1, nul) ELSE sig

HexDigit(d) == IF d < 10 THEN 48 + d
               ELSE IF "AutobindUpper" \in bug THEN 55 + d ELSE 87 + d

\* sprintf("%05x", n) behind the leading NUL.
AutoName(n) == <<0>> \o [i \in 1..5 |-> HexDigit((n \div 16^(5 - i)) % 16)]

\* The counter value autobind settles on: the next one whose name is free.
NextFree(n) ==
  LET free == {j \in 1..Cardinality(SockIds) + 1 :
                 Holders(n, AutoName((ordernum + j) % Ordinals)) = {}}
  IN  (ordernum + Min(free)) % Ordinals

\* What getsockname reports for a bound socket.
SockName(s) ==
  LET n == sock[s].name
  IN  [path |-> Pad(n),
       len  |-> IF "SockNameTrimmed" \in bug
                  THEN Max({1} \cup {i \in 1..Len(n) : n[i] # 0})
                  ELSE Len(n)]

Capacity(backlog) == IF "BacklogExact" \in bug THEN backlog ELSE backlog + 1

\* The outcome of connect(s, a): "blocks" while a blocking connect waits.
ConnectResult(s, a) ==
  LET peers == Holders(CallNs(s), Name(a))
      t     == CHOOSE t \in peers : TRUE
  IN  CASE peers = {}                          -> "ECONNREFUSED"
        [] sock[s].type = "DGRAM"              -> "ok"
        [] ~sock[t].listening                  -> "ECONNREFUSED"
        [] sock[t].queue < Capacity(sock[t].backlog) -> "ok"
        [] sock[s].nonblock                    -> "EAGAIN"
        [] OTHER                               -> "blocks"

(* ------------------------------- tests --------------------------------- *)

Init ==
  /\ scen \in [Procs -> Scenarios]
  /\ pc = [p \in Procs |-> 1]
  /\ procNs = [p \in Procs |-> Root]
  /\ cleanupNs = [p \in Procs |-> NoNs]
  /\ sock = [s \in SockIds |-> Closed]
  /\ got = [p \in Procs |-> [path |-> Zeros(SunPathLen), len |-> 0]]
  /\ ordernum = AutobindStart
  /\ failed = [p \in Procs |-> {}]
  /\ bug \in FaultSets

Steps(p) == Script[scen[p].test]
TearDownPc(p) == Len(Steps(p)) + 1

\* Process p's next call is a call of the given kind.
Calls(p, call) == pc[p] \in 1..Len(Steps(p)) /\ Steps(p)[pc[p]].call = call
Op(p) == Steps(p)[pc[p]]
SockOf(p) == <<p, Op(p).pair, Op(p).role>>

Next1(p) == pc' = [pc EXCEPT ![p] = @ + 1]

\* ASSERT_THAT / EXPECT_THAT(call, ...) on the result res of p's call: a
\* mismatch records the line, and a failed ASSERT returns from the test.
Check(p, res) ==
  LET ok == res = Op(p).want
  IN  /\ failed' = [failed EXCEPT ![p] = IF ok THEN @ ELSE @ \cup {Op(p).at}]
      /\ pc' = [pc EXCEPT ![p] = IF ok \/ ~Op(p).fatal THEN @ + 1 ELSE TearDownPc(p)]

\* NewSocketPair(): two unbound sockets of the instance's type and flags,
\* created in the process's current namespace.
NewSocketPair(p) ==
  /\ Calls(p, "pair")
  /\ LET new == [Closed EXCEPT !.open = TRUE, !.type = scen[p].type,
                               !.nonblock = scen[p].nonblock, !.ns = procNs[p]]
     IN  sock' = [sock EXCEPT ![<<p, Op(p).pair, "first">>] = new,
                              ![<<p, Op(p).pair, "second">>] = new]
  /\ Next1(p)
  /\ UNCHANGED <<scen, procNs, cleanupNs, got, ordernum, failed, bug>>

\* Open("/proc/self/ns/net") and the Cleanup that setns()es back to it.
RegisterCleanup(p) ==
  /\ Calls(p, "cleanup")
  /\ cleanupNs' = [cleanupNs EXCEPT ![p] = procNs[p]]
  /\ Next1(p)
  /\ UNCHANGED <<scen, procNs, sock, got, ordernum, failed, bug>>

\* ASSERT_THAT(unshare(CLONE_NEWNET), SyscallSucceeds()).
Unshare(p) ==
  /\ Calls(p, "unshare")
  /\ LET res == IF "NetNsLimit" \in bug /\ procNs[p] # Root THEN "ENOSPC" ELSE "ok"
     IN  /\ procNs' = [procNs EXCEPT ![p] =
                         IF res # "ok" THEN @
                         ELSE <<p, IF @ = Root THEN 1 ELSE @[2] + 1>>]
         /\ Check(p, res)
  /\ UNCHANGED <<scen, cleanupNs, sock, got, ordernum, bug>>

\* bind(fd, addr, sizeof(sa_family_t)): the kernel autobinds.
BindAuto(p) ==
  /\ Calls(p, "bind") /\ Addrs(p)[Op(p).arg].len = 0
  /\ LET s == SockOf(p)
         n == NextFree(CallNs(s))
     IN  /\ ordernum' = n
         /\ sock' = [sock EXCEPT ![s].name = AutoName(n), ![s].ns = CallNs(s),
                                 ![s].listed = "AutobindNotListed" \notin bug]
  /\ Check(p, "ok")
  /\ UNCHANGED <<scen, procNs, cleanupNs, got, bug>>

\* bind(fd, addr, len) of an abstract address: EADDRINUSE if its name is
\* held in the socket's namespace.
BindName(p) ==
  /\ Calls(p, "bind") /\ Addrs(p)[Op(p).arg].len > 0
  /\ LET s == SockOf(p)
         name == Name(Addrs(p)[Op(p).arg])
         free == Holders(CallNs(s), name) = {}
     IN  /\ sock' = IF free
                      THEN [sock EXCEPT ![s].name = name, ![s].ns = CallNs(s),
                                        ![s].listed = TRUE]
                      ELSE sock
         /\ Check(p, IF free THEN "ok" ELSE "EADDRINUSE")
  /\ UNCHANGED <<scen, procNs, cleanupNs, got, ordernum, bug>>

\* getsockname(first_fd) and the EXPECTs on the address it returns.
GetSockName(p) ==
  /\ Calls(p, "getsockname")
  /\ got' = [got EXCEPT ![p] = SockName(<<p, 1, "first">>)]
  /\ failed' = [failed EXCEPT ![p] = @ \cup NameChecks(Op(p).check, got'[p])]
  /\ Next1(p)
  /\ UNCHANGED <<scen, procNs, cleanupNs, sock, ordernum, bug>>

\* if ((GetParam().type & SOCK_DGRAM) == 0) ASSERT_THAT(listen(first_fd, b), ...)
Listen(p) ==
  /\ Calls(p, "listen")
  /\ sock' = IF scen[p].type = "DGRAM" THEN sock
             ELSE [sock EXCEPT ![<<p, 1, "first">>].listening = TRUE,
                               ![<<p, 1, "first">>].backlog = Op(p).backlog]
  /\ Next1(p)
  /\ UNCHANGED <<scen, procNs, cleanupNs, got, ordernum, failed, bug>>

\* connect(fd, addr, len); a blocking connect to a full queue waits.
Connect(p) ==
  /\ Calls(p, "connect")
  /\ LET s    == SockOf(p)
         a    == Addrs(p)[Op(p).arg]
         res  == ConnectResult(s, a)
         peer == CHOOSE t \in Holders(CallNs(s), Name(a)) : TRUE
     IN  /\ res # "blocks"
         /\ sock' = IF res = "ok" /\ sock[s].type # "DGRAM"
                      THEN [sock EXCEPT ![peer].queue = @ + 1]
                      ELSE sock
         /\ Check(p, res)
  /\ UNCHANGED <<scen, procNs, cleanupNs, got, ordernum, bug>>

\* fcntl(fd, F_SETFL, opts | O_NONBLOCK).
SetNonBlock(p) ==
  /\ Calls(p, "nonblock")
  /\ sock' = [sock EXCEPT ![SockOf(p)].nonblock = TRUE]
  /\ Next1(p)
  /\ UNCHANGED <<scen, procNs, cleanupNs, got, ordernum, failed, bug>>

\* SKIP_IF((GetParam().type & SOCK_DGRAM) != 0).
SkipIfDgram(p) ==
  /\ Calls(p, "skipDgram")
  /\ pc' = [pc EXCEPT ![p] = IF scen[p].type = "DGRAM" THEN TearDownPc(p) ELSE @ + 1]
  /\ UNCHANGED <<scen, procNs, cleanupNs, sock, got, ordernum, failed, bug>>

\* The test returns: its FileDescriptors close (releasing their names),
\* then the Cleanup, if registered, setns()es back.
TearDown(p) ==
  /\ pc[p] = TearDownPc(p)
  /\ pc' = [pc EXCEPT ![p] = Done]
  /\ sock' = [t \in SockIds |-> IF t[1] = p THEN Closed ELSE sock[t]]
  /\ procNs' = [procNs EXCEPT ![p] = IF cleanupNs[p] = NoNs THEN @ ELSE cleanupNs[p]]
  /\ UNCHANGED <<scen, cleanupNs, got, ordernum, failed, bug>>

ProcStep(p) ==
  \/ NewSocketPair(p) \/ RegisterCleanup(p) \/ Unshare(p)
  \/ BindAuto(p) \/ BindName(p) \/ GetSockName(p) \/ Listen(p)
  \/ Connect(p) \/ SetNonBlock(p) \/ SkipIfDgram(p) \/ TearDown(p)

\* The runner kills a test that makes no progress; the kernel closes its
\* sockets, and no Cleanup runs.
Timeout ==
  /\ ~ENABLED (\E p \in Procs : ProcStep(p))
  /\ \E p \in Procs :
       /\ pc[p] # Done
       /\ pc' = [pc EXCEPT ![p] = Done]
       /\ failed' = [failed EXCEPT ![p] = @ \cup {0}]
       /\ sock' = [t \in SockIds |-> IF t[1] = p THEN Closed ELSE sock[t]]
  /\ UNCHANGED <<scen, procNs, cleanupNs, got, ordernum, bug>>

Finished == \A p \in Procs : pc[p] = Done /\ UNCHANGED vars

Next == (\E p \in Procs : ProcStep(p)) \/ Timeout \/ Finished

\* The kernel runs every runnable process; the runner's timeout fires.
Spec == Init /\ [][Next]_vars
        /\ \A p \in Procs : WF_vars(ProcStep(p)) /\ WF_vars(Timeout)

(* ------------------------------ properties ----------------------------- *)

\* The faults each test is written to expose; listen-based checks are
\* skipped for SOCK_DGRAM.  Reuse: the faults that break binding or
\* connecting to an address read back from getsockname after autobind.
Exposes(sc) ==
  LET Reuse == {"AutobindNotListed", "ZeroExtended"}
      byTest ==
        [AddressAfterNull |-> {"NulTerminated"},
         ShortAddressNotExtended |-> {"ZeroExtended", "NulTerminated"},
         BindNothing |-> {},
         AutoBindSuccess |-> {"AutobindUpper", "BacklogExact"} \cup Reuse,
         AutoBindAddrInUse |-> Reuse,
         BindConnectInSubNamespace |->
           {"GlobalNames", "ProcessNs", "NetNsLimit"} \cup Reuse,
         ListenZeroBacklog |-> {"BacklogExact"},
         GetSockNameFullLength |-> {"SockNameTrimmed", "NulTerminated"},
         GetSockNamePartialLength |->
           {"SockNameTrimmed", "NulTerminated", "ZeroExtended"}]
  IN  byTest[sc.test] \ (IF sc.type = "DGRAM" THEN {"BacklogExact"} ELSE {})

Verdict(p) == IF pc[p] # Done THEN "running"
              ELSE IF failed[p] = {} THEN "pass" ELSE "fail"

Deserved(p) == IF bug \cap Exposes(scen[p]) = {} THEN "pass" ELSE "fail"

Oracle == INSTANCE TestOracle
            WITH verdict  <- [p \in Procs |-> Verdict(p)],
                 expected <- [p \in Procs |-> Deserved(p)]

\* Every test instance ends, once, with the verdict its kernel deserves: it
\* passes when the kernel has none of the faults it targets (whatever the
\* other processes in the namespace do) and fails when it has one.
OracleSpec == Oracle!Spec

\* BindConnectInSubNamespace's Cleanup puts the process back in the
\* namespace it started in on every return path, so later tests run there.
NamespaceRestored ==
  \A p \in Procs : pc[p] = Done /\ 0 \notin failed[p] => procNs[p] = Root

=============================================================================
