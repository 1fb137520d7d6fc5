------------------------------ MODULE PortBind ------------------------------
(***************************************************************************)
(* src/examples/gWisord/allAddressesAlreadyInUse/main.c: a program that    *)
(* parses argv[1] with strtol, casts the long to int, binds a TCP socket   *)
(* to INADDR_ANY:htons(port) and reports "Successfully bind to port %d".   *)
(*                                                                         *)
(* Several instances run at once on one host; the kernel's port table is   *)
(* shared by them and by other programs (Busy).  The conversions are       *)
(* modelled by what they do: strtol's scan and ERANGE, the value kept      *)
(* modulo 2^32 in two 16-bit limbs (TLC's integers are 32-bit), the cast   *)
(* to int, the conversion to uint16_t and the byte swap of htons on a      *)
(* little-endian host.                                                     *)
(***************************************************************************)
EXTENDS Integers, Sequences, SequencesExt

CONSTANTS
  Procs,        \* the running instances of the program
  Invocations,  \* [argc, arg]: argc and argv[1] as a sequence of characters
  Root,         \* the instances may bind ports below 1024
  Busy,         \* ports held by other programs
  Ephemeral     \* the kernel's ephemeral port range (for port 0)

\* #define ERROR_INVALID_ARGS_COUNT 1, ERROR_PORT_CONVERSATION 2, ERROR_BIND 3
ERROR_INVALID_ARGS_COUNT == 1
ERROR_PORT_CONVERSATION == 2
ERROR_BIND == 3

ERANGE == 34
NoPort == -1
Nul == "NUL"   \* the terminating '\0' of argv[1]

(* ------------------------- strtol(s, &end, 10) -------------------------- *)

DigitChars == <<"0", "1", "2", "3", "4", "5", "6", "7", "8", "9">>
DigitVal(c) == CHOOSE d \in 0..9 : DigitChars[d + 1] = c
Spaces == {" ", "\t", "\n"}

CharAt(s, i) == IF i <= Len(s) THEN s[i] ELSE Nul

\* The first index from i on whose character is not in cs; Len(s) + 1 (the
\* NUL) if there is none.
SkipIn(s, i, cs) ==
  LET j == SelectInSubSeq(s, i, Len(s), LAMBDA c : c \notin cs)
  IN  IF j = 0 THEN Len(s) + 1 ELSE j

\* A 32-bit word as two 16-bit limbs: the value of a long modulo 2^32.
W == 2^16
MulAdd(x, d) ==
  LET lo == x.lo * 10 + d
  IN  [hi |-> (x.hi * 10 + lo \div W) % W, lo |-> lo % W]
Negate(x) ==
  [hi |-> (W - x.hi - (IF x.lo = 0 THEN 0 ELSE 1)) % W, lo |-> (W - x.lo) % W]

\* LONG_MAX = 9223372036854775807; LONG_MIN's magnitude ends in 8.
LongMaxDigits == <<9,2,2,3,3,7,2,0,3,6,8,5,4,7,7,5,8,0,7>>
LongMinDigits == [LongMaxDigits EXCEPT ![19] = 8]
\* The low 32 bits of LONG_MAX and LONG_MIN, the values strtol clamps to.
LongMaxLow == [hi |-> W - 1, lo |-> W - 1]
LongMinLow == [hi |-> 0, lo |-> 0]

\* The magnitude ds (its decimal digits) is out of range of a long.
Overflows(ds, neg) ==
  LET z   == SelectInSeq(ds, LAMBDA d : d # 0)
      sig == IF z = 0 THEN <<>> ELSE SubSeq(ds, z, Len(ds))
      lim == IF neg THEN LongMinDigits ELSE LongMaxDigits
  IN  \/ Len(sig) > 19
      \/ /\ Len(sig) = 19
         /\ \E i \in 1..19 : sig[i] > lim[i] /\ \A j \in 1..i-1 : sig[j] = lim[j]

\* glibc strtol in base 10: skip white space, an optional sign, the longest
\* run of digits.  No digits: value 0 and end = the start of the string.
\* Out of range: the clamped value and errno = ERANGE.  value is the low 32
\* bits of the long.
strtol(s) ==
  LET i0  == SkipIn(s, 1, Spaces)
      neg == CharAt(s, i0) = "-"
      i1  == IF CharAt(s, i0) \in {"+", "-"} THEN i0 + 1 ELSE i0
      e   == SkipIn(s, i1, Range(DigitChars))
      ds  == [k \in 1..(e - i1) |-> DigitVal(s[i1 + k - 1])]
      mag == FoldLeft(MulAdd, [hi |-> 0, lo |-> 0], ds)
  IN  CASE e = i1 -> [value |-> [hi |-> 0, lo |-> 0], end |-> 1, errno |-> 0]
        [] Overflows(ds, neg) ->
             [value |-> IF neg THEN LongMinLow ELSE LongMaxLow, end |-> e,
              errno |-> ERANGE]
        [] OTHER -> [value |-> IF neg THEN Negate(mag) ELSE mag, end |-> e,
                     errno |-> 0]

\* (int) of a long: its low 32 bits read as two's complement.
Int32(x) == IF x.hi < W \div 2 THEN x.hi * W + x.lo ELSE (x.hi - W) * W + x.lo

\* htons(port): the int is converted to uint16_t (modulo 2^16) and its bytes
\* swapped on a little-endian host; the kernel's ntohs swaps them back.
\* Variant "addr.sin_port = port;": the host-order value stored unswapped.
NoHtons(port) == port % W
htons(port) == LET v == port % W IN (v % 256) * 256 + v \div 256
ntohs(n) == (n % 256) * 256 + n \div 256

(* ------------------------------- state --------------------------------- *)

VARIABLES
  inv,       \* inv[p]: the command line of instance p
  pc,        \* pc[p]: "start", "socket", "bind", "report" or "exited"
  port,      \* port[p]: main's int port
  sock,      \* sock[p]: "none", "open" or "closed"
  bound,     \* bound[p]: the port sock_fd was bound to, NoPort if none
  out,       \* out[p]: the ports printed by the success message
  exitCode   \* exitCode[p]: -1 while running

vars == <<inv, pc, port, sock, bound, out, exitCode>>

Init ==
  /\ inv \in [Procs -> Invocations]
  /\ pc = [p \in Procs |-> "start"]
  /\ port = [p \in Procs |-> 0]
  /\ sock = [p \in Procs |-> "none"]
  /\ bound = [p \in Procs |-> NoPort]
  /\ out = [p \in Procs |-> <<>>]
  /\ exitCode = [p \in Procs |-> -1]

\* The ports held in the kernel's table: other programs' and every open
\* socket of an instance that was bound.
Occupied ==
  Busy \cup {bound[q] : q \in {q \in Procs : sock[q] = "open" /\ bound[q] # NoPort}}

\* exit(code) or return from main: the kernel closes the instance's socket.
Exit(p, code) ==
  /\ pc' = [pc EXCEPT ![p] = "exited"]
  /\ exitCode' = [exitCode EXCEPT ![p] = code]
  /\ sock' = [sock EXCEPT ![p] = IF @ = "open" THEN "closed" ELSE @]

\* if (argc < 2) exit(ERROR_INVALID_ARGS_COUNT)
ArgCountError(p) ==
  /\ pc[p] = "start"
  /\ inv[p].argc < 2
  /\ Exit(p, ERROR_INVALID_ARGS_COUNT)
  /\ UNCHANGED <<inv, port, bound, out>>

\* errno = 0; port = (int)strtol(argv[1], &invalid_sym, 10);
\* if (errno != 0 || *invalid_sym != '\0') exit(ERROR_PORT_CONVERSATION)
ConversionError(p) ==
  /\ pc[p] = "start"
  /\ inv[p].argc >= 2
  /\ LET r == strtol(inv[p].arg)
     IN  r.errno # 0 \/ CharAt(inv[p].arg, r.end) # Nul
  /\ Exit(p, ERROR_PORT_CONVERSATION)
  /\ UNCHANGED <<inv, port, bound, out>>

ParsePort(p) ==
  /\ pc[p] = "start"
  /\ inv[p].argc >= 2
  /\ LET r == strtol(inv[p].arg)
     IN  /\ r.errno = 0 /\ CharAt(inv[p].arg, r.end) = Nul
         /\ port' = [port EXCEPT ![p] = Int32(r.value)]
  /\ pc' = [pc EXCEPT ![p] = "socket"]
  /\ UNCHANGED <<inv, sock, bound, out, exitCode>>

\* bind_to_port: sock_fd = socket(AF_INET, SOCK_STREAM, 0); on failure
\* (EMFILE, ENFILE, ENOBUFS) it returns FAILURE and main exits ERROR_BIND.
Socket(p) ==
  /\ pc[p] = "socket"
  /\ \/ /\ sock' = [sock EXCEPT ![p] = "open"]
        /\ pc' = [pc EXCEPT ![p] = "bind"]
        /\ UNCHANGED exitCode
     \/ Exit(p, ERROR_BIND)
  /\ UNCHANGED <<inv, port, bound, out>>

\* The ports bind may give a socket asking for want: an unused ephemeral
\* port for 0; none (EACCES) below 1024 without privilege; none
\* (EADDRINUSE) for a port in the table.
BindResults(want) ==
  CASE want = 0 -> Ephemeral \ Occupied
    [] want < 1024 /\ ~Root -> {}
    [] want \in Occupied -> {}
    [] OTHER -> {want}

\* addr.sin_port = htons(port); bind(sock_fd, INADDR_ANY:sin_port).  On
\* failure: close(sock_fd), return FAILURE, exit(ERROR_BIND).
Bind(p) ==
  /\ pc[p] = "bind"
  /\ LET results == BindResults(ntohs(htons(port[p])))
     IN  \/ \E b \in results :
              /\ bound' = [bound EXCEPT ![p] = b]
              /\ pc' = [pc EXCEPT ![p] = "report"]
              /\ UNCHANGED <<sock, exitCode>>
         \/ /\ results = {}
            /\ Exit(p, ERROR_BIND)
            /\ UNCHANGED bound
  /\ UNCHANGED <<inv, port, out>>

\* printf("Successfully bind to port %d", port); main returns 0.
Report(p) ==
  /\ pc[p] = "report"
  /\ out' = [out EXCEPT ![p] = Append(@, port[p])]
  /\ Exit(p, 0)
  /\ UNCHANGED <<inv, port, bound>>

\* Every instance has exited; the host stays as it is.
Finished == \A p \in Procs : pc[p] = "exited" /\ UNCHANGED vars

Next ==
  \/ \E p \in Procs :
       \/ ArgCountError(p) \/ ConversionError(p) \/ ParsePort(p)
       \/ Socket(p) \/ Bind(p) \/ Report(p)
  \/ Finished

Spec == Init /\ [][Next]_vars


(* ----------------------------- properties ------------------------------ *)

\* "Successfully bind to port %d" (line 59) prints the port the socket was
\* bound to: the value main parsed, cast to int, is the port htons put in
\* sin_port and the kernel bound, while other instances and programs hold
\* ports at the same time.
SuccessReportsBoundPort ==
  \A p \in Procs : \A i \in 1..Len(out[p]) : out[p][i] = bound[p]

==============================================================================
