----------------------------- MODULE SerialPort -----------------------------
(***************************************************************************)
(* The serial port (jm/serial.c): threads of the client call its functions *)
(* on one descriptor, without a lock.  set_signal and set_attributes read  *)
(* the state of the driver, change their copy and write all of it back.    *)
(* The driver (external) is its modem lines, its termios settings, and the *)
(* number of bytes waiting; any call on it may fail.  That the driver      *)
(* moves RTS by itself under hardware flow control is left out.            *)
(***************************************************************************)
EXTENDS Integers, FiniteSets

CONSTANTS
  Threads,   \* threads of the client
  Clients,   \* clients: each a set of functions that its threads call
  Requests,  \* arguments of set_attributes: [baud, parity, stop, shake]
  Signals,   \* lines given to set_signal, members of Lines and "NoneSignal"
  MaxIn,     \* bound on the bytes waiting to be read
  MaxIntr    \* bound on the signals that interrupt a call of poll

Lines   == {"Cd", "Cts", "Dsr", "Dtr", "Rts"}
Outputs == {"Dtr", "Rts"}
Legal   == {"B9600", "B115200"}   \* what setup_baud_rate does not turn into -1

AllCalls == {"set_signal", "set_attributes", "poll_serial", "read_serial", "discard_buffer"}

ASSUME SerialPortAssumption ==
  /\ Clients \subseteq SUBSET AllCalls
  /\ MaxIn \in Nat \ {0} /\ MaxIntr \in Nat
  /\ Signals \subseteq Lines \cup {"NoneSignal"}
  /\ \A r \in Requests :
       /\ r.parity \in {"None", "Odd", "Even", "Mark", "Space"}
       /\ r.stop \in {"None", "One", "Two", "OnePointFive"}
       /\ r.shake \in {"None", "XOnXOff", "RequestToSend", "RequestToSendXOnXOff"}

VARIABLES
  calls,   \* the functions the client calls, constant
  lines,   \* modem lines that are active
  term,    \* termios: speed, CSTOPB, PARENB and PARODD, CRTSCTS, IXON|IXOFF
  waiting, \* bytes received and not read
  failing, \* poll fails, not because of a signal
  pc,      \* per thread: "idle", or the call it is in
  arg,     \* per thread: the arguments of that call
  copy,    \* per thread: what the call has read of the driver, << >> before
  polled,  \* per thread: the latest poll_serial, [failed, answer, error]
  intr,    \* signals taken so far
  \* ghosts
  want,    \* per output line: what the latest set_signal that returned 1 asked
  frame,   \* the latest parity and stop bits asked for that set_attributes handles
  since,   \* per thread: what others changed in the driver since the call read it
  lost,    \* output lines that a stale copy was written over
  raced    \* so was the framing

driver == <<calls, lines, term, waiting, failing>>
ghosts == <<want, frame, since, lost, raced>>
vars   == <<calls, lines, term, waiting, failing, pc, arg, copy, polled, intr, want, frame, since, lost, raced>>

Termios == [baud : Legal, cstopb : BOOLEAN, parenb : BOOLEAN, parodd : BOOLEAN,
            crtscts : BOOLEAN, ixon : BOOLEAN]

Idle(t) == pc[t] = "idle"

Enter(t, call, args) ==
  /\ Idle(t) /\ call \in calls
  /\ pc' = [pc EXCEPT ![t] = call] /\ arg' = [arg EXCEPT ![t] = args]
  /\ UNCHANGED <<driver, copy, polled, intr, ghosts>>

Leave(t) == pc' = [pc EXCEPT ![t] = "idle"] /\ arg' = [arg EXCEPT ![t] = << >>]

\* Mutant: a static variable holds the copy, as the statements of database.c are held.
ForgetNot(t) == copy' = copy

\* The copy is a local variable.
Forget(t) == copy' = [copy EXCEPT ![t] = << >>]

\* The copies other threads hold are stale in `what' from now on.
Touched(t, what) ==
  since' = [u \in Threads |-> IF u # t /\ copy[u] # << >> THEN since[u] \cup what ELSE {}]

-----------------------------------------------------------------------------
(* set_signal *)

\* Mutant: the line is set whatever the value asked for.
WithLineSet(signals, s, v) == signals \cup ({s} \cap Lines)

\* signals |= expected, or &= ~expected; NoneSignal has code 0.
WithLine(signals, s, v) == IF v THEN signals \cup ({s} \cap Lines) ELSE signals \ {s}

SetSignal(t, s, v) == Enter(t, "set_signal", <<[signal |-> s, value |-> v]>>)

Wanted(t) == [o \in Outputs |-> IF o = arg[t][1].signal THEN arg[t][1].value ELSE want[o]]

\* TIOCMSET: the driver takes the output lines from the copy, the others from the device.
NewLines(t) == (lines \ Outputs) \cup
              (WithLine(copy[t][1], arg[t][1].signal, arg[t][1].value) \cap Outputs)

Changed(t) == {o \in Outputs : (o \in lines) # (o \in NewLines(t))}

\* TIOCMGET: the line already has the value.
SignalIsSet(t) ==
  /\ pc[t] = "set_signal" /\ copy[t] = << >>
  /\ (arg[t][1].signal \in lines) = arg[t][1].value
  /\ want' = Wanted(t) /\ lost' = lost \ {arg[t][1].signal}
  /\ Leave(t)
  /\ UNCHANGED <<driver, copy, polled, intr, frame, since, raced>>

GetLines(t) ==
  /\ pc[t] = "set_signal" /\ copy[t] = << >>
  /\ (arg[t][1].signal \in lines) # arg[t][1].value
  /\ copy' = [copy EXCEPT ![t] = <<lines>>]
  /\ since' = [since EXCEPT ![t] = {}]
  /\ UNCHANGED <<driver, pc, arg, polled, intr, want, frame, lost, raced>>

SetLines(t) ==
  /\ pc[t] = "set_signal" /\ copy[t] # << >>
  /\ lines' = NewLines(t) /\ want' = Wanted(t)
  /\ lost' = (lost \cup (since[t] \cap Outputs)) \ {arg[t][1].signal}
  /\ Forget(t) /\ Touched(t, Changed(t)) /\ Leave(t)
  /\ UNCHANGED <<calls, term, waiting, failing, polled, intr, frame, raced>>

\* A call of the driver fails: the function answers -1 or FALSE.
Fails(t) ==
  /\ pc[t] \in {"set_signal", "set_attributes"}
  /\ Forget(t) /\ Leave(t)
  /\ since' = [since EXCEPT ![t] = {}]
  /\ UNCHANGED <<driver, polled, intr, want, frame, lost, raced>>

-----------------------------------------------------------------------------
(* set_attributes *)

\* Mutant: the parity bit is set, the flag for odd parity is not cleared.
ParityKept(io, p) ==
  CASE p = "None" -> [io EXCEPT !.parenb = FALSE]
    [] p = "Odd"  -> [io EXCEPT !.parenb = TRUE, !.parodd = TRUE]
    [] p = "Even" -> [io EXCEPT !.parenb = TRUE]
    [] OTHER      -> io

\* Mark and Space are unhandled: what was set before stays.
Parity(io, p) ==
  CASE p = "None" -> [io EXCEPT !.parenb = FALSE, !.parodd = FALSE]
    [] p = "Odd"  -> [io EXCEPT !.parenb = TRUE, !.parodd = TRUE]
    [] p = "Even" -> [io EXCEPT !.parenb = TRUE, !.parodd = FALSE]
    [] OTHER      -> io

\* So are no stop bits and one and a half.
StopBits(io, s) == IF s \in {"One", "Two"} THEN [io EXCEPT !.cstopb = (s = "Two")] ELSE io

Handshake(io, h) ==
  [io EXCEPT !.crtscts = h \in {"RequestToSend", "RequestToSendXOnXOff"},
             !.ixon    = h \in {"XOnXOff", "RequestToSendXOnXOff"}]

\* All of the framing is in the request: none of it comes from the copy.
SetsFraming(r) == r.parity \notin {"Mark", "Space"} /\ r.stop \in {"One", "Two"}

SetAttributes(t, r) == Enter(t, "set_attributes", <<r>>)

GetTermios(t) ==
  /\ pc[t] = "set_attributes" /\ copy[t] = << >>
  /\ copy' = [copy EXCEPT ![t] = <<term>>]
  /\ since' = [since EXCEPT ![t] = {}]
  /\ UNCHANGED <<driver, pc, arg, polled, intr, want, frame, lost, raced>>

\* cfsetospeed refuses the -1 of an illegal speed: then the call only fails.
SetTermios(t) ==
  /\ pc[t] = "set_attributes" /\ copy[t] # << >>
  /\ LET r == arg[t][1]
     IN  /\ r.baud \in Legal
         /\ term' = [Handshake(Parity(StopBits(copy[t][1], r.stop), r.parity), r.shake)
                       EXCEPT !.baud = r.baud]
         /\ frame' = [parity |-> IF r.parity \in {"Mark", "Space"} THEN frame.parity ELSE r.parity,
                      stop   |-> IF r.stop \in {"One", "Two"} THEN r.stop ELSE frame.stop]
  /\ raced' = (~SetsFraming(arg[t][1]) /\ (raced \/ "term" \in since[t]))
  /\ Forget(t) /\ Touched(t, {"term"}) /\ Leave(t)
  /\ UNCHANGED <<calls, lines, waiting, failing, polled, intr, want, lost>>

-----------------------------------------------------------------------------
(* poll_serial, read_serial, discard_buffer *)

\* Mutant: any failure is retried.
RetriesAny(errno) == TRUE

Retries(errno) == errno = "EINTR"

\* revents & POLLIN
HasInput == waiting > 0

Poll(t) == Enter(t, "poll_serial", << >>)

Polled(t, failed, answer, error) ==
  /\ polled' = [polled EXCEPT ![t] = [failed |-> failed, answer |-> answer, error |-> error]]
  /\ Leave(t)
  /\ UNCHANGED <<driver, copy, intr, want, frame, since, lost, raced>>

\* A call of poll that was interrupted is repeated, with the whole timeout.
Interrupted(t) ==
  /\ pc[t] = "poll_serial" /\ intr < MaxIntr
  /\ intr' = intr + 1
  /\ Retries("EINTR")
  /\ UNCHANGED <<driver, pc, arg, copy, polled, ghosts>>

\* There is input, or the timeout has passed.
PollReturns(t) ==
  /\ pc[t] = "poll_serial" /\ ~failing
  /\ Polled(t, FALSE, HasInput, 0)

\* The call fails, not because of a signal: revents is still 0, and the assignment of
\* *error stands in the body of the loop, which only EINTR enters.
PollFails(t) ==
  /\ pc[t] = "poll_serial" /\ failing /\ ~Retries("ENOMEM")
  /\ Polled(t, TRUE, FALSE, 0)

Read(t) == Enter(t, "read_serial", << >>)

\* The descriptor is a blocking one: read returns when there is something, or fails.
ReadReturns(t) ==
  /\ pc[t] = "read_serial"
  /\ \/ \E k \in 1..waiting : waiting' = waiting - k
     \/ UNCHANGED waiting
  /\ Leave(t)
  /\ UNCHANGED <<calls, lines, term, failing, copy, polled, intr, want, frame, since, lost, raced>>

\* tcflush on the input side.
Discard(t) ==
  /\ Idle(t) /\ "discard_buffer" \in calls
  /\ waiting' = 0
  /\ UNCHANGED <<calls, lines, term, failing, pc, arg, copy, polled, intr, want, frame, since, lost, raced>>

-----------------------------------------------------------------------------
(* The device *)

Arrive ==
  /\ "read_serial" \in calls
  /\ waiting < MaxIn /\ waiting' = waiting + 1
  /\ UNCHANGED <<calls, lines, term, failing, pc, arg, copy, polled, intr, ghosts>>

InputLine(l) ==
  /\ "set_signal" \in calls
  /\ lines' = IF l \in lines THEN lines \ {l} ELSE lines \cup {l}
  /\ UNCHANGED <<calls, term, waiting, failing, pc, arg, copy, polled, intr, ghosts>>

\* The kernel lacks the memory for a call of poll, or has it again.
Shortage ==
  /\ "poll_serial" \in calls
  /\ failing' = ~failing
  /\ UNCHANGED <<calls, lines, term, waiting, pc, arg, copy, polled, intr, ghosts>>

Init ==
  /\ calls \in Clients
  /\ lines = {} /\ waiting = 0 /\ failing = FALSE /\ intr = 0
  /\ term = [baud |-> "B9600", cstopb |-> FALSE, parenb |-> FALSE, parodd |-> FALSE,
             crtscts |-> FALSE, ixon |-> FALSE]
  /\ pc = [t \in Threads |-> "idle"] /\ arg = [t \in Threads |-> << >>]
  /\ copy = [t \in Threads |-> << >>]
  /\ polled = [t \in Threads |-> [failed |-> FALSE, answer |-> FALSE, error |-> 0]]
  /\ want = [o \in Outputs |-> FALSE] /\ frame = [parity |-> "None", stop |-> "One"]
  /\ since = [t \in Threads |-> {}] /\ lost = {} /\ raced = FALSE

Step(t) == SignalIsSet(t) \/ GetLines(t) \/ SetLines(t) \/ GetTermios(t) \/ SetTermios(t)
           \/ Fails(t) \/ PollReturns(t) \/ PollFails(t) \/ ReadReturns(t)

Next ==
  \/ \E t \in Threads :
       \/ Step(t) \/ Interrupted(t) \/ Poll(t) \/ Read(t) \/ Discard(t)
       \/ \E s \in Signals, v \in BOOLEAN : SetSignal(t, s, v)
       \/ \E r \in Requests : SetAttributes(t, r)
  \/ Arrive \/ Shortage
  \/ \E l \in Signals \ (Outputs \cup {"NoneSignal"}) : InputLine(l)

\* A thread that is in a call goes on with it.
Fairness == \A t \in Threads : WF_vars(Step(t))

Spec == Init /\ [][Next]_vars /\ Fairness

-----------------------------------------------------------------------------
(* Properties *)

TypeOK ==
  /\ lines \subseteq Lines /\ term \in Termios /\ waiting \in 0..MaxIn /\ failing \in BOOLEAN
  /\ pc \in [Threads -> {"idle", "set_signal", "set_attributes", "poll_serial", "read_serial"}]
  /\ \A t \in Threads : copy[t] # << >> =>
       \/ pc[t] = "set_signal" /\ copy[t][1] \subseteq Lines
       \/ pc[t] = "set_attributes" /\ copy[t][1] \in Termios

\* Two calls of set_signal that overlap can undo each other (serial.c:509 reads all lines,
\* :520 writes all of them): an output line differs from the last request for it that
\* succeeded only if a call for the other line read the lines before that request and wrote
\* them after it, and only until the next call for the line itself.  Neither the lines that
\* the device moves, nor failing calls, nor requests for input lines disturb it.
SignalKept == \A o \in Outputs : o \in lost \/ ((o \in lines) <=> want[o])

\* Parity and stop bits are those last asked for that the code handles, unless a request
\* with an unhandled parity or number of stop bits wrote back what it had read before
\* another request; the next request that names both makes good for it.
FrameKept ==
  ~raced => /\ term.parenb <=> frame.parity # "None"
            /\ term.parodd <=> frame.parity = "Odd"
            /\ term.cstopb <=> frame.stop = "Two"

\* poll_serial returns, if signals do not interrupt it for ever.
PollEnds == \A t \in Threads : pc[t] = "poll_serial" ~> Idle(t)

\* serial.c:551 makes only EINTR an "OK condition": a poll that failed sets *error.
PollFailureReported == \A t \in Threads : polled[t].failed => polled[t].error = -1

=============================================================================
