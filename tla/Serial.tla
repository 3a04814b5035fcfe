------------------------------- MODULE Serial -------------------------------
(***************************************************************************)
(* The serial driver (paraos/src/serial.rs) and the 16550 UART it drives.  *)
(* Every core has its own Serial value, all of them for the one port COM1. *)
(* The step of a core is one outb, one read of the line status, or one     *)
(* access to the port's mutex.                                             *)
(*                                                                         *)
(* The driver takes the mutex with the statement "self.0.lock();", whose   *)
(* guard is a temporary: it is dropped before the first outb, so the calls *)
(* of different cores interleave at every outb.                            *)
(***************************************************************************)
EXTENDS Integers, Sequences

CONSTANTS
  Cores,      \* the cores that use the port
  Programs,   \* the calls of the cores: a set of functions from Cores
  FifoSize    \* the characters the UART holds (16 in hardware)

(* The calls of the driver: init, write_str of a text, write_char of a     *)
(* character; and among them the place where the core waits for the other  *)
(* ones at the barrier of kernel.rs:69, which it does at most once.        *)
(* Characters are numbers above those that init writes, a core writes them *)
(* in increasing order.                                                    *)
Chars == 200 .. 255
NoText == [op |-> "init", text |-> <<>>]
Call == [op: {"init", "write_str", "write_char", "rendezvous"}, text: Seq(Chars)]

ASSUME SerialAssumption ==
  /\ FifoSize \in Nat \ {0}
  /\ Programs \subseteq [Cores -> Seq(Call)]
  /\ \A p \in Programs : \A c \in Cores : \A i, j \in DOMAIN p[c] :
       p[c][i].op = "rendezvous" /\ p[c][j].op = "rendezvous" => i = j

VARIABLES
  program,   \* the calls of the cores, from the first to the last
  calls,     \* the calls each core has still to make, the current one included
  state,     \* what each core is doing in its current call
  out,       \* the outb instructions left in each core's current call
  mutex,     \* the core that holds Port::mutex, or None
  uart,      \* the registers and the transmit FIFO of the UART
  line,      \* history: the bytes sent over the line, -1 for one sent at
             \* another speed or in another format than init asks for
  written    \* history: the characters the cores have handed to outb

vars == <<program, calls, state, out, mutex, uart, line, written>>

None == "none"

Uart == [ier: 0 .. 255, dll: 0 .. 255, dlm: 0 .. 255, lcr: 0 .. 255,
         fcr: 0 .. 255, mcr: 0 .. 255, fifo: Seq(0 .. 255)]

TypeOK ==
  /\ program \in Programs
  /\ calls \in [Cores -> Seq(Call)]
  /\ state \in [Cores -> {"idle", "locked", "polling", "writing"}]
  /\ out \in [Cores -> Seq((0 .. 4) \X (0 .. 255))]
  /\ mutex \in Cores \cup {None}
  /\ uart \in Uart /\ Len(uart.fifo) <= FifoSize
  /\ line \in Seq(-1 .. 255)
  /\ written \in Seq(Chars)

-----------------------------------------------------------------------------
(* Mutant of InitWrites: DLAB is left set. *)
InitWritesKeepingDlab ==
  <<<<1, 0>>, <<3, 128>>, <<0, 3>>, <<1, 0>>, <<2, 199>>, <<4, 11>>, <<4, 15>>>>

(* Mutant of InitWrites: DLAB is never set, the divisor goes to the FIFO. *)
InitWritesWithoutDlab ==
  <<<<1, 0>>, <<0, 3>>, <<1, 0>>, <<3, 3>>, <<2, 199>>, <<4, 11>>, <<4, 15>>>>

(* serial.rs:39-46: <<offset of the register, value>>. *)
InitWrites ==
  <<<<1, 0>>, <<3, 128>>, <<0, 3>>, <<1, 0>>, <<3, 3>>, <<2, 199>>, <<4, 11>>, <<4, 15>>>>

(* The outb instructions of a call; a character goes to offset 0. *)
Writes(call) ==
  IF call.op = "init"
  THEN InitWrites
  ELSE [i \in DOMAIN call.text |-> <<0, call.text[i]>>]

(* The UART.  While the top bit of lcr (DLAB) is set, offsets 0 and 1 are  *)
(* the divisor; otherwise they are the transmitter, which drops what its   *)
(* FIFO has no room for, and the interrupt enable register.  Bits 1 and 2  *)
(* of fcr clear the FIFOs.                                                 *)
Dlab(u) == u.lcr >= 128

ClearsFifo(v) == (v \div 4) % 2 = 1

(* Mutant of Store: a FIFO without a limit. *)
StoreUnlimited(u, reg, v) ==
  CASE reg = 0 /\ Dlab(u) -> [u EXCEPT !.dll = v]
    [] reg = 0 /\ ~Dlab(u) -> [u EXCEPT !.fifo = Append(@, v)]
    [] reg = 1 /\ Dlab(u) -> [u EXCEPT !.dlm = v]
    [] reg = 1 /\ ~Dlab(u) -> [u EXCEPT !.ier = v]
    [] reg = 2 -> [u EXCEPT !.fcr = v, !.fifo = IF ClearsFifo(v) THEN <<>> ELSE @]
    [] reg = 3 -> [u EXCEPT !.lcr = v]
    [] OTHER -> [u EXCEPT !.mcr = v]       \* offset 4

Store(u, reg, v) ==
  CASE reg = 0 /\ Dlab(u) -> [u EXCEPT !.dll = v]
    [] reg = 0 /\ ~Dlab(u) ->
         IF Len(u.fifo) < FifoSize THEN [u EXCEPT !.fifo = Append(@, v)] ELSE u
    [] reg = 1 /\ Dlab(u) -> [u EXCEPT !.dlm = v]
    [] reg = 1 /\ ~Dlab(u) -> [u EXCEPT !.ier = v]
    [] reg = 2 -> [u EXCEPT !.fcr = v, !.fifo = IF ClearsFifo(v) THEN <<>> ELSE @]
    [] reg = 3 -> [u EXCEPT !.lcr = v]
    [] OTHER -> [u EXCEPT !.mcr = v]       \* offset 4

(* serial.rs:33, bit 5 of the line status: the FIFO is empty. *)
is_transmit_empty == uart.fifo = <<>>

(* 38400 baud, 8 bits, no parity, one stop bit: serial.rs:41-43. *)
LineSetup(u) == u.dll = 3 /\ u.dlm = 0 /\ u.lcr = 3

Enter(c, s) == state' = [state EXCEPT ![c] = s]

-----------------------------------------------------------------------------
(* serial.rs:37, 53 and 63: self.0.lock() spins until the mutex is free. *)
Lock(c) ==
  /\ state[c] = "idle" /\ calls[c] # <<>> /\ Head(calls[c]).op # "rendezvous"
  /\ mutex = None
  /\ mutex' = c
  /\ Enter(c, "locked")
  /\ UNCHANGED <<program, calls, out, uart, line, written>>

(* Mutant of DropGuard: the guard is never dropped. *)
KeepGuard(c) ==
  /\ state[c] = "locked"
  /\ out' = [out EXCEPT ![c] = Writes(Head(calls[c]))]
  /\ Enter(c, IF Head(calls[c]).op = "write_char" THEN "polling" ELSE "writing")
  /\ UNCHANGED <<program, calls, mutex, uart, line, written>>

(* The end of the same statement. *)
DropGuard(c) ==
  /\ state[c] = "locked"
  /\ mutex' = None
  /\ out' = [out EXCEPT ![c] = Writes(Head(calls[c]))]
  /\ Enter(c, IF Head(calls[c]).op = "write_char" THEN "polling" ELSE "writing")
  /\ UNCHANGED <<program, calls, uart, line, written>>

(* Mutant of Poll: write_char does not wait, as write_str does not. *)
NoPoll(c) ==
  /\ state[c] = "polling"
  /\ Enter(c, "writing")
  /\ UNCHANGED <<program, calls, out, mutex, uart, line, written>>

(* serial.rs:64. *)
Poll(c) ==
  /\ state[c] = "polling"
  /\ is_transmit_empty
  /\ Enter(c, "writing")
  /\ UNCHANGED <<program, calls, out, mutex, uart, line, written>>

(* serial.rs:39-46, 56 and 66: one outb. *)
Outb(c) ==
  /\ state[c] = "writing" /\ out[c] # <<>>
  /\ uart' = Store(uart, Head(out[c])[1], Head(out[c])[2])
  /\ out' = [out EXCEPT ![c] = Tail(@)]
  /\ written' = IF Head(calls[c]).op = "init"
                THEN written
                ELSE Append(written, Head(out[c])[2])
  /\ UNCHANGED <<program, calls, state, mutex, line>>

(* The call returns. *)
Return(c) ==
  /\ state[c] = "writing" /\ out[c] = <<>>
  /\ calls' = [calls EXCEPT ![c] = Tail(@)]
  /\ Enter(c, "idle")
  /\ UNCHANGED <<program, out, mutex, uart, line, written>>

(* A core that has not come through the barrier yet, and one that waits at *)
(* it.                                                                     *)
Awaited(c) == \E i \in DOMAIN calls[c] : calls[c][i].op = "rendezvous"

Waits(c) == state[c] = "idle" /\ calls[c] # <<>> /\ Head(calls[c]).op = "rendezvous"

(* Mutant of Rendezvous: the core does not wait for the others. *)
NoRendezvous(c) ==
  /\ Waits(c)
  /\ calls' = [calls EXCEPT ![c] = Tail(@)]
  /\ UNCHANGED <<program, state, out, mutex, uart, line, written>>

(* kernel.rs:69: nobody comes through before everybody is there (which     *)
(* Kernel and Rendezvous show of the barrier itself).                      *)
Rendezvous(c) ==
  /\ Waits(c)
  /\ \A d \in Cores : Awaited(d) => Waits(d)
  /\ calls' = [calls EXCEPT ![c] = Tail(@)]
  /\ UNCHANGED <<program, state, out, mutex, uart, line, written>>

(* The UART sends the next byte, at the speed it is set to. *)
Transmit ==
  /\ uart.fifo # <<>>
  /\ line' = Append(line, IF LineSetup(uart) THEN Head(uart.fifo) ELSE -1)
  /\ uart' = [uart EXCEPT !.fifo = Tail(@)]
  /\ UNCHANGED <<program, calls, state, out, mutex, written>>

-----------------------------------------------------------------------------
(* The UART after a reset: 1200 baud, 5 bits. *)
Reset == [ier |-> 0, dll |-> 96, dlm |-> 0, lcr |-> 0, fcr |-> 0, mcr |-> 0,
          fifo |-> <<>>]

Init ==
  /\ program \in Programs
  /\ calls = program
  /\ state = [c \in Cores |-> "idle"]
  /\ out = [c \in Cores |-> <<>>]
  /\ mutex = None
  /\ uart = Reset
  /\ line = <<>>
  /\ written = <<>>

Step(c) ==
  Lock(c) \/ DropGuard(c) \/ Poll(c) \/ Outb(c) \/ Return(c) \/ Rendezvous(c)

Next == Transmit \/ \E c \in Cores : Step(c)

(* A core keeps running and the UART keeps sending.  The mutex need not be *)
(* fair: a core makes finitely many calls and keeps it for one step.       *)
Fairness == WF_vars(Transmit) /\ \A c \in Cores : WF_vars(Step(c))

Spec == Init /\ [][Next]_vars /\ Fairness

-----------------------------------------------------------------------------
(* What is known of the calls of the kernel, and what the properties below *)
(* rest on.  A core that does more than call init is the only one that     *)
(* calls the driver: so it is at start-up, where the branch of kernel.rs:64 *)
(* leaves the port to the bootstrap core.                                  *)
Exclusive(p) ==
  \A c \in Cores :
    (\E i \in DOMAIN p[c] : p[c][i].op # "init") => \A d \in Cores \ {c} : p[d] = <<>>

(* The port is used, and whoever uses it calls init first. *)
InitFirst(p) ==
  /\ \E c \in Cores : p[c] # <<>>
  /\ \A c \in Cores : p[c] # <<>> => p[c][1].op = "init"

(* The numbering of the characters. *)
Ascending(p) ==
  \A c \in Cores : \A i, j \in DOMAIN p[c] :
    p[c][i].op # "init" /\ p[c][j].op # "init" =>
      \A k \in DOMAIN p[c][i].text, l \in DOMAIN p[c][j].text :
        i < j \/ (i = j /\ k < l) => p[c][i].text[k] < p[c][j].text[l]

(* A character that write_char writes. *)
Polled(p, char) ==
  \E c \in Cores : \E i \in DOMAIN p[c] :
    p[c][i].op = "write_char" /\ \E k \in DOMAIN p[c][i].text : p[c][i].text[k] = char

(* In the test harness every core calls init (test.rs:8), and the bootstrap *)
(* core once more in the test (kernel.rs:65), but only before the barrier  *)
(* of the test; behind it the leader w alone uses the port, and there it   *)
(* calls write_char, with one character that no write_str writes.          *)
AloneBehind(p, w) ==
  \A c \in Cores : p[c] # <<>> =>
    \E r \in DOMAIN p[c] :
      /\ p[c][r].op = "rendezvous"
      /\ \A i \in DOMAIN p[c] :
           /\ i > r => c = w /\ p[c][i].op # "init"
           /\ p[c][i].op = "write_char" => i > r /\ Len(p[c][i].text) = 1
           /\ p[c][i].op = "write_str" =>
                \A k \in DOMAIN p[c][i].text : ~Polled(p, p[c][i].text[k])

PollsLate(p) ==
  (\E c \in Cores : \E i \in DOMAIN p[c] : p[c][i].op = "write_char") =>
    \E w \in Cores : AloneBehind(p, w)

-----------------------------------------------------------------------------
(* A core between two calls, or behind the last one.  The first call of a  *)
(* core is init.                                                           *)
Between(c) == state[c] = "idle" /\ (program[c] = <<>> \/ calls[c] # program[c])

(* Whenever no call is in progress, every register has the value that      *)
(* init's comments give (serial.rs:39-46).                                 *)
ConfiguredByAll ==
  (\A c \in Cores : Between(c)) =>
    LineSetup(uart) /\ uart.ier = 0 /\ uart.fcr = 199 /\ uart.mcr = 15

(* The same, where no core writes a text while another core uses the port: *)
(* then the inits of any number of cores (test.rs:8) may interleave at     *)
(* every outb.                                                             *)
Configured == Exclusive(program) => ConfiguredByAll

(* What is on the line, and what the FIFO holds. *)
Sent == line \o uart.fifo

(* Once a text is written, what was sent are characters that were handed   *)
(* to write_str or write_char, in the order they were written and each     *)
(* once: an init before or between the texts (main.rs:46, panic.rs:14 and  *)
(* kernel.rs:65 in a test) puts nothing of its own on the line, and what   *)
(* it garbles or clears, or a full FIFO drops, leaves the order of the     *)
(* rest alone.  (The inits of several cores may put the divisor on the     *)
(* line: a core that has cleared DLAB lets another core's divisor through  *)
(* to the transmitter.)                                                    *)
Legible == {i \in DOMAIN Sent : Sent[i] # -1}

TextInOrder ==
  Exclusive(program) /\ written # <<>> =>
    /\ \A i, j \in Legible : i < j => Sent[i] < Sent[j]
    /\ \A i \in Legible : \E j \in DOMAIN written : written[j] = Sent[i]

(* A character that write_char writes is not lost in the UART, however the *)
(* inits that came before interleave.  Its outb puts it in the FIFO: the   *)
(* poll of serial.rs:64 has made room for it and nobody takes the room or  *)
(* sets DLAB between the poll and the outb.  And it stays there until the  *)
(* UART sends it: no init that clears the FIFO follows.  (At the speed the *)
(* harness has left the line with: see ConfiguredByAll.  write_str does    *)
(* not poll, so the end of a text longer than the FIFO may be dropped.)    *)
PolledNotLost ==
  [][/\ \A c \in Cores :
          state[c] = "writing" /\ Head(calls[c]).op = "write_char" /\ out'[c] # out[c] =>
            uart'.fifo = Append(uart.fifo, Head(out[c])[2])
     /\ \A i \in DOMAIN uart.fifo : Polled(program, uart.fifo[i]) =>
          \/ i \in DOMAIN uart'.fifo /\ uart'.fifo[i] = uart.fifo[i]
          \/ Len(line') = Len(line) + 1 /\ uart'.fifo = Tail(uart.fifo)]_vars

(* Every call returns and the FIFO is sent. *)
Drained == <>[](uart.fifo = <<>> /\ \A c \in Cores : calls[c] = <<>>)

=============================================================================
