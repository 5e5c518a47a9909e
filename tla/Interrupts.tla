------------------------------ MODULE Interrupts ------------------------------
(***************************************************************************)
(* interrupts.rs, with the prints of vga_buffer.rs and the uptime of       *)
(* time.rs: kernel_main prints under the WRITER lock with interrupts       *)
(* enabled, and the keyboard handler prints under the same lock.  The      *)
(* gates of the IDT are interrupt gates: a handler runs with interrupts    *)
(* disabled until its iret, and nothing else runs meanwhile on the one     *)
(* CPU.  A spin lock that is taken is waited for without end.              *)
(***************************************************************************)
EXTENDS Vga

CONSTANTS
  Texts,       \* what kernel_main prints, as sequences of bytes
  Keys,        \* what a key prints: a character or the name of a key
  MaxTicks,    \* bound: timer interrupts raised
  MaxKeys,     \* bound: keyboard interrupts raised
  MaxPrints    \* bound: prints before kernel_main stops printing

ASSUME InterruptsAssumption ==
  /\ \A text \in Texts \cup Keys : text \in Seq(STRING)
  /\ MaxTicks \in Nat /\ MaxKeys \in Nat /\ MaxPrints \in Nat

Irqs == {"timer", "keyboard"}
Locks == {"WRITER", "PICS", "KEYBOARD"}

VARIABLES
  pc,         \* where kernel_main is
  hpc,        \* where the running handler is
  handler,    \* the handler that runs, or "none"
  if_flag,    \* the CPU's interrupt flag
  locks,      \* who holds each spin lock, or "free"
  irr,        \* PIC: the interrupts requested
  isr,        \* PIC: the interrupts in service, not acknowledged yet
  left,       \* bytes kernel_main has still to print
  key,        \* bytes the keyboard handler has still to print
  mine,       \* history: the number of kernel_main's latest print
  writer,     \* WRITER
  prints,     \* history: how many prints have begun
  output,     \* history: the bytes printed, each with its print's number
  uptime,     \* UPTIME_MS
  raised      \* history: how often each interrupt was raised

mainVars == <<pc, left, mine>>
screenVars == <<writer, prints, output>>
vars == <<mainVars, hpc, handler, key, if_flag, locks, irr, isr, screenVars, uptime, raised>>

Acquire(l, who) == /\ locks[l] = "free"
                   /\ locks' = [locks EXCEPT ![l] = who]
Release(l) == locks' = [locks EXCEPT ![l] = "free"]

(* A byte of print number by. *)
Write(byte, by) == /\ writer' = write_byte(writer, Glyph(byte))
                   /\ output' = Append(output, [by |-> by, byte |-> byte])

-----------------------------------------------------------------------------
(* kernel_main, which runs while no handler does. *)
Main(from, to) == /\ handler = "none"
                  /\ pc = from
                  /\ pc' = to
                  /\ UNCHANGED <<hpc, handler, key, irr, isr, uptime, raised>>

\* mutant: interrupts are enabled before the PICs are initialised
LockPics_Early ==
  /\ Main("lock_pics", "init_pics")
  /\ Acquire("PICS", "main")
  /\ if_flag' = TRUE
  /\ UNCHANGED <<left, mine, screenVars>>

LockPics == /\ Main("lock_pics", "init_pics")
            /\ Acquire("PICS", "main")
            /\ UNCHANGED <<if_flag, left, mine, screenVars>>

InitPics == /\ Main("init_pics", "enable")
            /\ Release("PICS")
            /\ UNCHANGED <<if_flag, left, mine, screenVars>>

EnableInterrupts == /\ Main("enable", "ready")
                    /\ if_flag' = TRUE
                    /\ UNCHANGED <<locks, left, mine, screenVars>>

\* mutant: the screen is written without the lock
LockWriter_Not ==
  /\ Main("ready", "print")
  /\ prints < MaxPrints
  /\ left' \in Texts
  /\ prints' = prints + 1 /\ mine' = prints + 1
  /\ UNCHANGED <<if_flag, locks, writer, output>>

LockWriter == /\ Main("ready", "print")
              /\ prints < MaxPrints
              /\ Acquire("WRITER", "main")
              /\ left' \in Texts
              /\ prints' = prints + 1 /\ mine' = prints + 1
              /\ UNCHANGED <<if_flag, writer, output>>

(* One byte of the print. *)
WriteByte == /\ Main("print", "print")
             /\ left # << >>
             /\ left' = Tail(left)
             /\ Write(Head(left), mine)
             /\ UNCHANGED <<if_flag, locks, mine, prints>>

(* The guard is dropped; serial_println, under a lock no handler takes, is *)
(* part of the way back.                                                   *)
UnlockWriter == /\ Main("print", "ready")
                /\ left = << >>
                /\ Release("WRITER")
                /\ UNCHANGED <<if_flag, left, mine, screenVars>>

MainStep == \/ LockPics \/ InitPics \/ EnableInterrupts
            \/ LockWriter \/ WriteByte \/ UnlockWriter

-----------------------------------------------------------------------------
(* The devices raise interrupts at any time; a request that is already     *)
(* pending is not counted twice.                                           *)
Raise(i) == /\ raised[i] < (IF i = "timer" THEN MaxTicks ELSE MaxKeys)
            /\ raised' = [raised EXCEPT ![i] = @ + 1]
            /\ irr' = irr \cup {i}
            /\ UNCHANGED <<mainVars, hpc, handler, key, if_flag, locks, isr, screenVars, uptime>>

(* The PIC interrupts the CPU with the request of the highest priority,    *)
(* unless one of the same or a higher priority is in service.  The CPU     *)
(* clears its interrupt flag and enters the handler.                       *)
Deliver(i) ==
  /\ if_flag
  /\ i \in irr /\ i \notin isr
  /\ i = "keyboard" => "timer" \notin irr \cup isr
  /\ irr' = irr \ {i}
  /\ isr' = isr \cup {i}
  /\ if_flag' = FALSE
  /\ handler' = i
  /\ hpc' = IF i = "timer" THEN "tick" ELSE "keyboard"
  /\ UNCHANGED <<mainVars, key, locks, screenVars, uptime, raised>>

(* A step of the running handler. *)
Handle(h, from, to) == /\ handler = h
                       /\ hpc = from
                       /\ hpc' = to
                       /\ UNCHANGED <<mainVars, irr, raised>>

Tick == /\ Handle("timer", "tick", "lock_pics")
        /\ uptime' = uptime + 18
        /\ UNCHANGED <<handler, key, if_flag, locks, isr, screenVars>>

LockKeyboard == /\ Handle("keyboard", "keyboard", "decode")
                /\ Acquire("KEYBOARD", "keyboard")
                /\ UNCHANGED <<handler, key, if_flag, isr, screenVars, uptime>>

(* The scancode completes a key that has a character or a name, or not. *)
DecodeKey == /\ Handle("keyboard", "decode", "echo")
             /\ UNCHANGED <<handler, key, if_flag, locks, isr, screenVars, uptime>>

\* mutant: an early return when there is nothing to print
DecodeNothing_Return ==
  /\ Handle("keyboard", "decode", "none")
  /\ handler' = "none"
  /\ if_flag' = TRUE
  /\ Release("KEYBOARD")
  /\ UNCHANGED <<key, isr, screenVars, uptime>>

DecodeNothing == /\ Handle("keyboard", "decode", "lock_pics")
                 /\ UNCHANGED <<handler, key, if_flag, locks, isr, screenVars, uptime>>

\* mutant: the handler prints without waiting for the lock
LockForKey_NoWait ==
  /\ Handle("keyboard", "echo", "write")
  /\ key' \in Keys
  /\ prints' = prints + 1
  /\ UNCHANGED <<handler, if_flag, locks, isr, writer, output, uptime>>

(* print!: the handler prints under the same lock. *)
LockForKey == /\ Handle("keyboard", "echo", "write")
              /\ Acquire("WRITER", "keyboard")
              /\ key' \in Keys
              /\ prints' = prints + 1
              /\ UNCHANGED <<handler, if_flag, isr, writer, output, uptime>>

WriteKey == /\ Handle("keyboard", "write", "write")
            /\ key # << >>
            /\ key' = Tail(key)
            /\ Write(Head(key), prints)
            /\ UNCHANGED <<handler, if_flag, locks, isr, prints, uptime>>

UnlockForKey == /\ Handle("keyboard", "write", "lock_pics")
                /\ key = << >>
                /\ Release("WRITER")
                /\ UNCHANGED <<handler, key, if_flag, isr, screenVars, uptime>>

(* PICS.lock().notify_end_of_interrupt: the PIC may deliver again, but the *)
(* CPU takes no interrupt before iret.                                     *)
EndOfInterrupt == /\ Handle(handler, "lock_pics", "iret")
                  /\ locks["PICS"] = "free"
                  /\ isr' = isr \ {handler}
                  /\ UNCHANGED <<handler, key, if_flag, locks, screenVars, uptime>>

Iret == /\ Handle(handler, "iret", "none")
        /\ handler' = "none"
        /\ if_flag' = TRUE
        /\ IF handler = "keyboard" THEN Release("KEYBOARD") ELSE UNCHANGED locks
        /\ UNCHANGED <<key, isr, screenVars, uptime>>

HandlerStep == \/ Tick \/ LockKeyboard \/ DecodeKey \/ DecodeNothing
               \/ LockForKey \/ WriteKey \/ UnlockForKey \/ EndOfInterrupt \/ Iret

(* hlt, or other work of kernel_main. *)
Wait == handler = "none" /\ pc = "ready" /\ UNCHANGED vars

(* The keyboard handler waits for the lock of the print it interrupted. *)
LockedOut == hpc = "echo" /\ locks["WRITER"] = "main"

(* The handler, on the spin lock. *)
Spin == LockedOut /\ UNCHANGED vars

-----------------------------------------------------------------------------
InterruptsInit ==
  /\ pc = "lock_pics"
  /\ hpc = "none"
  /\ handler = "none"
  /\ if_flag = FALSE
  /\ locks = [l \in Locks |-> "free"]
  /\ irr = {}
  /\ isr = {}
  /\ left = << >>
  /\ mine = 0
  /\ key = << >>
  /\ writer = NewWriter
  /\ prints = 0
  /\ output = << >>
  /\ uptime = 0
  /\ raised = [i \in Irqs |-> 0]

InterruptsNext ==
  \/ MainStep
  \/ HandlerStep
  \/ Wait
  \/ Spin
  \/ \E i \in Irqs : Raise(i) \/ Deliver(i)

(* The CPU goes on with whatever it runs, and the PIC gets through with a  *)
(* request that is deliverable again and again.                            *)
InterruptsSpec ==
  /\ InterruptsInit
  /\ [][InterruptsNext]_vars
  /\ WF_vars(MainStep)
  /\ WF_vars(HandlerStep)
  /\ \A i \in Irqs : SF_vars(Deliver(i))

-----------------------------------------------------------------------------
(* The types; the writer stays in its row, and UPTIME_MS counts no more   *)
(* than the ticks raised.                                                  *)
InterruptsTypeOK ==
  /\ pc \in {"lock_pics", "init_pics", "enable", "ready", "print"}
  /\ hpc \in {"none", "tick", "keyboard", "decode", "echo", "write", "lock_pics", "iret"}
  /\ handler \in Irqs \cup {"none"}
  /\ if_flag \in BOOLEAN
  /\ locks \in [Locks -> {"free", "main", "keyboard"}]
  /\ irr \subseteq Irqs /\ isr \subseteq Irqs
  /\ left \in Seq(STRING) /\ key \in Seq(STRING)
  /\ mine \in Nat /\ prints \in Nat
  /\ output \in Seq([by : Nat, byte : STRING])
  /\ writer.column_position \in 0 .. BUFFER_WIDTH
  /\ raised \in [Irqs -> Nat]
  /\ uptime \in Nat /\ uptime <= 18 * raised["timer"]

(* No handler ever waits for PICS or KEYBOARD: kernel_main is done with    *)
(* PICS before it enables interrupts, and handlers do not nest.            *)
OnlyWriterContended ==
  /\ hpc = "lock_pics" => locks["PICS"] = "free"
  /\ hpc = "keyboard" => locks["KEYBOARD"] = "free"

(* A print appears in one piece: once a byte of a later print is out, no   *)
(* byte of an earlier one follows, although keys come at any byte.         *)
PrintsAreWhole ==
  \A i, j \in DOMAIN output : i <= j => output[i].by <= output[j].by

(* The screen shows the last lines of all that was printed, by whomever,   *)
(* wrapped at the screen's width, and no cell anything else.               *)
ScreenShowsTail ==
  LET lines == Paper([i \in DOMAIN output |-> Glyph(output[i].byte)])
  IN  \A row \in Rows, col \in Columns :
        writer.chars[row][col] = Cell(lines, row, col)

(* Every interrupt raised is served and acknowledged, unless a key comes   *)
(* in the middle of a print of kernel_main.                                *)
ServedUnlessLockedOut ==
  \A i \in Irqs :
    (i \in irr /\ if_flag) ~> (LockedOut \/ i \notin irr \cup isr)

(* A handler that waits for the lock of the print it interrupted waits for *)
(* ever: kernel_main does not go on, nothing more is printed and UPTIME_MS *)
(* stands still.                                                           *)
LockedOutForever ==
  [][LockedOut => LockedOut' /\ UNCHANGED <<pc, output, uptime>>]_vars
=============================================================================
