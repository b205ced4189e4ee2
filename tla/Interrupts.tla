----------------------------- MODULE Interrupts -----------------------------
(***************************************************************************)
(* The road of an interrupt through the kernel: the pair of interrupt      *)
(* controllers (pic.asm), the tail every gate jumps to (isr_tail in        *)
(* routine.asm), the fence of int_lock and int_wait (interrupt.c), and the *)
(* timer's handler that goes over to another stack (switch.asm).           *)
(*                                                                         *)
(* All gates clear the interrupt flag (0xEE in isr_wrap), so what follows  *)
(* the entry runs to the iret with only the devices moving beside it.      *)
(***************************************************************************)
EXTENDS Integers, Sequences, SequencesExt, FiniteSetsExt

CONSTANTS
  Lines,      \* the request lines in use, of 0..15; 8..15 are the slave's
  Service,    \* what isr_register put in for a line: "switch", "quiet", "debug"
  Contexts,   \* what can hold the processor: Boot (start) and the processes
  Boot,
  UserMasks,  \* the low 16 bits of EBX a program may make a system call with
  Glitches    \* TRUE: a request may be withdrawn before it is acknowledged

ASSUME LinesAssumption ==
  /\ Lines \subseteq (0..15) \ {2} /\ 0 \in Lines
  /\ Service \in [Lines -> {"switch", "quiet", "debug"}]

ASSUME ContextsAssumption ==
  /\ Boot \in Contexts /\ UserMasks \subseteq SUBSET (0..15)
  /\ Glitches \in BOOLEAN

VARIABLES
  irr,      \* lines requested (hardware)
  isr,      \* lines in service (hardware); 2 is the slave's line at the master
  pc,       \* "user" (interrupts on), or the point of isr_tail reached
  number,   \* the gate taken
  ebx,      \* the low 16 bits of EBX, as the set of its bits
  running,  \* the context whose stack is in use
  stack,    \* what the tail has pushed on it, the top last
  saved,    \* the stacks of the contexts put aside; << >> before they exist
  at,       \* what a context does: "run", or a point of int_lock and int_wait
  key, locked,  \* interrupt.c
  arrived   \* the interrupts handled since int_lock (history)

vars == <<irr, isr, pc, number, ebx, running, stack, saved, at, key, locked, arrived>>

(* Slips of the code, each used to show that a property can tell, stand    *)
(* before the definition they are slips of.                                *)
PicOffset == 32   \* pic_remap: the gates of the lines
Linux == 128      \* the system calls'
Master == 0..7
Slave == 8..15

-----------------------------------------------------------------------------
(* The controllers. *)

(* The line a request reaches the master by. *)
MasterLine(l) == IF l \in Slave THEN 2 ELSE l

(* A request waits while one as urgent is in service. *)
Urgent(l) ==
  /\ \A s \in isr \cap Master : MasterLine(l) < s
  /\ l \in Slave => \A s \in isr \cap Slave : l < s

(* The line the controllers interrupt for. *)
Chosen(l) ==
  /\ l \in irr /\ Urgent(l)
  /\ \A k \in irr \ {l} :
       Urgent(k) => \/ MasterLine(l) < MasterLine(k)
                    \/ MasterLine(l) = MasterLine(k) /\ l < k

Served(l) == {l, MasterLine(l)}

(* The unspecific end-of-interrupt command: the most urgent line is done.  *)
EndOfInterrupt(chip) == IF isr \cap chip = {} THEN {} ELSE {Min(isr \cap chip)}

AcceptedOneChip(mask) ==
  IF mask \cap Slave # {} THEN EndOfInterrupt(Slave)
  ELSE IF mask \cap Master # {} THEN EndOfInterrupt(Master) ELSE {}

(* pic_accept: the bytes of the mask are two flags. *)
Accepted(mask) ==
  (IF mask \cap Slave # {} THEN EndOfInterrupt(Slave) ELSE {})
    \cup (IF mask \cap Master # {} THEN EndOfInterrupt(Master) ELSE {})

MaskOfLine(n) == {n - PicOffset} \cap (0..15) \cap isr

(* pic_irq, and what isr_tail makes of it and the in-service registers: a  *)
(* slave's line leaves a bit in the low byte too.                          *)
Irq(n) == {n - PicOffset} \cap (0..15)

MaskOf(n) ==
  LET both == Irq(n) \cap isr
  IN  both \cup {b \in {1} : both \cap Slave # {}}

-----------------------------------------------------------------------------
(* The stack, word by word. *)
Entry == <<"flags", "cs", "eip", "error", "number">>
Pusha == <<"eax", "ecx", "edx", "ebx", "esp", "ebp", "esi", "edi">>
Segments == <<"code", "data">>
Arguments == [k \in 1..8 |-> "argument"]

Frame == Entry \o Pusha \o Segments \o Arguments

Drop(s, n) == SubSeq(s, 1, Len(s) - n)

StubStackBare == Entry \o Pusha \o Segments

(* isr_stub_stack: a stack as if its process had been interrupted. *)
StubStack == Entry \o Pusha \o Segments \o Arguments

(* context_switch: the stack without its own return address. *)
SwitchStack == stack

-----------------------------------------------------------------------------
Init ==
  /\ irr = {} /\ isr = {}
  /\ pc = "user" /\ number = Linux /\ ebx = {}
  /\ running = Boot /\ stack = << >>
  /\ saved = [c \in Contexts |-> << >>]
  /\ at = [c \in Contexts |-> "run"]
  /\ key = 255 /\ locked = FALSE /\ arrived = {}

Processes == {c \in Contexts \ {Boot} : c = running \/ saved[c] # << >>}

(* Nothing follows: the two ways the kernel stops, and a return that       *)
(* popped words for others.                                                *)
Stopped == pc \in {"panic", "halted", "lost"}

(* A device asks for attention. *)
Raise(l) ==
  /\ ~Stopped /\ l \notin irr
  /\ irr' = irr \cup {l}
  /\ UNCHANGED <<isr, pc, number, ebx, running, stack, saved, at, key, locked, arrived>>

(* The gate, the head and the pushes of isr_tail.  A processor that slept  *)
(* in int_wait's hlt is past it.                                           *)
Enter(n) ==
  /\ pc = "user"
  /\ pc' = "irq" /\ number' = n
  /\ stack' = stack \o Frame \o <<"number">>
  /\ at' = [at EXCEPT ![running] = IF @ = "hlt" THEN "check" ELSE @]
  /\ UNCHANGED <<running, saved, key, locked, arrived>>

Interrupt(l) ==
  /\ Chosen(l)
  /\ irr' = irr \ {l} /\ isr' = isr \cup Served(l)
  /\ ebx' \in UserMasks
  /\ Enter(PicOffset + l)

(* The request is gone when the processor acknowledges it: the controller  *)
(* answers with its last line and puts nothing in service, but a slave's   *)
(* glitch is in service at the master.                                     *)
Spurious ==
  /\ Glitches
  /\ \E n \in {7, 15} :
       /\ isr' = isr \cup ({2} \cap Served(n))
       /\ Enter(PicOffset + n)
  /\ ebx' \in UserMasks
  /\ UNCHANGED irr

Syscall ==
  /\ running # Boot
  /\ ebx' \in UserMasks
  /\ Enter(Linux)
  /\ UNCHANGED <<irr, isr>>

CheckIrqUnchecked ==
  /\ pc = "irq"
  /\ ebx' = IF Irq(number) = {} THEN ebx ELSE MaskOf(number)
  /\ pc' = "common"
  /\ UNCHANGED <<irr, isr, number, running, stack, saved, at, key, locked, arrived>>

(* Only a line found in service goes on to the handler: "this value should *)
(* be checked ... in order to discard spurious interrupts" (pic.h).        *)
CheckIrq ==
  /\ pc = "irq"
  /\ IF Irq(number) = {}
       THEN pc' = "common" /\ UNCHANGED ebx
       ELSE /\ ebx' = MaskOf(number)
            /\ pc' = IF MaskOf(number) = {} THEN "leave" ELSE "common"
  /\ UNCHANGED <<irr, isr, number, running, stack, saved, at, key, locked, arrived>>

CommonHandleAny ==
  /\ pc = "common"
  /\ pc' = "handler"
  /\ locked' = FALSE
  /\ arrived' = arrived \cup {number}
  /\ stack' = Drop(stack, 1)
  /\ UNCHANGED <<irr, isr, number, ebx, running, saved, at, key>>

CommonHandleByLine ==
  /\ pc = "common"
  /\ pc' = "handler"
  /\ locked' = (locked /\ Irq(number) # {key})
  /\ arrived' = arrived \cup {number}
  /\ stack' = Drop(stack, 1)
  /\ UNCHANGED <<irr, isr, number, ebx, running, saved, at, key>>

(* int_common_handle; then its argument comes off the stack. *)
CommonHandle ==
  /\ pc = "common"
  /\ pc' = "handler"
  /\ locked' = (locked /\ number # key)
  /\ arrived' = arrived \cup {number}
  /\ stack' = Drop(stack, 1)
  /\ UNCHANGED <<irr, isr, number, ebx, running, saved, at, key>>

(* What the handler called does; a system call may return or panic. *)
Does(what) == IF number = Linux THEN what \in {"quiet", "debug"}
                                    ELSE Service[number - PicOffset] = what

(* A handler that leaves the stacks alone, one with a null pointer, and a  *)
(* system call that returns.                                               *)
HandleQuietly ==
  /\ pc = "handler"
  /\ Does("quiet")
  /\ pc' = "leave"
  /\ UNCHANGED <<irr, isr, number, ebx, running, stack, saved, at, key, locked, arrived>>

(* sys_exit halts with the interrupts off. *)
Exit ==
  /\ pc = "handler" /\ number = Linux
  /\ pc' = "halted"
  /\ UNCHANGED <<irr, isr, number, ebx, running, stack, saved, at, key, locked, arrived>>

(* int_debug_handle, and a system call that panics. *)
Panic ==
  /\ pc = "handler"
  /\ Does("debug")
  /\ pc' = "panic"
  /\ UNCHANGED <<irr, isr, number, ebx, running, stack, saved, at, key, locked, arrived>>

(* context_switch and isr_into_stack: the stack of the context left is put *)
(* aside, and the tail goes on on the stack the scheduler chooses: some    *)
(* process's, or the same while there is none.  start's stack is put aside *)
(* for good.                                                               *)
Switch(c) ==
  /\ pc = "handler" /\ Does("switch")
  /\ IF Processes = {} THEN c = running ELSE c \in Processes
  /\ saved' = [saved EXCEPT ![running] = SwitchStack, ![c] = << >>]
  /\ stack' = IF c = running THEN SwitchStack ELSE saved[c]
  /\ running' = c
  /\ pc' = "leave"
  /\ UNCHANGED <<irr, isr, number, ebx, at, key, locked, arrived>>

(* From isr_tail_no_handle on: the arguments come off, gdtr_switch reads   *)
(* the segments, pic_accept ends the interrupt, the rest is restored (EBX  *)
(* with it: its value matters at the next entry).                          *)
Leave ==
  /\ pc = "leave" /\ stack = Frame
  /\ isr' = isr \ Accepted(ebx)
  /\ stack' = Drop(stack, Len(Frame))
  /\ pc' = "user" /\ ebx' = {}
  /\ UNCHANGED <<irr, number, running, saved, at, key, locked, arrived>>

(* The same pops over any other stack: iret goes anywhere. *)
LeaveLost ==
  /\ pc = "leave" /\ stack # Frame
  /\ pc' = "lost"
  /\ UNCHANGED <<irr, isr, number, ebx, running, stack, saved, at, key, locked, arrived>>

-----------------------------------------------------------------------------
(* What runs between interrupts. *)

(* scheduler_create_process, the interrupts off. *)
CreateProcess(c) ==
  /\ pc = "user" /\ running = Boot /\ at[Boot] = "run"
  /\ c # Boot /\ saved[c] = << >>
  /\ saved' = [saved EXCEPT ![c] = StubStack]
  /\ UNCHANGED <<irr, isr, pc, number, ebx, running, stack, at, key, locked, arrived>>

(* int_lock; the device is told to work after it.  start may wait so until *)
(* it has made a process: after that it is not scheduled any more, and a   *)
(* system call runs with the interrupts off.                               *)
Lock(l) ==
  /\ pc = "user" /\ Processes = {} /\ running = Boot /\ at[Boot] = "run"
  /\ key' = PicOffset + l /\ locked' = TRUE /\ arrived' = {}
  /\ at' = [at EXCEPT ![Boot] = "armed"]
  /\ UNCHANGED <<irr, isr, pc, number, ebx, running, stack, saved>>

(* int_wait: sleep until some interrupt, and again while the fence is up.  *)
Sleep ==
  /\ pc = "user"
  /\ \/ at[running] = "armed"
     \/ at[running] = "check" /\ locked
  /\ at' = [at EXCEPT ![running] = "hlt"]
  /\ UNCHANGED <<irr, isr, pc, number, ebx, running, stack, saved, key, locked, arrived>>

WakeUp ==
  /\ pc = "user" /\ at[running] = "check" /\ ~locked
  /\ at' = [at EXCEPT ![running] = "run"]
  /\ UNCHANGED <<irr, isr, pc, number, ebx, running, stack, saved, key, locked, arrived>>

-----------------------------------------------------------------------------
Handler == CheckIrq \/ CommonHandle \/ HandleQuietly \/ Exit \/ Panic \/ Leave \/ LeaveLost

Next == \/ \E l \in Lines : Raise(l) \/ Interrupt(l) \/ Lock(l)
        \/ \E c \in Contexts : Switch(c) \/ CreateProcess(c)
        \/ Spurious \/ Syscall \/ Handler \/ Sleep \/ WakeUp

Expected == {l \in Lines : Service[l] # "debug"}

(* The processor goes on executing, if between interrupts only where no    *)
(* request is pending again and again; the devices of the lines with a     *)
(* handler answer; and a request that is the most urgent again and again   *)
(* is taken.                                                               *)
Fairness ==
  /\ WF_vars(Handler \/ \E c \in Contexts : Switch(c))
  /\ SF_vars(irr = {} /\ (Sleep \/ WakeUp))
  /\ \A l \in Expected : WF_vars(Raise(l)) /\ SF_vars(Interrupt(l))

Spec == Init /\ [][Next]_vars /\ Fairness

-----------------------------------------------------------------------------
(* The registers and the tail's stack have the shape the code gives them.  *)
TypeOK ==
  /\ irr \subseteq Lines /\ isr \subseteq 0..15 /\ ebx \subseteq 0..15
  /\ pc \in {"user", "irq", "common", "handler", "leave", "panic", "halted", "lost"}
  /\ number \in 0..255 /\ key \in 0..255
  /\ running \in Contexts
  /\ at \in [Contexts -> {"run", "armed", "hlt", "check"}]
  /\ locked \in BOOLEAN

(* Where the tail starts to pop, the stack it is on, its own or another    *)
(* context's, holds the eight arguments on the segments on the registers   *)
(* on the return address, and nothing else: the context goes on with the   *)
(* state it was interrupted with (routine.asm, "Arguments were pushed      *)
(* before so we always pop them here").                                    *)
FrameIntact == pc = "leave" => stack = Frame

(* A handler, the fence's and the registered one, works for an interrupt   *)
(* the controllers have in service, never for one that was withdrawn       *)
(* (pic.h: "to discard spurious interrupts"), which on line 7 looks like   *)
(* the printer's and on line 15 like the second disk's.                    *)
HandlesServedOnly ==
  pc \in {"common", "handler"} => Irq(number) \subseteq isr

(* No line stays in service once its handler has returned, at neither      *)
(* controller: a line left there would never interrupt again (pic_accept). *)
NothingLeftInService == pc = "user" => isr = {}

(* The inductive invariant behind these, with requests that stay: at every *)
(* point of the tail the stack in use holds what has been pushed so far,   *)
(* a stack put aside holds a whole frame, and what is in service, with the *)
(* mask for its end, is what the number on the stack says.                 *)
StacksInv ==
  /\ pc = "user" => stack = << >>
  /\ pc \in {"irq", "common"} => stack = Frame \o <<"number">>
  /\ pc \in {"handler", "leave"} => stack = Frame
  /\ saved \in [Contexts -> {<< >>, Frame}] /\ saved[running] = << >>
ServiceInv ==
  /\ pc = "user" => isr = {}
  /\ pc \in {"irq", "common", "handler", "leave"} =>
       \/ number = Linux /\ isr = {}
       \/ \E l \in Lines :
            /\ number = PicOffset + l /\ isr = Served(l)
            /\ pc # "irq" => ebx = MaskOf(number)

TailInv == TypeOK /\ StacksInv /\ ServiceInv

(* The end-of-interrupt commands end the interrupt they are sent for: the  *)
(* mask of a timer interrupt survives the change of stacks, and what a     *)
(* program holds in EBX at a system call, which pic_accept takes for a     *)
(* mask, ends nothing.                                                     *)
EndsItsOwn ==
  [][Leave => isr \ isr' = UNION {Served(l) : l \in Irq(number)}]_vars

(* int_wait returns only when the interrupt of the last int_lock has come  *)
(* since (interrupt.h).                                                    *)
WaitsForIt == [][WakeUp => key \in arrived]_vars

(* ... and it returns if the interrupt comes, though it may come before    *)
(* the processor sleeps: then the timer wakes it.  The waiter's line is    *)
(* one with a handler, and now and then no request is pending.             *)
WaitEnds ==
  []<>(Stopped \/ (pc = "user" /\ irr = {}))
    => ((at[Boot] = "armed" /\ Irq(key) \subseteq Expected)
          ~> (at[Boot] = "run" \/ Stopped))

=============================================================================
