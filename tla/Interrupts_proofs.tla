------------------------- MODULE Interrupts_proofs -------------------------
(***************************************************************************)
(* The tail of the interrupts, for every set of lines and handlers, every  *)
(* number of processes and whatever programs hold in EBX: the stacks and   *)
(* the end of an interrupt as long as requests stay until they are         *)
(* acknowledged, what is handled and the fence of int_wait in any case.    *)
(***************************************************************************)
EXTENDS Interrupts, SequenceTheorems, TLAPS

Steady == ~Glitches

(* What the kernel saves, word by word. *)
Words == {"flags", "cs", "eip", "error", "number", "eax", "ecx", "edx", "ebx",
          "esp", "ebp", "esi", "edi", "code", "data", "argument"}

LEMMA FrameType == Frame \in Seq(Words) /\ Frame # << >> /\ StubStack = Frame
<1>1. Entry \in Seq(Words)
  BY DEF Entry, Words
<1>2. Pusha \in Seq(Words)
  BY DEF Pusha, Words
<1>3. Segments \in Seq(Words)
  BY DEF Segments, Words
<1>4. Arguments \in Seq(Words)
  BY DEF Arguments, Words
<1>5. Entry \o Pusha \in Seq(Words)
  BY <1>1, <1>2, ConcatProperties
<1>6. Entry \o Pusha \o Segments \in Seq(Words)
  BY <1>3, <1>5, ConcatProperties
<1>7. Frame \in Seq(Words)
  BY <1>4, <1>6, ConcatProperties DEF Frame
<1>8. Frame # << >>
  <2>1. Len(Segments) = 2 /\ Len(Arguments) \in Nat /\ Len(Entry \o Pusha) \in Nat
    BY <1>4, <1>5, LenProperties DEF Segments
  <2>2. Len(Frame) = Len(Entry \o Pusha) + Len(Segments) + Len(Arguments)
    BY <1>3, <1>4, <1>5, <1>6, ConcatProperties DEF Frame
  <2> QED BY <2>1, <2>2
<1> QED BY <1>7, <1>8 DEF Frame, StubStack

(* What the tail pushes in one routine and pops in another: add esp, 4     *)
(* over the argument of pic_irq, and the pops of isr_tail_no_handle over   *)
(* the frame.                                                              *)
LEMMA Pops ==
  /\ Drop(Frame \o <<"number">>, 1) = Frame
  /\ Drop(Frame, Len(Frame)) = << >>
  /\ << >> \o Frame = Frame
  /\ Frame # << >>
<1>1. Frame \in Seq(Words) /\ <<"number">> \in Seq(Words) /\ Len(<<"number">>) = 1
  BY FrameType DEF Words
<1> HIDE DEF Frame
<1>2. Len(Frame) \in Nat
  BY <1>1, LenProperties
<1>3. Drop(Frame, Len(Frame)) = << >>
  BY <1>1, <1>2, SubSeqEmpty DEF Drop
<1>4. << >> \o Frame = Frame
  BY <1>1, ConcatEmptySeq
<1>5. Drop(Frame \o <<"number">>, 1) = Frame
  <2>1. Len(Frame \o <<"number">>) - 1 = Len(Frame)
    BY <1>1, <1>2, ConcatProperties
  <2>2. SubSeq(Frame \o <<"number">>, 1, Len(Frame)) = Frame
    <3>1. Len(Frame) # 0
      BY <1>1, EmptySeq, FrameType
    <3>2. 1 \in 1..Len(Frame) /\ Len(Frame) \in 1..Len(Frame)
      BY <1>2, <3>1
    <3> QED BY <1>1, <3>2, SubSeqOfConcat1, SubSeqFull
  <2> QED BY <2>1, <2>2 DEF Drop
<1> QED BY <1>3, <1>4, <1>5, FrameType

(* The controllers and pic_accept: with one line in service and its mask   *)
(* in EBX, the end-of-interrupts leave nothing in service and end nothing  *)
(* else; with none in service they do nothing, whatever EBX holds.         *)
LEMMA MinOfOne == \A x \in Int : Min({x}) = x
BY DEF Min

LEMMA LineFacts ==
  ASSUME NEW l \in Lines
  PROVE  /\ l \in (0..15) \ {2} /\ PicOffset + l \in 32..47 /\ PicOffset + l # Linux
         /\ Irq(PicOffset + l) = {l}
         /\ Served(l) \subseteq 0..15 /\ Irq(PicOffset + l) \cap Served(l) = {l}
<1>1. l \in (0..15) \ {2}
  BY LinesAssumption
<1>2. Irq(PicOffset + l) = {l}
  <2>1. (PicOffset + l) - PicOffset = l
    BY <1>1 DEF PicOffset
  <2> QED BY <1>1, <2>1 DEF Irq
<1>3. l \in Served(l) /\ Served(l) \subseteq 0..15
  BY <1>1 DEF Served, MasterLine, Slave
<1> QED BY <1>1, <1>2, <1>3 DEF PicOffset, Linux

LEMMA AcceptedAll ==
  ASSUME NEW l \in Lines, isr = Served(l), ebx = MaskOf(PicOffset + l)
  PROVE  Accepted(ebx) = isr
<1>1. l \in (0..15) \ {2} /\ Irq(PicOffset + l) \cap isr = {l}
  BY LineFacts
<1>2. CASE l \in Slave
  <2>1. ebx = {l, 1} /\ isr = {l, 2}
    BY <1>1, <1>2 DEF MaskOf, Served, MasterLine
  <2>2. isr \cap Slave = {l} /\ isr \cap Master = {2}
    <3>1. 2 \in Master /\ 2 \notin Slave /\ l \notin Master
      BY <1>2 DEF Slave, Master
    <3> QED BY <1>2, <2>1, <3>1
  <2>3. ebx \cap Slave # {} /\ ebx \cap Master # {}
    BY <1>2, <2>1 DEF Slave, Master
  <2>4. EndOfInterrupt(Slave) = {l} /\ EndOfInterrupt(Master) = {2}
    BY <1>1, <2>2, MinOfOne DEF EndOfInterrupt
  <2> QED BY <2>1, <2>3, <2>4 DEF Accepted
<1>3. CASE l \notin Slave
  <2>1. ebx = {l} /\ isr = {l}
    BY <1>1, <1>3 DEF MaskOf, Served, MasterLine
  <2>2. isr \cap Slave = {} /\ isr \cap Master = {l} /\ l \in Master
    <3>1. l \in Master
      BY <1>1, <1>3 DEF Slave, Master
    <3> QED BY <1>3, <2>1, <3>1
  <2>3. ebx \cap Slave = {} /\ ebx \cap Master # {}
    BY <1>3, <2>1, <2>2
  <2>4. EndOfInterrupt(Master) = {l}
    BY <1>1, <2>2, MinOfOne DEF EndOfInterrupt
  <2> QED BY <2>1, <2>3, <2>4 DEF Accepted
<1> QED BY <1>2, <1>3

LEMMA AcceptedNone == isr = {} => Accepted(ebx) = {}
BY DEF Accepted, EndOfInterrupt

LEMMA SyscallIsNoIrq == Irq(Linux) = {}
BY DEF Irq, Linux, PicOffset

-----------------------------------------------------------------------------
(* One step of the kernel or of a device. *)
LEMMA TailInit == Init => TailInv
<1> SUFFICES ASSUME Init PROVE TailInv
  OBVIOUS
<1>1. TypeOK
  <2>1. at \in [Contexts -> {"run", "armed", "hlt", "check"}]
    BY DEF Init
  <2>2. number \in 0..255 /\ key \in 0..255 /\ running \in Contexts
    BY ContextsAssumption DEF Init, Linux
  <2>3. locked \in BOOLEAN /\ irr \subseteq Lines
    BY DEF Init
  <2>4. /\ isr \subseteq 0..15 /\ ebx \subseteq 0..15
        /\ pc \in {"user", "irq", "common", "handler", "leave", "panic",
                   "halted", "lost"}
    BY DEF Init
  <2> QED BY <2>1, <2>2, <2>3, <2>4 DEF TypeOK
<1>2. StacksInv
  BY ContextsAssumption DEF Init, StacksInv
<1>3. ServiceInv
  BY DEF Init, ServiceInv
<1> QED BY <1>1, <1>2, <1>3 DEF TailInv

LEMMA EnterStack ==
  ASSUME NEW n, TailInv, Enter(n)
  PROVE  /\ pc' = "irq" /\ number' = n
         /\ StacksInv'
         /\ at' \in [Contexts -> {"run", "armed", "hlt", "check"}]
         /\ UNCHANGED <<running, saved, key, locked>>
<1>1. /\ pc = "user" /\ pc' = "irq" /\ number' = n
      /\ stack' = stack \o Frame \o <<"number">>
      /\ at' = [at EXCEPT ![running] = IF @ = "hlt" THEN "check" ELSE @]
      /\ UNCHANGED <<running, saved, key, locked, arrived>>
  BY DEF Enter
<1>2. stack = << >>
  BY <1>1 DEF TailInv, StacksInv
<1>3. stack' = Frame \o <<"number">>
  BY <1>1, <1>2, Pops
<1>4. StacksInv'
  BY <1>1, <1>3 DEF TailInv, StacksInv
<1>5. at' \in [Contexts -> {"run", "armed", "hlt", "check"}]
  BY <1>1 DEF TailInv, TypeOK
<1> QED BY <1>1, <1>4, <1>5

LEMMA InterruptInv ==
  ASSUME NEW l \in Lines, TailInv, Interrupt(l)
  PROVE  TailInv'
<1>1. /\ irr' = irr \ {l} /\ isr' = isr \cup Served(l) /\ ebx' \in UserMasks
      /\ pc = "user" /\ Enter(PicOffset + l)
  BY DEF Interrupt, Enter
<1>2. /\ pc' = "irq" /\ number' = PicOffset + l
      /\ StacksInv'
      /\ at' \in [Contexts -> {"run", "armed", "hlt", "check"}]
      /\ UNCHANGED <<running, saved, key, locked>>
  BY <1>1, EnterStack
<1>3. isr' = Served(l)
  BY <1>1 DEF TailInv, ServiceInv
<1>4. ServiceInv'
  BY <1>2, <1>3 DEF ServiceInv
<1>5. ebx' \subseteq 0..15 /\ isr' \subseteq 0..15 /\ number' \in 0..255
  BY <1>1, <1>2, <1>3, LineFacts, ContextsAssumption
<1>6. TypeOK'
  BY <1>1, <1>2, <1>5 DEF TailInv, TypeOK
<1> QED BY <1>2, <1>4, <1>6 DEF TailInv

LEMMA SyscallInv == TailInv /\ Syscall => TailInv'
<1> SUFFICES ASSUME TailInv, Syscall PROVE TailInv'
  OBVIOUS
<1>1. ebx' \in UserMasks /\ pc = "user" /\ Enter(Linux) /\ UNCHANGED <<irr, isr>>
  BY DEF Syscall, Enter
<1>2. /\ pc' = "irq" /\ number' = Linux
      /\ StacksInv'
      /\ at' \in [Contexts -> {"run", "armed", "hlt", "check"}]
      /\ UNCHANGED <<running, saved, key, locked>>
  BY <1>1, EnterStack
<1>3. ServiceInv'
  BY <1>1, <1>2 DEF TailInv, ServiceInv
<1>4. ebx' \subseteq 0..15 /\ number' \in 0..255
  BY <1>1, <1>2, ContextsAssumption DEF Linux
<1>5. TypeOK'
  BY <1>1, <1>2, <1>4 DEF TailInv, TypeOK
<1> QED BY <1>2, <1>3, <1>5 DEF TailInv

LEMMA CheckIrqInv == TailInv /\ CheckIrq => TailInv'
<1> SUFFICES ASSUME TailInv, CheckIrq PROVE TailInv'
  OBVIOUS
<1>1. /\ pc = "irq"
      /\ IF Irq(number) = {}
           THEN pc' = "common" /\ UNCHANGED ebx
           ELSE /\ ebx' = MaskOf(number)
                /\ pc' = IF MaskOf(number) = {} THEN "leave" ELSE "common"
      /\ UNCHANGED <<irr, isr, number, running, stack, saved, at, key, locked, arrived>>
  BY DEF CheckIrq
<1>2. CASE number = Linux /\ isr = {}
  <2>1. pc' = "common" /\ UNCHANGED ebx
    BY <1>1, <1>2, SyscallIsNoIrq
  <2> QED BY <1>1, <1>2, <2>1 DEF TailInv, TypeOK, StacksInv, ServiceInv
<1>3. ASSUME NEW l \in Lines, number = PicOffset + l, isr = Served(l)
      PROVE  TailInv'
  <2>1. Irq(number) = {l} /\ Irq(number) \cap isr = {l} /\ l \in 0..15
    BY <1>3, LineFacts
  <2>2. l \in MaskOf(number) /\ MaskOf(number) \subseteq 0..15
    BY <2>1 DEF MaskOf
  <2>3. ebx' = MaskOf(number) /\ pc' = "common"
    BY <1>1, <2>1, <2>2
  <2>4. MaskOf(number)' = MaskOf(number)
    BY <1>1 DEF MaskOf, Irq
  <2>5. ServiceInv'
    BY <1>1, <1>3, <2>3, <2>4 DEF ServiceInv, Served, MaskOf, Irq
  <2> QED BY <1>1, <2>2, <2>3, <2>5 DEF TailInv, TypeOK, StacksInv
<1> QED BY <1>1, <1>2, <1>3 DEF TailInv, ServiceInv

LEMMA CommonHandleInv == TailInv /\ CommonHandle => TailInv'
<1> SUFFICES ASSUME TailInv, CommonHandle PROVE TailInv'
  OBVIOUS
<1>1. /\ pc = "common" /\ pc' = "handler"
      /\ locked' = (locked /\ number # key)
      /\ stack' = Drop(stack, 1)
      /\ UNCHANGED <<irr, isr, number, ebx, running, saved, at, key>>
  BY DEF CommonHandle
<1>2. stack' = Frame
  BY <1>1, Pops DEF TailInv, StacksInv
<1>3. StacksInv'
  BY <1>1, <1>2 DEF TailInv, StacksInv
<1>4. ServiceInv'
  BY <1>1 DEF TailInv, ServiceInv, MaskOf, Irq
<1>5. locked' \in BOOLEAN
  BY <1>1
<1>6. TypeOK'
  BY <1>1, <1>5 DEF TailInv, TypeOK
<1> QED BY <1>3, <1>4, <1>6 DEF TailInv

(* The timer's handler: the stack left is whole, and so is the one entered.*)
LEMMA SwitchInv ==
  ASSUME NEW c \in Contexts, TailInv, Switch(c)
  PROVE  TailInv'
<1>1. /\ pc = "handler" /\ pc' = "leave"
      /\ IF Processes = {} THEN c = running ELSE c \in Processes
      /\ saved' = [saved EXCEPT ![running] = stack, ![c] = << >>]
      /\ stack' = IF c = running THEN stack ELSE saved[c]
      /\ running' = c
      /\ UNCHANGED <<irr, isr, number, ebx, at, key, locked, arrived>>
  BY DEF Switch, SwitchStack
<1>2. stack = Frame /\ saved \in [Contexts -> {<< >>, Frame}] /\ running \in Contexts
  BY <1>1 DEF TailInv, StacksInv, TypeOK
<1>3. c # running => saved[c] = Frame
  BY <1>1, <1>2 DEF Processes
<1>4. StacksInv'
  BY <1>1, <1>2, <1>3 DEF StacksInv
<1>5. ServiceInv'
  BY <1>1 DEF TailInv, ServiceInv, MaskOf, Irq
<1>6. TypeOK'
  BY <1>1 DEF TailInv, TypeOK
<1> QED BY <1>4, <1>5, <1>6 DEF TailInv

LEMMA LeaveInv == TailInv /\ Leave => TailInv' /\ isr' = {}
<1> SUFFICES ASSUME TailInv, Leave PROVE TailInv' /\ isr' = {}
  OBVIOUS
<1>1. /\ pc = "leave" /\ stack = Frame /\ isr' = isr \ Accepted(ebx)
      /\ stack' = Drop(stack, Len(Frame)) /\ pc' = "user" /\ ebx' = {}
      /\ UNCHANGED <<irr, number, running, saved, at, key, locked, arrived>>
  BY DEF Leave
<1>2. isr' = {}
  <2>1. CASE isr = {}
    BY <1>1, <2>1
  <2>2. ASSUME NEW l \in Lines, isr = Served(l), ebx = MaskOf(PicOffset + l)
        PROVE  isr' = {}
    BY <1>1, <2>2, AcceptedAll
  <2> QED BY <1>1, <2>1, <2>2 DEF TailInv, ServiceInv
<1>3. stack' = << >>
  BY <1>1, Pops
<1>4. StacksInv' /\ ServiceInv'
  BY <1>1, <1>2, <1>3 DEF TailInv, StacksInv, ServiceInv
<1>5. TypeOK'
  BY <1>1, <1>2 DEF TailInv, TypeOK
<1> QED BY <1>2, <1>4, <1>5 DEF TailInv

(* What neither pushes nor pops nor ends anything. *)
LEMMA QuietInv ==
  ASSUME TailInv,
         \/ \E l \in Lines : Raise(l) \/ Lock(l)
         \/ \E c \in Contexts : CreateProcess(c)
         \/ HandleQuietly \/ Exit \/ Panic \/ LeaveLost \/ Sleep \/ WakeUp
         \/ UNCHANGED vars
  PROVE  TailInv'
<1> USE DEF TailInv, StacksInv, ServiceInv, MaskOf, Irq
<1>1. ASSUME NEW l \in Lines, Raise(l) PROVE TailInv'
  BY <1>1 DEF Raise, TypeOK
<1>2. ASSUME NEW l \in Lines, Lock(l) PROVE TailInv'
  <2>1. key' \in 0..255
    BY <1>2, LineFacts DEF Lock
  <2>2. TypeOK'
    BY <1>2, <2>1 DEF Lock, TypeOK
  <2> QED BY <1>2, <2>2 DEF Lock
<1>3. ASSUME NEW c \in Contexts, CreateProcess(c) PROVE TailInv'
  <2>1. saved' = [saved EXCEPT ![c] = Frame] /\ c # running
    BY <1>3, FrameType DEF CreateProcess
  <2>2. TypeOK'
    BY <1>3 DEF CreateProcess, TypeOK
  <2> QED BY <1>3, <2>1, <2>2 DEF CreateProcess
<1>4. CASE HandleQuietly
  BY <1>4 DEF HandleQuietly, TypeOK
<1>5. CASE Exit
  BY <1>5 DEF Exit, TypeOK
<1>7. CASE Panic
  BY <1>7 DEF Panic, TypeOK
<1>8. CASE LeaveLost
  BY <1>8 DEF LeaveLost, TypeOK
<1>9. CASE Sleep
  BY <1>9 DEF Sleep, TypeOK
<1>10. CASE WakeUp
  BY <1>10 DEF WakeUp, TypeOK
<1>6. CASE UNCHANGED vars
  BY <1>6 DEF vars, TypeOK
<1> QED BY <1>1, <1>2, <1>3, <1>4, <1>5, <1>6, <1>7, <1>8, <1>9, <1>10

LEMMA TailStep == Steady /\ TailInv /\ [Next]_vars => TailInv'
<1> SUFFICES ASSUME Steady, TailInv, [Next]_vars PROVE TailInv'
  OBVIOUS
<1>1. ~Spurious
  BY DEF Steady, Spurious
<1> QED BY <1>1, QuietInv, InterruptInv, SyscallInv, CheckIrqInv, CommonHandleInv,
           SwitchInv, LeaveInv
        DEF Next, Handler

-----------------------------------------------------------------------------
(* The inductive invariant of the tail. *)
THEOREM TailInductive == Steady /\ Spec => []TailInv
<1> SUFFICES ASSUME Steady PROVE Spec => []TailInv
  OBVIOUS
<1>1. TailInv /\ [Next]_vars => TailInv'
  BY TailStep
<1> QED BY <1>1, TailInit, PTL DEF Spec

(* Wherever isr_tail starts to pop, on whatever stack, it finds a whole    *)
(* frame: it never resumes a context wrongly.                              *)
THEOREM FramesIntact == Steady /\ Spec => []FrameIntact
<1>1. TailInv => FrameIntact
  BY DEF TailInv, StacksInv, FrameIntact
<1> QED BY <1>1, TailInductive, PTL

(* After the iret nothing is left in service, at neither controller.       *)
THEOREM NothingStuck == Steady /\ Spec => []NothingLeftInService
<1>1. TailInv => NothingLeftInService
  BY DEF TailInv, ServiceInv, NothingLeftInService
<1> QED BY <1>1, TailInductive, PTL

(* pic_accept ends the interrupt served and no other, whatever the program *)
(* that made a system call held in EBX.                                    *)
THEOREM EndsCorrectly == Steady /\ Spec => EndsItsOwn
<1>1. TailInv /\ [Next]_vars
        => [Leave => isr \ isr' = UNION {Served(l) : l \in Irq(number)}]_vars
  <2> SUFFICES ASSUME TailInv, Leave
               PROVE  isr \ isr' = UNION {Served(l) : l \in Irq(number)}
    OBVIOUS
  <2>1. isr' = {}
    BY LeaveInv
  <2>2. CASE number = Linux /\ isr = {}
    BY <2>1, <2>2, SyscallIsNoIrq
  <2>3. ASSUME NEW l \in Lines, number = PicOffset + l, isr = Served(l)
        PROVE  isr \ isr' = UNION {Served(k) : k \in Irq(number)}
    BY <2>1, <2>3, LineFacts
  <2> QED BY <2>2, <2>3 DEF TailInv, ServiceInv, Leave
<1> QED BY <1>1, TailInductive, PTL DEF Spec, EndsItsOwn

-----------------------------------------------------------------------------
(* The next two hold with requests withdrawn as well, so neither assumes   *)
(* Steady.                                                                 *)

(* isr_tail's test of the in-service registers and what follows it: from   *)
(* there to the handler's return no controller changes what is in service. *)
LEMMA ServedStep ==
  HandlesServedOnly /\ [Next]_vars => HandlesServedOnly'
<1> SUFFICES ASSUME HandlesServedOnly, [Next]_vars, pc' \in {"common", "handler"}
             PROVE  (Irq(number) \subseteq isr)'
  BY DEF HandlesServedOnly
<1> USE DEF HandlesServedOnly, Irq
<1>1. ASSUME NEW l \in Lines, Raise(l) PROVE (Irq(number) \subseteq isr)'
  BY <1>1 DEF Raise
<1>2. ASSUME NEW n, Enter(n) PROVE FALSE
  BY <1>2 DEF Enter
<1>3. CASE CheckIrq
  <2>1. UNCHANGED <<isr, number>>
    BY <1>3 DEF CheckIrq
  <2>2. CASE Irq(number) = {}
    BY <2>1, <2>2
  <2>3. CASE Irq(number) # {}
    <3>1. MaskOf(number) # {}
      BY <1>3, <2>3 DEF CheckIrq
    <3>2. Irq(number) \cap isr # {}
      BY <3>1 DEF MaskOf
    <3> QED BY <2>1, <3>2
  <2> QED BY <2>2, <2>3
<1>4. CASE CommonHandle
  BY <1>4 DEF CommonHandle
<1>5. CASE HandleQuietly \/ Exit \/ Panic \/ Leave \/ LeaveLost
  BY <1>5 DEF HandleQuietly, Exit, Panic, Leave, LeaveLost
<1>6. ASSUME NEW c \in Contexts, Switch(c) PROVE FALSE
  BY <1>6 DEF Switch
<1>7. ASSUME NEW c \in Contexts, CreateProcess(c) PROVE FALSE
  BY <1>7 DEF CreateProcess
<1>8. ASSUME NEW l \in Lines, Lock(l) PROVE FALSE
  BY <1>8 DEF Lock
<1>9. CASE Sleep \/ WakeUp
  BY <1>9 DEF Sleep, WakeUp
<1>10. CASE UNCHANGED vars
  BY <1>10 DEF vars
<1>11. CASE Spurious
  BY <1>2, <1>11 DEF Spurious
<1>12. CASE Syscall
  BY <1>2, <1>12 DEF Syscall
<1>13. ASSUME NEW l \in Lines, Interrupt(l) PROVE FALSE
  BY <1>2, <1>13 DEF Interrupt
<1> QED BY <1>1, <1>3, <1>4, <1>5, <1>6, <1>7, <1>8, <1>9, <1>10, <1>11, <1>12, <1>13
        DEF Next, Handler

(* No handler runs for a request that was withdrawn: of pic_irq's line,    *)
(* isr_tail finds the bit in service or leaves.                            *)
THEOREM ServedOnly == Spec => []HandlesServedOnly
<1>1. Init => HandlesServedOnly
  BY DEF Init, HandlesServedOnly
<1> QED BY <1>1, ServedStep, PTL DEF Spec

(* The fence: only start raises it, one at a time, and it comes down by    *)
(* the interrupt it was raised for.                                        *)
FenceInv ==
  /\ running \in Contexts
  /\ at \in [Contexts -> {"run", "armed", "hlt", "check"}]
  /\ \A c \in Contexts \ {Boot} : at[c] = "run"
  /\ at[Boot] # "run" => locked \/ key \in arrived

LEMMA FenceStep == FenceInv /\ [Next]_vars => FenceInv'
<1> SUFFICES ASSUME FenceInv, [Next]_vars PROVE FenceInv'
  OBVIOUS
<1> USE ContextsAssumption DEF FenceInv
<1>1. ASSUME NEW n, Enter(n) PROVE FenceInv'
  <2>1. /\ UNCHANGED <<running, key, locked, arrived>>
        /\ at' = [at EXCEPT ![running] = IF @ = "hlt" THEN "check" ELSE @]
    BY <1>1 DEF Enter
  <2>2. \A c \in Contexts : (at'[c] = "run") <=> (at[c] = "run")
    BY <2>1
  <2> QED BY <2>1, <2>2
<1>2. ASSUME NEW l \in Lines, Lock(l) PROVE FenceInv'
  BY <1>2 DEF Lock
<1>3. CASE CommonHandle
  BY <1>3 DEF CommonHandle
<1>4. CASE Sleep \/ WakeUp
  <2>1. /\ UNCHANGED <<running, key, locked, arrived>>
        /\ at[running] # "run"
        /\ at' \in {[at EXCEPT ![running] = "hlt"], [at EXCEPT ![running] = "run"]}
    BY <1>4 DEF Sleep, WakeUp
  <2>2. running = Boot
    BY <2>1
  <2> QED BY <2>1, <2>2
<1>5. ASSUME NEW c \in Contexts, Switch(c) PROVE FenceInv'
  BY <1>5 DEF Switch
<1>6. ASSUME UNCHANGED <<running, at, key, locked, arrived>> PROVE FenceInv'
  BY <1>6
<1>7. ASSUME \/ \E l \in Lines : Raise(l)
             \/ \E c \in Contexts : CreateProcess(c)
             \/ CheckIrq \/ HandleQuietly \/ Exit \/ Panic \/ Leave \/ LeaveLost
             \/ UNCHANGED vars
      PROVE  UNCHANGED <<running, at, key, locked, arrived>>
  BY <1>7 DEF Raise, CreateProcess, CheckIrq, HandleQuietly, Exit, Panic, Leave,
              LeaveLost, vars
<1>8. ASSUME NEW l \in Lines, Interrupt(l) PROVE FenceInv'
  BY <1>1, <1>8 DEF Interrupt
<1>9. CASE Spurious
  BY <1>1, <1>9 DEF Spurious
<1>10. CASE Syscall
  BY <1>1, <1>10 DEF Syscall
<1> QED BY <1>2, <1>3, <1>4, <1>5, <1>6, <1>7, <1>8, <1>9, <1>10 DEF Next, Handler

(* int_wait does not return before the interrupt that int_lock was called  *)
(* for has been handled, whatever else woke the processor up.              *)
THEOREM WaitsLongEnough == Spec => WaitsForIt
<1>1. Init => FenceInv
  BY ContextsAssumption DEF Init, FenceInv
<1>2. FenceInv /\ [Next]_vars => [WakeUp => key \in arrived]_vars
  <2> SUFFICES ASSUME FenceInv, WakeUp PROVE key \in arrived
    OBVIOUS
  <2>1. running = Boot /\ at[Boot] # "run" /\ ~locked
    BY DEF FenceInv, WakeUp
  <2> QED BY <2>1 DEF FenceInv
<1> QED BY <1>1, <1>2, FenceStep, PTL DEF Spec, WaitsForIt

=============================================================================
